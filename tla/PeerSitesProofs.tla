-------------------------- MODULE PeerSitesProofs --------------------------
(***************************************************************************)
(* For any sites, addresses and number of changes: types, the query site   *)
(* in every list, stale addresses, and that the observer's list is wrong   *)
(* only after a loss or a race.                                            *)
(***************************************************************************)
EXTENDS PeerSites, SequenceTheorems, TLAPS

\* A fetched list has the query site too.
FetchedHasQuerySite ==
    fetch.pc = "answered" => QuerySite \in fetch.siteList

\* A request under way has read the address in use, unless that is being
\* changed or its last change overtook the request.
RequestsAreFresh ==
    ~updating => \A s \in Site : registering[s] \in {None, localIp} \/ s \in overtaken

AddressInv == StaleAddressOnlyWhenRaced /\ RequestsAreFresh

Simple ==
    /\ TypeOK
    /\ EveryListHasQuerySite /\ FetchedHasQuerySite
    /\ AddressInv

LEMMA Facts ==
    /\ MaxChanges \in Nat /\ MaxMissed \in Nat /\ MaxTries \in Nat \ {0}
    /\ PingLimit \in Int /\ PingLimit < 1
    /\ FirstIp \in Ip /\ OwnIp \notin Ip /\ Loopback \notin Ip
    /\ None \notin Address /\ QuerySite \notin Site
  BY PeerAssumption, LimitAssumption DEF Address

LEMMA InitSimple == Init => Simple
<1> SUFFICES ASSUME Init PROVE Simple
  OBVIOUS
<1> USE Facts
<1>1. PeerTypeOK
  <2>1. /\ address = FirstIp /\ up = TRUE /\ localIp = Loopback
        /\ updating = FALSE /\ ready2StartMdnsService = FALSE
        /\ subscribed = FALSE /\ overtaken = {} /\ toPublish = {} /\ messages = {}
        /\ changes = 0
    BY DEF Init
  <2>2. record \in [Site -> Address \cup {None}]
    BY DEF Init
  <2>3. registering \in [Site -> Address \cup {None}]
    BY DEF Init
  <2>4. /\ up \in BOOLEAN /\ subscribed \in BOOLEAN
        /\ updating \in BOOLEAN /\ ready2StartMdnsService \in BOOLEAN
    BY <2>1
  <2>5. changes \in 0..MaxChanges
    BY <2>1
  <2>6. address \in Ip /\ localIp \in Address
    BY <2>1 DEF Address
  <2>7. overtaken \subseteq Site /\ toPublish \subseteq Message /\ messages \subseteq Message
    BY <2>1
  <2> QED BY <2>2, <2>3, <2>4, <2>5, <2>6, <2>7 DEF PeerTypeOK
<1>2. FetchTypeOK /\ FetchedHasQuerySite
  BY DEF Init, FetchTypeOK, FetchedHasQuerySite, Idle
<1>3. ViewTypeOK /\ EveryListHasQuerySite
  BY DEF Init, ViewTypeOK, EveryListHasQuerySite
<1>4. responses \in Seq(Ip \cup {OwnIp})
  BY DEF Init
<1>5. missed \in 0..MaxMissed /\ raced \in BOOLEAN /\ seen \in [Site -> 0..MaxChanges]
  <2>1. missed = 0 /\ raced = FALSE /\ seen = [s \in Site |-> 0]
    BY DEF Init
  <2>2. raced \in BOOLEAN
    BY <2>1
  <2>3. missed \in 0..MaxMissed /\ seen \in [Site -> 0..MaxChanges]
    BY <2>1
  <2> QED BY <2>2, <2>3
<1>6. AddressInv
  BY DEF Init, AddressInv, StaleAddressOnlyWhenRaced,
         RequestsAreFresh, init
<1> QED BY <1>1, <1>2, <1>3, <1>4, <1>5, <1>6 DEF Simple, TypeOK

-----------------------------------------------------------------------------
\* The rest of TypeOK.
RestTypeOK ==
    /\ responses \in Seq(Ip \cup {OwnIp})
    /\ missed \in 0..MaxMissed /\ raced \in BOOLEAN
    /\ seen \in [Site -> 0..MaxChanges]

\* What concerns the peer alone.
PeerSimple == PeerTypeOK /\ AddressInv

\* What concerns the observer's lists.
ListSimple == FetchTypeOK /\ ViewTypeOK /\ EveryListHasQuerySite /\ FetchedHasQuerySite

LEMMA SimpleParts == Simple => PeerSimple /\ ListSimple /\ RestTypeOK
  BY DEF Simple, TypeOK, PeerSimple, ListSimple, RestTypeOK

LEMMA SimpleFromParts == PeerSimple' /\ ListSimple' /\ RestTypeOK' => Simple'
  BY DEF Simple, TypeOK, PeerSimple, ListSimple, RestTypeOK

LEMMA PeerUnchanged ==
    ASSUME PeerSimple, UNCHANGED peerVars, messages' \subseteq messages
    PROVE  PeerSimple'
  BY DEF PeerSimple, PeerTypeOK, AddressInv, StaleAddressOnlyWhenRaced,
         RequestsAreFresh, init, peerVars

LEMMA ListUnchanged ==
    ASSUME ListSimple, UNCHANGED <<fetch, view>>
    PROVE  ListSimple'
  BY DEF ListSimple, FetchTypeOK, ViewTypeOK, EveryListHasQuerySite,
         FetchedHasQuerySite, view

LEMMA SiteRegisterSimple ==
    ASSUME Simple, NEW s \in Site, SiteRegister(s) PROVE PeerSimple'
<1> USE Facts DEF Simple, TypeOK, PeerTypeOK
<1>1. registering[s] \in Address
  BY DEF SiteRegister
<1>2. changes' \in 0..MaxChanges /\ changes + 1 \in 1..MaxChanges
  BY DEF SiteRegister, Change
<1>3. toPublish' \subseteq Message
  BY <1>1, <1>2 DEF SiteRegister, Says, Message
<1>4. record' \in [Site -> Address \cup {None}]
  BY <1>1 DEF SiteRegister
<1>5. registering' \in [Site -> Address \cup {None}]
  BY DEF SiteRegister
<1>6. overtaken' \subseteq Site
  BY DEF SiteRegister
<1>7. AddressInv'
  BY DEF SiteRegister, AddressInv, StaleAddressOnlyWhenRaced,
         RequestsAreFresh, init
<1> QED
  BY <1>2, <1>3, <1>4, <1>5, <1>6, <1>7 DEF SiteRegister, PeerSimple, init

LEMMA SiteUnregisterSimple ==
    ASSUME Simple, NEW s \in Site, SiteUnregister(s) PROVE PeerSimple'
<1> USE Facts DEF Simple, TypeOK, PeerTypeOK
<1>1. record[s] \in Address
  BY DEF SiteUnregister
<1>2. changes' \in 0..MaxChanges /\ changes + 1 \in 1..MaxChanges
  BY DEF SiteUnregister, Change
<1>3. toPublish' \subseteq Message
  BY <1>1, <1>2 DEF SiteUnregister, Says, Message
<1>4. record' \in [Site -> Address \cup {None}]
  BY DEF SiteUnregister
<1>5. AddressInv'
  BY DEF SiteUnregister, AddressInv, StaleAddressOnlyWhenRaced,
         RequestsAreFresh, init
<1> QED BY <1>2, <1>3, <1>4, <1>5 DEF SiteUnregister, PeerSimple, init

LEMMA PeerNextSimple == ASSUME Simple, Peer PROVE Simple'
<1>0. Simple
  OBVIOUS
<1> USE Facts
<1>1. ASSUME NEW s \in Site, ReadLocalIp(s) PROVE Simple'
  <2>1. UNCHANGED <<fetch, view>> /\ RestTypeOK'
    BY <1>0, SimpleParts, <1>1 DEF ReadLocalIp, RestTypeOK
  <2>2. PeerSimple'
    BY <1>0, SimpleParts, <1>1
    DEF PeerTypeOK, ReadLocalIp, PeerSimple, AddressInv, StaleAddressOnlyWhenRaced,
        RequestsAreFresh, init
  <2> QED BY <1>0, <2>1, <2>2, ListUnchanged, SimpleParts, SimpleFromParts
<1>2. ASSUME NEW s \in Site, SiteRegister(s) PROVE Simple'
  <2>1. UNCHANGED <<fetch, view>> /\ RestTypeOK'
    BY <1>0, SimpleParts, <1>2 DEF SiteRegister, RestTypeOK
  <2> QED BY <1>0, <1>2, <2>1, SiteRegisterSimple, ListUnchanged, SimpleParts, SimpleFromParts
<1>3. ASSUME NEW s \in Site, SiteUnregister(s) PROVE Simple'
  <2>1. UNCHANGED <<fetch, view>> /\ RestTypeOK'
    BY <1>0, SimpleParts, <1>3 DEF SiteUnregister, RestTypeOK
  <2> QED BY <1>0, <1>3, <2>1, SiteUnregisterSimple, ListUnchanged, SimpleParts, SimpleFromParts
<1>4. ASSUME NEW m \in toPublish, Publish(m) PROVE Simple'
  <2>1. UNCHANGED <<fetch, view>> /\ RestTypeOK'
    BY <1>0, SimpleParts, <1>4 DEF Publish, RestTypeOK
  <2>2. PeerSimple'
    BY <1>0, SimpleParts, <1>4
    DEF PeerTypeOK, Publish, PeerSimple, AddressInv, StaleAddressOnlyWhenRaced,
        RequestsAreFresh, init
  <2> QED BY <1>0, <2>1, <2>2, ListUnchanged, SimpleParts, SimpleFromParts
<1>5. CASE ChangeAddress
  <2>1. UNCHANGED <<fetch, view>> /\ RestTypeOK'
    BY <1>0, SimpleParts, <1>5 DEF ChangeAddress, RestTypeOK
  <2>2. PeerSimple'
    BY <1>0, SimpleParts, <1>5
    DEF PeerTypeOK, ChangeAddress, Change, PeerSimple, AddressInv, StaleAddressOnlyWhenRaced,
        RequestsAreFresh, init
  <2> QED BY <1>0, <2>1, <2>2, ListUnchanged, SimpleParts, SimpleFromParts
<1>6. CASE AssignLocalIp
  <2>1. UNCHANGED <<fetch, view>> /\ RestTypeOK'
    BY <1>0, SimpleParts, <1>6 DEF AssignLocalIp, RestTypeOK
  <2>2. localIp' \in Address /\ updating' = TRUE
    BY <1>0, SimpleParts, <1>6 DEF AssignLocalIp, PeerSimple, PeerTypeOK, Address
  <2>3. AddressInv'
    BY <2>2 DEF AddressInv, StaleAddressOnlyWhenRaced,
         RequestsAreFresh, init
  <2>4. PeerTypeOK'
    BY <1>0, SimpleParts, <1>6, <2>2 DEF AssignLocalIp, PeerSimple, PeerTypeOK
  <2> QED
    BY <1>0, <2>1, <2>3, <2>4, ListUnchanged, SimpleParts, SimpleFromParts DEF PeerSimple
<1>9. CASE UpdateLocalSiteIp
  <2>1. UNCHANGED <<fetch, view>> /\ RestTypeOK'
    BY <1>0, SimpleParts, <1>9 DEF UpdateLocalSiteIp, RestTypeOK
  <2>2. /\ record' = [s \in Site |-> IF record[s] = None THEN None ELSE localIp]
        /\ overtaken' = {s \in Site : registering[s] \notin {None, localIp}}
        /\ updating' = FALSE /\ ready2StartMdnsService' = TRUE
        /\ UNCHANGED <<address, up, localIp, registering, subscribed, toPublish,
                       changes, messages>>
    BY <1>9 DEF UpdateLocalSiteIp
  <2>3. AddressInv'
    BY <2>2 DEF AddressInv, StaleAddressOnlyWhenRaced,
         RequestsAreFresh, init
  <2>4. record' \in [Site -> Address \cup {None}] /\ overtaken' \subseteq Site
    BY <1>0, SimpleParts, <2>2 DEF PeerSimple, PeerTypeOK
  <2>5. updating' \in BOOLEAN /\ ready2StartMdnsService' \in BOOLEAN
    BY <2>2
  <2>6. PeerTypeOK'
    BY <1>0, SimpleParts, <2>2, <2>4, <2>5 DEF PeerSimple, PeerTypeOK
  <2> QED
    BY <1>0, <2>1, <2>3, <2>6, ListUnchanged, SimpleParts, SimpleFromParts DEF PeerSimple
<1>7. CASE Crash
  <2>1. UNCHANGED <<fetch, view>> /\ RestTypeOK'
    BY <1>0, SimpleParts, <1>7 DEF Crash, RestTypeOK
  <2>3. /\ up' = FALSE /\ localIp' = Loopback /\ toPublish' = {} /\ overtaken' = {}
        /\ updating' = FALSE /\ ready2StartMdnsService' = FALSE
        /\ record' = [s \in Site |-> None] /\ registering' = [s \in Site |-> None]
        /\ UNCHANGED <<address, subscribed, messages>>
    BY <1>7 DEF Crash
  <2>4. changes' \in 0..MaxChanges
    BY <1>0, SimpleParts, <1>7 DEF Crash, Change, PeerSimple, PeerTypeOK
  <2>5. /\ up' \in BOOLEAN
        /\ updating' \in BOOLEAN /\ ready2StartMdnsService' \in BOOLEAN
    BY <2>3
  <2>6. localIp' \in Address
    BY <2>3 DEF Address
  <2>2. PeerSimple'
    BY <1>0, SimpleParts, <2>3, <2>4, <2>5, <2>6
    DEF PeerSimple, PeerTypeOK, AddressInv, StaleAddressOnlyWhenRaced,
         RequestsAreFresh, init
  <2> QED BY <1>0, <2>1, <2>2, ListUnchanged, SimpleParts, SimpleFromParts
<1>8. CASE Restart
  <2>1. UNCHANGED <<fetch, view>> /\ RestTypeOK'
    BY <1>0, SimpleParts, <1>8 DEF Restart, RestTypeOK
  <2>2. PeerSimple'
    BY <1>0, SimpleParts, <1>8
    DEF PeerTypeOK, Restart, Change, PeerSimple, AddressInv, StaleAddressOnlyWhenRaced,
        RequestsAreFresh, init
  <2> QED BY <1>0, <2>1, <2>2, ListUnchanged, SimpleParts, SimpleFromParts
<1> QED
  BY <1>1, <1>2, <1>3, <1>4, <1>5, <1>6, <1>7, <1>8, <1>9 DEF Peer

-----------------------------------------------------------------------------
LEMMA PeerAnswersSimple ==
    ASSUME Simple, NEW ip, Answer(ip), ip \in Ip \cup {OwnIp} PROVE Simple'
<1>1. UNCHANGED <<peerVars, messages, fetch, view, missed, seen, raced>>
  BY DEF Answer
<1>2. responses' \in Seq(Ip \cup {OwnIp})
  BY SimpleParts DEF Answer, RestTypeOK
<1>3. RestTypeOK'
  BY <1>1, <1>2, SimpleParts DEF RestTypeOK
<1> QED
  BY <1>1, <1>3, PeerUnchanged, ListUnchanged, SimpleParts, SimpleFromParts

LEMMA LoseMessageSimple ==
    ASSUME Simple, NEW m \in messages, LoseMessage(m) PROVE Simple'
<1>1. /\ UNCHANGED <<peerVars, responses, fetch, view, missed, seen>>
      /\ messages' \subseteq messages
  BY DEF LoseMessage
<1>2. raced' \in BOOLEAN
  BY DEF LoseMessage
<1>3. RestTypeOK'
  BY <1>1, <1>2, SimpleParts DEF RestTypeOK
<1> QED
  BY <1>1, <1>3, PeerUnchanged, ListUnchanged, SimpleParts, SimpleFromParts

LEMMA UpdateFindSiteSimple ==
    ASSUME Simple, NEW m \in messages, UpdateFindSite(m) PROVE Simple'
<1>1. /\ UNCHANGED <<peerVars, responses, fetch, missed, discoveredPingCountMap>>
      /\ messages' \subseteq messages
  BY DEF UpdateFindSite
<1>2. m \in Message
  BY SimpleParts DEF PeerSimple, PeerTypeOK
<1>3. m.site \in Site /\ m.n \in 1..MaxChanges
  BY <1>2 DEF Message
<1>4. raced' \in BOOLEAN
  BY DEF UpdateFindSite
<1>5. seen' \in [Site -> 0..MaxChanges]
  BY <1>3, Facts, SimpleParts DEF UpdateFindSite, RestTypeOK
<1>6. RestTypeOK'
  BY <1>1, <1>4, <1>5, SimpleParts DEF RestTypeOK
<1>7. ASSUME NEW list \in SUBSET (Site \cup {QuerySite}), QuerySite \in list
      PROVE  Updated(list, m) \in SUBSET (Site \cup {QuerySite}) /\ QuerySite \in Updated(list, m)
  BY <1>3, <1>7, Facts DEF Updated
<1>8. /\ DOMAIN discoveredSiteMap' = DOMAIN discoveredSiteMap
      /\ \A ip \in DOMAIN discoveredSiteMap :
            discoveredSiteMap'[ip] \in {discoveredSiteMap[ip], Updated(discoveredSiteMap[ip], m)}
  BY DEF UpdateFindSite
<1>9. ListSimple'
  BY <1>1, <1>7, <1>8, SimpleParts
  DEF ListSimple, FetchTypeOK, ViewTypeOK, EveryListHasQuerySite, FetchedHasQuerySite
<1> QED BY <1>1, <1>6, <1>9, PeerUnchanged, SimpleParts, SimpleFromParts

LEMMA StoreSiteListSimple ==
    ASSUME Simple, StoreSiteList PROVE Simple'
<1> USE Facts
<1>1. UNCHANGED <<peerVars, messages, responses>>
  BY DEF StoreSiteList
<1>2. /\ fetch.ip \in Ip
      /\ fetch.siteList \subseteq Site \cup {QuerySite}
      /\ fetch.n \in 0..MaxChanges
      /\ QuerySite \in fetch.siteList
  BY SimpleParts DEF StoreSiteList, ListSimple, FetchTypeOK, FetchedHasQuerySite, Idle
<1>3. /\ raced' \in BOOLEAN
  BY DEF StoreSiteList, Gap
<1>4. /\ missed' \in 0..MaxMissed
      /\ seen' \in [Site -> 0..MaxChanges]
  BY <1>2, SimpleParts DEF StoreSiteList, RestTypeOK
<1>5. RestTypeOK'
  BY <1>1, <1>3, <1>4, SimpleParts DEF RestTypeOK
<1>6. FetchTypeOK' /\ FetchedHasQuerySite'
  BY <1>2 DEF StoreSiteList, FetchTypeOK, FetchedHasQuerySite
<1>7. /\ discoveredSiteMap' = Put(discoveredSiteMap, fetch.ip, fetch.siteList)
      /\ discoveredPingCountMap' = Put(discoveredPingCountMap, fetch.ip, 1)
  BY DEF StoreSiteList
<1>8. ViewTypeOK' /\ EveryListHasQuerySite'
  BY <1>2, <1>7, SimpleParts DEF Put, ListSimple, ViewTypeOK, EveryListHasQuerySite
<1>9. ListSimple'
  BY <1>6, <1>8 DEF ListSimple
<1> QED BY <1>1, <1>5, <1>9, PeerUnchanged, SimpleParts, SimpleFromParts

LEMMA QueueThreadSimple ==
    ASSUME Simple, QueueThread PROVE Simple'
<1> USE Facts
<1>1. CASE TakeAnswer
  <2>1. UNCHANGED <<peerVars, messages, view, missed, seen, raced>>
    BY <1>1 DEF TakeAnswer
  <2>2. responses \in Seq(Ip \cup {OwnIp}) /\ responses # <<>>
    BY <1>1, SimpleParts DEF TakeAnswer, RestTypeOK
  <2>3. Head(responses) \in Ip \cup {OwnIp} /\ Tail(responses) \in Seq(Ip \cup {OwnIp})
    BY <2>2, HeadTailProperties
  <2>4. RestTypeOK'
    BY <1>1, <2>1, <2>3, SimpleParts DEF TakeAnswer, RestTypeOK
  <2>5. FetchTypeOK' /\ FetchedHasQuerySite'
    <3>1. CASE Head(responses) = OwnIp
      BY <1>1, <3>1 DEF TakeAnswer, FetchTypeOK, FetchedHasQuerySite, Idle
    <3>2. CASE Head(responses) # OwnIp
      BY <1>1, <2>3, <3>2 DEF TakeAnswer, FetchTypeOK, FetchedHasQuerySite
    <3> QED BY <3>1, <3>2
  <2>6. ListSimple'
    BY <2>1, <2>5, SimpleParts DEF ListSimple, ViewTypeOK, EveryListHasQuerySite, view
  <2> QED BY <2>1, <2>4, <2>6, PeerUnchanged, SimpleParts, SimpleFromParts
<1>2. CASE GetLocalSite
  <2>1. UNCHANGED <<peerVars, messages, responses, view, missed, seen, raced>>
    BY <1>2 DEF GetLocalSite
  <2>2. RestTypeOK'
    BY <2>1, SimpleParts DEF RestTypeOK
  <2>3. fetch.ip \in Ip /\ changes \in 0..MaxChanges
    BY <1>2, SimpleParts DEF GetLocalSite, PeerSimple, PeerTypeOK
  <2>4. FetchTypeOK' /\ FetchedHasQuerySite'
    BY <1>2, <2>3 DEF GetLocalSite, FetchTypeOK, FetchedHasQuerySite, Present
  <2>5. ListSimple'
    BY <2>1, <2>4, SimpleParts DEF ListSimple, ViewTypeOK, EveryListHasQuerySite, view
  <2> QED BY <2>1, <2>2, <2>5, PeerUnchanged, SimpleParts, SimpleFromParts
<1>3. CASE GetFails
  <2>1. UNCHANGED <<peerVars, messages, responses, view, missed, seen, raced>>
    BY <1>3 DEF GetFails
  <2>2. RestTypeOK'
    BY <2>1, SimpleParts DEF RestTypeOK
  <2>3. fetch \in [pc : {"asking"}, ip : Ip, tryCount : 1..MaxTries]
    BY <1>3, SimpleParts DEF GetFails, ListSimple, FetchTypeOK, Idle
  <2>4. FetchTypeOK' /\ FetchedHasQuerySite'
    <3>1. CASE fetch.tryCount < MaxTries
      <4>1. fetch' \in [pc : {"asking"}, ip : Ip, tryCount : 1..MaxTries]
        BY <1>3, <2>3, <3>1 DEF GetFails
      <4> QED BY <4>1 DEF FetchTypeOK, FetchedHasQuerySite
    <3>2. CASE ~(fetch.tryCount < MaxTries)
      BY <1>3, <3>2 DEF GetFails, FetchTypeOK, FetchedHasQuerySite, Idle
    <3> QED BY <3>1, <3>2
  <2>5. ListSimple'
    BY <2>1, <2>4, SimpleParts DEF ListSimple, ViewTypeOK, EveryListHasQuerySite, view
  <2> QED BY <2>1, <2>2, <2>5, PeerUnchanged, SimpleParts, SimpleFromParts
<1>4. CASE StoreSiteList
  BY <1>4, StoreSiteListSimple
<1>5. ASSUME NEW ok \in BOOLEAN, SubscribeMessage(ok) PROVE Simple'
  <2>1. UNCHANGED <<messages, responses, view, missed, seen, raced>>
    BY <1>5 DEF SubscribeMessage
  <2>2. RestTypeOK'
    BY <2>1, SimpleParts DEF RestTypeOK
  <2>3. ListSimple'
    BY <1>5, <2>1, SimpleParts
    DEF SubscribeMessage, ListSimple, FetchTypeOK, FetchedHasQuerySite, ViewTypeOK,
        EveryListHasQuerySite, view, Idle
  <2>4. subscribed' \in BOOLEAN
    BY <1>5 DEF SubscribeMessage
  <2>5. PeerSimple'
    BY <1>5, <2>1, <2>4, SimpleParts
    DEF SubscribeMessage, PeerSimple, PeerTypeOK, AddressInv, StaleAddressOnlyWhenRaced,
         RequestsAreFresh, init
  <2> QED BY <2>2, <2>3, <2>5, SimpleFromParts
<1> QED BY <1>1, <1>2, <1>3, <1>4, <1>5 DEF QueueThread

LEMMA CountDownSimple ==
    ASSUME Simple, DiscoveredSitePingCountDown PROVE Simple'
<1> USE Facts
<1>1. UNCHANGED <<peerVars, messages, responses, fetch, seen, raced>>
  BY DEF DiscoveredSitePingCountDown
<1>2. missed' \in 0..MaxMissed
  BY SimpleParts DEF DiscoveredSitePingCountDown, RestTypeOK, PeerSimple, PeerTypeOK
<1>3. RestTypeOK'
  BY <1>1, <1>2, SimpleParts DEF RestTypeOK
<1>4. /\ DOMAIN Decremented = DOMAIN discoveredSiteMap
      /\ \A ip \in DOMAIN discoveredSiteMap :
            Decremented[ip] = discoveredPingCountMap[ip] - 1
  BY SimpleParts DEF Decremented, ListSimple, ViewTypeOK
<1>5. /\ DOMAIN discoveredSiteMap' = DOMAIN discoveredSiteMap \ Expired
      /\ DOMAIN discoveredPingCountMap' = DOMAIN discoveredSiteMap \ Expired
      /\ \A ip \in DOMAIN discoveredSiteMap \ Expired :
            /\ discoveredSiteMap'[ip] = discoveredSiteMap[ip]
            /\ discoveredPingCountMap'[ip] = discoveredPingCountMap[ip] - 1
            /\ ~(Decremented[ip] <= PingLimit)
  BY <1>4 DEF DiscoveredSitePingCountDown, Drop, Expired
<1>6. ViewTypeOK' /\ EveryListHasQuerySite'
  <2>1. \A ip \in DOMAIN discoveredSiteMap \ Expired :
           discoveredPingCountMap'[ip] \in (PingLimit + 1)..1
    BY <1>4, <1>5, SimpleParts DEF ListSimple, ViewTypeOK
  <2> QED
    BY <1>5, <2>1, SimpleParts DEF ListSimple, ViewTypeOK, EveryListHasQuerySite
<1>7. ListSimple'
  BY <1>1, <1>6, SimpleParts DEF ListSimple, FetchTypeOK, FetchedHasQuerySite
<1> QED BY <1>1, <1>3, <1>7, PeerUnchanged, SimpleParts, SimpleFromParts

LEMMA ObserverRestartsSimple ==
    ASSUME Simple, ObserverRestarts PROVE Simple'
<1> USE Facts
<1>1. /\ discoveredSiteMap' = <<>> /\ discoveredPingCountMap' = <<>>
      /\ responses' = <<>> /\ fetch' = Idle /\ missed' = 0 /\ raced' = TRUE
      /\ UNCHANGED <<address, up, localIp, init, record, registering, subscribed,
                     toPublish, overtaken, messages, seen>>
  BY DEF ObserverRestarts
<1>2. ListSimple'
  BY <1>1 DEF ListSimple, FetchTypeOK, ViewTypeOK, EveryListHasQuerySite,
              FetchedHasQuerySite, Idle
<1>3. raced' \in BOOLEAN
  BY <1>1
<1>4. RestTypeOK'
  BY <1>1, <1>3, SimpleParts DEF RestTypeOK
<1>5. PeerSimple'
  BY <1>1, SimpleParts
  DEF ObserverRestarts, Change, PeerSimple, PeerTypeOK, AddressInv, StaleAddressOnlyWhenRaced,
         RequestsAreFresh, init
<1> QED BY <1>2, <1>4, <1>5, SimpleFromParts

LEMMA NextSimple == Simple /\ [Next]_vars => Simple'
<1> SUFFICES ASSUME Simple, [Next]_vars PROVE Simple'
  OBVIOUS
<1>1. CASE PeerAnswers
  <2>1. address \in Ip \cup {OwnIp}
    BY <1>1, SimpleParts DEF PeerAnswers, PeerSimple, PeerTypeOK
  <2> QED BY <1>1, <2>1, PeerAnswersSimple DEF PeerAnswers
<1>2. CASE Answer(OwnIp)
  BY <1>2, PeerAnswersSimple
<1>3. CASE UNCHANGED vars
  <2>1. RestTypeOK'
    BY <1>3, SimpleParts DEF vars, RestTypeOK
  <2> QED BY <1>3, <2>1, PeerUnchanged, ListUnchanged, SimpleParts, SimpleFromParts DEF vars
<1> QED
  BY <1>1, <1>2, <1>3, PeerNextSimple, LoseMessageSimple, UpdateFindSiteSimple,
     QueueThreadSimple, CountDownSimple, ObserverRestartsSimple DEF Next

-----------------------------------------------------------------------------
(* Why the list is right when nothing is under way.  A message with no gap  *)
(* after it and none of its site behind it tells the truth; a fetched list  *)
(* with no gap after it is right but for the messages that come after it.   *)

Later(m) == \E m2 \in UnderWay : m2.site = m.site /\ m2.n > m.n

Truth(m) == m.status = "online" <=> record[m.site] # None

Numbered ==
    /\ toPublish \cap messages = {}
    /\ \A m1, m2 \in UnderWay : m1.n = m2.n => m1 = m2
    /\ \A m \in UnderWay : m.n <= changes
    /\ \A s \in Site : seen[s] <= changes
    /\ fetch.pc = "answered" => fetch.n <= changes

LastWordIsTrue == \A m \in UnderWay : ~Later(m) /\ ~Gap(m.n) => Truth(m)

FetchIsTrue ==
    fetch.pc = "answered" /\ ~Gap(fetch.n) =>
       /\ fetch.ip = address
       /\ \A s \in Site :
             (\A m \in UnderWay : m.site = s => m.n <= fetch.n) =>
                (s \in fetch.siteList <=> record[s] # None)

UnseenIsTrue ==
    ~raced => \A m \in UnderWay : m.n > seen[m.site] /\ ~Later(m) => Truth(m)

ListIsTrue ==
    ~raced /\ address \in DOMAIN discoveredSiteMap =>
       \A s \in Site :
          (\A m \in UnderWay : m.site = s => m.n <= seen[s]) =>
             (s \in discoveredSiteMap[address] <=> record[s] # None)

RaceInv == Numbered /\ LastWordIsTrue /\ FetchIsTrue /\ UnseenIsTrue /\ ListIsTrue

LEMMA RaceTypes ==
    ASSUME Simple
    PROVE  /\ changes \in Nat
           /\ \A m \in UnderWay : m \in Message /\ m.site \in Site /\ m.n \in Nat
           /\ \A s \in Site : seen[s] \in Nat
           /\ fetch.pc = "answered" => fetch.n \in Nat
           /\ raced \in BOOLEAN
<1> USE Facts
<1>1. changes \in Nat
  BY SimpleParts DEF PeerSimple, PeerTypeOK
<1>2. UnderWay \subseteq Message
  BY SimpleParts DEF PeerSimple, PeerTypeOK, UnderWay
<1>3. \A m \in UnderWay : m \in Message /\ m.site \in Site /\ m.n \in Nat
  BY <1>2 DEF Message
<1>4. \A s \in Site : seen[s] \in Nat
  BY SimpleParts DEF RestTypeOK
<1>5. fetch.pc = "answered" => fetch.n \in Nat
  BY SimpleParts DEF ListSimple, FetchTypeOK, Idle
<1>6. raced \in BOOLEAN
  BY SimpleParts DEF RestTypeOK
<1> QED BY <1>1, <1>3, <1>4, <1>5, <1>6

\* A gap does not close: a number that is not under way never is again.
LEMMA GapStays ==
    ASSUME changes \in Nat, changes' \in Nat, changes <= changes',
           NEW i \in Nat, Gap(i),
           \A m \in UnderWay' : m \in UnderWay \/ m.n > changes
    PROVE  Gap(i)'
<1>1. PICK k \in (i + 1)..changes : k \notin Outstanding
  BY DEF Gap
<1>2. k \in (i + 1)..changes'
  BY <1>1
<1>3. k \notin Outstanding'
  BY <1>1 DEF Outstanding
<1> QED BY <1>2, <1>3 DEF Gap

LEMMA RaceInit == Init => RaceInv
<1> SUFFICES ASSUME Init PROVE RaceInv
  OBVIOUS
<1>1. /\ UnderWay = {} /\ toPublish = {} /\ changes = 0 /\ fetch = Idle
      /\ discoveredSiteMap = <<>> /\ seen = [s \in Site |-> 0]
  BY DEF Init, UnderWay
<1>2. Numbered /\ FetchIsTrue
  BY <1>1 DEF Numbered, FetchIsTrue, Idle
<1>3. LastWordIsTrue /\ UnseenIsTrue
  BY <1>1 DEF LastWordIsTrue, UnseenIsTrue
<1>4. ListIsTrue
  BY <1>1 DEF ListIsTrue
<1> QED BY <1>2, <1>3, <1>4 DEF RaceInv

\* Steps that leave the messages under way and who is on record alone.
LEMMA RaceKept ==
    ASSUME RaceInv,
           toPublish' \cap messages' = {},
           UnderWay' = UnderWay, changes' = changes, address' = address,
           seen' = seen, raced' = raced,
           \A s \in Site : record'[s] = None <=> record[s] = None,
           fetch' = fetch \/ fetch'.pc # "answered",
           DOMAIN discoveredSiteMap' \subseteq DOMAIN discoveredSiteMap,
           \A ip \in DOMAIN discoveredSiteMap' : discoveredSiteMap'[ip] = discoveredSiteMap[ip],
           Simple
    PROVE  RaceInv'
<1>1. \A i : Gap(i)' <=> Gap(i)
  BY DEF Gap, Outstanding
<1>2. \A m : Later(m)' <=> Later(m)
  BY DEF Later
<1>3. \A m \in UnderWay : Truth(m)' <=> Truth(m)
  BY RaceTypes DEF Truth
<1>4. Numbered'
  BY DEF RaceInv, Numbered
<1>5. LastWordIsTrue'
  BY <1>1, <1>2, <1>3 DEF RaceInv, LastWordIsTrue
<1>6. FetchIsTrue'
  BY <1>1 DEF RaceInv, FetchIsTrue
<1>7. UnseenIsTrue'
  BY <1>2, <1>3 DEF RaceInv, UnseenIsTrue
<1>8. ListIsTrue'
  BY DEF RaceInv, ListIsTrue
<1> QED BY <1>4, <1>5, <1>6, <1>7, <1>8 DEF RaceInv

\* A crash, a new address, a restart: a change without a message, after which
\* every list and message has a gap.
LEMMA RaceBroken ==
    ASSUME Simple, RaceInv,
           changes' = changes + 1, UnderWay' \subseteq UnderWay,
           toPublish' \subseteq toPublish, messages' \subseteq messages,
           seen' = seen,
           fetch' = fetch \/ fetch'.pc # "answered",
           \/ raced' = TRUE
           \/ UNCHANGED <<raced, record, address, discoveredSiteMap, toPublish, messages>>
    PROVE  RaceInv'
<1> USE RaceTypes
<1>1. ASSUME NEW i \in Nat, i <= changes PROVE Gap(i)'
  <2>1. changes + 1 \in (i + 1)..changes'
    BY <1>1
  <2>2. changes + 1 \notin Outstanding'
    BY DEF Outstanding, RaceInv, Numbered
  <2> QED BY <2>1, <2>2 DEF Gap
<1>2. Numbered'
  BY DEF RaceInv, Numbered
<1>3. LastWordIsTrue'
  BY <1>1 DEF LastWordIsTrue, RaceInv, Numbered
<1>4. FetchIsTrue'
  BY <1>1 DEF FetchIsTrue, RaceInv, Numbered
<1>5. UnseenIsTrue'
  <2>1. CASE raced' = TRUE
    BY <2>1 DEF UnseenIsTrue
  <2>2. CASE UNCHANGED <<raced, record, address, discoveredSiteMap, toPublish, messages>>
    <3>1. UnderWay' = UnderWay
      BY <2>2 DEF UnderWay
    <3>2. \A m : Later(m)' <=> Later(m)
      BY <3>1 DEF Later
    <3>3. \A m : Truth(m)' <=> Truth(m)
      BY <2>2 DEF Truth
    <3> QED BY <2>2, <3>1, <3>2, <3>3 DEF RaceInv, UnseenIsTrue
  <2> QED BY <2>1, <2>2
<1>6. ListIsTrue'
  <2>1. CASE raced' = TRUE
    BY <2>1 DEF ListIsTrue
  <2>2. CASE UNCHANGED <<raced, record, address, discoveredSiteMap, toPublish, messages>>
    <3>1. UnderWay' = UnderWay
      BY <2>2 DEF UnderWay
    <3> QED BY <2>2, <3>1 DEF RaceInv, ListIsTrue
  <2> QED BY <2>1, <2>2
<1> QED BY <1>2, <1>3, <1>4, <1>5, <1>6 DEF RaceInv

\* A message leaves: what it was the last word on has a gap from now on.
LEMMA MessageLeaves ==
    ASSUME Simple, RaceInv, NEW m0 \in UnderWay,
           UnderWay' = UnderWay \ {m0}, toPublish' \cap messages' = {},
           UNCHANGED <<changes, record, address, fetch>>
    PROVE  /\ LastWordIsTrue' /\ FetchIsTrue'
           /\ \A m \in UnderWay' : Truth(m)' <=> Truth(m)
           /\ \A m \in UnderWay' : Later(m) => Later(m)' \/ (m0.site = m.site /\ m0.n > m.n)
<1> USE RaceTypes
<1>1. ASSUME NEW i \in Nat, Gap(i) PROVE Gap(i)'
  BY <1>1, GapStays
<1>2. ASSUME NEW i \in Nat, m0.n > i PROVE Gap(i)'
  <2>1. m0.n \in (i + 1)..changes'
    BY <1>2 DEF RaceInv, Numbered
  <2>2. m0.n \notin Outstanding'
    BY DEF Outstanding, RaceInv, Numbered
  <2> QED BY <2>1, <2>2 DEF Gap
<1>3. \A m \in UnderWay' : Truth(m)' <=> Truth(m)
  BY DEF Truth
<1>4. \A m \in UnderWay' : Later(m) => Later(m)' \/ (m0.site = m.site /\ m0.n > m.n)
  BY DEF Later
<1>5. LastWordIsTrue'
  <2> SUFFICES ASSUME NEW m \in UnderWay', ~Later(m)', ~Gap(m.n)' PROVE Truth(m)'
    BY DEF LastWordIsTrue
  <2>1. ~Gap(m.n) /\ ~(m0.n > m.n)
    BY <1>1, <1>2
  <2>2. ~Later(m)
    BY <1>4, <2>1
  <2>3. Truth(m)
    BY <2>1, <2>2 DEF RaceInv, LastWordIsTrue
  <2> QED BY <1>3, <2>3
<1>6. FetchIsTrue'
  <2> SUFFICES ASSUME fetch.pc = "answered", ~Gap(fetch.n)' PROVE
        /\ fetch.ip = address
        /\ \A s \in Site : (\A m \in UnderWay' : m.site = s => m.n <= fetch.n) =>
              (s \in fetch.siteList <=> record[s] # None)
    BY DEF FetchIsTrue
  <2>1. ~Gap(fetch.n) /\ ~(m0.n > fetch.n)
    BY <1>1, <1>2
  <2>2. \A s \in Site : (\A m \in UnderWay' : m.site = s => m.n <= fetch.n) =>
                        (\A m \in UnderWay : m.site = s => m.n <= fetch.n)
    BY <2>1
  <2> QED BY <2>1, <2>2 DEF RaceInv, FetchIsTrue
<1> QED BY <1>3, <1>4, <1>5, <1>6

\* A message that is lost, or published to nobody.
LEMMA RaceLost ==
    ASSUME Simple, RaceInv, NEW m0 \in UnderWay,
           UnderWay' = UnderWay \ {m0}, toPublish' \cap messages' = {},
           UNCHANGED <<changes, record, address, fetch, seen, discoveredSiteMap>>,
           ~raced' => ~raced /\ ~(m0.n > seen[m0.site])
    PROVE  RaceInv'
<1> USE RaceTypes
<1>1. Numbered'
  BY DEF RaceInv, Numbered
<1>2. LastWordIsTrue' /\ FetchIsTrue'
  BY MessageLeaves
<1>3. UnseenIsTrue'
  <2> SUFFICES ASSUME ~raced', NEW m \in UnderWay', m.n > seen'[m.site], ~Later(m)'
               PROVE  Truth(m)'
    BY DEF UnseenIsTrue
  <2>1. m.n > seen[m.site]
    OBVIOUS
  <2>2. ~Later(m)
    BY <2>1, MessageLeaves
  <2>3. Truth(m)
    BY <2>1, <2>2 DEF RaceInv, UnseenIsTrue
  <2> QED BY <2>3, MessageLeaves
<1>4. ListIsTrue'
  <2> SUFFICES ASSUME ~raced', address \in DOMAIN discoveredSiteMap, NEW s \in Site,
                      \A m \in UnderWay' : m.site = s => m.n <= seen[s]
               PROVE  s \in discoveredSiteMap[address] <=> record[s] # None
    BY DEF ListIsTrue
  <2>1. \A m \in UnderWay : m.site = s => m.n <= seen[s]
    OBVIOUS
  <2> QED BY <2>1 DEF RaceInv, ListIsTrue
<1> QED BY <1>1, <1>2, <1>3, <1>4 DEF RaceInv

\* A message that is said: the last word on its site.
LEMMA RaceSaid ==
    ASSUME Simple, RaceInv, NEW m0, m0.site \in Site, m0.n = changes + 1,
           toPublish' = toPublish \cup {m0}, changes' = changes + 1, Truth(m0)',
           \A s \in Site \ {m0.site} : record'[s] = record[s],
           UNCHANGED <<messages, address, fetch, seen, discoveredSiteMap, raced>>
    PROVE  RaceInv'
<1> USE RaceTypes
<1>1. UnderWay' = UnderWay \cup {m0} /\ m0 \notin UnderWay
  BY DEF UnderWay, RaceInv, Numbered
<1>2. ASSUME NEW i \in Nat, Gap(i) PROVE Gap(i)'
  BY <1>1, <1>2, GapStays
<1>3. Numbered'
  <2>1. \A m \in UnderWay : m.n <= changes
    BY DEF RaceInv, Numbered
  <2>2. m0 \notin messages
    BY <1>1 DEF UnderWay
  <2>3. toPublish' \cap messages' = {}
    BY <2>2 DEF RaceInv, Numbered
  <2>4. \A m1, m2 \in UnderWay' : m1.n = m2.n => m1 = m2
    BY <1>1, <2>1 DEF RaceInv, Numbered
  <2>5. \A m \in UnderWay' : m.n <= changes'
    BY <1>1, <2>1
  <2>6. \A s \in Site : seen'[s] <= changes'
    BY DEF RaceInv, Numbered
  <2>7. fetch'.pc = "answered" => fetch'.n <= changes'
    BY DEF RaceInv, Numbered
  <2> QED BY <2>3, <2>4, <2>5, <2>6, <2>7 DEF Numbered
<1>4. ASSUME NEW m \in UnderWay', ~Later(m)', m # m0
      PROVE  m \in UnderWay /\ ~Later(m) /\ (Truth(m)' <=> Truth(m))
  <2>1. m \in UnderWay /\ m.n < m0.n
    BY <1>1, <1>4 DEF RaceInv, Numbered
  <2>2. m.site # m0.site
    BY <1>1, <1>4, <2>1 DEF Later
  <2>3. Truth(m)' <=> Truth(m)
    BY <2>1, <2>2 DEF Truth
  <2>4. ~Later(m)
    BY <1>1, <1>4 DEF Later
  <2> QED BY <2>1, <2>3, <2>4
<1>5. LastWordIsTrue'
  <2> SUFFICES ASSUME NEW m \in UnderWay', ~Later(m)', ~Gap(m.n)', m # m0 PROVE Truth(m)'
    BY DEF LastWordIsTrue
  <2>1. m \in UnderWay /\ ~Later(m) /\ (Truth(m)' <=> Truth(m))
    BY <1>4
  <2>2. ~Gap(m.n)
    BY <1>2, <2>1
  <2> QED BY <2>1, <2>2 DEF RaceInv, LastWordIsTrue
<1>6. FetchIsTrue'
  <2> SUFFICES ASSUME fetch.pc = "answered", ~Gap(fetch.n)' PROVE
        /\ fetch.ip = address
        /\ \A s \in Site : (\A m \in UnderWay' : m.site = s => m.n <= fetch.n) =>
              (s \in fetch.siteList <=> record'[s] # None)
    BY DEF FetchIsTrue
  <2>1. ~Gap(fetch.n)
    BY <1>2
  <2>2. \A s \in Site : (\A m \in UnderWay' : m.site = s => m.n <= fetch.n) =>
            s # m0.site /\ (\A m \in UnderWay : m.site = s => m.n <= fetch.n)
    BY <1>1 DEF RaceInv, Numbered
  <2> QED BY <2>1, <2>2 DEF RaceInv, FetchIsTrue
<1>7. UnseenIsTrue'
  <2> SUFFICES ASSUME ~raced, NEW m \in UnderWay', m.n > seen[m.site], ~Later(m)', m # m0
               PROVE  Truth(m)'
    BY DEF UnseenIsTrue
  <2>1. m \in UnderWay /\ ~Later(m) /\ (Truth(m)' <=> Truth(m))
    BY <1>4
  <2> QED BY <2>1 DEF RaceInv, UnseenIsTrue
<1>8. ListIsTrue'
  <2> SUFFICES ASSUME ~raced, address \in DOMAIN discoveredSiteMap, NEW s \in Site,
                      \A m \in UnderWay' : m.site = s => m.n <= seen[s]
               PROVE  s \in discoveredSiteMap[address] <=> record'[s] # None
    BY DEF ListIsTrue
  <2>1. s # m0.site /\ \A m \in UnderWay : m.site = s => m.n <= seen[s]
    BY <1>1 DEF RaceInv, Numbered
  <2> QED BY <2>1 DEF RaceInv, ListIsTrue
<1> QED BY <1>3, <1>5, <1>6, <1>7, <1>8 DEF RaceInv

LEMMA RaceUpdate ==
    ASSUME Simple, RaceInv, NEW m0 \in messages, UpdateFindSite(m0)
    PROVE  RaceInv'
<1> USE RaceTypes
<1>1. /\ m0 \in UnderWay
      /\ UnderWay' = UnderWay \ {m0} /\ toPublish' \cap messages' = {}
      /\ UNCHANGED <<changes, record, address, fetch>>
  BY DEF UpdateFindSite, peerVars, UnderWay, RaceInv, Numbered
<1>2. seen' = [seen EXCEPT ![m0.site] = IF m0.n > @ THEN m0.n ELSE @]
  BY DEF UpdateFindSite
<1>3. \A s \in Site : seen'[s] = IF s = m0.site /\ m0.n > seen[s] THEN m0.n ELSE seen[s]
  <2>1. DOMAIN seen = Site
    BY SimpleParts DEF RestTypeOK
  <2> QED BY <1>1, <1>2, <2>1
<1>4. Numbered'
  BY <1>1, <1>3 DEF RaceInv, Numbered
<1>5. LastWordIsTrue' /\ FetchIsTrue'
  BY <1>1, MessageLeaves
<1>6. ASSUME ~raced'
      PROVE  /\ ~raced /\ m0.n > seen[m0.site] /\ m0.ip = address
             /\ address \in DOMAIN discoveredSiteMap
             /\ seen'[m0.site] = m0.n
  <2>1. ~raced /\ ~(m0.n <= seen[m0.site]) /\ m0.ip = address /\ m0.ip \in DOMAIN discoveredSiteMap
    BY <1>6 DEF UpdateFindSite
  <2> QED BY <1>1, <1>3, <2>1
<1>7. UnseenIsTrue'
  <2> SUFFICES ASSUME ~raced', NEW m \in UnderWay', m.n > seen'[m.site], ~Later(m)'
               PROVE  Truth(m)'
    BY DEF UnseenIsTrue
  <2>1. m.n > seen[m.site]
    BY <1>1, <1>3, <1>6
  <2>2. ~(m0.site = m.site /\ m0.n > m.n)
    BY <1>1, <1>6
  <2>3. ~Later(m)
    BY <1>1, <2>2, MessageLeaves
  <2>4. Truth(m)
    BY <1>1, <1>6, <2>1, <2>3 DEF RaceInv, UnseenIsTrue
  <2> QED BY <1>1, <2>4, MessageLeaves
<1>8. ListIsTrue'
  <2> SUFFICES ASSUME ~raced', NEW s \in Site,
                      \A m \in UnderWay' : m.site = s => m.n <= seen'[s]
               PROVE  s \in discoveredSiteMap'[address] <=> record[s] # None
    BY <1>1 DEF ListIsTrue
  <2>1. discoveredSiteMap'[address] = Updated(discoveredSiteMap[address], m0)
    BY <1>6 DEF UpdateFindSite
  <2>2. CASE s # m0.site
    <3>1. \A m \in UnderWay : m.site = s => m.n <= seen[s]
      BY <1>1, <1>3, <2>2
    <3>2. s \in discoveredSiteMap[address] <=> record[s] # None
      BY <1>6, <3>1 DEF RaceInv, ListIsTrue
    <3>3. QuerySite \in discoveredSiteMap[address]
      BY <1>6, SimpleParts DEF ListSimple, EveryListHasQuerySite
    <3> QED BY <2>1, <2>2, <3>2, <3>3 DEF Updated
  <2>3. CASE s = m0.site
    <3>1. ~Later(m0)
      BY <1>1, <1>6, <2>3 DEF Later
    <3>2. Truth(m0)
      BY <1>1, <1>6, <3>1 DEF RaceInv, UnseenIsTrue
    <3>3. QuerySite \in discoveredSiteMap[address]
      BY <1>6, SimpleParts DEF ListSimple, EveryListHasQuerySite
    <3>4. m0.status \in {"online", "offline"}
      BY <1>1 DEF Message
    <3> QED BY <2>1, <2>3, <3>2, <3>3, <3>4 DEF Updated, Truth
  <2> QED BY <2>2, <2>3
<1> QED BY <1>4, <1>5, <1>7, <1>8 DEF RaceInv

LEMMA RaceGet ==
    ASSUME Simple, RaceInv, GetLocalSite PROVE RaceInv'
<1> USE RaceTypes
<1>1. /\ UNCHANGED <<peerVars, messages, responses, view, missed, seen, raced>>
      /\ fetch'.ip = address /\ fetch'.siteList = Present /\ fetch'.n = changes
  BY DEF GetLocalSite
<1>2. UnderWay' = UnderWay /\ changes' = changes /\ record' = record /\ address' = address
  BY <1>1 DEF UnderWay, peerVars
<1>3. \A m : (Later(m)' <=> Later(m)) /\ (Truth(m)' <=> Truth(m))
  BY <1>2 DEF Later, Truth
<1>4. \A i : Gap(i)' <=> Gap(i)
  BY <1>2 DEF Gap, Outstanding
<1>5. Numbered'
  BY <1>1, <1>2 DEF RaceInv, Numbered, peerVars
<1>6. LastWordIsTrue'
  BY <1>2, <1>3, <1>4 DEF RaceInv, LastWordIsTrue
<1>7. FetchIsTrue'
  BY <1>1, <1>2, Facts DEF FetchIsTrue, Present
<1>8. UnseenIsTrue'
  BY <1>1, <1>2, <1>3 DEF RaceInv, UnseenIsTrue
<1>9. ListIsTrue'
  BY <1>1, <1>2 DEF RaceInv, ListIsTrue, view
<1> QED BY <1>5, <1>6, <1>7, <1>8, <1>9 DEF RaceInv

LEMMA RaceStore ==
    ASSUME Simple, RaceInv, StoreSiteList PROVE RaceInv'
<1> USE RaceTypes
<1>1. /\ UNCHANGED <<peerVars, messages, responses>> /\ fetch.pc = "answered"
      /\ discoveredSiteMap' = Put(discoveredSiteMap, fetch.ip, fetch.siteList)
      /\ seen' = [s \in Site |-> fetch.n] /\ raced' = Gap(fetch.n)
      /\ fetch'.pc = "subscribing"
  BY DEF StoreSiteList
<1>2. /\ UnderWay' = UnderWay /\ changes' = changes /\ record' = record /\ address' = address
      /\ toPublish' = toPublish /\ messages' = messages
  BY <1>1 DEF UnderWay, peerVars
<1>3. \A m : (Later(m)' <=> Later(m)) /\ (Truth(m)' <=> Truth(m))
  BY <1>2 DEF Later, Truth
<1>4. \A i : Gap(i)' <=> Gap(i)
  BY <1>2 DEF Gap, Outstanding
<1>5. Numbered'
  BY <1>1, <1>2 DEF RaceInv, Numbered
<1>6. LastWordIsTrue'
  BY <1>2, <1>3, <1>4 DEF RaceInv, LastWordIsTrue
<1>7. FetchIsTrue'
  BY <1>1 DEF FetchIsTrue
<1>8. UnseenIsTrue'
  <2> SUFFICES ASSUME ~Gap(fetch.n), NEW m \in UnderWay, m.n > fetch.n, ~Later(m)
               PROVE  Truth(m)
    BY <1>1, <1>2, <1>3 DEF UnseenIsTrue
  <2>1. ~Gap(m.n)
    BY <1>1 DEF Gap
  <2> QED BY <2>1 DEF RaceInv, LastWordIsTrue
<1>9. ListIsTrue'
  <2> SUFFICES ASSUME ~Gap(fetch.n), NEW s \in Site,
                      \A m \in UnderWay : m.site = s => m.n <= fetch.n
               PROVE  s \in discoveredSiteMap'[address] <=> record[s] # None
    BY <1>1, <1>2 DEF ListIsTrue
  <2>1. fetch.ip = address /\ (s \in fetch.siteList <=> record[s] # None)
    BY <1>1 DEF RaceInv, FetchIsTrue
  <2> QED BY <1>1, <2>1 DEF Put
<1> QED BY <1>5, <1>6, <1>7, <1>8, <1>9 DEF RaceInv

-----------------------------------------------------------------------------
LEMMA RacePeer == ASSUME Simple, RaceInv, Peer PROVE RaceInv'
<1> USE RaceTypes
<1>0. toPublish \cap messages = {} /\ PeerTypeOK
  BY SimpleParts DEF RaceInv, Numbered, PeerSimple
<1>1. ASSUME NEW s \in Site, ReadLocalIp(s) PROVE RaceInv'
  <2>1. UnderWay' = UnderWay
    BY <1>1 DEF ReadLocalIp, UnderWay
  <2> QED BY <1>0, <1>1, <2>1, RaceKept DEF ReadLocalIp, view
<1>2. ASSUME NEW s \in Site, SiteRegister(s) PROVE RaceInv'
  <2>0. PICK m0 : m0 = [site |-> s, status |-> "online", ip |-> registering[s], n |-> changes + 1]
    OBVIOUS
  <2>1. /\ m0.site \in Site /\ m0.n = changes + 1
        /\ toPublish' = toPublish \cup {m0} /\ changes' = changes + 1
        /\ UNCHANGED <<messages, address, fetch, seen, discoveredSiteMap, raced>>
    BY <1>2, <2>0 DEF SiteRegister, Says, Change, view
  <2>2. record' = [record EXCEPT ![s] = registering[s]] /\ registering[s] # None
    BY <1>2 DEF SiteRegister
  <2>3. /\ record'[s] # None
        /\ \A t \in Site \ {s} : record'[t] = record[t]
    BY <1>0, <2>2 DEF PeerTypeOK
  <2>4. Truth(m0)'
    BY <2>0, <2>3 DEF Truth
  <2>5. m0.site = s
    BY <2>0
  <2> QED BY <2>1, <2>3, <2>4, <2>5, RaceSaid
<1>3. ASSUME NEW s \in Site, SiteUnregister(s) PROVE RaceInv'
  <2>0. PICK m0 : m0 = [site |-> s, status |-> "offline", ip |-> record[s], n |-> changes + 1]
    OBVIOUS
  <2>1. /\ m0.site \in Site /\ m0.n = changes + 1
        /\ toPublish' = toPublish \cup {m0} /\ changes' = changes + 1
        /\ UNCHANGED <<messages, address, fetch, seen, discoveredSiteMap, raced>>
    BY <1>3, <2>0 DEF SiteUnregister, Says, Change, view
  <2>2. record' = [record EXCEPT ![s] = None]
    BY <1>3 DEF SiteUnregister
  <2>3. /\ record'[s] = None
        /\ \A t \in Site \ {s} : record'[t] = record[t]
    BY <1>0, <2>2 DEF PeerTypeOK
  <2>4. Truth(m0)'
    BY <2>0, <2>3 DEF Truth
  <2>5. m0.site = s
    BY <2>0
  <2> QED BY <2>1, <2>3, <2>4, <2>5, RaceSaid
<1>4. ASSUME NEW m \in toPublish, Publish(m) PROVE RaceInv'
  <2>1. CASE subscribed
    <3>1. UnderWay' = UnderWay /\ toPublish' \cap messages' = {}
      BY <1>0, <1>4, <2>1 DEF Publish, UnderWay
    <3>2. raced' = raced
      BY <1>4, <2>1 DEF Publish
    <3> QED BY <1>4, <3>1, <3>2, RaceKept DEF Publish, view
  <2>2. CASE ~subscribed
    <3>1. /\ m \in UnderWay /\ UnderWay' = UnderWay \ {m} /\ toPublish' \cap messages' = {}
      BY <1>0, <1>4, <2>2 DEF Publish, UnderWay
    <3>2. ~raced' => ~raced /\ ~(m.n > seen[m.site])
      BY <1>4, <2>2 DEF Publish
    <3> QED BY <1>4, <3>1, <3>2, RaceLost DEF Publish, view
  <2> QED BY <2>1, <2>2
<1>5. CASE ChangeAddress
  <2>1. UnderWay' \subseteq UnderWay
    BY <1>5 DEF ChangeAddress, UnderWay
  <2> QED BY <1>5, <2>1, RaceBroken DEF ChangeAddress, Change
<1>6. CASE AssignLocalIp
  <2>1. UnderWay' = UnderWay
    BY <1>6 DEF AssignLocalIp, UnderWay
  <2> QED BY <1>0, <1>6, <2>1, RaceKept DEF AssignLocalIp, view
<1>9. CASE UpdateLocalSiteIp
  <2>1. UnderWay' = UnderWay
    BY <1>9 DEF UpdateLocalSiteIp, UnderWay
  <2>2. \A s \in Site : record'[s] = None <=> record[s] = None
    BY <1>0, <1>9, Facts DEF UpdateLocalSiteIp, PeerTypeOK
  <2> QED BY <1>0, <1>9, <2>1, <2>2, RaceKept DEF UpdateLocalSiteIp, view
<1>7. CASE Crash
  <2>1. UnderWay' \subseteq UnderWay
    BY <1>7 DEF Crash, UnderWay
  <2> QED BY <1>7, <2>1, RaceBroken DEF Crash, Change
<1>8. CASE Restart
  <2>1. UnderWay' \subseteq UnderWay
    BY <1>8 DEF Restart, UnderWay
  <2> QED BY <1>8, <2>1, RaceBroken DEF Restart, Change, view
<1> QED
  BY <1>1, <1>2, <1>3, <1>4, <1>5, <1>6, <1>7, <1>8, <1>9 DEF Peer

LEMMA RaceNext == Simple /\ RaceInv /\ [Next]_vars => RaceInv'
<1> SUFFICES ASSUME Simple, RaceInv, [Next]_vars PROVE RaceInv'
  OBVIOUS
<1>0. toPublish \cap messages = {}
  BY DEF RaceInv, Numbered
<1>1. ASSUME UNCHANGED <<peerVars, messages, view, seen, raced>>,
             fetch' = fetch \/ fetch'.pc # "answered"
      PROVE  RaceInv'
  <2>1. UnderWay' = UnderWay
    BY <1>1 DEF UnderWay, peerVars
  <2> QED BY <1>0, <1>1, <2>1, RaceKept DEF peerVars, view
<1>2. ASSUME NEW ip, Answer(ip) PROVE RaceInv'
  BY <1>1, <1>2 DEF Answer
<1>3. ASSUME NEW m \in messages, LoseMessage(m) PROVE RaceInv'
  <2>1. /\ m \in UnderWay /\ UnderWay' = UnderWay \ {m} /\ toPublish' \cap messages' = {}
    BY <1>0, <1>3 DEF LoseMessage, UnderWay, peerVars
  <2>2. ~raced' => ~raced /\ ~(m.n > seen[m.site])
    BY <1>3 DEF LoseMessage
  <2> QED BY <1>3, <2>1, <2>2, RaceLost DEF LoseMessage, peerVars, view
<1>4. CASE QueueThread
  <2>1. CASE TakeAnswer
    BY <1>1, <2>1 DEF TakeAnswer, Idle
  <2>2. CASE GetFails
    BY <1>1, <2>2 DEF GetFails, Idle
  <2>3. ASSUME NEW ok \in BOOLEAN, SubscribeMessage(ok) PROVE RaceInv'
    <3>1. UnderWay' = UnderWay
      BY <2>3 DEF SubscribeMessage, UnderWay
    <3>2. fetch'.pc # "answered"
      BY <2>3 DEF SubscribeMessage, Idle
    <3> QED BY <1>0, <2>3, <3>1, <3>2, RaceKept DEF SubscribeMessage, view
  <2> QED BY <1>4, <2>1, <2>2, <2>3, RaceGet, RaceStore DEF QueueThread
<1>5. CASE DiscoveredSitePingCountDown
  <2>1. UnderWay' = UnderWay
    BY <1>5 DEF DiscoveredSitePingCountDown, UnderWay, peerVars
  <2>2. /\ DOMAIN discoveredSiteMap' \subseteq DOMAIN discoveredSiteMap
        /\ \A ip \in DOMAIN discoveredSiteMap' : discoveredSiteMap'[ip] = discoveredSiteMap[ip]
    BY <1>5 DEF DiscoveredSitePingCountDown, Drop
  <2> QED BY <1>0, <1>5, <2>1, <2>2, RaceKept DEF DiscoveredSitePingCountDown, peerVars
<1>6. CASE ObserverRestarts
  <2>1. UnderWay' \subseteq UnderWay
    BY <1>6 DEF ObserverRestarts, UnderWay
  <2>2. fetch'.pc # "answered"
    BY <1>6 DEF ObserverRestarts, Idle
  <2> QED BY <1>6, <2>1, <2>2, RaceBroken DEF ObserverRestarts, Change
<1>7. CASE UNCHANGED vars
  BY <1>1, <1>7 DEF vars
<1> QED
  BY <1>2, <1>3, <1>4, <1>5, <1>6, <1>7, RacePeer, RaceUpdate DEF Next, PeerAnswers

-----------------------------------------------------------------------------
\* Every reachable state satisfies the inductive invariant.
THEOREM InductiveInvariant == Spec => [](Simple /\ RaceInv)
<1>1. Init => Simple /\ RaceInv
  BY InitSimple, RaceInit
<1>2. (Simple /\ RaceInv) /\ [Next]_vars => (Simple /\ RaceInv)'
  BY NextSimple, RaceNext
<1> QED BY <1>1, <1>2, PTL DEF Spec

\* All variables keep their types: no count of the observer falls to the limit.
THEOREM TypeCorrect == Spec => []TypeOK
<1>1. Simple => TypeOK
  BY DEF Simple
<1> QED BY <1>1, InductiveInvariant, PTL

\* No list of the observer becomes empty (updateFindSite, :291).
THEOREM ListsAreNeverEmpty == Spec => []EveryListHasQuerySite
<1>1. Simple => EveryListHasQuerySite
  BY DEF Simple
<1> QED BY <1>1, InductiveInvariant, PTL

\* Outside of initLocalIp, an entry with an old address comes from a request that
\* read localIp before it was assigned and registered after updateLocalSiteIp.
THEOREM StaleAddressNeedsRace == Spec => []StaleAddressOnlyWhenRaced
<1>1. Simple => StaleAddressOnlyWhenRaced
  BY DEF Simple, AddressInv
<1> QED BY <1>1, InductiveInvariant, PTL

\* With nothing under way and nothing lost or raced, the observer's list is the
\* peer's record.
THEOREM WrongListNeedsRace == Spec => []WrongOnlyWhenRaced
<1>1. Simple /\ RaceInv => WrongOnlyWhenRaced
  <2> SUFFICES ASSUME Simple, RaceInv, ~raced, Outstanding = {},
                      address \in DOMAIN discoveredSiteMap
               PROVE  discoveredSiteMap[address] = Present
    BY DEF WrongOnlyWhenRaced
  <2>1. UnderWay = {}
    BY DEF Outstanding
  <2>2. \A s \in Site : s \in discoveredSiteMap[address] <=> record[s] # None
    BY <2>1 DEF RaceInv, ListIsTrue
  <2>3. /\ discoveredSiteMap[address] \subseteq Site \cup {QuerySite}
        /\ QuerySite \in discoveredSiteMap[address]
    BY SimpleParts DEF ListSimple, ViewTypeOK, EveryListHasQuerySite
  <2> QED BY <2>2, <2>3 DEF Present
<1> QED BY <1>1, InductiveInvariant, PTL
=============================================================================
