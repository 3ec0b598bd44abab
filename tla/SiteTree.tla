------------------------------ MODULE SiteTree ------------------------------
(***************************************************************************)
(* The site registry of one panel: SiteTree of the query site              *)
(* (src/unit/newQuery) with its HTTP threads and its countdown thread, and *)
(* the other site processes of the panel as ServiceSiteManager starts them *)
(* (src/baseSrc/siteService): register, subscribe to "register again",     *)
(* start pinging, listen.  The query site and the sites may crash and      *)
(* restart at any time.                                                    *)
(*                                                                         *)
(* Its own entry "site_query" is never counted down and is left out.  The  *)
(* body of a registration (ip, port, summary) is abstracted.               *)
(***************************************************************************)
EXTENDS Integers, FiniteSets, SequencesExt

CONSTANTS
    Site,           \* the site processes of the panel
    Thread,         \* HTTP threads of the query site
    CountDown,      \* its countdown thread
    NoClient,       \* nobody waits for the reply
    PingLimit,      \* a site is dropped when its count reaches this (-3)
    MaxMissed,      \* a living site is heard at least once in so many countdowns
    HubMayCrash,    \* whether the query site crashes
    SiteMayStop     \* whether sites crash or stop

ASSUME PingLimitAssumption == PingLimit \in Int /\ PingLimit < 1
ASSUME MaxMissedAssumption == MaxMissed \in Nat /\ MaxMissed < 1 - PingLimit
ASSUME ThreadAssumption == CountDown \notin Thread
ASSUME ClientAssumption == NoClient \notin Site \X {"main", "again"}
ASSUME CrashAssumption == HubMayCrash \in BOOLEAN /\ SiteMayStop \in BOOLEAN

Topic     == {"onoffline", "node2node"}
Publisher == Thread \cup {CountDown}

VARIABLES
    hub,        \* the query site: "down", "starting" or "running"
    localSiteMap,           \* sites on record
    localSitePingCountMap,  \* their ping counts
    job,        \* what an HTTP thread has to do under the lock, or "none"
    client,     \* who waits for an HTTP thread's reply
    todo,       \* publications a thread makes after it has released the lock
    view,       \* status last published for a site, per topic
    subscribed, \* sites subscribed to "register again" (kept in a file)
    again,      \* "register again" message of a site: "none", "queued" at the
                \* query site or "handling" by the site
    site,       \* how far a site process is
    silent,     \* history: countdowns since a site was last heard
    crossed     \* history: sites whose last publications crossed or were lost

hubVars == <<localSiteMap, localSitePingCountMap, job, client, todo>>
vars    == <<hub, hubVars, view, subscribed, again, site, silent, crossed>>

NoJob == [op |-> "none"]
Jobs  == [op : {"register", "unregister"}, site : Site] \cup {NoJob}

HubUp == hub # "down"
Idle(t) == job[t] = NoJob /\ client[t] = NoClient /\ todo[t] = <<>>

\* A site on record, and one that pings: it is past its registration.
Registered(s) == s \in localSiteMap
Living(s)     == site[s] \in {"subscribing", "pinging", "up"}

Init ==
    /\ hub = "down"
    /\ localSiteMap = {}
    /\ localSitePingCountMap = <<>>
    /\ job = [t \in Thread |-> NoJob]
    /\ client = [t \in Thread |-> NoClient]
    /\ todo = [t \in Publisher |-> <<>>]
    /\ view = [m \in Topic |-> [s \in Site |-> "none"]]
    /\ subscribed = {}
    /\ again = [s \in Site |-> "none"]
    /\ site = [s \in Site |-> "down"]
    /\ silent = [s \in Site |-> 0]
    /\ crossed = {}

\* Faulty: published under the message id of the request.
UnderRequestId(s, status) ==
    <<[topic |-> IF status = "online" THEN "register" ELSE "unregister",
       site |-> s, status |-> status]>>

\* Faulty: the other panels are not told.
OnOffLineOnly(s, status) == <<[topic |-> "onoffline", site |-> s, status |-> status]>>

Publications(s, status) ==
    <<[topic |-> "onoffline", site |-> s, status |-> status],
      [topic |-> "node2node", site |-> s, status |-> status]>>

Pending(s) == \E t \in Publisher : \E i \in DOMAIN todo[t] : todo[t][i].site = s

\* The publications of s that are queued now follow others that are not out.
Cross(S) == crossed' = (crossed \ S) \cup {s \in S : Pending(s)}

-----------------------------------------------------------------------------
(* Requests.  A request reaches a free HTTP thread; its client waits.       *)

Request(t, op, s, by) ==
    /\ HubUp /\ Idle(t)
    /\ ~ \E u \in Thread : client[u] = <<s, by>>
    /\ job' = [job EXCEPT ![t] = [op |-> op, site |-> s]]
    /\ client' = [client EXCEPT ![t] = <<s, by>>]
    /\ UNCHANGED <<hub, localSiteMap, localSitePingCountMap, todo, view,
                   subscribed, again, site, silent, crossed>>

\* registerSite, from startByRegister or from messageHandlerRegisterAgain.
RegisterSite(t, s) ==
    \/ site[s] = "registering" /\ Request(t, "register", s, "main")
    \/ again[s] = "handling" /\ Request(t, "register", s, "again")

UnregisterSite(t, s) ==
    /\ site[s] = "stopping"
    /\ Request(t, "unregister", s, "main")

Reply(t) ==
    /\ client[t] # NoClient /\ job[t] = NoJob /\ todo[t] = <<>>
    /\ client' = [client EXCEPT ![t] = NoClient]
    /\ LET s == client[t][1] IN
       IF client[t][2] = "main"
       THEN /\ site' = [site EXCEPT ![s] =
                           IF @ = "registering" THEN "subscribing" ELSE "down"]
            /\ UNCHANGED again
       ELSE /\ again' = [again EXCEPT ![s] = "none"]
            /\ UNCHANGED site
    /\ UNCHANGED <<hub, localSiteMap, localSitePingCountMap, job, todo, view,
                   subscribed, silent, crossed>>

-----------------------------------------------------------------------------
(* SiteTree, under mapRecursiveMutex; the publications follow outside it.   *)

SiteRegister(t) ==
    /\ job[t].op = "register"
    /\ LET s == job[t].site IN
       /\ localSiteMap' = localSiteMap \cup {s}
       /\ localSitePingCountMap' =
             [r \in DOMAIN localSitePingCountMap \cup {s} |->
                 IF r = s THEN 1 ELSE localSitePingCountMap[r]]
       /\ todo' = [todo EXCEPT ![t] = Publications(s, "online")]
       /\ silent' = [silent EXCEPT ![s] = 0]
       /\ Cross({s})
    /\ job' = [job EXCEPT ![t] = NoJob]
    /\ UNCHANGED <<hub, client, view, subscribed, again, site>>

SiteUnregister(t) ==
    /\ job[t].op = "unregister"
    /\ LET s == job[t].site IN
       IF Registered(s)
       THEN /\ localSiteMap' = localSiteMap \ {s}
            /\ localSitePingCountMap' =
                  [r \in DOMAIN localSitePingCountMap \ {s} |-> localSitePingCountMap[r]]
            /\ todo' = [todo EXCEPT ![t] = Publications(s, "offline")]
            /\ Cross({s})
       ELSE UNCHANGED <<localSiteMap, localSitePingCountMap, todo, crossed>>
    /\ job' = [job EXCEPT ![t] = NoJob]
    /\ UNCHANGED <<hub, client, view, subscribed, again, site, silent>>

\* A ping of a site that is not on record is answered and forgotten.
ResetLocalSitePingCounter(s) ==
    localSitePingCountMap' =
       [r \in DOMAIN localSitePingCountMap |->
           IF r = s THEN 1 ELSE localSitePingCountMap[r]]

SitePing(s) ==
    /\ HubUp
    /\ site[s] \in {"pinging", "up"}
    /\ ResetLocalSitePingCounter(s)
    /\ silent' = [silent EXCEPT ![s] = 0]
    /\ UNCHANGED <<hub, localSiteMap, job, client, todo, view, subscribed, again, site,
                   crossed>>

\* Faulty: the count stops at zero; a site is dropped one countdown early.
DownToZero(r) ==
    IF localSitePingCountMap[r] > 0 THEN localSitePingCountMap[r] - 1
    ELSE localSitePingCountMap[r]

\* Ping count of r after one countdown, and the sites it drops.
Decremented(r) == localSitePingCountMap[r] - 1
ExpiredEarly == {r \in DOMAIN localSitePingCountMap : Decremented(r) <= PingLimit + 1}

Expired == {r \in DOMAIN localSitePingCountMap : Decremented(r) <= PingLimit}

\* The countdown thread publishes all it has dropped before it sleeps again.
\* The guard is the clock: pings and countdowns both come every 10 seconds.
LocalSitePingCountDown ==
    /\ HubUp
    /\ todo[CountDown] = <<>>
    /\ \A s \in Site : Living(s) => silent[s] < MaxMissed
    /\ localSiteMap' = localSiteMap \ Expired
    /\ localSitePingCountMap' =
          [r \in DOMAIN localSitePingCountMap \ Expired |-> Decremented(r)]
    /\ \E order \in SetToSeqs(Expired \cap localSiteMap) :
          todo' = [todo EXCEPT ![CountDown] =
                      FlattenSeq([i \in DOMAIN order |-> Publications(order[i], "offline")])]
    /\ silent' = [s \in Site |-> IF silent[s] < 1 - PingLimit THEN silent[s] + 1 ELSE silent[s]]
    /\ Cross(Expired \cap localSiteMap)
    /\ UNCHANGED <<hub, job, client, view, subscribed, again, site>>

PublishMessage(t) ==
    /\ todo[t] # <<>>
    /\ LET m == Head(todo[t]) IN
       view' = [view EXCEPT ![m.topic][m.site] = m.status]
    /\ todo' = [todo EXCEPT ![t] = Tail(@)]
    /\ UNCHANGED <<hub, localSiteMap, localSitePingCountMap, job, client,
                   subscribed, again, site, silent, crossed>>

-----------------------------------------------------------------------------
(* The query site process.                                                  *)

HubCrash ==
    /\ HubMayCrash /\ HubUp
    /\ hub' = "down"
    /\ localSiteMap' = {}
    /\ localSitePingCountMap' = <<>>
    /\ job' = [t \in Thread |-> NoJob]
    /\ client' = [t \in Thread |-> NoClient]
    /\ todo' = [t \in Publisher |-> <<>>]
    /\ again' = [s \in Site |-> "none"]
    /\ crossed' = crossed \cup localSiteMap \cup {s \in Site : Pending(s)}
    /\ UNCHANGED <<view, subscribed, site, silent>>

\* Faulty: published before the subscribers have been loaded.
PublishBeforeLoading ==
    /\ hub = "starting"
    /\ hub' = "running"
    /\ UNCHANGED <<hubVars, view, subscribed, again, site, silent, crossed>>

\* It listens before it publishes "register again", one second later, to the
\* subscribers found in its file.
HubStart ==
    /\ hub = "down"
    /\ hub' = "starting"
    /\ silent' = [s \in Site |-> 0]
    /\ UNCHANGED <<hubVars, view, subscribed, again, site, crossed>>

PublishRegisterAgain ==
    /\ hub = "starting"
    /\ hub' = "running"
    /\ again' = [s \in Site |-> IF s \in subscribed THEN "queued" ELSE again[s]]
    /\ UNCHANGED <<hubVars, view, subscribed, site, silent, crossed>>

\* The message is lost on a site that does not listen (yet).
PostRegisterAgain(s) ==
    /\ again[s] = "queued"
    /\ again' = [again EXCEPT ![s] = IF site[s] = "up" THEN "handling" ELSE "none"]
    /\ UNCHANGED <<hub, hubVars, view, subscribed, site, silent, crossed>>

-----------------------------------------------------------------------------
(* A site process: startByRegister.                                         *)

SiteStep(s, from, to) ==
    /\ site[s] = from
    /\ site' = [site EXCEPT ![s] = to]

SiteStart(s) ==
    /\ SiteStep(s, "down", "registering")
    /\ UNCHANGED <<hub, hubVars, view, subscribed, again, silent, crossed>>

SubscribeRegisterAgain(s) ==
    /\ HubUp
    /\ SiteStep(s, "subscribing", "pinging")
    /\ subscribed' = subscribed \cup {s}
    /\ UNCHANGED <<hub, hubVars, view, again, silent, crossed>>

Listen(s) ==
    /\ SiteStep(s, "pinging", "up")
    /\ UNCHANGED <<hub, hubVars, view, subscribed, again, silent, crossed>>

SiteStop(s) ==
    /\ SiteMayStop
    /\ SiteStep(s, "up", "stopping")
    /\ UNCHANGED <<hub, hubVars, view, subscribed, again, silent, crossed>>

\* A request already under way is still handled, for nobody.
SiteCrash(s) ==
    /\ SiteMayStop
    /\ site[s] # "down"
    /\ site' = [site EXCEPT ![s] = "down"]
    /\ client' = [t \in Thread |->
                     IF client[t] \in {<<s, "main">>, <<s, "again">>} THEN NoClient
                     ELSE client[t]]
    /\ again' = [again EXCEPT ![s] = IF @ = "handling" THEN "none" ELSE @]
    /\ UNCHANGED <<hub, localSiteMap, localSitePingCountMap, job, todo, view,
                   subscribed, silent, crossed>>

-----------------------------------------------------------------------------
Handle(t) == SiteRegister(t) \/ SiteUnregister(t) \/ Reply(t)

Next ==
    \/ \E t \in Thread, s \in Site : RegisterSite(t, s) \/ UnregisterSite(t, s)
    \/ \E t \in Thread : Handle(t)
    \/ \E t \in Publisher : PublishMessage(t)
    \/ LocalSitePingCountDown
    \/ HubCrash \/ HubStart \/ PublishRegisterAgain
    \/ \E s \in Site :
          \/ SitePing(s) \/ PostRegisterAgain(s)
          \/ SiteStart(s) \/ SubscribeRegisterAgain(s) \/ Listen(s)
          \/ SiteStop(s) \/ SiteCrash(s)

Spec == Init /\ [][Next]_vars

\* Threads run, retry loops retry, pings are sent and the query site is started
\* again.  Nothing obliges anybody to crash, or a stopped site to start.
Fairness ==
    /\ \A t \in Thread : WF_vars(Handle(t))
    /\ \A t \in Publisher : WF_vars(PublishMessage(t))
    /\ WF_vars(LocalSitePingCountDown)
    /\ WF_vars(HubStart) /\ WF_vars(PublishRegisterAgain)
    /\ \A s \in Site :
          /\ SF_vars(\E t \in Thread : RegisterSite(t, s))
          /\ WF_vars(SitePing(s)) /\ WF_vars(PostRegisterAgain(s))
          /\ SF_vars(SubscribeRegisterAgain(s)) /\ WF_vars(Listen(s))

FairSpec == Spec /\ Fairness

-----------------------------------------------------------------------------
TypeOK ==
    /\ hub \in {"down", "starting", "running"}
    /\ localSiteMap \subseteq Site
    /\ DOMAIN localSitePingCountMap \subseteq Site
    /\ \A s \in DOMAIN localSitePingCountMap : localSitePingCountMap[s] \in Int
    /\ job \in [Thread -> Jobs]
    /\ client \in [Thread -> (Site \X {"main", "again"}) \cup {NoClient}]
    /\ todo \in [Publisher ->
          Seq([topic : Topic, site : Site, status : {"online", "offline"}])]
    /\ view \in [Topic -> [Site -> {"none", "online", "offline"}]]
    /\ subscribed \subseteq Site
    /\ again \in [Site -> {"none", "queued", "handling"}]
    /\ site \in [Site -> {"down", "registering", "subscribing", "pinging", "up", "stopping"}]
    /\ silent \in [Site -> Nat] /\ crossed \subseteq Site

\* Every site on record is counted down and nothing else is; its count tells
\* how many countdowns ago it was last heard.
CountsAreSilence ==
    /\ DOMAIN localSitePingCountMap = localSiteMap
    /\ \A s \in localSiteMap :
          /\ localSitePingCountMap[s] = 1 - silent[s]
          /\ localSitePingCountMap[s] > PingLimit

\* A site that lives, and is heard once in MaxMissed countdowns, is not taken
\* off the record while the query site runs.
LivingSitesStay ==
    [][\A s \in Site :
          Registered(s) /\ ~Registered(s)' /\ HubUp' =>
             ~Living(s) \/ \E t \in Thread : job[t] = [op |-> "unregister", site |-> s]]_vars

\* A site that is down, and stays down, is taken off the record.
DeadSitesAreDropped ==
    \A s \in Site : Registered(s) /\ site[s] = "down" ~> ~Registered(s) \/ site[s] # "down"

\* A site that listens and had subscribed when the query site was restarted is
\* on record again, unless one of them goes down first.
SubscribersReRegister ==
    \A s \in Site :
       hub = "starting" /\ s \in subscribed /\ site[s] = "up"
          ~> Registered(s) \/ site[s] # "up" \/ ~HubUp

\* What the query site's main says of its restart ("so that every site
\* registers again"): a site that is up gets on record.
EverySiteReRegisters ==
    \A s \in Site : site[s] = "up" ~> Registered(s) \/ site[s] # "up" \/ ~HubUp

\* A site whose publications are all out was last announced as it is on record,
\* on both topics, unless another operation on it came before the publications
\* of the last were out, or the query site crashed with it on record or before
\* they were.
AnnouncedAsRecorded ==
    \A s \in Site \ crossed : ~Pending(s) =>
       \A m \in Topic : view[m][s] = "online" <=> Registered(s)
=============================================================================
