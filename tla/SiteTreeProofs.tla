--------------------------- MODULE SiteTreeProofs ---------------------------
(***************************************************************************)
(* Proofs about SiteTree for every number of sites and of HTTP threads and *)
(* every ping limit.  The registry is one of several parts of the state: a *)
(* lemma first says what a step may do to it, and the invariant is stated  *)
(* over it alone.  The second half is about the rest of the state: its     *)
(* types, and that what is published is what is on record.                 *)
(***************************************************************************)
EXTENDS SiteTree, FiniteSetTheorems, WellFoundedInduction, TLAPS

USE PingLimitAssumption, MaxMissedAssumption, ThreadAssumption

registry == <<hub, localSiteMap, localSitePingCountMap, job, silent>>

RegistryType ==
    /\ localSiteMap \subseteq Site
    /\ localSitePingCountMap \in [localSiteMap -> Int]
    /\ job \in [Thread -> Jobs]
    /\ silent \in [Site -> Nat]

\* A query site that is down has nothing on record and nothing to do: a new
\* one starts with an empty registry, and so may call every site heard.
DownIsEmpty ==
    ~HubUp => /\ localSiteMap = {}
              /\ \A t \in Thread : job[t] = NoJob

IInv == RegistryType /\ DownIsEmpty /\ CountsAreSilence

-----------------------------------------------------------------------------
\* Requests give an idle thread of a running query site a job.
Requested ==
    /\ HubUp
    /\ \E t \in Thread, j \in Jobs : job' = [job EXCEPT ![t] = j]
    /\ UNCHANGED <<hub, localSiteMap, localSitePingCountMap, silent>>

\* Everything else either leaves the registry alone or is one of its
\* operations.
LEMMA RegistryStep ==
    ASSUME Next
    PROVE  \/ UNCHANGED registry
           \/ Requested
           \/ \E t \in Thread : SiteRegister(t) \/ SiteUnregister(t)
           \/ \E s \in Site : SitePing(s)
           \/ LocalSitePingCountDown
           \/ HubCrash \/ HubStart \/ PublishRegisterAgain
<1> USE DEF registry
<1>1. ASSUME NEW t \in Thread, NEW s \in Site, RegisterSite(t, s) \/ UnregisterSite(t, s)
      PROVE  Requested
  <2>1. PICK op \in {"register", "unregister"}, by \in {"main", "again"} : Request(t, op, s, by)
    BY <1>1 DEF RegisterSite, UnregisterSite
  <2>2. [op |-> op, site |-> s] \in Jobs
    BY DEF Jobs
  <2> QED BY <2>1, <2>2 DEF Request, Requested
<1>2. ASSUME NEW t \in Thread, Reply(t)
      PROVE  UNCHANGED registry
  BY <1>2 DEF Reply
<1>3. ASSUME NEW t \in Publisher, PublishMessage(t)
      PROVE  UNCHANGED registry
  BY <1>3 DEF PublishMessage
<1>4. ASSUME NEW s \in Site,
             \/ PostRegisterAgain(s) \/ SiteStart(s) \/ SubscribeRegisterAgain(s)
             \/ Listen(s) \/ SiteStop(s) \/ SiteCrash(s)
      PROVE  UNCHANGED registry
  BY <1>4 DEF PostRegisterAgain, SiteStart, SubscribeRegisterAgain, Listen, SiteStop,
              SiteCrash, hubVars
<1> QED BY <1>1, <1>2, <1>3, <1>4 DEF Next, Handle

\* What the countdown does, apart from the publications it leaves to do.
LEMMA CountDownStep ==
    ASSUME LocalSitePingCountDown
    PROVE  /\ HubUp
           /\ \A s \in Site : Living(s) => silent[s] < MaxMissed
           /\ localSiteMap' = localSiteMap \ Expired
           /\ localSitePingCountMap' =
                 [r \in DOMAIN localSitePingCountMap \ Expired |-> localSitePingCountMap[r] - 1]
           /\ silent' = [s \in Site |->
                            IF silent[s] < 1 - PingLimit THEN silent[s] + 1 ELSE silent[s]]
           /\ UNCHANGED <<hub, job, site>>
BY DEF LocalSitePingCountDown, Decremented

-----------------------------------------------------------------------------
LEMMA InitInvariant == Init => IInv
<1> SUFFICES ASSUME Init
             PROVE  IInv
  OBVIOUS
<1>1. DOMAIN localSitePingCountMap = {} /\ localSiteMap = {}
  BY DEF Init
<1>2. localSitePingCountMap \in [localSiteMap -> Int]
  BY <1>1 DEF Init
<1>3. job \in [Thread -> Jobs] /\ silent \in [Site -> Nat]
  BY DEF Init, Jobs
<1>4. RegistryType
  BY <1>1, <1>2, <1>3 DEF RegistryType
<1>5. DownIsEmpty
  BY <1>1 DEF Init, DownIsEmpty
<1>6. CountsAreSilence
  BY <1>1 DEF CountsAreSilence
<1> QED BY <1>4, <1>5, <1>6 DEF IInv

LEMMA InductiveInvariant == IInv /\ [Next]_vars => IInv'
<1> SUFFICES ASSUME IInv, [Next]_vars
             PROVE  IInv'
  OBVIOUS
<1> USE DEF IInv, RegistryType, DownIsEmpty, CountsAreSilence
<1>1. CASE UNCHANGED registry
  BY <1>1 DEF registry, HubUp
<1>2. CASE Requested
  <2>1. PICK t \in Thread, j \in Jobs : job' = [job EXCEPT ![t] = j]
    BY <1>2 DEF Requested
  <2>2. job' \in [Thread -> Jobs]
    BY <2>1
  <2>3. HubUp' /\ UNCHANGED <<localSiteMap, localSitePingCountMap, silent>>
    BY <1>2 DEF Requested, HubUp
  <2> QED BY <2>2, <2>3
<1>3. ASSUME NEW t \in Thread, SiteRegister(t)
      PROVE  IInv'
  <2> DEFINE s == job[t].site
  <2>1. s \in Site /\ HubUp
    BY <1>3 DEF SiteRegister, Jobs, NoJob
  <2>2. /\ localSiteMap' = localSiteMap \cup {s}
        /\ localSitePingCountMap' =
              [r \in DOMAIN localSitePingCountMap \cup {s} |->
                  IF r = s THEN 1 ELSE localSitePingCountMap[r]]
        /\ silent' = [silent EXCEPT ![s] = 0]
        /\ job' = [job EXCEPT ![t] = NoJob]
        /\ hub' = hub
    BY <1>3 DEF SiteRegister
  <2>3. job' \in [Thread -> Jobs]
    BY <2>2 DEF Jobs
  <2> HIDE DEF s
  <2>4. RegistryType'
    BY <2>1, <2>2, <2>3
  <2>5. CountsAreSilence'
    BY <2>1, <2>2
  <2>6. DownIsEmpty'
    BY <2>1, <2>2 DEF HubUp
  <2> QED BY <2>4, <2>5, <2>6
<1>4. ASSUME NEW t \in Thread, SiteUnregister(t)
      PROVE  IInv'
  <2>1. job' = [job EXCEPT ![t] = NoJob] /\ hub' = hub /\ silent' = silent
    BY <1>4 DEF SiteUnregister
  <2>2. HubUp /\ HubUp'
    BY <1>4, <2>1 DEF SiteUnregister, NoJob, HubUp
  <2>3. job' \in [Thread -> Jobs]
    BY <2>1 DEF Jobs
  <2>4. PICK R \in SUBSET Site :
           /\ localSiteMap' = localSiteMap \ R
           /\ localSitePingCountMap' =
                 [r \in localSiteMap \ R |-> localSitePingCountMap[r]]
    <3>1. CASE Registered(job[t].site)
      <4>1. {job[t].site} \in SUBSET Site
        BY <3>1 DEF Registered
      <4>2. /\ localSiteMap' = localSiteMap \ {job[t].site}
            /\ localSitePingCountMap' =
                  [r \in localSiteMap \ {job[t].site} |-> localSitePingCountMap[r]]
        BY <1>4, <3>1 DEF SiteUnregister
      <4> QED BY <4>1, <4>2
    <3>2. CASE ~Registered(job[t].site)
      <4>1. UNCHANGED <<localSiteMap, localSitePingCountMap>>
        BY <1>4, <3>2 DEF SiteUnregister
      <4>2. localSitePingCountMap' = [r \in localSiteMap \ {} |-> localSitePingCountMap[r]]
        BY <4>1
      <4>3. {} \in SUBSET Site /\ localSiteMap' = localSiteMap \ {}
        BY <4>1
      <4> QED BY <4>2, <4>3
    <3> QED BY <3>1, <3>2
  <2> QED BY <2>1, <2>2, <2>3, <2>4
<1>5. ASSUME NEW s \in Site, SitePing(s)
      PROVE  IInv'
  <2>1. /\ localSitePingCountMap' =
              [r \in DOMAIN localSitePingCountMap |->
                  IF r = s THEN 1 ELSE localSitePingCountMap[r]]
        /\ silent' = [silent EXCEPT ![s] = 0]
        /\ HubUp /\ UNCHANGED <<hub, localSiteMap, job>>
    BY <1>5 DEF SitePing, ResetLocalSitePingCounter
  <2> QED BY <2>1 DEF HubUp
<1>6. CASE LocalSitePingCountDown
  <2>1. \A r \in localSiteMap : r \notin Expired => localSitePingCountMap[r] - 1 > PingLimit
    BY DEF Expired, Decremented
  <2>2. HubUp'
    BY <1>6, CountDownStep DEF HubUp
  <2>3. RegistryType'
    BY <1>6, CountDownStep
  <2>4. \A r \in localSiteMap' :
           /\ r \in localSiteMap /\ r \notin Expired /\ r \in Site
           /\ localSitePingCountMap'[r] = localSitePingCountMap[r] - 1
    BY <1>6, CountDownStep
  <2>5. \A r \in localSiteMap' : silent'[r] = silent[r] + 1
    <3> SUFFICES ASSUME NEW r \in localSiteMap'
                 PROVE  silent'[r] = silent[r] + 1
      OBVIOUS
    <3>1. silent[r] < 1 - PingLimit
      BY <2>4
    <3> QED BY <1>6, <2>4, <3>1, CountDownStep
  <2>6. CountsAreSilence'
    <3>1. DOMAIN localSitePingCountMap' = localSiteMap'
      BY <2>3
    <3>2. \A r \in localSiteMap' : /\ localSitePingCountMap'[r] = 1 - silent'[r]
                                   /\ localSitePingCountMap'[r] > PingLimit
      BY <2>1, <2>4, <2>5
    <3> QED BY <3>1, <3>2
  <2> QED BY <2>2, <2>3, <2>6
<1>7. CASE HubCrash
  <2>1. /\ localSiteMap' = {} /\ localSitePingCountMap' = <<>>
        /\ job' = [t \in Thread |-> NoJob] /\ silent' = silent
    BY <1>7 DEF HubCrash
  <2>2. localSitePingCountMap' \in [localSiteMap' -> Int]
    BY <2>1
  <2>3. job' \in [Thread -> Jobs]
    BY <2>1 DEF Jobs
  <2> QED BY <2>1, <2>2, <2>3
<1>8. CASE HubStart
  <2>1. /\ ~HubUp /\ HubUp'
        /\ silent' = [s \in Site |-> 0]
        /\ UNCHANGED <<localSiteMap, localSitePingCountMap, job>>
    BY <1>8 DEF HubStart, HubUp, hubVars
  <2> QED BY <2>1
<1>9. CASE PublishRegisterAgain
  <2>1. HubUp' /\ UNCHANGED <<localSiteMap, localSitePingCountMap, job, silent>>
    BY <1>9 DEF PublishRegisterAgain, HubUp, hubVars
  <2> QED BY <2>1
<1> QED
  <2>1. CASE UNCHANGED vars
    BY <1>1, <2>1 DEF vars, registry, hubVars
  <2> QED BY <1>1, <1>2, <1>3, <1>4, <1>5, <1>6, <1>7, <1>8, <1>9, <2>1, RegistryStep

\* The invariant holds in every reachable state.
THEOREM Invariant == Spec => []IInv
BY InitInvariant, InductiveInvariant, PTL DEF Spec

\* The ping count of every site on record says how long it has been silent,
\* and nothing that is not on record is counted down.
THEOREM CountsAreSilenceHolds == Spec => []CountsAreSilence
<1>1. IInv => CountsAreSilence
  BY DEF IInv
<1> QED BY <1>1, Invariant, PTL

-----------------------------------------------------------------------------
\* A living site that is heard once in MaxMissed countdowns stays on record,
\* however requests, pings, countdowns and restarts of sites interleave.
THEOREM LivingSitesStayHolds == Spec => LivingSitesStay
<1> DEFINE Stays ==
       \A s \in Site :
          Registered(s) /\ ~Registered(s)' /\ HubUp' =>
             ~Living(s) \/ \E t \in Thread : job[t] = [op |-> "unregister", site |-> s]
<1>1. IInv /\ [Next]_vars => [Stays]_vars
  <2> SUFFICES ASSUME IInv, Next,
                      NEW s \in Site, Registered(s), ~Registered(s)', HubUp'
               PROVE  ~Living(s) \/ \E t \in Thread : job[t] = [op |-> "unregister", site |-> s]
    OBVIOUS
  <2> USE DEF IInv, RegistryType, DownIsEmpty, CountsAreSilence, Registered
  <2>1. CASE UNCHANGED registry
    BY <2>1 DEF registry
  <2>2. CASE Requested
    BY <2>2 DEF Requested
  <2>3. ASSUME NEW t \in Thread, SiteRegister(t)
        PROVE  FALSE
    BY <2>3 DEF SiteRegister
  <2>4. ASSUME NEW t \in Thread, SiteUnregister(t)
        PROVE  job[t] = [op |-> "unregister", site |-> s]
    <3>1. job[t].op = "unregister" /\ job[t].site = s
      BY <2>4 DEF SiteUnregister
    <3>2. job[t] \in [op : {"register", "unregister"}, site : Site]
      BY <3>1 DEF Jobs, NoJob
    <3> QED BY <3>1, <3>2
  <2>5. ASSUME NEW r \in Site, SitePing(r)
        PROVE  FALSE
    BY <2>5 DEF SitePing
  <2>6. CASE LocalSitePingCountDown
    <3>1. s \in Expired
      BY <2>6, CountDownStep
    <3>2. localSitePingCountMap[s] = 1 - silent[s] /\ localSitePingCountMap[s] - 1 <= PingLimit
      BY <3>1 DEF Expired, Decremented
    <3>3. silent[s] >= 0 - PingLimit
      BY <3>2
    <3>4. Living(s) => silent[s] < 0 - PingLimit
      BY <2>6, CountDownStep
    <3> QED BY <3>3, <3>4
  <2>7. CASE HubCrash
    BY <2>7 DEF HubCrash, HubUp
  <2>8. CASE HubStart \/ PublishRegisterAgain
    BY <2>8 DEF HubStart, PublishRegisterAgain, hubVars
  <2> QED BY <2>1, <2>2, <2>3, <2>4, <2>5, <2>6, <2>7, <2>8, RegistryStep
<1> QED BY <1>1, Invariant, PTL DEF Spec, LivingSitesStay
-----------------------------------------------------------------------------
(* What the countdown thread has to publish: FlattenSeq of a sequence of     *)
(* sequences is a sequence of their items.  FlattenSeq is recursive; that   *)
(* its function exists and what it is follow by induction on the number of  *)
(* sequences, on a set of numbers.                                          *)

\* The least element of a set of numbers.
LEMMA LeastElement ==
    ASSUME NEW T \in SUBSET Nat, T # {}
    PROVE  \E m \in T : \A k \in T : m <= k
<1>1. IsWellFoundedOn(OpToRel(<, Nat), Nat)
  BY NatLessThanWellFounded, Zenon
<1>2. PICK m \in T : \A k \in T : ~(<<k, m>> \in OpToRel(<, Nat))
  BY <1>1, WFMin, Zenon
<1>3. \A k \in T : ~(k < m)
  BY <1>2, Zenon DEF OpToRel
<1> QED BY <1>3

LEMMA SetInduction ==
    ASSUME NEW S, 0 \in S, \A n \in Nat : n \in S => n + 1 \in S
    PROVE  Nat \subseteq S
<1> SUFFICES ASSUME Nat \ S # {}
             PROVE  FALSE
  OBVIOUS
<1>1. PICK m \in Nat \ S : \A k \in Nat \ S : m <= k
  BY LeastElement
<1>2. m # 0 /\ m - 1 \in Nat /\ m - 1 \notin Nat \ S
  BY <1>1
<1> QED BY <1>1, <1>2

Items(s) == {s[j] : j \in 1..Len(s)}

ItemsUpTo(seqs, n) == UNION {Items(seqs[k]) : k \in 1..n}

LEMMA ItemsOfConcat ==
    ASSUME NEW P, NEW a \in Seq(P), NEW b \in Seq(P)
    PROVE  a \o b \in Seq(P) /\ Items(a \o b) = Items(a) \cup Items(b)
<1>1. /\ a \o b \in Seq(P) /\ Len(a \o b) = Len(a) + Len(b)
      /\ \A j \in 1..(Len(a) + Len(b)) :
            (a \o b)[j] = IF j <= Len(a) THEN a[j] ELSE b[j - Len(a)]
  OBVIOUS
<1>2. Len(a) \in Nat /\ Len(b) \in Nat
  OBVIOUS
<1>3. ASSUME NEW j \in 1..Len(a \o b)
      PROVE  (a \o b)[j] \in Items(a) \cup Items(b)
  <2>1. CASE j <= Len(a)
    BY <1>1, <1>2, <2>1 DEF Items
  <2>2. CASE ~(j <= Len(a))
    <3>1. j - Len(a) \in 1..Len(b) /\ (a \o b)[j] = b[j - Len(a)]
      BY <1>1, <1>2, <2>2
    <3> QED BY <3>1 DEF Items
  <2> QED BY <2>1, <2>2
<1>4. ASSUME NEW j \in 1..Len(a)
      PROVE  a[j] \in Items(a \o b)
  BY <1>1, <1>2 DEF Items
<1>5. ASSUME NEW j \in 1..Len(b)
      PROVE  b[j] \in Items(a \o b)
  <2>1. j + Len(a) \in 1..Len(a \o b) /\ (a \o b)[j + Len(a)] = b[j]
    BY <1>1, <1>2
  <2> QED BY <2>1 DEF Items
<1> QED BY <1>1, <1>3, <1>4, <1>5 DEF Items

\* The function that FlattenSeq defines, up to the i-th sequence.
FlatUpTo(f, seqs, n) ==
    f = [i \in 1..n |-> IF i = 1 THEN seqs[i] ELSE f[i - 1] \o seqs[i]]

LEMMA FlatPoint ==
    ASSUME NEW f, NEW seqs, NEW n, FlatUpTo(f, seqs, n), NEW i \in 1..n
    PROVE  f[i] = IF i = 1 THEN seqs[i] ELSE f[i - 1] \o seqs[i]
<1> DEFINE val(j) == IF j = 1 THEN seqs[j] ELSE f[j - 1] \o seqs[j]
<1>1. f = [j \in 1..n |-> val(j)]
  BY DEF FlatUpTo
<1> HIDE DEF val
<1>2. f[i] = val(i)
  BY <1>1
<1> QED BY <1>2 DEF val

LEMMA FlatExists ==
    ASSUME NEW seqs
    PROVE  \A n \in Nat : \E f : FlatUpTo(f, seqs, n)
<1> DEFINE S == {n \in Nat : \E f : FlatUpTo(f, seqs, n)}
<1>1. 0 \in S
  <2>1. 1..0 = {}
    OBVIOUS
  <2> DEFINE g == [i \in {} |-> 0]
  <2>2. g = [i \in 1..0 |-> IF i = 1 THEN seqs[i] ELSE g[i - 1] \o seqs[i]]
    BY <2>1
  <2> QED BY <2>2 DEF FlatUpTo
<1>2. ASSUME NEW n \in Nat, n \in S
      PROVE  n + 1 \in S
  <2>1. PICK f : FlatUpTo(f, seqs, n)
    BY <1>2
  <2> DEFINE val(h, i) == IF i = 1 THEN seqs[i] ELSE h[i - 1] \o seqs[i]
             g == [i \in 1..(n + 1) |-> IF i = n + 1 THEN val(f, i) ELSE f[i]]
  <2>2. \A i \in 1..n : f[i] = val(f, i)
    BY <2>1, FlatPoint
  <2>3. ASSUME NEW i \in 1..(n + 1)
        PROVE  g[i] = val(g, i)
    <3> HIDE DEF val
    <3>1. g[i] = val(f, i)
      <4>1. CASE i = n + 1
        BY <4>1
      <4>2. CASE i # n + 1
        <5>1. i \in 1..n
          BY <4>2
        <5> QED BY <2>2, <4>2, <5>1
      <4> QED BY <4>1, <4>2
    <3>2. i # 1 => g[i - 1] = f[i - 1]
      OBVIOUS
    <3> HIDE DEF g
    <3>3. val(f, i) = val(g, i)
      BY <3>2 DEF val
    <3> QED BY <3>1, <3>3
  <2>4. g = [i \in 1..(n + 1) |-> val(g, i)]
    <3> DEFINE h == [i \in 1..(n + 1) |-> val(g, i)]
    <3>1. g = [i \in 1..(n + 1) |-> g[i]]
      <4> HIDE DEF val
      <4> QED OBVIOUS
    <3> HIDE DEF g, val
    <3> QED BY <2>3, <3>1
  <2> HIDE DEF g
  <2>5. FlatUpTo(g, seqs, n + 1)
    BY <2>4 DEF FlatUpTo
  <2> QED BY <2>5
<1> HIDE DEF S
<1>3. Nat \subseteq S
  BY <1>1, <1>2, SetInduction
<1> QED BY <1>3 DEF S

LEMMA FlatItems ==
    ASSUME NEW P, NEW seqs \in Seq(Seq(P)), NEW f, FlatUpTo(f, seqs, Len(seqs)),
           NEW n \in 1..Len(seqs)
    PROVE  f[n] \in Seq(P) /\ Items(f[n]) = ItemsUpTo(seqs, n)
<1> DEFINE Good(m) == f[m] \in Seq(P) /\ Items(f[m]) = ItemsUpTo(seqs, m)
           S == {m \in Nat : m \in 1..Len(seqs) => Good(m)}
<1>1. 0 \in S
  OBVIOUS
<1>2. ASSUME NEW m \in Nat, m \in S
      PROVE  m + 1 \in S
  <2> SUFFICES ASSUME m + 1 \in 1..Len(seqs)
               PROVE  Good(m + 1)
    OBVIOUS
  <2>1. f[m + 1] = IF m = 0 THEN seqs[m + 1] ELSE f[m] \o seqs[m + 1]
    <3>1. f[m + 1] = IF m + 1 = 1 THEN seqs[m + 1] ELSE f[(m + 1) - 1] \o seqs[m + 1]
      BY FlatPoint
    <3>2. (m + 1) - 1 = m /\ (m + 1 = 1 <=> m = 0)
      OBVIOUS
    <3> QED BY <3>1, <3>2
  <2>2. seqs[m + 1] \in Seq(P)
    OBVIOUS
  <2>3. CASE m = 0
    <3>1. 1..(m + 1) = {m + 1}
      BY <2>3
    <3>2. f[m + 1] = seqs[m + 1]
      BY <2>1, <2>3
    <3>3. ItemsUpTo(seqs, m + 1) = Items(seqs[m + 1])
      BY <3>1 DEF ItemsUpTo
    <3> QED BY <2>2, <3>2, <3>3
  <2>4. CASE m # 0
    <3>1. m \in 1..Len(seqs)
      BY <2>4
    <3>2. f[m] \in Seq(P) /\ Items(f[m]) = ItemsUpTo(seqs, m)
      BY <1>2, <3>1
    <3>3. f[m + 1] = f[m] \o seqs[m + 1]
      BY <2>1, <2>4
    <3>4. 1..(m + 1) = 1..m \cup {m + 1}
      OBVIOUS
    <3>5. ItemsUpTo(seqs, m + 1) = ItemsUpTo(seqs, m) \cup Items(seqs[m + 1])
      BY <3>4 DEF ItemsUpTo
    <3>6. f[m] \o seqs[m + 1] \in Seq(P)
          /\ Items(f[m] \o seqs[m + 1]) = Items(f[m]) \cup Items(seqs[m + 1])
      BY <2>2, <3>2, ItemsOfConcat
    <3> QED BY <3>2, <3>3, <3>5, <3>6
  <2> QED BY <2>3, <2>4
<1>3. Nat \subseteq S
  <2> HIDE DEF S
  <2> QED BY <1>1, <1>2, SetInduction
<1>4. n \in S
  <2> HIDE DEF S
  <2> QED BY <1>3
<1> QED BY <1>4

LEMMA FlattenedItems ==
    ASSUME NEW P, NEW seqs \in Seq(Seq(P))
    PROVE  /\ FlattenSeq(seqs) \in Seq(P)
           /\ Items(FlattenSeq(seqs)) = ItemsUpTo(seqs, Len(seqs))
<1>1. CASE Len(seqs) = 0
  <2>1. FlattenSeq(seqs) = seqs
    BY <1>1 DEF FlattenSeq
  <2>2. seqs = <<>>
    BY <1>1
  <2>3. FlattenSeq(seqs) \in Seq(P) /\ Items(FlattenSeq(seqs)) = {}
    BY <2>1, <2>2 DEF Items
  <2>4. ItemsUpTo(seqs, 0) = {}
    BY DEF ItemsUpTo
  <2> QED BY <1>1, <2>3, <2>4
<1>2. CASE Len(seqs) # 0
  <2> DEFINE F == CHOOSE f :
                f = [i \in 1..Len(seqs) |-> IF i = 1 THEN seqs[i] ELSE f[i - 1] \o seqs[i]]
  <2>1. FlatUpTo(F, seqs, Len(seqs))
    <3>1. Len(seqs) \in Nat
      OBVIOUS
    <3>2. PICK g : FlatUpTo(g, seqs, Len(seqs))
      BY <3>1, FlatExists
    <3>3. g = [i \in 1..Len(seqs) |-> IF i = 1 THEN seqs[i] ELSE g[i - 1] \o seqs[i]]
      BY <3>2, Zenon DEF FlatUpTo
    <3>4. F = [i \in 1..Len(seqs) |-> IF i = 1 THEN seqs[i] ELSE F[i - 1] \o seqs[i]]
      BY <3>3, Zenon
    <3> QED BY <3>4, Zenon DEF FlatUpTo
  <2>2. FlattenSeq(seqs) = F[Len(seqs)]
    BY <1>2, Zenon DEF FlattenSeq
  <2>3. Len(seqs) \in 1..Len(seqs)
    BY <1>2
  <2> HIDE DEF F
  <2>4. PICK f : FlatUpTo(f, seqs, Len(seqs)) /\ FlattenSeq(seqs) = f[Len(seqs)]
    BY <2>1, <2>2, Zenon
  <2> QED BY <2>3, <2>4, FlatItems
<1> QED BY <1>1, <1>2

-----------------------------------------------------------------------------
(* The rest of the state: who waits, what is still to be published and what *)
(* was.                                                                      *)

Status == {"online", "offline"}
Pub    == [topic : Topic, site : Site, status : Status]

\* One part of the type invariant per group of variables, so that a step is
\* argued about only where it acts.
TodoType   == todo \in [Publisher -> Seq(Pub)]
ClientType == client \in [Thread -> (Site \X {"main", "again"}) \cup {NoClient}]
ViewType   == view \in [Topic -> [Site -> {"none", "online", "offline"}]]
SiteType   ==
    /\ hub \in {"down", "starting", "running"}
    /\ subscribed \subseteq Site
    /\ again \in [Site -> {"none", "queued", "handling"}]
    /\ site \in [Site -> {"down", "registering", "subscribing", "pinging", "up", "stopping"}]

\* The countdown orders what it drops: a record of finitely many sites.
FiniteRecord == IsFiniteSet(localSiteMap)

\* A thread that still has a request to handle has published all of its last:
\* what it leaves to publish replaces nothing.
JobsWait == \A t \in Thread : job[t] # NoJob => todo[t] = <<>>

TypeInv ==
    /\ IInv /\ TodoType /\ ClientType /\ ViewType /\ SiteType
    /\ FiniteRecord /\ JobsWait /\ crossed \subseteq Site

LEMMA TypeInvIsType == TypeInv => TypeOK
<1> SUFFICES ASSUME TypeInv
             PROVE  TypeOK
  OBVIOUS
<1>1. TodoType /\ ClientType /\ ViewType /\ SiteType /\ RegistryType /\ crossed \subseteq Site
  BY DEF TypeInv, IInv
<1>2. /\ DOMAIN localSitePingCountMap \subseteq Site
      /\ \A s \in DOMAIN localSitePingCountMap : localSitePingCountMap[s] \in Int
  BY <1>1 DEF RegistryType
<1> QED BY <1>1, <1>2
        DEF TypeOK, TodoType, ClientType, ViewType, SiteType, RegistryType, Pub, Status

LEMMA TypeInit == Init => TypeInv
<1> SUFFICES ASSUME Init
             PROVE  TypeInv
  OBVIOUS
<1>1. TodoType
  <2>1. <<>> \in Seq(Pub)
    OBVIOUS
  <2> QED BY <2>1 DEF Init, TodoType
<1>2. ClientType /\ ViewType /\ SiteType
  BY DEF Init, ClientType, ViewType, SiteType
<1>3. FiniteRecord
  BY FS_EmptySet DEF Init, FiniteRecord
<1>4. JobsWait /\ crossed \subseteq Site
  BY DEF Init, JobsWait, Publisher
<1> QED BY <1>1, <1>2, <1>3, <1>4, InitInvariant DEF TypeInv

\* What is to be published when all sites of R get the status st.
About(R, st) == {[topic |-> m, site |-> s, status |-> st] : s \in R, m \in Topic}

LEMMA PublicationsType ==
    ASSUME NEW s \in Site, NEW st \in Status
    PROVE  /\ Publications(s, st) \in Seq(Pub)
           /\ Items(Publications(s, st)) = About({s}, st)
<1> DEFINE a == [topic |-> "onoffline", site |-> s, status |-> st]
           b == [topic |-> "node2node", site |-> s, status |-> st]
<1>1. a \in Pub /\ b \in Pub
  BY DEF Pub, Topic
<1>2. Publications(s, st) = <<a, b>>
  BY DEF Publications
<1>3. About({s}, st) = {a, b}
  BY DEF About, Topic
<1> HIDE DEF a, b
<1>4. <<a, b>> \in Seq(Pub) /\ Items(<<a, b>>) = {a, b}
  BY <1>1 DEF Items
<1> QED BY <1>2, <1>3, <1>4

\* An order of a finite set has all its elements.
LEMMA OrderCovers ==
    ASSUME NEW S, IsFiniteSet(S), NEW order \in SetToSeqs(S)
    PROVE  /\ order \in Seq(S)
           /\ \A s \in S : \E i \in 1..Len(order) : order[i] = s
<1> DEFINE n == Cardinality(S)
<1>1. n \in Nat
  BY FS_CardinalityType
<1>2. order \in [1..n -> S] /\ \A i, j \in 1..n : i # j => order[i] # order[j]
  BY DEF SetToSeqs
<1> HIDE DEF n
<1>3. order \in Seq(S) /\ Len(order) = n
  BY <1>1, <1>2
<1>4. order \in Injection(1..n, S)
  BY <1>2 DEF Injection, IsInjective
<1>5. IsFiniteSet(1..n) /\ Cardinality(1..n) = n
  BY <1>1, FS_Interval
<1>6. order \in Surjection(1..n, S)
  BY <1>4, <1>5, FS_Injection DEF n
<1> QED BY <1>3, <1>6 DEF Surjection

\* What the countdown thread is left to publish: that every site it dropped is
\* offline, on both topics, and nothing else.
LEMMA CountDownPublishes ==
    ASSUME TypeInv, LocalSitePingCountDown
    PROVE  /\ todo[CountDown] = <<>>
           /\ \E q \in Seq(Pub) :
                 /\ todo' = [todo EXCEPT ![CountDown] = q]
                 /\ Items(q) = About(Expired \cap localSiteMap, "offline")
<1> DEFINE D == Expired \cap localSiteMap
<1>1. PICK order \in SetToSeqs(D) :
         todo' = [todo EXCEPT ![CountDown] =
                     FlattenSeq([i \in DOMAIN order |-> Publications(order[i], "offline")])]
  BY DEF LocalSitePingCountDown
<1>2. IsFiniteSet(D) /\ D \subseteq Site
  <2>1. IsFiniteSet(localSiteMap) /\ localSiteMap \subseteq Site
    BY DEF TypeInv, FiniteRecord, IInv, RegistryType
  <2>2. D \in SUBSET localSiteMap
    OBVIOUS
  <2> QED BY <2>1, <2>2, FS_Subset
<1> HIDE DEF D
<1>3. order \in Seq(D) /\ \A s \in D : \E i \in 1..Len(order) : order[i] = s
  BY <1>1, <1>2, OrderCovers
<1> DEFINE seqs == [i \in 1..Len(order) |-> Publications(order[i], "offline")]
           off(s) == About({s}, "offline")
<1>4. todo' = [todo EXCEPT ![CountDown] = FlattenSeq(seqs)]
  <2>1. DOMAIN order = 1..Len(order)
    BY <1>3
  <2> QED BY <1>1, <2>1
<1>5. \A i \in 1..Len(order) : /\ order[i] \in D
                               /\ Publications(order[i], "offline") \in Seq(Pub)
                               /\ Items(Publications(order[i], "offline")) = off(order[i])
  BY <1>2, <1>3, PublicationsType DEF Status
<1>6. seqs \in Seq(Seq(Pub)) /\ Len(seqs) = Len(order)
  <2>1. Len(order) \in Nat
    BY <1>3
  <2>2. \A i \in 1..Len(order) : Publications(order[i], "offline") \in Seq(Pub)
    BY <1>5
  <2> QED BY <2>1, <2>2
<1>7. FlattenSeq(seqs) \in Seq(Pub) /\ Items(FlattenSeq(seqs)) = ItemsUpTo(seqs, Len(order))
  <2> HIDE DEF seqs
  <2> QED BY <1>6, FlattenedItems
<1>8. ItemsUpTo(seqs, Len(order)) = UNION {off(order[i]) : i \in 1..Len(order)}
  <2>1. \A i \in 1..Len(order) : Items(seqs[i]) = off(order[i])
    BY <1>5
  <2> HIDE DEF seqs, off
  <2> QED BY <2>1 DEF ItemsUpTo
<1>9. UNION {off(order[i]) : i \in 1..Len(order)} = About(D, "offline")
  <2>1. ASSUME NEW x
        PROVE  x \in About(D, "offline") <=> \E s \in D : x \in off(s)
    BY DEF About
  <2> HIDE DEF off
  <2>2. \A i \in 1..Len(order) : order[i] \in D
    BY <1>5
  <2> QED BY <1>3, <2>1, <2>2
<1>10. todo[CountDown] = <<>>
  BY DEF LocalSitePingCountDown
<1> HIDE DEF seqs
<1> DEFINE q == FlattenSeq(seqs)
<1>11. Items(q) = About(Expired \cap localSiteMap, "offline")
  BY <1>7, <1>8, <1>9 DEF D
<1>12. q \in Seq(Pub) /\ todo' = [todo EXCEPT ![CountDown] = q]
  BY <1>4, <1>7
<1> HIDE DEF q
<1> QED BY <1>10, <1>11, <1>12


\* A request waits for a thread that has nothing left to publish.
LEMMA TypeRequest ==
    ASSUME TypeInv, NEW t \in Thread, NEW s \in Site,
           RegisterSite(t, s) \/ UnregisterSite(t, s)
    PROVE  TypeInv'
<1>1. PICK op \in {"register", "unregister"}, by \in {"main", "again"} : Request(t, op, s, by)
  BY DEF RegisterSite, UnregisterSite
<1>2. /\ todo[t] = <<>>
      /\ job' = [job EXCEPT ![t] = [op |-> op, site |-> s]]
      /\ client' = [client EXCEPT ![t] = <<s, by>>]
      /\ UNCHANGED <<hub, localSiteMap, todo, view, subscribed, again, site, crossed>>
  BY <1>1 DEF Request, Idle
<1>3. Next
  BY DEF Next
<1>4. IInv'
  BY <1>3, InductiveInvariant DEF TypeInv
<1>5. ClientType'
  BY <1>2 DEF TypeInv, ClientType
<1>6. JobsWait'
  BY <1>2 DEF TypeInv, JobsWait, IInv, RegistryType
<1> QED BY <1>2, <1>4, <1>5, <1>6
        DEF TypeInv, TodoType, ViewType, SiteType, FiniteRecord

LEMMA TypeRegister ==
    ASSUME TypeInv, NEW t \in Thread, SiteRegister(t)
    PROVE  TypeInv'
<1> DEFINE s == job[t].site
<1>1. s \in Site
  BY DEF SiteRegister, Jobs, NoJob, TypeInv, IInv, RegistryType
<1>2. /\ localSiteMap' = localSiteMap \cup {s}
      /\ todo' = [todo EXCEPT ![t] = Publications(s, "online")]
      /\ crossed' = (crossed \ {s}) \cup {r \in {s} : Pending(r)}
      /\ job' = [job EXCEPT ![t] = NoJob]
      /\ UNCHANGED <<hub, client, view, subscribed, again, site>>
  BY DEF SiteRegister, Cross
<1>3. Publications(s, "online") \in Seq(Pub)
  BY <1>1, PublicationsType DEF Status
<1>4. Next
  BY DEF Next, Handle
<1>5. IInv'
  BY <1>4, InductiveInvariant DEF TypeInv
<1> HIDE DEF s
<1>6. TodoType'
  BY <1>2, <1>3 DEF TypeInv, TodoType
<1>7. FiniteRecord'
  BY <1>2, FS_AddElement DEF TypeInv, FiniteRecord
<1>8. JobsWait'
  BY <1>2 DEF TypeInv, JobsWait, IInv, RegistryType, TodoType
<1>9. crossed' \subseteq Site
  BY <1>1, <1>2 DEF TypeInv
<1> QED BY <1>2, <1>5, <1>6, <1>7, <1>8, <1>9
        DEF TypeInv, ClientType, ViewType, SiteType

LEMMA TypeUnregister ==
    ASSUME TypeInv, NEW t \in Thread, SiteUnregister(t)
    PROVE  TypeInv'
<1> DEFINE s == job[t].site
<1>1. job' = [job EXCEPT ![t] = NoJob] /\ UNCHANGED <<hub, client, view, subscribed, again, site>>
  BY DEF SiteUnregister
<1>2. Next
  BY DEF Next, Handle
<1>3. IInv'
  BY <1>2, InductiveInvariant DEF TypeInv
<1>4. ClientType' /\ ViewType' /\ SiteType'
  BY <1>1 DEF TypeInv, ClientType, ViewType, SiteType
<1>5. CASE ~Registered(s)
  <2>1. UNCHANGED <<localSiteMap, todo, crossed>>
    BY <1>5 DEF SiteUnregister
  <2>2. JobsWait'
    BY <1>1, <2>1 DEF TypeInv, JobsWait, IInv, RegistryType
  <2> QED BY <1>3, <1>4, <2>1, <2>2 DEF TypeInv, TodoType, FiniteRecord
<1>6. CASE Registered(s)
  <2>1. s \in Site
    BY <1>6 DEF Registered, TypeInv, IInv, RegistryType
  <2>2. /\ localSiteMap' = localSiteMap \ {s}
        /\ todo' = [todo EXCEPT ![t] = Publications(s, "offline")]
        /\ crossed' = (crossed \ {s}) \cup {r \in {s} : Pending(r)}
    BY <1>6 DEF SiteUnregister, Cross
  <2>3. Publications(s, "offline") \in Seq(Pub)
    BY <2>1, PublicationsType DEF Status
  <2> HIDE DEF s
  <2>4. TodoType'
    BY <2>2, <2>3 DEF TypeInv, TodoType
  <2>5. FiniteRecord'
    BY <2>2, FS_RemoveElement DEF TypeInv, FiniteRecord
  <2>6. JobsWait'
    BY <1>1, <2>2 DEF TypeInv, JobsWait, IInv, RegistryType, TodoType
  <2>7. crossed' \subseteq Site
    BY <2>1, <2>2 DEF TypeInv
  <2> QED BY <1>3, <1>4, <2>4, <2>5, <2>6, <2>7 DEF TypeInv
<1> QED BY <1>5, <1>6

LEMMA TypeReply ==
    ASSUME TypeInv, NEW t \in Thread, Reply(t)
    PROVE  TypeInv'
<1> DEFINE s == client[t][1]
<1>1. s \in Site
  BY DEF Reply, TypeInv, ClientType
<1>2. /\ client' = [client EXCEPT ![t] = NoClient]
      /\ \/ /\ site' = [site EXCEPT ![s] = IF @ = "registering" THEN "subscribing" ELSE "down"]
            /\ UNCHANGED again
         \/ /\ again' = [again EXCEPT ![s] = "none"]
            /\ UNCHANGED site
      /\ UNCHANGED <<hub, localSiteMap, job, todo, view, subscribed, crossed>>
  BY DEF Reply
<1>3. Next
  BY DEF Next, Handle
<1>4. IInv'
  BY <1>3, InductiveInvariant DEF TypeInv
<1> HIDE DEF s
<1>5. ClientType'
  BY <1>2 DEF TypeInv, ClientType
<1>6. SiteType'
  <2>1. \A x : x = "registering" \/ x # "registering"
    OBVIOUS
  <2>2. site' \in [Site -> {"down", "registering", "subscribing", "pinging", "up", "stopping"}]
    BY <1>2 DEF TypeInv, SiteType
  <2>3. again' \in [Site -> {"none", "queued", "handling"}]
    BY <1>2 DEF TypeInv, SiteType
  <2> QED BY <1>2, <2>2, <2>3 DEF TypeInv, SiteType
<1> QED BY <1>2, <1>4, <1>5, <1>6
        DEF TypeInv, TodoType, ViewType, FiniteRecord, JobsWait

LEMMA TypePublish ==
    ASSUME TypeInv, NEW t \in Publisher, PublishMessage(t)
    PROVE  TypeInv'
<1> DEFINE m == Head(todo[t])
<1>1. todo[t] \in Seq(Pub) /\ todo[t] # <<>>
  BY DEF PublishMessage, TypeInv, TodoType
<1>2. m \in Pub /\ Tail(todo[t]) \in Seq(Pub)
  BY <1>1
<1>3. /\ view' = [view EXCEPT ![m.topic][m.site] = m.status]
      /\ todo' = [todo EXCEPT ![t] = Tail(todo[t])]
      /\ UNCHANGED <<hub, localSiteMap, job, client, subscribed, again, site, crossed>>
  BY DEF PublishMessage
<1>4. Next
  BY DEF Next
<1>5. IInv'
  BY <1>4, InductiveInvariant DEF TypeInv
<1> HIDE DEF m
<1>6. TodoType'
  BY <1>2, <1>3 DEF TypeInv, TodoType
<1>7. ViewType'
  <2>1. m.topic \in Topic /\ m.site \in Site /\ m.status \in {"none", "online", "offline"}
    BY <1>2 DEF Pub, Status
  <2> QED BY <1>3, <2>1 DEF TypeInv, ViewType
<1>8. JobsWait'
  <2> SUFFICES ASSUME NEW u \in Thread, job[u] # NoJob
               PROVE  todo'[u] = <<>>
    BY <1>3 DEF JobsWait
  <2>1. todo[u] = <<>> /\ u # t
    BY <1>1 DEF TypeInv, JobsWait
  <2> QED BY <1>3, <2>1 DEF TypeInv, TodoType, Publisher
<1> QED BY <1>3, <1>5, <1>6, <1>7, <1>8
        DEF TypeInv, ClientType, SiteType, FiniteRecord

LEMMA TypeCountDown ==
    ASSUME TypeInv, LocalSitePingCountDown
    PROVE  TypeInv'
<1>1. PICK q \in Seq(Pub) : todo' = [todo EXCEPT ![CountDown] = q]
  BY CountDownPublishes
<1>2. /\ localSiteMap' = localSiteMap \ Expired
      /\ crossed' = (crossed \ (Expired \cap localSiteMap))
                       \cup {s \in Expired \cap localSiteMap : Pending(s)}
      /\ UNCHANGED <<hub, job, client, view, subscribed, again, site>>
  BY DEF LocalSitePingCountDown, Cross
<1>3. Next
  BY DEF Next
<1>4. IInv'
  BY <1>3, InductiveInvariant DEF TypeInv
<1>5. TodoType'
  BY <1>1 DEF TypeInv, TodoType
<1>6. FiniteRecord'
  <2>1. localSiteMap' \in SUBSET localSiteMap
    BY <1>2
  <2> QED BY <2>1, FS_Subset DEF TypeInv, FiniteRecord
<1>7. JobsWait'
  BY <1>1, <1>2 DEF TypeInv, JobsWait, TodoType, Publisher
<1>8. crossed' \subseteq Site
  BY <1>2 DEF TypeInv, IInv, RegistryType
<1> QED BY <1>2, <1>4, <1>5, <1>6, <1>7, <1>8
        DEF TypeInv, ClientType, ViewType, SiteType

LEMMA TypeHubCrash ==
    ASSUME TypeInv, HubCrash
    PROVE  TypeInv'
<1>1. /\ hub' = "down" /\ localSiteMap' = {}
      /\ job' = [t \in Thread |-> NoJob]
      /\ client' = [t \in Thread |-> NoClient]
      /\ todo' = [t \in Publisher |-> <<>>]
      /\ again' = [s \in Site |-> "none"]
      /\ crossed' = crossed \cup localSiteMap \cup {s \in Site : Pending(s)}
      /\ UNCHANGED <<view, subscribed, site>>
  BY DEF HubCrash
<1>2. Next
  BY DEF Next
<1>3. IInv'
  BY <1>2, InductiveInvariant DEF TypeInv
<1>4. TodoType'
  <2>1. <<>> \in Seq(Pub)
    OBVIOUS
  <2> QED BY <1>1, <2>1 DEF TodoType
<1>5. FiniteRecord'
  BY <1>1, FS_EmptySet DEF FiniteRecord
<1>6. JobsWait'
  BY <1>1 DEF JobsWait
<1>7. ClientType' /\ ViewType' /\ SiteType'
  BY <1>1 DEF TypeInv, ClientType, ViewType, SiteType
<1>8. crossed' \subseteq Site
  BY <1>1 DEF TypeInv, IInv, RegistryType
<1> QED BY <1>3, <1>4, <1>5, <1>6, <1>7, <1>8 DEF TypeInv

\* The steps that touch neither the record nor what is to be published.
LEMMA TypeElse ==
    ASSUME TypeInv, Next, SiteType', ClientType',
           UNCHANGED <<localSiteMap, job, todo, view, crossed>>
    PROVE  TypeInv'
<1>1. IInv'
  BY InductiveInvariant DEF TypeInv
<1> QED BY <1>1 DEF TypeInv, TodoType, ViewType, FiniteRecord, JobsWait

LEMMA TypeSite ==
    ASSUME TypeInv, NEW s \in Site,
           \/ SitePing(s) \/ PostRegisterAgain(s)
           \/ SiteStart(s) \/ SubscribeRegisterAgain(s) \/ Listen(s)
           \/ SiteStop(s) \/ SiteCrash(s)
    PROVE  TypeInv'
<1>1. Next
  BY DEF Next
<1>2. CASE SiteCrash(s)
  <2>1. /\ site' = [site EXCEPT ![s] = "down"]
        /\ client' = [t \in Thread |->
                        IF client[t] \in {<<s, "main">>, <<s, "again">>} THEN NoClient
                        ELSE client[t]]
        /\ again' = [again EXCEPT ![s] = IF @ = "handling" THEN "none" ELSE @]
        /\ UNCHANGED <<hub, localSiteMap, job, todo, view, subscribed, crossed>>
    BY <1>2 DEF SiteCrash
  <2>2. ClientType'
    BY <2>1 DEF TypeInv, ClientType
  <2>3. SiteType'
    BY <2>1 DEF TypeInv, SiteType
  <2> QED BY <1>1, <2>1, <2>2, <2>3, TypeElse
<1>3. CASE SitePing(s)
  <2>1. UNCHANGED <<hub, localSiteMap, job, client, todo, view, subscribed, again, site, crossed>>
    BY <1>3 DEF SitePing
  <2> QED BY <1>1, <2>1, TypeElse DEF TypeInv, SiteType, ClientType
<1>4. CASE PostRegisterAgain(s)
  <2>1. /\ again' = [again EXCEPT ![s] = IF site[s] = "up" THEN "handling" ELSE "none"]
        /\ UNCHANGED <<hub, hubVars, view, subscribed, site, crossed>>
    BY <1>4 DEF PostRegisterAgain
  <2>2. SiteType'
    BY <2>1 DEF TypeInv, SiteType
  <2> QED BY <1>1, <2>1, <2>2, TypeElse DEF TypeInv, ClientType, hubVars
<1>5. CASE SiteStart(s) \/ SubscribeRegisterAgain(s) \/ Listen(s) \/ SiteStop(s)
  <2>1. PICK to \in {"registering", "pinging", "up", "stopping"} :
           site' = [site EXCEPT ![s] = to]
    BY <1>5 DEF SiteStart, SubscribeRegisterAgain, Listen, SiteStop, SiteStep
  <2>2. /\ subscribed' \in {subscribed, subscribed \cup {s}}
        /\ UNCHANGED <<hub, hubVars, view, again, crossed>>
    BY <1>5 DEF SiteStart, SubscribeRegisterAgain, Listen, SiteStop
  <2>3. SiteType'
    BY <2>1, <2>2 DEF TypeInv, SiteType
  <2> QED BY <1>1, <2>2, <2>3, TypeElse DEF TypeInv, ClientType, hubVars
<1> QED BY <1>2, <1>3, <1>4, <1>5

LEMMA TypeNext == TypeInv /\ [Next]_vars => TypeInv'
<1> SUFFICES ASSUME TypeInv, [Next]_vars
             PROVE  TypeInv'
  OBVIOUS
<1>1. CASE HubStart
  <2>1. SiteType' /\ ClientType' /\ UNCHANGED <<localSiteMap, job, todo, view, crossed>>
    BY <1>1 DEF HubStart, hubVars, TypeInv, SiteType, ClientType
  <2> QED BY <1>1, <2>1, TypeElse DEF Next
<1>2. CASE PublishRegisterAgain
  <2>1. SiteType' /\ ClientType' /\ UNCHANGED <<localSiteMap, job, todo, view, crossed>>
    BY <1>2 DEF PublishRegisterAgain, hubVars, TypeInv, SiteType, ClientType
  <2> QED BY <1>2, <2>1, TypeElse DEF Next
<1>3. CASE UNCHANGED vars
  <2>1. IInv'
    BY InductiveInvariant DEF TypeInv
  <2> QED BY <1>3, <2>1
          DEF vars, hubVars, TypeInv, TodoType, ClientType, ViewType, SiteType, FiniteRecord, JobsWait
<1> QED BY <1>1, <1>2, <1>3, TypeRequest, TypeRegister, TypeUnregister, TypeReply, TypePublish,
           TypeCountDown, TypeHubCrash, TypeSite DEF Next, Handle

\* Every variable keeps to its type in every reachable state; in particular
\* what a thread is left to publish, the countdown's list of all the sites it
\* dropped included, is always a sequence of publications of known sites.
THEOREM TypeCorrect == Spec => []TypeOK
<1>1. Spec => []TypeInv
  BY TypeInit, TypeNext, PTL DEF Spec
<1> QED BY <1>1, TypeInvIsType, PTL


-----------------------------------------------------------------------------
(* What is published is what is on record.                                   *)

\* What is queued about a site whose publications did not cross says whether
\* it is on record ...
QueuedAsRecorded ==
    \A s \in Site \ crossed : \A t \in Publisher : \A i \in DOMAIN todo[t] :
       todo[t][i].site = s => (todo[t][i].status = "online" <=> Registered(s))

\* ... and on each topic the last that was published about it does, unless
\* something about it is queued for this topic.
OutAsRecorded ==
    \A s \in Site \ crossed : \A m \in Topic :
       \/ view[m][s] = "online" <=> Registered(s)
       \/ \E t \in Publisher : \E i \in DOMAIN todo[t] :
             todo[t][i].site = s /\ todo[t][i].topic = m

AnnounceInv == TypeInv /\ QueuedAsRecorded /\ OutAsRecorded

LEMMA AnnounceInit == Init => AnnounceInv
<1> SUFFICES ASSUME Init
             PROVE  AnnounceInv
  OBVIOUS
<1>1. QueuedAsRecorded
  <2>1. \A t \in Publisher : DOMAIN todo[t] = {}
    BY DEF Init
  <2> QED BY <2>1 DEF QueuedAsRecorded
<1>2. OutAsRecorded
  BY DEF Init, OutAsRecorded, Registered
<1> QED BY <1>1, <1>2, TypeInit DEF AnnounceInv

LEMMA AnnounceMeans == AnnounceInv => AnnouncedAsRecorded
BY DEF AnnounceInv, OutAsRecorded, AnnouncedAsRecorded, Pending

\* A thread that had nothing left to publish records that the sites of R are
\* online, or that they are off the record, and is left to publish just this.
LEMMA AnnounceChange ==
    ASSUME AnnounceInv, NEW t \in Publisher, todo[t] = <<>>,
           NEW R \in SUBSET Site, NEW st \in Status,
           NEW q \in Seq(Pub), todo' = [todo EXCEPT ![t] = q],
           Items(q) = About(R, st),
           view' = view,
           crossed' = (crossed \ R) \cup {s \in R : Pending(s)},
           \A s \in R : Registered(s)' <=> st = "online",
           \A s \in Site \ R : Registered(s)' <=> Registered(s)
    PROVE  QueuedAsRecorded' /\ OutAsRecorded'
<1> USE DEF AnnounceInv
<1>1. /\ \A u \in Publisher : u # t => todo'[u] = todo[u]
      /\ todo'[t] = q /\ DOMAIN q = 1..Len(q)
      /\ DOMAIN todo[t] = {}
  BY DEF TypeInv, TodoType
<1>2. ASSUME NEW i \in DOMAIN q
      PROVE  q[i].site \in R /\ q[i].status = st
  <2>1. q[i] \in Items(q)
    BY <1>1 DEF Items
  <2> QED BY <2>1 DEF About
<1>3. ASSUME NEW s \in R, NEW m \in Topic
      PROVE  \E i \in DOMAIN q : q[i].site = s /\ q[i].topic = m
  <2>1. [topic |-> m, site |-> s, status |-> st] \in Items(q)
    BY DEF About
  <2>2. PICK i \in 1..Len(q) : q[i] = [topic |-> m, site |-> s, status |-> st]
    BY <2>1 DEF Items
  <2> QED BY <1>1, <2>2
<1>4. ASSUME NEW s \in R, s \notin crossed', NEW u \in Publisher, u # t, NEW i \in DOMAIN todo[u]
      PROVE  todo[u][i].site # s
  BY <1>4 DEF Pending
<1>5. ASSUME NEW s \in Site \ crossed', NEW u \in Publisher, NEW i \in DOMAIN todo'[u],
             todo'[u][i].site = s
      PROVE  todo'[u][i].status = "online" <=> Registered(s)'
  <2>1. CASE u = t
    BY <1>1, <1>2, <1>5, <2>1
  <2>2. CASE u # t
    <3>1. s \notin R
      BY <1>1, <1>4, <1>5, <2>2
    <3>2. s \in Site \ crossed /\ todo'[u] = todo[u]
      BY <1>1, <2>2, <3>1
    <3> QED BY <1>5, <3>1, <3>2 DEF QueuedAsRecorded
  <2> QED BY <2>1, <2>2
<1>6. ASSUME NEW s \in Site \ crossed', NEW m \in Topic
      PROVE  \/ view'[m][s] = "online" <=> Registered(s)'
             \/ \E u \in Publisher : \E i \in DOMAIN todo'[u] :
                   todo'[u][i].site = s /\ todo'[u][i].topic = m
  <2>1. CASE s \in R
    BY <1>1, <1>3, <2>1
  <2>2. CASE s \notin R
    <3>1. s \in Site \ crossed
      BY <2>2
    <3>2. CASE view[m][s] = "online" <=> Registered(s)
      BY <2>2, <3>2
    <3>3. CASE ~(view[m][s] = "online" <=> Registered(s))
      <4>1. PICK u \in Publisher : \E i \in DOMAIN todo[u] :
                 todo[u][i].site = s /\ todo[u][i].topic = m
        BY <3>1, <3>3 DEF OutAsRecorded
      <4>2. todo'[u] = todo[u]
        BY <1>1, <4>1
      <4> QED BY <4>1, <4>2
    <3> QED BY <3>2, <3>3
  <2> QED BY <2>1, <2>2
<1>7. QueuedAsRecorded'
  BY <1>5 DEF QueuedAsRecorded
<1>8. OutAsRecorded'
  BY <1>6 DEF OutAsRecorded
<1> QED BY <1>7, <1>8

LEMMA AnnouncePublish ==
    ASSUME AnnounceInv, NEW t \in Publisher, PublishMessage(t)
    PROVE  QueuedAsRecorded' /\ OutAsRecorded'
<1> USE DEF AnnounceInv
<1> DEFINE h == Head(todo[t])
<1>1. todo[t] \in Seq(Pub) /\ todo[t] # <<>>
  BY DEF PublishMessage, TypeInv, TodoType
<1>2. /\ h \in Pub /\ h = todo[t][1] /\ 1 \in DOMAIN todo[t]
      /\ \A i \in DOMAIN Tail(todo[t]) : i + 1 \in DOMAIN todo[t] /\ Tail(todo[t])[i] = todo[t][i + 1]
      /\ \A i \in DOMAIN todo[t] : i # 1 => i - 1 \in DOMAIN Tail(todo[t]) /\ Tail(todo[t])[i - 1] = todo[t][i]
  BY <1>1
<1>3. /\ view' = [view EXCEPT ![h.topic][h.site] = h.status]
      /\ UNCHANGED <<localSiteMap, crossed>>
      /\ todo'[t] = Tail(todo[t])
      /\ \A u \in Publisher : u # t => todo'[u] = todo[u]
  BY DEF PublishMessage, TypeInv, TodoType
<1> HIDE DEF h
<1>4. h.topic \in Topic /\ h.site \in Site
  BY <1>2 DEF Pub
<1>5. ASSUME NEW m \in Topic, NEW s \in Site
      PROVE  view'[m][s] = IF m = h.topic /\ s = h.site THEN h.status ELSE view[m][s]
  BY <1>3, <1>4 DEF TypeInv, ViewType
<1>6. \A s : Registered(s)' <=> Registered(s)
  BY <1>3 DEF Registered
<1>7. ASSUME NEW s \in Site \ crossed', NEW u \in Publisher, NEW i \in DOMAIN todo'[u],
             todo'[u][i].site = s
      PROVE  todo'[u][i].status = "online" <=> Registered(s)'
  <2>1. PICK j \in DOMAIN todo[u] : todo'[u][i] = todo[u][j]
    <3>1. CASE u = t
      BY <1>2, <1>3, <1>7, <3>1
    <3>2. CASE u # t
      BY <1>3, <1>7, <3>2
    <3> QED BY <3>1, <3>2
  <2> QED BY <1>3, <1>6, <1>7, <2>1 DEF QueuedAsRecorded
<1>8. ASSUME NEW s \in Site \ crossed', NEW m \in Topic
      PROVE  \/ view'[m][s] = "online" <=> Registered(s)'
             \/ \E u \in Publisher : \E i \in DOMAIN todo'[u] :
                   todo'[u][i].site = s /\ todo'[u][i].topic = m
  <2>1. CASE m = h.topic /\ s = h.site
    <3>1. h.status = "online" <=> Registered(s)
      BY <1>2, <1>3, <2>1 DEF QueuedAsRecorded
    <3> QED BY <1>5, <1>6, <2>1, <3>1
  <2>2. CASE ~(m = h.topic /\ s = h.site)
    <3>1. view'[m][s] = view[m][s]
      BY <1>5, <2>2
    <3>2. CASE view[m][s] = "online" <=> Registered(s)
      BY <1>6, <3>1, <3>2
    <3>3. CASE ~(view[m][s] = "online" <=> Registered(s))
      <4>1. PICK u \in Publisher : \E i \in DOMAIN todo[u] :
                 todo[u][i].site = s /\ todo[u][i].topic = m
        BY <1>3, <3>3 DEF OutAsRecorded
      <4>2. PICK i \in DOMAIN todo[u] : todo[u][i].site = s /\ todo[u][i].topic = m
        BY <4>1
      <4>3. CASE u = t
        <5>1. i # 1
          BY <1>2, <2>2, <4>2, <4>3
        <5>2. i - 1 \in DOMAIN todo'[t] /\ todo'[t][i - 1] = todo[t][i]
          BY <1>2, <1>3, <4>2, <4>3, <5>1
        <5> QED BY <4>2, <4>3, <5>2
      <4>4. CASE u # t
        BY <1>3, <4>2, <4>4
      <4> QED BY <4>3, <4>4
    <3> QED BY <3>2, <3>3
  <2> QED BY <2>1, <2>2
<1>9. QueuedAsRecorded'
  BY <1>7 DEF QueuedAsRecorded
<1>10. OutAsRecorded'
  BY <1>8 DEF OutAsRecorded
<1> QED BY <1>9, <1>10


LEMMA AnnounceRegister ==
    ASSUME AnnounceInv, NEW t \in Thread, SiteRegister(t)
    PROVE  QueuedAsRecorded' /\ OutAsRecorded'
<1> DEFINE s == job[t].site
           q == Publications(s, "online")
<1>1. s \in Site /\ todo[t] = <<>>
  BY DEF SiteRegister, Jobs, NoJob, AnnounceInv, TypeInv, IInv, RegistryType, JobsWait
<1>2. /\ localSiteMap' = localSiteMap \cup {s}
      /\ todo' = [todo EXCEPT ![t] = q]
      /\ crossed' = (crossed \ {s}) \cup {r \in {s} : Pending(r)}
      /\ view' = view
  BY DEF SiteRegister, Cross
<1>3. q \in Seq(Pub) /\ Items(q) = About({s}, "online")
  BY <1>1, PublicationsType DEF Status
<1> HIDE DEF s, q
<1>4. (\A r \in {s} : Registered(r)' <=> "online" = "online")
      /\ \A r \in Site \ {s} : Registered(r)' <=> Registered(r)
  BY <1>2 DEF Registered
<1>5. t \in Publisher /\ {s} \in SUBSET Site /\ "online" \in Status
  BY <1>1 DEF Publisher, Status
<1> QED BY <1>1, <1>2, <1>3, <1>4, <1>5, AnnounceChange

LEMMA AnnounceUnregister ==
    ASSUME AnnounceInv, NEW t \in Thread, SiteUnregister(t)
    PROVE  QueuedAsRecorded' /\ OutAsRecorded'
<1> DEFINE s == job[t].site
           q == Publications(s, "offline")
<1>1. CASE ~Registered(s)
  <2>1. UNCHANGED <<localSiteMap, todo, view, crossed>>
    BY <1>1 DEF SiteUnregister
  <2> QED BY <2>1 DEF AnnounceInv, QueuedAsRecorded, OutAsRecorded, Registered
<1>2. CASE Registered(s)
  <2>1. s \in Site /\ todo[t] = <<>>
    BY <1>2 DEF Registered, SiteUnregister, NoJob, AnnounceInv, TypeInv, IInv, RegistryType, JobsWait
  <2>2. /\ localSiteMap' = localSiteMap \ {s}
        /\ todo' = [todo EXCEPT ![t] = q]
        /\ crossed' = (crossed \ {s}) \cup {r \in {s} : Pending(r)}
        /\ view' = view
    BY <1>2 DEF SiteUnregister, Cross
  <2>3. q \in Seq(Pub) /\ Items(q) = About({s}, "offline")
    BY <2>1, PublicationsType DEF Status
  <2> HIDE DEF s, q
  <2>4. (\A r \in {s} : Registered(r)' <=> "offline" = "online")
        /\ \A r \in Site \ {s} : Registered(r)' <=> Registered(r)
    BY <2>2 DEF Registered
  <2>5. t \in Publisher /\ {s} \in SUBSET Site /\ "offline" \in Status
    BY <2>1 DEF Publisher, Status
  <2> QED BY <2>1, <2>2, <2>3, <2>4, <2>5, AnnounceChange
<1> QED BY <1>1, <1>2

LEMMA AnnounceCountDown ==
    ASSUME AnnounceInv, LocalSitePingCountDown
    PROVE  QueuedAsRecorded' /\ OutAsRecorded'
<1> DEFINE R == Expired \cap localSiteMap
<1>1. todo[CountDown] = <<>>
      /\ \E q \in Seq(Pub) : todo' = [todo EXCEPT ![CountDown] = q] /\ Items(q) = About(R, "offline")
  BY CountDownPublishes DEF AnnounceInv
<1>2. PICK q \in Seq(Pub) : todo' = [todo EXCEPT ![CountDown] = q] /\ Items(q) = About(R, "offline")
  BY <1>1
<1>3. /\ localSiteMap' = localSiteMap \ Expired
      /\ crossed' = (crossed \ R) \cup {r \in R : Pending(r)}
      /\ view' = view
  BY DEF LocalSitePingCountDown, Cross
<1>4. (\A r \in R : Registered(r)' <=> "offline" = "online")
      /\ \A r \in Site \ R : Registered(r)' <=> Registered(r)
  BY <1>3 DEF Registered
<1>5. CountDown \in Publisher /\ R \in SUBSET Site /\ "offline" \in Status
  BY DEF Publisher, Status, AnnounceInv, TypeInv, IInv, RegistryType
<1> HIDE DEF R
<1> QED BY <1>1, <1>2, <1>3, <1>4, <1>5, AnnounceChange

\* A site the crash does not count as crossed was not on record and had all
\* its publications out: what was published of it last is still true.
LEMMA AnnounceHubCrash ==
    ASSUME AnnounceInv, HubCrash
    PROVE  QueuedAsRecorded' /\ OutAsRecorded'
<1>1. /\ localSiteMap' = {}
      /\ todo' = [t \in Publisher |-> <<>>]
      /\ crossed' = crossed \cup localSiteMap \cup {s \in Site : Pending(s)}
      /\ view' = view
  BY DEF HubCrash
<1>2. QueuedAsRecorded'
  <2>1. \A t \in Publisher : DOMAIN todo'[t] = {}
    BY <1>1
  <2> QED BY <2>1 DEF QueuedAsRecorded
<1>3. ASSUME NEW s \in Site \ crossed', NEW m \in Topic
      PROVE  view'[m][s] = "online" <=> Registered(s)'
  <2>1. s \in Site \ crossed /\ ~Registered(s) /\ ~Pending(s)
    BY <1>1 DEF Registered
  <2>2. view[m][s] = "online" <=> Registered(s)
    BY <2>1 DEF AnnounceInv, OutAsRecorded, Pending
  <2> QED BY <1>1, <2>1, <2>2 DEF Registered
<1> QED BY <1>2, <1>3 DEF OutAsRecorded

LEMMA AnnounceElse ==
    ASSUME AnnounceInv, UNCHANGED <<localSiteMap, todo, view, crossed>>
    PROVE  QueuedAsRecorded' /\ OutAsRecorded'
BY DEF AnnounceInv, QueuedAsRecorded, OutAsRecorded, Registered

LEMMA AnnounceNext == AnnounceInv /\ [Next]_vars => AnnounceInv'
<1> SUFFICES ASSUME AnnounceInv, [Next]_vars
             PROVE  QueuedAsRecorded' /\ OutAsRecorded'
  BY TypeNext DEF AnnounceInv
<1>1. ASSUME NEW t \in Thread, NEW s \in Site, RegisterSite(t, s) \/ UnregisterSite(t, s)
      PROVE  UNCHANGED <<localSiteMap, todo, view, crossed>>
  BY <1>1 DEF RegisterSite, UnregisterSite, Request
<1>2. ASSUME NEW t \in Thread, Reply(t)
      PROVE  UNCHANGED <<localSiteMap, todo, view, crossed>>
  BY <1>2 DEF Reply
<1>3. ASSUME NEW s \in Site,
             \/ SitePing(s) \/ PostRegisterAgain(s)
             \/ SiteStart(s) \/ SubscribeRegisterAgain(s) \/ Listen(s)
             \/ SiteStop(s) \/ SiteCrash(s)
      PROVE  UNCHANGED <<localSiteMap, todo, view, crossed>>
  BY <1>3 DEF SitePing, PostRegisterAgain, SiteStart, SubscribeRegisterAgain, Listen,
              SiteStop, SiteCrash, hubVars
<1>4. CASE HubStart \/ PublishRegisterAgain \/ UNCHANGED vars
  BY <1>4, AnnounceElse DEF HubStart, PublishRegisterAgain, vars, hubVars
<1> QED BY <1>1, <1>2, <1>3, <1>4, AnnounceElse, AnnounceRegister, AnnounceUnregister,
           AnnouncePublish, AnnounceCountDown, AnnounceHubCrash DEF Next, Handle

\* Whatever order HTTP threads, the countdown and crashes come in: a site whose
\* publications are all out was last announced, to the sites of the panel and
\* to the other panels, as it is on record, unless its publications crossed
\* those of an earlier operation or a crash lost some.
THEOREM AnnouncedAsRecordedHolds == Spec => []AnnouncedAsRecorded
<1>1. Spec => []AnnounceInv
  BY AnnounceInit, AnnounceNext, PTL DEF Spec
<1> QED BY <1>1, AnnounceMeans, PTL
=============================================================================
