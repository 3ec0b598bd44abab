------------------------------ MODULE FileSync ------------------------------
(***************************************************************************)
(* How the config sites (src/unit/config) of the panels of a home keep     *)
(* their copies of one file alike.  A panel saves what its user sends and  *)
(* tells the others; at any time (every 30 s, and when told) it fetches    *)
(* the file of every panel and stores the newest (the scene file) or all   *)
(* of them merged (the white list).  syncSaveMutex admits one sync of a    *)
(* panel at a time; a save takes no lock, so it can fall within a sync.    *)
(*                                                                         *)
(* A file is a time stamp and a set of devices, each with the time of the  *)
(* save it comes from.  The copy in memory and the one on disk are one:    *)
(* configParamUtil writes both under its lock.                             *)
(***************************************************************************)
EXTENDS Naturals, FiniteSets

CONSTANTS
    Panel,
    Device,
    Time,       \* time stamps of the saves, each used once
    MaxTime,    \* the largest unsigned long long
    Kind,       \* "sceneFile" or "whiteList"
    NoFile,
    MaxFaults   \* failed requests, panels missing in a list, restarts

ASSUME TimeAssumption == MaxTime \in Nat /\ Time \subseteq 1 .. MaxTime
ASSUME KindAssumption == Kind \in {"sceneFile", "whiteList"}
ASSUME FaultsAssumption == MaxFaults \in Nat

VARIABLES
    file,   \* file[p]: the copy of panel p, or NoFile
    sync,   \* sync[p]: how far its sync is, panels left to ask, resultMap
    told,   \* panels to which a merge/update message is under way
    used,   \* time stamps used so far
    faults, \* faults so far
    raced   \* history: panels with a save, or without an answer of their
            \* own, since their sync began

vars == <<file, sync, told, used, faults, raced>>

Content == UNION {[D -> Time] : D \in SUBSET Device}
File    == [time : Time, devices : Content]
ASSUME NoFileAssumption == NoFile \notin File
Idle    == [pc |-> "idle", todo |-> {}, result |-> {}]

Init ==
    /\ file = [p \in Panel |-> NoFile]
    /\ sync = [p \in Panel |-> Idle]
    /\ told = {}
    /\ used = {}
    /\ faults = 0
    /\ raced = {}

-----------------------------------------------------------------------------
\* A message may be lost, and whoever has not subscribed is not told.
SaveFile(p, t, D) ==
    /\ t \notin used
    /\ file' = [file EXCEPT ![p] = [time |-> t, devices |-> [d \in D |-> t]]]
    /\ \E heard \in SUBSET Panel : told' = told \cup heard
    /\ used' = used \cup {t}
    /\ raced' = IF sync[p].pc # "idle" THEN raced \cup {p} ELSE raced
    /\ UNCHANGED <<sync, faults>>

\* The list of the panels comes from another site of the panel; it may fail
\* or lack some, the panel itself included.
SyncStart(p) ==
    /\ sync[p].pc = "idle"
    /\ \E list \in SUBSET Panel :
          /\ list # Panel => faults < MaxFaults
          /\ sync' = [sync EXCEPT ![p] = [pc |-> "fetching", todo |-> list, result |-> {}]]
          /\ faults' = IF list = Panel THEN faults ELSE faults + 1
          /\ raced' = IF p \in list THEN raced ELSE raced \cup {p}

AutoUpdate(p) == SyncStart(p) /\ UNCHANGED <<file, told, used>>

MessageTrigger(p) ==
    /\ p \in told
    /\ SyncStart(p)
    /\ told' = told \ {p}
    /\ UNCHANGED <<file, used>>

\* Faulty: the answer of a panel without a file is kept too.
InsertsEmpty(result, f) == result \cup {f}

\* resultMap is keyed by the time stamp and insert keeps what it has.
Insert(result, f) ==
    IF f = NoFile \/ \E g \in result : g.time = f.time THEN result
    ELSE result \cup {f}

Fetch(p, q) ==
    /\ q \in sync[p].todo
    /\ sync' = [sync EXCEPT ![p].todo = @ \ {q},
                            ![p].result = Insert(@, file[q])]
    /\ UNCHANGED <<file, told, used, faults, raced>>

FetchFails(p, q) ==
    /\ q \in sync[p].todo
    /\ faults < MaxFaults
    /\ sync' = [sync EXCEPT ![p].todo = @ \ {q}]
    /\ faults' = faults + 1
    /\ raced' = IF p = q THEN raced \cup {p} ELSE raced
    /\ UNCHANGED <<file, told, used>>

\* Faulty: one result is never news; the smallest time stamp is taken.
OneIsNothing(p) == Cardinality(sync[p].result) < 2
Oldest(files) == CHOOSE f \in files : \A g \in files : g.time >= f.time

\* Nothing to do with no result, nor with one beside a file of one's own.
NothingNew(p) ==
    \/ sync[p].result = {}
    \/ Cardinality(sync[p].result) = 1 /\ file[p] # NoFile

SyncDecide(p) ==
    /\ sync[p].pc = "fetching" /\ sync[p].todo = {}
    /\ IF NothingNew(p)
       THEN sync' = [sync EXCEPT ![p] = Idle] /\ raced' = raced \ {p}
       ELSE sync' = [sync EXCEPT ![p].pc = "saving"] /\ UNCHANGED raced
    /\ UNCHANGED <<file, told, used, faults>>

Newest(files) == CHOOSE f \in files : \A g \in files : g.time <= f.time

\* getMergeWhiteList: the lists merged in the order of their time stamps; a
\* device is taken from the newest list that has it.
Merge(files) ==
    [time    |-> Newest(files).time,
     devices |-> [d \in UNION {DOMAIN f.devices : f \in files} |->
                     Newest({f \in files : d \in DOMAIN f.devices}).devices[d]]]

Outcome(files) == IF Kind = "sceneFile" THEN Newest(files) ELSE Merge(files)

SyncSave(p) ==
    /\ sync[p].pc = "saving"
    /\ file' = [file EXCEPT ![p] = Outcome(sync[p].result)]
    /\ sync' = [sync EXCEPT ![p] = Idle]
    /\ raced' = raced \ {p}
    /\ UNCHANGED <<told, used, faults>>

\* The file survives; the sync and the message being handled do not.
Restart(p) ==
    /\ faults < MaxFaults
    /\ sync[p].pc # "idle"
    /\ sync' = [sync EXCEPT ![p] = Idle]
    /\ told' = told \ {p}
    /\ faults' = faults + 1
    /\ raced' = raced \ {p}
    /\ UNCHANGED <<file, used>>

Step(p) ==
    \/ \E q \in Panel : Fetch(p, q)
    \/ SyncDecide(p)
    \/ SyncSave(p)

Next ==
    \E p \in Panel :
       \/ \E t \in Time, D \in SUBSET Device : SaveFile(p, t, D)
       \/ AutoUpdate(p)
       \/ MessageTrigger(p)
       \/ Step(p)
       \/ \E q \in Panel : FetchFails(p, q)
       \/ Restart(p)

Spec == Init /\ [][Next]_vars

\* The timer thread syncs again and again and a sync goes on; nothing obliges
\* a user to save.
FairSpec ==
    /\ Spec
    /\ \A p \in Panel : WF_vars(AutoUpdate(p)) /\ WF_vars(Step(p))

-----------------------------------------------------------------------------
TypeOK ==
    /\ file \in [Panel -> File \cup {NoFile}]
    /\ sync \in [Panel -> [pc : {"idle", "fetching", "saving"},
                           todo : SUBSET Panel, result : SUBSET File]]
    /\ \A p \in Panel :
          \A f, g \in sync[p].result : f.time = g.time => f = g
    /\ told \subseteq Panel
    /\ used \subseteq Time
    /\ faults \in 0 .. MaxFaults
    /\ raced \subseteq Panel

\* A panel without a file is behind all others.
Stamp(f) == IF f = NoFile THEN 0 ELSE f.time

\* A sync replaces a panel's file with an older one only when a save fell
\* within the sync, or the panel's own answer was missing.
GoesBackOnlyWhenRaced ==
    [][\A p \in Panel :
          Stamp(file'[p]) < Stamp(file[p]) => used' # used \/ p \in raced]_vars

\* When the saves and the faults have ended, all panels come to hold the same
\* file, and keep it.
PanelsAgree == <>[](\A p, q \in Panel : file[p] = file[q])

\* "compared with the local file: if it is newer, update": a sync never
\* replaces a panel's file with an older one.
SyncNeverGoesBack ==
    [][\A p \in Panel : Stamp(file'[p]) < Stamp(file[p]) => used' # used]_vars

\* "tell the other panels to merge the white list": in the end a device on one
\* panel's list is on every panel's.
DevicesSpread ==
    <>[](\A p, q \in Panel :
           file[p] # NoFile =>
              file[q] # NoFile /\ DOMAIN file[p].devices \subseteq DOMAIN file[q].devices)
=============================================================================
