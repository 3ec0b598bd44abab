--------------------------- MODULE FileSyncProofs ---------------------------
(***************************************************************************)
(* Proofs about FileSync for every number of panels, devices and saves, of *)
(* both files: a sync takes a panel back only when it was raced.           *)
(***************************************************************************)
EXTENDS FileSync, WellFoundedInduction, TLAPS

USE TimeAssumption, KindAssumption, FaultsAssumption, NoFileAssumption

-----------------------------------------------------------------------------
(* What a sync stores.                                                      *)

LEMMA FileTimes == \A f \in File : f.time \in Time /\ f.time \in Nat
<1>1. \A f \in File : f.time \in Time
  BY DEF File
<1>2. Time \subseteq Nat
  OBVIOUS
<1> QED BY <1>1, <1>2

LEMMA NewestProperties ==
    ASSUME NEW files \in SUBSET File, files # {}
    PROVE  Newest(files) \in files /\ \A g \in files : g.time <= Newest(files).time
<1> DEFINE Ages == {MaxTime - g.time : g \in files}
<1>1. \A g \in files : g.time \in Nat /\ MaxTime - g.time \in Nat
  <2>1. \A g \in files : g.time \in Time
    BY DEF File
  <2>2. \A t \in Time : t \in Nat /\ MaxTime - t \in Nat
    OBVIOUS
  <2> QED BY <2>1, <2>2
<1>2. \E f \in files : \A g \in files : g.time <= f.time
  <2>1. Ages \subseteq Nat /\ Ages # {}
    BY <1>1
  <2>2. PICK a \in Ages : \A b \in Ages : <<b, a>> \notin OpToRel(<, Nat)
    <3> HIDE DEF Ages
    <3> QED BY <2>1, NatLessThanWellFounded, WFMin
  <2>3. /\ a \in Ages
        /\ \A b \in Ages : <<b, a>> \notin {ss \in Nat \X Nat : ss[1] < ss[2]}
    BY <2>2 DEF OpToRel
  <2>4. \A b \in Ages : a <= b
    <3> HIDE DEF Ages
    <3>1. SUFFICES ASSUME NEW b \in Ages
                   PROVE  a <= b
      OBVIOUS
    <3>2. a \in Nat /\ b \in Nat
      BY <2>1, <2>3
    <3>3. <<b, a>> \in Nat \X Nat /\ <<b, a>>[1] = b /\ <<b, a>>[2] = a
      BY <3>2
    <3>4. ~(b < a)
      BY <2>3, <3>3
    <3> QED BY <3>2, <3>4
  <2>5. PICK f \in files : a = MaxTime - f.time
    BY <2>3
  <2>6. \A g \in files : MaxTime - f.time <= MaxTime - g.time
    BY <2>4, <2>5
  <2> QED BY <1>1, <2>6
<1> QED BY <1>2 DEF Newest

\* The merged list has the newest time stamp and only devices of the lists.
LEMMA MergeProperties ==
    ASSUME NEW files \in SUBSET File, files # {}
    PROVE  Merge(files) \in File /\ Merge(files).time = Newest(files).time
<1> DEFINE listed == UNION {DOMAIN f.devices : f \in files}
           With(d) == {f \in files : d \in DOMAIN f.devices}
           merged == [d \in listed |-> Newest(With(d)).devices[d]]
<1>1. \A f \in File : /\ f.time \in Time
                      /\ DOMAIN f.devices \in SUBSET Device
                      /\ f.devices \in [DOMAIN f.devices -> Time]
  BY DEF File, Content
<1>2. listed \in SUBSET Device
  BY <1>1
<1>3. \A d \in listed : merged[d] \in Time
  <2> SUFFICES ASSUME NEW d \in listed
               PROVE  Newest(With(d)).devices[d] \in Time
    OBVIOUS
  <2>1. With(d) \in SUBSET File /\ With(d) # {}
    OBVIOUS
  <2>2. Newest(With(d)) \in With(d)
    BY <2>1, NewestProperties
  <2>3. Newest(With(d)) \in File /\ d \in DOMAIN Newest(With(d)).devices
    BY <2>2
  <2> QED BY <1>1, <2>3
<1>4. merged \in Content
  <2>1. merged \in [listed -> Time]
    BY <1>3
  <2> HIDE DEF merged, listed
  <2> QED BY <1>2, <2>1 DEF Content
<1>5. Newest(files).time \in Time
  BY <1>1, NewestProperties
<1>6. Merge(files) = [time |-> Newest(files).time, devices |-> merged]
  BY DEF Merge
<1> HIDE DEF merged
<1> QED BY <1>4, <1>5, <1>6 DEF File

LEMMA OutcomeProperties ==
    ASSUME NEW files \in SUBSET File, files # {}
    PROVE  Outcome(files) \in File /\ \A g \in files : g.time <= Outcome(files).time
BY NewestProperties, MergeProperties DEF Outcome

-----------------------------------------------------------------------------
LEMMA InsertProperties ==
    ASSUME NEW result \in SUBSET File, NEW f \in File \cup {NoFile},
           \A g, h \in result : g.time = h.time => g = h
    PROVE  /\ Insert(result, f) \in SUBSET File
           /\ result \subseteq Insert(result, f)
           /\ \A g, h \in Insert(result, f) : g.time = h.time => g = h
           /\ f # NoFile => \E g \in Insert(result, f) : g.time = f.time
BY DEF Insert

SyncType == [pc : {"idle", "fetching", "saving"}, todo : SUBSET Panel, result : SUBSET File]

LEMMA IdleType == Idle \in SyncType
BY DEF Idle, SyncType

\* A sync that saves has asked everybody and has something to save.
SavingHasAsked ==
    \A p \in Panel :
       sync[p].pc = "saving" => sync[p].todo = {} /\ sync[p].result # {}

\* Once an unraced sync has asked its own panel, its results contain the
\* panel's file or a newer one.
OwnFileIsCovered ==
    \A p \in Panel :
       /\ sync[p].pc # "idle" /\ p \notin raced /\ p \notin sync[p].todo
       /\ file[p] # NoFile
       => \E f \in sync[p].result : file[p].time <= f.time

IInv == TypeOK /\ SavingHasAsked /\ OwnFileIsCovered

LEMMA InitInvariant == Init => IInv
<1> SUFFICES ASSUME Init
             PROVE  IInv
  OBVIOUS
<1>1. sync \in [Panel -> SyncType] /\ \A p \in Panel : sync[p] = Idle
  BY IdleType DEF Init
<1>2. TypeOK
  BY <1>1 DEF Init, TypeOK, Idle, SyncType
<1>3. SavingHasAsked /\ OwnFileIsCovered
  BY <1>1 DEF SavingHasAsked, OwnFileIsCovered, Idle
<1> QED BY <1>2, <1>3 DEF IInv

LEMMA SaveFileStep ==
    ASSUME IInv, NEW p \in Panel, NEW t \in Time, NEW D \in SUBSET Device, SaveFile(p, t, D)
    PROVE  IInv'
<1> DEFINE saved == [time |-> t, devices |-> [d \in D |-> t]]
<1>1. saved \in File
  BY DEF File, Content
<1>2. file' = [file EXCEPT ![p] = saved] /\ used' = used \cup {t} /\ UNCHANGED <<sync, faults>>
  BY DEF SaveFile
<1>3. told' \subseteq Panel
  BY DEF SaveFile, IInv, TypeOK
<1>4. /\ raced' \subseteq Panel /\ raced \subseteq raced'
      /\ sync[p].pc # "idle" => p \in raced'
  BY DEF SaveFile, IInv, TypeOK
<1> HIDE DEF saved
<1>5. TypeOK'
  BY <1>1, <1>2, <1>3, <1>4 DEF IInv, TypeOK
<1>6. SavingHasAsked'
  BY <1>2 DEF IInv, SavingHasAsked
<1>7. OwnFileIsCovered'
  BY <1>2, <1>4 DEF IInv, TypeOK, OwnFileIsCovered
<1> QED BY <1>5, <1>6, <1>7 DEF IInv

\* A sync that begins with its own panel listed has not asked it yet.
LEMMA SyncStartStep ==
    ASSUME IInv, NEW p \in Panel, SyncStart(p), UNCHANGED <<file, used>>,
           told' \subseteq Panel
    PROVE  IInv'
<1>1. PICK list \in SUBSET Panel :
         /\ sync' = [sync EXCEPT ![p] = [pc |-> "fetching", todo |-> list, result |-> {}]]
         /\ faults' = IF list = Panel THEN faults ELSE faults + 1
         /\ list # Panel => faults < MaxFaults
         /\ raced' = IF p \in list THEN raced ELSE raced \cup {p}
  BY DEF SyncStart
<1> DEFINE begun == [pc |-> "fetching", todo |-> list, result |-> {}]
<1>2. begun \in SyncType
  BY DEF SyncType
<1>3. sync' \in [Panel -> SyncType] /\ sync'[p] = begun
      /\ \A q \in Panel : q # p => sync'[q] = sync[q]
  BY <1>1, <1>2 DEF IInv, TypeOK, SyncType
<1>4. faults' \in 0 .. MaxFaults /\ raced' \subseteq Panel /\ raced \subseteq raced'
      /\ (p \in begun.todo \/ p \in raced')
  BY <1>1 DEF IInv, TypeOK
<1>5. TypeOK'
  <2>1. \A q \in Panel : \A f, g \in sync'[q].result : f.time = g.time => f = g
    BY <1>3 DEF IInv, TypeOK
  <2> QED BY <1>3, <1>4, <2>1 DEF IInv, TypeOK, SyncType
<1>6. SavingHasAsked'
  BY <1>3 DEF IInv, SavingHasAsked
<1>7. OwnFileIsCovered'
  BY <1>3, <1>4 DEF IInv, OwnFileIsCovered
<1> QED BY <1>5, <1>6, <1>7 DEF IInv

\* The answer of a panel is kept unless a file of the same time is there.
LEMMA FetchStep ==
    ASSUME IInv, NEW p \in Panel, NEW q \in Panel, Fetch(p, q)
    PROVE  IInv'
<1> DEFINE kept == Insert(sync[p].result, file[q])
           asked == [pc |-> sync[p].pc, todo |-> sync[p].todo \ {q}, result |-> kept]
<1>1. sync[p] \in SyncType /\ file[q] \in File \cup {NoFile}
      /\ \A g, h \in sync[p].result : g.time = h.time => g = h
  BY DEF IInv, TypeOK, SyncType
<1>2. /\ kept \in SUBSET File /\ sync[p].result \subseteq kept
      /\ \A g, h \in kept : g.time = h.time => g = h
      /\ file[q] # NoFile => \E g \in kept : g.time = file[q].time
  BY <1>1, InsertProperties DEF SyncType
<1> HIDE DEF kept
<1>3. sync' = [sync EXCEPT ![p] = asked] /\ UNCHANGED <<file, told, used, faults, raced>>
  <2>1. [[sync[p] EXCEPT !.todo = sync[p].todo \ {q}] EXCEPT !.result = kept] = asked
    <3>1. sync[p] = [pc |-> sync[p].pc, todo |-> sync[p].todo, result |-> sync[p].result]
      BY <1>1 DEF SyncType
    <3>2. \A a, b, c, d : [[pc |-> a, todo |-> b, result |-> c] EXCEPT !.todo = d]
                              = [pc |-> a, todo |-> d, result |-> c]
      OBVIOUS
    <3>3. \A a, b, c, d : [[pc |-> a, todo |-> b, result |-> c] EXCEPT !.result = d]
                              = [pc |-> a, todo |-> b, result |-> d]
      OBVIOUS
    <3>4. [sync[p] EXCEPT !.todo = sync[p].todo \ {q}]
             = [pc |-> sync[p].pc, todo |-> sync[p].todo \ {q}, result |-> sync[p].result]
      BY <3>1, <3>2
    <3> DEFINE emptied == [pc |-> sync[p].pc, todo |-> sync[p].todo \ {q},
                           result |-> sync[p].result]
    <3>5. [emptied EXCEPT !.result = kept] = asked
      BY <3>3
    <3>6. [sync[p] EXCEPT !.todo = sync[p].todo \ {q}] = emptied
      BY <3>4
    <3> HIDE DEF emptied, asked
    <3> QED BY <3>5, <3>6, Zenon
  <2>2. sync' = [sync EXCEPT ![p] = [[sync[p] EXCEPT !.todo = sync[p].todo \ {q}]
                                                EXCEPT !.result = kept]]
    BY <1>1 DEF Fetch, kept, SyncType, IInv, TypeOK
  <2> QED BY <2>1, <2>2 DEF Fetch
<1>4. asked \in SyncType
  BY <1>1, <1>2 DEF SyncType
<1>5. sync' \in [Panel -> SyncType] /\ sync'[p] = asked
      /\ \A r \in Panel : r # p => sync'[r] = sync[r]
  BY <1>3, <1>4 DEF IInv, TypeOK, SyncType
<1>6. TypeOK'
  <2>1. \A r \in Panel : \A f, g \in sync'[r].result : f.time = g.time => f = g
    BY <1>2, <1>5 DEF IInv, TypeOK
  <2> QED BY <1>3, <1>5, <2>1 DEF IInv, TypeOK, SyncType
<1>7. SavingHasAsked'
  <2>1. sync[p].pc # "saving"
    BY DEF Fetch, IInv, SavingHasAsked
  <2> QED BY <1>5, <2>1 DEF IInv, SavingHasAsked
<1>8. OwnFileIsCovered'
  <2> SUFFICES ASSUME NEW r \in Panel,
                      sync'[r].pc # "idle", r \notin raced', r \notin sync'[r].todo,
                      file'[r] # NoFile
               PROVE  \E f \in sync'[r].result : file'[r].time <= f.time
    BY DEF OwnFileIsCovered
  <2>1. CASE r # p
    BY <1>3, <1>5, <2>1 DEF IInv, OwnFileIsCovered
  <2>2. CASE r = p /\ r # q
    <3>1. p \notin sync[p].todo
      BY <1>5, <2>2
    <3>2. PICK f \in sync[p].result : file[p].time <= f.time
      BY <1>3, <1>5, <2>2, <3>1 DEF IInv, OwnFileIsCovered
    <3>3. sync'[r].result = kept /\ file'[r] = file[p]
      BY <1>3, <1>5, <2>2
    <3> QED BY <1>2, <3>2, <3>3
  <2>3. CASE r = p /\ r = q
    <3>1. PICK g \in kept : g.time = file[p].time
      BY <1>2, <1>3, <2>3
    <3>2. g.time \in Nat
      BY <1>2, FileTimes
    <3>3. sync'[r].result = kept /\ file'[r] = file[p]
      BY <1>3, <1>5, <2>3
    <3> QED BY <3>1, <3>2, <3>3
  <2> QED BY <2>1, <2>2, <2>3
<1> QED BY <1>6, <1>7, <1>8 DEF IInv

\* A request that fails leaves the results as they are.
LEMMA FetchFailsStep ==
    ASSUME IInv, NEW p \in Panel, NEW q \in Panel, FetchFails(p, q)
    PROVE  IInv'
<1> DEFINE asked == [sync[p] EXCEPT !.todo = sync[p].todo \ {q}]
<1>1. sync[p] \in SyncType /\ q \in sync[p].todo
  BY DEF IInv, TypeOK, SyncType, FetchFails
<1>2. /\ asked \in SyncType /\ asked.pc = sync[p].pc /\ asked.result = sync[p].result
      /\ asked.todo = sync[p].todo \ {q}
  BY <1>1 DEF SyncType
<1>3. sync' = [sync EXCEPT ![p] = asked] /\ UNCHANGED <<file, told, used>>
  BY DEF FetchFails
<1> HIDE DEF asked
<1>4. sync' \in [Panel -> SyncType] /\ sync'[p] = asked
      /\ \A r \in Panel : r # p => sync'[r] = sync[r]
  BY <1>2, <1>3 DEF IInv, TypeOK, SyncType
<1>5. faults' \in 0 .. MaxFaults /\ raced' \subseteq Panel /\ raced \subseteq raced'
      /\ (p = q => p \in raced')
  BY DEF FetchFails, IInv, TypeOK
<1>6. TypeOK'
  <2>1. \A r \in Panel : \A f, g \in sync'[r].result : f.time = g.time => f = g
    BY <1>2, <1>4 DEF IInv, TypeOK
  <2> QED BY <1>3, <1>4, <1>5, <2>1 DEF IInv, TypeOK, SyncType
<1>7. SavingHasAsked'
  BY <1>1, <1>2, <1>4 DEF IInv, SavingHasAsked
<1>8. OwnFileIsCovered'
  BY <1>2, <1>3, <1>4, <1>5 DEF IInv, OwnFileIsCovered
<1> QED BY <1>6, <1>7, <1>8 DEF IInv

\* A sync ends, whatever file it leaves.
LEMMA SyncEnds ==
    ASSUME IInv, NEW p \in Panel,
           sync' = [sync EXCEPT ![p] = Idle], raced' = raced \ {p},
           file' \in [Panel -> File \cup {NoFile}],
           \A q \in Panel : q # p => file'[q] = file[q],
           told' \subseteq Panel, used' = used, faults' \in 0 .. MaxFaults
    PROVE  IInv'
<1>1. sync' \in [Panel -> SyncType] /\ sync'[p] = Idle
      /\ \A r \in Panel : r # p => sync'[r] = sync[r]
  BY IdleType DEF IInv, TypeOK, SyncType
<1>2. Idle.pc = "idle" /\ Idle.result = {}
  BY DEF Idle
<1>3. TypeOK'
  <2>1. \A r \in Panel : \A f, g \in sync'[r].result : f.time = g.time => f = g
    BY <1>1, <1>2 DEF IInv, TypeOK
  <2> QED BY <1>1, <2>1 DEF IInv, TypeOK, SyncType
<1>4. SavingHasAsked'
  BY <1>1, <1>2 DEF IInv, SavingHasAsked
<1>5. OwnFileIsCovered'
  BY <1>1, <1>2 DEF IInv, OwnFileIsCovered
<1> QED BY <1>3, <1>4, <1>5 DEF IInv

LEMMA SyncDecideStep ==
    ASSUME IInv, NEW p \in Panel, SyncDecide(p)
    PROVE  IInv'
<1>1. sync[p] \in SyncType /\ sync[p].todo = {} /\ UNCHANGED <<file, told, used, faults>>
  BY DEF SyncDecide, IInv, TypeOK, SyncType
<1>2. CASE NothingNew(p)
  BY <1>1, <1>2, SyncEnds DEF SyncDecide, IInv, TypeOK
<1>3. CASE ~NothingNew(p)
  <2> DEFINE decided == [sync[p] EXCEPT !.pc = "saving"]
  <2>1. /\ decided \in SyncType /\ decided.todo = {}
        /\ decided.result = sync[p].result /\ sync[p].result # {}
    BY <1>1, <1>3 DEF SyncType, NothingNew
  <2>2. sync' = [sync EXCEPT ![p] = decided] /\ raced' = raced /\ sync[p].pc # "idle"
    BY <1>3 DEF SyncDecide
  <2> HIDE DEF decided
  <2>3. sync' \in [Panel -> SyncType] /\ sync'[p] = decided
        /\ \A r \in Panel : r # p => sync'[r] = sync[r]
    BY <2>1, <2>2 DEF IInv, TypeOK, SyncType
  <2>4. TypeOK'
    <3>1. \A r \in Panel : \A f, g \in sync'[r].result : f.time = g.time => f = g
      BY <2>1, <2>3 DEF IInv, TypeOK
    <3> QED BY <1>1, <2>2, <2>3, <3>1 DEF IInv, TypeOK, SyncType
  <2>5. SavingHasAsked'
    BY <2>1, <2>3 DEF IInv, SavingHasAsked
  <2>6. OwnFileIsCovered'
    BY <1>1, <2>1, <2>2, <2>3 DEF IInv, OwnFileIsCovered
  <2> QED BY <2>4, <2>5, <2>6 DEF IInv
<1> QED BY <1>2, <1>3

\* What a sync that saves puts into its panel's file.
LEMMA SavedFile ==
    ASSUME IInv, NEW p \in Panel, SyncSave(p)
    PROVE  /\ file' \in [Panel -> File \cup {NoFile}]
           /\ file'[p] \in File
           /\ \A g \in sync[p].result : g.time <= file'[p].time
           /\ \A q \in Panel : q # p => file'[q] = file[q]
<1>1. sync[p].result \in SUBSET File /\ sync[p].result # {}
  BY DEF SyncSave, IInv, TypeOK, SavingHasAsked
<1>2. /\ Outcome(sync[p].result) \in File
      /\ \A g \in sync[p].result : g.time <= Outcome(sync[p].result).time
  BY <1>1, OutcomeProperties
<1> QED BY <1>2 DEF SyncSave, IInv, TypeOK

LEMMA SyncSaveStep ==
    ASSUME IInv, NEW p \in Panel, SyncSave(p)
    PROVE  IInv'
BY SavedFile, SyncEnds DEF SyncSave, IInv, TypeOK

LEMMA RestartStep ==
    ASSUME IInv, NEW p \in Panel, Restart(p)
    PROVE  IInv'
<1>1. /\ sync' = [sync EXCEPT ![p] = Idle] /\ raced' = raced \ {p}
      /\ UNCHANGED <<file, used>>
  BY DEF Restart
<1>2. told' \subseteq Panel /\ faults' \in 0 .. MaxFaults
  BY DEF Restart, IInv, TypeOK
<1>3. file' \in [Panel -> File \cup {NoFile}]
  BY <1>1 DEF IInv, TypeOK
<1> QED BY <1>1, <1>2, <1>3, SyncEnds

LEMMA InductiveInvariant == IInv /\ [Next]_vars => IInv'
<1> SUFFICES ASSUME IInv, [Next]_vars
             PROVE  IInv'
  OBVIOUS
<1>1. CASE UNCHANGED vars
  BY <1>1 DEF vars, IInv, TypeOK, SavingHasAsked, OwnFileIsCovered
<1>2. ASSUME NEW p \in Panel, AutoUpdate(p) \/ MessageTrigger(p)
      PROVE  IInv'
  <2>1. SyncStart(p) /\ UNCHANGED <<file, used>> /\ told' \subseteq Panel
    BY <1>2 DEF AutoUpdate, MessageTrigger, IInv, TypeOK
  <2> QED BY <2>1, SyncStartStep
<1> QED BY <1>1, <1>2, SaveFileStep, FetchStep, FetchFailsStep, SyncDecideStep,
           SyncSaveStep, RestartStep DEF Next, Step

\* The invariant, which contains the type invariant, holds in every reachable
\* state.
THEOREM Invariant == Spec => []IInv
BY InitInvariant, InductiveInvariant, PTL DEF Spec

\* Every variable keeps its type, and no sync holds two files of one time.
THEOREM TypeCorrect == Spec => []TypeOK
<1>1. IInv => TypeOK
  BY DEF IInv
<1> QED BY <1>1, Invariant, PTL

-----------------------------------------------------------------------------
\* A sync replaces its panel's file by an older one only if a save fell within
\* it or the panel's own answer was missing.
THEOREM GoesBackOnlyWhenRacedHolds == Spec => GoesBackOnlyWhenRaced
<1> DEFINE Forward ==
       \A p \in Panel :
          Stamp(file'[p]) < Stamp(file[p]) => used' # used \/ p \in raced
<1>1. IInv /\ [Next]_vars => [Forward]_vars
  <2> SUFFICES ASSUME IInv, Next, NEW p \in Panel,
                      Stamp(file'[p]) < Stamp(file[p]), used' = used, p \notin raced
               PROVE  FALSE
    OBVIOUS
  <2>1. \A q \in Panel : file[q] = NoFile \/ (file[q] \in File /\ file[q].time \in Nat)
    BY FileTimes DEF IInv, TypeOK
  <2>2. file'[p] # file[p]
    BY <2>1 DEF Stamp
  <2>3. ASSUME NEW q \in Panel, NEW t \in Time, NEW D \in SUBSET Device, SaveFile(q, t, D)
        PROVE  FALSE
    BY <2>3 DEF SaveFile
  <2>4. ASSUME NEW q \in Panel, SyncSave(q)
        PROVE  FALSE
    <3>1. q = p
      BY <2>2, <2>4, SavedFile
    <3>2. /\ file'[p] \in File
          /\ \A g \in sync[p].result : g.time <= file'[p].time
          /\ sync[p].pc = "saving"
      BY <2>4, <3>1, SavedFile DEF SyncSave
    <3>3. file'[p].time \in Nat /\ file'[p] # NoFile
      BY <3>2, FileTimes
    <3>4. file[p] # NoFile /\ file[p].time \in Nat /\ file'[p].time < file[p].time
      BY <2>1, <3>3 DEF Stamp
    <3>5. PICK f \in sync[p].result : file[p].time <= f.time
      BY <3>2, <3>4 DEF IInv, OwnFileIsCovered, SavingHasAsked
    <3>6. f.time \in Nat /\ f.time <= file'[p].time
      <4>1. f \in File
        BY <3>5 DEF IInv, TypeOK
      <4>2. f.time \in Nat
        BY <4>1, FileTimes
      <4> QED BY <3>2, <3>5, <4>2
    <3> QED BY <3>3, <3>4, <3>5, <3>6
  <2>5. \A q, r \in Panel :
           /\ ~AutoUpdate(q) /\ ~MessageTrigger(q) /\ ~Fetch(q, r) /\ ~FetchFails(q, r)
           /\ ~SyncDecide(q) /\ ~Restart(q)
    BY <2>2 DEF AutoUpdate, MessageTrigger, Fetch, FetchFails, SyncDecide, Restart
  <2> QED BY <2>3, <2>4, <2>5 DEF Next, Step
<1> QED BY <1>1, Invariant, PTL DEF Spec, GoesBackOnlyWhenRaced
=============================================================================
