--------------------------- MODULE BleConfigProofs ---------------------------
(***************************************************************************)
(* The locks and the lists of the BLE site, for any number of threads,     *)
(* devices, requests, reports and restarts.                                *)
(*                                                                         *)
(* LockInv: a thread holds a lock between two steps only when its next     *)
(* call is the one that needs a second lock; from that, who can wait for   *)
(* whom is read off without a case for every pair of calls.                *)
(* TypeInv: what is left of an operation is a suffix of a program of its   *)
(* kind, so its next call tells what it has done (CourseTable).            *)
(* LevelInv: every level that is stored and has a device is in the file of *)
(* the levels.  OrphanInv: the address of every level is still its         *)
(* device's, in the map and in the file, or has been taken from it.        *)
(* ListInv: what each operation has left of its device so far; all other   *)
(* devices are consistent.  It is stated of one device at a time, so that  *)
(* it says nothing of those on which operations have met.                  *)
(***************************************************************************)
EXTENDS BleConfig, TLAPS

\* The call that follows a call which has taken a lock, and the lock.
Second(step) ==
    IF step \in SnSteps THEN "saveSnAddrData"
    ELSE IF step \in GroupSteps THEN "saveGroupListData"
    ELSE "storeDevGrpStatus2File"

Entering == SnSteps \cup GroupSteps \cup {"storeLuminance"}

Holds(lock) ==
    IF lock = "SnAddressMap" THEN "saveSnAddrData"
    ELSE IF lock = "GroupAddressMap" THEN "saveGroupListData"
    ELSE "storeDevGrpStatus2File"

Paired(s) ==
    \A i \in 1..Len(s) : s[i] \in Entering => i < Len(s) /\ s[i + 1] = Second(s[i])

LockType ==
    /\ owner \in [Locks -> Thread \cup {NoThread}]
    /\ todo \in [Thread -> Seq(Steps)]

TodoPaired == \A t \in Thread : Paired(todo[t])

\* Who holds a lock is about to make the call that needs a second one.
HoldersCall ==
    \A l \in Locks : owner[l] # NoThread =>
       Busy(owner[l]) /\ Head(todo[owner[l]]) = Holds(l)

LockInv == LockType /\ TodoPaired /\ HoldersCall

-----------------------------------------------------------------------------
LEMMA PairedTail ==
    ASSUME NEW s \in Seq(Steps), s # <<>>, Paired(s)
    PROVE  /\ Tail(s) \in Seq(Steps) /\ Paired(Tail(s))
           /\ Head(s) \in Entering => Tail(s) # <<>> /\ Head(Tail(s)) = Second(Head(s))
<1>1. Tail(s) \in Seq(Steps) /\ Len(Tail(s)) = Len(s) - 1 /\ Len(s) \in Nat /\ Len(s) > 0
  OBVIOUS
<1>2. \A i \in 1..Len(Tail(s)) : Tail(s)[i] = s[i + 1]
  OBVIOUS
<1>3. Paired(Tail(s))
  <2> SUFFICES ASSUME NEW i \in 1..Len(Tail(s)), Tail(s)[i] \in Entering
               PROVE  i < Len(Tail(s)) /\ Tail(s)[i + 1] = Second(Tail(s)[i])
    BY DEF Paired
  <2>1. i + 1 \in 1..Len(s) /\ s[i + 1] \in Entering
    BY <1>1, <1>2
  <2>2. i + 1 < Len(s) /\ s[i + 2] = Second(s[i + 1])
    BY <2>1 DEF Paired
  <2> QED BY <1>1, <1>2, <2>2
<1>4. ASSUME Head(s) \in Entering
      PROVE  Tail(s) # <<>> /\ Head(Tail(s)) = Second(Head(s))
  <2>1. 1 \in 1..Len(s) /\ s[1] = Head(s)
    BY <1>1
  <2>2. 1 < Len(s) /\ s[2] = Second(Head(s))
    BY <1>4, <2>1 DEF Paired
  <2>3. Len(Tail(s)) > 0 /\ 1 \in 1..Len(Tail(s)) /\ Tail(s)[1] = s[2]
    BY <1>1, <1>2, <2>2
  <2>4. \A r \in Seq(Steps) : Len(r) > 0 => r # <<>> /\ Head(r) = r[1]
    OBVIOUS
  <2> QED BY <1>1, <2>2, <2>3, <2>4
<1> QED BY <1>1, <1>3, <1>4

\* The calls of every operation are paired.
LEMMA OperationsArePaired ==
    \A s \in {BindSteps(TRUE), BindSteps(FALSE), UnbindSteps, UnbindForceSteps,
              ResetSteps, Add2GroupSteps, DelFromGroupSteps, ControlSteps,
              DeviceConfigSteps, SaveListSteps, ReportSteps} : s \in Seq(Steps) /\ Paired(s)
<1> USE DEF Entering, Second, SnSteps, GroupSteps
<1>1. BindSteps(TRUE) \in Seq(Steps) /\ Paired(BindSteps(TRUE))
  <2>1. BindSteps(TRUE) \in Seq(Steps) /\ Len(BindSteps(TRUE)) = 5
    BY DEF BindSteps, Steps, DeviceSteps
  <2> QED BY <2>1 DEF BindSteps, Paired
<1>2. BindSteps(FALSE) \in Seq(Steps) /\ Paired(BindSteps(FALSE))
  <2>1. BindSteps(FALSE) \in Seq(Steps) /\ Len(BindSteps(FALSE)) = 4
    BY DEF BindSteps, Steps, DeviceSteps
  <2> QED BY <2>1 DEF BindSteps, Paired
<1>3. UnbindSteps \in Seq(Steps) /\ Paired(UnbindSteps)
  <2>1. UnbindSteps \in Seq(Steps) /\ Len(UnbindSteps) = 6
    BY DEF UnbindSteps, Steps, DeviceSteps
  <2> QED BY <2>1 DEF UnbindSteps, Paired
<1>4. UnbindForceSteps \in Seq(Steps) /\ Paired(UnbindForceSteps)
  <2>1. UnbindForceSteps \in Seq(Steps) /\ Len(UnbindForceSteps) = 4
    BY DEF UnbindForceSteps, Steps, DeviceSteps
  <2> QED BY <2>1 DEF UnbindForceSteps, Paired
<1>5. ResetSteps \in Seq(Steps) /\ Paired(ResetSteps)
  <2>1. ResetSteps \in Seq(Steps) /\ Len(ResetSteps) = 4
    BY DEF ResetSteps, Steps, DeviceSteps
  <2> QED BY <2>1 DEF ResetSteps, Paired
<1>6. Add2GroupSteps \in Seq(Steps) /\ Paired(Add2GroupSteps)
  <2>1. Add2GroupSteps \in Seq(Steps) /\ Len(Add2GroupSteps) = 3
    BY DEF Add2GroupSteps, Steps, DeviceSteps
  <2> QED BY <2>1 DEF Add2GroupSteps, Paired
<1>7. DelFromGroupSteps \in Seq(Steps) /\ Paired(DelFromGroupSteps)
  <2>1. DelFromGroupSteps \in Seq(Steps) /\ Len(DelFromGroupSteps) = 3
    BY DEF DelFromGroupSteps, Steps, DeviceSteps
  <2> QED BY <2>1 DEF DelFromGroupSteps, Paired
<1>8. ControlSteps \in Seq(Steps) /\ Paired(ControlSteps)
  <2>1. ControlSteps \in Seq(Steps) /\ Len(ControlSteps) = 2
    BY DEF ControlSteps, Steps, DeviceSteps
  <2> QED BY <2>1 DEF ControlSteps, Paired
<1>9. DeviceConfigSteps \in Seq(Steps) /\ Paired(DeviceConfigSteps)
  <2>1. DeviceConfigSteps \in Seq(Steps) /\ Len(DeviceConfigSteps) = 2
    BY DEF DeviceConfigSteps, Steps, DeviceSteps
  <2> QED BY <2>1 DEF DeviceConfigSteps, Paired
<1>10. ReportSteps \in Seq(Steps) /\ Paired(ReportSteps)
  <2>1. ReportSteps \in Seq(Steps) /\ Len(ReportSteps) = 1
    BY DEF ReportSteps, Steps, DeviceSteps
  <2> QED BY <2>1 DEF ReportSteps, Paired
<1>11. SaveListSteps \in Seq(Steps) /\ Paired(SaveListSteps)
  <2>1. SaveListSteps \in Seq(Steps) /\ Len(SaveListSteps) = 1
    BY DEF SaveListSteps, Steps, DeviceSteps
  <2> QED BY <2>1 DEF SaveListSteps, Paired
<1> QED BY <1>1, <1>2, <1>3, <1>4, <1>5, <1>6, <1>7, <1>8, <1>9, <1>10, <1>11

-----------------------------------------------------------------------------
(* What a step may do to the locks and the calls still to make.             *)

Programs == {BindSteps(TRUE), BindSteps(FALSE), UnbindSteps, UnbindForceSteps,
             ResetSteps, Add2GroupSteps, DelFromGroupSteps, ControlSteps,
             DeviceConfigSteps, SaveListSteps, ReportSteps}

SecondCalls == {"saveSnAddrData", "saveGroupListData", "storeDevGrpStatus2File"}

Begins == \E t \in Thread, s \in Programs :
    /\ ~Busy(t) /\ todo' = [todo EXCEPT ![t] = s] /\ owner' = owner

Calling(t) == Busy(t) /\ todo' = [todo EXCEPT ![t] = Tail(@)]

Keeps == \E t \in Thread :
    Calling(t) /\ Head(todo[t]) \notin SecondCalls /\ owner' = owner
Takes == \E t \in Thread, l \in Locks :
    /\ Calling(t) /\ owner' = [owner EXCEPT ![l] = t]
    /\ Head(todo[t]) \in Entering /\ Second(Head(todo[t])) = Holds(l)
Releases == \E t \in Thread, l \in Locks :
    /\ Calling(t) /\ owner' = [owner EXCEPT ![l] = NoThread]
    /\ Head(todo[t]) = Holds(l)
Skips == \E t \in Thread :
    /\ Busy(t) /\ Head(todo[t]) = "deleteDeviceSn"
    /\ todo' = [todo EXCEPT ![t] = Tail(Tail(@))] /\ owner' = owner
Restarts ==
    /\ owner' = [l \in Locks |-> NoThread] /\ todo' = [t \in Thread |-> <<>>]

LEMMA BeginsAre ==
    ASSUME NEW t \in Thread, NEW st \in Programs, NEW k, NEW d, NEW a, NEW v,
           Begin(t, st, k, d, a, v)
    PROVE  Begins
BY DEF Begin, Begins

LEMMA BeginStep ==
    ASSUME BeginSome
    PROVE  Begins
<1> USE DEF Programs
<1>1. PackageThread \in Thread /\ Worker \subseteq Thread
  BY DEF Thread
<1>2. ASSUME NEW t \in Worker, NEW d \in Device, NEW ok \in BOOLEAN, Bind(t, d, ok)
      PROVE  Begins
  <2>1. BindSteps(ok) \in Programs
    <3>1. CASE ok = TRUE
      BY <3>1
    <3>2. CASE ok = FALSE
      BY <3>2
    <3> QED BY <3>1, <3>2
  <2>2. Begin(t, BindSteps(ok), "bind", d, NoAddress, "on")
    BY <1>2 DEF Bind
  <2> HIDE DEF Programs
  <2> QED BY <1>1, <2>1, <2>2, BeginsAre
<1>3. ASSUME NEW t \in Worker, NEW d \in Device, UnbindForce(t, d)
      PROVE  Begins
  BY <1>1, <1>3, BeginsAre DEF UnbindForce
<1>4. ASSUME NEW t \in Worker, NEW d \in Device, ControlDevice(t, d)
      PROVE  Begins
  BY <1>1, <1>4, BeginsAre DEF ControlDevice
<1>5. ASSUME NEW t \in Worker, NEW d \in Device,
             ChangeGroup(t, d, Add2GroupSteps) \/ ChangeGroup(t, d, DelFromGroupSteps)
      PROVE  Begins
  BY <1>1, <1>5, BeginsAre DEF ChangeGroup
<1>6. ASSUME NEW t \in Worker,
             ControlGroup(t) \/ ResetDevice(t) \/ DeviceConfig(t) \/ SaveDeviceList(t)
      PROVE  Begins
  BY <1>1, <1>6, BeginsAre DEF ControlGroup, ResetDevice, DeviceConfig, SaveDeviceList
<1>7. ASSUME NEW a \in Address, UnBindResult(a)
      PROVE  Begins
  BY <1>1, <1>7, BeginsAre DEF UnBindResult
<1>8. ASSUME NEW d \in Device, NEW v \in Power, StatusReport(d, v)
      PROVE  Begins
  BY <1>1, <1>8, BeginsAre DEF StatusReport
<1> QED BY <1>2, <1>3, <1>4, <1>5, <1>6, <1>7, <1>8 DEF BeginSome

LEMMA CallStep ==
    ASSUME NEW t \in Thread, Calls(t)
    PROVE  Keeps \/ Takes \/ Releases \/ Skips
<1> USE DEF Call, Whole, Enter, Exit, Calling
<1>1. ASSUME GetAddress(t) \/ DeleteDeviceSn(t) \/ StoreLuminance(t)
      PROVE  Takes
  BY <1>1 DEF GetAddress, DeleteDeviceSn, StoreLuminance, Takes, Entering, Second,
              Holds, SnSteps, GroupSteps, Locks
<1>2. ASSUME NEW step \in GroupSteps, ChangeGroups(t, step)
      PROVE  Takes
  BY <1>2 DEF ChangeGroups, Takes, Entering, Second, Holds, SnSteps, GroupSteps, Locks
<1>3. ASSUME SaveSnAddrData(t) \/ SaveGroupListData(t) \/ StoreDevGrpStatus2File(t)
      PROVE  Releases
  BY <1>3 DEF SaveSnAddrData, SaveGroupListData, StoreDevGrpStatus2File, Releases,
              Holds, Locks
<1>4. ASSUME DeleteNoDeviceSn(t)
      PROVE  Skips
  BY <1>4 DEF DeleteNoDeviceSn, Skips
<1>5. ASSUME NEW step \in DeviceSteps, ChangeDevices(t, step)
      PROVE  Keeps
  BY <1>5 DEF ChangeDevices, Keeps, SecondCalls, DeviceSteps
<1>6. ASSUME \/ DeleteStatusItem(t) \/ UpdateStatusListData(t)
             \/ SaveStatusListData(t) \/ SaveDeviceListData(t)
             \/ ClearSnAddressData(t) \/ ClearGroupList(t) \/ ClearStatusList(t)
      PROVE  Keeps
  BY <1>6 DEF DeleteStatusItem, UpdateStatusListData, SaveStatusListData,
              SaveDeviceListData, ClearSnAddressData, ClearGroupList, ClearStatusList,
              Keeps, SecondCalls
<1>7. ASSUME \/ ReadList(t, "getStatusListData", statusListData)
             \/ ReadDeviceList(t)
      PROVE  Keeps
  BY <1>7 DEF ReadDeviceList, ReadList, Keeps, SecondCalls
<1> QED BY <1>1, <1>2, <1>3, <1>4, <1>5, <1>6, <1>7 DEF Calls

LEMMA LockStep ==
    ASSUME Next
    PROVE  Begins \/ Keeps \/ Takes \/ Releases \/ Skips \/ Restarts
<1>1. ASSUME Restart
      PROVE  Restarts
  BY <1>1 DEF Restart, Restarts
<1> QED BY <1>1, BeginStep, CallStep DEF Next

-----------------------------------------------------------------------------
LEMMA LockInvInit ==
    ASSUME Init
    PROVE  LockInv
<1>1. <<>> \in Seq(Steps) /\ Paired(<<>>)
  BY DEF Paired
<1> QED BY <1>1 DEF Init, LockInv, LockType, TodoPaired, HoldersCall, Paired

\* What a call leaves to do is paired again.
LEMMA LockInvTail ==
    ASSUME LockInv, NEW t \in Thread, Calling(t)
    PROVE  /\ todo[t] \in Seq(Steps) /\ todo[t] # <<>>
           /\ todo' \in [Thread -> Seq(Steps)]
           /\ TodoPaired'
           /\ Head(todo[t]) \in Entering =>
                 todo'[t] # <<>> /\ Head(todo'[t]) = Second(Head(todo[t]))
           /\ \A u \in Thread : u # t => todo'[u] = todo[u]
<1>1. todo \in [Thread -> Seq(Steps)] /\ todo[t] \in Seq(Steps) /\ todo[t] # <<>> /\ Paired(todo[t])
  BY DEF LockInv, LockType, TodoPaired, Calling, Busy
<1>2. /\ todo' = [todo EXCEPT ![t] = Tail(todo[t])]
      /\ todo'[t] = Tail(todo[t]) /\ \A u \in Thread : u # t => todo'[u] = todo[u]
  BY <1>1 DEF Calling
<1>3. /\ Tail(todo[t]) \in Seq(Steps) /\ Paired(Tail(todo[t]))
      /\ Head(todo[t]) \in Entering =>
            Tail(todo[t]) # <<>> /\ Head(Tail(todo[t])) = Second(Head(todo[t]))
  BY <1>1, PairedTail
<1>4. TodoPaired'
  BY <1>2, <1>3 DEF LockInv, TodoPaired, Paired
<1> QED BY <1>1, <1>2, <1>3, <1>4

LEMMA LockInvStep ==
    ASSUME LockInv, [Next]_vars
    PROVE  LockInv'
<1> USE DEF LockInv
<1>0. /\ \A l \in Locks : owner[l] \in Thread \cup {NoThread}
      /\ owner \in [Locks -> Thread \cup {NoThread}]
      /\ todo \in [Thread -> Seq(Steps)]
  BY DEF LockType
<1>h. \A l \in Locks, t \in Thread : owner[l] = t => Head(todo[t]) = Holds(l)
  BY NamesAssumption DEF HoldersCall, Thread
<1>1. CASE Begins
  <2>1. PICK t \in Thread, s \in Programs :
          ~Busy(t) /\ todo' = [todo EXCEPT ![t] = s] /\ owner' = owner
    BY <1>1 DEF Begins
  <2>2. s \in Seq(Steps) /\ Paired(s)
    BY OperationsArePaired DEF Programs
  <2>3. LockType'
    BY <1>0, <2>1, <2>2 DEF LockType
  <2>4. TodoPaired'
    BY <1>0, <2>1, <2>2 DEF TodoPaired, Paired
  <2>5. HoldersCall'
    BY <1>0, <2>1 DEF HoldersCall, Busy
  <2> QED BY <2>3, <2>4, <2>5
<1>2. CASE Keeps
  <2>1. PICK t \in Thread : Calling(t) /\ Head(todo[t]) \notin SecondCalls /\ owner' = owner
    BY <1>2 DEF Keeps
  <2>2. \A l \in Locks : owner[l] # t
    BY <1>h, <2>1 DEF Holds, SecondCalls, Locks
  <2>3. HoldersCall'
    BY <1>0, <2>1, <2>2, LockInvTail DEF HoldersCall, Busy
  <2> QED BY <1>0, <2>1, <2>3, LockInvTail DEF LockType
<1>3. CASE Takes
  <2>1. PICK t \in Thread, l \in Locks :
          /\ Calling(t) /\ owner' = [owner EXCEPT ![l] = t]
          /\ Head(todo[t]) \in Entering /\ Second(Head(todo[t])) = Holds(l)
    BY <1>3 DEF Takes
  <2>2. \A k \in Locks : owner[k] # t
    BY <1>h, <2>1 DEF Holds, Entering, SnSteps, GroupSteps, Locks
  <2>3. LockType'
    BY <1>0, <2>1, LockInvTail DEF LockType
  <2>4. todo'[t] # <<>> /\ Head(todo'[t]) = Holds(l)
    BY <2>1, LockInvTail
  <2>5. HoldersCall'
    <3> SUFFICES ASSUME NEW k \in Locks, owner'[k] # NoThread
                 PROVE  todo'[owner'[k]] # <<>> /\ Head(todo'[owner'[k]]) = Holds(k)
      BY DEF HoldersCall, Busy
    <3>1. CASE k = l
      BY <1>0, <2>1, <2>4, <3>1
    <3>2. CASE k # l
      <4>1. owner'[k] = owner[k] /\ owner[k] \in Thread /\ owner[k] # t
        BY <1>0, <2>1, <2>2, <3>2
      <4> QED BY <2>1, <4>1, LockInvTail DEF HoldersCall, Busy
    <3> QED BY <3>1, <3>2
  <2> QED BY <2>1, <2>3, <2>5, LockInvTail
<1>4. CASE Releases
  <2>1. PICK t \in Thread, l \in Locks :
          /\ Calling(t) /\ owner' = [owner EXCEPT ![l] = NoThread]
          /\ Head(todo[t]) = Holds(l)
    BY <1>4 DEF Releases
  <2>2. \A k \in Locks : owner[k] = t => k = l
    BY <1>h, <2>1 DEF Holds, Locks
  <2>3. LockType'
    BY <1>0, <2>1, LockInvTail DEF LockType
  <2>5. HoldersCall'
    <3> SUFFICES ASSUME NEW k \in Locks, owner'[k] # NoThread
                 PROVE  todo'[owner'[k]] # <<>> /\ Head(todo'[owner'[k]]) = Holds(k)
      BY DEF HoldersCall, Busy
    <3>1. k # l /\ owner'[k] = owner[k] /\ owner[k] \in Thread
      BY <1>0, <2>1
    <3> QED BY <2>1, <2>2, <3>1, LockInvTail DEF HoldersCall, Busy
  <2> QED BY <2>1, <2>3, <2>5, LockInvTail
<1>5. CASE Skips
  <2>1. PICK t \in Thread :
          /\ Busy(t) /\ Head(todo[t]) = "deleteDeviceSn"
          /\ todo' = [todo EXCEPT ![t] = Tail(Tail(@))] /\ owner' = owner
    BY <1>5 DEF Skips
  <2>2. todo[t] \in Seq(Steps) /\ todo[t] # <<>> /\ Paired(todo[t])
    BY <1>0, <2>1 DEF TodoPaired, Busy
  <2>3. Tail(todo[t]) \in Seq(Steps) /\ Paired(Tail(todo[t])) /\ Tail(todo[t]) # <<>>
    BY <2>1, <2>2, PairedTail DEF Entering, SnSteps
  <2>4. Tail(Tail(todo[t])) \in Seq(Steps) /\ Paired(Tail(Tail(todo[t])))
    BY <2>3, PairedTail
  <2>5. \A l \in Locks : owner[l] # t
    BY <1>h, <2>1 DEF Holds, Locks
  <2>6. LockType'
    BY <1>0, <2>1, <2>4 DEF LockType
  <2>7. TodoPaired'
    BY <1>0, <2>1, <2>4 DEF TodoPaired, Paired
  <2>8. HoldersCall'
    BY <1>0, <2>1, <2>5 DEF HoldersCall, Busy
  <2> QED BY <2>6, <2>7, <2>8
<1>6. CASE Restarts
  <2>1. <<>> \in Seq(Steps) /\ Paired(<<>>)
    BY DEF Paired
  <2> QED BY <1>6, <2>1 DEF Restarts, LockType, TodoPaired, HoldersCall, Paired
<1>7. CASE UNCHANGED vars
  BY <1>7 DEF vars, LockType, TodoPaired, HoldersCall, Paired, Busy
<1> QED BY <1>1, <1>2, <1>3, <1>4, <1>5, <1>6, <1>7, LockStep

-----------------------------------------------------------------------------
\* A holder that waits: bleConfig's for SnAddressMap, the others' for bleConfig.
LEMMA NobodyElseIsStuck ==
    ASSUME LockInv
    PROVE  StuckOnlyOnAddresses
<1> SUFFICES ASSUME NEW S \in SUBSET Thread, S # {},
                    \A t \in S : Waiting(t) /\ owner[LockOf(Head(todo[t]))] \in S
             PROVE  /\ {owner["bleConfig"], owner["SnAddressMap"]} \subseteq S
                    /\ StoredLevels # {}
  BY DEF StuckOnlyOnAddresses
<1>1. NoThread \notin S
  BY NamesAssumption DEF Thread
<1>2. \A step \in Steps : LockOf(step) \in Locks
  BY DEF LockOf, Locks
<1>3. ASSUME NEW l \in Locks, owner[l] \in S
      PROVE  /\ Head(todo[owner[l]]) = Holds(l)
             /\ owner[LockOf(Holds(l))] \in S /\ owner[LockOf(Holds(l))] # owner[l]
  BY <1>1, <1>3 DEF LockInv, HoldersCall, Waiting
<1>4. ASSUME owner["bleConfig"] \in S
      PROVE  owner["SnAddressMap"] \in S /\ StoredLevels # {}
  <2>1. "bleConfig" \in Locks /\ Holds("bleConfig") = "storeDevGrpStatus2File"
    BY DEF Locks, Holds
  <2>2. LockOf("storeDevGrpStatus2File") =
          IF StoredLevels # {} THEN "SnAddressMap" ELSE "bleConfig"
    BY DEF LockOf, SnSteps, GroupSteps
  <2> QED BY <1>3, <1>4, <2>1, <2>2
<1>5. ASSUME NEW l \in Locks, l # "bleConfig", owner[l] \in S
      PROVE  owner["bleConfig"] \in S
  <2>1. LockOf(Holds(l)) = "bleConfig"
    BY <1>5 DEF LockOf, Holds, SnSteps, GroupSteps, Locks
  <2> QED BY <1>3, <1>5, <2>1
<1>6. PICK t \in S : TRUE
  OBVIOUS
<1>7. Head(todo[t]) \in Steps /\ owner[LockOf(Head(todo[t]))] \in S
  <2>1. todo[t] \in Seq(Steps) /\ todo[t] # <<>>
    BY DEF LockInv, LockType, Waiting, Busy
  <2> QED BY <2>1
<1> QED BY <1>2, <1>4, <1>5, <1>7

\* For any number of threads and devices, the threads of the BLE site that can
\* wait for each other for ever include the one storing levels under
\* bleConfig's lock and the one saving addresses under SnAddressMap's.
THEOREM StuckOnlyOnAddressesHolds == Spec => []StuckOnlyOnAddresses
<1>1. Init => LockInv
  BY LockInvInit
<1>2. LockInv /\ [Next]_vars => LockInv'
  BY LockInvStep
<1>3. LockInv => StuckOnlyOnAddresses
  BY NobodyElseIsStuck
<1> QED BY <1>1, <1>2, <1>3, PTL DEF Spec

-----------------------------------------------------------------------------
(* Where an operation is in its calls.  The rest of it is a suffix of its    *)
(* program; its kind tells which programs it can have, and so its next call  *)
(* tells what it has done.                                                   *)

ProgramsOf(kind) ==
    CASE kind = "bind"    -> {BindSteps(TRUE), BindSteps(FALSE)}
      [] kind = "unbind"  -> {UnbindSteps}
      [] kind = "force"   -> {UnbindForceSteps}
      [] kind = "group"   -> {Add2GroupSteps, DelFromGroupSteps}
      [] kind = "reset"   -> {ResetSteps}
      [] kind = "control" -> {ControlSteps}
      [] kind = "config"  -> {DeviceConfigSteps}
      [] kind = "save"    -> {SaveListSteps}
      [] kind = "report"  -> {ReportSteps}
      [] kind = "none"    -> {<<>>}

Kinds == Listing \cup {"none", "report", "control", "config", "save"}

Rest(s) == {SubSeq(s, i, Len(s)) : i \in 1..(Len(s) + 1)}

CourseOf(kind, r) == \E s \in ProgramsOf(kind) : r \in Rest(s)

OnCourse == \A t \in Thread : CourseOf(job[t].kind, todo[t])

NextIs(r, step) == Tail(r) # <<>> /\ Head(Tail(r)) = step

LEMMA RestOf ==
    ASSUME NEW s \in Seq(Steps), NEW r \in Rest(s), r # <<>>
    PROVE  /\ Tail(r) \in Rest(s)
           /\ \E i \in 1..Len(s) :
                 /\ Head(r) = s[i]
                 /\ i < Len(s) => NextIs(r, s[i + 1])
                 /\ i = Len(s) => Tail(r) = <<>>
                 /\ i + 1 < Len(s) => NextIs(Tail(r), s[i + 2])
<1>1. PICK i \in 1..(Len(s) + 1) : r = SubSeq(s, i, Len(s))
  BY DEF Rest
<1>2. /\ Len(s) \in Nat /\ r \in Seq(Steps) /\ Len(r) = Len(s) - i + 1
      /\ \A j \in 1..Len(r) : r[j] = s[i + j - 1]
  BY <1>1
<1>3. i \in 1..Len(s) /\ Len(r) > 0
  BY <1>2
<1>4. Head(r) = s[i]
  BY <1>2, <1>3
<1>5. /\ Tail(r) \in Seq(Steps) /\ Len(Tail(r)) = Len(s) - i
      /\ \A j \in 1..Len(Tail(r)) : Tail(r)[j] = s[i + j]
  <2>1. Tail(r) \in Seq(Steps) /\ Len(Tail(r)) = Len(r) - 1
        /\ \A j \in 1..Len(Tail(r)) : Tail(r)[j] = r[j + 1]
    BY <1>2, <1>3
  <2> QED BY <1>2, <1>3, <2>1
<1>6. Tail(r) \in Rest(s)
  <2>1. \A a, b \in Seq(Steps) :
          Len(a) = Len(b) /\ (\A j \in 1..Len(a) : a[j] = b[j]) => a = b
    OBVIOUS
  <2>2. /\ i + 1 \in 1..(Len(s) + 1)
        /\ SubSeq(s, i + 1, Len(s)) \in Seq(Steps)
        /\ Len(SubSeq(s, i + 1, Len(s))) = Len(s) - i
        /\ \A j \in 1..(Len(s) - i) : SubSeq(s, i + 1, Len(s))[j] = s[i + j]
    BY <1>2, <1>3
  <2>3. Tail(r) = SubSeq(s, i + 1, Len(s))
    BY <1>5, <2>1, <2>2
  <2> QED BY <2>2, <2>3 DEF Rest
<1>7. ASSUME i < Len(s)
      PROVE  NextIs(r, s[i + 1])
  <2>1. Len(Tail(r)) > 0 /\ Tail(r)[1] = s[i + 1]
    BY <1>2, <1>3, <1>5, <1>7
  <2>2. \A a \in Seq(Steps) : Len(a) > 0 => a # <<>> /\ Head(a) = a[1]
    OBVIOUS
  <2> QED BY <1>5, <2>1, <2>2 DEF NextIs
<1>8. ASSUME i = Len(s)
      PROVE  Tail(r) = <<>>
  <2>1. Len(Tail(r)) = 0
    BY <1>2, <1>5, <1>8
  <2>2. \A a \in Seq(Steps) : Len(a) = 0 => a = <<>>
    OBVIOUS
  <2> QED BY <1>5, <2>1, <2>2
<1>9. ASSUME i + 1 < Len(s)
      PROVE  NextIs(Tail(r), s[i + 2])
  <2>1. Len(Tail(r)) > 1 /\ Tail(r)[2] = s[i + 2]
    BY <1>2, <1>3, <1>5, <1>9
  <2>2. \A a \in Seq(Steps) :
          Len(a) > 1 => Tail(a) \in Seq(Steps) /\ Len(Tail(a)) > 0 /\ Tail(a)[1] = a[2]
    OBVIOUS
  <2>3. \A a \in Seq(Steps) : Len(a) > 0 => a # <<>> /\ Head(a) = a[1]
    OBVIOUS
  <2> QED BY <1>5, <2>1, <2>2, <2>3 DEF NextIs
<1> QED BY <1>3, <1>4, <1>6, <1>7, <1>8, <1>9

\* Of a program s that comes to its i-th call: what a rest of it can be.
LEMMA ProgramsAre ==
    ASSUME NEW k \in Kinds, NEW s \in ProgramsOf(k)
    PROVE  s \in Seq(Steps) /\ (s = <<>> \/ s \in Programs)
<1>1. \A p \in Programs : p \in Seq(Steps)
  BY OperationsArePaired DEF Programs
<1>2. <<>> \in Seq(Steps)
  OBVIOUS
<1>3. s = <<>> \/ s \in Programs
  <2>1. CASE k = "bind"
    BY <2>1 DEF ProgramsOf, Programs
  <2>2. CASE k = "unbind"
    BY <2>2 DEF ProgramsOf, Programs
  <2>3. CASE k = "force"
    BY <2>3 DEF ProgramsOf, Programs
  <2>4. CASE k = "group"
    BY <2>4 DEF ProgramsOf, Programs
  <2>5. CASE k = "reset"
    BY <2>5 DEF ProgramsOf, Programs
  <2>6. CASE k = "control"
    BY <2>6 DEF ProgramsOf, Programs
  <2>7. CASE k = "config"
    BY <2>7 DEF ProgramsOf, Programs
  <2>8. CASE k = "report"
    BY <2>8 DEF ProgramsOf, Programs
  <2>9. CASE k = "none"
    BY <2>9 DEF ProgramsOf
  <2>10. CASE k = "save"
    BY <2>10 DEF ProgramsOf, Programs
  <2> QED BY <2>1, <2>2, <2>3, <2>4, <2>5, <2>6, <2>7, <2>8, <2>9, <2>10 DEF Kinds, Listing
<1> QED BY <1>1, <1>2, <1>3

\* The kinds of operation a call belongs to, and the calls after it.
LEMMA CourseTable ==
    ASSUME NEW k \in Kinds, NEW r, r # <<>>, CourseOf(k, r)
    PROVE  LET h == Head(r)
           IN  /\ CourseOf(k, Tail(r))
               /\ h = "getAddress" => k = "bind" /\ NextIs(r, "saveSnAddrData")
               /\ h = "deleteDeviceSn" => k \in {"bind", "unbind"} /\ NextIs(r, "saveSnAddrData")
               /\ h = "saveSnAddrData" =>
                    \/ k = "bind" /\ NextIs(r, "insertDeviceItem")
                    \/ k = "bind" /\ NextIs(r, "deleteDeviceSn")
                    \/ k = "bind" /\ Tail(r) = <<>>
                    \/ k = "unbind" /\ NextIs(r, "deleteDeviceItem")
               /\ h = "insertDeviceItem" => k = "bind" /\ NextIs(r, "getStatusListData")
               /\ h = "getStatusListData" => k = "bind" /\ NextIs(r, "saveStatusListData")
               /\ h = "saveStatusListData" => k = "bind" /\ Tail(r) = <<>>
               /\ h = "deleteDeviceItem" => k \in {"unbind", "force"} /\ NextIs(r, "deleteStatusItem")
               /\ h = "deleteStatusItem" =>
                    k \in {"unbind", "force"} /\ NextIs(r, "removeDeviceFromAnyGroup")
               /\ h = "removeDeviceFromAnyGroup" =>
                    k \in {"unbind", "force"} /\ NextIs(r, "saveGroupListData")
               /\ h = "addDevice2Group" => k = "group" /\ NextIs(r, "saveGroupListData")
               /\ h = "removeDeviceFromGroup" =>
                    /\ k = "group" /\ NextIs(r, "saveGroupListData")
                    /\ ~NextIs(Tail(r), "insertGroupInfo")
               /\ h = "saveGroupListData" =>
                    \/ k \in {"unbind", "force"} /\ Tail(r) = <<>>
                    \/ k = "group" /\ NextIs(r, "insertGroupInfo")
                    \/ k = "group" /\ NextIs(r, "deleteGroupInfo")
               /\ h \in {"insertGroupInfo", "deleteGroupInfo"} => k = "group" /\ Tail(r) = <<>>
               /\ h = "clearSnAddressData" => k = "reset" /\ NextIs(r, "clearDeviceList")
               /\ h = "clearDeviceList" => k = "reset" /\ NextIs(r, "clearGroupList")
               /\ h = "clearGroupList" => k = "reset" /\ NextIs(r, "clearStatusList")
               /\ h = "clearStatusList" => k = "reset" /\ Tail(r) = <<>>
               /\ h = "storeLuminance" => k = "control" /\ NextIs(r, "storeDevGrpStatus2File")
               /\ h = "storeDevGrpStatus2File" => k = "control" /\ Tail(r) = <<>>
               /\ h = "getDeviceListData" => k = "config" /\ NextIs(r, "saveDeviceListData")
               /\ h = "saveDeviceListData" => k \in {"config", "save"} /\ Tail(r) = <<>>
               /\ h = "updateStatusListData" => k = "report" /\ Tail(r) = <<>>
<1>1. PICK s \in ProgramsOf(k) : r \in Rest(s)
  BY DEF CourseOf
<1>2. s \in Seq(Steps) /\ (s = <<>> \/ s \in Programs)
  BY ProgramsAre
<1>3. CourseOf(k, Tail(r))
  BY <1>1, <1>2, RestOf DEF CourseOf
<1>4. PICK i \in 1..Len(s) :
         /\ Head(r) = s[i] /\ (i < Len(s) => NextIs(r, s[i + 1])) /\ (i = Len(s) => Tail(r) = <<>>)
         /\ i + 1 < Len(s) => NextIs(Tail(r), s[i + 2])
  BY <1>1, <1>2, RestOf
<1>5. CASE k = "bind" /\ s = BindSteps(TRUE)
  <2>1. i \in 1..5 /\ Len(s) = 5
    BY <1>4, <1>5 DEF BindSteps
  <2> QED BY <1>3, <1>4, <1>5, <2>1 DEF BindSteps
<1>6. CASE k = "bind" /\ s = BindSteps(FALSE)
  <2>1. i \in 1..4 /\ Len(s) = 4
    BY <1>4, <1>6 DEF BindSteps
  <2> QED BY <1>3, <1>4, <1>6, <2>1 DEF BindSteps
<1>7. CASE k = "unbind" /\ s = UnbindSteps
  <2>1. i \in 1..6 /\ Len(s) = 6
    BY <1>4, <1>7 DEF UnbindSteps
  <2> QED BY <1>3, <1>4, <1>7, <2>1 DEF UnbindSteps
<1>8. CASE k = "force" /\ s = UnbindForceSteps
  <2>1. i \in 1..4 /\ Len(s) = 4
    BY <1>4, <1>8 DEF UnbindForceSteps
  <2> QED BY <1>3, <1>4, <1>8, <2>1 DEF UnbindForceSteps
<1>9. CASE k = "group" /\ s \in {Add2GroupSteps, DelFromGroupSteps}
  <2>1. i \in 1..3 /\ Len(s) = 3
    BY <1>4, <1>9 DEF Add2GroupSteps, DelFromGroupSteps
  <2>2. s = DelFromGroupSteps /\ i = 1 => NextIs(Tail(r), "deleteGroupInfo")
    BY <1>4, <2>1 DEF DelFromGroupSteps
  <2>3. NextIs(Tail(r), "deleteGroupInfo") => ~NextIs(Tail(r), "insertGroupInfo")
    BY DEF NextIs
  <2> QED BY <1>3, <1>4, <1>9, <2>1, <2>2, <2>3 DEF Add2GroupSteps, DelFromGroupSteps
<1>10. CASE k = "reset" /\ s = ResetSteps
  <2>1. i \in 1..4 /\ Len(s) = 4
    BY <1>4, <1>10 DEF ResetSteps
  <2> QED BY <1>3, <1>4, <1>10, <2>1 DEF ResetSteps
<1>11. CASE k = "control" /\ s = ControlSteps
  <2>1. i \in 1..2 /\ Len(s) = 2
    BY <1>4, <1>11 DEF ControlSteps
  <2> QED BY <1>3, <1>4, <1>11, <2>1 DEF ControlSteps
<1>12. CASE k = "config" /\ s = DeviceConfigSteps
  <2>1. i \in 1..2 /\ Len(s) = 2
    BY <1>4, <1>12 DEF DeviceConfigSteps
  <2> QED BY <1>3, <1>4, <1>12, <2>1 DEF DeviceConfigSteps
<1>13. CASE k = "report" /\ s = ReportSteps
  <2>1. i = 1 /\ Len(s) = 1
    BY <1>4, <1>13 DEF ReportSteps
  <2> QED BY <1>3, <1>4, <1>13, <2>1 DEF ReportSteps
<1>14. CASE k = "save" /\ s = SaveListSteps
  <2>1. i = 1 /\ Len(s) = 1
    BY <1>4, <1>14 DEF SaveListSteps
  <2> QED BY <1>3, <1>4, <1>14, <2>1 DEF SaveListSteps
<1>15. s # <<>>
  <2>1. Len(s) # 0
    OBVIOUS
  <2> QED BY <2>1
<1> QED BY <1>1, <1>5, <1>6, <1>7, <1>8, <1>9, <1>10, <1>11, <1>12, <1>13, <1>14, <1>15
        DEF ProgramsOf, Kinds, Listing

-----------------------------------------------------------------------------
(* Types.                                                                   *)

At(t, step) == Busy(t) /\ Head(todo[t]) = step

\* One binding at a time, and an address left for it.
OneBinder ==
    \A t \in Thread : Busy(t) /\ job[t].kind = "bind" =>
       /\ t \in Worker
       /\ \A u \in Worker : Busy(u) /\ job[u].kind = "bind" => u = t
       /\ At(t, "getAddress") => index <= MaxBinds

\* The lists that have been read to be written back.
ReadType ==
    /\ DOMAIN read = Thread
    /\ \A t \in Thread :
          /\ At(t, "saveStatusListData") => IsList(read[t], Power)
          /\ At(t, "saveDeviceListData") /\ job[t].kind = "config" => IsList(read[t], GroupInfo)

\* Who works on a device has been told one; an unbinding perhaps not.
JobDevice ==
    \A t \in Thread : job[t].kind \in {"bind", "force", "group", "report"} => job[t].device \in Device

TypeInv == TypeOK /\ LockInv /\ OnCourse /\ OneBinder /\ ReadType /\ JobDevice

\* What an operation that begins is, and what it has been told.
BeginsAs(t, s, k, d, a, v) ==
    /\ Begin(t, s, k, d, a, v)
    /\ k # "none"
    /\ k = "bind" => t \in Worker /\ ~BindingFlag /\ index <= MaxBinds
    /\ k \in {"bind", "force", "group", "report"} => d \in Device
    /\ k = "control" => a = NoAddress \/ (SnFree /\ \E x \in Device : a = snAddrMap[x])

LEMMA BeginsWith ==
    ASSUME TypeOK, BeginSome
    PROVE  \E t \in Thread, k \in Kinds, d \in Device \cup {NoDevice},
              a \in Address \cup {NoAddress}, v \in Power :
              \E s \in ProgramsOf(k) : BeginsAs(t, s, k, d, a, v)
<1> DEFINE Goal == \E t \in Thread, k \in Kinds, d \in Device \cup {NoDevice},
                      a \in Address \cup {NoAddress}, v \in Power :
                      \E s \in ProgramsOf(k) : BeginsAs(t, s, k, d, a, v)
<1>1. /\ PackageThread \in Thread /\ Worker \subseteq Thread
      /\ "on" \in Power /\ NoAddress \in Address \cup {NoAddress}
      /\ \A d \in Device : snAddrMap[d] \in Address \cup {NoAddress}
  BY DEF Thread, Power, TypeOK
<1>2. ASSUME NEW t \in Worker, NEW d \in Device, NEW ok \in BOOLEAN, Bind(t, d, ok)
      PROVE  Goal
  <2>1. BindSteps(ok) \in ProgramsOf("bind") /\ "bind" \in Kinds
    <3>1. CASE ok = TRUE
      BY <3>1 DEF ProgramsOf, Kinds, Listing
    <3>2. CASE ok = FALSE
      BY <3>2 DEF ProgramsOf, Kinds, Listing
    <3> QED BY <3>1, <3>2
  <2>2. BeginsAs(t, BindSteps(ok), "bind", d, NoAddress, "on")
    BY <1>2 DEF Bind, BeginsAs
  <2> QED BY <1>1, <2>1, <2>2
<1>3. ASSUME NEW t \in Worker, NEW d \in Device, UnbindForce(t, d)
      PROVE  Goal
  <2>1. UnbindForceSteps \in ProgramsOf("force") /\ "force" \in Kinds
    BY DEF ProgramsOf, Kinds, Listing
  <2>2. BeginsAs(t, UnbindForceSteps, "force", d, NoAddress, "on")
    BY <1>3 DEF UnbindForce, BeginsAs
  <2> QED BY <1>1, <2>1, <2>2
<1>4. ASSUME NEW t \in Worker, NEW d \in Device, ControlDevice(t, d)
      PROVE  Goal
  <2>1. ControlSteps \in ProgramsOf("control") /\ "control" \in Kinds
    BY DEF ProgramsOf, Kinds, Listing
  <2>2. BeginsAs(t, ControlSteps, "control", d, snAddrMap[d], "on")
    BY <1>4 DEF ControlDevice, BeginsAs
  <2> QED BY <1>1, <2>1, <2>2
<1>5. ASSUME NEW t \in Worker, NEW d \in Device, NEW s \in {Add2GroupSteps, DelFromGroupSteps},
             ChangeGroup(t, d, s)
      PROVE  Goal
  <2>1. s \in ProgramsOf("group") /\ "group" \in Kinds
    BY DEF ProgramsOf, Kinds, Listing
  <2>2. BeginsAs(t, s, "group", d, NoAddress, "on")
    BY <1>5 DEF ChangeGroup, BeginsAs
  <2> QED BY <1>1, <2>1, <2>2
<1>6. ASSUME NEW t \in Worker, ControlGroup(t)
      PROVE  Goal
  <2>1. ControlSteps \in ProgramsOf("control") /\ "control" \in Kinds
    BY DEF ProgramsOf, Kinds, Listing
  <2>2. BeginsAs(t, ControlSteps, "control", NoDevice, NoAddress, "on")
    BY <1>6 DEF ControlGroup, BeginsAs
  <2> QED BY <1>1, <2>1, <2>2
<1>7. ASSUME NEW t \in Worker, ResetDevice(t)
      PROVE  Goal
  <2>1. ResetSteps \in ProgramsOf("reset") /\ "reset" \in Kinds
    BY DEF ProgramsOf, Kinds, Listing
  <2>2. BeginsAs(t, ResetSteps, "reset", NoDevice, NoAddress, "on")
    BY <1>7 DEF ResetDevice, BeginsAs
  <2> QED BY <1>1, <2>1, <2>2
<1>8. ASSUME NEW t \in Worker, DeviceConfig(t)
      PROVE  Goal
  <2>1. DeviceConfigSteps \in ProgramsOf("config") /\ "config" \in Kinds
    BY DEF ProgramsOf, Kinds, Listing
  <2>2. BeginsAs(t, DeviceConfigSteps, "config", NoDevice, NoAddress, "on")
    BY <1>8 DEF DeviceConfig, BeginsAs
  <2> QED BY <1>1, <2>1, <2>2
<1>11. ASSUME NEW t \in Worker, SaveDeviceList(t)
      PROVE  Goal
  <2>1. SaveListSteps \in ProgramsOf("save") /\ "save" \in Kinds
    BY DEF ProgramsOf, Kinds, Listing
  <2>2. BeginsAs(t, SaveListSteps, "save", NoDevice, NoAddress, "on")
    BY <1>11 DEF SaveDeviceList, BeginsAs
  <2> QED BY <1>1, <2>1, <2>2
<1>9. ASSUME NEW a \in Address, UnBindResult(a)
      PROVE  Goal
  <2>1. UnbindSteps \in ProgramsOf("unbind") /\ "unbind" \in Kinds
    BY DEF ProgramsOf, Kinds, Listing
  <2>2. BeginsAs(PackageThread, UnbindSteps, "unbind", Address2DeviceSn(a), a, "on")
    BY <1>9 DEF UnBindResult, BeginsAs
  <2>3. Address2DeviceSn(a) \in Device \cup {NoDevice}
    BY DEF Address2DeviceSn
  <2> QED BY <1>1, <2>1, <2>2, <2>3
<1>10. ASSUME NEW d \in Device, NEW v \in Power, StatusReport(d, v)
      PROVE  Goal
  <2>1. ReportSteps \in ProgramsOf("report") /\ "report" \in Kinds
    BY DEF ProgramsOf, Kinds, Listing
  <2>2. BeginsAs(PackageThread, ReportSteps, "report", d, NoAddress, v)
    BY <1>10 DEF StatusReport, BeginsAs
  <2> QED BY <1>1, <2>1, <2>2
<1> HIDE DEF Goal
<1> QED BY <1>2, <1>3, <1>4, <1>5, <1>6, <1>7, <1>8, <1>9, <1>10, <1>11 DEF BeginSome, Goal

\* A call changes nobody's job, and what one thread has still to do.
LEMMA CallFrame ==
    ASSUME NEW t \in Thread, Calls(t)
    PROVE  /\ Busy(t) /\ ~Waiting(t) /\ job' = job /\ ops' = ops
           /\ \/ todo' = [todo EXCEPT ![t] = Tail(todo[t])]
              \/ /\ Head(todo[t]) = "deleteDeviceSn"
                 /\ todo' = [todo EXCEPT ![t] = Tail(Tail(todo[t]))]
<1> USE DEF Call, Whole, Enter, Exit, locals
<1>1. CASE DeleteNoDeviceSn(t)
  BY <1>1 DEF DeleteNoDeviceSn
<1>2. CASE ReadList(t, "getStatusListData", statusListData) \/ ReadDeviceList(t)
  BY <1>2 DEF ReadDeviceList, ReadList
<1>3. CASE \/ GetAddress(t) \/ DeleteDeviceSn(t) \/ SaveSnAddrData(t)
           \/ (\E step \in GroupSteps : ChangeGroups(t, step)) \/ SaveGroupListData(t)
           \/ (\E step \in DeviceSteps : ChangeDevices(t, step))
  BY <1>3 DEF GetAddress, DeleteDeviceSn, SaveSnAddrData, ChangeGroups,
              SaveGroupListData, ChangeDevices
<1>4. CASE \/ DeleteStatusItem(t) \/ UpdateStatusListData(t) \/ SaveStatusListData(t)
           \/ SaveDeviceListData(t) \/ ClearSnAddressData(t) \/ ClearGroupList(t)
           \/ ClearStatusList(t) \/ StoreLuminance(t) \/ StoreDevGrpStatus2File(t)
  BY <1>4 DEF DeleteStatusItem, UpdateStatusListData, SaveStatusListData,
              SaveDeviceListData, ClearSnAddressData, ClearGroupList, ClearStatusList,
              StoreLuminance, StoreDevGrpStatus2File
<1> QED BY <1>1, <1>2, <1>3, <1>4 DEF Calls

\* Only the two calls that read a list keep it.
LEMMA CallReads ==
    ASSUME NEW t \in Thread, Calls(t)
    PROVE  \/ /\ Head(todo[t]) \notin {"getStatusListData", "getDeviceListData"}
              /\ read' = read
           \/ /\ Head(todo[t]) = "getStatusListData"
              /\ read' = [read EXCEPT ![t] = statusListData]
           \/ /\ Head(todo[t]) = "getDeviceListData"
              /\ \E list \in NewDeviceLists : read' = [read EXCEPT ![t] = list]
<1> USE DEF Call, Whole, Enter, Exit, locals
<1>1. CASE DeleteNoDeviceSn(t)
  BY <1>1 DEF DeleteNoDeviceSn
<1>2. CASE ReadList(t, "getStatusListData", statusListData) \/ ReadDeviceList(t)
  BY <1>2 DEF ReadDeviceList, ReadList
<1>3. CASE \/ GetAddress(t) \/ DeleteDeviceSn(t) \/ SaveSnAddrData(t)
           \/ (\E step \in GroupSteps : ChangeGroups(t, step)) \/ SaveGroupListData(t)
           \/ (\E step \in DeviceSteps : ChangeDevices(t, step))
  BY <1>3 DEF GetAddress, DeleteDeviceSn, SaveSnAddrData, ChangeGroups,
              SaveGroupListData, ChangeDevices, GroupSteps, DeviceSteps
<1>4. CASE \/ DeleteStatusItem(t) \/ UpdateStatusListData(t) \/ SaveStatusListData(t)
           \/ SaveDeviceListData(t) \/ ClearSnAddressData(t) \/ ClearGroupList(t)
           \/ ClearStatusList(t) \/ StoreLuminance(t) \/ StoreDevGrpStatus2File(t)
  BY <1>4 DEF DeleteStatusItem, UpdateStatusListData, SaveStatusListData,
              SaveDeviceListData, ClearSnAddressData, ClearGroupList, ClearStatusList,
              StoreLuminance, StoreDevGrpStatus2File
<1> QED BY <1>1, <1>2, <1>3, <1>4 DEF Calls

LEMMA WholeCourse ==
    ASSUME NEW k \in Kinds, NEW s \in ProgramsOf(k)
    PROVE  CourseOf(k, s)
<1>1. s \in Seq(Steps)
  BY ProgramsAre
<1>2. 1 \in 1..(Len(s) + 1) /\ s = SubSeq(s, 1, Len(s))
  BY <1>1
<1> QED BY <1>2 DEF CourseOf, Rest

LEMMA NoCourse ==
    CourseOf("none", <<>>) /\ NoJob.kind = "none"
<1>1. <<>> \in ProgramsOf("none") /\ "none" \in Kinds
  BY DEF ProgramsOf, Kinds
<1> QED BY <1>1, WholeCourse DEF NoJob

LEMMA CourseBegin ==
    ASSUME TypeOK, OnCourse, NEW t \in Thread, NEW k \in Kinds, NEW s \in ProgramsOf(k),
           NEW d, NEW a, NEW v, Begin(t, s, k, d, a, v)
    PROVE  OnCourse'
<1>1. job' = [job EXCEPT ![t] = [kind |-> k, device |-> d, address |-> a, value |-> v]]
      /\ todo' = [todo EXCEPT ![t] = s]
  BY DEF Begin
<1>2. job'[t].kind = k /\ todo'[t] = s /\ CourseOf(k, s)
  BY <1>1, WholeCourse DEF TypeOK
<1>3. \A u \in Thread : u # t => job'[u] = job[u] /\ todo'[u] = todo[u]
  BY <1>1 DEF TypeOK
<1> QED BY <1>2, <1>3 DEF OnCourse, CourseOf

\* A thread that has a call to make is on the course of its kind.
LEMMA CourseOfThread ==
    ASSUME TypeOK, OnCourse, NEW t \in Thread
    PROVE  job[t].kind \in Kinds /\ CourseOf(job[t].kind, todo[t])
BY DEF OnCourse, TypeOK, Kinds

LEMMA CourseCall ==
    ASSUME TypeOK, OnCourse, NEW t \in Thread, Calls(t)
    PROVE  OnCourse'
<1> DEFINE k == job[t].kind
           r == todo[t]
<1>1. k \in Kinds /\ CourseOf(k, r) /\ r # <<>>
  BY CourseOfThread, CallFrame DEF Busy
<1>2. CourseOf(k, Tail(r))
  BY <1>1, CourseTable
<1>3. Head(r) = "deleteDeviceSn" => CourseOf(k, Tail(Tail(r)))
  BY <1>1, <1>2, CourseTable DEF NextIs
<1>4. CourseOf(k, todo'[t]) /\ \A u \in Thread : u # t => todo'[u] = todo[u]
  BY <1>2, <1>3, CallFrame DEF TypeOK
<1>5. job' = job
  BY CallFrame
<1> QED BY <1>4, <1>5 DEF OnCourse, CourseOf

LEMMA ListOperators ==
    ASSUME NEW f, NEW values, IsList(f, values), NEW d
    PROVE  /\ \A v \in values : IsList(Overwrite(f, d, v), values)
           /\ d \in Device => \A v \in values : IsList(Put(f, d, v), values)
           /\ IsList(Drop(f, d), values) /\ IsList(NoList, values)
<1>1. ASSUME NEW v \in values
      PROVE  IsList(Overwrite(f, d, v), values)
  BY <1>1 DEF IsList, Overwrite
<1>2. ASSUME d \in Device, NEW v \in values
      PROVE  IsList(Put(f, d, v), values)
  BY <1>2 DEF IsList, Put
<1>3. IsList(Drop(f, d), values) /\ IsList(NoList, values)
  BY DEF IsList, Drop, NoList
<1> QED BY <1>1, <1>2, <1>3

\* What every call leaves typed without looking at it.
LEMMA TypeCall ==
    ASSUME TypeInv, NEW t \in Thread, Calls(t), LockType'
    PROVE  TypeOK'
<1> DEFINE d == job[t].device
           h == Head(todo[t])
<1> USE DEF TypeInv
<1>1. /\ job' = job /\ ops' = ops /\ Busy(t) /\ ~Waiting(t)
      /\ job[t].device \in Device \cup {NoDevice} /\ job[t].value \in Power
      /\ job[t].address \in Address \cup {NoAddress}
      /\ job[t].kind \in Kinds /\ CourseOf(job[t].kind, todo[t]) /\ todo[t] # <<>>
  BY CallFrame, CourseOfThread DEF TypeOK, Busy
<1>2. CASE GetAddress(t)
  <2>1. h = "getAddress" /\ job[t].kind = "bind"
    BY <1>1, <1>2, CourseTable DEF GetAddress, Enter, Call
  <2>2. index \in Address /\ index + 1 \in 1..(MaxBinds + 1)
    BY <1>1, <2>1, BoundAssumption DEF OneBinder, At, TypeOK, Address
  <2>3. snAddrMap' \in [Device -> Address \cup {NoAddress}]
    BY <1>2, <2>2 DEF GetAddress, TypeOK
  <2>4. orphaned' \subseteq Address
    <3>1. d \in Device
      BY <1>1, <2>1 DEF JobDevice
    <3> QED BY <1>2, <3>1 DEF GetAddress, TypeOK
  <2> QED BY <1>1, <1>2, <2>2, <2>3, <2>4
          DEF GetAddress, Enter, Call, TypeOK, LockType, locals, lists, files, snFile
<1>3. CASE DeleteDeviceSn(t)
  <2>1. snAddrMap' \in [Device -> Address \cup {NoAddress}]
    BY <1>3 DEF DeleteDeviceSn, TypeOK
  <2>2. orphaned' \subseteq Address
    BY <1>1, <1>3 DEF DeleteDeviceSn, HasSn, TypeOK
  <2> QED BY <1>1, <1>3, <2>1, <2>2
          DEF DeleteDeviceSn, Enter, Call, TypeOK, LockType, locals, lists, files, snFile
<1>4. CASE DeleteNoDeviceSn(t)
  BY <1>1, <1>4 DEF DeleteNoDeviceSn, TypeOK, LockType, locals, sn, lists, files, snFile, history
<1>5. CASE SaveSnAddrData(t)
  BY <1>1, <1>5 DEF SaveSnAddrData, Exit, Call, TypeOK, LockType, locals, sn, lists, history
<1>6. ASSUME NEW step \in GroupSteps, ChangeGroups(t, step)
      PROVE  TypeOK'
  <2>1. h = step /\ (step = "addDevice2Group" => d \in Device)
    BY <1>1, <1>6, CourseTable DEF ChangeGroups, Enter, Call, JobDevice
  <2>2. groupAddrMap' \subseteq Device
    BY <1>6, <2>1 DEF ChangeGroups, Groups, TypeOK
  <2>3. strays' \subseteq Device
    BY <1>6, <2>2 DEF ChangeGroups, TypeOK
  <2> QED BY <1>1, <1>6, <2>2, <2>3
          DEF ChangeGroups, Enter, Call, TypeOK, LockType, locals, sn, lists, files, snFile
<1>7. CASE SaveGroupListData(t)
  BY <1>1, <1>7
     DEF SaveGroupListData, Exit, Call, TypeOK, LockType, locals, sn, lists, snFile, history
<1>8. ASSUME NEW step \in DeviceSteps, ChangeDevices(t, step)
      PROVE  TypeOK'
  <2>1. h = step /\ (step = "insertDeviceItem" => d \in Device)
    BY <1>1, <1>8, CourseTable DEF ChangeDevices, Whole, Call, JobDevice
  <2>2. {"alone", "grouped"} \subseteq GroupInfo /\ IsList(deviceListData, GroupInfo)
    BY DEF GroupInfo, TypeOK
  <2>3. IsList(deviceListData', GroupInfo)
    BY <1>8, <2>1, <2>2, ListOperators DEF ChangeDevices, Devices, DeviceSteps
  <2>4. strays' \subseteq Device
    BY <1>8 DEF ChangeDevices, TypeOK
  <2> QED BY <1>1, <1>8, <2>3, <2>4
          DEF ChangeDevices, Whole, Call, TypeOK, LockType, locals, sn, files, snFile
<1>9. CASE DeleteStatusItem(t)
  <2>1. IsList(statusListData', Power)
    BY <1>9, ListOperators DEF DeleteStatusItem, TypeOK
  <2> QED BY <1>1, <1>9, <2>1
          DEF DeleteStatusItem, Whole, Call, TypeOK, LockType, locals, sn, files, snFile, history
<1>10. CASE UpdateStatusListData(t)
  <2>1. IsList(statusListData', Power) /\ reported' \in [Device -> Power]
    BY <1>1, <1>10, ListOperators DEF UpdateStatusListData, TypeOK
  <2> QED BY <1>1, <1>10, <2>1
          DEF UpdateStatusListData, Whole, Call, TypeOK, LockType, locals, sn, files, snFile
<1>11. CASE ReadList(t, "getStatusListData", statusListData)
  <2>1. \A u \in Thread : IsList(read'[u], GroupInfo \cup Power)
    BY <1>11 DEF ReadList, TypeOK, IsList
  <2> QED BY <1>1, <1>11, <2>1 DEF ReadList, TypeOK, LockType, sn, lists, files, snFile, history
<1>12. CASE ReadDeviceList(t)
  <2>1. PICK list \in NewDeviceLists : ReadList(t, "getDeviceListData", list)
    BY <1>12 DEF ReadDeviceList
  <2>2. IsList(list, GroupInfo)
    BY ListOperators DEF NewDeviceLists, TypeOK
  <2>3. \A u \in Thread : IsList(read'[u], GroupInfo \cup Power)
    BY <2>1, <2>2 DEF ReadList, TypeOK, IsList
  <2> QED BY <1>1, <2>1, <2>3 DEF ReadList, TypeOK, LockType, sn, lists, files, snFile, history
<1>13. CASE SaveStatusListData(t)
  <2>1. At(t, "saveStatusListData") /\ d \in Device
    BY <1>1, <1>13, CourseTable DEF SaveStatusListData, Whole, Call, JobDevice, At
  <2>2. IsList(statusListData', Power)
    BY <1>13, <2>1, ListOperators DEF SaveStatusListData, ReadType, Power
  <2>3. reported' \in [Device -> Power] /\ disturbed' \subseteq Device
    BY <1>13 DEF SaveStatusListData, TypeOK, Power, Differ
  <2> QED BY <1>1, <1>13, <2>2, <2>3
          DEF SaveStatusListData, Whole, Call, TypeOK, LockType, locals, sn, files, snFile
<1>14. CASE SaveDeviceListData(t)
  <2>1. At(t, "saveDeviceListData")
    BY <1>14 DEF SaveDeviceListData, Whole, Call, At
  <2>2. IsList(deviceListData', GroupInfo)
    BY <1>1, <1>14, <2>1, CourseTable
       DEF SaveDeviceListData, SavedLists, ClientLists, ReadType, IsList, At
  <2>3. disturbed' \subseteq Device
    BY <1>14 DEF SaveDeviceListData, TypeOK, Differ
  <2> QED BY <1>1, <1>14, <2>2, <2>3
          DEF SaveDeviceListData, Whole, Call, TypeOK, LockType, locals, sn, files, snFile
<1>15. CASE ClearSnAddressData(t)
  <2>1. indexData' \in 1..(MaxBinds + 1) /\ snAddressData' \in [Device -> Address \cup {NoAddress}]
    BY <1>15, BoundAssumption DEF ClearSnAddressData
  <2>2. orphaned' \subseteq Address
    BY <1>15 DEF ClearSnAddressData, TypeOK
  <2> QED BY <1>1, <1>15, <2>1, <2>2
          DEF ClearSnAddressData, Whole, Call, TypeOK, LockType, locals, sn, lists
<1>16. CASE ClearGroupList(t)
  BY <1>1, <1>16
     DEF ClearGroupList, Whole, Call, TypeOK, LockType, locals, sn, lists, snFile, history
<1>17. CASE ClearStatusList(t)
  <2>1. IsList(statusListData', Power)
    BY <1>17, ListOperators DEF ClearStatusList, TypeOK
  <2> QED BY <1>1, <1>17, <2>1
          DEF ClearStatusList, Whole, Call, TypeOK, LockType, locals, sn, files, snFile, history
<1>18. CASE StoreLuminance(t)
  <2>1. devGrpValueMap' \subseteq Address
    BY <1>1, <1>18 DEF StoreLuminance, TypeOK
  <2> QED BY <1>1, <1>18, <2>1
          DEF StoreLuminance, Enter, Call, TypeOK, LockType, locals, sn, lists, files, snFile, history
<1>19. CASE StoreDevGrpStatus2File(t)
  <2>1. Levels \subseteq [address : Address, device : Device \cup {NoDevice}]
    <3>1. \A a \in StoredLevels : a \in Address /\ Address2DeviceSn(a) \in Device \cup {NoDevice}
      BY DEF StoredLevels, TypeOK, Address2DeviceSn
    <3> QED BY <3>1 DEF Levels
  <2> QED BY <1>1, <1>19, <2>1
          DEF StoreDevGrpStatus2File, Exit, Call, TypeOK, LockType, locals, sn, lists, snFile, history
<1> QED BY <1>2, <1>3, <1>4, <1>5, <1>6, <1>7, <1>8, <1>9, <1>10, <1>11, <1>12, <1>13,
           <1>14, <1>15, <1>16, <1>17, <1>18, <1>19 DEF Calls

\* The call before a call.
LEMMA CourseBefore ==
    ASSUME NEW k \in Kinds, NEW r \in Seq(Steps), r # <<>>, CourseOf(k, r), Tail(r) # <<>>
    PROVE  LET n == Head(Tail(r))
           IN  /\ n # "getAddress"
               /\ n = "saveStatusListData" => Head(r) = "getStatusListData"
               /\ n = "saveDeviceListData" => Head(r) = "getDeviceListData"
               /\ n = "insertGroupInfo" => Head(r) = "saveGroupListData"
<1>1. Head(r) \in Steps
  OBVIOUS
<1>2. CASE Head(r) \in SnSteps \cup GroupSteps \cup DeviceSteps
  BY <1>2, CourseTable DEF NextIs, SnSteps, GroupSteps, DeviceSteps
<1>3. CASE Head(r) \notin SnSteps \cup GroupSteps \cup DeviceSteps
  BY <1>1, <1>3, CourseTable DEF NextIs, Steps
<1> QED BY <1>2, <1>3

\* Where a thread comes to by a call.
LEMMA CallComesTo ==
    ASSUME TypeInv, NEW t \in Thread, Calls(t)
    PROVE  /\ ~At(t, "getAddress")'
           /\ At(t, "saveStatusListData")' => Head(todo[t]) = "getStatusListData"
           /\ At(t, "saveDeviceListData")' => Head(todo[t]) = "getDeviceListData"
           /\ At(t, "insertGroupInfo")' => Head(todo[t]) = "saveGroupListData"
           /\ \A u \in Thread : u # t => todo'[u] = todo[u]
<1> DEFINE k == job[t].kind
           r == todo[t]
<1>1. /\ k \in Kinds /\ CourseOf(k, r) /\ r # <<>> /\ r \in Seq(Steps)
      /\ Tail(r) \in Seq(Steps)
  <2>1. k \in Kinds /\ CourseOf(k, r)
    BY CourseOfThread DEF TypeInv
  <2>2. r # <<>> /\ r \in Seq(Steps)
    BY CallFrame DEF Busy, TypeInv, TypeOK
  <2> HIDE DEF k, r
  <2>3. Tail(r) \in Seq(Steps)
    BY <2>2
  <2> QED BY <2>1, <2>2, <2>3
<1>2. \A u \in Thread : u # t => todo'[u] = todo[u]
  BY CallFrame DEF TypeInv, TypeOK
<1>3. CASE todo'[t] = Tail(r)
  <2>1. Tail(r) # <<>> =>
          /\ Head(Tail(r)) # "getAddress"
          /\ Head(Tail(r)) = "saveStatusListData" => Head(r) = "getStatusListData"
          /\ Head(Tail(r)) = "saveDeviceListData" => Head(r) = "getDeviceListData"
          /\ Head(Tail(r)) = "insertGroupInfo" => Head(r) = "saveGroupListData"
    BY <1>1, CourseBefore
  <2> QED BY <1>2, <1>3, <2>1 DEF At, Busy
<1>4. CASE Head(r) = "deleteDeviceSn" /\ todo'[t] = Tail(Tail(r))
  <2>1. CourseOf(k, Tail(r)) /\ NextIs(r, "saveSnAddrData")
    BY <1>1, <1>4, CourseTable
  <2>2. Tail(r) # <<>> /\ Head(Tail(r)) = "saveSnAddrData"
    BY <2>1 DEF NextIs
  <2>3. Tail(Tail(r)) # <<>> =>
          /\ Head(Tail(Tail(r))) # "getAddress"
          /\ Head(Tail(Tail(r))) \notin
                {"saveStatusListData", "saveDeviceListData", "insertGroupInfo"}
    BY <1>1, <2>1, <2>2, CourseBefore
  <2> QED BY <1>2, <1>4, <2>3 DEF At, Busy
<1>5. todo'[t] = Tail(r) \/ (Head(r) = "deleteDeviceSn" /\ todo'[t] = Tail(Tail(r)))
  BY CallFrame DEF TypeInv, TypeOK
<1> QED BY <1>3, <1>4, <1>5

LEMMA TypeInvCall ==
    ASSUME TypeInv, NEW t \in Thread, Calls(t), LockInv'
    PROVE  TypeInv'
<1>1. TypeOK'
  BY TypeCall DEF LockInv
<1>2. OnCourse'
  BY CourseCall DEF TypeInv
<1>3. job' = job /\ Busy(t)
  BY CallFrame
<1>4. JobDevice'
  BY <1>3 DEF JobDevice, TypeInv
<1>5. \A u \in Thread : u # t => todo'[u] = todo[u] /\ (Busy(u)' <=> Busy(u))
  BY CallComesTo DEF Busy
<1>6. \A u \in Thread : \A step : u # t => (At(u, step)' <=> At(u, step))
  BY <1>5 DEF At
<1>7. \A u \in Thread : Busy(u)' => Busy(u)
  BY <1>3, <1>5
<1>8. OneBinder'
  <2> SUFFICES ASSUME NEW u \in Thread, Busy(u)', job[u].kind = "bind"
               PROVE  /\ u \in Worker
                      /\ \A w \in Worker : Busy(w)' /\ job[w].kind = "bind" => w = u
                      /\ At(u, "getAddress")' => index' <= MaxBinds
    BY <1>3 DEF OneBinder
  <2>1. /\ u \in Worker /\ \A w \in Worker : Busy(w) /\ job[w].kind = "bind" => w = u
        /\ At(u, "getAddress") => index <= MaxBinds
    BY <1>7 DEF OneBinder, TypeInv
  <2>2. \A w \in Worker : w \in Thread
    BY DEF Thread
  <2>3. CASE GetAddress(t)
    <3>1. Head(todo[t]) = "getAddress" /\ todo[t] # <<>>
      BY <2>3 DEF GetAddress, Enter, Call, Busy
    <3>2. job[t].kind = "bind"
      BY <3>1, CourseOfThread, CourseTable DEF TypeInv
    <3>3. t \in Worker
      BY <1>3, <3>2 DEF OneBinder, TypeInv
    <3>4. u = t
      BY <1>3, <2>1, <3>2, <3>3
    <3> QED BY <1>7, <2>1, <2>2, <3>4, CallComesTo
  <2>4. CASE ~GetAddress(t)
    <3>1. index' = index
      BY <2>4 DEF Calls, DeleteDeviceSn, DeleteNoDeviceSn, SaveSnAddrData, ChangeGroups,
         SaveGroupListData, ChangeDevices, DeleteStatusItem, UpdateStatusListData, ReadList,
         ReadDeviceList, SaveStatusListData, SaveDeviceListData, ClearSnAddressData, ClearGroupList,
         ClearStatusList, StoreLuminance, StoreDevGrpStatus2File, sn
    <3> QED BY <1>6, <1>7, <2>1, <2>2, <3>1, CallComesTo
  <2> QED BY <2>3, <2>4
<1>9. ReadType'
  <2>1. DOMAIN read = Thread /\ IsList(statusListData, Power) /\ IsList(deviceListData, GroupInfo)
    BY DEF TypeInv, TypeOK, ReadType
  <2>2. DOMAIN read' = Thread /\ \A u \in Thread : u # t => read'[u] = read[u]
    BY <2>1, CallReads
  <2>3. /\ Head(todo[t]) = "getStatusListData" => read'[t] = statusListData
        /\ Head(todo[t]) = "getDeviceListData" => read'[t] \in NewDeviceLists
    BY <2>1, CallReads
  <2>4. ASSUME NEW u \in Thread
        PROVE  /\ At(u, "saveStatusListData")' => IsList(read'[u], Power)
               /\ At(u, "saveDeviceListData")' /\ job[u].kind = "config" =>
                     IsList(read'[u], GroupInfo)
    <3>1. CASE u = t
      BY <2>1, <2>3, <3>1, CallComesTo, ListOperators DEF NewDeviceLists
    <3>2. CASE u # t
      BY <1>6, <2>2, <3>2 DEF ReadType, TypeInv
    <3> QED BY <3>1, <3>2
  <2> QED BY <1>3, <2>2, <2>4 DEF ReadType, IsList
<1> QED BY <1>1, <1>2, <1>4, <1>8, <1>9 DEF TypeInv

\* The call an operation begins with.
LEMMA ProgramHeads ==
    ASSUME NEW k \in Kinds, NEW s \in ProgramsOf(k), s # <<>>
    PROVE  /\ Head(s) \in {"getAddress", "deleteDeviceSn", "deleteDeviceItem", "clearSnAddressData",
                        "addDevice2Group", "removeDeviceFromGroup", "storeLuminance",
                        "getDeviceListData", "updateStatusListData", "saveDeviceListData"}
           /\ Head(s) = "saveDeviceListData" => k = "save"
<1>1. s = <<>> \/ s \in Programs
  BY ProgramsAre
<1>2. Head(BindSteps(TRUE)) = "getAddress" /\ Head(BindSteps(FALSE)) = "getAddress"
  BY DEF BindSteps
<1>3. /\ Head(UnbindSteps) = "deleteDeviceSn"
      /\ Head(UnbindForceSteps) = "deleteDeviceItem"
      /\ Head(ResetSteps) = "clearSnAddressData"
  BY DEF UnbindSteps, UnbindForceSteps, ResetSteps
<1>4. /\ Head(Add2GroupSteps) = "addDevice2Group"
      /\ Head(DelFromGroupSteps) = "removeDeviceFromGroup"
      /\ Head(ControlSteps) = "storeLuminance"
      /\ Head(DeviceConfigSteps) = "getDeviceListData"
      /\ Head(SaveListSteps) = "saveDeviceListData"
      /\ Head(ReportSteps) = "updateStatusListData"
  BY DEF Add2GroupSteps, DelFromGroupSteps, ControlSteps, DeviceConfigSteps, SaveListSteps,
         ReportSteps
<1>5. Head(s) = "saveDeviceListData" => k = "save"
  <2>1. CourseOf(k, s)
    BY WholeCourse
  <2>2. Head(s) = "saveDeviceListData" => k \in {"config", "save"}
    BY <2>1, CourseTable
  <2>3. k = "config" => s = DeviceConfigSteps
    BY DEF ProgramsOf
  <2> QED BY <1>4, <2>2, <2>3
<1> QED BY <1>1, <1>2, <1>3, <1>4, <1>5 DEF Programs

LEMMA TypeInvInit ==
    ASSUME Init
    PROVE  TypeInv
<1>1. LockInv
  BY LockInvInit
<1>2. /\ NoJob \in [kind : Listing \cup {"none", "report", "control", "config", "save"},
                    device : Device \cup {NoDevice},
                    address : Address \cup {NoAddress}, value : Power]
      /\ \A values : IsList(NoList, values)
      /\ 1 \in 1..(MaxBinds + 1) /\ 0 \in 0..(MaxOps + 1)
  BY BoundAssumption DEF NoJob, Power, IsList, NoList
<1>3. TypeOK
  BY <1>1, <1>2 DEF Init, TypeOK, LockInv, LockType, Power
<1>4. /\ \A t \in Thread : ~Busy(t) /\ job[t] = NoJob
      /\ DOMAIN read = Thread
  BY DEF Init, Busy
<1>5. OnCourse
  BY <1>4, NoCourse DEF Init, OnCourse
<1> QED BY <1>1, <1>3, <1>4, <1>5, NoCourse DEF TypeInv, OneBinder, ReadType, JobDevice, At

LEMMA TypeInvBegin ==
    ASSUME TypeInv, BeginSome, LockInv'
    PROVE  TypeInv'
<1>1. PICK t \in Thread, k \in Kinds, d \in Device \cup {NoDevice},
           a \in Address \cup {NoAddress}, v \in Power :
           \E s \in ProgramsOf(k) : BeginsAs(t, s, k, d, a, v)
  BY BeginsWith DEF TypeInv
<1>2. PICK s \in ProgramsOf(k) : BeginsAs(t, s, k, d, a, v)
  BY <1>1
<1>3. Begin(t, s, k, d, a, v)
  BY <1>2 DEF BeginsAs
<1>4. OnCourse'
  BY <1>3, CourseBegin DEF TypeInv
<1>5. /\ job' = [job EXCEPT ![t] = [kind |-> k, device |-> d, address |-> a, value |-> v]]
      /\ todo' = [todo EXCEPT ![t] = s] /\ read' = read /\ index' = index
      /\ ~Busy(t)
  BY <1>3 DEF Begin, sn
<1>6. TypeOK'
  <2>1. ops' \in 0..(MaxOps + 1) /\ disturbed' \subseteq Device
    BY <1>3, BoundAssumption DEF Begin, TypeInv, TypeOK, Met
  <2>2. job' \in [Thread -> [kind : Listing \cup {"none", "report", "control", "config", "save"},
                            device : Device \cup {NoDevice},
                            address : Address \cup {NoAddress}, value : Power]]
    BY <1>5 DEF TypeInv, TypeOK, Kinds
  <2> QED BY <1>3, <2>1, <2>2
          DEF Begin, TypeInv, TypeOK, LockInv, LockType, sn, lists, files, snFile
<1>7. /\ job'[t].kind = k /\ job'[t].device = d /\ todo'[t] = s
      /\ \A u \in Thread : u # t =>
            job'[u] = job[u] /\ todo'[u] = todo[u] /\ (Busy(u)' <=> Busy(u))
  BY <1>5 DEF TypeInv, TypeOK, Busy
<1>8. \A u \in Thread : \A step : u # t => (At(u, step)' <=> At(u, step))
  BY <1>7 DEF At
<1>9. JobDevice'
  BY <1>2, <1>7 DEF JobDevice, TypeInv, BeginsAs
<1>10. k = "bind" => t \in Worker /\ ~BindingFlag /\ index <= MaxBinds
  BY <1>2 DEF BeginsAs
<1>11. OneBinder'
  <2>1. Worker \subseteq Thread
    BY DEF Thread
  <2>2. CASE k = "bind"
    <3>1. \A u \in Thread : u # t => ~(Busy(u)' /\ job'[u].kind = "bind")
      BY <1>7, <1>10, <2>2 DEF BindingFlag, OneBinder, TypeInv
    <3> QED BY <1>5, <1>7, <1>10, <2>1, <2>2, <3>1 DEF OneBinder
  <2>3. CASE k # "bind"
    <3>1. \A u \in Thread : job'[u].kind = "bind" => u # t
      BY <1>7, <2>3
    <3> QED BY <1>5, <1>7, <1>8, <2>1, <3>1 DEF OneBinder, TypeInv
  <2> QED BY <2>2, <2>3
<1>12. ReadType'
  <2>1. s # <<>> => /\ Head(s) # "saveStatusListData"
                    /\ Head(s) = "saveDeviceListData" => k = "save"
    BY ProgramHeads
  <2>2. ~At(t, "saveStatusListData")' /\ (At(t, "saveDeviceListData")' => job'[t].kind = "save")
    BY <1>7, <2>1 DEF At, Busy
  <2> QED BY <1>5, <1>7, <1>8, <2>2 DEF ReadType, TypeInv, IsList
<1> QED BY <1>4, <1>6, <1>9, <1>11, <1>12 DEF TypeInv

LEMMA TypeInvRestart ==
    ASSUME TypeInv, Restart, LockInv'
    PROVE  TypeInv'
<1>1. /\ NoJob \in [kind : Listing \cup {"none", "report", "control", "config", "save"},
                    device : Device \cup {NoDevice},
                    address : Address \cup {NoAddress}, value : Power]
      /\ \A values : IsList(NoList, values)
  BY DEF NoJob, Power, IsList, NoList
<1>2. LoadedLevels \subseteq Address
  <2>1. ASSUME NEW e \in statusFile, HasAddress(e)
        PROVE  snAddressData[e.device] \in Address
    BY <2>1 DEF HasAddress, TypeInv, TypeOK
  <2>2. ASSUME NEW e \in statusFile, \A e2 \in statusFile : e2.address <= e.address => HasAddress(e2)
        PROVE  snAddressData[e.device] \in Address
    <3>1. e.address <= e.address
      BY DEF TypeInv, TypeOK, Address
    <3> QED BY <2>1, <2>2, <3>1
  <2> QED BY <2>2 DEF LoadedLevels
<1>3. ops' \in 0..(MaxOps + 1) /\ disturbed' \subseteq Device
  BY BoundAssumption DEF Restart, TypeInv, TypeOK
<1>4. TypeOK'
  BY <1>1, <1>2, <1>3 DEF Restart, TypeInv, TypeOK, LockInv, LockType, lists, files, snFile
<1>5. /\ \A t \in Thread : ~Busy(t)' /\ job'[t] = NoJob /\ todo'[t] = <<>>
      /\ DOMAIN read' = Thread
  BY DEF Restart, Busy
<1>6. OnCourse'
  BY <1>5, NoCourse DEF OnCourse, CourseOf
<1> QED BY <1>4, <1>5, <1>6, NoCourse DEF TypeInv, OneBinder, ReadType, JobDevice, At

LEMMA TypeInvStep ==
    ASSUME TypeInv, [Next]_vars
    PROVE  TypeInv'
<1>1. LockInv'
  BY LockInvStep DEF TypeInv
<1>2. CASE UNCHANGED vars
  BY <1>1, <1>2 DEF TypeInv, TypeOK, OnCourse, CourseOf, OneBinder, ReadType, JobDevice, At,
     Busy, IsList, vars, locals, sn, lists, snFile, files, history
<1> QED BY <1>1, <1>2, TypeInvBegin, TypeInvCall, TypeInvRestart DEF Next

\* Every variable of the BLE site's lists keeps its type: in particular the
\* two saves of a list read earlier write back a list of the same kind, and no
\* more addresses are given than there are.
THEOREM TypeCorrect == Spec => []TypeOK
<1>1. Init => TypeInv
  BY TypeInvInit
<1>2. TypeInv /\ [Next]_vars => TypeInv'
  BY TypeInvStep
<1>3. TypeInv => TypeOK
  BY DEF TypeInv
<1> QED BY <1>1, <1>2, <1>3, PTL DEF Spec

-----------------------------------------------------------------------------
(* Levels.                                                                  *)

\* No address has two devices.
Unshared(map) == \A d, e \in Device : map[d] = map[e] /\ map[d] # NoAddress => d = e

AddressInv ==
    /\ Unshared(snAddrMap) /\ Unshared(snAddressData)
    /\ \A d \in Device : snAddrMap[d] < index /\ snAddressData[d] < indexData

\* The next address is one that no level and no command to a device names.
NewAddress ==
    /\ \A a \in devGrpValueMap : a < index
    /\ \A t \in Thread : job[t].kind = "control" => job[t].address < index

\* The file of the addresses is as the map, or as a reset has left it, while
\* nobody is between changing the map and saving it.
SnFileInv ==
    owner["SnAddressMap"] = NoThread =>
       snAddressData = snAddrMap \/ \A d \in Device : snAddressData[d] = NoAddress

\* The device of every level that is stored is in the file of the levels,
\* while no level is being stored.
Stored ==
    owner["bleConfig"] = NoThread =>
       \A a \in StoredLevels, d \in Device :
          a \in {snAddrMap[d], snAddressData[d]} => \E e \in statusFile : e.device = d

LevelInv == TypeInv /\ AddressInv /\ NewAddress /\ SnFileInv /\ Stored

LEMMA LevelInvInit ==
    ASSUME Init
    PROVE  LevelInv
<1>1. TypeInv
  BY TypeInvInit
<1>2. \A t \in Thread : job[t].kind = "none"
  BY NoCourse DEF Init
<1> QED BY <1>1, <1>2
        DEF Init, LevelInv, AddressInv, Unshared, NewAddress, SnFileInv, Stored,
            StoredLevels, NoAddress

\* What the calls that are about neither addresses nor levels leave alone.
LevelFrame ==
    /\ UNCHANGED <<snAddrMap, index, snAddressData, indexData, devGrpValueMap, statusFile,
                   orphaned>>
    /\ owner'["SnAddressMap"] = owner["SnAddressMap"]
    /\ owner'["bleConfig"] = owner["bleConfig"]

LEMMA LevelFrameStep ==
    ASSUME LevelInv, TypeInv', LevelFrame,
           \A t \in Thread : job'[t].kind = "control" => job'[t].address < index
    PROVE  LevelInv'
BY DEF LevelInv, LevelFrame, AddressInv, Unshared, NewAddress, SnFileInv, Stored, StoredLevels

LEMMA LevelFrameCall ==
    ASSUME TypeInv, NEW t \in Thread, Calls(t)
    PROVE  \/ GetAddress(t) \/ DeleteDeviceSn(t) \/ SaveSnAddrData(t) \/ ClearSnAddressData(t)
           \/ StoreLuminance(t) \/ StoreDevGrpStatus2File(t)
           \/ LevelFrame
<1> USE DEF Call, Whole, Enter, Exit, LevelFrame, sn, snFile, files, history
<1>0. owner \in [Locks -> Thread \cup {NoThread}]
  BY DEF TypeInv, TypeOK
<1>1. ASSUME DeleteNoDeviceSn(t)
      PROVE  LevelFrame
  BY <1>1 DEF DeleteNoDeviceSn
<1>2. ASSUME NEW step, ChangeGroups(t, step)
      PROVE  LevelFrame
  BY <1>0, <1>2 DEF ChangeGroups, Locks
<1>3. ASSUME SaveGroupListData(t)
      PROVE  LevelFrame
  BY <1>0, <1>3 DEF SaveGroupListData, Locks
<1>4. ASSUME NEW step, ChangeDevices(t, step)
      PROVE  LevelFrame
  BY <1>4 DEF ChangeDevices
<1>5. ASSUME \/ DeleteStatusItem(t) \/ UpdateStatusListData(t)
             \/ SaveStatusListData(t) \/ SaveDeviceListData(t)
             \/ ClearGroupList(t) \/ ClearStatusList(t)
      PROVE  LevelFrame
  BY <1>5 DEF DeleteStatusItem, UpdateStatusListData, SaveStatusListData,
              SaveDeviceListData, ClearGroupList, ClearStatusList
<1>6. ASSUME NEW step, NEW list, ReadList(t, step, list)
      PROVE  LevelFrame
  BY <1>6 DEF ReadList
<1> QED BY <1>1, <1>2, <1>3, <1>4, <1>5, <1>6 DEF Calls, ReadDeviceList

\* The device of an address that one has.
LEMMA DeviceOfAddress ==
    ASSUME Unshared(snAddrMap), NEW d \in Device, snAddrMap[d] # NoAddress
    PROVE  Address2DeviceSn(snAddrMap[d]) = d
BY DEF Unshared, Address2DeviceSn

LEMMA LevelInvCall ==
    ASSUME LevelInv, NEW t \in Thread, Calls(t), TypeInv'
    PROVE  LevelInv'
<1>1. /\ job' = job /\ Busy(t) /\ ~Waiting(t) /\ todo[t] # <<>>
      /\ TypeInv /\ LockInv
      /\ job[t].kind \in Kinds /\ CourseOf(job[t].kind, todo[t])
  BY CallFrame, CourseOfThread DEF LevelInv, TypeInv, Busy
<1>2. /\ owner \in [Locks -> Thread \cup {NoThread}] /\ t # NoThread
      /\ "SnAddressMap" \in Locks /\ "bleConfig" \in Locks
      /\ index \in Nat /\ indexData \in Nat
      /\ snAddrMap \in [Device -> Nat] /\ snAddressData \in [Device -> Nat]
      /\ devGrpValueMap \subseteq Nat \ {0}
  <2>1. owner \in [Locks -> Thread \cup {NoThread}] /\ index \in Nat /\ indexData \in Nat
    BY <1>1, BoundAssumption DEF TypeInv, TypeOK
  <2>2. t # NoThread /\ "SnAddressMap" \in Locks /\ "bleConfig" \in Locks
    BY NamesAssumption DEF Locks, Thread
  <2>3. Address \subseteq Nat \ {0} /\ Address \cup {NoAddress} \subseteq Nat
    BY BoundAssumption DEF Address, NoAddress
  <2>4. /\ snAddrMap \in [Device -> Address \cup {NoAddress}]
        /\ snAddressData \in [Device -> Address \cup {NoAddress}]
        /\ devGrpValueMap \subseteq Address
    BY <1>1 DEF TypeInv, TypeOK
  <2> QED BY <2>1, <2>2, <2>3, <2>4
<1>3. CASE GetAddress(t)
  <2>1. /\ snAddrMap' = [snAddrMap EXCEPT ![job[t].device] = index] /\ index' = index + 1
        /\ UNCHANGED <<snAddressData, indexData, devGrpValueMap, statusFile>>
        /\ owner' = [owner EXCEPT !["SnAddressMap"] = t]
    BY <1>3 DEF GetAddress, Enter, files, snFile
  <2>2. /\ owner'["SnAddressMap"] = t /\ owner'["bleConfig"] = owner["bleConfig"]
        /\ \A d \in Device : snAddrMap'[d] = index \/ snAddrMap'[d] = snAddrMap[d]
    BY <1>2, <2>1 DEF Locks
  <2>3. AddressInv'
    BY <1>2, <2>1 DEF LevelInv, AddressInv, Unshared
  <2>4. NewAddress'
    <3>1. \A u \in Thread : job[u].address \in Nat
      BY <1>1, BoundAssumption DEF TypeInv, TypeOK, Address, NoAddress
    <3> QED BY <1>1, <1>2, <2>1, <3>1 DEF LevelInv, NewAddress
  <2>5. Stored'
    <3>1. index \notin devGrpValueMap
      BY <1>2 DEF LevelInv, NewAddress
    <3> QED BY <2>1, <2>2, <3>1 DEF LevelInv, Stored, StoredLevels
  <2> QED BY <1>2, <2>2, <2>3, <2>4, <2>5 DEF LevelInv, SnFileInv
<1>4. CASE DeleteDeviceSn(t)
  <2>1. /\ snAddrMap' = [snAddrMap EXCEPT ![job[t].device] = NoAddress] /\ index' = index
        /\ UNCHANGED <<snAddressData, indexData, devGrpValueMap, statusFile>>
        /\ owner' = [owner EXCEPT !["SnAddressMap"] = t]
    BY <1>4 DEF DeleteDeviceSn, Enter, files, snFile
  <2>2. /\ owner'["SnAddressMap"] = t /\ owner'["bleConfig"] = owner["bleConfig"]
        /\ \A d \in Device : snAddrMap'[d] = NoAddress \/ snAddrMap'[d] = snAddrMap[d]
    BY <1>2, <2>1 DEF Locks
  <2>3. AddressInv'
    <3>1. index > 0
      BY <1>1 DEF TypeInv, TypeOK
    <3> QED BY <1>2, <2>1, <2>2, <3>1 DEF LevelInv, AddressInv, Unshared, NoAddress
  <2>4. NewAddress'
    BY <1>1, <2>1 DEF LevelInv, NewAddress
  <2>5. Stored'
    BY <1>2, <2>1, <2>2 DEF LevelInv, Stored, StoredLevels, NoAddress
  <2> QED BY <1>2, <2>2, <2>3, <2>4, <2>5 DEF LevelInv, SnFileInv
<1>5. CASE SaveSnAddrData(t)
  <2>1. /\ snAddressData' = snAddrMap /\ indexData' = index
        /\ UNCHANGED <<snAddrMap, index, devGrpValueMap, statusFile>>
        /\ owner'["bleConfig"] = owner["bleConfig"]
    BY <1>2, <1>5 DEF SaveSnAddrData, Exit, sn, Locks
  <2> QED BY <1>1, <2>1
          DEF LevelInv, AddressInv, Unshared, NewAddress, SnFileInv, Stored, StoredLevels
<1>6. CASE ClearSnAddressData(t)
  <2>1. /\ snAddressData' = [d \in Device |-> NoAddress] /\ indexData' = 1
        /\ UNCHANGED <<snAddrMap, index, devGrpValueMap, statusFile, owner>>
    BY <1>6 DEF ClearSnAddressData, Whole, sn
  <2> QED BY <1>1, <1>2, <2>1
          DEF LevelInv, AddressInv, Unshared, NewAddress, SnFileInv, Stored, StoredLevels, NoAddress
<1>7. CASE StoreLuminance(t)
  <2>1. /\ devGrpValueMap' = devGrpValueMap \cup ({job[t].address} \ {NoAddress})
        /\ UNCHANGED <<snAddrMap, index, snAddressData, indexData, statusFile>>
        /\ owner'["bleConfig"] = t /\ owner'["SnAddressMap"] = owner["SnAddressMap"]
        /\ Head(todo[t]) = "storeLuminance"
    BY <1>2, <1>7 DEF StoreLuminance, Enter, Call, sn, files, snFile, Locks
  <2>2. job[t].kind = "control"
    BY <1>1, <2>1, CourseTable
  <2>3. NewAddress'
    BY <1>1, <2>1, <2>2 DEF LevelInv, NewAddress
  <2> QED BY <1>2, <2>1, <2>3 DEF LevelInv, AddressInv, Unshared, SnFileInv, Stored
<1>8. CASE StoreDevGrpStatus2File(t)
  <2>1. /\ statusFile' = Levels
        /\ UNCHANGED <<snAddrMap, index, snAddressData, indexData, devGrpValueMap>>
        /\ owner'["SnAddressMap"] = owner["SnAddressMap"]
        /\ Head(todo[t]) = "storeDevGrpStatus2File"
    BY <1>2, <1>8 DEF StoreDevGrpStatus2File, Exit, Call, sn, snFile, Locks
  <2>2. ASSUME NEW a \in StoredLevels
        PROVE  snAddressData = snAddrMap \/ \A d \in Device : snAddressData[d] = NoAddress
    <3>1. owner["SnAddressMap"] \in {NoThread, t}
      BY <1>1, <2>1, <2>2 DEF Waiting, LockOf
    <3>2. owner["SnAddressMap"] # t
      BY <1>1, <1>2, <2>1 DEF LockInv, HoldersCall, Holds
    <3> QED BY <3>1, <3>2 DEF LevelInv, SnFileInv
  <2>3. ASSUME NEW a \in StoredLevels, NEW d \in Device,
               a \in {snAddrMap[d], snAddressData[d]}
        PROVE  \E e \in Levels : e.device = d
    <3>1. a # NoAddress
      BY <1>2, <2>3 DEF StoredLevels, NoAddress
    <3>2. a = snAddrMap[d]
      BY <2>2, <2>3, <3>1
    <3>3. Address2DeviceSn(a) = d
      BY <3>1, <3>2, DeviceOfAddress DEF LevelInv, AddressInv
    <3>4. [address |-> a, device |-> d] \in Levels
      BY <3>3 DEF Levels
    <3> QED BY <3>4
  <2>4. Stored'
    BY <2>1, <2>3 DEF Stored, StoredLevels
  <2> QED BY <1>1, <2>1, <2>4 DEF LevelInv, AddressInv, Unshared, NewAddress, SnFileInv
<1>9. CASE LevelFrame
  BY <1>1, <1>9, LevelFrameStep DEF LevelInv, NewAddress
<1> QED BY <1>1, <1>3, <1>4, <1>5, <1>6, <1>7, <1>8, <1>9, LevelFrameCall

LEMMA LevelInvStep ==
    ASSUME LevelInv, [Next]_vars
    PROVE  LevelInv'
<1>1. TypeInv /\ TypeInv'
  BY TypeInvStep DEF LevelInv
<1>2. CASE BeginSome
  <2>1. PICK t \in Thread, k \in Kinds, d \in Device \cup {NoDevice},
             a \in Address \cup {NoAddress}, v \in Power :
             \E s \in ProgramsOf(k) : BeginsAs(t, s, k, d, a, v)
    BY <1>1, <1>2, BeginsWith DEF TypeInv
  <2>2. PICK s \in ProgramsOf(k) : BeginsAs(t, s, k, d, a, v)
    BY <2>1
  <2>3. LevelFrame
    BY <2>2 DEF BeginsAs, Begin, LevelFrame, sn, files, snFile
  <2>4. k = "control" => a < index
    BY <1>1, <2>2 DEF BeginsAs, LevelInv, AddressInv, TypeInv, TypeOK, NoAddress
  <2>5. \A u \in Thread : job'[u] = job[u] \/ (job'[u].kind = k /\ job'[u].address = a)
    BY <1>1, <2>2 DEF BeginsAs, Begin, TypeInv, TypeOK
  <2>6. \A u \in Thread : job'[u].kind = "control" => job'[u].address < index
    BY <2>4, <2>5 DEF LevelInv, NewAddress
  <2> QED BY <1>1, <2>3, <2>6, LevelFrameStep
<1>3. CASE Restart
  <2>1. /\ snAddrMap' = snAddressData /\ index' = indexData
        /\ UNCHANGED <<snAddressData, indexData, statusFile>>
        /\ devGrpValueMap' = LoadedLevels
        /\ \A t \in Thread : job'[t] = NoJob
    BY <1>3 DEF Restart, files, snFile
  <2>2. ASSUME NEW a \in LoadedLevels
        PROVE  \E e \in statusFile :
                  e.device \in Device /\ a = snAddressData[e.device] /\ a # NoAddress
    <3>1. PICK e \in statusFile :
            /\ \A e2 \in statusFile : e2.address <= e.address => HasAddress(e2)
            /\ a = snAddressData[e.device]
      BY DEF LoadedLevels
    <3>2. e.address <= e.address
      BY <1>1 DEF TypeInv, TypeOK, Address
    <3>3. HasAddress(e)
      BY <3>1, <3>2
    <3>4. e.device \in Device
      BY <1>1, <3>3 DEF HasAddress, TypeInv, TypeOK
    <3> QED BY <3>1, <3>3, <3>4 DEF HasAddress
  <2>3. AddressInv'
    BY <2>1 DEF LevelInv, AddressInv, Unshared
  <2>4. NewAddress'
    BY <2>1, <2>2, NoCourse DEF LevelInv, AddressInv, NewAddress
  <2>5. Stored'
    BY <2>1, <2>2 DEF LevelInv, AddressInv, Unshared, Stored, StoredLevels
  <2> QED BY <1>1, <2>1, <2>3, <2>4, <2>5 DEF LevelInv, SnFileInv
<1>4. CASE UNCHANGED vars
  BY <1>1, <1>4, LevelFrameStep
     DEF LevelFrame, LevelInv, NewAddress, vars, locals, sn, files, snFile, history
<1> QED BY <1>1, <1>2, <1>3, <1>4, LevelInvCall DEF Next

\* The device that has an address, in the map and in the file.
Settled(a, d) == snAddrMap[d] = a /\ snAddressData[d] = a

Accounted(a) == a \in orphaned \/ \E d \in Device : Settled(a, d)

\* Each entry of the file of the levels still names the device of its address,
\* or the address has been taken from one.
OrphanInv ==
    /\ \A a \in devGrpValueMap : Accounted(a)
    /\ \A t \in Thread : job[t].kind = "control" /\ job[t].address # NoAddress =>
          Accounted(job[t].address)
    /\ \A e \in statusFile :
          e.address \in orphaned \/ (e.device \in Device /\ Settled(e.address, e.device))
    /\ \A e, e2 \in statusFile : e.address = e2.address => e = e2
    /\ owner["SnAddressMap"] = NoThread =>
          \A d \in Device : snAddrMap[d] \in orphaned \cup {NoAddress, snAddressData[d]}

LEMMA OrphanInvInit ==
    ASSUME Init
    PROVE  OrphanInv
<1>1. \A t \in Thread : job[t].kind = "none"
  BY NoCourse DEF Init
<1> QED BY <1>1 DEF Init, OrphanInv

\* Addresses that are taken are entered among the orphaned ones.
LEMMA OrphansEntered ==
    ASSUME OrphanInv, job' = job, UNCHANGED <<devGrpValueMap, statusFile>>,
           \A a \in Address : Accounted(a) => Accounted(a)',
           \A a \in Address, d \in Device : Settled(a, d) => Settled(a, d)' \/ a \in orphaned',
           orphaned \subseteq orphaned', TypeOK,
           owner'["SnAddressMap"] = NoThread =>
              \A d \in Device : snAddrMap'[d] \in orphaned' \cup {NoAddress, snAddressData'[d]}
    PROVE  OrphanInv'
<1>1. /\ devGrpValueMap \subseteq Address /\ \A e \in statusFile : e.address \in Address
      /\ \A t \in Thread : job[t].address # NoAddress => job[t].address \in Address
  BY DEF TypeOK
<1>2. \A a \in devGrpValueMap' : Accounted(a)'
  BY <1>1 DEF OrphanInv
<1>3. \A t \in Thread : job'[t].kind = "control" /\ job'[t].address # NoAddress =>
         Accounted(job[t].address)'
  BY <1>1 DEF OrphanInv
<1>4. \A e \in statusFile :
         e.address \in orphaned' \/ (e.device \in Device /\ Settled(e.address, e.device)')
  BY <1>1 DEF OrphanInv
<1> QED BY <1>2, <1>3, <1>4 DEF OrphanInv, Accounted, Settled

LEMMA OrphanInvCall ==
    ASSUME LevelInv, OrphanInv, NEW t \in Thread, Calls(t)
    PROVE  OrphanInv'
<1> DEFINE d == job[t].device
<1>1. /\ job' = job /\ Busy(t) /\ todo[t] # <<>> /\ t # NoThread
      /\ TypeInv /\ TypeOK /\ LockInv
      /\ job[t].kind \in Kinds /\ CourseOf(job[t].kind, todo[t])
      /\ owner \in [Locks -> Thread \cup {NoThread}] /\ "SnAddressMap" \in Locks
      /\ snAddrMap \in [Device -> Address \cup {NoAddress}]
  BY CallFrame, CourseOfThread, NamesAssumption
     DEF LevelInv, TypeInv, TypeOK, Busy, Locks, Thread
<1>2. \A a \in Address : a # NoAddress
  BY DEF Address, NoAddress
<1>3. CASE GetAddress(t) \/ DeleteDeviceSn(t)
  <2>1. /\ UNCHANGED <<snAddressData, devGrpValueMap, statusFile>>
        /\ owner'["SnAddressMap"] = t
        /\ orphaned \subseteq orphaned'
        /\ d \in Device /\ snAddrMap[d] \in orphaned' \cup {NoAddress}
        /\ \A x \in Device : x # d => snAddrMap'[x] = snAddrMap[x]
    <3>1. CASE GetAddress(t)
      <4>1. Head(todo[t]) = "getAddress"
        BY <3>1 DEF GetAddress, Enter, Call
      <4>2. d \in Device
        BY <1>1, <4>1, CourseTable DEF TypeInv, JobDevice
      <4> QED BY <1>1, <3>1, <4>2 DEF GetAddress, Enter, files, snFile
    <3>2. CASE DeleteDeviceSn(t)
      <4>1. d \in Device
        BY <1>1, <3>2 DEF DeleteDeviceSn, HasSn, TypeOK
      <4> QED BY <1>1, <3>2, <4>1 DEF DeleteDeviceSn, Enter, files, snFile
    <3> QED BY <1>3, <3>1, <3>2
  <2>2. \A a \in Address, x \in Device : Settled(a, x) => Settled(a, x)' \/ a \in orphaned'
    BY <1>2, <2>1 DEF Settled
  <2>3. \A a \in Address : Accounted(a) => Accounted(a)'
    BY <2>1, <2>2 DEF Accounted
  <2> QED BY <1>1, <2>1, <2>2, <2>3, OrphansEntered
<1>4. CASE SaveSnAddrData(t)
  <2>1. /\ UNCHANGED <<snAddrMap, devGrpValueMap, statusFile, orphaned>>
        /\ snAddressData' = snAddrMap
    BY <1>4 DEF SaveSnAddrData, sn, history
  <2>2. \A a \in Address, x \in Device : Settled(a, x) => Settled(a, x)'
    BY <2>1 DEF Settled
  <2>3. \A a \in Address : Accounted(a) => Accounted(a)'
    BY <2>1, <2>2 DEF Accounted
  <2> QED BY <1>1, <2>1, <2>2, <2>3, OrphansEntered
<1>5. CASE ClearSnAddressData(t)
  <2>1. /\ UNCHANGED <<snAddrMap, devGrpValueMap, statusFile, owner>>
        /\ orphaned' = orphaned \cup ({snAddressData[x] : x \in Device} \ {NoAddress})
    BY <1>5 DEF ClearSnAddressData, Whole, sn
  <2>2. \A a \in Address, x \in Device : Settled(a, x) => a \in orphaned'
    BY <1>2, <2>1 DEF Settled
  <2>3. \A a \in Address : Accounted(a) => Accounted(a)'
    BY <2>1, <2>2 DEF Accounted
  <2>4. owner["SnAddressMap"] = NoThread =>
          \A x \in Device : snAddrMap[x] \in orphaned' \cup {NoAddress}
    BY <2>1 DEF OrphanInv
  <2> QED BY <1>1, <2>1, <2>2, <2>3, <2>4, OrphansEntered
<1>6. CASE StoreLuminance(t)
  <2>1. /\ devGrpValueMap' = devGrpValueMap \cup ({job[t].address} \ {NoAddress})
        /\ UNCHANGED <<snAddrMap, snAddressData, statusFile, orphaned>>
        /\ owner'["SnAddressMap"] = owner["SnAddressMap"]
        /\ Head(todo[t]) = "storeLuminance"
    BY <1>1, <1>6 DEF StoreLuminance, Enter, Call, sn, files, snFile, history, Locks
  <2>2. job[t].kind = "control"
    BY <1>1, <2>1, CourseTable
  <2> QED BY <1>1, <2>1, <2>2 DEF OrphanInv, Accounted, Settled
<1>7. CASE StoreDevGrpStatus2File(t)
  <2>1. /\ statusFile' = Levels
        /\ UNCHANGED <<snAddrMap, snAddressData, devGrpValueMap, orphaned>>
        /\ owner'["SnAddressMap"] = owner["SnAddressMap"]
    BY <1>1, <1>7 DEF StoreDevGrpStatus2File, Exit, sn, snFile, history, Locks
  <2>2. ASSUME NEW e \in Levels
        PROVE  e.address \in orphaned \/ (e.device \in Device /\ Settled(e.address, e.device))
    <3>1. PICK a \in StoredLevels : e = [address |-> a, device |-> Address2DeviceSn(a)]
      BY DEF Levels
    <3>2. a \in Address /\ Accounted(a)
      BY <1>1, <3>1 DEF StoredLevels, OrphanInv, TypeOK
    <3>3. ASSUME NEW x \in Device, Settled(a, x)
          PROVE  Address2DeviceSn(a) = x
      BY <1>2, <3>2, <3>3, DeviceOfAddress DEF LevelInv, AddressInv, Settled
    <3> QED BY <3>1, <3>2, <3>3 DEF Accounted
  <2>3. \A e, e2 \in Levels : e.address = e2.address => e = e2
    BY DEF Levels
  <2> QED BY <1>1, <2>1, <2>2, <2>3 DEF OrphanInv, Accounted, Settled
<1>8. CASE LevelFrame
  BY <1>1, <1>8 DEF LevelFrame, OrphanInv, Accounted, Settled
<1> QED BY <1>1, <1>3, <1>4, <1>5, <1>6, <1>7, <1>8, LevelFrameCall

LEMMA OrphanInvStep ==
    ASSUME LevelInv, OrphanInv, [Next]_vars
    PROVE  OrphanInv'
<1>1. TypeInv /\ TypeOK
  BY DEF LevelInv, TypeInv
<1>2. CASE BeginSome
  <2>1. PICK t \in Thread, k \in Kinds, d \in Device \cup {NoDevice},
             a \in Address \cup {NoAddress}, v \in Power :
             \E s \in ProgramsOf(k) : BeginsAs(t, s, k, d, a, v)
    BY <1>1, <1>2, BeginsWith DEF TypeInv
  <2>2. PICK s \in ProgramsOf(k) : BeginsAs(t, s, k, d, a, v)
    BY <2>1
  <2>3. LevelFrame
    BY <2>2 DEF BeginsAs, Begin, LevelFrame, sn, files, snFile
  <2>4. k = "control" /\ a # NoAddress => Accounted(a)
    BY <2>2 DEF BeginsAs, SnFree, OrphanInv, Accounted, Settled
  <2>5. \A u \in Thread : job'[u] = job[u] \/ (job'[u].kind = k /\ job'[u].address = a)
    BY <1>1, <2>2 DEF BeginsAs, Begin, TypeInv, TypeOK
  <2>6. \A b : Accounted(b) => Accounted(b)'
    BY <2>3 DEF LevelFrame, Accounted, Settled
  <2>7. \A u \in Thread : job'[u].kind = "control" /\ job'[u].address # NoAddress =>
           Accounted(job'[u].address)
    BY <2>4, <2>5 DEF OrphanInv
  <2> QED BY <2>3, <2>7 DEF LevelFrame, OrphanInv, Accounted, Settled
<1>3. CASE Restart
  <2>1. /\ snAddrMap' = snAddressData
        /\ UNCHANGED <<snAddressData, statusFile, orphaned>>
        /\ devGrpValueMap' = LoadedLevels
        /\ \A t \in Thread : job'[t].kind = "none"
    BY <1>3, NoCourse DEF Restart, files, snFile
  <2>2. ASSUME NEW a \in LoadedLevels
        PROVE  \E d \in Device : a = snAddressData[d]
    <3>1. PICK e \in statusFile :
            /\ \A e2 \in statusFile : e2.address <= e.address => HasAddress(e2)
            /\ a = snAddressData[e.device]
      BY DEF LoadedLevels
    <3>2. e.address <= e.address
      BY <1>1 DEF TypeOK, Address
    <3>3. e.device \in Device
      BY <1>1, <3>1, <3>2 DEF HasAddress, TypeOK
    <3> QED BY <3>1, <3>3
  <2>3. \A a \in devGrpValueMap' : Accounted(a)'
    BY <2>1, <2>2 DEF Accounted, Settled
  <2> QED BY <2>1, <2>3 DEF OrphanInv, Settled
<1>4. CASE UNCHANGED vars
  BY <1>4 DEF OrphanInv, Accounted, Settled, vars, locals, sn, files, snFile, history
<1> QED BY <1>2, <1>3, <1>4, OrphanInvCall DEF Next

\* A level that is stored is in the file; what stops a restart before it is the
\* level of an address that has been taken from its device.
LEMMA RestartKeepsLevels ==
    ASSUME LevelInv, OrphanInv, Restart, owner["bleConfig"] = NoThread,
           NEW d \in Device, snAddressData[d] \in StoredLevels \ devGrpValueMap'
    PROVE  \E e, e2 \in statusFile :
              e.device = d /\ e2.address < e.address /\ e2.address \in orphaned
<1>1. PICK e \in statusFile : e.device = d
  BY DEF LevelInv, Stored
<1>2. TypeOK
  BY DEF LevelInv, TypeInv
<1>3. snAddressData[d] # NoAddress /\ snAddressData[d] \notin LoadedLevels
  BY <1>2 DEF Restart, StoredLevels, TypeOK, Address, NoAddress
<1>4. PICK e2 \in statusFile : e2.address <= e.address /\ ~HasAddress(e2)
  BY <1>1, <1>3 DEF LoadedLevels
<1>5. HasAddress(e)
  BY <1>1, <1>2, <1>3, NamesAssumption DEF HasAddress
<1>6. e2.address # e.address
  BY <1>4, <1>5 DEF OrphanInv
<1>7. e.address \in Address /\ e2.address \in Address /\ e2.address < e.address
  BY <1>2, <1>4, <1>6, BoundAssumption DEF TypeOK, Address
<1>8. e2.address \in orphaned
  BY <1>4, <1>7, NamesAssumption DEF OrphanInv, Settled, HasAddress, Address, NoAddress
<1> QED BY <1>1, <1>7, <1>8

\* For any number of devices, addresses and restarts: a restart finds in the
\* file, and loads, the level of every device whose address is of the form xx02,
\* if no level is being stored, unless the level of an address that has been
\* taken from its device is stored before it.
THEOREM LevelsSurvive == Spec => LevelsSurviveRestart
<1>1. Init => LevelInv /\ OrphanInv
  BY LevelInvInit, OrphanInvInit
<1>2. LevelInv /\ OrphanInv /\ [Next]_vars => LevelInv' /\ OrphanInv'
  BY LevelInvStep, OrphanInvStep
<1>3. LevelInv /\ OrphanInv /\ [Next]_vars =>
        [Restart /\ owner["bleConfig"] = NoThread =>
         \A d \in Device : snAddressData[d] \in StoredLevels \ devGrpValueMap' =>
            \E e, e2 \in statusFile :
               /\ e.device = d
               /\ e2.address < e.address /\ e2.address \in orphaned]_vars
  BY RestartKeepsLevels
<1> QED BY <1>1, <1>2, <1>3, PTL DEF Spec, LevelsSurviveRestart

-----------------------------------------------------------------------------
(* The lists.                                                               *)

Listed(d)    == d \in DOMAIN deviceListData
InGroup(d)   == Listed(d) /\ deviceListData[d] = "grouped"
HasStatus(d) == d \in DOMAIN statusListData

Consistent(d) ==
    /\ Listed(d) <=> HasStatus(d)
    /\ InGroup(d) => d \in groupAddrMap
    /\ d \in groupAddrMap => Listed(d) \/ d \in strays

Works(t) == Busy(t) /\ job[t].kind \in Listing

Calm   == Device \ disturbed
Own(t) == job[t].device \in Calm

\* Nobody else works on the device of an operation, unless they have met on it.
Apart ==
    \A t, u \in Thread : t # u /\ Works(t) /\ Works(u) /\ Own(t) =>
       job[u].device # job[t].device /\ job[u].kind # "reset"

AsReported ==
    \A d \in DOMAIN statusListData \ disturbed : statusListData[d] = reported[d]

\* Between the first and the last of the changes an operation makes.
Amid(t) ==
    /\ Works(t)
    /\ Head(todo[t]) \in
          {"getStatusListData", "saveStatusListData", "deleteStatusItem",
           "removeDeviceFromAnyGroup", "saveGroupListData", "insertGroupInfo",
           "deleteGroupInfo", "clearGroupList", "clearStatusList"}

\* What the calls made so far have left of the device.
SoFar(t) ==
    LET d == job[t].device
        h == Head(todo[t])
    IN  /\ h \in {"getStatusListData", "saveStatusListData"} => Listed(d) /\ ~InGroup(d)
        /\ h \in {"getStatusListData", "saveStatusListData"} =>
              (d \in groupAddrMap => Listed(d) \/ d \in strays)
        /\ h \in {"deleteStatusItem", "removeDeviceFromAnyGroup"} => ~Listed(d)
        /\ h = "removeDeviceFromAnyGroup" => ~HasStatus(d)
        /\ h = "saveGroupListData" /\ job[t].kind \in {"unbind", "force"} =>
              ~Listed(d) /\ ~HasStatus(d) /\ d \notin groupAddrMap
        /\ job[t].kind = "group" =>
              /\ Listed(d) <=> HasStatus(d)
              /\ d \in groupAddrMap => Listed(d) \/ d \in strays
        /\ h = "saveGroupListData" /\ NextIs(todo[t], "insertGroupInfo") => d \in groupAddrMap
        /\ h = "insertGroupInfo" => d \in groupAddrMap

SoFarReset(t) ==
    job[t].kind = "reset" /\ Head(todo[t]) \in {"clearGroupList", "clearStatusList"} =>
       \A d \in Calm : ~Listed(d) /\ (d \in groupAddrMap => d \in strays)

Clear(d) ==
    \A t \in Thread : Amid(t) => d # job[t].device /\ job[t].kind # "reset"

ClearConsistent == \A d \in Calm : Clear(d) => Consistent(d)

\* The file of the groups differs from the map only in a device whose change is
\* about to be saved, or after a reset has cleared it.
GroupFileInv ==
    \A d \in Calm :
       \/ d \in groupAddressData <=> d \in groupAddrMap
       \/ /\ d \notin groupAddressData /\ ~InGroup(d)
          /\ \A t \in Thread : At(t, "insertGroupInfo") => job[t].device # d
       \/ \E t \in Thread : At(t, "saveGroupListData") /\ job[t].device = d

InCourse == \A t \in Thread : Works(t) => (Own(t) => SoFar(t)) /\ SoFarReset(t)

ListParts == Apart /\ AsReported /\ GroupFileInv /\ InCourse /\ ClearConsistent

ListInv == TypeInv /\ ListParts

\* A step is nothing to a device whose entries it leaves as they are.
SameFor(d) ==
    /\ (d \in DOMAIN deviceListData') <=> Listed(d)
    /\ (d \in DOMAIN deviceListData' /\ deviceListData'[d] = "grouped") <=> InGroup(d)
    /\ (d \in DOMAIN statusListData') <=> HasStatus(d)
    /\ (d \in groupAddrMap') <=> (d \in groupAddrMap)
    /\ d \in strays => d \in strays'

LEMMA SameIsSame ==
    ASSUME NEW d, SameFor(d)
    PROVE  /\ Listed(d)' <=> Listed(d)
           /\ InGroup(d)' <=> InGroup(d)
           /\ HasStatus(d)' <=> HasStatus(d)
           /\ Consistent(d) => Consistent(d)'
BY DEF SameFor, Listed, InGroup, HasStatus, Consistent

LEMMA EntryIsSame ==
    ASSUME NEW f, NEW g, NEW d \in Device, d \notin Differ(f, g)
    PROVE  /\ d \in DOMAIN f <=> d \in DOMAIN g
           /\ d \in DOMAIN f => f[d] = g[d]
<1>1. Entry(f, d) = Entry(g, d)
  BY DEF Differ
<1> QED BY <1>1 DEF Entry

\* A thread whose device a step is nothing to is as far as it was.
LEMMA SoFarStays ==
    ASSUME NEW u \in Thread, SoFar(u), job'[u] = job[u], todo'[u] = todo[u],
           SameFor(job[u].device)
    PROVE  SoFar(u)'
<1>1. /\ Listed(job[u].device)' <=> Listed(job[u].device)
      /\ InGroup(job[u].device)' <=> InGroup(job[u].device)
      /\ HasStatus(job[u].device)' <=> HasStatus(job[u].device)
      /\ (job[u].device \in groupAddrMap') <=> (job[u].device \in groupAddrMap)
      /\ job[u].device \in strays => job[u].device \in strays'
  BY SameIsSame DEF SameFor
<1> QED BY <1>1 DEF SoFar, Listed, InGroup, HasStatus, NextIs

\* Before its first change an operation has a consistent device.
LEMMA OwnConsistent ==
    ASSUME Apart, ClearConsistent, NEW t \in Thread, Works(t), ~Amid(t), Own(t)
    PROVE  Consistent(job[t].device)
<1>1. Clear(job[t].device)
  BY DEF Clear, Apart, Amid
<1> QED BY <1>1 DEF ClearConsistent, Own

\* A call of an operation on one device, in which nobody else can interfere.
LEMMA OneDeviceStep ==
    ASSUME Apart, InCourse, ClearConsistent, NEW t \in Thread, Works(t),
           job' = job, \A u \in Thread : u # t => todo'[u] = todo[u],
           job[t].kind # "reset", disturbed \subseteq disturbed',
           \A d \in Calm' : d # job[t].device => SameFor(d),
           Busy(t)' /\ Own(t)' => SoFar(t)',
           Own(t)' /\ ~Amid(t)' => Consistent(job[t].device)'
    PROVE  Apart' /\ InCourse' /\ ClearConsistent'
<1>1. \A u \in Thread : u # t => (Works(u)' <=> Works(u)) /\ (Amid(u)' <=> Amid(u))
  BY DEF Works, Amid, Busy
<1>2. Calm' \subseteq Calm /\ \A u \in Thread : Own(u)' => Own(u)
  BY DEF Calm, Own
<1>3. Works(t)' => Works(t)
  OBVIOUS
<1>4. Apart'
  <2> SUFFICES ASSUME NEW u \in Thread, NEW w \in Thread, u # w, Works(u)', Works(w)', Own(u)'
               PROVE  job'[w].device # job'[u].device /\ job'[w].kind # "reset"
    BY DEF Apart
  <2>1. Works(u) /\ Works(w) /\ Own(u)
    BY <1>1, <1>2
  <2> QED BY <2>1 DEF Apart
<1>5. ASSUME NEW u \in Thread, Works(u)'
      PROVE  (Own(u)' => SoFar(u)') /\ SoFarReset(u)'
  <2>1. CASE u = t
    BY <1>5, <2>1 DEF Works, SoFarReset
  <2>2. CASE u # t
    <3>1. Works(u) /\ todo'[u] = todo[u] /\ job'[u] = job[u]
      BY <1>1, <1>5, <2>2
    <3>2. ASSUME Own(u)'
          PROVE  SoFar(u)'
      <4>1. Own(u) /\ job[u].device \in Calm' /\ job[u].device # job[t].device
        <5>1. Own(u)
          BY <1>2, <3>2
        <5>2. job[u].device # job[t].device
          BY <2>2, <3>1, <5>1 DEF Apart
        <5>3. job[u].device \in Calm'
          BY <3>1, <3>2 DEF Own
        <5> QED BY <5>1, <5>2, <5>3
      <4> QED BY <3>1, <4>1, SoFarStays DEF InCourse
    <3>3. SoFarReset(u)'
      <4> SUFFICES ASSUME job[u].kind = "reset",
                          Head(todo[u]) \in {"clearGroupList", "clearStatusList"},
                          NEW d \in Calm'
                   PROVE  ~Listed(d)' /\ (d \in groupAddrMap' => d \in strays')
        BY <3>1 DEF SoFarReset
      <4>1. d \in Calm /\ ~Listed(d) /\ (d \in groupAddrMap => d \in strays)
        BY <1>2, <3>1 DEF InCourse, SoFarReset
      <4>2. d # job[t].device
        BY <2>2, <3>1, <4>1 DEF Apart, Own
      <4> QED BY <4>1, <4>2, SameIsSame DEF SameFor
    <3> QED BY <3>2, <3>3
  <2> QED BY <2>1, <2>2
<1>6. ASSUME NEW d \in Calm', Clear(d)'
      PROVE  Consistent(d)'
  <2>1. CASE d = job[t].device
    <3>1. ~Amid(t)'
      BY <1>6, <2>1 DEF Clear
    <3>2. Own(t)'
      BY <2>1 DEF Own
    <3> QED BY <2>1, <3>1, <3>2
  <2>2. CASE d # job[t].device
    <3>1. Clear(d)
      BY <1>1, <1>6, <2>2 DEF Clear
    <3> QED BY <1>2, <2>2, <3>1, SameIsSame DEF ClearConsistent
  <2> QED BY <2>1, <2>2
<1> QED BY <1>4, <1>5, <1>6 DEF InCourse, ClearConsistent

\* A call of an operation that is none of the lists'.
LEMMA NeutralStep ==
    ASSUME Apart, InCourse, ClearConsistent, NEW t \in Thread, ~Works(t),
           job' = job, \A u \in Thread : u # t => todo'[u] = todo[u], ~Works(t)',
           disturbed \subseteq disturbed', \A d \in Calm' : SameFor(d)
    PROVE  Apart' /\ InCourse' /\ ClearConsistent'
<1>1. \A u \in Thread : (Works(u)' <=> Works(u)) /\ (Amid(u)' <=> Amid(u))
  BY DEF Works, Amid, Busy
<1>2. Calm' \subseteq Calm /\ \A u \in Thread : Own(u)' => Own(u)
  BY DEF Calm, Own
<1>3. Apart'
  <2> SUFFICES ASSUME NEW u \in Thread, NEW w \in Thread, u # w, Works(u)', Works(w)', Own(u)'
               PROVE  job'[w].device # job'[u].device /\ job'[w].kind # "reset"
    BY DEF Apart
  <2>1. Works(u) /\ Works(w) /\ Own(u)
    BY <1>1, <1>2
  <2> QED BY <2>1 DEF Apart
<1>4. ASSUME NEW u \in Thread, Works(u)'
      PROVE  (Own(u)' => SoFar(u)') /\ SoFarReset(u)'
  <2>1. Works(u) /\ u # t /\ todo'[u] = todo[u] /\ job'[u] = job[u]
    BY <1>1, <1>4
  <2>2. ASSUME Own(u)'
        PROVE  SoFar(u)'
    <3>1. Own(u) /\ job[u].device \in Calm'
      BY <1>2, <2>1, <2>2 DEF Own
    <3> QED BY <2>1, <3>1, SoFarStays DEF InCourse
  <2>3. SoFarReset(u)'
    BY <1>2, <2>1, SameIsSame DEF InCourse, SoFarReset, SameFor
  <2> QED BY <2>2, <2>3
<1>5. ASSUME NEW d \in Calm', Clear(d)'
      PROVE  Consistent(d)'
  <2>1. Clear(d)
    BY <1>1, <1>5 DEF Clear
  <2> QED BY <1>2, <2>1, SameIsSame DEF ClearConsistent
<1> QED BY <1>3, <1>4, <1>5 DEF InCourse, ClearConsistent

\* A call of a reset: on every device it has met whoever else works on one.
LEMMA ResetStep ==
    ASSUME Apart, InCourse, NEW t \in Thread, Works(t),
           job' = job, \A u \in Thread : u # t => todo'[u] = todo[u],
           job[t].kind = "reset", disturbed' = disturbed,
           groupAddrMap' = groupAddrMap, strays \subseteq strays',
           \A d \in Calm : Listed(d)' => Listed(d),
           Busy(t)' => SoFar(t)' /\ SoFarReset(t)',
           ~Amid(t)' => \A d \in Calm : Clear(d)' => Consistent(d)'
    PROVE  Apart' /\ InCourse' /\ ClearConsistent'
<1>1. \A u \in Thread : u # t => (Works(u)' <=> Works(u))
  BY DEF Works, Busy
<1>2. Calm' = Calm /\ \A u \in Thread : Own(u)' <=> Own(u)
  BY DEF Calm, Own
<1>3. \A u \in Thread : u # t /\ Works(u) => ~Own(u)
  BY DEF Apart
<1>4. Apart'
  <2> SUFFICES ASSUME NEW u \in Thread, NEW w \in Thread, u # w, Works(u)', Works(w)', Own(u)'
               PROVE  job'[w].device # job'[u].device /\ job'[w].kind # "reset"
    BY DEF Apart
  <2>1. Works(u) /\ Works(w) /\ Own(u)
    BY <1>1, <1>2
  <2> QED BY <2>1 DEF Apart
<1>5. ASSUME NEW u \in Thread, Works(u)'
      PROVE  (Own(u)' => SoFar(u)') /\ SoFarReset(u)'
  <2>1. CASE u = t
    BY <1>5, <2>1 DEF Works
  <2>2. CASE u # t
    <3>1. Works(u) /\ todo'[u] = todo[u] /\ ~Own(u)'
      BY <1>1, <1>2, <1>3, <1>5, <2>2
    <3> QED BY <1>2, <3>1 DEF InCourse, SoFarReset
  <2> QED BY <2>1, <2>2
<1>6. ASSUME NEW d \in Calm', Clear(d)'
      PROVE  Consistent(d)'
  BY <1>2, <1>6 DEF Clear
<1> QED BY <1>4, <1>5, <1>6 DEF InCourse, ClearConsistent

LEMMA GroupFileStays ==
    ASSUME GroupFileInv, groupAddressData' = groupAddressData, groupAddrMap' = groupAddrMap,
           disturbed \subseteq disturbed',
           \A d \in Calm' : InGroup(d)' => InGroup(d),
           \A u \in Thread : At(u, "insertGroupInfo")' =>
              At(u, "insertGroupInfo") /\ job'[u] = job[u],
           \A u \in Thread : At(u, "saveGroupListData") =>
              At(u, "saveGroupListData")' /\ job'[u] = job[u]
    PROVE  GroupFileInv'
<1> SUFFICES ASSUME NEW d \in Calm'
             PROVE  \/ d \in groupAddressData' <=> d \in groupAddrMap'
                    \/ /\ d \notin groupAddressData' /\ ~InGroup(d)'
                       /\ \A t \in Thread : At(t, "insertGroupInfo")' => job'[t].device # d
                    \/ \E t \in Thread : At(t, "saveGroupListData")' /\ job'[t].device = d
  BY DEF GroupFileInv
<1>1. d \in Calm
  BY DEF Calm
<1> QED BY <1>1 DEF GroupFileInv

\* A group that has been changed is about to be saved.
LEMMA GroupFileChanges ==
    ASSUME GroupFileInv, groupAddressData' = groupAddressData, job' = job,
           disturbed \subseteq disturbed', deviceListData' = deviceListData,
           NEW t \in Thread, At(t, "saveGroupListData")',
           \A d : d # job[t].device => (d \in groupAddrMap' <=> d \in groupAddrMap),
           \A u \in Thread : At(u, "insertGroupInfo")' => At(u, "insertGroupInfo"),
           \A u \in Thread : At(u, "saveGroupListData") => At(u, "saveGroupListData")'
    PROVE  GroupFileInv'
<1> SUFFICES ASSUME NEW d \in Calm'
             PROVE  \/ d \in groupAddressData' <=> d \in groupAddrMap'
                    \/ /\ d \notin groupAddressData' /\ ~InGroup(d)'
                       /\ \A u \in Thread : At(u, "insertGroupInfo")' => job'[u].device # d
                    \/ \E u \in Thread : At(u, "saveGroupListData")' /\ job'[u].device = d
  BY DEF GroupFileInv
<1>1. d \in Calm /\ (InGroup(d)' <=> InGroup(d))
  BY DEF Calm, InGroup, Listed
<1>2. CASE d = job[t].device
  BY <1>2
<1>3. CASE d # job[t].device
  BY <1>1, <1>3 DEF GroupFileInv
<1> QED BY <1>2, <1>3

-----------------------------------------------------------------------------
(* The calls, one by one.                                                   *)

LEMMA CallContext ==
    ASSUME TypeInv, NEW t \in Thread, Calls(t)
    PROVE  /\ job' = job /\ job[t].kind \in Kinds /\ CourseOf(job[t].kind, todo[t])
           /\ Busy(t) /\ todo[t] # <<>>
           /\ \A u \in Thread : u # t => todo'[u] = todo[u]
           /\ Head(todo[t]) # "saveGroupListData" =>
                 \A u \in Thread :
                    /\ At(u, "insertGroupInfo")' => At(u, "insertGroupInfo")
                    /\ At(u, "saveGroupListData") => At(u, "saveGroupListData")'
           /\ Head(todo[t]) # "deleteDeviceSn" =>
                 /\ todo'[t] = Tail(todo[t])
                 /\ \A step : NextIs(todo[t], step) => Busy(t)' /\ Head(todo'[t]) = step
                 /\ Tail(todo[t]) = <<>> => ~Busy(t)'
           /\ owner \in [Locks -> Thread \cup {NoThread}] /\ t # NoThread
           /\ disturbed \subseteq disturbed'
<1>1. job' = job /\ job[t].kind \in Kinds /\ CourseOf(job[t].kind, todo[t])
      /\ Busy(t) /\ todo[t] # <<>> /\ t # NoThread
  BY CourseOfThread, CallFrame, NamesAssumption DEF TypeInv, Busy, Thread
<1>2. /\ \A u \in Thread : u # t => todo'[u] = todo[u]
      /\ At(t, "insertGroupInfo")' => Head(todo[t]) = "saveGroupListData"
  BY CallComesTo
<1>3. ASSUME Head(todo[t]) # "saveGroupListData", NEW u \in Thread
      PROVE  /\ At(u, "insertGroupInfo")' => At(u, "insertGroupInfo")
             /\ At(u, "saveGroupListData") => At(u, "saveGroupListData")'
  <2>1. CASE u = t
    BY <1>2, <1>3, <2>1 DEF At
  <2>2. CASE u # t
    BY <1>2, <2>2 DEF At, Busy
  <2> QED BY <2>1, <2>2
<1>4. ASSUME Head(todo[t]) # "deleteDeviceSn"
      PROVE  todo'[t] = Tail(todo[t])
  BY <1>4, CallFrame DEF TypeInv, TypeOK
<1>5. owner \in [Locks -> Thread \cup {NoThread}]
  BY DEF TypeInv, TypeOK
<1>6. disturbed \subseteq disturbed'
  BY DEF Calls, GetAddress, DeleteDeviceSn, DeleteNoDeviceSn, SaveSnAddrData, ChangeGroups,
     SaveGroupListData, ChangeDevices, DeleteStatusItem, UpdateStatusListData, ReadList,
     ReadDeviceList, SaveStatusListData, SaveDeviceListData, ClearSnAddressData,
     ClearGroupList, ClearStatusList, StoreLuminance, StoreDevGrpStatus2File, history
<1> QED BY <1>1, <1>2, <1>3, <1>4, <1>5, <1>6 DEF NextIs, Busy


\* The calls of a binding or an unbinding before its first change.
LEMMA QuietCall ==
    ASSUME TypeInv, ListParts, NEW t \in Thread, Calls(t),
           \/ GetAddress(t) \/ DeleteDeviceSn(t) \/ DeleteNoDeviceSn(t) \/ SaveSnAddrData(t)
    PROVE  ListParts'
<1> DEFINE r == todo[t]
           k == job[t].kind
<1>1. /\ UNCHANGED <<deviceListData, statusListData, groupAddrMap, groupAddressData,
                    strays, reported, disturbed>>
      /\ Head(r) \in {"getAddress", "deleteDeviceSn", "saveSnAddrData"}
      /\ \/ Head(r) = "deleteDeviceSn" /\ todo'[t] \in {Tail(r), Tail(Tail(r))}
         \/ Head(r) # "deleteDeviceSn"
  <2> USE CallContext DEF Enter, Exit, Call, lists, files, history
  <2>1. CASE GetAddress(t)
    BY <2>1 DEF GetAddress
  <2>2. CASE DeleteDeviceSn(t)
    BY <2>2 DEF DeleteDeviceSn, TypeInv, TypeOK
  <2>3. CASE DeleteNoDeviceSn(t)
    BY <2>3 DEF DeleteNoDeviceSn, TypeInv, TypeOK
  <2>4. CASE SaveSnAddrData(t)
    BY <2>4 DEF SaveSnAddrData
  <2> QED BY <2>1, <2>2, <2>3, <2>4
<1>2. k \in {"bind", "unbind"} /\ job' = job
  BY <1>1, CallContext, CourseTable
<1>3. Works(t) /\ ~Amid(t)
  BY <1>1, <1>2, CallContext DEF Works, Amid, Listing
<1>4. Busy(t)' => Head(todo'[t]) \in
        {"saveSnAddrData", "insertDeviceItem", "deleteDeviceSn", "deleteDeviceItem"}
  <2>1. CASE Head(r) # "deleteDeviceSn"
    BY <1>1, <2>1, CallContext, CourseTable
  <2>2. CASE Head(r) = "deleteDeviceSn"
    <3>1. Tail(r) # <<>> /\ Head(Tail(r)) = "saveSnAddrData" /\ CourseOf(k, Tail(r))
      BY <2>2, CallContext, CourseTable DEF NextIs
    <3>2. Tail(Tail(r)) # <<>> => Head(Tail(Tail(r))) \in
             {"insertDeviceItem", "deleteDeviceSn", "deleteDeviceItem"}
      BY <3>1, CallContext, CourseTable DEF NextIs
    <3> QED BY <1>1, <2>2, <3>1, <3>2 DEF Busy
  <2> QED BY <2>1, <2>2
<1>5. Busy(t)' => SoFar(t)'
  BY <1>2, <1>4, CallContext DEF SoFar
<1>6. \A d : SameFor(d)
  BY <1>1 DEF SameFor, Listed, InGroup, HasStatus
<1>7. ASSUME Own(t)'
      PROVE  Consistent(job[t].device)'
  <2>1. Own(t)
    BY <1>1, <1>2, <1>7 DEF Own, Calm
  <2>2. Consistent(job[t].device)
    BY <1>3, <2>1, OwnConsistent DEF ListParts
  <2> QED BY <1>2, <1>6, <2>2, SameIsSame
<1>8. Apart' /\ InCourse' /\ ClearConsistent'
  BY <1>2, <1>3, <1>5, <1>6, <1>7, CallContext, OneDeviceStep DEF ListParts
<1>9. GroupFileInv'
  BY <1>1, <1>6, CallContext, GroupFileStays, SameIsSame DEF ListParts
<1>10. AsReported'
  BY <1>1 DEF ListParts, AsReported
<1> QED BY <1>8, <1>9, <1>10 DEF ListParts

\* The calls of operations that work on no device.  A list that is saved counts
\* as nothing to the devices whose entries it leaves.
LEMMA NeutralCall ==
    ASSUME TypeInv, ListParts, NEW t \in Thread, Calls(t),
           \/ ReadDeviceList(t) \/ SaveDeviceListData(t)
           \/ UpdateStatusListData(t) \/ StoreLuminance(t) \/ StoreDevGrpStatus2File(t)
    PROVE  ListParts'
<1> DEFINE r == todo[t]
           k == job[t].kind
<1>1. /\ UNCHANGED <<groupAddrMap, groupAddressData, strays>>
      /\ Head(r) \in {"getDeviceListData", "saveDeviceListData", "updateStatusListData",
                      "storeLuminance", "storeDevGrpStatus2File"}
      /\ DOMAIN statusListData' = DOMAIN statusListData
      /\ AsReported'
      /\ deviceListData' = deviceListData \/ SaveDeviceListData(t)
  <2> USE CallContext DEF Enter, Exit, Whole, Call, lists, files, history, ListParts,
                          AsReported
  <2>1. CASE ReadDeviceList(t)
    BY <2>1 DEF ReadDeviceList, ReadList
  <2>2. CASE SaveDeviceListData(t)
    BY <2>2 DEF SaveDeviceListData
  <2>3. CASE UpdateStatusListData(t)
    <3>1. reported \in [Device -> Power] /\ DOMAIN statusListData \subseteq Device
      BY DEF TypeInv, TypeOK, IsList
    <3> QED BY <2>3, <3>1 DEF UpdateStatusListData, Overwrite
  <2>4. CASE StoreLuminance(t)
    BY <2>4 DEF StoreLuminance
  <2>5. CASE StoreDevGrpStatus2File(t)
    BY <2>5 DEF StoreDevGrpStatus2File
  <2> QED BY <2>1, <2>2, <2>3, <2>4, <2>5
<1>2. k \in {"config", "save", "report", "control"}
  BY <1>1, CallContext, CourseTable
<1>3. ~Works(t) /\ ~Works(t)'
  BY <1>2, CallContext DEF Works, Listing
<1>4. ASSUME NEW d \in Calm'
      PROVE  SameFor(d)
  <2>1. CASE deviceListData' = deviceListData
    BY <1>1, <2>1 DEF SameFor, Listed, InGroup, HasStatus
  <2>2. CASE SaveDeviceListData(t)
    <3>1. d \in Device /\ d \notin Differ(deviceListData, deviceListData')
      BY <2>2 DEF SaveDeviceListData, Calm
    <3>2. /\ d \in DOMAIN deviceListData <=> d \in DOMAIN deviceListData'
          /\ d \in DOMAIN deviceListData => deviceListData[d] = deviceListData'[d]
      BY <3>1, EntryIsSame
    <3> QED BY <1>1, <3>2 DEF SameFor, Listed, InGroup, HasStatus
  <2> QED BY <1>1, <2>1, <2>2
<1>5. Apart' /\ InCourse' /\ ClearConsistent'
  BY <1>3, <1>4, CallContext, NeutralStep DEF ListParts
<1>6. GroupFileInv'
  BY <1>1, <1>4, CallContext, GroupFileStays, SameIsSame DEF ListParts
<1> QED BY <1>1, <1>5, <1>6 DEF ListParts

LEMMA BindCall ==
    ASSUME TypeInv, ListParts, NEW t \in Thread, Calls(t),
           \/ ChangeDevices(t, "insertDeviceItem")
           \/ ReadList(t, "getStatusListData", statusListData) \/ SaveStatusListData(t)
    PROVE  ListParts'
<1> DEFINE r == todo[t]
           d == job[t].device
<1>1. /\ UNCHANGED <<groupAddrMap, groupAddressData, strays>>
      /\ Head(r) \in {"insertDeviceItem", "getStatusListData", "saveStatusListData"}
  <2>1. CASE ChangeDevices(t, "insertDeviceItem")
    BY <2>1 DEF ChangeDevices, Whole, Call, files
  <2>2. CASE ReadList(t, "getStatusListData", statusListData)
    BY <2>2 DEF ReadList, history, files
  <2>3. CASE SaveStatusListData(t)
    BY <2>3 DEF SaveStatusListData, Whole, Call, files
  <2> QED BY <2>1, <2>2, <2>3
<1>2. job[t].kind = "bind" /\ d \in Device /\ Works(t)
  BY <1>1, CallContext, CourseTable DEF Works, Listing, JobDevice, TypeInv
<1>3. (Own(t)' => SoFar(t) /\ Own(t)) /\ job' = job
  BY <1>2, CallContext DEF ListParts, InCourse, Own, Calm
<1>4. CASE ChangeDevices(t, "insertDeviceItem")
  <2>1. /\ deviceListData' = Put(deviceListData, d, "alone")
        /\ UNCHANGED <<statusListData, reported, disturbed>> /\ Head(r) = "insertDeviceItem"
    BY <1>4 DEF ChangeDevices, Devices, Whole, Call
  <2>2. \A x : x # d => SameFor(x)
    BY <1>1, <2>1 DEF SameFor, Put, Listed, InGroup, HasStatus
  <2>3. Listed(d)' /\ ~InGroup(d)'
    BY <1>3, <2>1 DEF Listed, InGroup, Put
  <2>4. Busy(t)' /\ Head(todo'[t]) = "getStatusListData"
    BY <2>1, CallContext, CourseTable
  <2>5. SoFar(t)' /\ Amid(t)'
    BY <1>2, <1>3, <2>3, <2>4 DEF SoFar, Amid, Works
  <2>6. \A x \in Calm' : InGroup(x)' => InGroup(x)
    BY <1>3, <2>2, <2>3, SameIsSame
  <2>7. AsReported'
    BY <2>1 DEF ListParts, AsReported
  <2> QED BY <1>1, <1>2, <1>3, <2>1, <2>2, <2>5, <2>6, <2>7, CallContext, OneDeviceStep,
             GroupFileStays DEF ListParts
<1>5. CASE ReadList(t, "getStatusListData", statusListData)
  <2>1. /\ UNCHANGED <<deviceListData, statusListData, reported, disturbed>>
        /\ Head(r) = "getStatusListData"
    BY <1>5 DEF ReadList, lists, history
  <2>2. \A x : SameFor(x)
    BY <1>1, <2>1 DEF SameFor, Listed, InGroup, HasStatus
  <2>4. Busy(t)' /\ Head(todo'[t]) = "saveStatusListData"
    BY <2>1, CallContext, CourseTable
  <2>5. (Own(t)' => SoFar(t)') /\ Amid(t)'
    <3>1. Amid(t)'
      BY <1>2, <1>3, <2>4 DEF Amid, Works
    <3>2. ASSUME Own(t)'
          PROVE  SoFar(t)'
      <4>1. Listed(d)' /\ ~InGroup(d)'
        BY <1>3, <2>1, <3>2 DEF SoFar, Listed, InGroup
      <4> QED BY <1>2, <1>3, <2>4, <4>1 DEF SoFar
    <3> QED BY <3>1, <3>2
  <2>6. \A x \in Calm' : InGroup(x)' => InGroup(x)
    BY <2>2, SameIsSame
  <2>7. AsReported'
    BY <2>1 DEF ListParts, AsReported
  <2> QED BY <1>1, <1>2, <1>3, <2>1, <2>2, <2>5, <2>6, <2>7, CallContext, OneDeviceStep,
             GroupFileStays DEF ListParts
<1>6. CASE SaveStatusListData(t)
  <2>1. /\ statusListData' = Put(read[t], d, "on")
        /\ reported' = [reported EXCEPT ![d] = "on"]
        /\ disturbed' = disturbed \cup (Differ(statusListData, read[t]) \ {d})
        /\ deviceListData' = deviceListData /\ Head(r) = "saveStatusListData"
    BY <1>6 DEF SaveStatusListData, Whole, Call
  <2>2. ASSUME NEW x \in Calm', x # d
        PROVE  /\ SameFor(x)
               /\ HasStatus(x) => statusListData'[x] = statusListData[x]
    <3>1. x \in Device /\ x \notin Differ(statusListData, read[t])
      BY <2>1, <2>2 DEF Calm
    <3>2. /\ x \in DOMAIN statusListData <=> x \in DOMAIN read[t]
          /\ x \in DOMAIN statusListData => statusListData[x] = read[t][x]
      BY <3>1, EntryIsSame
    <3> QED BY <1>1, <2>1, <2>2, <3>2 DEF SameFor, Put, Listed, InGroup, HasStatus
  <2>3. Own(t)' => Listed(d)' /\ ~InGroup(d)' /\ HasStatus(d)'
    BY <1>3, <2>1 DEF SoFar, Listed, InGroup, HasStatus, Put
  <2>4. ~Busy(t)' /\ (Own(t)' => Consistent(d)')
    BY <1>3, <2>1, <2>3, CallContext, CourseTable DEF Consistent
  <2>5. ~Amid(t)'
    BY <2>4 DEF Amid, Works
  <2>6. \A x \in Calm' : InGroup(x)' => InGroup(x)
    BY <2>1 DEF InGroup, Listed
  <2>7. AsReported'
    <3>1. reported \in [Device -> Power]
      BY DEF TypeInv, TypeOK
    <3> SUFFICES ASSUME NEW x \in DOMAIN statusListData', x \notin disturbed'
                 PROVE  statusListData'[x] = reported'[x]
      BY DEF AsReported
    <3>2. CASE x = d
      BY <1>2, <2>1, <3>1, <3>2 DEF Put
    <3>3. CASE x # d
      <4>2. x \in Device
        BY <2>1, <3>3 DEF Put, TypeInv, TypeOK, IsList
      <4>3. x \in Calm' /\ x \notin disturbed
        BY <2>1, <4>2 DEF Calm
      <4>4. HasStatus(x) /\ statusListData'[x] = statusListData[x]
        BY <2>2, <3>3, <4>3, SameIsSame DEF HasStatus
      <4> QED BY <2>1, <3>1, <3>3, <4>2, <4>3, <4>4 DEF ListParts, AsReported, HasStatus
    <3> QED BY <3>2, <3>3
  <2> QED BY <1>1, <1>2, <1>3, <2>1, <2>2, <2>4, <2>5, <2>6, <2>7, CallContext,
             OneDeviceStep, GroupFileStays DEF ListParts
<1> QED BY <1>4, <1>5, <1>6

LEMMA UnbindCall ==
    ASSUME TypeInv, ListParts, NEW t \in Thread, Calls(t),
           \/ ChangeDevices(t, "deleteDeviceItem") \/ DeleteStatusItem(t)
           \/ ChangeGroups(t, "removeDeviceFromAnyGroup")
    PROVE  ListParts'
<1> DEFINE r == todo[t]
           d == job[t].device
<1>1. /\ UNCHANGED <<groupAddressData, reported, disturbed>>
      /\ Head(r) \in {"deleteDeviceItem", "deleteStatusItem", "removeDeviceFromAnyGroup"}
  <2>1. CASE ChangeDevices(t, "deleteDeviceItem")
    BY <2>1 DEF ChangeDevices, Whole, Call, files
  <2>2. CASE DeleteStatusItem(t)
    BY <2>2 DEF DeleteStatusItem, Whole, Call, files, history
  <2>3. CASE ChangeGroups(t, "removeDeviceFromAnyGroup")
    BY <2>3 DEF ChangeGroups, Enter, Call, files
  <2> QED BY <2>1, <2>2, <2>3
<1>2. job[t].kind \in {"unbind", "force"} /\ Works(t)
  BY <1>1, CallContext, CourseTable DEF Works, Listing
<1>3. (Own(t)' => SoFar(t) /\ Own(t)) /\ job' = job
  BY <1>2, CallContext DEF ListParts, InCourse, Own, Calm
<1>4. CASE ChangeDevices(t, "deleteDeviceItem")
  <2>1. /\ deviceListData' = Drop(deviceListData, d) /\ Head(r) = "deleteDeviceItem"
        /\ UNCHANGED <<statusListData, groupAddrMap, strays>>
    BY <1>4 DEF ChangeDevices, Devices, Whole, Call
  <2>2. \A x : x # d => SameFor(x)
    BY <1>1, <2>1 DEF SameFor, Drop, Listed, InGroup, HasStatus
  <2>3. ~Listed(d)' /\ ~InGroup(d)'
    BY <1>3, <2>1 DEF Listed, InGroup, Drop
  <2>4. Busy(t)' /\ Head(todo'[t]) = "deleteStatusItem"
    BY <2>1, CallContext, CourseTable
  <2>5. SoFar(t)' /\ Amid(t)'
    BY <1>2, <1>3, <2>3, <2>4 DEF SoFar, Amid, Works
  <2>6. \A x \in Calm' : InGroup(x)' => InGroup(x)
    BY <1>3, <2>2, <2>3, SameIsSame
  <2>7. AsReported'
    BY <1>1, <2>1 DEF ListParts, AsReported
  <2> QED BY <1>1, <1>2, <1>3, <2>1, <2>2, <2>5, <2>6, <2>7, CallContext, OneDeviceStep,
             GroupFileStays DEF ListParts
<1>5. CASE DeleteStatusItem(t)
  <2>1. /\ statusListData' = Drop(statusListData, d) /\ Head(r) = "deleteStatusItem"
        /\ UNCHANGED <<deviceListData, groupAddrMap, strays>>
    BY <1>5 DEF DeleteStatusItem, Whole, Call, history
  <2>2. \A x : x # d => SameFor(x)
    BY <1>1, <2>1 DEF SameFor, Drop, Listed, InGroup, HasStatus
  <2>3. Own(t)' => ~Listed(d)' /\ ~HasStatus(d)'
    BY <1>3, <2>1 DEF SoFar, Listed, HasStatus, Drop
  <2>4. Busy(t)' /\ Head(todo'[t]) = "removeDeviceFromAnyGroup"
    BY <2>1, CallContext, CourseTable
  <2>5. (Own(t)' => SoFar(t)') /\ Amid(t)'
    BY <1>2, <1>3, <2>3, <2>4 DEF SoFar, Amid, Works
  <2>6. \A x \in Calm' : InGroup(x)' => InGroup(x)
    BY <2>1 DEF InGroup, Listed
  <2>7. AsReported'
    BY <1>1, <2>1 DEF ListParts, AsReported, Drop
  <2> QED BY <1>1, <1>2, <1>3, <2>1, <2>2, <2>5, <2>6, <2>7, CallContext, OneDeviceStep,
             GroupFileStays DEF ListParts
<1>6. CASE ChangeGroups(t, "removeDeviceFromAnyGroup")
  <2>1. /\ groupAddrMap' = groupAddrMap \ {d} /\ Head(r) = "removeDeviceFromAnyGroup"
        /\ UNCHANGED <<deviceListData, statusListData>>
        /\ \A x : x # d /\ x \in strays => x \in strays'
    BY <1>6 DEF ChangeGroups, Groups, Enter, Call, lists
  <2>2. \A x : x # d => SameFor(x)
    BY <1>1, <2>1 DEF SameFor, Listed, InGroup, HasStatus
  <2>3. Own(t)' => ~Listed(d)' /\ ~HasStatus(d)' /\ d \notin groupAddrMap'
    BY <1>3, <2>1 DEF SoFar, Listed, HasStatus
  <2>4. Busy(t)' /\ Head(todo'[t]) = "saveGroupListData" /\ ~NextIs(todo'[t], "insertGroupInfo")
    <3>1. Busy(t)' /\ Head(todo'[t]) = "saveGroupListData" /\ todo'[t] = Tail(r)
          /\ CourseOf(job[t].kind, Tail(r))
      BY <2>1, CallContext, CourseTable
    <3>2. Tail(Tail(r)) = <<>>
      <4>1. job[t].kind \in Kinds /\ Tail(r) # <<>> /\ Head(Tail(r)) = "saveGroupListData"
        BY <3>1, CallContext DEF Busy
      <4> QED BY <1>2, <3>1, <4>1, CourseTable
    <3> QED BY <3>1, <3>2 DEF NextIs
  <2>5. (Own(t)' => SoFar(t)') /\ Amid(t)'
    BY <1>2, <1>3, <2>3, <2>4 DEF SoFar, Amid, Works
  <2>6. GroupFileInv'
    <3>1. At(t, "saveGroupListData")'
      BY <2>4 DEF At
    <3> QED BY <1>1, <1>3, <2>1, <3>1, CallContext, GroupFileChanges DEF ListParts
  <2>7. AsReported'
    BY <1>1, <2>1 DEF ListParts, AsReported
  <2> QED BY <1>1, <1>2, <1>3, <2>1, <2>2, <2>5, <2>6, <2>7, CallContext, OneDeviceStep
          DEF ListParts
<1> QED BY <1>4, <1>5, <1>6

LEMMA GroupCall ==
    ASSUME TypeInv, ListParts, NEW t \in Thread, Calls(t),
           \/ ChangeGroups(t, "addDevice2Group") \/ ChangeGroups(t, "removeDeviceFromGroup")
           \/ ChangeDevices(t, "insertGroupInfo") \/ ChangeDevices(t, "deleteGroupInfo")
    PROVE  ListParts'
<1> DEFINE r == todo[t]
           d == job[t].device
<1>1. /\ UNCHANGED <<groupAddressData, reported, statusListData, disturbed>>
      /\ Head(r) \in {"addDevice2Group", "removeDeviceFromGroup", "insertGroupInfo",
                      "deleteGroupInfo"}
  <2>1. ASSUME NEW step \in {"insertGroupInfo", "deleteGroupInfo"}, ChangeDevices(t, step)
        PROVE  /\ UNCHANGED <<groupAddressData, reported, statusListData, disturbed>>
               /\ Head(r) = step
    BY <2>1 DEF ChangeDevices, Whole, Call, files
  <2>2. ASSUME NEW step, ChangeGroups(t, step)
        PROVE  /\ UNCHANGED <<groupAddressData, reported, statusListData, disturbed>>
               /\ Head(r) = step
    BY <2>2 DEF ChangeGroups, Enter, Call, files, lists
  <2> QED BY <2>1, <2>2
<1>2. job[t].kind = "group" /\ Works(t) /\ d \in Device
  BY <1>1, CallContext, CourseTable DEF Works, Listing, JobDevice, TypeInv
<1>3. (Own(t)' => SoFar(t) /\ Own(t)) /\ job' = job
  BY <1>2, CallContext DEF ListParts, InCourse, Own, Calm
<1>4. Own(t)' => /\ Listed(d) <=> HasStatus(d)
                 /\ d \in groupAddrMap => Listed(d) \/ d \in strays
                 /\ Head(r) = "insertGroupInfo" => d \in groupAddrMap
  BY <1>2, <1>3 DEF SoFar
<1>5. AsReported'
  BY <1>1 DEF ListParts, AsReported
<1>6. ASSUME NEW step \in {"addDevice2Group", "removeDeviceFromGroup"}, ChangeGroups(t, step)
      PROVE  ListParts'
  <2>1. /\ groupAddrMap' = IF step = "addDevice2Group" THEN groupAddrMap \cup {d}
                           ELSE groupAddrMap \ {d}
        /\ Head(r) = step /\ deviceListData' = deviceListData
        /\ strays' = (strays \ {d}) \cup ((groupAddrMap' \cap {d}) \ DOMAIN deviceListData)
    BY <1>6 DEF ChangeGroups, Groups, Enter, Call, lists
  <2>2. \A x : x # d => SameFor(x)
    BY <1>1, <2>1 DEF SameFor, Listed, InGroup, HasStatus
  <2>3. /\ Own(t)' => (Listed(d)' <=> HasStatus(d)')
        /\ d \in groupAddrMap' => Listed(d)' \/ d \in strays'
    BY <1>1, <1>3, <1>4, <2>1 DEF Listed, HasStatus
  <2>4. Busy(t)' /\ Head(todo'[t]) = "saveGroupListData" /\ todo'[t] = Tail(r)
    BY <2>1, CallContext, CourseTable
  <2>5. NextIs(todo'[t], "insertGroupInfo") => step = "addDevice2Group" /\ d \in groupAddrMap'
    BY <2>1, <2>4, CallContext, CourseTable
  <2>6. (Own(t)' => SoFar(t)') /\ Amid(t)'
    <3>1. Amid(t)'
      BY <1>2, <1>3, <2>4 DEF Amid, Works
    <3>2. ASSUME Own(t)'
          PROVE  SoFar(t)'
      <4>1. /\ job'[t].device = d /\ job'[t].kind = "group"
            /\ Listed(d)' <=> HasStatus(d)'
        BY <1>2, <1>3, <2>3, <3>2
      <4> QED BY <2>3, <2>4, <2>5, <4>1 DEF SoFar, Listed, HasStatus
    <3> QED BY <3>1, <3>2
  <2>7. GroupFileInv'
    <3>1. At(t, "saveGroupListData")'
      BY <2>4 DEF At
    <3> QED BY <1>1, <1>3, <2>1, <3>1, CallContext, GroupFileChanges DEF ListParts
  <2> QED BY <1>2, <1>3, <1>5, <2>1, <2>2, <2>6, <2>7, CallContext, OneDeviceStep
          DEF ListParts
<1>7. ASSUME NEW step \in {"insertGroupInfo", "deleteGroupInfo"}, ChangeDevices(t, step)
      PROVE  ListParts'
  <2>1. /\ deviceListData' =
             Overwrite(deviceListData, d, IF step = "insertGroupInfo" THEN "grouped" ELSE "alone")
        /\ Head(r) = step /\ UNCHANGED <<groupAddrMap, strays>>
    BY <1>7 DEF ChangeDevices, Devices, Whole, Call
  <2>2. \A x : x # d => SameFor(x)
    BY <1>1, <2>1 DEF SameFor, Listed, InGroup, HasStatus, Overwrite
  <2>3. /\ Listed(d)' <=> Listed(d)
        /\ HasStatus(d)' <=> HasStatus(d)
        /\ InGroup(d)' => step = "insertGroupInfo"
    BY <1>1, <1>3, <2>1 DEF Listed, InGroup, HasStatus, Overwrite
  <2>4. ~Busy(t)'
    BY <2>1, CallContext, CourseTable
  <2>5. (Own(t)' => Consistent(d)') /\ ~Amid(t)'
    <3>1. ~Amid(t)'
      BY <2>4 DEF Amid, Works
    <3>2. ASSUME Own(t)'
          PROVE  Consistent(d)'
      <4>1. /\ Listed(d)' <=> HasStatus(d)'
            /\ InGroup(d)' => d \in groupAddrMap'
            /\ d \in groupAddrMap' => Listed(d)' \/ d \in strays'
        BY <1>4, <2>1, <2>3, <3>2
      <4> QED BY <1>3, <4>1 DEF Consistent
    <3> QED BY <3>1, <3>2
  <2>6. GroupFileInv'
    <3>1. CASE step = "deleteGroupInfo"
      <4>1. \A x \in Calm' : InGroup(x)' => InGroup(x)
        BY <1>3, <2>2, <2>3, <3>1, SameIsSame
      <4> QED BY <1>1, <2>1, <4>1, CallContext, GroupFileStays DEF ListParts
    <3>2. CASE step = "insertGroupInfo"
      <4>1. At(t, "insertGroupInfo")
        BY <2>1, <3>2, CallContext DEF At
      <4> SUFFICES ASSUME NEW x \in Calm'
                   PROVE  \/ x \in groupAddressData' <=> x \in groupAddrMap'
                          \/ /\ x \notin groupAddressData' /\ ~InGroup(x)'
                             /\ \A u \in Thread : At(u, "insertGroupInfo")' => job'[u].device # x
                          \/ \E u \in Thread : At(u, "saveGroupListData")' /\ job'[u].device = x
        BY DEF GroupFileInv
      <4>2. x \in Calm /\ (x # d => (InGroup(x)' <=> InGroup(x)))
        BY <1>1, <1>3, <2>2, SameIsSame DEF Calm
      <4>3. \A u \in Thread :
               /\ At(u, "insertGroupInfo")' => At(u, "insertGroupInfo")
               /\ At(u, "saveGroupListData") => At(u, "saveGroupListData")'
        BY <2>1, <3>2, CallContext
      <4>4. CASE x # d
        BY <1>1, <1>3, <2>1, <4>2, <4>3, <4>4 DEF ListParts, GroupFileInv
      <4>5. CASE x = d
        <5>1. ASSUME NEW u \in Thread, At(u, "saveGroupListData")
              PROVE  job[u].device # x
          <6>1. u # t /\ Own(t)
            BY <2>1, <3>2, <4>2, <4>5, <5>1 DEF At, Own
          <6>2. job[u].kind \in {"unbind", "force", "group"} /\ Busy(u)
            BY <5>1, CourseOfThread, CourseTable DEF At, Busy, TypeInv
          <6>3. Works(u)
            BY <6>2 DEF Works, Listing
          <6> QED BY <1>2, <4>5, <6>1, <6>3 DEF ListParts, Apart
        <5> QED BY <1>1, <2>1, <4>1, <4>2, <4>5, <5>1 DEF ListParts, GroupFileInv
      <4> QED BY <4>4, <4>5
    <3> QED BY <3>1, <3>2
  <2> QED BY <1>2, <1>3, <1>5, <2>1, <2>2, <2>4, <2>5, <2>6, CallContext, OneDeviceStep
          DEF ListParts
<1> QED BY <1>6, <1>7

LEMMA SaveGroupCall ==
    ASSUME TypeInv, ListParts, NEW t \in Thread, Calls(t), SaveGroupListData(t)
    PROVE  ListParts'
<1> DEFINE r == todo[t]
           k == job[t].kind
           d == job[t].device
<1>1. /\ UNCHANGED <<strays, reported, statusListData, deviceListData, groupAddrMap, disturbed>>
      /\ groupAddressData' = groupAddrMap /\ Head(r) = "saveGroupListData"
  BY DEF SaveGroupListData, Exit, Call, lists, history
<1>2. k \in {"unbind", "force", "group"} /\ Works(t)
  BY <1>1, CallContext, CourseTable DEF Works, Listing
<1>3. (Own(t)' => SoFar(t) /\ Own(t)) /\ job' = job
  BY <1>1, <1>2, CallContext DEF ListParts, InCourse, Own, Calm
<1>4. \A x : SameFor(x)
  BY <1>1 DEF SameFor, Listed, InGroup, HasStatus
<1>5. AsReported' /\ GroupFileInv'
  BY <1>1 DEF ListParts, AsReported, GroupFileInv
<1>6. CASE k \in {"unbind", "force"}
  <2>1. ~Busy(t)'
    BY <1>1, <1>6, CallContext, CourseTable
  <2>2. (Own(t)' => Consistent(d)') /\ ~Amid(t)'
    BY <1>1, <1>3, <1>4, <1>6, <2>1, SameIsSame DEF SoFar, Consistent, InGroup, Amid, Works
  <2> QED BY <1>2, <1>3, <1>4, <1>5, <1>6, <2>1, <2>2, CallContext, OneDeviceStep DEF ListParts
<1>7. CASE k = "group"
  <2>1. /\ Busy(t)' /\ Head(todo'[t]) \in {"insertGroupInfo", "deleteGroupInfo"}
        /\ Head(todo'[t]) = "insertGroupInfo" => NextIs(r, "insertGroupInfo")
    BY <1>1, <1>7, CallContext, CourseTable DEF NextIs
  <2>2. Own(t)' =>
        /\ Listed(d)' <=> HasStatus(d)'
        /\ d \in groupAddrMap' => Listed(d)' \/ d \in strays'
        /\ Head(todo'[t]) = "insertGroupInfo" => d \in groupAddrMap'
    BY <1>1, <1>3, <1>4, <1>7, <2>1, SameIsSame DEF SoFar
  <2>3. (Own(t)' => SoFar(t)') /\ Amid(t)'
    BY <1>2, <1>3, <1>7, <2>1, <2>2 DEF SoFar, Amid, Works
  <2> QED BY <1>2, <1>3, <1>4, <1>5, <1>7, <2>3, CallContext, OneDeviceStep DEF ListParts
<1> QED BY <1>2, <1>6, <1>7

LEMMA ResetCall ==
    ASSUME TypeInv, ListParts, NEW t \in Thread, Calls(t),
           \/ ClearSnAddressData(t) \/ ChangeDevices(t, "clearDeviceList")
           \/ ClearGroupList(t) \/ ClearStatusList(t)
    PROVE  ListParts'
<1> DEFINE r == todo[t]
<1>1. /\ UNCHANGED <<reported, groupAddrMap, disturbed>>
      /\ Head(r) \in {"clearSnAddressData", "clearDeviceList", "clearGroupList",
                      "clearStatusList"}
  <2>1. CASE ClearSnAddressData(t)
    BY <2>1 DEF ClearSnAddressData, Whole, Call
  <2>2. CASE ChangeDevices(t, "clearDeviceList")
    BY <2>2 DEF ChangeDevices, Whole, Call
  <2>3. CASE ClearGroupList(t)
    BY <2>3 DEF ClearGroupList, Whole, Call, history
  <2>4. CASE ClearStatusList(t)
    BY <2>4 DEF ClearStatusList, Whole, Call, history
  <2> QED BY <2>1, <2>2, <2>3, <2>4
<1>2. job[t].kind = "reset" /\ Works(t)
  BY <1>1, CallContext, CourseTable DEF Works, Listing
<1>3. SoFarReset(t) /\ job' = job /\ Calm' = Calm
  BY <1>1, <1>2, CallContext DEF ListParts, InCourse, Calm
<1>4. \A u \in Thread : u # t /\ Works(u) => ~Own(u)
  BY <1>2 DEF ListParts, Apart
<1>6. CASE ClearSnAddressData(t)
  <2>1. /\ UNCHANGED <<deviceListData, statusListData, groupAddressData, strays>>
        /\ Head(r) = "clearSnAddressData"
    BY <1>6 DEF ClearSnAddressData, Whole, Call, lists
  <2>2. Busy(t)' /\ Head(todo'[t]) = "clearDeviceList"
    BY <2>1, CallContext, CourseTable
  <2>3. SoFar(t)' /\ SoFarReset(t)'
    BY <1>2, <1>3, <2>2 DEF SoFar, SoFarReset
  <2>4. \A x : SameFor(x)
    BY <1>1, <2>1 DEF SameFor, Listed, InGroup, HasStatus
  <2>5. ASSUME NEW d \in Calm, Clear(d)'
        PROVE  Consistent(d)'
    <3>1. ~Amid(t)
      BY <2>1 DEF Amid
    <3>2. \A u \in Thread : Amid(u) => Amid(u)' /\ job'[u] = job[u]
      BY <1>3, <3>1, CallContext DEF Amid, Works, Busy
    <3>3. Clear(d)
      BY <2>5, <3>2 DEF Clear
    <3> QED BY <2>4, <3>3, SameIsSame DEF ListParts, ClearConsistent
  <2>6. GroupFileInv'
    BY <1>1, <2>1, <2>4, CallContext, GroupFileStays, SameIsSame DEF ListParts
  <2>7. AsReported'
    BY <1>1, <2>1 DEF ListParts, AsReported
  <2> QED BY <1>1, <1>2, <1>3, <2>1, <2>3, <2>4, <2>5, <2>6, <2>7, CallContext, ResetStep,
             SameIsSame DEF ListParts
<1>7. CASE ChangeDevices(t, "clearDeviceList")
  <2>1. /\ deviceListData' = NoList /\ strays' = strays \cup groupAddrMap
        /\ UNCHANGED <<statusListData, groupAddressData>>
        /\ Head(r) = "clearDeviceList"
    BY <1>7 DEF ChangeDevices, Devices, Whole, Call, files
  <2>2. Busy(t)' /\ Head(todo'[t]) = "clearGroupList"
    BY <2>1, CallContext, CourseTable
  <2>3. \A d : ~Listed(d)' /\ ~InGroup(d)' /\ (d \in groupAddrMap' => d \in strays')
    BY <1>1, <2>1 DEF Listed, InGroup, NoList
  <2>4. SoFar(t)' /\ SoFarReset(t)'
    BY <1>2, <1>3, <2>2, <2>3 DEF SoFar, SoFarReset
  <2>5. Amid(t)'
    BY <1>2, <1>3, <2>2 DEF Amid, Works
  <2>6. GroupFileInv'
    BY <1>1, <1>3, <2>1, <2>3, CallContext, GroupFileStays DEF ListParts
  <2>7. AsReported'
    BY <1>1, <2>1 DEF ListParts, AsReported
  <2> QED BY <1>1, <1>2, <1>3, <2>1, <2>3, <2>4, <2>5, <2>6, <2>7, CallContext, ResetStep
          DEF ListParts
<1>8. CASE ClearGroupList(t)
  <2>1. /\ UNCHANGED <<deviceListData, statusListData, strays>>
        /\ groupAddressData' = {} /\ Head(r) = "clearGroupList"
    BY <1>8 DEF ClearGroupList, Whole, Call, lists, history
  <2>2. Busy(t)' /\ Head(todo'[t]) = "clearStatusList"
    BY <2>1, CallContext, CourseTable
  <2>3. \A d \in Calm : ~Listed(d)' /\ ~InGroup(d)' /\ (d \in groupAddrMap' => d \in strays')
    BY <1>1, <1>2, <1>3, <2>1 DEF SoFarReset, Listed, InGroup
  <2>4. SoFar(t)' /\ SoFarReset(t)'
    BY <1>2, <1>3, <2>2, <2>3 DEF SoFar, SoFarReset
  <2>5. Amid(t)'
    BY <1>2, <1>3, <2>2 DEF Amid, Works
  <2>6. \A u \in Thread : At(u, "insertGroupInfo")' => job'[u].device \notin Calm
    <3> SUFFICES ASSUME NEW u \in Thread, At(u, "insertGroupInfo")
                 PROVE  ~Own(u)
      BY <1>3, <2>1, CallContext DEF Own
    <3>1. job[u].kind = "group" /\ Busy(u) /\ u # t
      BY <2>1, CourseOfThread, CourseTable DEF At, Busy, TypeInv
    <3> QED BY <1>4, <3>1 DEF Works, Listing
  <2>7. GroupFileInv'
    BY <1>3, <2>1, <2>3, <2>6 DEF GroupFileInv
  <2>8. AsReported'
    BY <1>1, <2>1 DEF ListParts, AsReported
  <2>9. \A d \in Calm : Listed(d)' => Listed(d)
    BY <2>3
  <2> QED BY <1>1, <1>2, <1>3, <2>1, <2>4, <2>5, <2>7, <2>8, <2>9, CallContext, ResetStep
          DEF ListParts
<1>9. CASE ClearStatusList(t)
  <2>1. /\ UNCHANGED <<deviceListData, groupAddressData, strays>>
        /\ statusListData' = NoList /\ Head(r) = "clearStatusList"
    BY <1>9 DEF ClearStatusList, Whole, Call, files, history
  <2>2. ~Busy(t)'
    BY <2>1, CallContext, CourseTable
  <2>3. \A d \in Calm : /\ ~Listed(d)' /\ ~InGroup(d)' /\ ~HasStatus(d)'
                        /\ d \in groupAddrMap' => d \in strays'
    BY <1>1, <1>2, <1>3, <2>1 DEF SoFarReset, Listed, InGroup, HasStatus, NoList
  <2>4. \A d \in Calm : Consistent(d)'
    BY <2>3 DEF Consistent
  <2>5. \A d \in Calm : Listed(d)' => Listed(d)
    BY <2>3
  <2>6. GroupFileInv'
    BY <1>1, <1>3, <2>1, <2>3, CallContext, GroupFileStays DEF ListParts
  <2>7. AsReported'
    BY <2>1 DEF AsReported, NoList
  <2> QED BY <1>1, <1>2, <1>3, <2>1, <2>2, <2>4, <2>5, <2>6, <2>7, CallContext, ResetStep
          DEF ListParts
<1> QED BY <1>6, <1>7, <1>8, <1>9

LEMMA ListCall ==
    ASSUME TypeInv, ListParts, NEW t \in Thread, Calls(t)
    PROVE  ListParts'
<1>1. ASSUME NEW step \in GroupSteps, ChangeGroups(t, step)
      PROVE  ListParts'
  BY <1>1, UnbindCall, GroupCall DEF GroupSteps
<1>2. ASSUME NEW step \in DeviceSteps, ChangeDevices(t, step)
      PROVE  ListParts'
  BY <1>2, BindCall, UnbindCall, GroupCall, ResetCall DEF DeviceSteps
<1> QED BY <1>1, <1>2, QuietCall, NeutralCall, BindCall, UnbindCall, SaveGroupCall, ResetCall
        DEF Calls

LEMMA ListBegin ==
    ASSUME TypeInv, ListParts, BeginSome
    PROVE  ListParts'
<1>1. PICK t \in Thread, k \in Kinds, d \in Device \cup {NoDevice},
           a \in Address \cup {NoAddress}, v \in Power :
           \E s \in ProgramsOf(k) : BeginsAs(t, s, k, d, a, v)
  BY BeginsWith DEF TypeInv
<1>2. PICK s \in ProgramsOf(k) : BeginsAs(t, s, k, d, a, v)
  BY <1>1
<1>3. Begin(t, s, k, d, a, v)
  BY <1>2 DEF BeginsAs
<1>4. /\ ~Busy(t) /\ disturbed' = disturbed \cup Met(k, d)
      /\ UNCHANGED <<deviceListData, statusListData, groupAddrMap, groupAddressData,
                     reported, strays>>
  BY <1>3 DEF Begin, lists, files
<1>5. /\ job'[t].kind = k /\ job'[t].device = d /\ todo'[t] = s
      /\ \A u \in Thread : u # t => job'[u] = job[u] /\ todo'[u] = todo[u]
  BY <1>3 DEF Begin, TypeInv, TypeOK
<1>6. \A x : SameFor(x)
  BY <1>4 DEF SameFor, Listed, InGroup, HasStatus
<1>7. /\ \A u \in Thread : u # t => (Works(u)' <=> Works(u)) /\ (Amid(u)' <=> Amid(u))
      /\ \A u \in Thread : u # t /\ Own(u)' => Own(u)
      /\ Calm' \subseteq Calm
  BY <1>4, <1>5 DEF Works, Amid, Busy, Own, Calm
<1>8. ASSUME NEW u \in Thread, Works(u), k \in Listing, NEW e \in Calm',
             e \in {d, job[u].device}
      PROVE  d # job[u].device /\ k # "reset" /\ job[u].kind # "reset"
  BY <1>4, <1>8 DEF Met, Works, Calm
<1>9. Busy(t)' => /\ Head(todo'[t]) \notin {"saveGroupListData", "insertGroupInfo"}
                  /\ ~Amid(t)'
                  /\ Head(todo'[t]) \notin
                       {"getStatusListData", "saveStatusListData", "deleteStatusItem",
                        "removeDeviceFromAnyGroup", "clearGroupList", "clearStatusList"}
  <2> SUFFICES ASSUME s # <<>>
               PROVE  /\ Head(s) \notin {"saveGroupListData", "insertGroupInfo"}
                      /\ Head(s) \notin
                           {"getStatusListData", "saveStatusListData", "deleteStatusItem",
                            "removeDeviceFromAnyGroup", "saveGroupListData", "insertGroupInfo",
                            "deleteGroupInfo", "clearGroupList", "clearStatusList"}
    BY <1>5 DEF Busy, Amid
  <2> QED BY ProgramHeads
<1>10. ~Amid(t) /\ ~Amid(t)'
  BY <1>4, <1>9 DEF Amid, Works
<1>11. Apart'
  <2> SUFFICES ASSUME NEW u \in Thread, NEW w \in Thread, u # w, Works(u)', Works(w)', Own(u)'
               PROVE  job'[w].device # job'[u].device /\ job'[w].kind # "reset"
    BY DEF Apart
  <2>1. CASE u = t
    <3>1. Works(w) /\ job'[w] = job[w] /\ k \in Listing /\ d \in Calm'
      BY <1>5, <1>7, <2>1 DEF Works, Own
    <3> QED BY <1>5, <1>8, <2>1, <3>1
  <2>2. CASE w = t
    <3>1. Works(u) /\ job'[u] = job[u] /\ k \in Listing /\ job[u].device \in Calm'
      BY <1>5, <1>7, <2>2 DEF Works, Own
    <3> QED BY <1>5, <1>8, <2>2, <3>1
  <2>3. CASE u # t /\ w # t
    <3>1. /\ Works(u) /\ Works(w) /\ Own(u)
          /\ job'[u] = job[u] /\ job'[w] = job[w]
      BY <1>5, <1>7, <2>3
    <3> QED BY <3>1 DEF ListParts, Apart
  <2> QED BY <2>1, <2>2, <2>3
<1>12. ASSUME NEW u \in Thread, Works(u)'
       PROVE  (Own(u)' => SoFar(u)') /\ SoFarReset(u)'
  <2>1. CASE u = t
    <3>1. k \in Listing /\ Busy(t)'
      BY <1>5, <1>12, <2>1 DEF Works
    <3>2. ASSUME k = "group", Own(t)'
          PROVE  /\ Listed(d)' <=> HasStatus(d)'
                 /\ d \in groupAddrMap' => Listed(d)' \/ d \in strays'
      <4>1. d \in Calm' /\ d \in Calm
        BY <1>5, <1>7, <3>2 DEF Own
      <4>2. Clear(d)
        <5> SUFFICES ASSUME NEW w \in Thread, Amid(w)
                     PROVE  d # job[w].device /\ job[w].kind # "reset"
          BY DEF Clear
        <5>1. Works(w)
          BY DEF Amid
        <5> QED BY <1>8, <3>1, <4>1, <5>1
      <4>3. Consistent(d)
        BY <4>1, <4>2 DEF ListParts, ClearConsistent
      <4> QED BY <1>6, <4>3, SameIsSame DEF Consistent
    <3>3. SoFarReset(t)'
      BY <1>9, <3>1 DEF SoFarReset
    <3>4. Own(t)' => SoFar(t)'
      BY <1>5, <1>9, <3>1, <3>2 DEF SoFar
    <3> QED BY <2>1, <3>3, <3>4
  <2>2. CASE u # t
    <3>1. /\ Works(u) /\ job'[u] = job[u] /\ todo'[u] = todo[u]
          /\ Own(u)' => Own(u)
      BY <1>5, <1>7, <1>12, <2>2
    <3>2. Own(u)' => SoFar(u)'
      BY <1>6, <3>1, SoFarStays DEF ListParts, InCourse
    <3>3. SoFarReset(u)'
      BY <1>6, <1>7, <3>1, SameIsSame DEF ListParts, InCourse, SoFarReset, SameFor
    <3> QED BY <3>2, <3>3
  <2> QED BY <2>1, <2>2
<1>13. ASSUME NEW x \in Calm', Clear(x)'
       PROVE  Consistent(x)'
  <2>1. Clear(x)
    <3>1. \A u \in Thread : Amid(u) => u # t /\ Amid(u)'
      BY <1>7, <1>10
    <3> QED BY <1>5, <1>13, <3>1 DEF Clear
  <2> QED BY <1>6, <1>7, <2>1, SameIsSame DEF ListParts, ClearConsistent
<1>14. GroupFileInv'
  <2>1. \A u \in Thread : At(u, "insertGroupInfo")' =>
            At(u, "insertGroupInfo") /\ job'[u] = job[u]
    BY <1>5, <1>9 DEF At, Busy
  <2>2. \A u \in Thread : At(u, "saveGroupListData") =>
            At(u, "saveGroupListData")' /\ job'[u] = job[u]
    BY <1>4, <1>5 DEF At, Busy
  <2> QED BY <1>4, <1>6, <2>1, <2>2, GroupFileStays, SameIsSame DEF ListParts
<1>15. AsReported'
  BY <1>4 DEF ListParts, AsReported
<1> QED BY <1>11, <1>12, <1>13, <1>14, <1>15 DEF ListParts, InCourse, ClearConsistent

LEMMA ListRestart ==
    ASSUME TypeInv, ListParts, Restart
    PROVE  ListParts'
<1>1. /\ \A t \in Thread : ~Busy(t)'
      /\ groupAddrMap' = groupAddressData
      /\ disturbed' = disturbed \cup {d \in Device : ~Untouched(d)}
      /\ UNCHANGED <<deviceListData, statusListData, groupAddressData, reported, strays>>
  BY DEF Restart, Busy, lists, files
<1>2. ASSUME NEW d \in Calm'
      PROVE  Consistent(d)'
  <2>1. d \in Calm /\ Untouched(d)
    BY <1>1 DEF Calm
  <2>2. Clear(d)
    BY <2>1 DEF Clear, Amid, Works, Untouched
  <2>3. Consistent(d)
    BY <2>1, <2>2 DEF ListParts, ClearConsistent
  <2>4. ~\E t \in Thread : At(t, "saveGroupListData") /\ job[t].device = d
    <3> SUFFICES ASSUME NEW t \in Thread, At(t, "saveGroupListData"), job[t].device = d
                 PROVE  FALSE
      OBVIOUS
    <3>1. job[t].kind \in {"unbind", "force", "group"} /\ Busy(t)
      BY CourseOfThread, CourseTable DEF At, Busy, TypeInv
    <3> QED BY <2>1, <3>1 DEF Untouched, Listing
  <2>5. (d \in groupAddressData <=> d \in groupAddrMap) \/ (d \notin groupAddressData /\ ~InGroup(d))
    BY <2>1, <2>4 DEF ListParts, GroupFileInv
  <2> QED BY <1>1, <2>3, <2>5 DEF Consistent, Listed, InGroup, HasStatus
<1>3. GroupFileInv' /\ AsReported'
  BY <1>1 DEF ListParts, GroupFileInv, AsReported
<1> QED BY <1>1, <1>2, <1>3 DEF ListParts, Apart, InCourse, ClearConsistent, Works

LEMMA ListInvInit ==
    ASSUME Init
    PROVE  ListInv
<1>1. TypeInv
  BY TypeInvInit
<1>2. \A t \in Thread : ~Busy(t)
  BY DEF Init, Busy
<1>3. AsReported /\ GroupFileInv /\ \A d \in Device : Consistent(d)
  BY DEF Init, AsReported, GroupFileInv, Consistent, Listed, InGroup, HasStatus, NoList
<1> QED BY <1>1, <1>2, <1>3
        DEF ListInv, ListParts, Apart, InCourse, ClearConsistent, Works, Calm

LEMMA ListInvStep ==
    ASSUME ListInv, [Next]_vars
    PROVE  ListInv'
<1>1. TypeInv /\ TypeInv' /\ ListParts
  BY TypeInvStep DEF ListInv
<1>2. CASE UNCHANGED vars
  <2>1. ListParts'
    BY <1>1, <1>2 DEF ListParts, Apart, AsReported, GroupFileInv, InCourse, ClearConsistent,
       Clear, Consistent, SoFar, SoFarReset, Amid, Works, Busy, At, Listed, InGroup, HasStatus,
       NextIs, Own, Calm, vars, locals, lists, files, history
  <2> QED BY <1>1, <2>1 DEF ListInv
<1>3. CASE Next
  <2>1. ListParts'
    BY <1>1, <1>3, ListBegin, ListCall, ListRestart DEF Next
  <2> QED BY <1>1, <2>1 DEF ListInv
<1> QED BY <1>2, <1>3

LEMMA ListInvAgrees ==
    ASSUME ListInv
    PROVE  ListsAgree
<1> SUFFICES ASSUME NEW d \in Device \ disturbed, Untouched(d)
             PROVE  /\ d \in DOMAIN deviceListData <=> d \in DOMAIN statusListData
                    /\ d \in DOMAIN statusListData => statusListData[d] = reported[d]
                    /\ d \in DOMAIN deviceListData /\ deviceListData[d] = "grouped" =>
                         d \in groupAddrMap
                    /\ d \in groupAddrMap => d \in DOMAIN deviceListData \cup strays
  BY DEF ListsAgree
<1>1. Clear(d) /\ d \in Calm
  BY DEF Untouched, Clear, Amid, Works, Calm
<1> QED BY <1>1 DEF ListInv, ListParts, ClearConsistent, AsReported, Consistent, Listed,
           InGroup, HasStatus

\* For any number of devices, threads, requests, reports and restarts: the device
\* list, the status list and the group agree on every device no operation is in
\* the middle of, whatever lists the clients save and whichever devices they ask
\* for, but for the devices on which two operations have met.
THEOREM ListsAgreeHolds == Spec => []ListsAgree
<1>1. Init => ListInv
  BY ListInvInit
<1>2. ListInv /\ [Next]_vars => ListInv'
  BY ListInvStep
<1>3. ListInv => ListsAgree
  BY ListInvAgrees
<1> QED BY <1>1, <1>2, <1>3, PTL DEF Spec
=============================================================================
