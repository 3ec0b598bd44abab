------------------------------ MODULE BleConfig ------------------------------
(***************************************************************************)
(* The lists of the BLE site (src/unit/bleSite/sourceManage) and their     *)
(* locks: bleConfig keeps devices, statuses and levels, SnAddressMap the   *)
(* addresses, GroupAddressMap the groups, each under a recursive mutex of  *)
(* its own, each saved to a file through bleConfig.  Requests run on the   *)
(* threads of the pool and of the HTTP server, reports on the package      *)
(* thread; each is a sequence of calls, and a call that needs two locks    *)
(* takes them in two steps.                                                *)
(*                                                                         *)
(* There is one group; of a level and of a device's properties only their  *)
(* presence is kept.  BindDevice has what binding waits for; here a        *)
(* binding just succeeds or fails.                                         *)
(***************************************************************************)
EXTENDS Integers, Sequences

CONSTANTS
    Device, NoDevice,
    Worker,             \* threads of the pool and of the server
    PackageThread,
    NoThread,           \* a lock nobody holds
    LastStored,         \* the last address of the form xx02; 255 in the code
    MaxBinds,           \* bound: addresses given, none of the form xxC0
    MaxOps              \* bound: requests, reports and restarts, with one restart
                        \* more than that

ASSUME NamesAssumption ==
    /\ NoDevice \notin Device
    /\ PackageThread \notin Worker /\ NoThread \notin Worker \cup {PackageThread}
ASSUME BoundAssumption == LastStored \in Nat /\ MaxBinds \in Nat /\ MaxOps \in Nat

Thread    == Worker \cup {PackageThread}
Locks     == {"bleConfig", "SnAddressMap", "GroupAddressMap"}
Address   == 1..MaxBinds
NoAddress == 0
Power     == {"on", "off"}
GroupInfo == {"alone", "grouped"}

VARIABLES
    owner,              \* of each rMutex_: the thread that holds it
    todo,               \* calls a thread has still to make
    job,                \* what it is for: kind, device, address, value
    read,               \* the list a thread has read and will write back
    snAddrMap, index,   \* SnAddressMap: each device's address; the next one
    snAddressData,      \* its file: NoAddress for a device without entry
    indexData,          \* the next address in the file; 1 when it has none
    deviceListData,     \* listed devices: whether the item names the group
    statusListData,     \* devices with a status: the power
    groupAddrMap,       \* GroupAddressMap: members of the group
    groupAddressData,   \* its file
    devGrpValueMap,     \* addresses of devices that have levels
    statusFile,         \* data/status.json: address and device of each level
    ops,                \* count for the bound
    reported,           \* history: the last power reported of a device
    strays,             \* history: members of the group without list entry
    disturbed,          \* history: devices whose entries operations have met on
    orphaned            \* history: addresses taken from a device

locals   == <<job, read, ops>>
sn       == <<snAddrMap, index>>
lists    == <<deviceListData, statusListData>>
snFile   == <<snAddressData, indexData>>
files    == <<snFile, groupAddressData, statusFile>>
history  == <<reported, strays, disturbed, orphaned>>
vars     == <<owner, todo, locals, sn, lists, groupAddrMap, devGrpValueMap,
              files, history>>

NoList == [d \in {} |-> "on"]
NoJob  == [kind |-> "none", device |-> NoDevice, address |-> NoAddress, value |-> "on"]

Put(f, k, v) == [x \in DOMAIN f \cup {k} |-> IF x = k THEN v ELSE f[x]]
Overwrite(f, k, v) == IF k \in DOMAIN f THEN [f EXCEPT ![k] = v] ELSE f
Drop(f, k)   == [x \in DOMAIN f \ {k} |-> f[x]]

-----------------------------------------------------------------------------
(* The calls each operation makes, in their order.                          *)

BindSteps(ok) ==
    IF ok THEN <<"getAddress", "saveSnAddrData", "insertDeviceItem",
                 "getStatusListData", "saveStatusListData">>
          ELSE <<"getAddress", "saveSnAddrData", "deleteDeviceSn", "saveSnAddrData">>

\* Faulty: the status is left.
UnbindKeepsStatus ==
    <<"deleteDeviceSn", "saveSnAddrData", "deleteDeviceItem",
      "removeDeviceFromAnyGroup", "saveGroupListData">>

UnbindSteps ==
    <<"deleteDeviceSn", "saveSnAddrData", "deleteDeviceItem", "deleteStatusItem",
      "removeDeviceFromAnyGroup", "saveGroupListData">>

UnbindForceSteps ==
    <<"deleteDeviceItem", "deleteStatusItem", "removeDeviceFromAnyGroup", "saveGroupListData">>

ResetSteps ==
    <<"clearSnAddressData", "clearDeviceList", "clearGroupList", "clearStatusList">>

Add2GroupSteps   == <<"addDevice2Group", "saveGroupListData", "insertGroupInfo">>
DelFromGroupSteps == <<"removeDeviceFromGroup", "saveGroupListData", "deleteGroupInfo">>
ControlSteps     == <<"storeLuminance", "storeDevGrpStatus2File">>
DeviceConfigSteps == <<"getDeviceListData", "saveDeviceListData">>
SaveListSteps    == <<"saveDeviceListData">>
ReportSteps      == <<"updateStatusListData">>

SnSteps    == {"getAddress", "deleteDeviceSn"}
GroupSteps == {"addDevice2Group", "removeDeviceFromGroup", "removeDeviceFromAnyGroup"}
DeviceSteps == {"insertDeviceItem", "deleteDeviceItem", "clearDeviceList",
                "insertGroupInfo", "deleteGroupInfo"}
Steps ==
    SnSteps \cup GroupSteps \cup DeviceSteps \cup
    {"saveSnAddrData", "saveGroupListData", "storeLuminance", "storeDevGrpStatus2File",
     "getStatusListData", "saveStatusListData", "deleteStatusItem",
     "updateStatusListData", "clearStatusList", "getDeviceListData",
     "saveDeviceListData", "clearSnAddressData", "clearGroupList"}

\* Faulty: a group's name is asked for while bleConfig is locked.
LocksGroupsToo(step) ==
    IF step \in SnSteps THEN "SnAddressMap"
    ELSE IF step \in GroupSteps \cup {"storeDevGrpStatus2File"} THEN "GroupAddressMap"
    ELSE "bleConfig"

\* isDevAddress: the high byte is 02.  The levels of later addresses are not
\* written.
StoredLevels == {a \in devGrpValueMap : a <= LastStored}

\* The lock a call needs next.  createStatusItem asks SnAddressMap for the
\* device of each level, and for none when only groups have been controlled.
LockOf(step) ==
    IF step \in SnSteps \/ (step = "storeDevGrpStatus2File" /\ StoredLevels # {})
    THEN "SnAddressMap"
    ELSE IF step \in GroupSteps THEN "GroupAddressMap"
    ELSE "bleConfig"

Busy(t)    == todo[t] # <<>>
Waiting(t) == Busy(t) /\ owner[LockOf(Head(todo[t]))] \notin {NoThread, t}

Address2DeviceSn(a) ==
    IF \E d \in Device : snAddrMap[d] = a
    THEN CHOOSE d \in Device : snAddrMap[d] = a ELSE NoDevice

HasSn(d) == d # NoDevice /\ snAddrMap[d] # NoAddress

Init ==
    /\ owner = [l \in Locks |-> NoThread]
    /\ todo = [t \in Thread |-> <<>>] /\ job = [t \in Thread |-> NoJob]
    /\ read = [t \in Thread |-> NoList]
    /\ snAddrMap = [d \in Device |-> NoAddress] /\ snAddressData = snAddrMap
    /\ index = 1 /\ indexData = 1
    /\ deviceListData = NoList /\ statusListData = NoList
    /\ groupAddrMap = {} /\ groupAddressData = {}
    /\ devGrpValueMap = {} /\ statusFile = {}
    /\ ops = 0
    /\ reported = [d \in Device |-> "on"]
    /\ strays = {} /\ disturbed = {} /\ orphaned = {}

-----------------------------------------------------------------------------
(* Operations begin.                                                        *)

Listing == {"bind", "unbind", "force", "group", "reset"}

\* Devices whose entries two operations work on at once; a reset works on all.
Met(kind, d) ==
    {e \in Device : \E t \in Thread :
        /\ Busy(t) /\ {kind, job[t].kind} \subseteq Listing
        /\ e \in {d, job[t].device}
        /\ d = job[t].device \/ "reset" \in {kind, job[t].kind}}

Untouched(d) ==
    \A t \in Thread : Busy(t) /\ job[t].kind \in Listing =>
       d # job[t].device /\ job[t].kind # "reset"

Begin(t, steps, kind, d, a, v) ==
    /\ ~Busy(t) /\ ops < MaxOps
    /\ ops' = ops + 1
    /\ todo' = [todo EXCEPT ![t] = steps]
    /\ job' = [job EXCEPT ![t] = [kind |-> kind, device |-> d, address |-> a, value |-> v]]
    /\ disturbed' = disturbed \cup Met(kind, d)
    /\ UNCHANGED <<owner, read, sn, lists, groupAddrMap, devGrpValueMap, files,
                   reported, strays, orphaned>>

SnFree        == owner["SnAddressMap"] = NoThread
\* bindingFlag: LogicControl::parse refuses everything during a binding.
BindingFlag   == \E t \in Worker : Busy(t) /\ job[t].kind = "bind"

Bind(t, d, ok) ==
    /\ ~BindingFlag /\ index <= MaxBinds
    /\ Begin(t, BindSteps(ok), "bind", d, NoAddress, "on")

\* UnBindResult names the device by its address; there may be none of it.
UnBindResult(a) ==
    /\ SnFree
    /\ Begin(PackageThread, UnbindSteps, "unbind", Address2DeviceSn(a), a, "on")

StatusReport(d, v) ==
    /\ SnFree /\ snAddrMap[d] # NoAddress
    /\ Begin(PackageThread, ReportSteps, "report", d, NoAddress, v)

\* LightUnBindForce, LightAdd2Group, LightDelFromGroup: none for a device
\* without address.
UnbindForce(t, d) ==
    /\ ~BindingFlag /\ SnFree /\ snAddrMap[d] # NoAddress
    /\ Begin(t, UnbindForceSteps, "force", d, NoAddress, "on")

\* The client may ask for any device, listed or not.
ChangeGroup(t, d, steps) ==
    /\ ~BindingFlag /\ SnFree /\ snAddrMap[d] # NoAddress
    /\ Begin(t, steps, "group", d, NoAddress, "on")

\* controlDevice; a group needs no address of a device.
ControlDevice(t, d) ==
    /\ SnFree /\ snAddrMap[d] # NoAddress
    /\ Begin(t, ControlSteps, "control", d, snAddrMap[d], "on")

ControlGroup(t) == Begin(t, ControlSteps, "control", NoDevice, NoAddress, "on")

ResetDevice(t)  == Begin(t, ResetSteps, "reset", NoDevice, NoAddress, "on")

DeviceConfig(t) == Begin(t, DeviceConfigSteps, "config", NoDevice, NoAddress, "on")

SaveDeviceList(t) == Begin(t, SaveListSteps, "save", NoDevice, NoAddress, "on")

BeginSome ==
    \/ \E t \in Worker, d \in Device :
          \/ \E ok \in BOOLEAN : Bind(t, d, ok)
          \/ UnbindForce(t, d) \/ ControlDevice(t, d)
          \/ ChangeGroup(t, d, Add2GroupSteps) \/ ChangeGroup(t, d, DelFromGroupSteps)
    \/ \E t \in Worker :
          ControlGroup(t) \/ ResetDevice(t) \/ DeviceConfig(t) \/ SaveDeviceList(t)
    \/ \E a \in Address : UnBindResult(a)
    \/ \E d \in Device, v \in Power : StatusReport(d, v)

-----------------------------------------------------------------------------
(* Calls.                                                                   *)

Call(t, step) ==
    /\ Busy(t) /\ Head(todo[t]) = step /\ ~Waiting(t)
    /\ todo' = [todo EXCEPT ![t] = Tail(@)]
    /\ UNCHANGED locals

\* A call under one lock.
Whole(t, step) == Call(t, step) /\ UNCHANGED owner

\* A call under two: the first half takes its own lock, the second the other
\* one too, and releases both.
Enter(t, step, lock) == Call(t, step) /\ owner' = [owner EXCEPT ![lock] = t]
Exit(t, step, lock)  == Call(t, step) /\ owner' = [owner EXCEPT ![lock] = NoThread]

\* Its first save, of the index alone, is left to BindDevice.
GetAddress(t) ==
    /\ Enter(t, "getAddress", "SnAddressMap")
    /\ snAddrMap' = [snAddrMap EXCEPT ![job[t].device] = index]
    /\ index' = index + 1
    /\ orphaned' = orphaned \cup ({snAddrMap[job[t].device]} \ {NoAddress})
    /\ UNCHANGED <<lists, groupAddrMap, devGrpValueMap, files, reported, strays, disturbed>>

DeleteDeviceSn(t) ==
    /\ HasSn(job[t].device)
    /\ Enter(t, "deleteDeviceSn", "SnAddressMap")
    /\ snAddrMap' = [snAddrMap EXCEPT ![job[t].device] = NoAddress]
    /\ orphaned' = orphaned \cup {snAddrMap[job[t].device]}
    /\ UNCHANGED <<index, lists, groupAddrMap, devGrpValueMap, files, reported,
                   strays, disturbed>>

\* Nothing to delete: nothing is saved.
DeleteNoDeviceSn(t) ==
    /\ ~HasSn(job[t].device)
    /\ Busy(t) /\ Head(todo[t]) = "deleteDeviceSn" /\ ~Waiting(t)
    /\ todo' = [todo EXCEPT ![t] = Tail(Tail(@))]
    /\ UNCHANGED <<owner, locals, sn, lists, groupAddrMap, devGrpValueMap, files, history>>

\* map2JsonDataAndSave2File
SaveSnAddrData(t) ==
    /\ Exit(t, "saveSnAddrData", "SnAddressMap")
    /\ snAddressData' = snAddrMap /\ indexData' = index
    /\ UNCHANGED <<sn, lists, groupAddrMap, devGrpValueMap, groupAddressData,
                   statusFile, history>>

Groups(t, step) ==
    LET d == job[t].device
    IN  IF step = "addDevice2Group" THEN groupAddrMap \cup {d} ELSE groupAddrMap \ {d}

\* A device that is not listed becomes a member all the same.
ChangeGroups(t, step) ==
    /\ Enter(t, step, "GroupAddressMap")
    /\ groupAddrMap' = Groups(t, step)
    /\ strays' = (strays \ {job[t].device}) \cup
                     ((groupAddrMap' \cap {job[t].device}) \ DOMAIN deviceListData)
    /\ UNCHANGED <<sn, lists, devGrpValueMap, files, reported, disturbed, orphaned>>

SaveGroupListData(t) ==
    /\ Exit(t, "saveGroupListData", "GroupAddressMap")
    /\ groupAddressData' = groupAddrMap
    /\ UNCHANGED <<sn, lists, groupAddrMap, devGrpValueMap, snFile,
                   statusFile, history>>

\* insertDeviceItem, deleteDeviceItem, insertGroupInfo, deleteGroupInfo and
\* clearDeviceList: an item that is inserted again loses its group.
Devices(t, step) ==
    LET d == job[t].device
    IN  CASE step = "insertDeviceItem" -> Put(deviceListData, d, "alone")
          [] step = "deleteDeviceItem" -> Drop(deviceListData, d)
          [] step = "clearDeviceList"  -> NoList
          [] step = "insertGroupInfo"  -> Overwrite(deviceListData, d, "grouped")
          [] step = "deleteGroupInfo"  -> Overwrite(deviceListData, d, "alone")

ChangeDevices(t, step) ==
    /\ Whole(t, step)
    /\ deviceListData' = Devices(t, step)
    /\ strays' = IF step = "clearDeviceList" THEN strays \cup groupAddrMap ELSE strays
    /\ UNCHANGED <<sn, statusListData, groupAddrMap, devGrpValueMap, files, reported,
                   disturbed, orphaned>>

DeleteStatusItem(t) ==
    /\ Whole(t, "deleteStatusItem")
    /\ statusListData' = Drop(statusListData, job[t].device)
    /\ UNCHANGED <<sn, deviceListData, groupAddrMap, devGrpValueMap, files, history>>

UpdateStatusListData(t) ==
    LET d == job[t].device
    IN  /\ Whole(t, "updateStatusListData")
        /\ statusListData' = Overwrite(statusListData, d, job[t].value)
        /\ reported' = [reported EXCEPT ![d] = job[t].value]
        /\ UNCHANGED <<sn, deviceListData, groupAddrMap, devGrpValueMap, files,
                       strays, disturbed, orphaned>>

\* insertDefaultStatus and device_config_service_handler: the lock is not held
\* between the read and the save.
ReadList(t, step, list) ==
    /\ Busy(t) /\ Head(todo[t]) = step /\ ~Waiting(t)
    /\ todo' = [todo EXCEPT ![t] = Tail(@)]
    /\ read' = [read EXCEPT ![t] = list]
    /\ UNCHANGED <<owner, job, ops, sn, lists, groupAddrMap, devGrpValueMap, files, history>>

\* device_config_service_handler copies the list for the devices the request
\* names; a request that names none leaves an empty one.
NewDeviceLists == {deviceListData, NoList}

ReadDeviceList(t) ==
    \E list \in NewDeviceLists : ReadList(t, "getDeviceListData", list)

Entry(list, d) == IF d \in DOMAIN list THEN {list[d]} ELSE {}

\* Devices whose entries a save replaces by others.
Differ(list1, list2) == {d \in Device : Entry(list1, d) # Entry(list2, d)}

SaveStatusListData(t) ==
    /\ Whole(t, "saveStatusListData")
    /\ statusListData' = Put(read[t], job[t].device, "on")
    /\ reported' = [reported EXCEPT ![job[t].device] = "on"]
    /\ disturbed' = disturbed \cup (Differ(statusListData, read[t]) \ {job[t].device})
    /\ UNCHANGED <<sn, deviceListData, groupAddrMap, devGrpValueMap, files, strays, orphaned>>

\* save_deviceList_service_handler saves whatever list the client sends.
ClientLists == UNION {[S -> GroupInfo] : S \in SUBSET Device}
SavedLists(t) == IF job[t].kind = "save" THEN ClientLists ELSE {read[t]}

SaveDeviceListData(t) ==
    /\ Whole(t, "saveDeviceListData")
    /\ deviceListData' \in SavedLists(t)
    /\ disturbed' = disturbed \cup Differ(deviceListData, deviceListData')
    /\ UNCHANGED <<sn, statusListData, groupAddrMap, devGrpValueMap, files,
                   reported, strays, orphaned>>

\* A reset clears files, and leaves SnAddressMap and GroupAddressMap as they are.
ClearSnAddressData(t) ==
    /\ Whole(t, "clearSnAddressData")
    /\ snAddressData' = [d \in Device |-> NoAddress] /\ indexData' = 1
    /\ orphaned' = orphaned \cup ({snAddressData[d] : d \in Device} \ {NoAddress})
    /\ UNCHANGED <<sn, lists, groupAddrMap, devGrpValueMap, groupAddressData,
                   statusFile, reported, strays, disturbed>>

ClearGroupList(t) ==
    /\ Whole(t, "clearGroupList")
    /\ groupAddressData' = {}
    /\ UNCHANGED <<sn, lists, groupAddrMap, devGrpValueMap, snFile,
                   statusFile, history>>

ClearStatusList(t) ==
    /\ Whole(t, "clearStatusList")
    /\ statusListData' = NoList
    /\ UNCHANGED <<sn, deviceListData, groupAddrMap, devGrpValueMap, files, history>>

Levels == {[address |-> a, device |-> Address2DeviceSn(a)] : a \in StoredLevels}

\* storeLuminance and its like, up to the call of storeDevGrpStatus2File.
StoreLuminance(t) ==
    /\ Enter(t, "storeLuminance", "bleConfig")
    /\ devGrpValueMap' = devGrpValueMap \cup ({job[t].address} \ {NoAddress})
    /\ UNCHANGED <<sn, lists, groupAddrMap, files, history>>

\* Faulty: a level that has been entered is not stored.
ForgetsToStore(t) ==
    /\ Exit(t, "storeDevGrpStatus2File", "bleConfig")
    /\ UNCHANGED <<sn, lists, groupAddrMap, devGrpValueMap, files, history>>

\* No address changes hands while bleConfig is locked: who changes one saves it.
StoreDevGrpStatus2File(t) ==
    /\ Exit(t, "storeDevGrpStatus2File", "bleConfig")
    /\ statusFile' = Levels
    /\ UNCHANGED <<sn, lists, groupAddrMap, devGrpValueMap, snFile,
                   groupAddressData, history>>

Calls(t) ==
    \/ GetAddress(t) \/ DeleteDeviceSn(t) \/ DeleteNoDeviceSn(t) \/ SaveSnAddrData(t)
    \/ \E step \in GroupSteps : ChangeGroups(t, step)
    \/ SaveGroupListData(t)
    \/ \E step \in DeviceSteps : ChangeDevices(t, step)
    \/ DeleteStatusItem(t) \/ UpdateStatusListData(t)
    \/ ReadList(t, "getStatusListData", statusListData) \/ SaveStatusListData(t)
    \/ ReadDeviceList(t) \/ SaveDeviceListData(t)
    \/ ClearSnAddressData(t) \/ ClearGroupList(t) \/ ClearStatusList(t)
    \/ StoreLuminance(t) \/ StoreDevGrpStatus2File(t)

-----------------------------------------------------------------------------
(* A restart: everything comes from the files.                              *)

HasAddress(e) == e.device # NoDevice /\ snAddressData[e.device] # NoAddress

\* Faulty: a level without a device is loaded as well.
LoadsEveryLevel ==
    {IF e.device = NoDevice THEN NoAddress ELSE snAddressData[e.device] : e \in statusFile}

\* loadStatusFromFile stops at the first level whose device has no address;
\* the levels are stored in the order of their addresses.
LoadedLevels ==
    {snAddressData[e.device] :
        e \in {e \in statusFile :
                  \A e2 \in statusFile : e2.address <= e.address => HasAddress(e2)}}

Restart ==
    /\ ops <= MaxOps /\ ops' = ops + 1
    /\ owner' = [l \in Locks |-> NoThread]
    /\ todo' = [t \in Thread |-> <<>>] /\ job' = [t \in Thread |-> NoJob]
    /\ read' = [t \in Thread |-> NoList]
    /\ snAddrMap' = snAddressData /\ index' = indexData
    /\ groupAddrMap' = groupAddressData
    /\ devGrpValueMap' = LoadedLevels
    /\ disturbed' = disturbed \cup {d \in Device : ~Untouched(d)}
    /\ UNCHANGED <<lists, files, reported, strays, orphaned>>

Next ==
    \/ BeginSome
    \/ \E t \in Thread : Calls(t)
    \/ Restart

Spec == Init /\ [][Next]_vars

-----------------------------------------------------------------------------
IsList(f, values) ==
    /\ DOMAIN f \subseteq Device
    /\ \A d \in DOMAIN f : f[d] \in values

TypeOK ==
    /\ owner \in [Locks -> Thread \cup {NoThread}]
    /\ todo \in [Thread -> Seq(Steps)]
    /\ job \in [Thread -> [kind : Listing \cup {"none", "report", "control", "config", "save"},
                           device : Device \cup {NoDevice},
                           address : Address \cup {NoAddress}, value : Power]]
    /\ \A t \in Thread : IsList(read[t], GroupInfo \cup Power)
    /\ snAddrMap \in [Device -> Address \cup {NoAddress}]
    /\ snAddressData \in [Device -> Address \cup {NoAddress}]
    /\ index \in 1..(MaxBinds + 1) /\ indexData \in 1..(MaxBinds + 1)
    /\ IsList(deviceListData, GroupInfo) /\ IsList(statusListData, Power)
    /\ groupAddrMap \subseteq Device /\ groupAddressData \subseteq Device
    /\ devGrpValueMap \subseteq Address
    /\ statusFile \subseteq [address : Address, device : Device \cup {NoDevice}]
    /\ ops \in 0..(MaxOps + 1)
    /\ reported \in [Device -> Power] /\ strays \subseteq Device
    /\ disturbed \subseteq Device /\ orphaned \subseteq Address

\* Threads that wait for each other for ever: one is storing levels under
\* bleConfig's lock while another is saving addresses under SnAddressMap's, and
\* a device with an address of the form xx02 has been controlled; nothing else
\* in the BLE site blocks.
StuckOnlyOnAddresses ==
    \A S \in SUBSET Thread :
       S # {} /\ (\A t \in S : Waiting(t) /\ owner[LockOf(Head(todo[t]))] \in S) =>
          /\ {owner["bleConfig"], owner["SnAddressMap"]} \subseteq S
          /\ StoredLevels # {}

\* The lists agree on a device nobody is working on: listed means it has a
\* status, the last one reported; a group in its item means it is a member;
\* members are listed, but for those a reset has left and those that were not
\* listed when they were added.  Only two operations on the same device (see
\* Met), a restart in the middle of one, and a save that replaces its entry by
\* another break it, and each for that device alone.
ListsAgree ==
    \A d \in Device \ disturbed : Untouched(d) =>
       /\ d \in DOMAIN deviceListData <=> d \in DOMAIN statusListData
       /\ d \in DOMAIN statusListData => statusListData[d] = reported[d]
       /\ d \in DOMAIN deviceListData /\ deviceListData[d] = "grouped" => d \in groupAddrMap
       /\ d \in groupAddrMap => d \in DOMAIN deviceListData \cup strays

\* A restart loses a level of a device that has an address, of the form xx02,
\* only if it is stored behind the level of an address that has been taken from
\* its device: unbindings and second bindings leave their levels.  The level
\* itself is in the file, unless it is just being written.
LevelsSurviveRestart ==
    [][Restart /\ owner["bleConfig"] = NoThread =>
         \A d \in Device : snAddressData[d] \in StoredLevels \ devGrpValueMap' =>
            \E e, e2 \in statusFile :
               /\ e.device = d
               /\ e2.address < e.address /\ e2.address \in orphaned]_vars
=============================================================================
