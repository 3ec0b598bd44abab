------------------------------ MODULE BindDevice ------------------------------
(***************************************************************************)
(* Binding and unbinding of lamps in the BLE site (src/unit/bleSite):      *)
(* requests run by the thread pool (LogicControl, BindDevice, LightUnBind) *)
(* wait on the events of EventTable; the package thread posts the reports  *)
(* of the serial gateway to them and handles unbind reports itself; both   *)
(* use the address map (SnAddressMap) and the device list (bleConfig).     *)
(*                                                                         *)
(* An address stands for its number (index2Address writes it in hex).      *)
(* The gateway and the lamps are external: a report may be lost, and may   *)
(* come at any time after its command.  putData and notify of a report are *)
(* one step; waking up and reading the data are two.                       *)
(*                                                                         *)
(* Who saves an address waits for bleConfig's lock with SnAddressMap's     *)
(* held.  BleConfig has the threads that wait the other way round; here    *)
(* they are one step, Deadlock, after which neither lock is released.      *)
(***************************************************************************)
EXTENDS Integers, FiniteSets

CONSTANTS
    Device,        \* serial numbers (deviceSn)
    TripleSwitch,  \* the devices that have three addresses
    Thread,        \* threads of the pool
    NoDevice,      \* "": no device
    FirstIndex,    \* index of an empty address map (0x0201 in the code)
    MaxRequests,   \* bound: requests taken
    MaxBinds,      \* bound: devices to bind in all requests
    MaxFaults      \* bound: resets, restarts, spurious wake-ups and deadlocks

ASSUME TripleAssumption == TripleSwitch \subseteq Device
ASSUME FiniteAssumption == IsFiniteSet(Device)
ASSUME NoDeviceAssumption == NoDevice \notin Device
ASSUME IndexAssumption == FirstIndex \in Nat /\ FirstIndex >= 1
ASSUME BoundAssumption == MaxRequests \in Nat /\ MaxBinds \in Nat /\ MaxFaults \in Nat

VARIABLES
    snAddrMap,    \* address of each device; NoAddress: not in the map
    index,        \* _index, the next free address
    snFile,       \* data/snAddress.json: map and index, NoAddress: no "index"
    width,        \* history: addresses set apart for the device's entry
    deviceList,   \* data/deviceList.json
    scanList,     \* ScanListmanage: devices whose bind failed
    bindingFlag,
    pc,           \* where each pool thread is
    deviceArray,  \* devices each thread has still to bind
    deviceSn,     \* device each thread is binding
    typeData, bindData,  \* data_ of typeEvent and of bindSuccessEvent
    asked,        \* commands the gateway has not answered yet
    unbinding,    \* unbind commands sent: device and address
    package,      \* package thread: unbind report it is handling
    resetting,    \* a reset has cleared the address file, not yet the list
    deadlock,     \* SnAddressMap's and bleConfig's locks are held for ever
    requests, binds, faults,  \* counts for the bounds
    confirmed,    \* history: the device being bound has been reported bound
    misled        \* history: the wait for a bind result that is under way has
                  \* ended without an answer, or has met another device's

lists     == <<deviceList, scanList>>
addresses == <<snAddrMap, index, snFile, width>>
events    == <<typeData, bindData>>
request   == <<bindingFlag, deviceArray, deviceSn, requests, binds>>
control   == <<pc, request>>
gateway   == <<asked, unbinding, confirmed, misled>>
others    == <<package, resetting, deadlock, faults>>
elsewhere == <<addresses, lists, events, gateway, others>>
vars      == <<addresses, lists, events, control, gateway, others>>

NoAddress == 0
EmptyMap  == [d \in Device |-> NoAddress]
EmptyFile == [map |-> EmptyMap, index |-> NoAddress]
NoPackage == [sn |-> NoDevice, from |-> NoDevice, step |-> "none"]

\* Waiting for an event, and woken but not yet past it.
Waits   == {"assign", "type", "bind"}
Woken   == [assign |-> "assigned", type |-> "typed", bind |-> "bound"]
InAddDevice == {"assign", "assigned", "type", "typed", "bind", "bound"}
Binding == {"verify", "next", "blocked"} \cup InAddDevice

\* What a thread that holds BindDevice::mutex_ is doing.
Holder(t) == pc[t] \in Binding

Init ==
    /\ snAddrMap = EmptyMap /\ index = FirstIndex /\ snFile = EmptyFile
    /\ width = [d \in Device |-> 1]
    /\ deviceList = {} /\ scanList = {}
    /\ bindingFlag = FALSE
    /\ pc = [t \in Thread |-> "idle"]
    /\ deviceArray = [t \in Thread |-> {}]
    /\ deviceSn = [t \in Thread |-> NoDevice]
    /\ typeData = "none" /\ bindData = FALSE
    /\ asked = {} /\ unbinding = {}
    /\ package = NoPackage
    /\ resetting = FALSE /\ deadlock = FALSE
    /\ requests = 0 /\ binds = 0 /\ faults = 0
    /\ confirmed = FALSE /\ misled = FALSE

-----------------------------------------------------------------------------
(* SnAddressMap.  Each of its functions runs under rMutex_ and saves before *)
(* it releases it; none returns once there is a deadlock.                   *)

\* map2JsonDataAndSave2File
Save == snFile' = [map |-> snAddrMap', index |-> index']

\* Faulty: the lowest address that no entry has is handed out.
ReusesAddress(d) ==
    LET taken == {snAddrMap[e] : e \in Device}
        free  == {a \in FirstIndex .. index : a \notin taken}
        a     == CHOOSE x \in free : \A y \in free : x <= y
    IN  /\ ~deadlock
        /\ index' = IF a = index THEN index + 1 ELSE index
        /\ snAddrMap' = [snAddrMap EXCEPT ![d] = a]
        /\ width' = [width EXCEPT ![d] = 1]
        /\ Save

GetAddress(d) ==
    /\ ~deadlock
    /\ index' = index + 1
    /\ snAddrMap' = [snAddrMap EXCEPT ![d] = index]
    /\ width' = [width EXCEPT ![d] = 1]
    /\ Save

\* indexForward(2): two more addresses for the device bound just now.
IndexForward(d) ==
    /\ ~deadlock
    /\ index' = index + 2
    /\ width' = [width EXCEPT ![d] = 3]
    /\ UNCHANGED snAddrMap
    /\ Save

\* deleteDeviceSn; nothing is saved when the device is not in the map.
DeleteDeviceSn(d) ==
    /\ ~deadlock
    /\ \/ /\ d \in Device /\ snAddrMap[d] # NoAddress
          /\ snAddrMap' = [snAddrMap EXCEPT ![d] = NoAddress]
          /\ width' = [width EXCEPT ![d] = 1]
          /\ UNCHANGED index
          /\ Save
       \/ /\ d \in Device => snAddrMap[d] = NoAddress
          /\ UNCHANGED addresses

\* address2DeviceSn
Address2DeviceSn(a) ==
    IF \E d \in Device : snAddrMap[d] = a
    THEN CHOOSE d \in Device : snAddrMap[d] = a
    ELSE NoDevice

\* Faulty: a file without an index is not given the first one.
LoadsNoIndex ==
    /\ snAddrMap' = snFile.map
    /\ index' = snFile.index
    /\ UNCHANGED <<snFile, width>>

\* loadCache2Map and initIndex
LoadCache2Map ==
    /\ snAddrMap' = snFile.map
    /\ index' = IF snFile.index = NoAddress THEN FirstIndex ELSE snFile.index
    /\ UNCHANGED <<snFile, width>>

-----------------------------------------------------------------------------
(* Requests: the pool threads.                                              *)

Goto(t, where) == pc' = [pc EXCEPT ![t] = where]

\* LogicControl::parse reads the flag; a request that finds it set is refused.
Parse(t) ==
    /\ pc[t] = "idle" /\ ~bindingFlag /\ requests < MaxRequests
    /\ Goto(t, "parsed")
    /\ requests' = requests + 1
    /\ UNCHANGED <<elsewhere, bindingFlag, deviceArray, deviceSn, binds>>

\* add_device: the flag is set, and the scan begins.
SetBindingFlag(t) ==
    /\ pc[t] = "parsed"
    /\ bindingFlag' = TRUE
    /\ Goto(t, "scan")
    /\ UNCHANGED <<elsewhere, deviceArray, deviceSn, requests, binds>>

\* getScanedDevices: devices that advertise, those whose bind failed if asked
\* for, and of these the ones the request allows: any set of devices.
GetScanedDevices(t) ==
    /\ pc[t] = "scan"
    /\ \E found \in SUBSET Device :
         \E scaned \in {found, found \cup scanList} :
           \E allowed \in SUBSET scaned :
             /\ binds + Cardinality(allowed) <= MaxBinds
             /\ binds' = binds + Cardinality(allowed)
             /\ deviceArray' = [deviceArray EXCEPT ![t] = allowed]
    /\ Goto(t, "scaned")
    /\ UNCHANGED <<elsewhere, bindingFlag, deviceSn, requests>>

\* Faulty: bind takes no lock.
EntersUnlocked(t) ==
    /\ pc[t] = "scaned"
    /\ Goto(t, IF deviceArray[t] = {} THEN "clear" ELSE "verify")
    /\ UNCHANGED <<elsewhere, request>>

\* bind takes mutex_ and, if there is a device, asks for the network's key.
BindEnters(t) ==
    /\ pc[t] = "scaned"
    /\ \A u \in Thread : ~Holder(u)
    /\ Goto(t, IF deviceArray[t] = {} THEN "clear" ELSE "verify")
    /\ UNCHANGED <<elsewhere, request>>

\* Faulty: the request ends here, with the flag set, when there is no answer.
ReturnsWithFlag(t) ==
    /\ pc[t] = "verify"
    /\ \/ ~deadlock /\ Goto(t, "next")
       \/ Goto(t, "idle")
    /\ UNCHANGED <<elsewhere, request>>

\* The key is there (storeNetKey) or the gateway is given its address; or there
\* is no answer.
VerifyNet(t) ==
    /\ pc[t] = "verify"
    /\ \/ ~deadlock /\ Goto(t, "next")
       \/ Goto(t, "clear")
    /\ UNCHANGED <<elsewhere, request>>

\* addDevice: scan, connect, getNodeAssignAddr, and the command is sent.
AssignAddress(t) ==
    /\ pc[t] = "next"
    /\ \E d \in deviceArray[t] :
         /\ GetAddress(d)
         /\ deviceArray' = [deviceArray EXCEPT ![t] = @ \ {d}]
         /\ deviceSn' = [deviceSn EXCEPT ![t] = d]
         /\ asked' = asked \cup {<<"assign", NoDevice>>}
    /\ Goto(t, "assign")
    /\ UNCHANGED <<lists, events, others, bindingFlag, requests, binds,
                   unbinding, confirmed, misled>>

\* addDevice returns.
Leave(t) ==
    /\ Goto(t, "next")
    /\ deviceSn' = [deviceSn EXCEPT ![t] = NoDevice]
    /\ confirmed' = FALSE /\ misled' = FALSE

AssignTimesOut(t) ==
    /\ pc[t] = "assign"
    /\ DeleteDeviceSn(deviceSn[t])
    /\ Leave(t)
    /\ UNCHANGED <<lists, events, others, bindingFlag, deviceArray,
                   requests, binds, asked, unbinding>>

\* The address is assigned: the bind command is sent.
SendBind(t) ==
    /\ pc[t] = "assigned"
    /\ asked' = asked \cup {<<"type", deviceSn[t]>>, <<"bind", deviceSn[t]>>}
    /\ Goto(t, "type")
    /\ UNCHANGED <<addresses, lists, events, others, request,
                   unbinding, confirmed, misled>>

\* The type that has been reported is used; a triple switch takes three addresses.
ReadType(t) ==
    /\ pc[t] = "typed"
    /\ \/ typeData = "triple_switch" /\ IndexForward(deviceSn[t])
       \/ typeData # "triple_switch" /\ UNCHANGED addresses
    /\ Goto(t, "bind")
    /\ UNCHANGED <<lists, events, gateway, others, request>>

TypeTimesOut(t) ==
    /\ pc[t] = "type"
    /\ Goto(t, "bind")
    /\ UNCHANGED <<elsewhere, request>>

\* The two ends of addDevice after a bind command.
BindFails(t) ==
    /\ DeleteDeviceSn(deviceSn[t])
    /\ scanList' = scanList \cup {deviceSn[t]}
    /\ UNCHANGED deviceList

BindSucceeds(t) ==
    /\ ~deadlock
    /\ deviceList' = deviceList \cup {deviceSn[t]}
    /\ scanList' = scanList \ {deviceSn[t]}
    /\ UNCHANGED addresses

\* Faulty: any answer counts as success.
ListsOnAnyAnswer(t) ==
    /\ pc[t] = "bound"
    /\ BindSucceeds(t)
    /\ Leave(t)
    /\ UNCHANGED <<events, others, bindingFlag, deviceArray, requests, binds,
                   asked, unbinding>>

ReadBindResult(t) ==
    /\ pc[t] = "bound"
    /\ \/ bindData /\ BindSucceeds(t)
       \/ ~bindData /\ BindFails(t)
    /\ Leave(t)
    /\ UNCHANGED <<events, others, bindingFlag, deviceArray, requests, binds,
                   asked, unbinding>>

BindTimesOut(t) ==
    /\ pc[t] = "bind"
    /\ BindFails(t)
    /\ Leave(t)
    /\ UNCHANGED <<events, others, bindingFlag, deviceArray, requests, binds,
                   asked, unbinding>>

\* All devices are done: scan end, and mutex_ is released.
BindEnds(t) ==
    /\ pc[t] = "next" /\ deviceArray[t] = {}
    /\ Goto(t, "clear")
    /\ UNCHANGED <<elsewhere, request>>

ClearBindingFlag(t) ==
    /\ pc[t] = "clear"
    /\ bindingFlag' = FALSE
    /\ Goto(t, "idle")
    /\ deviceArray' = [deviceArray EXCEPT ![t] = {}]
    /\ UNCHANGED <<elsewhere, deviceSn, requests, binds>>

\* wait_for has no predicate: it may return although nobody has notified.
SpuriousWakeup(t) ==
    /\ pc[t] \in Waits
    /\ Goto(t, Woken[pc[t]])
    /\ misled' = (pc[t] = "bind")
    /\ faults < MaxFaults /\ faults' = faults + 1
    /\ UNCHANGED <<addresses, lists, events, package, resetting, deadlock, request,
                   asked, unbinding, confirmed>>

\* del_device and del_device_force, for one device; a device without an address
\* has no command.  A forced unbind takes the device off the list at once.
SendUnbind(t) ==
    /\ pc[t] = "parsed" /\ ~deadlock
    /\ \E d \in Device :
         \/ /\ snAddrMap[d] # NoAddress
            /\ unbinding' = unbinding \cup {<<d, snAddrMap[d]>>}
            /\ \E forced \in BOOLEAN :
                 deviceList' = IF forced THEN deviceList \ {d} ELSE deviceList
         \/ snAddrMap[d] = NoAddress /\ UNCHANGED <<unbinding, deviceList>>
    /\ Goto(t, "idle")
    /\ UNCHANGED <<addresses, scanList, events, others, request,
                   asked, confirmed, misled>>

-----------------------------------------------------------------------------
(* The package thread.  It handles one report at a time.                    *)

\* postEvent of NodeAddressAssignAck, TypeEvent and BindResult: whoever waits
\* for the event is woken; nobody else sees it.
Notify(kind) ==
    pc' = [t \in Thread |-> IF pc[t] = kind THEN Woken[kind] ELSE pc[t]]

\* The bind command of d is the one under way, or that of another device is.
IsBinding(d) ==
    \E t \in Thread : pc[t] \in {"type", "typed", "bind", "bound"} /\ deviceSn[t] = d

MeetsAnother(d) ==
    \E t \in Thread : pc[t] \in {"bind", "bound"} /\ deviceSn[t] # d

Report(kind, d) ==
    /\ package = NoPackage
    /\ <<kind, d>> \in asked
    /\ asked' = asked \ {<<kind, d>>}
    /\ Notify(kind)
    /\ UNCHANGED <<addresses, lists, others, request, unbinding>>

\* This report names no device.
NodeAddressAssignAck ==
    /\ Report("assign", NoDevice)
    /\ UNCHANGED <<events, confirmed, misled>>

\* Other devices report "night_light" or a type that postEvent ignores.
TypeEvent(d) ==
    /\ Report("type", d)
    /\ typeData' = IF d \in TripleSwitch THEN "triple_switch" ELSE "night_light"
    /\ UNCHANGED <<bindData, confirmed, misled>>

BindResult(d, success) ==
    /\ Report("bind", d)
    /\ bindData' = success
    /\ confirmed' = IF IsBinding(d) THEN success ELSE confirmed
    /\ misled' = (misled \/ MeetsAnother(d))
    /\ UNCHANGED typeData

\* UnBindResult::postEvent, three locks one after the other.
UnBindResult(d, a) ==
    /\ package = NoPackage /\ ~deadlock
    /\ <<d, a>> \in unbinding
    /\ unbinding' = unbinding \ {<<d, a>>}
    /\ package' = [sn |-> Address2DeviceSn(a), from |-> d, step |-> "deleteSn"]
    /\ UNCHANGED <<addresses, lists, events, control, resetting, deadlock, faults,
                   asked, confirmed, misled>>

UnbindDeletesSn ==
    /\ package.step = "deleteSn"
    /\ DeleteDeviceSn(package.sn)
    /\ package' = [package EXCEPT !.step = "deleteItem"]
    /\ UNCHANGED <<lists, events, control, gateway, resetting, deadlock, faults>>

UnbindDeletesItem ==
    /\ package.step = "deleteItem" /\ ~deadlock
    /\ deviceList' = deviceList \ {package.sn}
    /\ package' = NoPackage
    /\ UNCHANGED <<addresses, scanList, events, control, gateway, resetting, deadlock,
                   faults>>

-----------------------------------------------------------------------------
(* The deadlock of SnAddressMap's and bleConfig's locks.                    *)

\* The next call of t saves an address: getAddress, indexForward or
\* deleteDeviceSn, of a wait that has ended without an answer too.
SavesAddress(t) ==
    \/ pc[t] = "next" /\ deviceArray[t] # {}
    \/ pc[t] \in {"assign", "bind"}
    \/ pc[t] = "typed" /\ typeData = "triple_switch"
    \/ pc[t] = "bound" /\ ~bindData

\* It meets storeDevGrpStatus2File, which asks SnAddressMap for the device of
\* each level with bleConfig's lock held; a level needs an address that has been
\* given out.  The call has changed the map, which nobody will see again.
Deadlock ==
    /\ ~deadlock /\ deadlock' = TRUE
    /\ faults < MaxFaults /\ faults' = faults + 1
    /\ index # FirstIndex
    /\ \/ \E t \in Thread : SavesAddress(t) /\ Goto(t, "blocked")
       \/ package.step = "deleteSn" /\ package.sn # NoDevice /\ UNCHANGED pc
    /\ UNCHANGED <<addresses, lists, events, request, gateway, package, resetting>>

-----------------------------------------------------------------------------
(* reset_device_service_handler and a restart of the program.               *)

\* The gateway forgets its network; the address file is cleared, the map in
\* memory is not.
ResetClearsAddresses ==
    /\ ~deadlock
    /\ ~resetting /\ resetting' = TRUE
    /\ faults < MaxFaults /\ faults' = faults + 1
    /\ snFile' = EmptyFile
    /\ unbinding' = {}
    /\ UNCHANGED <<snAddrMap, index, width, lists, events, control, package, deadlock,
                   asked, confirmed, misled>>

ResetClearsDevices ==
    /\ ~deadlock
    /\ resetting /\ resetting' = FALSE
    /\ deviceList' = {}
    /\ UNCHANGED <<addresses, scanList, events, control, gateway, package, deadlock, faults>>

\* The files are kept.  A network that has been reset, or has no device yet, has
\* no lamp that answers; the lamps of another may still do so.
Restart ==
    /\ faults < MaxFaults /\ faults' = faults + 1
    /\ LoadCache2Map
    /\ bindingFlag' = FALSE
    /\ pc' = [t \in Thread |-> "idle"]
    /\ deviceArray' = [t \in Thread |-> {}]
    /\ deviceSn' = [t \in Thread |-> NoDevice]
    /\ typeData' = "none" /\ bindData' = FALSE
    /\ unbinding' = IF snFile = EmptyFile THEN {} ELSE unbinding
    /\ package' = NoPackage
    /\ resetting' = FALSE /\ deadlock' = FALSE
    /\ confirmed' = FALSE /\ misled' = FALSE
    /\ UNCHANGED <<lists, requests, binds, asked>>

-----------------------------------------------------------------------------

\* Steps a thread owes once its request has been taken.
ThreadStep(t) ==
    \/ SetBindingFlag(t) \/ SendUnbind(t)
    \/ GetScanedDevices(t) \/ BindEnters(t) \/ VerifyNet(t)
    \/ AssignAddress(t) \/ AssignTimesOut(t) \/ SendBind(t)
    \/ ReadType(t) \/ TypeTimesOut(t)
    \/ ReadBindResult(t) \/ BindTimesOut(t)
    \/ BindEnds(t) \/ ClearBindingFlag(t)

GatewayReports ==
    \/ NodeAddressAssignAck
    \/ \E d \in Device :
         TypeEvent(d) \/ \E success \in BOOLEAN : BindResult(d, success)

Next ==
    \/ \E t \in Thread : Parse(t) \/ ThreadStep(t) \/ SpuriousWakeup(t)
    \/ GatewayReports
    \/ \E msg \in unbinding : UnBindResult(msg[1], msg[2])
    \/ UnbindDeletesSn \/ UnbindDeletesItem
    \/ Deadlock
    \/ ResetClearsAddresses \/ ResetClearsDevices
    \/ Restart

\* Every wait of a pool thread for an event has a timeout, and the threads are
\* scheduled.  A lock is released in time, but for the two locks of a deadlock: a
\* call that needs one of them has no step then, and nothing is owed of it.  The
\* gateway, the lamps and the users owe nothing.
Fairness == \A t \in Thread : WF_vars(ThreadStep(t))

Spec == Init /\ [][Next]_vars /\ Fairness

-----------------------------------------------------------------------------

\* Types; the index is never below that of an empty map.
TypeOK ==
    /\ snAddrMap \in [Device -> Nat] /\ index \in Nat /\ index >= FirstIndex
    /\ snFile \in [map : [Device -> Nat], index : Nat]
    /\ snFile.index # NoAddress => snFile.index >= FirstIndex
    /\ width \in [Device -> {1, 3}]
    /\ deviceList \subseteq Device /\ scanList \subseteq Device
    /\ bindingFlag \in BOOLEAN
    /\ pc \in [Thread -> Binding \cup {"idle", "parsed", "scan", "scaned", "clear"}]
    /\ deviceArray \in [Thread -> SUBSET Device]
    /\ deviceSn \in [Thread -> Device \cup {NoDevice}]
    /\ \A t \in Thread : pc[t] \in InAddDevice => deviceSn[t] \in Device
    /\ typeData \in {"none", "triple_switch", "night_light"} /\ bindData \in BOOLEAN
    /\ asked \subseteq Waits \X (Device \cup {NoDevice})
    /\ unbinding \subseteq Device \X Nat
    /\ package \in [sn : Device \cup {NoDevice}, from : Device \cup {NoDevice},
                    step : {"none", "deleteSn", "deleteItem"}]
    /\ resetting \in BOOLEAN /\ deadlock \in BOOLEAN
    /\ requests \in Nat /\ binds \in Nat /\ faults \in Nat
    /\ confirmed \in BOOLEAN /\ misled \in BOOLEAN

\* No two devices share an address, counting all three of a triple switch whose
\* type has been seen: the address and the two more are taken at different times
\* by getAddress and indexForward, with reports, resets, restarts and other
\* requests in between, and the binding flag does not keep two requests apart.
AddressRange(d) == snAddrMap[d] .. (snAddrMap[d] + width[d] - 1)

AddressRangesDisjoint ==
    \A d, e \in Device :
        d # e /\ snAddrMap[d] # NoAddress /\ snAddrMap[e] # NoAddress
            => AddressRange(d) \cap AddressRange(e) = {}

\* An unbind report removes the lamp that sent it or nothing: it names the lamp
\* by its address only, and may be overtaken by bindings that take a new address.
UnbindHitsItsDevice ==
    package.sn \in {package.from, NoDevice}

\* A device enters the list (insertDeviceItem) only after its own bind command
\* has been answered with success, unless its wait was woken by nobody or met the
\* report of another device.
ListsTheBound ==
    [][deviceList' \ deviceList # {} => confirmed \/ misled]_vars

\* The flag that refuses all requests is taken back, whatever the gateway answers
\* and wherever a binding stops; only the deadlock of an address that is saved
\* with levels that are stored leaves it set.
BindingFlagIsCleared == bindingFlag ~> (~bindingFlag \/ deadlock)
=============================================================================
