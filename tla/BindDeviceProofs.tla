--------------------------- MODULE BindDeviceProofs ---------------------------
(* Theorems about BindDevice, for any devices, threads and bounds.          *)
EXTENDS BindDevice, FiniteSetTheorems, TLAPS

-----------------------------------------------------------------------------
(* Type correctness.                                                        *)

USE TripleAssumption, NoDeviceAssumption, IndexAssumption, BoundAssumption
USE DEF elsewhere, request

LEMMA DeleteTypes ==
    ASSUME TypeOK, NEW d \in Device \cup {NoDevice}, DeleteDeviceSn(d)
    PROVE  /\ snAddrMap' \in [Device -> Nat] /\ index' = index
           /\ snFile' \in [map : [Device -> Nat], index : Nat]
           /\ snFile'.index # NoAddress => snFile'.index >= FirstIndex
           /\ width' \in [Device -> {1, 3}]
  BY DEF DeleteDeviceSn, Save, TypeOK, NoAddress, addresses

LEMMA ThreadTypes ==
    ASSUME TypeOK, NEW t \in Thread, Parse(t) \/ ThreadStep(t) \/ SpuriousWakeup(t)
    PROVE  TypeOK'
  <1> USE DEF others, lists, events, gateway, addresses, Goto, Binding, Waits, InAddDevice
  <1>1. CASE Parse(t)
    BY <1>1 DEF TypeOK, Parse
  <1>2. CASE SetBindingFlag(t)
    BY <1>2 DEF TypeOK, SetBindingFlag
  <1>3. CASE SendUnbind(t)
    BY <1>3 DEF TypeOK, SendUnbind
  <1>4. CASE GetScanedDevices(t)
    <2>1. deviceArray' \in [Thread -> SUBSET Device]
      BY <1>4 DEF TypeOK, GetScanedDevices
    <2>2. binds' \in Nat
      <3>1. PICK allowed \in SUBSET Device : binds' = binds + Cardinality(allowed)
        BY <1>4 DEF TypeOK, GetScanedDevices
      <3>2. Cardinality(allowed) \in Nat
        BY FiniteAssumption, FS_Subset, FS_CardinalityType
      <3> QED BY <3>1, <3>2 DEF TypeOK
    <2> QED BY <1>4, <2>1, <2>2 DEF TypeOK, GetScanedDevices
  <1>5. CASE BindEnters(t)
    BY <1>5 DEF TypeOK, BindEnters
  <1>6. CASE VerifyNet(t)
    BY <1>6 DEF TypeOK, VerifyNet
  <1>7. CASE AssignAddress(t)
    BY <1>7 DEF TypeOK, AssignAddress, GetAddress, Save
  <1>8. CASE AssignTimesOut(t)
    BY <1>8, DeleteTypes DEF TypeOK, AssignTimesOut, Leave
  <1>9. CASE SendBind(t)
    BY <1>9 DEF TypeOK, SendBind
  <1>10. CASE ReadType(t)
    BY <1>10 DEF TypeOK, ReadType, IndexForward, Save
  <1>11. CASE TypeTimesOut(t)
    BY <1>11 DEF TypeOK, TypeTimesOut
  <1>12. CASE ReadBindResult(t)
    <2>1. deviceSn[t] \in Device
      BY <1>12 DEF TypeOK, ReadBindResult
    <2>2. /\ snAddrMap' \in [Device -> Nat] /\ index' = index
          /\ snFile' \in [map : [Device -> Nat], index : Nat]
          /\ snFile'.index # NoAddress => snFile'.index >= FirstIndex
          /\ width' \in [Device -> {1, 3}]
      BY <1>12, <2>1, DeleteTypes DEF TypeOK, ReadBindResult, BindFails, BindSucceeds
    <2> QED
      BY <1>12, <2>1, <2>2 DEF TypeOK, ReadBindResult, BindFails, BindSucceeds, Leave
  <1>13. CASE BindTimesOut(t)
    <2>1. deviceSn[t] \in Device
      BY <1>13 DEF TypeOK, BindTimesOut
    <2>2. /\ snAddrMap' \in [Device -> Nat] /\ index' = index
          /\ snFile' \in [map : [Device -> Nat], index : Nat]
          /\ snFile'.index # NoAddress => snFile'.index >= FirstIndex
          /\ width' \in [Device -> {1, 3}]
      BY <1>13, <2>1, DeleteTypes DEF BindTimesOut, BindFails
    <2> QED
      BY <1>13, <2>1, <2>2 DEF TypeOK, BindTimesOut, BindFails, Leave
  <1>14. CASE BindEnds(t)
    BY <1>14 DEF TypeOK, BindEnds
  <1>15. CASE ClearBindingFlag(t)
    <2>1. /\ pc' \in [Thread -> Binding \cup {"idle", "parsed", "scan", "scaned", "clear"}]
          /\ deviceArray' \in [Thread -> SUBSET Device] /\ bindingFlag' \in BOOLEAN
          /\ \A u \in Thread : pc'[u] \in InAddDevice => pc[u] \in InAddDevice
      BY <1>15 DEF TypeOK, ClearBindingFlag
    <2> QED BY <1>15, <2>1 DEF TypeOK, ClearBindingFlag
  <1>16. CASE SpuriousWakeup(t)
    BY <1>16 DEF TypeOK, SpuriousWakeup, Woken
  <1> QED
    BY <1>1, <1>2, <1>3, <1>4, <1>5, <1>6, <1>7, <1>8, <1>9, <1>10, <1>11,
       <1>12, <1>13, <1>14, <1>15, <1>16 DEF ThreadStep

LEMMA OtherTypes ==
    ASSUME TypeOK,
           \/ GatewayReports
           \/ \E msg \in unbinding : UnBindResult(msg[1], msg[2])
           \/ UnbindDeletesSn \/ UnbindDeletesItem \/ Deadlock
           \/ ResetClearsAddresses \/ ResetClearsDevices \/ Restart
    PROVE  TypeOK'
  <1> USE DEF others, lists, events, gateway, addresses, control, InAddDevice, Binding
  <1>1. ASSUME NEW kind \in Waits, NEW d \in Device \cup {NoDevice}, Report(kind, d)
        PROVE  /\ pc' \in [Thread -> Binding \cup {"idle", "parsed", "scan", "scaned", "clear"}]
               /\ asked' \subseteq Waits \X (Device \cup {NoDevice})
               /\ \A t \in Thread : pc'[t] \in InAddDevice => deviceSn'[t] \in Device
    BY <1>1 DEF TypeOK, Report, Notify, Woken, Waits, Binding
  <1>2. CASE NodeAddressAssignAck
    <2>1. "assign" \in Waits
      BY DEF Waits
    <2> QED BY <1>1, <1>2, <2>1 DEF TypeOK, NodeAddressAssignAck, Report
  <1>3. ASSUME NEW d \in Device, TypeEvent(d)
        PROVE  TypeOK'
    <2>1. "type" \in Waits
      BY DEF Waits
    <2> QED BY <1>1, <1>3, <2>1 DEF TypeOK, TypeEvent, Report
  <1>4. ASSUME NEW d \in Device, NEW success \in BOOLEAN, BindResult(d, success)
        PROVE  TypeOK'
    <2>1. "bind" \in Waits
      BY DEF Waits
    <2>2. confirmed' \in BOOLEAN /\ misled' \in BOOLEAN
      BY <1>4 DEF TypeOK, BindResult
    <2> QED BY <1>1, <1>4, <2>1, <2>2 DEF TypeOK, BindResult, Report
  <1>5. ASSUME NEW msg \in unbinding, UnBindResult(msg[1], msg[2])
        PROVE  TypeOK'
    <2>1. msg[1] \in Device
      BY DEF TypeOK
    <2>2. Address2DeviceSn(msg[2]) \in Device \cup {NoDevice}
      BY DEF Address2DeviceSn
    <2> QED BY <1>5, <2>1, <2>2 DEF TypeOK, UnBindResult
  <1>6. CASE UnbindDeletesSn
    BY <1>6, DeleteTypes DEF TypeOK, UnbindDeletesSn
  <1>7. CASE UnbindDeletesItem
    BY <1>7 DEF TypeOK, UnbindDeletesItem, NoPackage
  <1>8. CASE ResetClearsAddresses
    BY <1>8 DEF TypeOK, ResetClearsAddresses, EmptyFile, EmptyMap, NoAddress
  <1>9. CASE ResetClearsDevices
    BY <1>9 DEF TypeOK, ResetClearsDevices
  <1>10. CASE Restart
    <2>1. snAddrMap' \in [Device -> Nat] /\ index' \in Nat
      BY <1>10 DEF TypeOK, Restart, LoadCache2Map
    <2>2. index' >= FirstIndex
      BY <1>10 DEF TypeOK, Restart, LoadCache2Map
    <2>3. unbinding' \subseteq Device \X Nat
      BY <1>10 DEF TypeOK, Restart
    <2>4. /\ pc' = [u \in Thread |-> "idle"] /\ UNCHANGED <<snFile, width>>
          /\ deviceSn' = [u \in Thread |-> NoDevice]
          /\ deviceArray' = [u \in Thread |-> {}]
          /\ faults' \in Nat
      BY <1>10 DEF TypeOK, Restart, LoadCache2Map
    <2>5. package' \in [sn : Device \cup {NoDevice}, from : Device \cup {NoDevice},
                        step : {"none", "deleteSn", "deleteItem"}]
      BY <1>10 DEF Restart, NoPackage
    <2> HIDE DEF Restart
    <2>6. /\ bindingFlag' = FALSE /\ typeData' = "none" /\ bindData' = FALSE
          /\ resetting' = FALSE /\ deadlock' = FALSE
          /\ confirmed' = FALSE /\ misled' = FALSE
          /\ UNCHANGED <<lists, requests, binds, asked>>
      BY <1>10 DEF Restart
    <2> QED BY <2>1, <2>2, <2>3, <2>4, <2>5, <2>6 DEF TypeOK
  <1>11. CASE Deadlock
    <2>1. /\ pc' \in [Thread -> Binding \cup {"idle", "parsed", "scan", "scaned", "clear"}]
          /\ \A t \in Thread : pc'[t] \in InAddDevice => pc[t] \in InAddDevice
      BY <1>11 DEF TypeOK, Deadlock, Goto
    <2> QED BY <1>11, <2>1 DEF TypeOK, Deadlock
  <1> QED
    BY <1>2, <1>3, <1>4, <1>5, <1>6, <1>7, <1>8, <1>9, <1>10, <1>11 DEF GatewayReports

LEMMA InitTypes ==
    ASSUME Init
    PROVE  TypeOK
  <1>1. /\ EmptyFile \in [map : [Device -> Nat], index : Nat]
        /\ EmptyFile.index = NoAddress
    BY DEF EmptyFile, EmptyMap, NoAddress
  <1>2. NoPackage \in [sn : Device \cup {NoDevice}, from : Device \cup {NoDevice},
                       step : {"none", "deleteSn", "deleteItem"}]
    BY DEF NoPackage
  <1>3. EmptyMap \in [Device -> Nat]
    BY DEF EmptyMap, NoAddress
  <1>4. \A t \in Thread : pc[t] \notin InAddDevice
    BY DEF Init, InAddDevice
  <1>5. pc \in [Thread -> Binding \cup {"idle", "parsed", "scan", "scaned", "clear"}]
    BY DEF Init
  <1>6. index \in Nat /\ index >= FirstIndex
    BY DEF Init
  <1> QED BY <1>1, <1>2, <1>3, <1>4, <1>5, <1>6 DEF Init, TypeOK

LEMMA TypeStep ==
    ASSUME TypeOK, [Next]_vars
    PROVE  TypeOK'
  <1>1. CASE UNCHANGED vars
    BY <1>1 DEF TypeOK, vars, addresses, lists, events, control, gateway, others
  <1>2. CASE Next
    BY <1>2, ThreadTypes, OtherTypes DEF Next
  <1> QED BY <1>1, <1>2

\* Every reachable state has the declared types.
THEOREM TypeCorrect == Spec => []TypeOK
  BY InitTypes, TypeStep, PTL DEF Spec

-----------------------------------------------------------------------------
(* The lock of BindDevice::bind: one thread binds at a time.                *)

OneHolder == \A t, u \in Thread : Holder(t) /\ Holder(u) => t = u

\* The steps that let a thread be in a place of Binding where it was not before.
LEMMA HolderStep ==
    ASSUME TypeOK, [Next]_vars
    PROVE  \/ \A t \in Thread : Holder(t)' => Holder(t)
           \/ \E t \in Thread :
                /\ \A u \in Thread : ~Holder(u)
                /\ \A u \in Thread \ {t} : ~Holder(u)'
  <1> USE DEF Holder, Binding, InAddDevice, Goto, TypeOK
  <1>1. ASSUME NEW t \in Thread, Parse(t) \/ ThreadStep(t) \/ SpuriousWakeup(t),
               ~BindEnters(t)
        PROVE  \A u \in Thread : Holder(u)' => Holder(u)
    BY <1>1 DEF ThreadStep, Parse, SpuriousWakeup, SetBindingFlag, SendUnbind,
                GetScanedDevices, VerifyNet, AssignAddress, AssignTimesOut,
                SendBind, ReadType, TypeTimesOut, ReadBindResult, BindTimesOut,
                BindEnds, ClearBindingFlag, Leave, Waits, Woken
  <1>2. ASSUME NEW t \in Thread, BindEnters(t)
        PROVE  /\ \A u \in Thread : ~Holder(u)
               /\ \A u \in Thread \ {t} : ~Holder(u)'
    BY <1>2 DEF BindEnters
  <1>3. ASSUME NEW kind \in Waits, NEW d, Report(kind, d)
        PROVE  \A u \in Thread : Holder(u)' => Holder(u)
    BY <1>3 DEF Report, Notify, Waits, Woken
  <1>4. CASE GatewayReports
    <2>1. \E kind \in Waits, d \in Device \cup {NoDevice} : Report(kind, d)
      BY <1>4 DEF GatewayReports, NodeAddressAssignAck, TypeEvent, BindResult, Waits
    <2> QED BY <2>1, <1>3
  <1>5. CASE \/ \E msg \in unbinding : UnBindResult(msg[1], msg[2])
             \/ UnbindDeletesSn \/ UnbindDeletesItem
             \/ ResetClearsAddresses \/ ResetClearsDevices \/ Restart
             \/ UNCHANGED vars
    BY <1>5 DEF UnBindResult, UnbindDeletesSn, UnbindDeletesItem, Restart, control,
                ResetClearsAddresses, ResetClearsDevices, vars
  <1>6. CASE Deadlock
    BY <1>6 DEF Deadlock, SavesAddress
  <1> QED
    BY <1>1, <1>2, <1>4, <1>5, <1>6 DEF Next, ThreadStep

LEMMA OneHolderStep ==
    ASSUME TypeOK, OneHolder, [Next]_vars
    PROVE  OneHolder'
  BY HolderStep DEF OneHolder

-----------------------------------------------------------------------------
(* Addresses.                                                               *)

\* The file is what the map in memory is, or it has been cleared.
FileIsMap ==
    \/ snFile = [map |-> snAddrMap, index |-> index]
    \/ snFile = EmptyFile

Listed(d) == snAddrMap[d] # NoAddress

BelowIndex ==
    \A d \in Device : Listed(d) => snAddrMap[d] + width[d] <= index

Apart ==
    \A d, e \in Device :
        d # e /\ Listed(d) /\ Listed(e)
            => \/ snAddrMap[d] + width[d] <= snAddrMap[e]
               \/ snAddrMap[e] + width[e] <= snAddrMap[d]

\* From getAddress until its type has been read, a device has one address, and
\* all other devices have lower ones: the index may move on for it.
Assigning == {"assign", "assigned", "type", "typed"}

Topmost ==
    \A t \in Thread : pc[t] \in Assigning =>
        /\ width[deviceSn[t]] = 1
        /\ \A e \in Device \ {deviceSn[t]} :
             Listed(e) /\ Listed(deviceSn[t])
                 => snAddrMap[e] + width[e] <= snAddrMap[deviceSn[t]]

\* The address in an unbind command is the lamp's or nobody's, and is not free.
UnbindNamesItsDevice ==
    \A msg \in unbinding :
        /\ msg[2] # NoAddress /\ msg[2] < index
        /\ \A e \in Device : snAddrMap[e] = msg[2] => e = msg[1]

AddressInv == BelowIndex /\ Apart /\ Topmost /\ UnbindNamesItsDevice

\* A step that hands out nothing: addresses are kept or deleted, and nobody gets
\* to a place of Assigning.
Shrinks ==
    /\ index' = index
    /\ \A d \in Device :
         /\ snAddrMap'[d] \in {snAddrMap[d], NoAddress}
         /\ width'[d] \in {width[d], 1}
    /\ \A t \in Thread : pc'[t] \in Assigning =>
         pc[t] \in Assigning /\ deviceSn'[t] = deviceSn[t]
    /\ unbinding' \subseteq unbinding

LEMMA ShrinkingKeeps ==
    ASSUME TypeOK, TypeOK', AddressInv, Shrinks
    PROVE  AddressInv'
  <1> USE DEF Listed, NoAddress, TypeOK
  <1>1. BelowIndex'
    BY DEF AddressInv, BelowIndex, Shrinks
  <1>2. Apart'
    BY DEF AddressInv, Apart, Shrinks
  <1>3. Topmost'
    <2>1. \A t \in Thread : pc[t] \in Assigning => deviceSn[t] \in Device
      BY DEF Assigning, InAddDevice
    <2>2. ASSUME NEW t \in Thread, pc'[t] \in Assigning
          PROVE  width'[deviceSn[t]] = 1
      BY <2>1, <2>2 DEF AddressInv, Topmost, Shrinks
    <2>3. ASSUME NEW t \in Thread, pc'[t] \in Assigning,
                 NEW e \in Device \ {deviceSn[t]},
                 snAddrMap'[e] # NoAddress, snAddrMap'[deviceSn[t]] # NoAddress
          PROVE  snAddrMap'[e] + width'[e] <= snAddrMap'[deviceSn[t]]
      <3>1. pc[t] \in Assigning /\ deviceSn[t] \in Device
        BY <2>1, <2>3 DEF Shrinks
      <3>2. /\ snAddrMap'[e] = snAddrMap[e] /\ width'[e] \in {width[e], 1}
            /\ snAddrMap'[deviceSn[t]] = snAddrMap[deviceSn[t]]
        BY <2>3, <3>1 DEF Shrinks
      <3>3. snAddrMap[e] + width[e] <= snAddrMap[deviceSn[t]]
        BY <2>3, <3>1, <3>2 DEF AddressInv, Topmost
      <3> QED BY <3>1, <3>2, <3>3
    <2>4. \A t \in Thread : pc'[t] \in Assigning => deviceSn'[t] = deviceSn[t]
      BY DEF Shrinks
    <2> QED BY <2>2, <2>3, <2>4 DEF Topmost
  <1>4. UnbindNamesItsDevice'
    BY DEF AddressInv, UnbindNamesItsDevice, Shrinks
  <1> QED BY <1>1, <1>2, <1>3, <1>4 DEF AddressInv

LEMMA DeletingShrinks ==
    ASSUME TypeOK, NEW d \in Device \cup {NoDevice}, DeleteDeviceSn(d), FileIsMap
    PROVE  /\ index' = index /\ FileIsMap'
           /\ \A e \in Device : /\ snAddrMap'[e] \in {snAddrMap[e], NoAddress}
                                /\ width'[e] \in {width[e], 1}
  BY DEF DeleteDeviceSn, Save, TypeOK, NoAddress, addresses, FileIsMap, EmptyFile,
         EmptyMap

\* getAddress, by the only thread that holds the lock.
LEMMA AssigningKeeps ==
    ASSUME TypeOK, TypeOK', OneHolder, AddressInv, NEW t \in Thread, AssignAddress(t)
    PROVE  AddressInv' /\ FileIsMap'
  <1> USE DEF Listed, NoAddress, TypeOK
  <1>1. PICK d \in deviceArray[t] :
           GetAddress(d) /\ deviceSn' = [deviceSn EXCEPT ![t] = d]
    BY DEF AssignAddress
  <1>2. d \in Device
    OBVIOUS
  <1>3. /\ index' = index + 1
        /\ snAddrMap'[d] = index /\ width'[d] = 1
        /\ \A e \in Device \ {d} : snAddrMap'[e] = snAddrMap[e] /\ width'[e] = width[e]
        /\ FileIsMap'
    BY <1>1, <1>2 DEF GetAddress, Save, FileIsMap
  <1>4. /\ unbinding' = unbinding /\ deviceSn'[t] = d
        /\ \A u \in Thread \ {t} : pc'[u] \notin Assigning
    <2>1. Holder(t)
      BY DEF Holder, Binding, AssignAddress
    <2>2. \A u \in Thread \ {t} : pc'[u] = pc[u] /\ ~Holder(u)
      BY <2>1 DEF OneHolder, AssignAddress, Goto
    <2> QED BY <1>1, <2>2 DEF Holder, Binding, InAddDevice, Assigning, AssignAddress
  <1>5. BelowIndex'
    BY <1>2, <1>3 DEF AddressInv, BelowIndex
  <1>6. Apart'
    BY <1>2, <1>3 DEF AddressInv, BelowIndex, Apart
  <1>7. Topmost'
    BY <1>2, <1>3, <1>4 DEF AddressInv, BelowIndex, Topmost
  <1>8. UnbindNamesItsDevice'
    BY <1>2, <1>3, <1>4 DEF AddressInv, UnbindNamesItsDevice
  <1> QED BY <1>3, <1>5, <1>6, <1>7, <1>8 DEF AddressInv

\* indexForward: the device being bound is the topmost, so nobody is in the way.
LEMMA ForwardingKeeps ==
    ASSUME TypeOK, TypeOK', OneHolder, AddressInv, FileIsMap,
           NEW t \in Thread, ReadType(t)
    PROVE  AddressInv' /\ FileIsMap'
  <1> USE DEF Listed, NoAddress, TypeOK
  <1> DEFINE d == deviceSn[t]
  <1>1. d \in Device /\ pc[t] = "typed"
    BY DEF ReadType, InAddDevice
  <1>2. /\ unbinding' = unbinding /\ deviceSn' = deviceSn
        /\ pc' = [pc EXCEPT ![t] = "bind"]
        /\ \A u \in Thread : pc'[u] \notin Assigning
    <2>1. Holder(t)
      BY DEF Holder, Binding, InAddDevice, ReadType
    <2>2. \A u \in Thread \ {t} : pc'[u] = pc[u] /\ ~Holder(u)
      BY <2>1 DEF OneHolder, ReadType, Goto
    <2> QED BY <2>2 DEF Holder, Binding, InAddDevice, Assigning, ReadType, Goto, gateway
  <1>3. CASE UNCHANGED addresses
    <2>1. Shrinks
      BY <1>2, <1>3 DEF Shrinks, addresses
    <2> QED BY <1>3, <2>1, ShrinkingKeeps DEF FileIsMap, addresses
  <1>4. CASE IndexForward(d)
    <2>1. /\ index' = index + 2 /\ snAddrMap' = snAddrMap /\ width'[d] = 3
          /\ \A e \in Device \ {d} : width'[e] = width[e]
          /\ FileIsMap'
      BY <1>1, <1>4 DEF IndexForward, Save, FileIsMap
    <2>2. /\ width[d] = 1
          /\ \A e \in Device \ {d} : Listed(e) /\ Listed(d)
                 => snAddrMap[e] + width[e] <= snAddrMap[d]
      BY <1>1 DEF AddressInv, Topmost, Assigning
    <2>3. BelowIndex'
      BY <1>1, <2>1, <2>2 DEF AddressInv, BelowIndex
    <2>4. Apart'
      BY <1>1, <2>1, <2>2 DEF AddressInv, Apart
    <2>5. Topmost'
      BY <1>2 DEF Topmost
    <2>6. UnbindNamesItsDevice'
      BY <1>2, <2>1 DEF AddressInv, UnbindNamesItsDevice
    <2> QED BY <2>1, <2>3, <2>4, <2>5, <2>6 DEF AddressInv
  <1> QED BY <1>3, <1>4 DEF ReadType

LEMMA SendingUnbindKeeps ==
    ASSUME TypeOK, TypeOK', AddressInv, FileIsMap, NEW t \in Thread, SendUnbind(t)
    PROVE  AddressInv' /\ FileIsMap'
  <1> USE DEF Listed, NoAddress, TypeOK
  <1>1. /\ UNCHANGED <<addresses, deviceSn>>
        /\ \A u \in Thread : pc'[u] \in Assigning => pc[u] \in Assigning
    BY DEF SendUnbind, Goto, Assigning
  <1>2. BelowIndex' /\ Apart' /\ Topmost' /\ FileIsMap'
    BY <1>1 DEF addresses, AddressInv, BelowIndex, Apart, Topmost, FileIsMap
  <1>3. PICK d \in Device : \/ /\ Listed(d)
                               /\ unbinding' = unbinding \cup {<<d, snAddrMap[d]>>}
                            \/ unbinding' = unbinding
    BY DEF SendUnbind
  <1>4. ASSUME Listed(d)
        PROVE  /\ snAddrMap[d] < index
               /\ \A e \in Device : snAddrMap[e] = snAddrMap[d] => e = d
    <2>1. \A e \in Device : width[e] >= 1
      OBVIOUS
    <2> QED BY <1>4, <2>1 DEF AddressInv, BelowIndex, Apart
  <1>5. UnbindNamesItsDevice'
    BY <1>1, <1>3, <1>4 DEF addresses, AddressInv, UnbindNamesItsDevice
  <1> QED BY <1>2, <1>5 DEF AddressInv

LEMMA RestartKeeps ==
    ASSUME TypeOK, TypeOK', AddressInv, FileIsMap, Restart
    PROVE  AddressInv' /\ FileIsMap'
  <1> USE DEF Listed, NoAddress, TypeOK
  <1>1. \A t \in Thread : pc'[t] \notin Assigning
    BY DEF Restart, Assigning
  <1>2. CASE snFile = EmptyFile
    <2>1. /\ \A d \in Device : ~Listed(d)'
          /\ unbinding' = {}
          /\ snFile' = EmptyFile
      BY <1>2 DEF Restart, LoadCache2Map, EmptyFile, EmptyMap
    <2> QED
      BY <1>1, <2>1 DEF AddressInv, BelowIndex, Apart, Topmost, UnbindNamesItsDevice,
                        FileIsMap
  <1>3. CASE snFile # EmptyFile
    <2>1. snFile = [map |-> snAddrMap, index |-> index]
      BY <1>3 DEF FileIsMap
    <2>2. UNCHANGED <<snAddrMap, index, snFile, width, unbinding>>
      BY <1>3, <2>1 DEF Restart, LoadCache2Map
    <2>3. Shrinks
      BY <1>1, <2>2 DEF Shrinks
    <2> QED BY <2>2, <2>3, ShrinkingKeeps DEF FileIsMap
  <1> QED BY <1>2, <1>3

LEMMA AddressStep ==
    ASSUME TypeOK, TypeOK', OneHolder, AddressInv, FileIsMap, [Next]_vars
    PROVE  AddressInv' /\ FileIsMap'
  <1>1. ASSUME UNCHANGED <<addresses, unbinding>>,
               \A t \in Thread : pc'[t] \in Assigning =>
                   pc[t] \in Assigning /\ deviceSn'[t] = deviceSn[t]
        PROVE  AddressInv' /\ FileIsMap'
    <2>1. Shrinks
      BY <1>1 DEF Shrinks, addresses
    <2> QED BY <1>1, <2>1, ShrinkingKeeps DEF addresses, FileIsMap
  <1>2. ASSUME NEW d \in Device \cup {NoDevice}, DeleteDeviceSn(d),
               unbinding' = unbinding,
               \A t \in Thread : pc'[t] \in Assigning =>
                   pc[t] \in Assigning /\ deviceSn'[t] = deviceSn[t]
        PROVE  AddressInv' /\ FileIsMap'
    <2>1. Shrinks /\ FileIsMap'
      BY <1>2, DeletingShrinks DEF Shrinks
    <2> QED BY <2>1, ShrinkingKeeps
  <1>3. ASSUME NEW t \in Thread,
               Parse(t) \/ SetBindingFlag(t) \/ GetScanedDevices(t) \/ BindEnters(t)
                 \/ VerifyNet(t) \/ SendBind(t) \/ TypeTimesOut(t) \/ BindEnds(t)
                 \/ ClearBindingFlag(t) \/ SpuriousWakeup(t)
        PROVE  AddressInv' /\ FileIsMap'
    <2>1. /\ UNCHANGED <<addresses, unbinding>>
          /\ \A u \in Thread : pc'[u] \in Assigning =>
               pc[u] \in Assigning /\ deviceSn'[u] = deviceSn[u]
      BY <1>3 DEF TypeOK, Parse, SetBindingFlag, GetScanedDevices, BindEnters,
           VerifyNet, SendBind, TypeTimesOut, BindEnds, ClearBindingFlag,
           SpuriousWakeup, Goto, Waits, Woken, Assigning, gateway
    <2> QED BY <1>1, <2>1
  <1>4. ASSUME NEW t \in Thread,
               AssignTimesOut(t) \/ ReadBindResult(t) \/ BindTimesOut(t)
        PROVE  AddressInv' /\ FileIsMap'
    <2>1. /\ unbinding' = unbinding
          /\ \A u \in Thread : pc'[u] \in Assigning =>
               pc[u] \in Assigning /\ deviceSn'[u] = deviceSn[u]
      BY <1>4 DEF TypeOK, AssignTimesOut, ReadBindResult, BindTimesOut, Leave, Goto,
           Assigning
    <2>2. DeleteDeviceSn(deviceSn[t]) \/ UNCHANGED addresses
      BY <1>4 DEF AssignTimesOut, ReadBindResult, BindTimesOut, BindFails, BindSucceeds
    <2>3. deviceSn[t] \in Device \cup {NoDevice}
      BY DEF TypeOK
    <2> QED BY <1>1, <1>2, <2>1, <2>2, <2>3
  <1>5. ASSUME NEW t \in Thread, Parse(t) \/ ThreadStep(t) \/ SpuriousWakeup(t)
        PROVE  AddressInv' /\ FileIsMap'
    BY <1>3, <1>4, <1>5, AssigningKeeps, ForwardingKeeps, SendingUnbindKeeps
    DEF ThreadStep
  <1>6. CASE GatewayReports
    <2>1. PICK kind \in Waits, d \in Device \cup {NoDevice} : Report(kind, d)
      BY <1>6 DEF GatewayReports, NodeAddressAssignAck, TypeEvent, BindResult, Waits
    <2>2. /\ UNCHANGED <<addresses, unbinding>>
          /\ \A u \in Thread : pc'[u] \in Assigning =>
               pc[u] \in Assigning /\ deviceSn'[u] = deviceSn[u]
      BY <2>1 DEF Report, Notify, Waits, Woken, Assigning
    <2> QED BY <1>1, <2>2
  <1>7. ASSUME NEW msg \in unbinding, UnBindResult(msg[1], msg[2])
        PROVE  AddressInv' /\ FileIsMap'
    <2>1. UNCHANGED <<addresses, pc, deviceSn>> /\ unbinding' \subseteq unbinding
      BY <1>7 DEF UnBindResult, control
    <2>2. Shrinks
      BY <2>1 DEF Shrinks, addresses
    <2> QED BY <2>1, <2>2, ShrinkingKeeps DEF addresses, FileIsMap
  <1>8. CASE UnbindDeletesSn
    <2>1. UNCHANGED <<unbinding, pc, deviceSn>> /\ DeleteDeviceSn(package.sn)
      BY <1>8 DEF UnbindDeletesSn, control, gateway
    <2>2. package.sn \in Device \cup {NoDevice}
      BY DEF TypeOK
    <2> QED BY <1>2, <2>1, <2>2
  <1>9. CASE ResetClearsAddresses
    <2>1. /\ UNCHANGED <<snAddrMap, index, width, pc, deviceSn>>
          /\ unbinding' = {} /\ snFile' = EmptyFile
      BY <1>9 DEF ResetClearsAddresses, control
    <2>2. Shrinks
      BY <2>1 DEF Shrinks
    <2> QED BY <2>1, <2>2, ShrinkingKeeps DEF FileIsMap, EmptyFile, EmptyMap
  <1>10. CASE UnbindDeletesItem \/ ResetClearsDevices \/ UNCHANGED vars
    <2>1. UNCHANGED <<addresses, unbinding, pc, deviceSn>>
      BY <1>10 DEF UnbindDeletesItem, ResetClearsDevices, vars, control, gateway
    <2> QED BY <1>1, <2>1
  <1>11. CASE Deadlock
    <2>1. /\ UNCHANGED <<addresses, unbinding, deviceSn>>
          /\ \A u \in Thread : pc'[u] \in Assigning => pc[u] \in Assigning
      BY <1>11 DEF Deadlock, Goto, gateway, TypeOK, Assigning
    <2> QED BY <1>1, <2>1
  <1> QED
    BY <1>5, <1>6, <1>7, <1>8, <1>9, <1>10, <1>11, RestartKeeps DEF Next

-----------------------------------------------------------------------------
(* The result of a bind.                                                    *)

\* A result that has come and is read as success is the device's own, or the
\* wait has been marked.
ResultIsOwn ==
    \A t \in Thread : pc[t] = "bound" /\ bindData => confirmed \/ misled

LEMMA ResultStep ==
    ASSUME TypeOK, OneHolder, ResultIsOwn, [Next]_vars
    PROVE  ResultIsOwn'
  <1>1. ASSUME UNCHANGED <<events, confirmed, misled>>,
               \A t \in Thread : pc'[t] = "bound" => pc[t] = "bound"
        PROVE  ResultIsOwn'
    BY <1>1 DEF ResultIsOwn, events
  <1>2. ASSUME NEW t \in Thread,
               Parse(t) \/ SetBindingFlag(t) \/ SendUnbind(t) \/ GetScanedDevices(t)
                 \/ BindEnters(t) \/ VerifyNet(t) \/ AssignAddress(t) \/ SendBind(t)
                 \/ ReadType(t) \/ TypeTimesOut(t) \/ BindEnds(t) \/ ClearBindingFlag(t)
        PROVE  ResultIsOwn'
    <2>1. /\ UNCHANGED <<events, confirmed, misled>>
          /\ \A u \in Thread : pc'[u] = "bound" => pc[u] = "bound"
      BY <1>2 DEF TypeOK, Parse, SetBindingFlag, SendUnbind, GetScanedDevices,
           BindEnters, VerifyNet, AssignAddress, SendBind, ReadType, TypeTimesOut,
           BindEnds, ClearBindingFlag, Goto, gateway
    <2> QED BY <1>1, <2>1
  <1>3. ASSUME NEW t \in Thread,
               AssignTimesOut(t) \/ ReadBindResult(t) \/ BindTimesOut(t)
        PROVE  ResultIsOwn'
    <2>1. Holder(t)
      BY <1>3 DEF AssignTimesOut, ReadBindResult, BindTimesOut, Holder, Binding,
                  InAddDevice
    <2>2. /\ pc'[t] = "next"
          /\ \A u \in Thread \ {t} : pc'[u] = pc[u]
      BY <1>3 DEF TypeOK, AssignTimesOut, ReadBindResult, BindTimesOut, Leave, Goto
    <2>3. \A u \in Thread \ {t} : pc[u] # "bound"
      BY <2>1 DEF OneHolder, Holder, Binding, InAddDevice
    <2> QED BY <2>2, <2>3 DEF ResultIsOwn
  <1>4. ASSUME NEW t \in Thread, SpuriousWakeup(t)
        PROVE  ResultIsOwn'
    <2>1. Holder(t)
      BY <1>4 DEF SpuriousWakeup, Holder, Binding, InAddDevice, Waits
    <2>2. \A u \in Thread \ {t} : pc'[u] = pc[u] /\ pc[u] # "bound"
      BY <1>4, <2>1 DEF TypeOK, SpuriousWakeup, Goto, OneHolder, Holder, Binding,
                        InAddDevice
    <2>3. pc'[t] = "bound" => misled'
      <3>1. pc'[t] = "bound" => pc[t] = "bind"
        BY <1>4 DEF TypeOK, SpuriousWakeup, Goto, Waits, Woken
      <3>2. pc[t] = "bind" => misled'
        BY <1>4 DEF SpuriousWakeup
      <3> QED BY <3>1, <3>2
    <2> QED BY <2>2, <2>3 DEF ResultIsOwn
  <1>5. CASE GatewayReports
    <2>1. ASSUME NEW d \in Device, TypeEvent(d)
          PROVE  ResultIsOwn'
      BY <2>1 DEF ResultIsOwn, TypeEvent, Report, Notify, Woken
    <2>2. CASE NodeAddressAssignAck
      BY <2>2 DEF ResultIsOwn, NodeAddressAssignAck, Report, Notify, Woken, events
    <2>3. ASSUME NEW d \in Device, NEW success \in BOOLEAN, BindResult(d, success)
          PROVE  ResultIsOwn'
      <3>1. \A t \in Thread : pc'[t] = "bound" => pc[t] \in {"bind", "bound"}
        BY <2>3 DEF BindResult, Report, Notify, Woken
      <3>2. bindData' = success
        BY <2>3 DEF BindResult
      <3>3. ASSUME NEW t \in Thread, pc[t] \in {"bind", "bound"}, success
            PROVE  confirmed' \/ misled'
        BY <2>3, <3>3 DEF BindResult, IsBinding, MeetsAnother
      <3> QED BY <3>1, <3>2, <3>3 DEF ResultIsOwn
    <2> QED BY <1>5, <2>1, <2>2, <2>3 DEF GatewayReports
  <1>6. CASE \/ \E msg \in unbinding : UnBindResult(msg[1], msg[2])
             \/ UnbindDeletesSn \/ UnbindDeletesItem
             \/ ResetClearsAddresses \/ ResetClearsDevices \/ UNCHANGED vars
    <2>1. UNCHANGED <<events, confirmed, misled, pc>>
      BY <1>6 DEF UnBindResult, UnbindDeletesSn, UnbindDeletesItem, control, gateway,
           ResetClearsAddresses, ResetClearsDevices, vars
    <2> QED BY <1>1, <2>1
  <1>7. CASE Restart
    BY <1>7 DEF Restart, ResultIsOwn
  <1>8. CASE Deadlock
    <2>1. /\ UNCHANGED <<events, confirmed, misled>>
          /\ \A u \in Thread : pc'[u] = "bound" => pc[u] = "bound"
      BY <1>8 DEF TypeOK, Deadlock, Goto, gateway
    <2> QED BY <1>1, <2>1
  <1> QED
    BY <1>2, <1>3, <1>4, <1>5, <1>6, <1>7, <1>8 DEF Next, ThreadStep

\* Only the end of a successful bind puts a device into the list.
LEMMA ListStep ==
    ASSUME [Next]_vars, deviceList' \ deviceList # {}
    PROVE  \E t \in Thread : pc[t] = "bound" /\ bindData
  <1>1. ASSUME NEW t \in Thread, Parse(t) \/ ThreadStep(t) \/ SpuriousWakeup(t)
        PROVE  \/ deviceList' \subseteq deviceList
               \/ pc[t] = "bound" /\ bindData
    BY <1>1 DEF ThreadStep, Parse, SetBindingFlag, SendUnbind, GetScanedDevices,
         BindEnters, VerifyNet, AssignAddress, AssignTimesOut, SendBind, ReadType,
         TypeTimesOut, ReadBindResult, BindTimesOut, BindFails, BindEnds,
         ClearBindingFlag, SpuriousWakeup, lists
  <1>2. CASE GatewayReports
    BY <1>2 DEF GatewayReports, NodeAddressAssignAck, TypeEvent, BindResult, Report,
         lists
  <1>3. CASE \/ \E msg \in unbinding : UnBindResult(msg[1], msg[2])
             \/ UnbindDeletesSn \/ UnbindDeletesItem \/ Deadlock
             \/ ResetClearsAddresses \/ ResetClearsDevices \/ Restart \/ UNCHANGED vars
    BY <1>3 DEF Deadlock, UnBindResult, UnbindDeletesSn, UnbindDeletesItem,
         ResetClearsAddresses, ResetClearsDevices, Restart, vars, lists
  <1> QED
    BY <1>1, <1>2, <1>3 DEF Next, ThreadStep

-----------------------------------------------------------------------------
(* The theorems.                                                            *)

IInv ==
    /\ TypeOK
    /\ OneHolder
    /\ AddressInv
    /\ FileIsMap
    /\ UnbindHitsItsDevice
    /\ ResultIsOwn

LEMMA UnbindStep ==
    ASSUME TypeOK, AddressInv, UnbindHitsItsDevice, [Next]_vars
    PROVE  UnbindHitsItsDevice'
  <1>1. ASSUME NEW msg \in unbinding, UnBindResult(msg[1], msg[2])
        PROVE  UnbindHitsItsDevice'
    <2>1. /\ package'.sn = Address2DeviceSn(msg[2])
          /\ package'.from = msg[1]
      BY <1>1 DEF UnBindResult
    <2>2. \A e \in Device : snAddrMap[e] = msg[2] => e = msg[1]
      BY DEF AddressInv, UnbindNamesItsDevice
    <2>3. Address2DeviceSn(msg[2]) \in {msg[1], NoDevice}
      BY <2>2 DEF Address2DeviceSn
    <2> QED BY <2>1, <2>3 DEF UnbindHitsItsDevice
  <1>2. CASE UnbindDeletesSn
    BY <1>2 DEF UnbindDeletesSn, UnbindHitsItsDevice, TypeOK
  <1>3. CASE UnbindDeletesItem \/ Restart
    BY <1>3 DEF UnbindDeletesItem, Restart, NoPackage, UnbindHitsItsDevice
  <1>4. ASSUME UNCHANGED package
        PROVE  UnbindHitsItsDevice'
    BY <1>4 DEF UnbindHitsItsDevice
  <1>5. ASSUME NEW t \in Thread, Parse(t) \/ ThreadStep(t) \/ SpuriousWakeup(t)
        PROVE  UNCHANGED package
    BY <1>5 DEF ThreadStep, Parse, SetBindingFlag, SendUnbind, GetScanedDevices,
         BindEnters, VerifyNet, AssignAddress, AssignTimesOut, SendBind, ReadType,
         TypeTimesOut, ReadBindResult, BindTimesOut, BindEnds, ClearBindingFlag,
         SpuriousWakeup, others
  <1>6. CASE GatewayReports \/ Deadlock \/ ResetClearsAddresses \/ ResetClearsDevices
             \/ UNCHANGED vars
    <2>1. UNCHANGED package
      BY <1>6 DEF GatewayReports, NodeAddressAssignAck, TypeEvent, BindResult, Report,
           Deadlock, ResetClearsAddresses, ResetClearsDevices, vars, others
    <2> QED BY <1>4, <2>1
  <1> QED
    BY <1>1, <1>2, <1>3, <1>4, <1>5, <1>6 DEF Next

\* The invariant everything follows from.
THEOREM Invariant == Spec => []IInv
  <1>1. Init => IInv
    <2> SUFFICES ASSUME Init PROVE OneHolder /\ AddressInv /\ FileIsMap
                                   /\ UnbindHitsItsDevice /\ ResultIsOwn
      BY InitTypes DEF IInv
    <2>1. \A t \in Thread : ~Holder(t) /\ pc[t] \notin Assigning /\ pc[t] # "bound"
      BY DEF Init, Holder, Binding, InAddDevice, Assigning
    <2>2. AddressInv
      BY <2>1 DEF Init, AddressInv, BelowIndex, Apart, Topmost, UnbindNamesItsDevice,
                  Listed, EmptyMap
    <2>3. FileIsMap /\ UnbindHitsItsDevice
      BY DEF Init, FileIsMap, UnbindHitsItsDevice, NoPackage
    <2> QED BY <2>1, <2>2, <2>3 DEF OneHolder, ResultIsOwn
  <1>2. IInv /\ [Next]_vars => IInv'
    <2> SUFFICES ASSUME IInv, [Next]_vars PROVE IInv'
      OBVIOUS
    <2>1. TypeOK'
      BY TypeStep DEF IInv
    <2> QED
      BY <2>1, OneHolderStep, AddressStep, ResultStep, UnbindStep DEF IInv
  <1> QED BY <1>1, <1>2, PTL DEF Spec

\* No two devices share an address, however many devices, threads, requests,
\* resets and restarts there are.
THEOREM AddressesAreDisjoint == Spec => []AddressRangesDisjoint
  <1>1. IInv => AddressRangesDisjoint
    BY DEF IInv, TypeOK, AddressInv, Apart, Listed, NoAddress, AddressRange,
           AddressRangesDisjoint
  <1> QED BY <1>1, Invariant, PTL

\* An unbind report never removes another device than the one that sent it.
THEOREM UnbindHits == Spec => []UnbindHitsItsDevice
  <1>1. IInv => UnbindHitsItsDevice
    BY DEF IInv
  <1> QED BY <1>1, Invariant, PTL

\* A device is listed only on its own answer, apart from the waits that were
\* woken by nobody or met another device's report.
THEOREM ListsTheBoundHolds == Spec => ListsTheBound
  <1>1. IInv /\ [Next]_vars => [deviceList' \ deviceList # {} => confirmed \/ misled]_vars
    <2> SUFFICES ASSUME IInv, [Next]_vars, deviceList' \ deviceList # {}
                 PROVE  confirmed \/ misled
      OBVIOUS
    <2> QED BY ListStep DEF IInv, ResultIsOwn
  <1> QED BY <1>1, Invariant, PTL DEF Spec, ListsTheBound
=============================================================================
