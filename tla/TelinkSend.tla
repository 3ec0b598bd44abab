----------------------------- MODULE TelinkSend -----------------------------
(***************************************************************************)
(* The sending half of TelinkDongle (src/unit/bleSite/serial): the callers *)
(* that queue commands, the one send thread that takes them in turn from   *)
(* two lists and writes them to the serial port, and the package thread    *)
(* that drops a triple-switch command once its device has reported.        *)
(*                                                                         *)
(* A command stands for one queued string: it can be queued again after it *)
(* has left.  The payload is abstracted to the command's class (decided by *)
(* DownUtility::sendCommand2SerialPort) and its device address.            *)
(***************************************************************************)
EXTENDS Naturals, SequencesExt

CONSTANTS
    CommonCommand,  \* commands that go to sendList
    SwitchCommand,  \* on/off commands (8203) of listed TRIPLE_SWITCH devices
    Address,        \* unicast addresses of the triple switches
    AddressOf,      \* getCommandAddress: the address bytes of a command
    NoAddress,      \* "": deviceSn2Address of a device no longer in the map
    NoCommand,      \* "": the send thread holds nothing
    MaxTries,       \* transmissions of one switch command (6 in the code)
    MaxCallers,     \* bound: callers between their push and their notify
    MaxReports      \* bound: length of recvQueue

Command == CommonCommand \cup SwitchCommand

ASSUME AddressOfAssumption == AddressOf \in [SwitchCommand -> Address]
ASSUME NoValueAssumption == NoAddress \notin Address /\ NoCommand \notin Command
ASSUME DisjointAssumption == CommonCommand \cap SwitchCommand = {}
ASSUME MaxTriesAssumption == MaxTries \in Nat /\ MaxTries >= 2
ASSUME BoundAssumption == MaxCallers \in Nat /\ MaxReports \in Nat

VARIABLES
    sendList,               \* FIFO of common commands
    sendList_tripleSwitch,  \* FIFO of switch commands, the front one retried
    addressTryCountMap,     \* tries per address; 0: no entry in the map
    common, triple,         \* class of the last command taken
    pc,                     \* send thread: "ready", "waiting" or "writing"
    commandString,          \* what the send thread is writing
    toNotify,               \* callers that have pushed and not yet notified
    recvQueue,              \* on/off reports not yet handled
    attempts,               \* history: transmissions in the command's present stay
    bypassed                \* history: commands of the other class taken in a row
                            \* while this class had one queued

queues == <<sendList, sendList_tripleSwitch, addressTryCountMap, attempts>>
turn   == <<common, triple, bypassed>>
vars   == <<queues, turn, pc, commandString, toNotify, recvQueue>>

Init ==
    /\ sendList = <<>>
    /\ sendList_tripleSwitch = <<>>
    /\ addressTryCountMap = [a \in Address |-> 0]
    /\ common = FALSE /\ triple = FALSE
    /\ pc = "ready"
    /\ commandString = NoCommand
    /\ toNotify = 0
    /\ recvQueue = <<>>
    /\ attempts = [s \in SwitchCommand |-> 0]
    /\ bypassed = [common |-> 0, triple |-> 0]

-----------------------------------------------------------------------------
(* Faulty variants of operations defined below: each is a slip that one of  *)
(* the properties rules out.                                                *)

\* A switch command is put into the common list.
SwitchQueuedAsCommon(s) ==
    /\ toNotify < MaxCallers
    /\ ~Contains(sendList_tripleSwitch, s) /\ commandString # s
    /\ sendList' = Append(sendList, s)
    /\ toNotify' = toNotify + 1
    /\ UNCHANGED <<sendList_tripleSwitch, addressTryCountMap, attempts,
                   turn, pc, commandString, recvQueue>>

\* The try count of an address survives the report.
ReportKeepsCount(a) ==
    LET matches == {i \in DOMAIN sendList_tripleSwitch :
                       AddressOf[sendList_tripleSwitch[i]] = a}
        first   == CHOOSE i \in matches : \A j \in matches : i <= j
    IN  /\ UNCHANGED addressTryCountMap
        /\ IF matches = {}
           THEN UNCHANGED <<sendList_tripleSwitch, attempts>>
           ELSE /\ sendList_tripleSwitch' = RemoveAt(sendList_tripleSwitch, first)
                /\ attempts' = [attempts EXCEPT ![sendList_tripleSwitch[first]] = 0]

\* A command that has had its last try is queued again.
LastTryRequeues ==
    LET s     == Head(sendList_tripleSwitch)
        tries == addressTryCountMap[AddressOf[s]] + 1
        last  == tries > 1 /\ tries >= MaxTries
    IN  /\ commandString' = s
        /\ addressTryCountMap' =
              [addressTryCountMap EXCEPT ![AddressOf[s]] = IF last THEN 0 ELSE tries]
        /\ sendList_tripleSwitch' = IF last THEN Append(Tail(sendList_tripleSwitch), s)
                                    ELSE sendList_tripleSwitch
        /\ common' = FALSE /\ triple' = TRUE
        /\ attempts' = [attempts EXCEPT ![s] = IF last THEN 0 ELSE @ + 1]
        /\ bypassed' = [bypassed EXCEPT !.triple = 0]
        /\ UNCHANGED sendList

\* Common commands always first; or only when no switch command is queued.
CommonAlwaysFirst == sendList # <<>>
CommonOnlyWhenAlone == sendList # <<>> /\ sendList_tripleSwitch = <<>>

-----------------------------------------------------------------------------
(* The callers: HTTP handlers and the bind thread.  A push and its          *)
(* notify_one are two steps, the lock is released in between.               *)

Write2Seria(c) ==
    /\ toNotify < MaxCallers
    /\ ~Contains(sendList, c) /\ commandString # c
    /\ sendList' = Append(sendList, c)
    /\ toNotify' = toNotify + 1
    /\ UNCHANGED <<sendList_tripleSwitch, addressTryCountMap, attempts,
                   turn, pc, commandString, recvQueue>>

Write2Serial_tripleSwitch(s) ==
    /\ toNotify < MaxCallers
    /\ ~Contains(sendList_tripleSwitch, s) /\ commandString # s
    /\ sendList_tripleSwitch' = Append(sendList_tripleSwitch, s)
    /\ attempts' = [attempts EXCEPT ![s] = 0]
    /\ toNotify' = toNotify + 1
    /\ UNCHANGED <<sendList, addressTryCountMap, turn, pc, commandString, recvQueue>>

NotifyOne ==
    /\ toNotify > 0
    /\ toNotify' = toNotify - 1
    /\ pc' = IF pc = "waiting" THEN "ready" ELSE pc
    /\ UNCHANGED <<queues, turn, commandString, recvQueue>>

-----------------------------------------------------------------------------
(* The send thread.                                                         *)

NothingQueued == sendList = <<>> /\ sendList_tripleSwitch = <<>>

Wait ==
    /\ pc = "ready"
    /\ NothingQueued
    /\ pc' = "waiting"
    /\ UNCHANGED <<queues, turn, commandString, toNotify, recvQueue>>

SpuriousWakeup ==
    /\ pc = "waiting"
    /\ pc' = "ready"
    /\ UNCHANGED <<queues, turn, commandString, toNotify, recvQueue>>

\* The branches of getCommandString.
CommonTurn == sendList # <<>> /\ (sendList_tripleSwitch = <<>> \/ ~common)
TripleTurn == sendList_tripleSwitch # <<>> /\ (sendList = <<>> \/ ~triple)

LastTry(tries) == tries > 1 /\ tries >= MaxTries

Passed(n, queue) == IF queue = <<>> THEN 0 ELSE n + 1

TakeCommon ==
    /\ commandString' = Head(sendList)
    /\ sendList' = Tail(sendList)
    /\ common' = TRUE /\ triple' = FALSE
    /\ bypassed' = [common |-> 0,
                    triple |-> Passed(bypassed.triple, sendList_tripleSwitch)]
    /\ UNCHANGED <<sendList_tripleSwitch, addressTryCountMap, attempts>>

\* The front command stays queued for a retry until its last try.
RecordTripleSwitch ==
    LET s     == Head(sendList_tripleSwitch)
        tries == addressTryCountMap[AddressOf[s]] + 1
    IN  /\ commandString' = s
        /\ addressTryCountMap' =
              [addressTryCountMap EXCEPT ![AddressOf[s]] = IF LastTry(tries) THEN 0 ELSE tries]
        /\ sendList_tripleSwitch' = IF LastTry(tries) THEN Tail(sendList_tripleSwitch)
                                    ELSE sendList_tripleSwitch
        /\ common' = FALSE /\ triple' = TRUE
        /\ attempts' = [attempts EXCEPT ![s] = @ + 1]
        /\ bypassed' = [common |-> Passed(bypassed.common, sendList), triple |-> 0]
        /\ UNCHANGED sendList

\* No branch taken: the empty string is written.
TakeNothing == commandString' = NoCommand /\ UNCHANGED <<queues, turn>>

GetCommandString ==
    /\ pc = "ready"
    /\ ~NothingQueued
    /\ pc' = "writing"
    /\ IF CommonTurn THEN TakeCommon
       ELSE IF TripleTurn THEN RecordTripleSwitch
       ELSE TakeNothing
    /\ UNCHANGED <<toNotify, recvQueue>>

\* write2Serial, outside the lock, then the 100 ms pause.
WriteDone ==
    /\ pc = "writing"
    /\ pc' = "ready"
    /\ commandString' = NoCommand
    /\ UNCHANGED <<queues, turn, toNotify, recvQueue>>

-----------------------------------------------------------------------------
(* Reports.  A lamp may answer a transmission, answer it twice, not answer  *)
(* it, or report because somebody pressed its button.                       *)

ReportArrives(a) ==
    /\ Len(recvQueue) < MaxReports
    /\ recvQueue' = Append(recvQueue, a)
    /\ UNCHANGED <<queues, turn, pc, commandString, toNotify>>

\* The first queued command of address a, 0 if there is none.
FirstOf(a) ==
    LET matches == {i \in DOMAIN sendList_tripleSwitch :
                       AddressOf[sendList_tripleSwitch[i]] = a}
    IN  IF matches = {} THEN 0
        ELSE CHOOSE i \in matches : \A j \in matches : i <= j

DeleteTripleSwitchControlData(a) ==
    /\ addressTryCountMap' = [b \in Address |-> IF b = a THEN 0 ELSE addressTryCountMap[b]]
    /\ IF FirstOf(a) = 0
       THEN UNCHANGED <<sendList_tripleSwitch, attempts>>
       ELSE /\ sendList_tripleSwitch' = RemoveAt(sendList_tripleSwitch, FirstOf(a))
            /\ attempts' = [attempts EXCEPT ![sendList_tripleSwitch[FirstOf(a)]] = 0]

\* packageHandel runs LightOnOffStatus::postEvent for the first report.
PackageHandel ==
    /\ recvQueue # <<>>
    /\ recvQueue' = Tail(recvQueue)
    /\ IF Head(recvQueue) = NoAddress
       THEN UNCHANGED <<sendList_tripleSwitch, addressTryCountMap, attempts>>
       ELSE DeleteTripleSwitchControlData(Head(recvQueue))
    /\ UNCHANGED <<sendList, turn, pc, commandString, toNotify>>

-----------------------------------------------------------------------------
SendThread == Wait \/ GetCommandString \/ WriteDone

Next ==
    \/ \E c \in CommonCommand : Write2Seria(c)
    \/ \E s \in SwitchCommand : Write2Serial_tripleSwitch(s)
    \/ NotifyOne
    \/ SendThread
    \/ SpuriousWakeup
    \/ \E a \in Address \cup {NoAddress} : ReportArrives(a)
    \/ PackageHandel

Spec == Init /\ [][Next]_vars

\* The threads run, and a caller that has pushed goes on to notify; nobody
\* is obliged to send a command, and no lamp to report.
Fairness == WF_vars(SendThread) /\ WF_vars(NotifyOne) /\ WF_vars(PackageHandel)

FairSpec == Spec /\ Fairness

-----------------------------------------------------------------------------
TypeOK ==
    /\ sendList \in Seq(CommonCommand)
    /\ sendList_tripleSwitch \in Seq(SwitchCommand)
    /\ addressTryCountMap \in [Address -> Nat]
    /\ common \in BOOLEAN /\ triple \in BOOLEAN
    /\ pc \in {"ready", "waiting", "writing"}
    /\ commandString \in Command \cup {NoCommand}
    /\ toNotify \in 0..MaxCallers
    /\ recvQueue \in Seq(Address \cup {NoAddress})
    /\ attempts \in [SwitchCommand -> Nat]
    /\ bypassed \in [common : Nat, triple : Nat]

\* The retry counter is kept per address, the list per command.  The number
\* that recordTripleSwitch puts into a transmission is nevertheless the number
\* of transmissions of the very command at the front: no count survives the
\* command it was made for, and a command behind the front has none.
CountBelongsToFront ==
    /\ \A a \in Address : addressTryCountMap[a] # 0 =>
          /\ sendList_tripleSwitch # <<>>
          /\ AddressOf[Head(sendList_tripleSwitch)] = a
          /\ addressTryCountMap[a] < MaxTries
    /\ \A i \in DOMAIN sendList_tripleSwitch :
          attempts[sendList_tripleSwitch[i]] =
             IF i = 1 THEN addressTryCountMap[AddressOf[sendList_tripleSwitch[1]]] ELSE 0

\* Whatever reports and new commands come in between, no switch command is
\* transmitted more than MaxTries times in one stay in the list.
AtMostMaxTries == \A s \in SwitchCommand : attempts[s] <= MaxTries

\* common and triple decide whose turn it is, and getCommandString has a
\* fourth outcome in which neither list is served and "" goes to the serial
\* port: it is never reached.
NeverWritesNothing == pc = "writing" => commandString # NoCommand

\* With commands in both lists the two classes alternate: no list is passed
\* over twice in a row, also when it was empty in between.
BoundedBypass == bypassed.common <= 1 /\ bypassed.triple <= 1

\* The send thread never sleeps on a command that nobody will wake it for:
\* if it waits and something is queued, a notify_one is still to come.
NoLostWakeup == pc = "waiting" /\ ~NothingQueued => toNotify > 0

\* A switch command leaves the list only by its last try or because a report
\* from its own address is handled in this step.
LeavesForAReason ==
    [][\A s \in SwitchCommand :
          Contains(sendList_tripleSwitch, s) /\ ~Contains(sendList_tripleSwitch', s) =>
             \/ attempts'[s] = MaxTries
             \/ /\ recvQueue # <<>>
                /\ recvQueue' = Tail(recvQueue)
                /\ Head(recvQueue) = AddressOf[s]]_vars

\* Retries of a deaf switch do not starve the common commands: every one of
\* them is written.
EveryCommonIsWritten ==
    \A c \in CommonCommand : Contains(sendList, c) ~> commandString = c

\* No switch command stays in the list for ever, also if no lamp answers and
\* new commands keep coming.
EverySwitchLeaves ==
    \A s \in SwitchCommand :
       Contains(sendList_tripleSwitch, s) ~> ~Contains(sendList_tripleSwitch, s)
=============================================================================
