-------------------------- MODULE TelinkSendProofs --------------------------
(***************************************************************************)
(* Proofs about TelinkSend, for every set of commands and addresses, every *)
(* number of tries above one and all bounds.                               *)
(***************************************************************************)
EXTENDS TelinkSend, SequenceTheorems, WellFoundedInduction, TLAPS

USE AddressOfAssumption, NoValueAssumption, DisjointAssumption,
    MaxTriesAssumption, BoundAssumption

-----------------------------------------------------------------------------
(* Sequences.                                                               *)

\* Taking the element at position k out of a sequence moves the later ones
\* one place to the front and changes nothing else.
LEMMA RemoveAtProperties ==
    ASSUME NEW S, NEW q \in Seq(S), NEW k \in 1..Len(q)
    PROVE  /\ RemoveAt(q, k) \in Seq(S)
           /\ Len(RemoveAt(q, k)) = Len(q) - 1
           /\ \A i \in 1..(Len(q) - 1) :
                 RemoveAt(q, k)[i] = IF i < k THEN q[i] ELSE q[i + 1]
<1> DEFINE front == SubSeq(q, 1, k - 1)
           back  == SubSeq(q, k + 1, Len(q))
<1>1. /\ Len(q) \in Nat
      /\ \A i \in 1..Len(q) : q[i] \in S
  BY LenProperties, ElementOfSeq
<1>2. /\ front \in Seq(S)
      /\ Len(front) = k - 1
      /\ \A i \in 1..(k - 1) : front[i] = q[i]
  <2>1. \A i \in 1..(k - 1) : q[i] \in S
    BY <1>1
  <2> HIDE DEF front
  <2>2. /\ front \in Seq(S)
        /\ Len(front) = IF 1 <= k - 1 THEN (k - 1) - 1 + 1 ELSE 0
        /\ \A i \in 1..((k - 1) - 1 + 1) : front[i] = q[1 + i - 1]
    BY <2>1, <1>1, SubSeqProperties DEF front
  <2> QED BY <2>2, <1>1
<1>3. /\ back \in Seq(S)
      /\ Len(back) = Len(q) - k
      /\ \A i \in 1..(Len(q) - k) : back[i] = q[k + i]
  <2>1. \A i \in (k + 1)..Len(q) : q[i] \in S
    BY <1>1
  <2> HIDE DEF back
  <2>2. /\ back \in Seq(S)
        /\ Len(back) = IF k + 1 <= Len(q) THEN Len(q) - (k + 1) + 1 ELSE 0
        /\ \A i \in 1..(Len(q) - (k + 1) + 1) : back[i] = q[(k + 1) + i - 1]
    BY <2>1, <1>1, SubSeqProperties DEF back
  <2> QED BY <2>2, <1>1
<1> HIDE DEF front, back
<1>4. RemoveAt(q, k) = front \o back
  BY DEF RemoveAt, front, back
<1>5. /\ front \o back \in Seq(S)
      /\ Len(front \o back) = Len(front) + Len(back)
      /\ \A i \in 1..(Len(front) + Len(back)) :
            (front \o back)[i] = IF i <= Len(front) THEN front[i]
                                 ELSE back[i - Len(front)]
  BY <1>2, <1>3, ConcatProperties
<1> QED BY <1>1, <1>2, <1>3, <1>4, <1>5

\* FirstOf returns the position of the first command of an address, or 0 if
\* none is queued.
LEMMA FirstOfProperties ==
    ASSUME NEW a \in Address, sendList_tripleSwitch \in Seq(SwitchCommand)
    PROVE  \/ /\ FirstOf(a) = 0
              /\ \A i \in 1..Len(sendList_tripleSwitch) :
                    AddressOf[sendList_tripleSwitch[i]] # a
           \/ /\ FirstOf(a) \in 1..Len(sendList_tripleSwitch)
              /\ AddressOf[sendList_tripleSwitch[FirstOf(a)]] = a
              /\ \A i \in 1..(FirstOf(a) - 1) :
                    AddressOf[sendList_tripleSwitch[i]] # a
<1> DEFINE q == sendList_tripleSwitch
           matches == {i \in 1..Len(q) : AddressOf[q[i]] = a}
<1>1. Len(q) \in Nat /\ DOMAIN q = 1..Len(q)
  BY LenProperties
<1>2. CASE matches = {}
  BY <1>1, <1>2 DEF FirstOf
<1>3. CASE matches # {}
  <2>1. \E i \in matches : \A j \in matches : i <= j
    <3>1. matches \subseteq Nat
      BY <1>1
    <3>2. PICK i \in matches : \A j \in matches : <<j, i>> \notin OpToRel(<, Nat)
      <4> HIDE DEF matches
      <4> QED BY <1>3, <3>1, NatLessThanWellFounded, WFMin
    <3>3. /\ i \in matches
          /\ \A j \in matches : <<j, i>> \notin {ss \in Nat \X Nat : ss[1] < ss[2]}
      BY <3>2 DEF OpToRel
    <3> HIDE DEF matches
    <3>4. \A j \in matches : i <= j
      <4>1. SUFFICES ASSUME NEW j \in matches
                     PROVE  i <= j
        OBVIOUS
      <4>2. i \in Nat /\ j \in Nat
        BY <3>1, <3>3
      <4>3. <<j, i>> \in Nat \X Nat /\ <<j, i>>[1] = j /\ <<j, i>>[2] = i
        BY <4>2
      <4>4. ~ (<<j, i>>[1] < <<j, i>>[2])
        BY <3>3, <4>3, Zenon
      <4> QED BY <4>2, <4>3, <4>4
    <3> QED BY <3>4
  <2>2. FirstOf(a) = CHOOSE i \in matches : \A j \in matches : i <= j
    BY <1>1, <1>3 DEF FirstOf
  <2>3. FirstOf(a) \in matches /\ \A j \in matches : FirstOf(a) <= j
    <3> HIDE DEF matches
    <3> QED BY <2>1, <2>2
  <2> QED BY <1>1, <2>3
<1> QED BY <1>2, <1>3

-----------------------------------------------------------------------------
(* Types.                                                                   *)

\* Every variable keeps its type: no operation of the callers, the send
\* thread or the package thread mixes up the two lists.
THEOREM TypeCorrect == Spec => []TypeOK
<1>1. Init => TypeOK
  <2>1. /\ <<>> \in Seq(CommonCommand)
        /\ <<>> \in Seq(SwitchCommand)
        /\ <<>> \in Seq(Address \cup {NoAddress})
        /\ 0 \in 0..MaxCallers
        /\ [a \in Address |-> 0] \in [Address -> Nat]
        /\ [s \in SwitchCommand |-> 0] \in [SwitchCommand -> Nat]
        /\ [common |-> 0, triple |-> 0] \in [common : Nat, triple : Nat]
    BY EmptySeq
  <2> QED BY <2>1 DEF Init, TypeOK
<1>2. TypeOK /\ [Next]_vars => TypeOK'
  <2> SUFFICES ASSUME TypeOK, [Next]_vars
               PROVE  TypeOK'
    OBVIOUS
  <2> USE DEF TypeOK
  <2>1. CASE UNCHANGED vars
    BY <2>1 DEF vars, queues, turn
  <2>2. ASSUME NEW c \in CommonCommand, Write2Seria(c)
        PROVE  TypeOK'
    BY <2>2 DEF Write2Seria, turn
  <2>3. ASSUME NEW c \in SwitchCommand, Write2Serial_tripleSwitch(c)
        PROVE  TypeOK'
    BY <2>3 DEF Write2Serial_tripleSwitch, turn
  <2>4. CASE NotifyOne
    BY <2>4 DEF NotifyOne, queues, turn
  <2>5. CASE Wait
    BY <2>5 DEF Wait, queues, turn
  <2>6. CASE GetCommandString
    <3>1. CASE CommonTurn /\ TakeCommon
      <4>1. Head(sendList) \in CommonCommand /\ Tail(sendList) \in Seq(CommonCommand)
        BY <3>1, HeadTailProperties DEF CommonTurn
      <4>2. Passed(bypassed.triple, sendList_tripleSwitch) \in Nat
        BY DEF Passed
      <4> QED BY <2>6, <3>1, <4>1, <4>2 DEF GetCommandString, TakeCommon, Command
    <3>2. CASE TripleTurn /\ RecordTripleSwitch
      <4>1. /\ Head(sendList_tripleSwitch) \in SwitchCommand
            /\ Tail(sendList_tripleSwitch) \in Seq(SwitchCommand)
        BY <3>2, HeadTailProperties DEF TripleTurn
      <4>2. Passed(bypassed.common, sendList) \in Nat
        BY DEF Passed
      <4> DEFINE front == Head(sendList_tripleSwitch)
                 tries == addressTryCountMap[AddressOf[front]] + 1
      <4>3. tries \in Nat /\ attempts[front] + 1 \in Nat
        BY <4>1
      <4> HIDE DEF tries, front
      <4>4. /\ commandString' \in Command
            /\ sendList_tripleSwitch' \in Seq(SwitchCommand)
            /\ addressTryCountMap' \in [Address -> Nat]
            /\ attempts' \in [SwitchCommand -> Nat]
            /\ bypassed' \in [common : Nat, triple : Nat]
            /\ common' \in BOOLEAN /\ triple' \in BOOLEAN
            /\ sendList' = sendList
        BY <3>2, <4>1, <4>2, <4>3 DEF RecordTripleSwitch, Command, front, tries
      <4> QED BY <2>6, <4>4 DEF GetCommandString
    <3>3. CASE TakeNothing
      BY <2>6, <3>3 DEF GetCommandString, TakeNothing, queues, turn
    <3> QED BY <2>6, <3>1, <3>2, <3>3 DEF GetCommandString
  <2>7. CASE WriteDone
    BY <2>7 DEF WriteDone, queues, turn
  <2>8. CASE SpuriousWakeup
    BY <2>8 DEF SpuriousWakeup, queues, turn
  <2>9. ASSUME NEW a \in Address \cup {NoAddress}, ReportArrives(a)
        PROVE  TypeOK'
    BY <2>9 DEF ReportArrives, queues, turn
  <2>10. CASE PackageHandel
    <3> DEFINE a == Head(recvQueue)
    <3>1. a \in Address \cup {NoAddress} /\ recvQueue' \in Seq(Address \cup {NoAddress})
      BY <2>10, HeadTailProperties DEF PackageHandel
    <3>2. CASE a = NoAddress
      BY <2>10, <3>1, <3>2 DEF PackageHandel, turn
    <3>3. CASE a # NoAddress
      <4> HIDE DEF a
      <4>1. a \in Address
        BY <3>1, <3>3
      <4>2. DeleteTripleSwitchControlData(a)
        BY <2>10, <3>3 DEF PackageHandel, a
      <4>3. /\ sendList_tripleSwitch' \in Seq(SwitchCommand)
            /\ attempts' \in [SwitchCommand -> Nat]
        <5>1. CASE FirstOf(a) = 0
          BY <4>2, <5>1 DEF DeleteTripleSwitchControlData
        <5>2. CASE FirstOf(a) # 0
          <6>1. FirstOf(a) \in 1..Len(sendList_tripleSwitch)
            BY <4>1, <5>2, FirstOfProperties
          <6>2. RemoveAt(sendList_tripleSwitch, FirstOf(a)) \in Seq(SwitchCommand)
            BY <6>1, RemoveAtProperties
          <6> QED BY <4>2, <5>2, <6>2 DEF DeleteTripleSwitchControlData
        <5> QED BY <5>1, <5>2
      <4>4. addressTryCountMap' \in [Address -> Nat]
        BY <4>2 DEF DeleteTripleSwitchControlData
      <4> QED BY <2>10, <3>1, <4>3, <4>4 DEF PackageHandel, turn
    <3> QED BY <3>2, <3>3
  <2> QED BY <2>1, <2>2, <2>3, <2>4, <2>5, <2>6, <2>7, <2>8, <2>9, <2>10
          DEF Next, SendThread
<1> QED BY <1>1, <1>2, PTL DEF Spec

-----------------------------------------------------------------------------
(* The retries of switch commands.                                          *)

retryState == <<sendList_tripleSwitch, addressTryCountMap, attempts>>

\* Three operations touch the list of switch commands, its try counts and its
\* history: a push, a transmission and a report; nothing else does.
LEMMA RetryStep ==
    ASSUME TypeOK, [Next]_vars
    PROVE  \/ UNCHANGED retryState
           \/ \E s \in SwitchCommand : Write2Serial_tripleSwitch(s)
           \/ sendList_tripleSwitch # <<>> /\ RecordTripleSwitch
           \/ /\ recvQueue # <<>> /\ recvQueue' = Tail(recvQueue)
              /\ Head(recvQueue) \in Address
              /\ DeleteTripleSwitchControlData(Head(recvQueue))
<1>1. CASE UNCHANGED vars
  BY <1>1 DEF vars, queues, retryState
<1>2. ASSUME NEW c \in CommonCommand, Write2Seria(c)
      PROVE  UNCHANGED retryState
  BY <1>2 DEF Write2Seria, retryState
<1>3. CASE NotifyOne \/ Wait \/ WriteDone \/ SpuriousWakeup
  BY <1>3 DEF NotifyOne, Wait, WriteDone, SpuriousWakeup, queues, retryState
<1>4. ASSUME GetCommandString
      PROVE  UNCHANGED retryState \/ (sendList_tripleSwitch # <<>> /\ RecordTripleSwitch)
  BY <1>4 DEF GetCommandString, TakeCommon, TakeNothing, TripleTurn, queues, retryState
<1>5. ASSUME NEW a \in Address \cup {NoAddress}, ReportArrives(a)
      PROVE  UNCHANGED retryState
  BY <1>5 DEF ReportArrives, queues, retryState
<1>6. ASSUME PackageHandel
      PROVE  \/ UNCHANGED retryState
             \/ /\ recvQueue # <<>> /\ recvQueue' = Tail(recvQueue)
                /\ Head(recvQueue) \in Address
                /\ DeleteTripleSwitchControlData(Head(recvQueue))
  <2>1. Head(recvQueue) \in Address \cup {NoAddress}
    BY <1>6, HeadTailProperties DEF PackageHandel, TypeOK
  <2> QED BY <1>6, <2>1 DEF PackageHandel, retryState
<1> QED BY <1>1, <1>2, <1>3, <1>4, <1>5, <1>6 DEF Next, SendThread

\* The inductive invariant.  A command is queued once; the only count is that
\* of the front command and equals its transmissions; the others have none.
CountInv ==
    LET q == sendList_tripleSwitch
    IN  /\ \A i, j \in 1..Len(q) : q[i] = q[j] => i = j
        /\ \A a \in Address : addressTryCountMap[a] # 0 =>
              /\ Len(q) > 0
              /\ AddressOf[q[1]] = a
              /\ addressTryCountMap[a] < MaxTries
        /\ Len(q) > 0 => attempts[q[1]] = addressTryCountMap[AddressOf[q[1]]]
        /\ \A i \in 2..Len(q) : attempts[q[i]] = 0
        /\ \A s \in SwitchCommand : attempts[s] <= MaxTries

\* A transmission keeps the invariant: the front command is either tried once
\* more or, on its last try, leaves together with its count.
LEMMA TransmissionKeepsCountInv ==
    ASSUME TypeOK, CountInv, sendList_tripleSwitch # <<>>, RecordTripleSwitch
    PROVE  CountInv'
<1> DEFINE q     == sendList_tripleSwitch
           s     == q[1]
           tries == addressTryCountMap[AddressOf[s]] + 1
<1>1. /\ q \in Seq(SwitchCommand) /\ Len(q) \in Nat /\ Len(q) > 0
      /\ Head(q) = s /\ s \in SwitchCommand
      /\ \A i \in 1..Len(q) : q[i] \in SwitchCommand
  BY ElementOfSeq, LenProperties, EmptySeq DEF TypeOK
<1>2. /\ AddressOf[s] \in Address
      /\ tries \in Nat /\ tries >= 1 /\ tries <= MaxTries
      /\ attempts[s] + 1 = tries
  <2>1. AddressOf[s] \in Address /\ addressTryCountMap[AddressOf[s]] \in Nat
    BY <1>1 DEF TypeOK
  <2>2. attempts[s] = addressTryCountMap[AddressOf[s]]
    BY <1>1 DEF CountInv
  <2>3. addressTryCountMap[AddressOf[s]] < MaxTries
    BY <1>1, <2>1 DEF CountInv
  <2> QED BY <2>1, <2>2, <2>3
<1>3. /\ attempts' = [attempts EXCEPT ![s] = tries]
      /\ addressTryCountMap' =
            [addressTryCountMap EXCEPT ![AddressOf[s]] = IF LastTry(tries) THEN 0 ELSE tries]
      /\ q' = IF LastTry(tries) THEN Tail(q) ELSE q
  BY <1>1, <1>2 DEF RecordTripleSwitch
<1>4. CASE LastTry(tries)
  <2>1. /\ Tail(q) \in Seq(SwitchCommand) /\ Len(Tail(q)) = Len(q) - 1
        /\ \A i \in 1..(Len(q) - 1) : Tail(q)[i] = q[i + 1]
    BY <1>1, HeadTailProperties
  <2>2. \A a \in Address : addressTryCountMap'[a] = 0
    BY <1>1, <1>2, <1>3, <1>4 DEF CountInv, TypeOK
  <2>3. \A t \in SwitchCommand : attempts'[t] = IF t = s THEN tries ELSE attempts[t]
    BY <1>1, <1>3 DEF TypeOK
  <2>4. \A i \in 1..(Len(q) - 1) : Tail(q)[i] \in SwitchCommand /\ attempts'[Tail(q)[i]] = 0
    BY <1>1, <2>1, <2>3 DEF CountInv
  <2>5. q' = Tail(q)
    BY <1>3, <1>4
  <2>6. \A t \in SwitchCommand : attempts'[t] <= MaxTries
    BY <1>2, <2>3 DEF CountInv
  <2> HIDE DEF q, tries
  <2>7. \A i, j \in 1..Len(q') : q'[i] = q'[j] => i = j
    BY <1>1, <2>1, <2>5 DEF CountInv, q
  <2>8. \A i \in 2..Len(q') : attempts'[q'[i]] = 0
    BY <1>1, <2>1, <2>4, <2>5
  <2>9. Len(q') > 0 => attempts'[q'[1]] = addressTryCountMap'[AddressOf[q'[1]]]
    <3>1. SUFFICES ASSUME Len(q') > 0
                   PROVE  attempts'[q'[1]] = addressTryCountMap'[AddressOf[q'[1]]]
      OBVIOUS
    <3>2. q'[1] \in SwitchCommand /\ attempts'[q'[1]] = 0
      <4>1. 1 \in 1..(Len(q) - 1)
        BY <1>1, <2>1, <2>5, <3>1
      <4> QED BY <2>4, <2>5, <4>1
    <3>3. AddressOf[q'[1]] \in Address
      BY <3>2
    <3> QED BY <2>2, <3>2, <3>3
  <2> QED BY <2>2, <2>6, <2>7, <2>8, <2>9 DEF CountInv, q
<1>5. CASE ~LastTry(tries)
  <2>1. tries < MaxTries
    BY <1>2, <1>5 DEF LastTry
  <2>2. q' = q
    BY <1>3, <1>5
  <2>3. \A a \in Address :
           addressTryCountMap'[a] = IF a = AddressOf[s] THEN tries ELSE addressTryCountMap[a]
    BY <1>2, <1>3, <1>5 DEF TypeOK
  <2>4. \A t \in SwitchCommand : attempts'[t] = IF t = s THEN tries ELSE attempts[t]
    BY <1>1, <1>3 DEF TypeOK
  <2> QED BY <1>1, <1>2, <2>1, <2>2, <2>3, <2>4 DEF CountInv
<1> QED BY <1>4, <1>5

\* A report removes the count of its address and its first command together,
\* so neither a new front nor a remaining one finds a wrong count.
LEMMA ReportKeepsCountInv ==
    ASSUME TypeOK, CountInv, NEW a \in Address, DeleteTripleSwitchControlData(a)
    PROVE  CountInv'
<1> DEFINE q == sendList_tripleSwitch
           k == FirstOf(a)
<1>1. /\ q \in Seq(SwitchCommand) /\ Len(q) \in Nat
      /\ \A i \in 1..Len(q) : q[i] \in SwitchCommand /\ AddressOf[q[i]] \in Address
  BY ElementOfSeq, LenProperties DEF TypeOK
<1>2. \A b \in Address : addressTryCountMap'[b] = IF b = a THEN 0 ELSE addressTryCountMap[b]
  BY DEF DeleteTripleSwitchControlData
<1>3. CASE k = 0
  <2>1. q' = q /\ attempts' = attempts
    BY <1>3 DEF DeleteTripleSwitchControlData
  <2>2. \A i \in 1..Len(q) : AddressOf[q[i]] # a
    BY <1>1, <1>3, FirstOfProperties
  <2> HIDE DEF k
  <2> QED BY <1>1, <1>2, <2>1, <2>2 DEF CountInv
<1>4. CASE k # 0
  <2>1. /\ k \in 1..Len(q) /\ AddressOf[q[k]] = a
        /\ \A i \in 1..(k - 1) : AddressOf[q[i]] # a
    BY <1>1, <1>4, FirstOfProperties
  <2>2. /\ q' = RemoveAt(q, k)
        /\ attempts' = [attempts EXCEPT ![q[k]] = 0]
    BY <1>4 DEF DeleteTripleSwitchControlData
  <2> HIDE DEF k
  <2>3. /\ q' \in Seq(SwitchCommand) /\ Len(q') = Len(q) - 1
        /\ \A i \in 1..(Len(q) - 1) : q'[i] = IF i < k THEN q[i] ELSE q[i + 1]
    BY <1>1, <2>1, <2>2, RemoveAtProperties
  <2> HIDE DEF q
  <2>4. \A s \in SwitchCommand : attempts'[s] = IF s = q[k] THEN 0 ELSE attempts[s]
    BY <1>1, <2>1, <2>2 DEF TypeOK
  <2>5. \A i, j \in 1..Len(q') : q'[i] = q'[j] => i = j
    BY <1>1, <2>1, <2>3 DEF CountInv, q
  <2>6. \A s \in SwitchCommand : attempts'[s] <= MaxTries
    BY <2>4 DEF CountInv
  <2>7. \A i \in 2..Len(q') : attempts'[q'[i]] = 0
    <3>1. SUFFICES ASSUME NEW i \in 2..(Len(q) - 1)
                   PROVE  attempts'[q'[i]] = 0
      BY <1>1, <2>3
    <3>2. PICK j \in 2..Len(q) : q'[i] = q[j]
      BY <1>1, <2>1, <2>3
    <3> QED BY <1>1, <2>4, <3>2 DEF CountInv, q
  <2>8. \A b \in Address : addressTryCountMap'[b] # 0 =>
           /\ Len(q') > 0
           /\ AddressOf[q'[1]] = b
           /\ addressTryCountMap'[b] < MaxTries
    <3>1. SUFFICES ASSUME NEW b \in Address, addressTryCountMap'[b] # 0
                   PROVE  /\ Len(q') > 0
                          /\ AddressOf[q'[1]] = b
                          /\ addressTryCountMap'[b] < MaxTries
      OBVIOUS
    <3>2. b # a /\ addressTryCountMap'[b] = addressTryCountMap[b]
      BY <1>2, <3>1
    <3>3. Len(q) > 0 /\ AddressOf[q[1]] = b /\ addressTryCountMap[b] < MaxTries
      BY <3>1, <3>2 DEF CountInv, q
    <3>4. k > 1 /\ Len(q') > 0 /\ q'[1] = q[1]
      <4>1. k # 1
        BY <2>1, <3>2, <3>3
      <4>2. k > 1 /\ 1 \in 1..(Len(q) - 1)
        BY <1>1, <2>1, <4>1
      <4> QED BY <1>1, <2>1, <2>3, <4>2
    <3> QED BY <3>2, <3>3, <3>4
  <2>9. Len(q') > 0 => attempts'[q'[1]] = addressTryCountMap'[AddressOf[q'[1]]]
    <3>1. SUFFICES ASSUME Len(q') > 0
                   PROVE  attempts'[q'[1]] = addressTryCountMap'[AddressOf[q'[1]]]
      OBVIOUS
    <3>2. Len(q) > 1 /\ 1 \in 1..(Len(q) - 1)
      BY <1>1, <2>3, <3>1
    <3>3. CASE k = 1
      <4>1. q'[1] = q[2] /\ 2 \in 1..Len(q) /\ AddressOf[q[2]] \in Address
        BY <1>1, <2>3, <3>2, <3>3
      <4>2. attempts[q[2]] = 0 /\ q[2] # q[1]
        BY <1>1, <3>2 DEF CountInv, q
      <4>3. attempts'[q[2]] = 0
        BY <1>1, <2>4, <4>1, <4>2
      <4>4. \A b \in Address : addressTryCountMap[b] # 0 => b = a
        BY <2>1, <3>3 DEF CountInv, q
      <4>5. addressTryCountMap'[AddressOf[q[2]]] = 0
        BY <1>2, <4>1, <4>4
      <4> QED BY <4>1, <4>3, <4>5
    <3>4. CASE k > 1
      <4>1. q'[1] = q[1] /\ AddressOf[q[1]] # a /\ AddressOf[q[1]] \in Address
        BY <1>1, <2>1, <2>3, <3>2, <3>4
      <4>2. attempts'[q[1]] = attempts[q[1]]
        BY <1>1, <2>1, <2>4, <3>2, <4>1
      <4>3. attempts[q[1]] = addressTryCountMap[AddressOf[q[1]]]
        BY <3>2 DEF CountInv, q
      <4> QED BY <1>2, <4>1, <4>2, <4>3
    <3> QED BY <2>1, <3>3, <3>4
  <2> QED BY <2>5, <2>6, <2>7, <2>8, <2>9 DEF CountInv, q
<1> QED BY <1>3, <1>4

\* A push appends a command that is not yet queued, with no transmissions.
LEMMA PushKeepsCountInv ==
    ASSUME TypeOK, CountInv, NEW s \in SwitchCommand, Write2Serial_tripleSwitch(s)
    PROVE  CountInv'
<1> DEFINE q == sendList_tripleSwitch
<1>1. /\ q \in Seq(SwitchCommand) /\ Len(q) \in Nat
      /\ \A i \in 1..Len(q) : q[i] \in SwitchCommand /\ q[i] # s
      /\ addressTryCountMap' = addressTryCountMap
  BY ElementOfSeq, LenProperties DEF TypeOK, Write2Serial_tripleSwitch, Contains
<1>2. /\ q' = Append(q, s) /\ Len(q') = Len(q) + 1 /\ q'[Len(q) + 1] = s
      /\ \A i \in 1..Len(q) : q'[i] = q[i]
  BY <1>1 DEF Write2Serial_tripleSwitch
<1>3. \A t \in SwitchCommand : attempts'[t] = IF t = s THEN 0 ELSE attempts[t]
  BY DEF Write2Serial_tripleSwitch, TypeOK
<1> HIDE DEF q
<1>4. \A i, j \in 1..Len(q') : q'[i] = q'[j] => i = j
  BY <1>1, <1>2 DEF CountInv, q
<1>5. \A a \in Address : addressTryCountMap'[a] # 0 =>
         /\ Len(q') > 0 /\ AddressOf[q'[1]] = a
         /\ addressTryCountMap'[a] < MaxTries
  BY <1>1, <1>2 DEF CountInv, q
<1>6. Len(q') > 0 => attempts'[q'[1]] = addressTryCountMap'[AddressOf[q'[1]]]
  <2>1. CASE Len(q) = 0
    <3>1. \A a \in Address : addressTryCountMap[a] = 0
      BY <2>1 DEF CountInv, q
    <3>2. q'[1] = s /\ AddressOf[s] \in Address
      BY <1>2, <2>1
    <3> QED BY <1>1, <1>3, <3>1, <3>2
  <2>2. CASE Len(q) > 0
    <3>1. q'[1] = q[1] /\ q[1] \in SwitchCommand /\ q[1] # s
      BY <1>1, <1>2, <2>2
    <3>2. attempts[q[1]] = addressTryCountMap[AddressOf[q[1]]]
      BY <2>2 DEF CountInv, q
    <3> QED BY <1>1, <1>3, <3>1, <3>2
  <2> QED BY <1>1, <2>1, <2>2
<1>7. \A i \in 2..Len(q') : attempts'[q'[i]] = 0
  BY <1>1, <1>2, <1>3 DEF CountInv, q
<1>8. \A t \in SwitchCommand : attempts'[t] <= MaxTries
  BY <1>3 DEF CountInv
<1> QED BY <1>4, <1>5, <1>6, <1>7, <1>8 DEF CountInv, q

\* In every reachable state the number sent with a try is the number of
\* transmissions of the command at the front, and no command has more than
\* MaxTries of them.
LEMMA CountInvInvariant == Spec => []CountInv
<1>1. Init => CountInv
  <2> SUFFICES ASSUME Init
               PROVE  CountInv
    OBVIOUS
  <2>1. Len(sendList_tripleSwitch) = 0
    BY EmptySeq DEF Init
  <2> QED BY <2>1 DEF Init, CountInv
<1>2. TypeOK /\ CountInv /\ [Next]_vars => CountInv'
  <2> SUFFICES ASSUME TypeOK, CountInv, [Next]_vars
               PROVE  CountInv'
    OBVIOUS
  <2>1. CASE UNCHANGED retryState
    BY <2>1 DEF retryState, CountInv
  <2>2. CASE \E s \in SwitchCommand : Write2Serial_tripleSwitch(s)
    BY <2>2, PushKeepsCountInv
  <2>3. CASE sendList_tripleSwitch # <<>> /\ RecordTripleSwitch
    BY <2>3, TransmissionKeepsCountInv
  <2>4. CASE /\ Head(recvQueue) \in Address
             /\ DeleteTripleSwitchControlData(Head(recvQueue))
    BY <2>4, ReportKeepsCountInv
  <2> QED BY <2>1, <2>2, <2>3, <2>4, RetryStep
<1> QED BY <1>1, <1>2, TypeCorrect, PTL DEF Spec

\* The number that goes out with a transmission is always that of the command
\* itself: a count never outlives the command it was made for.
THEOREM CountsAreOfTheFront == Spec => []CountBelongsToFront
<1>1. TypeOK /\ CountInv => CountBelongsToFront
  <2> SUFFICES ASSUME TypeOK, CountInv
               PROVE  CountBelongsToFront
    OBVIOUS
  <2> DEFINE q == sendList_tripleSwitch
  <2>1. /\ q \in Seq(SwitchCommand) /\ Len(q) \in Nat /\ DOMAIN q = 1..Len(q)
        /\ q # <<>> <=> Len(q) > 0
    BY LenProperties, EmptySeq DEF TypeOK
  <2>2. q # <<>> => Head(q) = q[1]
    BY <2>1
  <2> HIDE DEF q
  <2>3. \A i \in 1..Len(q) :
           attempts[q[i]] = IF i = 1 THEN addressTryCountMap[AddressOf[q[1]]] ELSE 0
    <3>1. SUFFICES ASSUME NEW i \in 1..Len(q)
                   PROVE  attempts[q[i]] =
                             IF i = 1 THEN addressTryCountMap[AddressOf[q[1]]] ELSE 0
      OBVIOUS
    <3>2. CASE i = 1
      BY <2>1, <3>2 DEF CountInv, q
    <3>3. CASE i # 1
      BY <2>1, <3>3 DEF CountInv, q
    <3> QED BY <3>2, <3>3
  <2>4. \A a \in Address : addressTryCountMap[a] # 0 =>
           q # <<>> /\ AddressOf[Head(q)] = a /\ addressTryCountMap[a] < MaxTries
    BY <2>1, <2>2 DEF CountInv, q
  <2> QED BY <2>1, <2>3, <2>4 DEF CountBelongsToFront, q
<1> QED BY <1>1, TypeCorrect, CountInvInvariant, PTL

\* However reports, retries and new commands interleave, a switch command is
\* never transmitted more than MaxTries times in one stay in the list.
THEOREM TriesAreBounded == Spec => []AtMostMaxTries
<1>1. CountInv => AtMostMaxTries
  BY DEF CountInv, AtMostMaxTries
<1> QED BY <1>1, CountInvInvariant, PTL

\* A switch command leaves the list only by its last try or by a report of its
\* own address.
THEOREM LeavingHasAReason == Spec => LeavesForAReason
<1> DEFINE q == sendList_tripleSwitch
           Reason(s) == \/ attempts'[s] = MaxTries
                        \/ /\ recvQueue # <<>>
                           /\ recvQueue' = Tail(recvQueue)
                           /\ Head(recvQueue) = AddressOf[s]
<1>1. ASSUME TypeOK, CountInv, [Next]_vars,
             NEW s \in SwitchCommand, Contains(q, s), ~Contains(q', s)
      PROVE  Reason(s)
  <2>1. /\ q \in Seq(SwitchCommand) /\ Len(q) \in Nat
        /\ \A i \in 1..Len(q) : q[i] \in SwitchCommand
    BY <1>1, ElementOfSeq, LenProperties DEF TypeOK
  <2>2. PICK n \in 1..Len(q) : q[n] = s
    BY <1>1 DEF Contains
  <2>3. ~ UNCHANGED retryState
    BY <1>1 DEF retryState
  <2>4. ASSUME NEW c \in SwitchCommand, Write2Serial_tripleSwitch(c)
        PROVE  FALSE
    <3>1. q' = Append(q, c)
      BY <2>4 DEF Write2Serial_tripleSwitch
    <3>2. Len(q') = Len(q) + 1 /\ q'[n] = s
      BY <2>1, <2>2, <3>1
    <3> QED BY <1>1, <2>1, <2>2, <3>2 DEF Contains
  <2>5. ASSUME q # <<>>, RecordTripleSwitch
        PROVE  attempts'[s] = MaxTries
    <3> DEFINE tries == addressTryCountMap[AddressOf[q[1]]] + 1
    <3>1. Head(q) = q[1] /\ Len(q) > 0 /\ q[1] \in SwitchCommand
      BY <2>1, <2>5, EmptySeq
    <3>2. /\ attempts' = [attempts EXCEPT ![q[1]] = @ + 1]
          /\ q' = IF LastTry(tries) THEN Tail(q) ELSE q
      BY <2>5, <3>1 DEF RecordTripleSwitch
    <3>3. LastTry(tries) /\ q' = Tail(q)
      BY <1>1, <3>2
    <3>4. /\ Len(q') = Len(q) - 1
          /\ \A i \in 1..(Len(q) - 1) : q'[i] = q[i + 1]
      BY <2>1, <2>5, <3>3, HeadTailProperties
    <3>5. n = 1
      <4>1. SUFFICES ASSUME n # 1
                     PROVE  FALSE
        OBVIOUS
      <4>2. n - 1 \in 1..Len(q') /\ q'[n - 1] = s
        BY <2>1, <2>2, <3>4, <4>1
      <4> QED BY <1>1, <4>2 DEF Contains
    <3>6. attempts[q[1]] = addressTryCountMap[AddressOf[q[1]]] /\ attempts[q[1]] \in Nat
      BY <1>1, <3>1 DEF CountInv, TypeOK
    <3>7. AddressOf[q[1]] \in Address
      BY <3>1
    <3>8. tries <= MaxTries
      <4>1. addressTryCountMap[AddressOf[q[1]]] \in Nat
        BY <3>6
      <4>2. addressTryCountMap[AddressOf[q[1]]] < MaxTries
        BY <1>1, <3>7 DEF CountInv
      <4> QED BY <4>1, <4>2
    <3>9. tries = MaxTries
      BY <3>3, <3>6, <3>8 DEF LastTry
    <3> QED BY <1>1, <2>2, <3>1, <3>2, <3>5, <3>6, <3>9 DEF TypeOK
  <2>6. ASSUME NEW a \in Address, DeleteTripleSwitchControlData(a)
        PROVE  a = AddressOf[s]
    <3>1. FirstOf(a) # 0 /\ q' = RemoveAt(q, FirstOf(a))
      BY <1>1, <2>6 DEF DeleteTripleSwitchControlData
    <3>2. FirstOf(a) \in 1..Len(q) /\ AddressOf[q[FirstOf(a)]] = a
      BY <2>1, <3>1, FirstOfProperties
    <3> DEFINE k == FirstOf(a)
    <3> HIDE DEF k
    <3>3. k \in 1..Len(q) /\ AddressOf[q[k]] = a /\ q' = RemoveAt(q, k)
      BY <3>1, <3>2 DEF k
    <3>4. /\ Len(q') = Len(q) - 1
          /\ \A i \in 1..(Len(q) - 1) : q'[i] = IF i < k THEN q[i] ELSE q[i + 1]
      BY <2>1, <3>3, RemoveAtProperties
    <3>5. n = k
      <4>1. CASE n < k
        <5>1. n \in 1..Len(q') /\ q'[n] = s
          BY <2>1, <2>2, <3>3, <3>4, <4>1
        <5> QED BY <1>1, <5>1 DEF Contains
      <4>2. CASE n > k
        <5>1. n - 1 \in 1..Len(q') /\ q'[n - 1] = s
          BY <2>1, <2>2, <3>3, <3>4, <4>2
        <5> QED BY <1>1, <5>1 DEF Contains
      <4> QED BY <2>1, <3>3, <4>1, <4>2
    <3> QED BY <2>2, <3>3, <3>5
  <2> QED BY <1>1, <2>3, <2>4, <2>5, <2>6, RetryStep
<1>2. TypeOK /\ CountInv /\ [Next]_vars =>
         \A s \in SwitchCommand : Contains(q, s) /\ ~Contains(q', s) => Reason(s)
  BY <1>1
<1> QED BY <1>2, TypeCorrect, CountInvInvariant, PTL DEF Spec, LeavesForAReason

-----------------------------------------------------------------------------
(* Whose turn it is.                                                        *)

\* common and triple never both hold, a class that has been passed over is the
\* next to be served, and a send thread at the port holds a command.
TurnInv ==
    /\ ~(common /\ triple)
    /\ bypassed.common <= 1 /\ bypassed.triple <= 1
    /\ bypassed.common # 0 => ~common
    /\ bypassed.triple # 0 => common
    /\ pc = "writing" => commandString # NoCommand

LEMMA TurnInvInvariant == Spec => []TurnInv
<1>1. Init => TurnInv
  BY DEF Init, TurnInv
<1>2. TypeOK /\ TurnInv /\ [Next]_vars => TurnInv'
  <2> SUFFICES ASSUME TypeOK, TurnInv, [Next]_vars
               PROVE  TurnInv'
    OBVIOUS
  <2>1. CASE UNCHANGED vars
    BY <2>1 DEF vars, queues, turn, TurnInv
  <2>2. ASSUME NEW c \in CommonCommand, Write2Seria(c)
        PROVE  TurnInv'
    BY <2>2 DEF Write2Seria, turn, TurnInv
  <2>3. ASSUME NEW s \in SwitchCommand, Write2Serial_tripleSwitch(s)
        PROVE  TurnInv'
    BY <2>3 DEF Write2Serial_tripleSwitch, turn, TurnInv
  <2>4. CASE NotifyOne
    BY <2>4 DEF NotifyOne, turn, TurnInv
  <2>5. CASE Wait \/ WriteDone \/ SpuriousWakeup
    BY <2>5 DEF Wait, WriteDone, SpuriousWakeup, turn, TurnInv
  <2>6. CASE GetCommandString
    <3>1. /\ bypassed.common \in Nat /\ bypassed.triple \in Nat
          /\ common \in BOOLEAN /\ triple \in BOOLEAN
          /\ sendList \in Seq(CommonCommand)
          /\ sendList_tripleSwitch \in Seq(SwitchCommand)
      BY DEF TypeOK
    <3>2. CASE CommonTurn /\ TakeCommon
      <4>1. Head(sendList) \in CommonCommand
        BY <3>1, <3>2, HeadTailProperties DEF CommonTurn
      <4>2. commandString' # NoCommand
        BY <3>2, <4>1 DEF TakeCommon, Command
      <4>3. sendList_tripleSwitch # <<>> => ~common
        BY <3>2 DEF CommonTurn
      <4>4. Passed(bypassed.triple, sendList_tripleSwitch) <= 1
        BY <3>1, <4>3 DEF Passed, TurnInv
      <4> QED BY <3>2, <4>2, <4>4 DEF TakeCommon, TurnInv
    <3>3. CASE ~CommonTurn /\ TripleTurn /\ RecordTripleSwitch
      <4>1. Head(sendList_tripleSwitch) \in SwitchCommand
        BY <3>1, <3>3, HeadTailProperties DEF TripleTurn
      <4>2. commandString' # NoCommand
        BY <3>3, <4>1 DEF RecordTripleSwitch, Command
      <4>3. sendList # <<>> => common
        BY <3>3 DEF CommonTurn
      <4>4. Passed(bypassed.common, sendList) <= 1
        BY <3>1, <4>3 DEF Passed, TurnInv
      <4>5. /\ bypassed' = [common |-> Passed(bypassed.common, sendList), triple |-> 0]
            /\ common' = FALSE /\ triple' = TRUE
        BY <3>3 DEF RecordTripleSwitch
      <4> QED BY <4>2, <4>4, <4>5 DEF TurnInv
    <3>4. CommonTurn \/ TripleTurn
      BY <2>6 DEF GetCommandString, NothingQueued, CommonTurn, TripleTurn, TurnInv
    <3> QED BY <2>6, <3>2, <3>3, <3>4 DEF GetCommandString
  <2>7. ASSUME NEW a \in Address \cup {NoAddress}, ReportArrives(a)
        PROVE  TurnInv'
    BY <2>7 DEF ReportArrives, turn, TurnInv
  <2>8. CASE PackageHandel
    BY <2>8 DEF PackageHandel, turn, TurnInv
  <2> QED BY <2>1, <2>2, <2>3, <2>4, <2>5, <2>6, <2>7, <2>8 DEF Next, SendThread
<1> QED BY <1>1, <1>2, TypeCorrect, PTL DEF Spec

\* getCommandString always finds a command: nothing empty goes to the port.
THEOREM AlwaysFindsACommand == Spec => []NeverWritesNothing
<1>1. TurnInv => NeverWritesNothing
  BY DEF TurnInv, NeverWritesNothing
<1> QED BY <1>1, TurnInvInvariant, PTL

\* Neither list is passed over twice in a row while it has a command.
THEOREM BypassIsBounded == Spec => []BoundedBypass
<1>1. TurnInv => BoundedBypass
  BY DEF TurnInv, BoundedBypass
<1> QED BY <1>1, TurnInvInvariant, PTL

-----------------------------------------------------------------------------
\* A sleeping send thread with work to do is owed a notification.
THEOREM WakeupIsNeverLost == Spec => []NoLostWakeup
<1>1. Init => NoLostWakeup
  BY DEF Init, NoLostWakeup
<1>2. TypeOK /\ NoLostWakeup /\ [Next]_vars => NoLostWakeup'
  <2> SUFFICES ASSUME TypeOK, NoLostWakeup, [Next]_vars
               PROVE  NoLostWakeup'
    OBVIOUS
  <2> USE DEF NoLostWakeup, NothingQueued
  <2>1. toNotify \in Nat
    BY DEF TypeOK
  <2>2. CASE UNCHANGED vars
    BY <2>2 DEF vars, queues
  <2>3. ASSUME NEW c \in CommonCommand, Write2Seria(c)
        PROVE  NoLostWakeup'
    BY <2>1, <2>3 DEF Write2Seria
  <2>4. ASSUME NEW s \in SwitchCommand, Write2Serial_tripleSwitch(s)
        PROVE  NoLostWakeup'
    BY <2>1, <2>4 DEF Write2Serial_tripleSwitch
  <2>5. CASE NotifyOne \/ WriteDone \/ SpuriousWakeup \/ GetCommandString
    BY <2>5 DEF NotifyOne, WriteDone, SpuriousWakeup, GetCommandString
  <2>6. CASE Wait
    BY <2>6 DEF Wait, queues
  <2>7. ASSUME NEW a \in Address \cup {NoAddress}, ReportArrives(a)
        PROVE  NoLostWakeup'
    BY <2>7 DEF ReportArrives, queues
  <2>8. CASE PackageHandel
    <3>1. sendList_tripleSwitch # <<>> \/ sendList_tripleSwitch' = <<>>
      <4>1. SUFFICES ASSUME sendList_tripleSwitch = <<>>
                     PROVE  sendList_tripleSwitch' = <<>>
        OBVIOUS
      <4>2. CASE Head(recvQueue) = NoAddress
        BY <2>8, <4>1, <4>2 DEF PackageHandel
      <4>3. CASE Head(recvQueue) # NoAddress
        <5>1. Head(recvQueue) \in Address
          BY <2>8, <4>3, HeadTailProperties DEF PackageHandel, TypeOK
        <5>2. FirstOf(Head(recvQueue)) = 0
          BY <4>1, <5>1, FirstOfProperties DEF TypeOK
        <5> QED BY <2>8, <4>1, <4>3, <5>2 DEF PackageHandel, DeleteTripleSwitchControlData
      <4> QED BY <4>2, <4>3
    <3> QED BY <2>8, <3>1 DEF PackageHandel
  <2> QED BY <2>2, <2>3, <2>4, <2>5, <2>6, <2>7, <2>8 DEF Next, SendThread
<1> QED BY <1>1, <1>2, TypeCorrect, PTL DEF Spec
=============================================================================
