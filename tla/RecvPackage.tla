---------------------------- MODULE RecvPackage ----------------------------
(***************************************************************************)
(* The receiving side of the BLE site: TelinkDongle's receive thread cuts  *)
(* the bytes of the serial line into frames, unescapes them and queues     *)
(* them; its package thread joins the sub-packages of a message            *)
(* (RecvPackageParse) and hands the complete package to parse2Event.       *)
(*                                                                         *)
(* The gateway is external: Line is what it sends, Ends[m] the position in *)
(* it of message m's last byte, and Said[e] what has been said of a        *)
(* message by the frame whose last byte is at position e, so that          *)
(* Said[Ends[m]] is the complete package of message m.  A byte is lost     *)
(* when nobody drains the port in time, which the code itself can cause:   *)
(* the package thread handles a package with recvMutex held, and the       *)
(* receive thread waits for it.  It may wait for ever: the handler of an   *)
(* unbind report, or of a status report, takes the locks of SnAddressMap   *)
(* and bleConfig, and BleConfig shows how threads deadlock on these two.   *)
(***************************************************************************)
EXTENDS Naturals, FiniteSets, SequencesExt

Byte == 0..255

CONSTANTS
    Line,           \* the bytes sent
    Ends,           \* where each message ends in Line
    Said,           \* the package so far, by the last position of each frame
    HeaderLength,   \* bytes before the package index; 4 in the code
    MaxReadOneShot, \* 1024 in the code
    MaxLosses       \* bound: bytes lost

ASSUME LineAssumption ==
    /\ Line \in Seq(Byte)
    /\ Ends \in Seq(1..Len(Line))
    /\ \A m, n \in DOMAIN Ends : m < n => Ends[m] < Ends[n]
ASSUME SizesAssumption ==
    HeaderLength \in Nat /\ MaxReadOneShot \in Nat \ {0} /\ MaxLosses \in Nat

PackageStartIndex == 1
Escape            == 2
PackageEndIndex   == 3

VARIABLES
    next,           \* position in Line of the next byte to arrive
    buffer,         \* bytes read and not yet joined
    rpc,            \* receive thread: "join", "escape" or "notify"
    parseState,     \* "HEAD" or "DATA"
    packageFrame,   \* the frame being joined
    recvQueue,      \* unescaped sub-packages
    hpc,            \* package thread: "check", "waiting", or "blocked" for ever
    packageString,  \* sub-packages of a message joined so far
    events,         \* history: the packages given to parse2Event
    lost            \* history: positions in Line of the bytes lost

receiver == <<buffer, rpc, parseState, packageFrame>>
handler  == <<hpc, packageString, events>>
vars     == <<next, lost, receiver, recvQueue, handler>>

Init ==
    /\ next = 1 /\ lost = {}
    /\ buffer = <<>> /\ rpc = "join"
    /\ parseState = "HEAD" /\ packageFrame = <<>>
    /\ recvQueue = <<>>
    /\ hpc = "check" /\ packageString = <<>> /\ events = <<>>


-----------------------------------------------------------------------------
(* Faulty variants of operations defined below.                             *)

\* The end byte is recognised but not stored.
JoinDropsEnd(b) ==
    IF parseState = "HEAD"
    THEN /\ packageFrame' = IF b = PackageStartIndex THEN <<b>> ELSE packageFrame
         /\ parseState' = IF b = PackageStartIndex THEN "DATA" ELSE "HEAD"
         /\ UNCHANGED rpc
    ELSE /\ packageFrame' = IF b = PackageEndIndex THEN packageFrame ELSE Append(packageFrame, b)
         /\ rpc' = IF b = PackageEndIndex THEN "escape" ELSE rpc
         /\ UNCHANGED parseState

\* A start package is appended to what an unfinished message left behind.
StartsWithoutClear(p) ==
    packageString' = packageString \o p /\ UNCHANGED events

\* The escape is undone by a subtraction, which suits only what was escaped.
SubtractsSixteen(b) == b - 16

\* The package thread is not notified.
NotifiesNobody == UNCHANGED hpc

-----------------------------------------------------------------------------
(* The line.                                                                *)

\* The complete package of each message.
Sent == [m \in DOMAIN Ends |-> Said[Ends[m]]]

\* The message the byte at position i belongs to.
MessageOf(i) == CHOOSE m \in DOMAIN Ends :
                   i <= Ends[m] /\ \A k \in 1..(m - 1) : Ends[k] < i

LoseByte ==
    /\ next <= Len(Line)
    /\ Cardinality(lost) < MaxLosses
    /\ lost' = lost \cup {next}
    /\ next' = next + 1
    /\ UNCHANGED <<receiver, recvQueue, handler>>

-----------------------------------------------------------------------------
(* The receive thread.                                                      *)

\* One read returns whatever has arrived: frames are cut anywhere.
HandleReceiveData(n) ==
    /\ rpc = "join" /\ buffer = <<>>
    /\ next + n <= Len(Line) + 1
    /\ buffer' = [i \in 1..n |-> Line[next + i - 1]]
    /\ next' = next + n
    /\ UNCHANGED <<lost, rpc, parseState, packageFrame, recvQueue, handler>>

Join(b) ==
    IF parseState = "HEAD"
    THEN /\ packageFrame' = IF b = PackageStartIndex THEN Append(packageFrame, b)
                                                     ELSE packageFrame
         /\ parseState' = IF b = PackageStartIndex THEN "DATA" ELSE "HEAD"
         /\ UNCHANGED rpc
    ELSE /\ packageFrame' = Append(packageFrame, b)
         /\ rpc' = IF b = PackageEndIndex THEN "escape" ELSE rpc
         /\ UNCHANGED parseState

JoinPackage ==
    /\ rpc = "join" /\ buffer # <<>>
    /\ Join(Head(buffer))
    /\ buffer' = Tail(buffer)
    /\ UNCHANGED <<next, lost, recvQueue, handler>>

Unescaped(b) == b % 16

\* Start and end bytes are dropped, the byte after an escape is unescaped.
PackageEscape(frame) ==
    LET from[i \in 1..(Len(frame) + 2)] ==
          IF i > Len(frame) THEN <<>>
          ELSE IF frame[i] \in {PackageStartIndex, PackageEndIndex} THEN from[i + 1]
          ELSE IF frame[i] = Escape THEN <<Unescaped(frame[i + 1])>> \o from[i + 2]
          ELSE <<frame[i]>> \o from[i + 1]
    IN from[1]

PushPackage ==
    /\ rpc = "escape" /\ hpc # "blocked"
    /\ recvQueue' = Append(recvQueue, PackageEscape(packageFrame))
    /\ packageFrame' = <<>>
    /\ parseState' = "HEAD"
    /\ rpc' = "notify"
    /\ UNCHANGED <<next, lost, buffer, handler>>

Wake == hpc' = IF hpc = "waiting" THEN "check" ELSE hpc

NotifyOne ==
    /\ rpc = "notify"
    /\ rpc' = "join"
    /\ Wake
    /\ UNCHANGED <<next, lost, buffer, parseState, packageFrame, recvQueue,
                   packageString, events>>

-----------------------------------------------------------------------------
(* The package thread, with recvMutex held from the look at the queue to    *)
(* the end of the handling.                                                 *)

\* The index byte and what follows it; a package too short has neither.
PackageIndex(p) == IF Len(p) > HeaderLength THEN {p[HeaderLength + 1]} ELSE {}
RemainingString(p) == SubSeq(p, HeaderLength + 2, Len(p))

WholePackage(p) ==
    events' = Append(events, p) /\ UNCHANGED packageString

StartPackage(p) ==
    packageString' = p /\ UNCHANGED events

MiddlePackage(p) ==
    packageString' = packageString \o RemainingString(p) /\ UNCHANGED events

EndPackage(p) ==
    /\ events' = Append(events, packageString \o RemainingString(p))
    /\ packageString' = <<>>

HandlePackageString(p) ==
    \/ PackageIndex(p) = {0} /\ WholePackage(p)
    \/ PackageIndex(p) = {1} /\ StartPackage(p)
    \/ PackageIndex(p) = {2} /\ MiddlePackage(p)
    \/ PackageIndex(p) = {3} /\ EndPackage(p)
    \/ PackageIndex(p) \cap 0..3 = {} /\ UNCHANGED <<packageString, events>>

WaitForPackage ==
    /\ hpc = "check" /\ recvQueue = <<>>
    /\ hpc' = "waiting"
    /\ UNCHANGED <<next, lost, receiver, recvQueue, packageString, events>>

PackageHandel ==
    /\ hpc = "check" /\ recvQueue # <<>>
    /\ HandlePackageString(Head(recvQueue))
    /\ recvQueue' = Tail(recvQueue)
    /\ UNCHANGED <<next, lost, receiver, hpc>>

\* The event a complete package is parsed to never returns from its handler.
\* recvMutex stays locked, and nobody looks at packageString any more.
HandlerBlocks ==
    /\ hpc = "check" /\ recvQueue # <<>>
    /\ PackageIndex(Head(recvQueue)) \in {{0}, {3}}
    /\ HandlePackageString(Head(recvQueue))
    /\ recvQueue' = Tail(recvQueue)
    /\ hpc' = "blocked"
    /\ UNCHANGED <<next, lost, receiver>>

-----------------------------------------------------------------------------
(* What the gateway sends: a frame goes from one end byte to the next and   *)
(* begins with a start byte; a message is one package (index 0) or a start, *)
(* some middle and an end package (1, 2 and 3), each in a frame.            *)

\* A frame begins at position a.
Begins(a) == a = 1 \/ Line[a - 1] = PackageEndIndex

\* The frames of the line, by their first and last positions.
IsFrame(a, e) ==
    /\ Begins(a) /\ Line[e] = PackageEndIndex
    /\ \A i \in a..(e - 1) : Line[i] # PackageEndIndex

\* The position of message m's first byte.
FirstOf(m) == IF m = 1 THEN 1 ELSE Ends[m - 1] + 1

\* The package p of the frame a..e of message m continues what has been said.
Spells(m, a, e, p) ==
    IF a = FirstOf(m)
    THEN PackageIndex(p) = (IF e = Ends[m] THEN {0} ELSE {1}) /\ Said[e] = p
    ELSE PackageIndex(p) = (IF e = Ends[m] THEN {3} ELSE {2})
         /\ Said[e] = Said[a - 1] \o RemainingString(p)

ASSUME GatewayAssumption ==
    /\ \A a \in 1..Len(Line) : Begins(a) => Line[a] = PackageStartIndex
    /\ \A m \in DOMAIN Ends :
          /\ Line[Ends[m]] = PackageEndIndex
          /\ \A a, e \in FirstOf(m)..Ends[m] :
                a <= e /\ IsFrame(a, e) => Spells(m, a, e, PackageEscape(SubSeq(Line, a, e)))

-----------------------------------------------------------------------------
ReceiveThread ==
    \/ \E n \in 1..MaxReadOneShot : HandleReceiveData(n)
    \/ JoinPackage
    \/ PushPackage
    \/ NotifyOne

PackageHandleThread == WaitForPackage \/ PackageHandel

Next == LoseByte \/ ReceiveThread \/ PackageHandleThread \/ HandlerBlocks

Spec == Init /\ [][Next]_vars

\* Both threads run: a read with bytes to read does not block, and a handler
\* returns unless it is caught in the deadlock.  Nothing is assumed of the line.
FairSpec == Spec /\ WF_vars(ReceiveThread) /\ WF_vars(PackageHandleThread)

-----------------------------------------------------------------------------
TypeOK ==
    /\ next \in 1..(Len(Line) + 1)
    /\ lost \subseteq 1..Len(Line)
    /\ buffer \in Seq(Byte)
    /\ rpc \in {"join", "escape", "notify"}
    /\ parseState \in {"HEAD", "DATA"}
    /\ packageFrame \in Seq(Byte)
    /\ recvQueue \in Seq(Seq(Byte))
    /\ hpc \in {"check", "waiting", "blocked"}
    /\ packageString \in Seq(Byte)
    /\ events \in Seq(Seq(Byte))

\* packageEscape reads the byte after an escape byte without looking at the
\* size of the frame.  Whatever bytes are lost, there is one: a frame that is
\* unescaped ends with its end byte.
EscapeStaysInFrame ==
    rpc = "escape" =>
       \A i \in DOMAIN packageFrame :
          packageFrame[i] = Escape => i + 1 \in DOMAIN packageFrame

\* The package thread never sleeps on a package nobody will wake it for.
NoLostWakeup == hpc = "waiting" /\ recvQueue # <<>> => rpc = "notify"

Damaged == {MessageOf(i) : i \in lost}
Cut     == {m \in DOMAIN Ends : Ends[m] \in lost}

\* The number of the message a complete package is, 0 for one never sent.
Identified(package) ==
    IF \E m \in DOMAIN Sent : Sent[m] = package
    THEN CHOOSE m \in DOMAIN Sent : Sent[m] = package
    ELSE 0

Stream == INSTANCE PackageStream WITH
    Messages <- Len(Ends), damaged <- Damaged, cut <- Cut,
    got <- [i \in DOMAIN events |-> Identified(events[i])]

\* However the line loses bytes and wherever the reads cut it, joining goes
\* wrong only because of a damaged message and is right again with the next
\* message that is whole and has a whole end before it: such a message is
\* handled as it was sent, once and in order.
ImplementsStream == Stream!Spec

\* The messages that came whole and after a whole end.
Arrived == {m \in DOMAIN Ends : Ends[m] < next /\ Stream!Sheltered(m)}

\* Whatever became of the others: once joinPackage and handlePackageString have
\* dealt with all that was read, these messages have been handed to parse2Event
\* as they were sent and in their order.
ShelteredAreHandledInOrder ==
    rpc = "join" /\ buffer = <<>> /\ recvQueue = <<>> =>
       \E at \in [Arrived -> DOMAIN events] :
          /\ \A m \in Arrived : events[at[m]] = Sent[m]
          /\ \A m, n \in Arrived : m < n => at[m] < at[n]

\* Every such message is handled in the end, unless the package thread has met
\* the deadlock in a handler: nothing is handled after that.
EveryShelteredIsHandled ==
    \A m \in DOMAIN Sent :
       <>((Stream!Sheltered(m) => m \in Stream!Handled) \/ hpc = "blocked")
=============================================================================
