------------------------- MODULE RecvPackageProofs -------------------------
(***************************************************************************)
(* For every line, every loss and every way the reads cut the line: a      *)
(* frame that is unescaped begins with the start byte and has its only end *)
(* byte last, so that no escape byte is its last byte, what is handed over *)
(* is always bytes, and the package thread never misses a wake-up; and a   *)
(* message of which nothing is lost is joined, queued and handled as sent. *)
(***************************************************************************)
EXTENDS RecvPackage, SequenceTheorems, WellFoundedInduction, TLAPS

ReceiverTypeOK ==
    /\ next \in 1..(Len(Line) + 1)
    /\ buffer \in Seq(Byte)
    /\ rpc \in {"join", "escape", "notify"}
    /\ parseState \in {"HEAD", "DATA"}
    /\ packageFrame \in Seq(Byte)

\* A frame is being joined exactly in state DATA, and handed over once its end
\* byte is there.
FrameShape ==
    /\ parseState = "HEAD" => packageFrame = <<>> /\ rpc # "escape"
    /\ parseState = "DATA" =>
          /\ packageFrame # <<>>
          /\ packageFrame[1] = PackageStartIndex
          /\ rpc # "notify"
    /\ \A i \in DOMAIN packageFrame :
          packageFrame[i] = PackageEndIndex <=>
             rpc = "escape" /\ i = Len(packageFrame)

IInv == ReceiverTypeOK /\ FrameShape /\ NoLostWakeup

LEMMA LineIsBytes == Line \in Seq(Byte) /\ Len(Line) \in Nat
<1>1. Line \in Seq(Byte)
  BY LineAssumption
<1> QED BY <1>1, LenProperties

\* What Append does to a frame.
LEMMA AppendByte ==
    ASSUME NEW f \in Seq(Byte), NEW b \in Byte
    PROVE  /\ Append(f, b) \in Seq(Byte)
           /\ Append(f, b) # <<>>
           /\ Len(Append(f, b)) = Len(f) + 1
           /\ DOMAIN Append(f, b) = 1..(Len(f) + 1)
           /\ Append(f, b)[Len(f) + 1] = b
           /\ \A i \in 1..Len(f) : Append(f, b)[i] = f[i]
           /\ Len(f) \in Nat /\ DOMAIN f = 1..Len(f)
           /\ f # <<>> => 1 \in 1..Len(f)
<1>1. Len(f) \in Nat /\ DOMAIN f = 1..Len(f)
  BY LenProperties
<1>2. /\ Append(f, b) \in Seq(Byte)
      /\ Append(f, b) # <<>>
      /\ Len(Append(f, b)) = Len(f) + 1
      /\ \A i \in 1..Len(f) : Append(f, b)[i] = f[i]
      /\ Append(f, b)[Len(f) + 1] = b
  BY AppendProperties
<1>3. DOMAIN Append(f, b) = 1..(Len(f) + 1)
  <2>1. DOMAIN Append(f, b) = 1..Len(Append(f, b))
    BY <1>2, LenProperties
  <2> QED BY <2>1, <1>2
<1>4. f # <<>> => 1 \in 1..Len(f)
  <2>1. f # <<>> => Len(f) \in Nat \ {0}
    BY EmptySeq
  <2> QED BY <2>1
<1> QED BY <1>1, <1>2, <1>3, <1>4

LEMMA InitIInv == Init => IInv
<1> SUFFICES ASSUME Init PROVE IInv
  OBVIOUS
<1>1. <<>> \in Seq(Byte) /\ DOMAIN <<>> = {}
  OBVIOUS
<1> QED
  BY <1>1, LineIsBytes DEF Init, IInv, ReceiverTypeOK, FrameShape, NoLostWakeup

-----------------------------------------------------------------------------
LEMMA JoinKeeps ==
    ASSUME IInv, JoinPackage PROVE ReceiverTypeOK' /\ FrameShape'
<1> DEFINE b == Head(buffer)
<1>1. b \in Byte /\ Tail(buffer) \in Seq(Byte)
  BY DEF IInv, ReceiverTypeOK, JoinPackage
<1>2. /\ rpc = "join" /\ Join(b)
      /\ buffer' = Tail(buffer) /\ next' = next
  BY DEF JoinPackage
<1> HIDE DEF b
<1> USE DEF PackageStartIndex, PackageEndIndex
<1>3. CASE parseState = "HEAD" /\ b # PackageStartIndex
  <2>1. /\ packageFrame' = packageFrame /\ parseState' = parseState
        /\ rpc' = rpc
    BY <1>2, <1>3 DEF Join
  <2> QED BY <1>1, <1>2, <2>1 DEF IInv, ReceiverTypeOK, FrameShape
<1>4. CASE parseState = "HEAD" /\ b = PackageStartIndex
  <2>1. /\ packageFrame' = Append(packageFrame, b) /\ parseState' = "DATA"
        /\ rpc' = rpc /\ packageFrame = <<>>
    BY <1>2, <1>4 DEF Join, IInv, FrameShape
  <2>2. packageFrame' = <<1>>
    BY <2>1, <1>4
  <2>3. /\ packageFrame' \in Seq(Byte) /\ packageFrame' # <<>>
        /\ DOMAIN packageFrame' = {1} /\ packageFrame'[1] = 1
    BY <2>2 DEF Byte
  <2> QED BY <1>1, <1>2, <2>1, <2>3 DEF IInv, ReceiverTypeOK, FrameShape
<1>5. CASE parseState = "DATA"
  <2>1. /\ packageFrame' = Append(packageFrame, b) /\ parseState' = parseState
        /\ rpc' = IF b = PackageEndIndex THEN "escape" ELSE rpc
    BY <1>2, <1>5 DEF Join
  <2>2. packageFrame \in Seq(Byte)
    BY DEF IInv, ReceiverTypeOK
  <2>3. /\ packageFrame # <<>> /\ packageFrame[1] = 1
        /\ \A i \in DOMAIN packageFrame : packageFrame[i] # 3
    BY <1>2, <1>5 DEF IInv, FrameShape
  <2>4. /\ packageFrame' \in Seq(Byte)
        /\ packageFrame' # <<>>
        /\ Len(packageFrame') = Len(packageFrame) + 1
        /\ DOMAIN packageFrame' = 1..(Len(packageFrame) + 1)
        /\ packageFrame'[Len(packageFrame) + 1] = b
        /\ \A i \in 1..Len(packageFrame) : packageFrame'[i] = packageFrame[i]
        /\ Len(packageFrame) \in Nat /\ DOMAIN packageFrame = 1..Len(packageFrame)
        /\ 1 \in 1..Len(packageFrame)
    BY <1>1, <2>1, <2>2, <2>3, AppendByte
  <2>5. packageFrame'[1] = 1
    BY <2>3, <2>4
  <2>6. \A i \in DOMAIN packageFrame' :
           packageFrame'[i] = 3 <=> rpc' = "escape" /\ i = Len(packageFrame')
    BY <1>2, <2>1, <2>3, <2>4
  <2> QED
    BY <1>1, <1>2, <1>5, <2>1, <2>4, <2>5, <2>6 DEF IInv, ReceiverTypeOK, FrameShape
<1> QED BY <1>3, <1>4, <1>5 DEF IInv, ReceiverTypeOK

LEMMA ReadKeeps ==
    ASSUME IInv, NEW n \in 1..MaxReadOneShot, HandleReceiveData(n)
    PROVE  ReceiverTypeOK' /\ FrameShape'
<1>1. n \in Nat /\ next \in Nat \ {0}
  BY SizesAssumption, LineIsBytes DEF IInv, ReceiverTypeOK
<1>2. \A i \in 1..n : next + i - 1 \in 1..Len(Line)
  BY <1>1, LineIsBytes DEF HandleReceiveData
<1>3. \A i \in 1..n : Line[next + i - 1] \in Byte
  BY <1>2, LineIsBytes, ElementOfSeq
<1>4. buffer' \in Seq(Byte)
  BY <1>1, <1>3 DEF HandleReceiveData
<1>5. next' \in 1..(Len(Line) + 1)
  BY <1>1, LineIsBytes DEF HandleReceiveData
<1> QED
  BY <1>4, <1>5 DEF HandleReceiveData, IInv, ReceiverTypeOK, FrameShape

-----------------------------------------------------------------------------
LEMMA NextIInv == IInv /\ [Next]_vars => IInv'
<1> SUFFICES ASSUME IInv, [Next]_vars PROVE IInv'
  OBVIOUS
<1>1. CASE LoseByte
  <2>1. next' \in 1..(Len(Line) + 1)
    BY <1>1, LineIsBytes DEF LoseByte, IInv, ReceiverTypeOK
  <2> QED
    BY <1>1, <2>1 DEF LoseByte, receiver, handler, IInv, ReceiverTypeOK,
                      FrameShape, NoLostWakeup
<1>2. ASSUME NEW n \in 1..MaxReadOneShot, HandleReceiveData(n) PROVE IInv'
  <2>1. NoLostWakeup'
    BY <1>2 DEF HandleReceiveData, handler, IInv, NoLostWakeup
  <2> QED BY <1>2, <2>1, ReadKeeps DEF IInv
<1>3. CASE JoinPackage
  <2>1. rpc = "join" /\ hpc' = hpc /\ recvQueue' = recvQueue
    BY <1>3 DEF JoinPackage, handler
  <2>2. NoLostWakeup'
    BY <2>1 DEF IInv, NoLostWakeup
  <2> QED BY <1>3, <2>2, JoinKeeps DEF IInv
<1>4. CASE PushPackage
  <2>1. /\ packageFrame' = <<>> /\ parseState' = "HEAD" /\ rpc' = "notify"
        /\ next' = next /\ buffer' = buffer
    BY <1>4 DEF PushPackage
  <2> QED BY <2>1 DEF IInv, ReceiverTypeOK, FrameShape, NoLostWakeup
<1>5. CASE NotifyOne
  <2>1. /\ rpc = "notify" /\ rpc' = "join" /\ hpc' # "waiting"
        /\ next' = next /\ buffer' = buffer /\ parseState' = parseState
        /\ packageFrame' = packageFrame /\ recvQueue' = recvQueue
    BY <1>5 DEF NotifyOne, Wake
  <2>2. parseState = "HEAD" /\ packageFrame = <<>>
    BY <2>1 DEF IInv, ReceiverTypeOK, FrameShape
  <2> QED BY <2>1, <2>2 DEF IInv, ReceiverTypeOK, FrameShape, NoLostWakeup
<1>6. CASE WaitForPackage
  BY <1>6 DEF WaitForPackage, receiver, IInv, ReceiverTypeOK, FrameShape, NoLostWakeup
<1>7. CASE PackageHandel \/ HandlerBlocks
  <2>1. hpc' # "waiting" /\ UNCHANGED <<next, receiver>>
    BY <1>7 DEF PackageHandel, HandlerBlocks
  <2> QED BY <2>1 DEF receiver, IInv, ReceiverTypeOK, FrameShape, NoLostWakeup
<1>8. CASE UNCHANGED vars
  BY <1>8 DEF vars, receiver, handler, IInv, ReceiverTypeOK, FrameShape, NoLostWakeup
<1> QED
  BY <1>1, <1>2, <1>3, <1>4, <1>5, <1>6, <1>7, <1>8
  DEF Next, ReceiveThread, PackageHandleThread

THEOREM InductiveInvariant == Spec => []IInv
<1> QED BY InitIInv, NextIInv, PTL DEF Spec

\* A frame is unescaped only when its end byte is there, and no other byte of
\* it is an end byte: no escape byte is its last.
LEMMA ShapeIsWhole == IInv => EscapeStaysInFrame
<1> SUFFICES ASSUME IInv, rpc = "escape", NEW i \in DOMAIN packageFrame,
                    packageFrame[i] = Escape
             PROVE  i + 1 \in DOMAIN packageFrame
  BY DEF EscapeStaysInFrame
<1>1. DOMAIN packageFrame = 1..Len(packageFrame) /\ Len(packageFrame) \in Nat
  BY DEF IInv, ReceiverTypeOK
<1>2. i # Len(packageFrame)
  BY DEF IInv, FrameShape, Escape, PackageEndIndex
<1> QED BY <1>1, <1>2

\* packageEscape never reads past the end of a frame: the byte after every
\* escape byte is in the frame.
THEOREM EscapeIsInFrame == Spec => []EscapeStaysInFrame
BY ShapeIsWhole, InductiveInvariant, PTL

\* The receive thread notifies outside the lock and still no wake-up of the
\* package thread is lost.
THEOREM PackageThreadIsWoken == Spec => []NoLostWakeup
<1>1. IInv => NoLostWakeup
  BY DEF IInv
<1> QED BY <1>1, InductiveInvariant, PTL

-----------------------------------------------------------------------------
(* What packageEscape makes of a frame is a package of bytes.  The function  *)
(* it is defined by is recursive from the end of the frame: that there is    *)
(* one, and what its values are, follow by induction on the distance to the  *)
(* end, which is an induction on a set of numbers.                           *)

LEMMA LeastElement ==
    ASSUME NEW T \in SUBSET Nat, T # {}
    PROVE  \E m \in T : \A k \in T : m <= k
<1>1. IsWellFoundedOn(OpToRel(<, Nat), Nat)
  BY NatLessThanWellFounded, Zenon
<1>2. PICK m \in T : \A k \in T : ~(<<k, m>> \in OpToRel(<, Nat))
  BY <1>1, WFMin, Zenon
<1>3. \A k \in T : ~(k < m)
  BY <1>2, Zenon DEF OpToRel
<1> QED BY <1>3

LEMMA SetInduction ==
    ASSUME NEW S, 0 \in S, \A n \in Nat : n \in S => n + 1 \in S
    PROVE  Nat \subseteq S
<1> SUFFICES ASSUME Nat \ S # {}
             PROVE  FALSE
  OBVIOUS
<1>1. PICK m \in Nat \ S : \A k \in Nat \ S : m <= k
  BY LeastElement
<1>2. m # 0 /\ m - 1 \in Nat /\ m - 1 \notin Nat \ S
  BY <1>1
<1> QED BY <1>1, <1>2

\* The bytes from position i of the frame on, given those from later positions
\* on.
FromHere(f, frame, i) ==
    IF i > Len(frame) THEN <<>>
    ELSE IF frame[i] \in {PackageStartIndex, PackageEndIndex} THEN f[i + 1]
    ELSE IF frame[i] = Escape THEN <<Unescaped(frame[i + 1])>> \o f[i + 2]
    ELSE <<frame[i]>> \o f[i + 1]

\* f is packageEscape's function on the positions a..b.
EscapesOn(f, frame, a, b) == f = [i \in a..b |-> FromHere(f, frame, i)]

LEMMA EscapePoint ==
    ASSUME NEW f, NEW frame, NEW a, NEW b, EscapesOn(f, frame, a, b), NEW i \in a..b
    PROVE  f[i] = FromHere(f, frame, i)
BY DEF EscapesOn

LEMMA EscapeExists ==
    ASSUME NEW frame, Len(frame) \in Nat
    PROVE  \E f : EscapesOn(f, frame, 1, Len(frame) + 2)
<1> DEFINE b == Len(frame) + 2
           S == {k \in Nat : \E f : EscapesOn(f, frame, b - k, b)}
<1>1. 0 \in S
  <2> DEFINE g == [i \in (b - 0)..b |-> <<>>]
  <2>1. g = [i \in (b - 0)..b |-> FromHere(g, frame, i)]
    <3>1. \A i \in (b - 0)..b : i > Len(frame)
      OBVIOUS
    <3> HIDE DEF b
    <3>2. \A i \in (b - 0)..b : FromHere(g, frame, i) = <<>>
      BY <3>1 DEF FromHere
    <3> QED BY <3>2
  <2> HIDE DEF g
  <2>2. EscapesOn(g, frame, b - 0, b)
    BY <2>1 DEF EscapesOn
  <2> QED BY <2>2
<1>2. ASSUME NEW k \in Nat, k \in S
      PROVE  k + 1 \in S
  <2>1. PICK f : EscapesOn(f, frame, b - k, b)
    BY <1>2
  <2> DEFINE a == b - (k + 1)
             g == [i \in a..b |-> IF i = a THEN FromHere(f, frame, i) ELSE f[i]]
  <2>2. a \in Int /\ b \in Int /\ b - k = a + 1 /\ a < b
    OBVIOUS
  <2>3. ASSUME NEW i \in a..b
        PROVE  g[i] = FromHere(g, frame, i)
    <3>1. g[i] = FromHere(f, frame, i)
      <4>1. i # a => i \in (b - k)..b
        BY <2>2
      <4>2. i # a => f[i] = FromHere(f, frame, i)
        BY <2>1, <4>1, EscapePoint
      <4> HIDE DEF a, b
      <4> QED BY <4>2
    <3>2. i <= Len(frame) => /\ i + 1 \in a..b /\ i + 1 # a
                             /\ i + 2 \in a..b /\ i + 2 # a
      OBVIOUS
    <3>3. i <= Len(frame) => g[i + 1] = f[i + 1] /\ g[i + 2] = f[i + 2]
      <4> HIDE DEF a, b
      <4> QED BY <3>2
    <3>4. i \in Int
      BY <2>2
    <3> HIDE DEF g
    <3>5. FromHere(f, frame, i) = FromHere(g, frame, i)
      BY <3>3, <3>4 DEF FromHere
    <3> QED BY <3>1, <3>5
  <2>4. g = [i \in a..b |-> g[i]]
    <3> HIDE DEF a, b
    <3> QED OBVIOUS
  <2> HIDE DEF a, b, g
  <2>5. EscapesOn(g, frame, a, b)
    BY <2>3, <2>4 DEF EscapesOn
  <2> QED BY <2>5 DEF a
<1>3. b - 1 \in S
  <2>1. Nat \subseteq S
    <3> HIDE DEF S
    <3> QED BY <1>1, <1>2, SetInduction
  <2>2. b - 1 \in Nat
    OBVIOUS
  <2> HIDE DEF S, b
  <2> QED BY <2>1, <2>2
<1>4. b - (b - 1) = 1
  OBVIOUS
<1> HIDE DEF b
<1> QED BY <1>3, <1>4 DEF b

LEMMA UnescapedIsByte == \A x \in 0..255 : Unescaped(x) \in Byte
<1> SUFFICES ASSUME NEW x \in 0..255
             PROVE  x % 16 \in 0..255
  BY DEF Unescaped, Byte
<1>1. x \in Int /\ x % 16 \in 0..15
  OBVIOUS
<1> QED BY <1>1

\* No escape byte is the last of the frame.
EscapesAreWhole(frame) ==
    \A i \in DOMAIN frame : frame[i] = Escape => i + 1 \in DOMAIN frame

LEMMA EscapeValues ==
    ASSUME NEW frame \in Seq(Byte), EscapesAreWhole(frame),
           NEW f, EscapesOn(f, frame, 1, Len(frame) + 2)
    PROVE  f[1] \in Seq(Byte)
<1> DEFINE n == Len(frame)
           S == {k \in Nat : \A i \in 1..(n + 2) : i + k >= n + 1 => f[i] \in Seq(Byte)}
<1>1. n \in Nat /\ DOMAIN frame = 1..n /\ \A i \in 1..n : frame[i] \in Byte
  OBVIOUS
<1>2. \A i \in 1..(n + 2) : f[i] = FromHere(f, frame, i)
  BY EscapePoint
<1> HIDE DEF n
<1>3. 0 \in S
  <2>1. ASSUME NEW i \in 1..(n + 2), i + 0 >= n + 1
        PROVE  f[i] \in Seq(Byte)
    <3>1. i > Len(frame)
      BY <1>1, <2>1 DEF n
    <3>2. f[i] = <<>>
      BY <1>2, <3>1 DEF FromHere
    <3> QED BY <3>2
  <2> QED BY <2>1
<1>4. ASSUME NEW k \in Nat, k \in S
      PROVE  k + 1 \in S
  <2> SUFFICES ASSUME NEW i \in 1..(n + 2), i + (k + 1) >= n + 1
               PROVE  f[i] \in Seq(Byte)
    OBVIOUS
  <2>1. CASE i > n
    <3>1. i + 0 >= n + 1
      BY <1>1, <2>1
    <3> QED BY <1>3, <3>1
  <2>2. CASE i <= n
    <3>1. i \in 1..n /\ i + 1 \in 1..(n + 2) /\ i + 2 \in 1..(n + 2)
          /\ i + 1 + k >= n + 1 /\ i + 2 + k >= n + 1
      BY <1>1, <2>2
    <3>2. f[i + 1] \in Seq(Byte) /\ f[i + 2] \in Seq(Byte)
      BY <1>4, <3>1
    <3>3. frame[i] \in Byte
      BY <1>1, <3>1
    <3>4. frame[i] = Escape => Unescaped(frame[i + 1]) \in Byte
      <4> SUFFICES ASSUME frame[i] = Escape
                   PROVE  Unescaped(frame[i + 1]) \in Byte
        OBVIOUS
      <4>1. i + 1 \in 1..n
        BY <1>1, <3>1 DEF EscapesAreWhole
      <4>2. frame[i + 1] \in 0..255
        BY <1>1, <4>1 DEF Byte
      <4> QED BY <4>2, UnescapedIsByte
    <3>5. \A x \in Byte : \A s \in Seq(Byte) : <<x>> \o s \in Seq(Byte)
      OBVIOUS
    <3>6. ~(i > Len(frame))
      BY <1>1, <2>2 DEF n
    <3>7. f[i] = IF frame[i] \in {PackageStartIndex, PackageEndIndex} THEN f[i + 1]
                 ELSE IF frame[i] = Escape THEN <<Unescaped(frame[i + 1])>> \o f[i + 2]
                 ELSE <<frame[i]>> \o f[i + 1]
      BY <1>2, <3>6 DEF FromHere
    <3> QED BY <3>2, <3>3, <3>4, <3>5, <3>7
  <2> QED BY <1>1, <2>1, <2>2
<1>5. n \in S
  <2> HIDE DEF S
  <2> QED BY <1>1, <1>3, <1>4, SetInduction
<1>6. 1 \in 1..(n + 2) /\ 1 + n >= n + 1
  BY <1>1
<1> QED BY <1>5, <1>6

\* A frame that no escape byte ends gives a package of bytes.
LEMMA PackageIsBytes ==
    ASSUME NEW frame \in Seq(Byte), EscapesAreWhole(frame)
    PROVE  PackageEscape(frame) \in Seq(Byte)
<1> DEFINE F == CHOOSE f : f = [i \in 1..(Len(frame) + 2) |->
                  IF i > Len(frame) THEN <<>>
                  ELSE IF frame[i] \in {PackageStartIndex, PackageEndIndex} THEN f[i + 1]
                  ELSE IF frame[i] = Escape THEN <<Unescaped(frame[i + 1])>> \o f[i + 2]
                  ELSE <<frame[i]>> \o f[i + 1]]
<1>1. PackageEscape(frame) = F[1]
  BY Zenon DEF PackageEscape
<1>2. Len(frame) \in Nat
  OBVIOUS
<1>3. EscapesOn(F, frame, 1, Len(frame) + 2)
  <2>1. PICK g : EscapesOn(g, frame, 1, Len(frame) + 2)
    BY <1>2, EscapeExists
  <2>2. g = [i \in 1..(Len(frame) + 2) |->
               IF i > Len(frame) THEN <<>>
               ELSE IF frame[i] \in {PackageStartIndex, PackageEndIndex} THEN g[i + 1]
               ELSE IF frame[i] = Escape THEN <<Unescaped(frame[i + 1])>> \o g[i + 2]
               ELSE <<frame[i]>> \o g[i + 1]]
    BY <2>1, Zenon DEF EscapesOn, FromHere
  <2>3. F = [i \in 1..(Len(frame) + 2) |->
               IF i > Len(frame) THEN <<>>
               ELSE IF frame[i] \in {PackageStartIndex, PackageEndIndex} THEN F[i + 1]
               ELSE IF frame[i] = Escape THEN <<Unescaped(frame[i + 1])>> \o F[i + 2]
               ELSE <<frame[i]>> \o F[i + 1]]
    BY <2>2, Zenon
  <2> QED BY <2>3, Zenon DEF EscapesOn, FromHere
<1> HIDE DEF F
<1>4. PICK f : EscapesOn(f, frame, 1, Len(frame) + 2) /\ PackageEscape(frame) = f[1]
  BY <1>1, <1>3, Zenon
<1> QED BY <1>4, EscapeValues

-----------------------------------------------------------------------------
(* The types of the whole state.                                             *)

\* What the line lost and what the package thread made of what arrived.
HandlerTypeOK ==
    /\ lost \subseteq 1..Len(Line)
    /\ recvQueue \in Seq(Seq(Byte))
    /\ hpc \in {"check", "waiting", "blocked"}
    /\ packageString \in Seq(Byte)
    /\ events \in Seq(Seq(Byte))

TypeInv == IInv /\ HandlerTypeOK

\* What follows the index byte of a package is bytes, and so is a message
\* with a further part.
LEMMA RemainingIsBytes ==
    ASSUME NEW p \in Seq(Byte), NEW q \in Seq(Byte)
    PROVE  q \o RemainingString(p) \in Seq(Byte)
<1>1. Len(p) \in Nat /\ HeaderLength + 2 \in Nat \ {0}
  BY SizesAssumption
<1>2. \A i \in (HeaderLength + 2)..Len(p) : p[i] \in Byte
  BY <1>1
<1>3. RemainingString(p) \in Seq(Byte)
  BY <1>1, <1>2, SubSeqProperties DEF RemainingString
<1> QED BY <1>3

LEMMA HandlerInit == Init => HandlerTypeOK
<1> SUFFICES ASSUME Init
             PROVE  HandlerTypeOK
  OBVIOUS
<1>1. <<>> \in Seq(Byte) /\ <<>> \in Seq(Seq(Byte))
  OBVIOUS
<1> QED BY <1>1 DEF Init, HandlerTypeOK

LEMMA HandlerNext == TypeInv /\ [Next]_vars => HandlerTypeOK'
<1> SUFFICES ASSUME TypeInv, [Next]_vars
             PROVE  HandlerTypeOK'
  OBVIOUS
<1> USE DEF TypeInv
<1>1. CASE LoseByte
  <2>1. next \in 1..Len(Line)
    BY <1>1, LineIsBytes DEF LoseByte, IInv, ReceiverTypeOK
  <2>2. lost' = lost \cup {next} /\ UNCHANGED <<recvQueue, handler>>
    BY <1>1 DEF LoseByte
  <2> QED BY <2>1, <2>2 DEF HandlerTypeOK, handler
<1>2. CASE \/ \E n \in 1..MaxReadOneShot : HandleReceiveData(n)
           \/ JoinPackage \/ UNCHANGED vars
  <2>1. UNCHANGED <<lost, recvQueue, handler>>
    BY <1>2 DEF HandleReceiveData, JoinPackage, vars
  <2> QED BY <2>1 DEF HandlerTypeOK, handler
<1>3. CASE PushPackage
  <2>1. packageFrame \in Seq(Byte) /\ EscapesAreWhole(packageFrame)
    BY <1>3, ShapeIsWhole
       DEF PushPackage, EscapeStaysInFrame, EscapesAreWhole, IInv, ReceiverTypeOK
  <2>2. PackageEscape(packageFrame) \in Seq(Byte)
    BY <2>1, PackageIsBytes
  <2>3. /\ recvQueue' = Append(recvQueue, PackageEscape(packageFrame))
        /\ UNCHANGED <<lost, handler>>
    BY <1>3 DEF PushPackage
  <2> QED BY <2>2, <2>3 DEF HandlerTypeOK, handler
<1>4. CASE NotifyOne
  <2>1. /\ hpc' \in {"check", hpc}
        /\ UNCHANGED <<lost, recvQueue, packageString, events>>
    BY <1>4 DEF NotifyOne, Wake
  <2> QED BY <2>1 DEF HandlerTypeOK
<1>5. CASE WaitForPackage
  BY <1>5 DEF WaitForPackage, HandlerTypeOK
<1>6. CASE PackageHandel \/ HandlerBlocks
  <2> DEFINE p == Head(recvQueue)
  <2>1. p \in Seq(Byte) /\ Tail(recvQueue) \in Seq(Seq(Byte))
    BY <1>6 DEF PackageHandel, HandlerBlocks, HandlerTypeOK
  <2>2. /\ HandlePackageString(p)
        /\ recvQueue' = Tail(recvQueue)
        /\ lost' = lost /\ hpc' \in {"check", "blocked"}
    BY <1>6 DEF PackageHandel, HandlerBlocks
  <2> HIDE DEF p
  <2>3. packageString \in Seq(Byte) /\ events \in Seq(Seq(Byte))
    BY DEF HandlerTypeOK
  <2>4. packageString \o RemainingString(p) \in Seq(Byte)
    BY <2>1, <2>3, RemainingIsBytes
  <2>5. packageString' \in Seq(Byte) /\ events' \in Seq(Seq(Byte))
    <3>1. CASE WholePackage(p)
      BY <2>1, <2>3, <3>1 DEF WholePackage
    <3>2. CASE StartPackage(p)
      BY <2>1, <2>3, <3>2 DEF StartPackage
    <3>3. CASE MiddlePackage(p)
      BY <2>3, <2>4, <3>3 DEF MiddlePackage
    <3>4. CASE EndPackage(p)
      BY <2>3, <2>4, <3>4 DEF EndPackage
    <3>5. CASE UNCHANGED <<packageString, events>>
      BY <2>3, <3>5
    <3> QED BY <2>2, <3>1, <3>2, <3>3, <3>4, <3>5 DEF HandlePackageString
  <2> QED BY <2>1, <2>2, <2>5 DEF HandlerTypeOK
<1> QED BY <1>1, <1>2, <1>3, <1>4, <1>5, <1>6 DEF Next, ReceiveThread, PackageHandleThread

\* Every variable keeps to its type in every reachable state: what the package
\* thread joins and hands over is bytes, whatever was lost on the line, because
\* packageEscape is never given a frame that an escape byte ends.
THEOREM TypeCorrect == Spec => []TypeOK
<1>1. Init => TypeInv
  BY InitIInv, HandlerInit DEF TypeInv
<1>2. TypeInv /\ [Next]_vars => TypeInv'
  BY NextIInv, HandlerNext DEF TypeInv
<1>3. TypeInv => TypeOK
  BY DEF TypeInv, IInv, ReceiverTypeOK, HandlerTypeOK, TypeOK
<1> QED BY <1>1, <1>2, <1>3, PTL DEF Spec

-----------------------------------------------------------------------------
(* What comes of the messages that are whole.                                *)

\* The bytes a..z have all arrived, or may still, and the frame before them has
\* had its end.
Clean(a, z) == (a = 1 \/ a - 1 \notin lost) /\ \A i \in a..z : i \notin lost

NoEnd(a, z) == \A i \in a..z : Line[i] # PackageEndIndex

\* All bytes before position s have been joined or lost, those from b on are in
\* the buffer, and what is neither has been lost.
Positions(s, b) ==
    /\ s \in 1..next /\ b \in s..next /\ b + Len(buffer) <= next
    /\ \A i \in s..(b - 1) : i \in lost
    /\ \A i \in (b + Len(buffer))..(next - 1) : i \in lost
    /\ \A i \in 1..Len(buffer) : buffer[i] = Line[b + i - 1] /\ b + i - 1 \notin lost
    /\ \A i \in lost : i < next

\* A frame of which nothing has been lost is joined as it was sent, ...
JoinedAsSent(s) ==
    rpc # "escape" =>
       \A a \in 1..s : Begins(a) /\ Clean(a, s - 1) /\ NoEnd(a, s - 1)
                          => packageFrame = SubSeq(Line, a, s - 1)

\* ... and handed over as it was sent.
EscapedAsSent(s) ==
    rpc = "escape" =>
       /\ s - 1 \in 1..Len(Line) /\ s - 1 \notin lost /\ Line[s - 1] = PackageEndIndex
       /\ \A a \in 1..(s - 1) : IsFrame(a, s - 1) /\ Clean(a, s - 1)
                          => packageFrame = SubSeq(Line, a, s - 1)

\* The frames that end before this position have been queued, or dropped.
Queued(s) == IF rpc = "escape" THEN s - 1 ELSE s

\* In the middle of a message of which nothing has been lost, z is what has
\* been said of it.
StringIsSaid(t, z) ==
    \A m \in DOMAIN Ends : \A e \in FirstOf(m)..(Ends[m] - 1) :
       e < t /\ Line[e] = PackageEndIndex /\ NoEnd(e + 1, t - 1) /\ Clean(FirstOf(m), t - 1)
          => z = Said[e]

\* The messages before position t of which nothing has been lost ...
Done(t) == {m \in DOMAIN Ends : Ends[m] < t /\ Clean(FirstOf(m), Ends[m])}

\* ... are among the packages w, in their order.
EventsHave(t, w) ==
    \E at \in [Done(t) -> DOMAIN w] :
       /\ \A m \in Done(t) : w[at[m]] = Sent[m]
       /\ \A m, n \in Done(t) : m < n => at[m] < at[n]

\* What the package thread makes of package p, from <<packageString, events>>.
HandledOf(p, st) ==
    IF 0 \in PackageIndex(p) THEN <<st[1], Append(st[2], p)>>
    ELSE IF 1 \in PackageIndex(p) THEN <<p, st[2]>>
    ELSE IF 2 \in PackageIndex(p) THEN <<st[1] \o RemainingString(p), st[2]>>
    ELSE IF 3 \in PackageIndex(p) THEN <<<<>>, Append(st[2], st[1] \o RemainingString(p))>>
    ELSE st

\* The states it goes through when it handles the queue q, from st on.
IsRun(path, q, st) ==
    /\ DOMAIN path = 0..Len(q)
    /\ path[0] = st
    /\ \A i \in 1..Len(q) : path[i] = HandledOf(q[i], path[i - 1])

\* When it has handled all that is queued it will be in the state st.
Yields(st) ==
    \E path : /\ IsRun(path, recvQueue, <<packageString, events>>)
              /\ path[Len(recvQueue)] = st

QueueInv(t) ==
    \E z \in Seq(Byte), w \in Seq(Seq(Byte)) :
       Yields(<<z, w>>) /\ StringIsSaid(t, z) /\ EventsHave(t, w)

StreamInv ==
    \E s, b \in Nat :
       /\ Positions(s, b) /\ JoinedAsSent(s) /\ EscapedAsSent(s)
       /\ QueueInv(Queued(s))

-----------------------------------------------------------------------------
(* The line.                                                                 *)

LEMMA EndsAreEnds ==
    ASSUME NEW m \in DOMAIN Ends
    PROVE  /\ m \in Nat \ {0} /\ Ends[m] \in 1..Len(Line) /\ Line[Ends[m]] = PackageEndIndex
           /\ FirstOf(m) \in 1..Ends[m] /\ Begins(FirstOf(m))
           /\ m # 1 => m - 1 \in DOMAIN Ends /\ FirstOf(m) = Ends[m - 1] + 1
<1>1. /\ Len(Ends) \in Nat /\ DOMAIN Ends = 1..Len(Ends)
      /\ \A k \in DOMAIN Ends : Ends[k] \in 1..Len(Line)
  BY LineAssumption
<1>2. \A k \in DOMAIN Ends : Line[Ends[k]] = PackageEndIndex
  BY GatewayAssumption
<1>3. CASE m = 1
  BY <1>1, <1>2, <1>3, LineIsBytes DEF FirstOf, Begins
<1>4. CASE m # 1
  <2>1. m - 1 \in DOMAIN Ends /\ m - 1 < m
    BY <1>1, <1>4
  <2>2. Ends[m - 1] < Ends[m]
    BY <2>1, LineAssumption
  <2>3. Ends[m - 1] \in 1..Len(Line) /\ Line[Ends[m - 1]] = PackageEndIndex
    BY <1>1, <1>2, <2>1
  <2>4. FirstOf(m) = Ends[m - 1] + 1 /\ FirstOf(m) - 1 = Ends[m - 1]
    BY <1>4, <2>3, LineIsBytes DEF FirstOf
  <2> QED BY <1>1, <1>2, <2>1, <2>2, <2>3, <2>4, LineIsBytes DEF Begins
<1> QED BY <1>3, <1>4

\* Every end byte of a message ends a frame of it.
LEMMA FrameOfEnd ==
    ASSUME NEW m \in DOMAIN Ends, NEW e \in FirstOf(m)..Ends[m], Line[e] = PackageEndIndex
    PROVE  \E a \in FirstOf(m)..e : IsFrame(a, e)
<1> DEFINE f == FirstOf(m)
           T == {k \in Nat : e - k >= f /\ Begins(e - k)}
<1>1. /\ f \in Nat /\ e \in Nat /\ f <= e /\ Begins(f)
  BY EndsAreEnds, LineIsBytes
<1> HIDE DEF f
<1>2. e - f \in T
  <2>1. e - (e - f) = f /\ e - f \in Nat
    BY <1>1
  <2> QED BY <1>1, <2>1
<1>3. PICK k \in T : \A j \in T : k <= j
  <2>1. T # {} /\ T \in SUBSET Nat
    BY <1>2
  <2> HIDE DEF T
  <2> QED BY <2>1, LeastElement
<1>4. e - k \in f..e /\ Begins(e - k) /\ k \in Nat
  BY <1>1, <1>3
<1>5. ASSUME NEW i \in (e - k)..(e - 1), Line[i] = PackageEndIndex
      PROVE  FALSE
  <2>1. i \in Int /\ e - (e - (i + 1)) = i + 1 /\ (i + 1) - 1 = i /\ e - (i + 1) \in Nat
        /\ i + 1 >= f /\ e - (i + 1) < k
    BY <1>1, <1>4
  <2>2. Begins(i + 1)
    BY <1>5, <2>1 DEF Begins
  <2>3. e - (i + 1) \in T
    BY <2>1, <2>2
  <2> QED BY <1>3, <1>4, <2>1, <2>3
<1> QED BY <1>4, <1>5 DEF IsFrame, f

LEMMA CleanFrame ==
    ASSUME NEW m \in DOMAIN Ends, NEW e \in FirstOf(m)..Ends[m], NEW a \in FirstOf(m)..e,
           Clean(FirstOf(m), e)
    PROVE  Clean(a, e)
<1>1. FirstOf(m) \in Nat /\ a \in Nat /\ e \in Nat
  BY EndsAreEnds, LineIsBytes
<1> QED BY <1>1 DEF Clean

\* A frame with one more byte.
LEMMA FrameGrows ==
    ASSUME NEW b \in 1..Len(Line), NEW a \in 1..b
    PROVE  /\ SubSeq(Line, a, b) = Append(SubSeq(Line, a, b - 1), Line[b])
           /\ a < b => SubSeq(Line, a, b - 1) # <<>>
           /\ a = b => SubSeq(Line, a, b - 1) = <<>>
<1>1. /\ Line \in Seq(Byte) /\ Len(Line) \in Nat /\ a \in Nat /\ b \in Nat /\ 1 <= a /\ a <= b
      /\ \A i \in a..b : Line[i] \in Byte
  BY LineIsBytes
<1> DEFINE u == SubSeq(Line, a, b)
           v == SubSeq(Line, a, b - 1)
<1>2. u \in Seq(Byte) /\ Len(u) = b - a + 1 /\ \A i \in 1..(b - a + 1) : u[i] = Line[a + i - 1]
  BY <1>1, SubSeqProperties
<1>3. v \in Seq(Byte) /\ Len(v) = b - a /\ \A i \in 1..(b - a) : v[i] = Line[a + i - 1]
  <2> DEFINE c == b - 1
  <2>1. c \in Int /\ a <= c + 1 /\ c - a + 1 = b - a /\ \A i \in a..c : Line[i] \in Byte
    BY <1>1
  <2> HIDE DEF c
  <2>2. /\ SubSeq(Line, a, c) \in Seq(Byte)
        /\ Len(SubSeq(Line, a, c)) = IF a <= c THEN c - a + 1 ELSE 0
        /\ \A i \in 1..(c - a + 1) : SubSeq(Line, a, c)[i] = Line[a + i - 1]
    BY <1>1, <2>1, SubSeqProperties
  <2>3. Len(SubSeq(Line, a, c)) = b - a
    BY <1>1, <2>1, <2>2
  <2> QED BY <2>1, <2>2, <2>3 DEF c
<1> HIDE DEF u, v
<1> DEFINE w == Append(v, Line[b])
<1>4. /\ w \in Seq(Byte) /\ Len(w) = b - a + 1 /\ w[b - a + 1] = Line[b]
      /\ \A i \in 1..(b - a) : w[i] = v[i]
  <2>1. Line[b] \in Byte /\ Len(v) + 1 = b - a + 1
    BY <1>1, <1>3
  <2> QED BY <1>3, <2>1, AppendProperties
<1>5. ASSUME NEW i \in 1..(b - a + 1) PROVE u[i] = w[i]
  <2> HIDE DEF w
  <2>1. CASE i = b - a + 1
    <3>1. a + i - 1 = b
      BY <1>1, <2>1
    <3> QED BY <1>2, <1>4, <2>1, <3>1
  <2>2. CASE i # b - a + 1
    <3>1. i \in 1..(b - a)
      BY <1>1, <2>2
    <3> QED BY <1>2, <1>3, <1>4, <3>1
  <2> QED BY <2>1, <2>2
<1>6. u = w
  <2> HIDE DEF w
  <2> QED BY <1>2, <1>4, <1>5, SeqEqual
<1>7. v = <<>> <=> a = b
  BY <1>1, <1>3, EmptySeq
<1> QED BY <1>1, <1>6, <1>7 DEF u, v

-----------------------------------------------------------------------------
(* What is queued.                                                           *)

LEMMA HandledTypes ==
    ASSUME NEW p \in Seq(Byte), NEW z \in Seq(Byte), NEW w \in Seq(Seq(Byte))
    PROVE  \E y \in Seq(Byte), v \in Seq(Seq(Byte)) : HandledOf(p, <<z, w>>) = <<y, v>>
<1>1. z \o RemainingString(p) \in Seq(Byte) /\ <<>> \in Seq(Byte)
  BY RemainingIsBytes
<1>2. Append(w, p) \in Seq(Seq(Byte)) /\ Append(w, z \o RemainingString(p)) \in Seq(Seq(Byte))
  BY <1>1
<1> QED BY <1>1, <1>2 DEF HandledOf

\* A package that is queued is handled after all the others.
LEMMA QueueYields ==
    ASSUME NEW p \in Seq(Byte), NEW st, recvQueue \in Seq(Seq(Byte)), Yields(st),
           recvQueue' = Append(recvQueue, p), UNCHANGED <<packageString, events>>
    PROVE  Yields(HandledOf(p, st))'
<1> DEFINE q == recvQueue
           n == Len(recvQueue)
           r == Append(recvQueue, p)
           start == <<packageString, events>>
<1>1. PICK path : IsRun(path, q, start) /\ path[n] = st
  BY DEF Yields
<1>2. /\ n \in Nat /\ Len(r) = n + 1 /\ r[n + 1] = p
      /\ \A i \in 1..n : r[i] = q[i]
  OBVIOUS
<1> DEFINE path2 == [i \in 0..(n + 1) |-> IF i = n + 1 THEN HandledOf(p, st) ELSE path[i]]
<1> HIDE DEF q, n, r, start
<1>3. /\ DOMAIN path2 = 0..(n + 1) /\ path2[n + 1] = HandledOf(p, st)
      /\ \A i \in 0..n : path2[i] = path[i]
  BY <1>2
<1> HIDE DEF path2
<1>4. /\ path[0] = start
      /\ \A i \in 1..n : path[i] = HandledOf(q[i], path[i - 1])
  BY <1>1 DEF IsRun, n, q
<1>5. ASSUME NEW i \in 1..(n + 1)
      PROVE  path2[i] = HandledOf(r[i], path2[i - 1])
  <2>1. CASE i = n + 1
    <3>1. path2[i - 1] = st
      BY <1>1, <1>2, <1>3, <2>1
    <3> QED BY <1>2, <1>3, <2>1, <3>1
  <2>2. CASE i # n + 1
    <3>1. i \in 1..n /\ i \in 0..n /\ i - 1 \in 0..n
      BY <1>2, <2>2
    <3> QED BY <1>2, <1>3, <1>4, <3>1
  <2> QED BY <2>1, <2>2
<1>6. IsRun(path2, r, start)
  BY <1>2, <1>3, <1>4, <1>5 DEF IsRun
<1>7. recvQueue' = r /\ <<packageString, events>>' = start /\ Len(recvQueue') = n + 1
  BY <1>2 DEF r, start
<1> QED BY <1>3, <1>6, <1>7 DEF Yields

\* Handling the package at the front changes nothing of it.
LEMMA HandlingYields ==
    ASSUME NEW st, recvQueue \in Seq(Seq(Byte)), Yields(st),
           PackageHandel \/ HandlerBlocks
    PROVE  Yields(st)'
<1> DEFINE q == recvQueue
           n == Len(recvQueue)
           r == Tail(recvQueue)
           p == Head(recvQueue)
           start == <<packageString, events>>
           next2 == <<packageString, events>>'
<1>1. PICK path : IsRun(path, q, start) /\ path[n] = st
  BY DEF Yields
<1>2. q # <<>> /\ HandlePackageString(p) /\ recvQueue' = r
  BY DEF PackageHandel, HandlerBlocks
<1>3. /\ n \in Nat \ {0} /\ Len(r) = n - 1 /\ p = q[1]
      /\ \A i \in 1..(n - 1) : r[i] = q[i + 1]
  BY <1>2
<1> HIDE DEF q, n, r
<1>4. next2 = HandledOf(p, start)
  <2> HIDE DEF p
  <2> DEFINE k == PackageIndex(p)
  <2>1. CASE k = {0} /\ WholePackage(p)
    BY <2>1 DEF WholePackage, HandledOf
  <2>2. CASE k = {1} /\ StartPackage(p)
    BY <2>2 DEF StartPackage, HandledOf
  <2>3. CASE k = {2} /\ MiddlePackage(p)
    BY <2>3 DEF MiddlePackage, HandledOf
  <2>4. CASE k = {3} /\ EndPackage(p)
    BY <2>4 DEF EndPackage, HandledOf
  <2>5. CASE k \cap 0..3 = {} /\ UNCHANGED <<packageString, events>>
    <3> HIDE DEF k
    <3>1. \A i \in 0..3 : i \notin k
      BY <2>5
    <3>2. HandledOf(p, start) = start
      BY <3>1 DEF k, HandledOf
    <3> QED BY <2>5, <3>2
  <2> QED BY <1>2, <2>1, <2>2, <2>3, <2>4, <2>5 DEF HandlePackageString
<1> HIDE DEF p, start, next2
<1> DEFINE path2 == [i \in 0..(n - 1) |-> path[i + 1]]
<1>5. /\ path[0] = start
      /\ \A i \in 1..n : path[i] = HandledOf(q[i], path[i - 1])
  BY <1>1 DEF IsRun, n, q
<1>6. path2[0] = next2
  <2>1. 1 \in 1..n /\ 0 \in 0..(n - 1)
    BY <1>3
  <2> QED BY <1>3, <1>4, <1>5, <2>1
<1>7. path2[n - 1] = st
  BY <1>1, <1>3
<1>8. ASSUME NEW i \in 1..(n - 1)
      PROVE  path2[i] = HandledOf(r[i], path2[i - 1])
  <2>1. /\ i \in 0..(n - 1) /\ i - 1 \in 0..(n - 1) /\ i + 1 \in 1..n
        /\ (i + 1) - 1 = i /\ (i - 1) + 1 = i
    BY <1>3
  <2>2. path2[i] = path[i + 1] /\ path2[i - 1] = path[i]
    BY <2>1
  <2> HIDE DEF path2
  <2> QED BY <1>3, <1>5, <2>1, <2>2
<1>9. DOMAIN path2 = 0..(n - 1)
  OBVIOUS
<1> HIDE DEF path2
<1>10. IsRun(path2, r, next2)
  BY <1>3, <1>6, <1>8, <1>9 DEF IsRun
<1> QED BY <1>2, <1>3, <1>7, <1>10 DEF Yields, next2

\* More is asked of what is queued only when something is.
LEMMA QueueKeeps ==
    ASSUME NEW t, NEW t2, QueueInv(t), \A st : Yields(st) => Yields(st)',
           \A z : StringIsSaid(t, z) => StringIsSaid(t2, z)',
           Done(t2)' \subseteq Done(t)
    PROVE  QueueInv(t2)'
<1>1. PICK z \in Seq(Byte), w \in Seq(Seq(Byte)) :
         Yields(<<z, w>>) /\ StringIsSaid(t, z) /\ EventsHave(t, w)
  BY DEF QueueInv
<1>2. EventsHave(t2, w)'
  <2>1. PICK at \in [Done(t) -> DOMAIN w] :
            /\ \A m \in Done(t) : w[at[m]] = Sent[m]
            /\ \A m, n \in Done(t) : m < n => at[m] < at[n]
    BY <1>1 DEF EventsHave
  <2> DEFINE at2 == [m \in Done(t2)' |-> at[m]]
  <2>2. /\ at2 \in [Done(t2)' -> DOMAIN w]
        /\ \A m \in Done(t2)' : w[at2[m]] = Sent[m]
        /\ \A m, n \in Done(t2)' : m < n => at2[m] < at2[n]
    BY <2>1
  <2> HIDE DEF at2
  <2>3. \E a \in [Done(t2)' -> DOMAIN w] :
            /\ \A m \in Done(t2)' : w[a[m]] = Sent[m]
            /\ \A m, n \in Done(t2)' : m < n => a[m] < a[n]
    BY <2>2
  <2> QED BY <2>3 DEF EventsHave
<1> QED BY <1>1, <1>2 DEF QueueInv

-----------------------------------------------------------------------------
(* The steps.                                                                *)

LEMMA StreamInit == Init => StreamInv
<1> SUFFICES ASSUME Init
             PROVE  StreamInv
  OBVIOUS
<1>1. /\ next = 1 /\ lost = {} /\ buffer = <<>> /\ rpc = "join" /\ packageFrame = <<>>
      /\ recvQueue = <<>> /\ packageString = <<>> /\ events = <<>> /\ Len(buffer) = 0
  BY DEF Init
<1>2. Positions(1, 1)
  BY <1>1 DEF Positions
<1>3. JoinedAsSent(1) /\ EscapedAsSent(1) /\ Queued(1) = 1
  <2>1. SubSeq(Line, 1, 0) = <<>>
    <3>1. 1 \in Int /\ 0 \in Int /\ 0 < 1
      OBVIOUS
    <3> QED BY <3>1, SubSeqEmpty
  <2>2. \A a \in 1..1 : a = 1
    OBVIOUS
  <2> QED BY <1>1, <2>1, <2>2 DEF JoinedAsSent, EscapedAsSent, Queued
<1>4. QueueInv(1)
  <2>1. <<>> \in Seq(Byte) /\ <<>> \in Seq(Seq(Byte))
    OBVIOUS
  <2>2. Yields(<<<<>>, <<>>>>)
    <3> DEFINE path == [i \in 0..0 |-> <<<<>>, <<>>>>]
    <3>1. /\ DOMAIN path = 0..Len(<<>>) /\ path[0] = <<<<>>, <<>>>> /\ 1..Len(<<>>) = {}
          /\ path[Len(<<>>)] = <<<<>>, <<>>>>
      OBVIOUS
    <3> HIDE DEF path
    <3> QED BY <1>1, <3>1 DEF Yields, IsRun
  <2>3. StringIsSaid(1, <<>>)
    <3>1. \A m \in DOMAIN Ends : FirstOf(m) \in Nat \ {0}
      BY EndsAreEnds, LineIsBytes
    <3> QED BY <3>1 DEF StringIsSaid
  <2>4. Done(1) = {}
    <3>1. \A m \in DOMAIN Ends : ~(Ends[m] < 1)
      BY EndsAreEnds, LineIsBytes
    <3> QED BY <3>1 DEF Done
  <2>5. EventsHave(1, <<>>)
    <3> DEFINE at == [m \in {} |-> 0]
    <3>1. at \in [{} -> DOMAIN <<>>]
      OBVIOUS
    <3> HIDE DEF at
    <3> QED BY <2>4, <3>1 DEF EventsHave
  <2> QED BY <2>1, <2>2, <2>3, <2>5 DEF QueueInv
<1> QED BY <1>2, <1>3, <1>4 DEF StreamInv

\* A byte that is lost is after all that has been joined.
LEMMA LossKeeps ==
    ASSUME TypeInv, StreamInv, LoseByte
    PROVE  StreamInv'
<1>1. PICK s \in Nat, b \in Nat :
         /\ Positions(s, b) /\ JoinedAsSent(s) /\ EscapedAsSent(s) /\ QueueInv(Queued(s))
  BY DEF StreamInv
<1>2. /\ lost' = lost \cup {next} /\ next' = next + 1 /\ next \in Nat
      /\ UNCHANGED <<buffer, rpc, packageFrame, recvQueue, packageString, events>>
  BY LineIsBytes DEF LoseByte, receiver, handler, TypeInv, IInv, ReceiverTypeOK
<1>3. Len(buffer) \in Nat
  BY DEF TypeInv, IInv, ReceiverTypeOK
<1>4. Positions(s, b)'
  <2>1. /\ s \in 1..next /\ b \in s..next /\ b + Len(buffer) <= next
        /\ \A i \in s..(b - 1) : i \in lost
        /\ \A i \in (b + Len(buffer))..(next - 1) : i \in lost
        /\ \A i \in 1..Len(buffer) : buffer[i] = Line[b + i - 1] /\ b + i - 1 \notin lost
        /\ \A i \in lost : i < next
    BY <1>1 DEF Positions
  <2>2. \A i \in (b + Len(buffer))..(next' - 1) : i \in lost'
    BY <1>1, <1>2, <1>3, <2>1
  <2>3. \A i \in 1..Len(buffer) : b + i - 1 \notin lost'
    BY <1>1, <1>2, <1>3, <2>1
  <2>4. /\ s \in 1..next' /\ b \in s..next' /\ b + Len(buffer) <= next'
        /\ \A i \in lost' : i < next'
    BY <1>1, <1>2, <1>3, <2>1 DEF TypeInv, HandlerTypeOK
  <2>5. \A i \in s..(b - 1) : i \in lost'
    BY <1>2, <2>1
  <2> QED BY <1>2, <2>1, <2>2, <2>3, <2>4, <2>5 DEF Positions
<1>5. \A a, z : Clean(a, z)' => Clean(a, z)
  BY <1>2 DEF Clean
<1>6. JoinedAsSent(s)' /\ Queued(s)' = Queued(s)
  BY <1>1, <1>2, <1>5 DEF JoinedAsSent, Queued
<1>7. EscapedAsSent(s)'
  <2>1. s - 1 < next
    BY <1>1, <1>2 DEF Positions
  <2> QED BY <1>1, <1>2, <1>5, <2>1 DEF EscapedAsSent
<1>8. QueueInv(Queued(s))'
  <2> PICK t : t = Queued(s)
    OBVIOUS
  <2>1. \A st : Yields(st) => Yields(st)'
    BY <1>2 DEF Yields
  <2>2. \A z : StringIsSaid(t, z) => StringIsSaid(t, z)'
    BY <1>5 DEF StringIsSaid
  <2>3. Done(t)' \subseteq Done(t)
    BY <1>5 DEF Done
  <2>4. QueueInv(t)
    BY <1>1
  <2>5. QueueInv(t)'
    BY <2>1, <2>2, <2>3, <2>4, QueueKeeps
  <2> QED BY <1>6, <2>5
<1> QED BY <1>4, <1>6, <1>7, <1>8 DEF StreamInv

\* A read takes the next bytes, of which none has been lost.
LEMMA ReadKeepsStream ==
    ASSUME TypeInv, StreamInv, NEW n \in 1..MaxReadOneShot, HandleReceiveData(n)
    PROVE  StreamInv'
<1>1. PICK s \in Nat, b \in Nat :
         /\ Positions(s, b) /\ JoinedAsSent(s) /\ EscapedAsSent(s) /\ QueueInv(Queued(s))
  BY DEF StreamInv
<1>2. /\ buffer = <<>> /\ buffer' = [i \in 1..n |-> Line[next + i - 1]] /\ next' = next + n
      /\ next \in Nat /\ n \in Nat
      /\ UNCHANGED <<lost, rpc, packageFrame, recvQueue, packageString, events>>
  BY LineIsBytes, SizesAssumption
     DEF HandleReceiveData, handler, TypeInv, IInv, ReceiverTypeOK
<1>3. Len(buffer) = 0 /\ Len(buffer') = n
  BY <1>2
<1> PICK b2 \in Nat : b2 = next
  BY <1>2
<1>4. Positions(s, b2)'
  <2>1. /\ s \in 1..next /\ b \in s..next
        /\ \A i \in s..(b - 1) : i \in lost
        /\ \A i \in b..(next - 1) : i \in lost
        /\ \A i \in lost : i < next
    BY <1>1, <1>3 DEF Positions
  <2>2. \A i \in s..(next - 1) : i \in lost
    BY <1>2, <2>1
  <2>3. \A i \in 1..n : buffer'[i] = Line[next + i - 1] /\ next + i - 1 \notin lost
    BY <1>2, <2>1
  <2>4. /\ s \in 1..next' /\ b2 \in s..next' /\ b2 + n <= next'
        /\ \A i \in lost' : i < next'
    BY <1>1, <1>2, <2>1 DEF TypeInv, HandlerTypeOK
  <2>5. \A i \in (b2 + n)..(next' - 1) : i \in lost'
    BY <1>2
  <2> QED BY <1>2, <1>3, <2>2, <2>3, <2>4, <2>5 DEF Positions
<1>5. \A a, z : Clean(a, z)' <=> Clean(a, z)
  BY <1>2 DEF Clean
<1>6. JoinedAsSent(s)' /\ EscapedAsSent(s)' /\ Queued(s)' = Queued(s)
  BY <1>1, <1>2, <1>5 DEF JoinedAsSent, EscapedAsSent, Queued
<1>7. QueueInv(Queued(s))'
  <2> PICK t : t = Queued(s)
    OBVIOUS
  <2>1. \A st : Yields(st) => Yields(st)'
    BY <1>2 DEF Yields
  <2>2. \A z : StringIsSaid(t, z) => StringIsSaid(t, z)'
    BY <1>5 DEF StringIsSaid
  <2>3. Done(t)' \subseteq Done(t)
    BY <1>5 DEF Done
  <2>4. QueueInv(t)'
    BY <1>1, <2>1, <2>2, <2>3, QueueKeeps
  <2> QED BY <1>6, <2>4
<1> QED BY <1>2, <1>4, <1>6, <1>7 DEF StreamInv

\* The byte that is joined, at position b: a frame of which nothing has been
\* lost so far has been joined up to it, and is joined with it.
LEMMA ByteStep ==
    ASSUME TypeInv, NEW s \in Nat, NEW b \in Nat, Positions(s, b), JoinedAsSent(s), JoinPackage
    PROVE  /\ b \in 1..Len(Line) /\ b \notin lost /\ s \in 1..b
           /\ Positions(b + 1, b + 1)'
           /\ \A i \in s..(b - 1) : i \in lost
           /\ \A a \in 1..b : Begins(a) /\ Clean(a, b) /\ NoEnd(a, b - 1) =>
                 /\ packageFrame' = SubSeq(Line, a, b)
                 /\ rpc' = IF Line[b] = PackageEndIndex THEN "escape" ELSE "join"
           /\ rpc' # "escape" /\ Line[b] = PackageEndIndex => packageFrame' = <<>>
           /\ rpc' = "escape" => Line[b] = PackageEndIndex
<1>1. /\ rpc = "join" /\ buffer # <<>> /\ Join(Head(buffer)) /\ buffer' = Tail(buffer)
      /\ next' = next /\ lost' = lost
  BY DEF JoinPackage
<1>2. /\ buffer \in Seq(Byte) /\ next \in 1..(Len(Line) + 1) /\ Len(Line) \in Nat
      /\ parseState \in {"HEAD", "DATA"} /\ lost \subseteq 1..Len(Line)
  BY LineIsBytes DEF TypeInv, IInv, ReceiverTypeOK, HandlerTypeOK
<1>3. /\ s \in 1..next /\ b \in s..next /\ b + Len(buffer) <= next
      /\ \A i \in s..(b - 1) : i \in lost
      /\ \A i \in (b + Len(buffer))..(next - 1) : i \in lost
      /\ \A i \in 1..Len(buffer) : buffer[i] = Line[b + i - 1] /\ b + i - 1 \notin lost
      /\ \A i \in lost : i < next
  BY DEF Positions
<1>4. /\ Len(buffer) \in Nat \ {0} /\ Head(buffer) = buffer[1] /\ Len(buffer') = Len(buffer) - 1
      /\ \A i \in 1..(Len(buffer) - 1) : buffer'[i] = buffer[i + 1]
  BY <1>1, <1>2
<1>5. Head(buffer) = Line[b] /\ b \notin lost /\ b \in 1..Len(Line) /\ s \in 1..b
  <2>1. 1 \in 1..Len(buffer) /\ b + 1 - 1 = b
    BY <1>4
  <2>2. buffer[1] = Line[b] /\ b \notin lost
    BY <1>3, <2>1
  <2> QED BY <1>2, <1>3, <1>4, <2>2
<1>6. Positions(b + 1, b + 1)'
  <2> PICK c \in Nat : c = b + 1
    OBVIOUS
  <2>1. c \in 1..next' /\ c + Len(buffer') <= next' /\ \A i \in lost' : i < next'
    BY <1>1, <1>2, <1>3, <1>4
  <2>2. \A i \in (c + Len(buffer'))..(next' - 1) : i \in lost'
    BY <1>1, <1>2, <1>3, <1>4
  <2>3. ASSUME NEW i \in 1..Len(buffer')
        PROVE  buffer'[i] = Line[c + i - 1] /\ c + i - 1 \notin lost'
    <3>1. i + 1 \in 1..Len(buffer) /\ b + (i + 1) - 1 = c + i - 1
      BY <1>4
    <3>2. buffer[i + 1] = Line[b + (i + 1) - 1] /\ b + (i + 1) - 1 \notin lost
      BY <1>3, <3>1
    <3>3. buffer'[i] = buffer[i + 1]
      BY <1>4
    <3> QED BY <1>1, <3>1, <3>2, <3>3
  <2>4. c \in c..next' /\ \A i \in c..(c - 1) : i \in lost'
    BY <2>1
  <2>5. Positions(c, c)'
    BY <2>1, <2>2, <2>3, <2>4 DEF Positions
  <2> QED BY <2>5
<1>7. ASSUME NEW a \in 1..b, Begins(a), Clean(a, b), NoEnd(a, b - 1)
      PROVE  /\ packageFrame' = SubSeq(Line, a, b)
             /\ rpc' = IF Line[b] = PackageEndIndex THEN "escape" ELSE "join"
  <2>1. s = b
    <3> SUFFICES ASSUME s < b PROVE FALSE
      BY <1>5
    <3>1. b - 1 \in lost
      BY <1>3, <1>5
    <3>2. CASE a = b
      BY <1>5, <1>7, <3>1, <3>2 DEF Clean
    <3>3. CASE a # b
      <4>1. b - 1 \in a..b
        BY <1>5, <3>3
      <4> QED BY <1>7, <3>1, <4>1 DEF Clean
    <3> QED BY <3>2, <3>3
  <2>2. Clean(a, b - 1)
    <3>1. \A i \in a..(b - 1) : i \in a..b
      BY <1>5
    <3> QED BY <1>7, <3>1 DEF Clean
  <2>3. packageFrame = SubSeq(Line, a, b - 1)
    BY <1>1, <1>7, <2>1, <2>2 DEF JoinedAsSent
  <2>4. /\ SubSeq(Line, a, b) = Append(SubSeq(Line, a, b - 1), Line[b])
        /\ a < b => packageFrame # <<>>
        /\ a = b => packageFrame = <<>>
    BY <1>5, <2>3, FrameGrows
  <2>5. /\ parseState = "HEAD" => packageFrame = <<>>
        /\ parseState = "DATA" => packageFrame # <<>>
    BY DEF TypeInv, IInv, FrameShape
  <2>6. CASE a = b
    <3>1. Line[b] = PackageStartIndex /\ parseState = "HEAD"
      BY <1>2, <1>5, <1>7, <2>4, <2>5, <2>6, GatewayAssumption
    <3>2. packageFrame' = Append(packageFrame, Line[b]) /\ rpc' = rpc
      BY <1>1, <1>5, <3>1 DEF Join
    <3> QED BY <1>1, <2>3, <2>4, <3>1, <3>2 DEF PackageStartIndex, PackageEndIndex
  <2>7. CASE a # b
    <3>1. parseState = "DATA"
      BY <1>2, <1>5, <2>4, <2>5, <2>7
    <3>2. packageFrame' = Append(packageFrame, Line[b])
          /\ rpc' = IF Line[b] = PackageEndIndex THEN "escape" ELSE rpc
      BY <1>1, <1>5, <3>1 DEF Join
    <3> QED BY <1>1, <2>3, <2>4, <3>2
  <2> QED BY <2>6, <2>7
<1>8. ASSUME rpc' # "escape", Line[b] = PackageEndIndex
      PROVE  packageFrame' = <<>>
  <2>1. parseState = "HEAD"
    BY <1>1, <1>2, <1>5, <1>8 DEF Join
  <2>2. packageFrame' = packageFrame
    BY <1>1, <1>5, <1>8, <2>1 DEF Join, PackageStartIndex, PackageEndIndex
  <2> QED BY <2>1, <2>2 DEF TypeInv, IInv, FrameShape
<1>9. rpc' = "escape" => Line[b] = PackageEndIndex
  BY <1>1, <1>2, <1>5 DEF Join
<1> QED BY <1>3, <1>5, <1>6, <1>7, <1>8, <1>9

LEMMA JoinKeepsStream ==
    ASSUME TypeInv, StreamInv, JoinPackage
    PROVE  StreamInv'
<1>1. PICK s \in Nat, b \in Nat :
         /\ Positions(s, b) /\ JoinedAsSent(s) /\ EscapedAsSent(s) /\ QueueInv(Queued(s))
  BY DEF StreamInv
<1>2. /\ b \in 1..Len(Line) /\ b \notin lost /\ s \in 1..b
      /\ Positions(b + 1, b + 1)'
      /\ \A i \in s..(b - 1) : i \in lost
      /\ \A a \in 1..b : Begins(a) /\ Clean(a, b) /\ NoEnd(a, b - 1) =>
            /\ packageFrame' = SubSeq(Line, a, b)
            /\ rpc' = IF Line[b] = PackageEndIndex THEN "escape" ELSE "join"
      /\ rpc' # "escape" /\ Line[b] = PackageEndIndex => packageFrame' = <<>>
      /\ rpc' = "escape" => Line[b] = PackageEndIndex
  BY <1>1, ByteStep
<1>3. /\ rpc = "join" /\ UNCHANGED <<lost, recvQueue, packageString, events>>
      /\ \A a, z : Clean(a, z)' <=> Clean(a, z)
  BY DEF JoinPackage, handler, Clean
<1>4. Len(Line) \in Nat /\ Line \in Seq(Byte)
  BY LineIsBytes
<1> PICK c \in Nat : c = b + 1 /\ c - 1 = b
  <2>1. b + 1 \in Nat /\ (b + 1) - 1 = b
    OBVIOUS
  <2> QED BY <2>1
<1>5. JoinedAsSent(c)'
  <2> SUFFICES ASSUME rpc' # "escape", NEW a \in 1..c, Begins(a), Clean(a, b), NoEnd(a, b)
               PROVE  packageFrame' = SubSeq(Line, a, b)
    BY <1>3 DEF JoinedAsSent
  <2>1. CASE a = c
    <3>1. Line[b] = PackageEndIndex
      BY <1>2, <2>1 DEF Begins
    <3>2. SubSeq(Line, a, b) = <<>>
      <4>1. a \in Int /\ b \in Int /\ b < a
        BY <2>1
      <4> QED BY <4>1, SubSeqEmpty
    <3> QED BY <1>2, <3>1, <3>2
  <2>2. CASE a # c
    <3>1. a \in 1..b /\ NoEnd(a, b - 1)
      BY <2>2 DEF NoEnd
    <3> QED BY <1>2, <3>1
  <2> QED BY <2>1, <2>2
<1>6. EscapedAsSent(c)'
  <2> SUFFICES ASSUME rpc' = "escape"
               PROVE  /\ b \in 1..Len(Line) /\ b \notin lost /\ Line[b] = PackageEndIndex
                      /\ \A a \in 1..b : IsFrame(a, b) /\ Clean(a, b)
                            => packageFrame' = SubSeq(Line, a, b)
    BY <1>3 DEF EscapedAsSent
  <2> QED BY <1>2 DEF IsFrame, NoEnd
\* An end byte is noticed unless something of its frame has been lost.
<1>7. ASSUME NEW m \in DOMAIN Ends, NEW e \in FirstOf(m)..Ends[m],
             e >= s, e < Queued(c)', Line[e] = PackageEndIndex, Clean(FirstOf(m), e)
      PROVE  FALSE
  <2>1. FirstOf(m) \in Nat \ {0} /\ e \in Nat
    BY EndsAreEnds, LineIsBytes
  <2>2. e \notin lost
    BY <1>7, <2>1 DEF Clean
  <2>3. e = b /\ rpc' # "escape"
    BY <1>2, <1>7, <2>1, <2>2 DEF Queued
  <2>4. PICK a \in FirstOf(m)..e : IsFrame(a, e)
    BY <1>7, FrameOfEnd
  <2>5. Clean(a, e)
    BY <1>7, CleanFrame
  <2>6. a \in 1..b /\ Begins(a) /\ Clean(a, b) /\ NoEnd(a, b - 1)
    BY <2>1, <2>3, <2>4, <2>5 DEF IsFrame, NoEnd
  <2> QED BY <1>2, <1>7, <2>3, <2>6
<1>8. QueueInv(Queued(c))'
  <2> PICK t \in {b, c} : t = Queued(c)'
    BY DEF Queued
  <2>1. \A st : Yields(st) => Yields(st)'
    BY <1>3 DEF Yields
  <2>2. ASSUME NEW z, StringIsSaid(s, z)
        PROVE  StringIsSaid(t, z)'
    <3> SUFFICES ASSUME NEW m \in DOMAIN Ends, NEW e \in FirstOf(m)..(Ends[m] - 1),
                        e < t, Line[e] = PackageEndIndex, NoEnd(e + 1, t - 1),
                        Clean(FirstOf(m), t - 1)
                 PROVE  z = Said[e]
      BY <1>3 DEF StringIsSaid
    <3>1. /\ FirstOf(m) \in Nat \ {0} /\ Ends[m] \in Nat /\ e \in Nat /\ e \in FirstOf(m)..Ends[m]
          /\ s <= t /\ t \in Nat
      BY <1>2, EndsAreEnds, LineIsBytes
    <3>2. \A i \in FirstOf(m)..e : i \in FirstOf(m)..(t - 1)
      BY <3>1
    <3>3. Clean(FirstOf(m), e)
      BY <3>2 DEF Clean
    <3>4. e < s
      BY <1>2, <1>7, <3>1, <3>3
    <3>5. NoEnd(e + 1, s - 1) /\ Clean(FirstOf(m), s - 1)
      BY <1>2, <3>1 DEF NoEnd, Clean
    <3> QED BY <2>2, <3>4, <3>5 DEF StringIsSaid
  <2>3. Done(t)' \subseteq Done(s)
    <3> SUFFICES ASSUME NEW m \in DOMAIN Ends, Ends[m] < t, Clean(FirstOf(m), Ends[m])
                 PROVE  Ends[m] < s
      BY <1>3 DEF Done
    <3>1. /\ Ends[m] \in FirstOf(m)..Ends[m] /\ Ends[m] \in Nat
          /\ Line[Ends[m]] = PackageEndIndex
      BY EndsAreEnds, LineIsBytes
    <3> QED BY <1>2, <1>7, <3>1
  <2>4. QueueInv(s)
    BY <1>1, <1>3 DEF Queued
  <2>5. QueueInv(t)'
    BY <2>1, <2>2, <2>3, <2>4, QueueKeeps
  <2> QED BY <2>5
<1>9. Positions(c, c)'
  BY <1>2
<1> QED BY <1>5, <1>6, <1>8, <1>9 DEF StreamInv

\* What the package thread makes of the frame of a message of which nothing has
\* been lost so far.
LEMMA FrameIsHandled ==
    ASSUME NEW m \in DOMAIN Ends, NEW e \in FirstOf(m)..Ends[m], Line[e] = PackageEndIndex,
           Clean(FirstOf(m), e), NEW z, NEW w, StringIsSaid(e, z), NEW f,
           \A a \in 1..e : IsFrame(a, e) /\ Clean(a, e) => f = SubSeq(Line, a, e)
    PROVE  IF e = Ends[m] THEN HandledOf(PackageEscape(f), <<z, w>>)[2] = Append(w, Sent[m])
                          ELSE HandledOf(PackageEscape(f), <<z, w>>) = <<Said[e], w>>
<1> DEFINE p == PackageEscape(f)
<1>1. /\ FirstOf(m) \in Nat \ {0} /\ Ends[m] \in Nat /\ e \in Nat /\ e <= Ends[m]
      /\ FirstOf(m) <= e
  BY EndsAreEnds, LineIsBytes
<1>2. PICK a \in FirstOf(m)..e : IsFrame(a, e)
  BY FrameOfEnd
<1>3. a \in 1..e /\ Clean(a, e) /\ a \in Nat /\ FirstOf(m) <= a
  BY <1>1, <1>2, CleanFrame
<1>4. f = SubSeq(Line, a, e)
  BY <1>2, <1>3
<1>5. Spells(m, a, e, p)
  <2>1. a \in FirstOf(m)..Ends[m] /\ e \in FirstOf(m)..Ends[m] /\ a <= e
    BY <1>1, <1>3
  <2> QED BY <1>2, <1>4, <2>1, GatewayAssumption
<1>6. Sent[m] = Said[Ends[m]]
  BY DEF Sent
<1> HIDE DEF p
<1>7. CASE a = FirstOf(m)
  <2>1. PackageIndex(p) = (IF e = Ends[m] THEN {0} ELSE {1}) /\ Said[e] = p
    BY <1>5, <1>7 DEF Spells
  <2>2. CASE e = Ends[m]
    <3>1. 0 \in PackageIndex(p)
      BY <2>1, <2>2
    <3> QED BY <1>6, <2>1, <2>2, <3>1 DEF HandledOf, p
  <2>3. CASE e # Ends[m]
    <3>1. PackageIndex(p) = {1}
      BY <2>1, <2>3
    <3>2. 1 \in PackageIndex(p) /\ 0 \notin PackageIndex(p)
      BY <3>1
    <3> QED BY <2>1, <2>3, <3>2 DEF HandledOf, p
  <2> QED BY <2>2, <2>3
<1>8. CASE a # FirstOf(m)
  <2>1. PackageIndex(p) = (IF e = Ends[m] THEN {3} ELSE {2})
        /\ Said[e] = Said[a - 1] \o RemainingString(p)
    BY <1>5, <1>8 DEF Spells
  <2>2. z = Said[a - 1]
    <3> PICK d \in Nat : d = a - 1 /\ d + 1 = a
      BY <1>1, <1>3
    <3>1. d \in FirstOf(m)..(Ends[m] - 1) /\ d < e /\ a # 1
      BY <1>1, <1>3, <1>8
    <3>2. Line[d] = PackageEndIndex /\ NoEnd(d + 1, e - 1)
      BY <1>2, <3>1 DEF IsFrame, Begins, NoEnd
    <3>3. Clean(FirstOf(m), e - 1)
      BY <1>1 DEF Clean
    <3> QED BY <3>1, <3>2, <3>3 DEF StringIsSaid
  <2>3. CASE e = Ends[m]
    <3>1. PackageIndex(p) = {3}
      BY <2>1, <2>3
    <3>2. 3 \in PackageIndex(p) /\ \A i \in 0..2 : i \notin PackageIndex(p)
      BY <3>1
    <3>3. HandledOf(p, <<z, w>>) = <<<<>>, Append(w, z \o RemainingString(p))>>
      BY <3>2 DEF HandledOf
    <3>4. z \o RemainingString(p) = Sent[m]
      BY <1>6, <2>1, <2>2, <2>3
    <3>5. HandledOf(p, <<z, w>>) = <<<<>>, Append(w, Sent[m])>>
      BY <3>3, <3>4
    <3>6. HandledOf(p, <<z, w>>)[2] = Append(w, Sent[m])
      <4> PICK x : x = Append(w, Sent[m])
        OBVIOUS
      <4>1. <<<<>>, x>>[2] = x
        OBVIOUS
      <4> QED BY <3>5, <4>1
    <3> QED BY <2>3, <3>6 DEF p
  <2>4. CASE e # Ends[m]
    <3>1. PackageIndex(p) = {2}
      BY <2>1, <2>4
    <3>2. 2 \in PackageIndex(p) /\ \A i \in 0..1 : i \notin PackageIndex(p)
      BY <3>1
    <3>3. HandledOf(p, <<z, w>>) = <<z \o RemainingString(p), w>>
      BY <3>2 DEF HandledOf
    <3> QED BY <2>1, <2>2, <2>4, <3>3 DEF p
  <2> QED BY <2>3, <2>4
<1> QED BY <1>7, <1>8

\* Packages handled later leave the earlier ones as they are.
LEMMA EventsGrow ==
    ASSUME NEW t, NEW S, NEW w \in Seq(S), NEW x \in S, EventsHave(t, w)
    PROVE  EventsHave(t, Append(w, x))
<1>1. PICK at \in [Done(t) -> DOMAIN w] :
         /\ \A m \in Done(t) : w[at[m]] = Sent[m]
         /\ \A m, n \in Done(t) : m < n => at[m] < at[n]
  BY DEF EventsHave
<1> DEFINE v == Append(w, x)
<1>2. DOMAIN w \subseteq DOMAIN v /\ \A i \in DOMAIN w : v[i] = w[i]
  OBVIOUS
<1> HIDE DEF v
<1>3. at \in [Done(t) -> DOMAIN v] /\ \A m \in Done(t) : v[at[m]] = Sent[m]
  BY <1>1, <1>2
<1> QED BY <1>1, <1>3 DEF EventsHave, v

\* The message that ends at position e comes after all that are done before.
LEMMA EventsTakeNext ==
    ASSUME NEW S, NEW w \in Seq(S), NEW k \in DOMAIN Ends, Sent[k] \in S,
           EventsHave(Ends[k], w)
    PROVE  EventsHave(Ends[k] + 1, Append(w, Sent[k]))
<1> DEFINE e == Ends[k]
           v == Append(w, Sent[k])
           n == Len(w)
<1>1. PICK at \in [Done(e) -> DOMAIN w] :
         /\ \A m \in Done(e) : w[at[m]] = Sent[m]
         /\ \A m, l \in Done(e) : m < l => at[m] < at[l]
  BY DEF EventsHave
<1>2. /\ n \in Nat /\ DOMAIN w = 1..n /\ DOMAIN v = 1..(n + 1) /\ v[n + 1] = Sent[k]
      /\ \A i \in 1..n : v[i] = w[i]
  OBVIOUS
<1>3. \A m \in Done(e + 1) : m # k => m \in Done(e) /\ m < k
  <2> SUFFICES ASSUME NEW m \in DOMAIN Ends, m # k, Ends[m] < e + 1
               PROVE  Ends[m] < e /\ m < k
    BY DEF Done
  <2>1. m \in Nat /\ k \in Nat /\ Ends[m] \in Nat /\ Ends[k] \in Nat
    BY EndsAreEnds, LineIsBytes
  <2>2. /\ m < k => Ends[m] < Ends[k]
        /\ k < m => Ends[k] < Ends[m]
    BY LineAssumption
  <2> QED BY <2>1, <2>2
<1> HIDE DEF v, n
<1> DEFINE at2 == [m \in Done(e + 1) |-> IF m = k THEN n + 1 ELSE at[m]]
<1>4. at2 \in [Done(e + 1) -> DOMAIN v]
  <2>1. \A m \in Done(e + 1) : m # k => at[m] \in 1..n
    BY <1>1, <1>2, <1>3
  <2>2. \A m \in Done(e + 1) : (IF m = k THEN n + 1 ELSE at[m]) \in 1..(n + 1)
    BY <1>2, <2>1
  <2> QED BY <1>2, <2>2
<1>5. \A m \in Done(e + 1) : v[at2[m]] = Sent[m]
  BY <1>1, <1>2, <1>3
<1>6. ASSUME NEW m \in Done(e + 1), NEW l \in Done(e + 1), m < l
      PROVE  at2[m] < at2[l]
  <2>1. m \in Nat /\ l \in Nat /\ k \in Nat
    BY EndsAreEnds DEF Done
  <2>2. m # k
    BY <1>3, <1>6, <2>1
  <2>3. m \in Done(e) /\ at2[m] = at[m] /\ at[m] \in 1..n
    BY <1>1, <1>2, <1>3, <2>2
  <2>4. CASE l = k
    BY <1>2, <2>3, <2>4
  <2>5. CASE l # k
    BY <1>1, <1>3, <1>6, <2>3, <2>5
  <2> QED BY <2>4, <2>5
<1> HIDE DEF at2, e
<1>7. EventsHave(e + 1, v)
  BY <1>4, <1>5, <1>6 DEF EventsHave
<1> QED BY <1>7 DEF e, v

\* The frame that is queued is the next of its message.
LEMMA PushKeepsStream ==
    ASSUME TypeInv, StreamInv, PushPackage
    PROVE  StreamInv'
<1>1. PICK s \in Nat, b \in Nat :
         /\ Positions(s, b) /\ JoinedAsSent(s) /\ EscapedAsSent(s) /\ QueueInv(Queued(s))
  BY DEF StreamInv
<1>2. /\ rpc = "escape" /\ rpc' = "notify" /\ packageFrame' = <<>>
      /\ recvQueue' = Append(recvQueue, PackageEscape(packageFrame))
      /\ UNCHANGED <<next, lost, buffer, packageString, events>>
      /\ \A a, d : Clean(a, d)' <=> Clean(a, d)
  BY DEF PushPackage, handler, Clean
<1> PICK e \in Int : e = s - 1 /\ s = e + 1
  <2>1. s - 1 \in Int /\ s = (s - 1) + 1
    OBVIOUS
  <2> QED BY <2>1
<1>3. /\ e \in 1..Len(Line) /\ Line[e] = PackageEndIndex
      /\ \A a \in 1..e : IsFrame(a, e) /\ Clean(a, e) => packageFrame = SubSeq(Line, a, e)
  BY <1>1, <1>2 DEF EscapedAsSent
<1>4. Len(Line) \in Nat /\ e \in Nat
  BY <1>3, LineIsBytes
<1>5. Positions(s, b)'
  BY <1>1, <1>2 DEF Positions
<1>6. EscapedAsSent(s)'
  BY <1>2 DEF EscapedAsSent
<1>7. JoinedAsSent(s)'
  <2> SUFFICES ASSUME NEW a \in 1..s, NoEnd(a, e)
               PROVE  packageFrame' = SubSeq(Line, a, e)
    BY DEF JoinedAsSent
  <2>1. ~(a <= e)
    BY <1>3, <1>4 DEF NoEnd
  <2>2. a \in Int /\ e < a
    BY <1>4, <2>1
  <2> QED BY <1>2, <2>2, SubSeqEmpty
<1> PICK p : p = PackageEscape(packageFrame)
  OBVIOUS
<1>8. p \in Seq(Byte) /\ recvQueue \in Seq(Seq(Byte))
  <2>1. packageFrame \in Seq(Byte) /\ EscapesAreWhole(packageFrame)
    BY <1>2, ShapeIsWhole
       DEF TypeInv, EscapeStaysInFrame, EscapesAreWhole, IInv, ReceiverTypeOK
  <2> QED BY <2>1, PackageIsBytes DEF TypeInv, HandlerTypeOK
<1>9. PICK z \in Seq(Byte), w \in Seq(Seq(Byte)) :
         Yields(<<z, w>>) /\ StringIsSaid(e, z) /\ EventsHave(e, w)
  <2>1. QueueInv(e)
    BY <1>1, <1>2 DEF Queued
  <2> QED BY <2>1 DEF QueueInv
<1>10. PICK y \in Seq(Byte), v \in Seq(Seq(Byte)) : HandledOf(p, <<z, w>>) = <<y, v>>
  BY <1>8, HandledTypes
<1>11. Yields(<<y, v>>)'
  <2> PICK st : st = <<z, w>>
    OBVIOUS
  <2>1. Yields(HandledOf(p, st))'
    BY <1>2, <1>8, <1>9, QueueYields
  <2> PICK st2 : st2 = <<y, v>>
    OBVIOUS
  <2>2. HandledOf(p, st) = st2
    BY <1>10
  <2>3. Yields(st2)'
    BY <2>1, <2>2
  <2> QED BY <2>3
<1>12. ASSUME NEW m \in DOMAIN Ends, e \in FirstOf(m)..Ends[m], Clean(FirstOf(m), e)
       PROVE  IF e = Ends[m] THEN v = Append(w, Sent[m]) ELSE y = Said[e]
  <2>1. IF e = Ends[m] THEN HandledOf(p, <<z, w>>)[2] = Append(w, Sent[m])
                       ELSE HandledOf(p, <<z, w>>) = <<Said[e], w>>
    BY <1>3, <1>9, <1>12, FrameIsHandled
  <2>2. CASE e = Ends[m]
    <3>1. <<y, v>>[2] = Append(w, Sent[m])
      BY <1>10, <2>1, <2>2
    <3> QED BY <2>2, <3>1
  <2>3. CASE e # Ends[m]
    <3>1. <<y, v>> = <<Said[e], w>>
      BY <1>10, <2>1, <2>3
    <3> QED BY <2>3, <3>1
  <2> QED BY <2>2, <2>3
<1>13. StringIsSaid(s, y)
  <2> SUFFICES ASSUME NEW m \in DOMAIN Ends, NEW d \in FirstOf(m)..(Ends[m] - 1), d < s,
                      NoEnd(d + 1, e), Clean(FirstOf(m), e)
               PROVE  y = Said[d]
    BY DEF StringIsSaid
  <2>1. FirstOf(m) \in Nat \ {0} /\ Ends[m] \in Nat /\ d \in Nat
    BY EndsAreEnds, LineIsBytes
  <2>2. ~(d + 1 <= e)
    BY <1>3, <1>4, <2>1 DEF NoEnd
  <2>3. d = e /\ e \in FirstOf(m)..Ends[m] /\ e # Ends[m]
    BY <1>4, <2>1, <2>2
  <2> QED BY <1>12, <2>3
<1>14. EventsHave(s, v)
  <2>1. CASE \E k \in DOMAIN Ends : Ends[k] = e /\ Clean(FirstOf(k), e)
    <3>1. PICK k \in DOMAIN Ends : Ends[k] = e /\ Clean(FirstOf(k), e)
      BY <2>1
    <3>2. e \in FirstOf(k)..Ends[k]
      BY <3>1, EndsAreEnds, LineIsBytes
    <3>3. v = Append(w, Sent[k])
      BY <1>12, <3>1, <3>2
    <3>4. Sent[k] \in Seq(Byte)
      <4>1. DOMAIN v = 1..(Len(w) + 1) /\ v[Len(w) + 1] = Sent[k] /\ Len(w) \in Nat
        BY <3>3
      <4> QED BY <4>1
    <3> QED BY <1>9, <3>1, <3>3, <3>4, EventsTakeNext
  <2>2. CASE ~\E k \in DOMAIN Ends : Ends[k] = e /\ Clean(FirstOf(k), e)
    <3>1. Done(s) = Done(e)
      <4>1. \A m \in DOMAIN Ends : Ends[m] \in Nat
        BY EndsAreEnds, LineIsBytes
      <4>2. \A m \in DOMAIN Ends : Clean(FirstOf(m), Ends[m]) => Ends[m] # e
        BY <2>2
      <4>3. \A m \in DOMAIN Ends : Clean(FirstOf(m), Ends[m]) => (Ends[m] < s <=> Ends[m] < e)
        <5> SUFFICES ASSUME NEW m \in DOMAIN Ends, Ends[m] # e
                     PROVE  Ends[m] < s <=> Ends[m] < e
          BY <4>2
        <5>1. Ends[m] \in Nat
          BY <4>1
        <5> QED BY <1>4, <5>1
      <4> QED BY <4>3 DEF Done
    <3>2. EventsHave(s, w)
      BY <1>9, <3>1 DEF EventsHave
    <3>3. z \o RemainingString(p) \in Seq(Byte)
      BY <1>8, RemainingIsBytes
    <3>4. v \in {w, Append(w, p), Append(w, z \o RemainingString(p))}
      BY <1>10 DEF HandledOf
    <3> QED BY <1>8, <3>2, <3>3, <3>4, EventsGrow
  <2> QED BY <2>1, <2>2
<1>15. StringIsSaid(s, y)' /\ EventsHave(s, v)'
  <2>1. Done(s)' = Done(s)
    BY <1>2 DEF Done
  <2> QED BY <1>2, <1>13, <1>14, <2>1 DEF StringIsSaid, EventsHave
<1>16. QueueInv(Queued(s))'
  <2>1. QueueInv(s)'
    BY <1>11, <1>15 DEF QueueInv
  <2>2. Queued(s)' = s
    BY <1>2 DEF Queued
  <2> PICK t : t = Queued(s)'
    OBVIOUS
  <2>3. QueueInv(t)'
    BY <2>1, <2>2
  <2> QED BY <2>3
<1> QED BY <1>5, <1>6, <1>7, <1>16 DEF StreamInv

\* What is queued yields the same when the package at the front has been handled.
LEMMA HandleKeepsStream ==
    ASSUME TypeInv, StreamInv, PackageHandel \/ HandlerBlocks
    PROVE  StreamInv'
<1>1. PICK s \in Nat, b \in Nat :
         /\ Positions(s, b) /\ JoinedAsSent(s) /\ EscapedAsSent(s) /\ QueueInv(Queued(s))
  BY DEF StreamInv
<1>2. /\ UNCHANGED <<next, lost, buffer, rpc, packageFrame>>
      /\ \A a, d : Clean(a, d)' <=> Clean(a, d)
  BY DEF PackageHandel, HandlerBlocks, receiver, Clean
<1>3. Positions(s, b)' /\ JoinedAsSent(s)' /\ EscapedAsSent(s)' /\ Queued(s)' = Queued(s)
  BY <1>1, <1>2 DEF Positions, JoinedAsSent, EscapedAsSent, Queued
<1>4. QueueInv(Queued(s))'
  <2> PICK t : t = Queued(s)
    OBVIOUS
  <2>1. ASSUME NEW st, Yields(st) PROVE Yields(st)'
    BY <2>1, HandlingYields DEF TypeInv, HandlerTypeOK
  <2>2. \A z : StringIsSaid(t, z) => StringIsSaid(t, z)'
    BY <1>2 DEF StringIsSaid
  <2>3. Done(t)' \subseteq Done(t)
    BY <1>2 DEF Done
  <2>4. QueueInv(t)'
    BY <1>1, <2>1, <2>2, <2>3, QueueKeeps
  <2> QED BY <1>3, <2>4
<1> QED BY <1>3, <1>4 DEF StreamInv

\* A notification and a wait touch neither the line nor the queue.
LEMMA OthersKeepStream ==
    ASSUME TypeInv, StreamInv, NotifyOne \/ WaitForPackage \/ UNCHANGED vars
    PROVE  StreamInv'
<1>1. PICK s \in Nat, b \in Nat :
         /\ Positions(s, b) /\ JoinedAsSent(s) /\ EscapedAsSent(s) /\ QueueInv(Queued(s))
  BY DEF StreamInv
<1>2. /\ UNCHANGED <<next, lost, buffer, packageFrame, recvQueue, packageString, events>>
      /\ \A a, d : Clean(a, d)' <=> Clean(a, d)
      /\ (rpc = "escape") = (rpc' = "escape")
  BY DEF NotifyOne, WaitForPackage, vars, receiver, handler, Clean
<1>3. Positions(s, b)' /\ JoinedAsSent(s)' /\ EscapedAsSent(s)' /\ Queued(s)' = Queued(s)
  BY <1>1, <1>2 DEF Positions, JoinedAsSent, EscapedAsSent, Queued
<1>4. QueueInv(Queued(s))'
  <2> PICK t : t = Queued(s)
    OBVIOUS
  <2>1. \A st : Yields(st) => Yields(st)'
    BY <1>2 DEF Yields
  <2>2. \A z : StringIsSaid(t, z) => StringIsSaid(t, z)'
    BY <1>2 DEF StringIsSaid
  <2>3. Done(t)' \subseteq Done(t)
    BY <1>2 DEF Done
  <2>4. QueueInv(t)'
    BY <1>1, <2>1, <2>2, <2>3, QueueKeeps
  <2> QED BY <1>3, <2>4
<1> QED BY <1>3, <1>4 DEF StreamInv

LEMMA StreamStep == TypeInv /\ StreamInv /\ [Next]_vars => StreamInv'
BY LossKeeps, ReadKeepsStream, JoinKeepsStream, PushKeepsStream, HandleKeepsStream,
   OthersKeepStream DEF Next, ReceiveThread, PackageHandleThread

-----------------------------------------------------------------------------
LEMMA MessageOfByte ==
    ASSUME NEW m \in DOMAIN Ends, NEW i \in FirstOf(m)..Ends[m]
    PROVE  MessageOf(i) = m
<1> DEFINE Holds(k) == i <= Ends[k] /\ \A j \in 1..(k - 1) : Ends[j] < i
<1>1. /\ DOMAIN Ends = 1..Len(Ends) /\ Len(Ends) \in Nat
      /\ \A k \in DOMAIN Ends : k \in Nat \ {0} /\ Ends[k] \in Nat /\ FirstOf(k) \in Nat
  <2>1. DOMAIN Ends = 1..Len(Ends) /\ Len(Ends) \in Nat
    BY LineAssumption
  <2> QED BY <2>1, EndsAreEnds, LineIsBytes
<1>2. \A k, l \in DOMAIN Ends : k < l => Ends[k] < Ends[l]
  BY LineAssumption
<1>3. i \in Nat /\ FirstOf(m) <= i /\ i <= Ends[m]
  BY <1>1
<1>4. Holds(m)
  <2> SUFFICES ASSUME NEW j \in 1..(m - 1)
               PROVE  Ends[j] < i
    BY <1>3
  <2>1. j \in DOMAIN Ends /\ m - 1 \in DOMAIN Ends /\ m # 1 /\ j <= m - 1 /\ j \in Nat
    BY <1>1
  <2>2. FirstOf(m) = Ends[m - 1] + 1
    BY <2>1, EndsAreEnds
  <2>3. j < m - 1 => Ends[j] < Ends[m - 1]
    BY <1>2, <2>1
  <2> QED BY <1>1, <1>3, <2>1, <2>2, <2>3
<1>5. ASSUME NEW k \in DOMAIN Ends, Holds(k)
      PROVE  k = m
  <2>1. CASE k < m
    <3>1. k \in 1..(m - 1)
      BY <1>1, <2>1
    <3> QED BY <1>1, <1>3, <1>4, <1>5, <3>1
  <2>2. CASE m < k
    <3>1. m \in 1..(k - 1)
      BY <1>1, <2>2
    <3> QED BY <1>1, <1>3, <1>5, <3>1
  <2> QED BY <1>1, <2>1, <2>2
<1> HIDE DEF Holds
<1>6. MessageOf(i) = CHOOSE k \in DOMAIN Ends : Holds(k)
  BY DEF MessageOf, Holds
<1> QED BY <1>4, <1>5, <1>6

\* Of a message that is whole, after a whole end, nothing has been lost.
LEMMA ShelteredIsClean ==
    ASSUME NEW m \in DOMAIN Ends, Stream!Sheltered(m)
    PROVE  Clean(FirstOf(m), Ends[m])
<1>1. m \notin Damaged /\ m - 1 \notin Cut
  BY DEF Stream!Sheltered
<1>2. ASSUME NEW i \in FirstOf(m)..Ends[m], i \in lost
      PROVE  FALSE
  <2>1. MessageOf(i) \in Damaged
    BY <1>2 DEF Damaged
  <2> QED BY <1>1, <2>1, MessageOfByte
<1>3. CASE m = 1
  BY <1>2, <1>3 DEF Clean, FirstOf
<1>4. CASE m # 1
  <2>1. m - 1 \in DOMAIN Ends /\ FirstOf(m) = Ends[m - 1] + 1 /\ Ends[m - 1] \in Nat
    BY <1>4, EndsAreEnds, LineIsBytes
  <2>2. FirstOf(m) - 1 \notin lost
    BY <1>1, <2>1 DEF Cut
  <2> QED BY <1>2, <2>2 DEF Clean
<1> QED BY <1>3, <1>4

LEMMA ShelteredFollows == TypeInv /\ StreamInv => ShelteredAreHandledInOrder
<1> SUFFICES ASSUME TypeInv, StreamInv, rpc = "join", buffer = <<>>, recvQueue = <<>>
             PROVE  \E at \in [Arrived -> DOMAIN events] :
                       /\ \A m \in Arrived : events[at[m]] = Sent[m]
                       /\ \A m, n \in Arrived : m < n => at[m] < at[n]
  BY DEF ShelteredAreHandledInOrder
<1>1. PICK s \in Nat, b \in Nat :
         /\ Positions(s, b) /\ JoinedAsSent(s) /\ EscapedAsSent(s) /\ QueueInv(Queued(s))
  BY DEF StreamInv
<1>2. Queued(s) = s /\ Len(buffer) = 0 /\ Len(recvQueue) = 0
  BY DEF Queued
<1>3. PICK z \in Seq(Byte), w \in Seq(Seq(Byte)) : Yields(<<z, w>>) /\ EventsHave(s, w)
  BY <1>1, <1>2 DEF QueueInv
<1>4. w = events
  <2>1. <<packageString, events>> = <<z, w>>
    BY <1>2, <1>3 DEF Yields, IsRun
  <2> QED BY <2>1
<1>5. PICK at \in [Done(s) -> DOMAIN events] :
         /\ \A m \in Done(s) : events[at[m]] = Sent[m]
         /\ \A m, n \in Done(s) : m < n => at[m] < at[n]
  BY <1>3, <1>4 DEF EventsHave
<1>6. ASSUME NEW m \in Arrived
      PROVE  m \in Done(s)
  <2>1. m \in DOMAIN Ends /\ Ends[m] < next /\ Clean(FirstOf(m), Ends[m])
    BY ShelteredIsClean DEF Arrived
  <2>2. Ends[m] \in FirstOf(m)..Ends[m] /\ Ends[m] \in Nat
    BY <2>1, EndsAreEnds, LineIsBytes
  <2>3. Ends[m] \notin lost
    BY <2>1, <2>2 DEF Clean
  <2>4. next \in Nat
    BY LineIsBytes DEF TypeInv, IInv, ReceiverTypeOK
  <2>5. /\ \A i \in s..(b - 1) : i \in lost
        /\ \A i \in b..(next - 1) : i \in lost
    BY <1>1, <1>2 DEF Positions
  <2>6. Ends[m] < s
    BY <2>1, <2>2, <2>3, <2>4, <2>5
  <2> QED BY <2>1, <2>6 DEF Done
<1> DEFINE at2 == [m \in Arrived |-> at[m]]
<1>7. /\ at2 \in [Arrived -> DOMAIN events]
      /\ \A m \in Arrived : events[at2[m]] = Sent[m]
      /\ \A m, n \in Arrived : m < n => at2[m] < at2[n]
  BY <1>5, <1>6
<1> HIDE DEF at2
<1> QED BY <1>7

\* Whatever the line loses and wherever the reads cut it, when all that arrived
\* has been joined and handled, every message that came whole, after a whole end,
\* has been handed to parse2Event as it was sent, and these messages in their
\* order: neither the rests of a damaged message nor what the reads cut apart
\* gets into one of them.
THEOREM ShelteredHandled == Spec => []ShelteredAreHandledInOrder
<1>1. Init => TypeInv /\ StreamInv
  BY InitIInv, HandlerInit, StreamInit DEF TypeInv
<1>2. TypeInv /\ StreamInv /\ [Next]_vars => (TypeInv /\ StreamInv)'
  BY NextIInv, HandlerNext, StreamStep DEF TypeInv
<1> QED BY <1>1, <1>2, ShelteredFollows, PTL DEF Spec
=============================================================================
