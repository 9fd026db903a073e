-------------------------- MODULE ControllerProofs --------------------------
(* Proofs about the parser of the LED controller, for every byte width,    *)
(* magic, length limit and byte stream, and about the serial line before   *)
(* it, for every set of packets, and number of packets and losses; and     *)
(* about the pictures and the waves that the controller draws, on strips   *)
(* of every length.                                                        *)
EXTENDS SerialLink, RawColors, S2LWave, SequenceTheorems, WellFoundedInduction, TLAPS

-----------------------------------------------------------------------------
(* Induction and recursion.  The library's theorem on well-founded         *)
(* relations gives a least element of a set, which is all that is needed.  *)

LEMMA NatLessIsWellFounded ==
  IsWellFoundedOn({ p \in Nat \X Nat : p[1] < p[2] }, Nat)
PROOF
<1>1. { p \in Nat \X Nat : p[1] < p[2] } = OpToRel(<, Nat)
  BY DEF OpToRel
<1> QED
  BY <1>1, NatLessThanWellFounded

(* A set that holds 0 and with every natural number the next holds all.    *)
LEMMA SetInduction ==
  ASSUME NEW T, 0 \in T, \A n \in Nat : n \in T => n + 1 \in T
  PROVE  \A n \in Nat : n \in T
PROOF
<1> DEFINE Before == { p \in Nat \X Nat : p[1] < p[2] }
           Missing == Nat \ T
<1>2. IsWellFoundedOn(Before, Nat)
  BY NatLessIsWellFounded
<1> SUFFICES ASSUME NEW n \in Nat, n \notin T PROVE FALSE
  OBVIOUS
<1>3. Missing \subseteq Nat /\ Missing # {}
  OBVIOUS
<1> HIDE DEF Before, Missing
<1>4. PICK x \in Missing : \A y \in Missing : ~ (<< y, x >> \in Before)
  BY <1>2, <1>3, WFMin, Zenon
<1>5. x \in Nat /\ x \notin T
  BY DEF Missing
<1>6. x - 1 \in Nat /\ x - 1 < x /\ (x - 1) + 1 = x
  BY <1>5
<1>7. x - 1 \in Missing
  BY <1>5, <1>6 DEF Missing
<1>8. << x - 1, x >> \in Before
  BY <1>5, <1>6 DEF Before
<1> QED
  BY <1>4, <1>7, <1>8

(* The functions that take every step of a recursion, and that there is    *)
(* one.                                                                    *)
Steppers(S, hi) == [1 .. hi -> [S -> S]]

Recursions(S, start, hi, step) ==
  { f \in [0 .. hi -> S] : f[0] = start /\ \A n \in 1 .. hi : f[n] = step[n][f[n - 1]] }

LEMMA RecursionExists ==
  ASSUME NEW S, NEW start \in S, NEW hi \in Nat, NEW step \in Steppers(S, hi)
  PROVE  \E f : f \in Recursions(S, start, hi, step)
PROOF
<1> DEFINE Value(f, n) == IF n = 0 THEN start ELSE step[n][f[n - 1]]
           Built(m) == { f \in [0 .. m -> S] : \A n \in 0 .. m : f[n] = Value(f, n) }
           T == { m \in Nat : m <= hi => Built(m) # {} }
<1>0. step \in [1 .. hi -> [S -> S]]
  BY DEF Steppers
<1>1. 0 \in T
  <2> DEFINE f == [n \in 0 .. 0 |-> start]
  <2>1. f \in [0 .. 0 -> S] /\ \A n \in 0 .. 0 : f[n] = Value(f, n)
    OBVIOUS
  <2> QED
    BY <2>1
<1>2. ASSUME NEW m \in Nat, m \in T PROVE m + 1 \in T
  <2> SUFFICES ASSUME m + 1 <= hi PROVE Built(m + 1) # {}
    OBVIOUS
  <2>1. PICK f \in [0 .. m -> S] : \A n \in 0 .. m : f[n] = Value(f, n)
    BY <1>2
  <2> DEFINE last == step[m + 1][f[m]]
             g == [n \in 0 .. m + 1 |-> IF n = m + 1 THEN last ELSE f[n]]
  <2>2. last \in S
    <3>1. f[m] \in S /\ m + 1 \in 1 .. hi
      BY <2>1
    <3> QED
      BY <1>0, <3>1
  <2>3. g \in [0 .. m + 1 -> S]
    <3> HIDE DEF last
    <3> QED
      BY <2>1, <2>2
  <2>4. \A n \in 0 .. m + 1 : g[n] = Value(g, n)
    <3> SUFFICES ASSUME NEW n \in 0 .. m + 1 PROVE g[n] = Value(g, n)
      OBVIOUS
    <3>1. CASE n = m + 1
      <4>1. g[n] = last /\ n # 0 /\ n - 1 = m
        BY <3>1
      <4>2. g[m] = f[m]
        OBVIOUS
      <4> QED
        BY <3>1, <4>1, <4>2
    <3>2. CASE n # m + 1 /\ n # 0
      <4>1. g[n] = f[n] /\ n \in 0 .. m
        BY <3>2
      <4>2. n - 1 \in 0 .. m + 1 /\ n - 1 # m + 1
        BY <3>2
      <4>3. g[n - 1] = f[n - 1]
        BY <4>2
      <4>4. f[n] = Value(f, n)
        BY <2>1, <4>1
      <4> QED
        BY <3>2, <4>1, <4>3, <4>4
    <3>3. CASE n = 0
      <4>1. g[n] = f[n] /\ n \in 0 .. m
        BY <3>3
      <4>2. f[n] = Value(f, n)
        BY <2>1, <4>1
      <4> QED
        BY <3>3, <4>1, <4>2
    <3> QED
      BY <3>1, <3>2, <3>3
  <2>5. g \in Built(m + 1)
    <3> HIDE DEF g, Value
    <3> QED
      BY <2>3, <2>4
  <2> QED
    BY <2>5
<1>3. hi \in T
  <2> HIDE DEF T
  <2> QED
    BY <1>1, <1>2, SetInduction
<1>4. PICK f \in [0 .. hi -> S] : \A n \in 0 .. hi : f[n] = Value(f, n)
  BY <1>3
<1>5. f[0] = start /\ \A n \in 1 .. hi : f[n] = step[n][f[n - 1]]
  <2>1. f[0] = start
    BY <1>4
  <2>2. ASSUME NEW n \in 1 .. hi PROVE f[n] = step[n][f[n - 1]]
    <3>1. n \in 0 .. hi /\ n # 0
      OBVIOUS
    <3> QED
      BY <1>4, <3>1
  <2> QED
    BY <2>1, <2>2
<1> QED
  BY <1>5 DEF Recursions

-----------------------------------------------------------------------------
(* The checksum.                                                           *)

(* A running sum of naturals stays below its modulus once it has moved.    *)
LEMMA RunningSumBounded ==
  ASSUME NEW start \in Nat, NEW data, Len(data) \in Nat,
         \A n \in 1 .. Len(data) : data[n] \in Nat
  PROVE  \A n \in 0 .. Len(data) :
           /\ RunningSum(start, data)[n] \in Nat
           /\ RunningSum(start, data)[n] < AdlerMod \/ RunningSum(start, data)[n] = start
PROOF
<1> DEFINE hi == Len(data)
           step == [n \in 1 .. hi |-> [v \in Nat |-> (v + data[n]) % AdlerMod]]
           Sums(f) == f = [n \in 0 .. hi |->
                             IF n = 0 THEN start ELSE (f[n - 1] + data[n]) % AdlerMod]
<1>0. hi \in Nat
  OBVIOUS
<1>1. step \in Steppers(Nat, hi)
  <2> SUFFICES ASSUME NEW v \in Nat, NEW n \in 1 .. hi
               PROVE  (v + data[n]) % AdlerMod \in Nat
    BY DEF Steppers
  <2>1. v + data[n] \in Nat
    OBVIOUS
  <2> QED
    BY <2>1, FrameAssumption
<1>2. PICK f \in [0 .. hi -> Nat] :
        f[0] = start /\ \A n \in 1 .. hi : f[n] = step[n][f[n - 1]]
  <2> HIDE DEF step, hi
  <2>1. \E f : f \in Recursions(Nat, start, hi, step)
    BY <1>0, <1>1, RecursionExists
  <2> QED
    BY <2>1 DEF Recursions
<1>3. Sums(f)
  <2>1. ASSUME NEW n \in 1 .. hi PROVE f[n] = (f[n - 1] + data[n]) % AdlerMod
    <3> HIDE DEF hi
    <3>1. n - 1 \in 0 .. hi
      BY <1>0
    <3>2. f[n - 1] \in Nat
      BY <3>1
    <3>3. step[n][f[n - 1]] = (f[n - 1] + data[n]) % AdlerMod
      BY <3>2
    <3> QED
      BY <1>2, <3>3
  <2>2. \A n \in 0 .. hi :
          f[n] = IF n = 0 THEN start ELSE (f[n - 1] + data[n]) % AdlerMod
    <3> SUFFICES ASSUME NEW n \in 0 .. hi
                 PROVE  f[n] = IF n = 0 THEN start ELSE (f[n - 1] + data[n]) % AdlerMod
      OBVIOUS
    <3> HIDE DEF step, hi
    <3>1. n = 0 \/ n \in 1 .. hi
      BY <1>0
    <3> QED
      BY <1>2, <2>1, <3>1
  <2> HIDE DEF step
  <2> QED
    BY <2>2
<1>4. Sums(RunningSum(start, data))
  <2>1. RunningSum(start, data) = CHOOSE g : Sums(g)
    BY DEF RunningSum
  <2> HIDE DEF Sums
  <2> QED
    BY <1>3, <2>1
<1> DEFINE r == RunningSum(start, data)
           T == { n \in Nat : n <= hi => r[n] \in Nat /\ (r[n] < AdlerMod \/ r[n] = start) }
<1>5. r = [n \in 0 .. hi |-> IF n = 0 THEN start ELSE (r[n - 1] + data[n]) % AdlerMod]
  BY <1>4
<1> HIDE DEF r
<1>6. 0 \in T
  BY <1>5
<1>7. ASSUME NEW n \in Nat, n \in T PROVE n + 1 \in T
  <2> SUFFICES ASSUME n + 1 <= hi
               PROVE  r[n + 1] \in Nat /\ (r[n + 1] < AdlerMod \/ r[n + 1] = start)
    OBVIOUS
  <2>1. n + 1 \in 0 .. hi /\ n + 1 # 0 /\ (n + 1) - 1 = n /\ n + 1 \in 1 .. hi
    OBVIOUS
  <2>2. r[n + 1] = (r[n] + data[n + 1]) % AdlerMod
    BY <1>5, <2>1
  <2> DEFINE v == r[n] + data[n + 1]
  <2>3. v \in Nat
    BY <1>7, <2>1
  <2>4. r[n + 1] = v % AdlerMod
    BY <2>2
  <2> HIDE DEF v
  <2>5. v % AdlerMod \in Nat /\ v % AdlerMod < AdlerMod
    BY <2>3, FrameAssumption
  <2> QED
    BY <2>4, <2>5
<1>8. \A n \in Nat : n \in T
  <2> HIDE DEF T
  <2> QED
    BY <1>6, <1>7, SetInduction
<1> QED
  BY <1>8 DEF r

(* The checksum of any content is four bytes.                              *)
LEMMA AdlerBytes ==
  ASSUME NEW data \in Seq(Byte)
  PROVE  Adler32(data) \in Seq(Byte) /\ Len(Adler32(data)) = 4
PROOF
<1> DEFINE hi == Len(data)
           a == RunningSum(1, data)
           sums == [n \in 1 .. hi |-> a[n]]
           b == RunningSum(0, sums)
<1>1. hi \in Nat /\ \A n \in 1 .. hi : data[n] \in Nat
  BY FrameAssumption DEF Byte
<1>2. \A n \in 0 .. hi : a[n] \in Nat /\ (a[n] < AdlerMod \/ a[n] = 1)
  <2> HIDE DEF a
  <2> QED
    BY <1>1, RunningSumBounded DEF a
<1> HIDE DEF a
<1>3. Len(sums) = hi /\ \A n \in 1 .. hi : sums[n] \in Nat
  <2>1. sums \in Seq(Nat)
    BY <1>1, <1>2
  <2> QED
    BY <1>1, <1>2
<1> HIDE DEF sums, hi
<1>4. \A n \in 0 .. hi : b[n] \in Nat /\ (b[n] < AdlerMod \/ b[n] = 0)
  <2> HIDE DEF b
  <2> QED
    BY <1>1, <1>3, RunningSumBounded DEF b
<1> HIDE DEF b
<1>5. ASSUME NEW v \in Nat, v < AdlerMod \/ v = 0 \/ v = 1
      PROVE  v % Base \in Byte /\ v \div Base \in Byte
  <2>1. Base \in Nat /\ Base > 1 /\ Base * Base > 1
    BY FrameAssumption
  <2>2. v < Base * Base
    BY <1>5, <2>1, FrameAssumption
  <2>3. v % Base \in Byte
    BY <2>1 DEF Byte
  <2> DEFINE high == v \div Base
  <2>4. high \in Nat /\ v = Base * high + (v % Base) /\ v % Base >= 0
    BY <2>1
  <2>5. high < Base
    <3> SUFFICES ASSUME high >= Base PROVE FALSE
      BY <2>1, <2>4
    <3> HIDE DEF high
    <3>1. Base * high >= Base * Base
      BY <2>1, <2>4
    <3> QED
      BY <2>1, <2>2, <2>4, <3>1
  <2>6. high \in Byte
    BY <2>1, <2>4, <2>5 DEF Byte
  <2> QED
    BY <2>3, <2>6
<1>6. /\ a[hi] % Base \in Byte /\ a[hi] \div Base \in Byte
      /\ b[hi] % Base \in Byte /\ b[hi] \div Base \in Byte
  <2>1. hi \in 0 .. hi
    BY <1>1
  <2> QED
    BY <1>2, <1>4, <1>5, <2>1
<1>7. Adler32(data) = << a[hi] % Base, a[hi] \div Base, b[hi] % Base, b[hi] \div Base >>
  BY DEF Adler32, a, b, sums, hi
<1> QED
  BY <1>6, <1>7

-----------------------------------------------------------------------------
(* The parser.                                                             *)

(* Two digits read back as their number, and the number splits into them.  *)
LEMMA DigitsOfNumber ==
  ASSUME NEW lo \in Byte, NEW hi \in Byte
  PROVE  /\ lo + hi * Base \in 0 .. (Base * Base - 1)
         /\ (lo + hi * Base) % Base = lo
         /\ (lo + hi * Base) \div Base = hi
PROOF
<1> USE FrameAssumption DEF Byte
<1>1. lo + hi * Base \in 0 .. (Base * Base - 1)
  OBVIOUS
<1>2. (lo + hi * Base) \div Base = hi
  OBVIOUS
<1>3. (lo + hi * Base) % Base = lo
  OBVIOUS
<1> QED
  BY <1>1, <1>2, <1>3
(* A sequence that agrees with one sequence first and another after it is  *)
(* their concatenation.                                                    *)
LEMMA ConcatOfParts ==
  ASSUME NEW S, NEW s \in Seq(S), NEW t \in Seq(S), NEW u \in Seq(S),
         Len(u) = Len(s) + Len(t),
         \A i \in 1 .. Len(s) : u[i] = s[i],
         \A i \in 1 .. Len(t) : u[i + Len(s)] = t[i]
  PROVE  u = s \o t
PROOF
<1> DEFINE v == s \o t
<1>1. /\ v \in Seq(S)
      /\ Len(v) = Len(u)
      /\ \A i \in 1 .. Len(u) : v[i] = IF i <= Len(s) THEN s[i] ELSE t[i - Len(s)]
  BY ConcatProperties
<1> HIDE DEF v
<1>2. \A i \in 1 .. Len(u) : u[i] = v[i]
  <2> SUFFICES ASSUME NEW i \in 1 .. Len(u)
               PROVE  u[i] = v[i]
    OBVIOUS
  <2>1. CASE i <= Len(s)
    <3>1. i \in 1 .. Len(s)
      BY <2>1
    <3> QED
      BY <1>1, <2>1, <3>1
  <2>2. CASE ~(i <= Len(s))
    <3>1. /\ i - Len(s) \in 1 .. Len(t)
          /\ (i - Len(s)) + Len(s) = i
      BY <2>2
    <3> QED
      BY <1>1, <2>2, <3>1
  <2> QED
    BY <2>1, <2>2
<1>3. u = v
  BY <1>1, <1>2, SeqEqual
<1> QED
  BY <1>3 DEF v

(* Appending leaves the bytes already stored, and so the header, alone.    *)
LEMMA AppendKeepsHeader ==
  ASSUME NEW buf \in Seq(Byte), NEW b \in Byte, Len(buf) >= HeaderLen
  PROVE  /\ Append(buf, b) \in Seq(Byte)
         /\ Len(Append(buf, b)) = Len(buf) + 1
         /\ PkLen(Append(buf, b)) = PkLen(buf)
         /\ HeaderSane(Append(buf, b)) <=> HeaderSane(buf)
PROOF
<1>1. /\ Append(buf, b) \in Seq(Byte)
      /\ Len(Append(buf, b)) = Len(buf) + 1
      /\ Append(buf, b)[1] = buf[1]
      /\ Append(buf, b)[2] = buf[2]
      /\ Append(buf, b)[3] = buf[3]
  BY DEF HeaderLen, LenBytes, TypeBytes, SumBytes
<1>2. PkLen(Append(buf, b)) = PkLen(buf)
  BY <1>1 DEF PkLen, LengthField
<1>3. HeaderSane(Append(buf, b)) <=> HeaderSane(buf)
  BY <1>1, <1>2 DEF HeaderSane, PkType
<1> QED
  BY <1>1, <1>2, <1>3

(***************************************************************************)
(* A buffer whose header is sane, whose content has the announced length   *)
(* and whose checksum matches is what insertContent would have produced.   *)
(***************************************************************************)
LEMMA CheckedBufferIsFramed ==
  ASSUME NEW buf \in Seq(Byte),
         Len(buf) >= HeaderLen,
         HeaderSane(buf),
         Len(buf) = PkLen(buf) + HeaderLen,
         Adler32(Content(buf)) = Checksum(buf)
  PROVE  LET p == [type |-> PkType(buf), content |-> Content(buf)]
         IN  buf = Header(p) \o p.content
PROOF
<1> DEFINE c == Content(buf)
           p == [type |-> PkType(buf), content |-> c]
<1> USE DEF HeaderLen, LenBytes, TypeBytes, SumBytes
<1>1. /\ buf[1] \in Byte /\ buf[2] \in Byte
      /\ Len(buf) \in Nat
  OBVIOUS
<1>2. PkLen(buf) = buf[1] + buf[2] * Base
  <2>1. LengthField(buf) \in 0 .. (Base * Base - 1)
    BY <1>1, DigitsOfNumber DEF LengthField
  <2>2. PkLen(buf) >= 0
    BY DEF HeaderSane
  <2> QED
    BY <2>1, <2>2, FrameAssumption DEF PkLen, ToShort, LengthField
<1>3. /\ c \in Seq(Byte)
      /\ Len(c) = PkLen(buf)
      /\ \A i \in 1 .. Len(c) : c[i] = buf[i + 7]
  <2>1. c = SubSeq(buf, 8, Len(buf))
    BY DEF Content
  <2>2. /\ Len(buf) = PkLen(buf) + 7
        /\ PkLen(buf) \in Nat
    BY DEF HeaderSane
  <2>3. /\ SubSeq(buf, 8, Len(buf)) \in Seq(Byte)
        /\ Len(SubSeq(buf, 8, Len(buf))) = Len(buf) - 7
        /\ \A i \in 1 .. Len(buf) - 7 : SubSeq(buf, 8, Len(buf))[i] = buf[i + 7]
    BY <1>1, <2>2
  <2> QED
    BY <2>1, <2>2, <2>3
<1>4. Len(c) % Base = buf[1] /\ Len(c) \div Base = buf[2]
  <2>1. Len(c) = buf[1] + buf[2] * Base
    BY <1>2, <1>3
  <2> HIDE DEF c
  <2> QED
    BY <1>1, <2>1, DigitsOfNumber
<1> DEFINE sum == Adler32(c)
<1>5. /\ sum \in Seq(Byte) /\ Len(sum) = 4
      /\ \A i \in 1 .. 4 : sum[i] = buf[i + 3]
  <2>1. sum = SubSeq(buf, 4, 7)
    BY DEF Checksum
  <2> QED
    BY <1>1, <2>1
<1> DEFINE lead == << Len(c) % Base, Len(c) \div Base, buf[3] >>
<1>6. Header(p) = lead \o sum
  BY DEF Header, PkType
<1>7. /\ lead \in Seq(Byte) /\ Len(lead) = 3
      /\ lead[1] = buf[1] /\ lead[2] = buf[2] /\ lead[3] = buf[3]
  <2>1. lead = << buf[1], buf[2], buf[3] >> /\ buf[3] \in Byte
    BY <1>4
  <2> QED
    BY <1>1, <2>1
<1> DEFINE head == SubSeq(buf, 1, 7)
<1>8. /\ head \in Seq(Byte) /\ Len(head) = 7
      /\ \A i \in 1 .. 7 : head[i] = buf[i]
  BY SubSeqProperties
<1> HIDE DEF lead, c, head, sum
<1>9. head = Header(p)
  <2>1. /\ Len(head) = Len(lead) + Len(sum)
        /\ \A i \in 1 .. Len(lead) : head[i] = lead[i]
        /\ \A i \in 1 .. Len(sum) : head[i + Len(lead)] = sum[i]
    BY <1>5, <1>7, <1>8
  <2>2. head = lead \o sum
    BY <1>5, <1>7, <1>8, <2>1, ConcatOfParts
  <2> QED
    BY <1>6, <2>2
<1>10. buf = head \o c
  <2>1. /\ Len(buf) = Len(head) + Len(c)
        /\ \A i \in 1 .. Len(head) : buf[i] = head[i]
        /\ \A i \in 1 .. Len(c) : buf[i + Len(head)] = c[i]
    BY <1>3, <1>8
  <2> QED
    BY <1>3, <1>8, <2>1, ConcatOfParts
<1> QED
  BY <1>9, <1>10 DEF c
-----------------------------------------------------------------------------
(* The buffer and offset a byte meets satisfy the invariants too, whether  *)
(* or not a completed packet was just dropped.                             *)
LEMMA MetState ==
  ASSUME ParserInv
  PROVE  /\ DataMet \in Seq(Byte)
         /\ OffsetMet \in Nat
         /\ Len(DataMet) <= MaxNetworkLength + HeaderLen
         /\ \/ OffsetMet < Len(Magic) /\ DataMet = <<>>
            \/ OffsetMet = Len(Magic) + Len(DataMet)
         /\ Len(DataMet) >= HeaderLen /\ HeaderSane(DataMet)
              => Len(DataMet) <= PkLen(DataMet) + HeaderLen
PROOF
<1>1. CASE isInDoneState
  <2>1. DataMet = <<>> /\ OffsetMet = 0
    BY <1>1 DEF DataMet, OffsetMet
  <2>2. Len(Magic) \in Nat \ {0}
    BY FrameAssumption
  <2> QED
    BY <2>1, <2>2, FrameAssumption DEF HeaderLen, LenBytes, TypeBytes, SumBytes
<1>2. CASE ~isInDoneState
  <2>1. DataMet = netData /\ OffsetMet = packetOffset
    BY <1>2 DEF DataMet, OffsetMet
  <2> QED
    BY <2>1 DEF ParserInv, ParserTypeOK, OffsetsInStep, BufferBound, ContentWithinLength
<1> QED
  BY <1>1, <1>2

(* An empty buffer and an offset within the magic, as every restart of the *)
(* hunt leaves them, satisfy the invariant.                                *)
HuntingState ==
  /\ netData = <<>>
  /\ packetOffset \in 0 .. Len(Magic)
  /\ isInDoneState = FALSE

LEMMA HuntingInv == HuntingState => ParserInv
PROOF
<1> SUFFICES ASSUME HuntingState PROVE ParserInv
  OBVIOUS
<1>1. /\ Len(Magic) \in Nat \ {0}
      /\ MaxNetworkLength \in Nat
  BY FrameAssumption
<1>2. /\ netData \in Seq(Byte) /\ Len(netData) = 0
      /\ packetOffset \in Nat
      /\ packetOffset < Len(Magic) \/ packetOffset = Len(Magic)
      /\ isInDoneState = FALSE
  BY <1>1 DEF HuntingState
<1>3. ParserTypeOK
  BY <1>2 DEF ParserTypeOK
<1>4. OffsetsInStep
  BY <1>1, <1>2 DEF OffsetsInStep, HuntingState
<1>5. BufferBound /\ ContentWithinLength /\ DoneMeansFramed
  BY <1>1, <1>2
  DEF BufferBound, ContentWithinLength, DoneMeansFramed, HeaderLen, LenBytes,
      TypeBytes, SumBytes
<1> QED
  BY <1>3, <1>4, <1>5 DEF ParserInv

LEMMA StepInv ==
  ASSUME ParserInv, NEW b \in Byte, ProcessByte(b)
  PROVE  ParserInv'
PROOF
<1> USE DEF HeaderLen, LenBytes, TypeBytes, SumBytes
<1>0. /\ Len(Magic) \in Nat \ {0}
      /\ MaxNetworkLength \in Nat
      /\ Len(DataMet) \in Nat
  BY MetState, FrameAssumption
<1>1. CASE MagicByte(b)
  <2>1. DataMet = <<>> /\ OffsetMet \in Nat /\ OffsetMet < Len(Magic)
    BY <1>0, <1>1, MetState DEF MagicByte, InMagic
  <2>2. /\ netData' = <<>>
        /\ packetOffset' = OffsetMet + 1 \/ packetOffset' = 0
        /\ isInDoneState' = FALSE
    BY <1>1, <2>1 DEF MagicByte
  <2>3. HuntingState'
    BY <1>0, <2>1, <2>2 DEF HuntingState
  <2> QED
    BY <2>3, HuntingInv, PTL
<1>2. CASE HeaderByte(b)
  <2>1. /\ netData' = Append(DataMet, b)
        /\ packetOffset' = OffsetMet + 1
        /\ isInDoneState' = FALSE
        /\ Len(DataMet) < 7
    BY <1>2 DEF HeaderByte, InHeader, Store
  <2>2. /\ netData' \in Seq(Byte)
        /\ Len(netData') = Len(DataMet) + 1
    BY <2>1, MetState
  <2>3. OffsetMet = Len(Magic) + Len(DataMet) /\ OffsetMet \in Nat
    BY <1>0, <1>2, MetState DEF HeaderByte, InHeader, InMagic
  <2>4. ParserTypeOK'
    <3>1. packetOffset' \in Nat
      BY <2>1, <2>3
    <3>2. isInDoneState' \in BOOLEAN
      BY <2>1
    <3> QED
      BY <2>2, <3>1, <3>2 DEF ParserTypeOK
  <2>5. OffsetsInStep'
    BY <1>0, <2>1, <2>2, <2>3 DEF OffsetsInStep
  <2>6. BufferBound'
    BY <1>0, <2>1, <2>2 DEF BufferBound
  <2>7. ContentWithinLength'
    <3>1. HeaderSane(netData') => PkLen(netData') \in Nat
      BY <1>0 DEF HeaderSane
    <3>2. Len(netData') <= 7
      BY <1>0, <2>1, <2>2
    <3> QED
      BY <2>2, <3>1, <3>2 DEF ContentWithinLength
  <2>8. DoneMeansFramed'
    BY <2>1 DEF DoneMeansFramed
  <2> QED
    BY <2>4, <2>5, <2>6, <2>7, <2>8 DEF ParserInv
<1>3. CASE RejectHeader(b)
  <2>1. HuntingState'
    BY <1>0, <1>3 DEF RejectHeader, Restart, HuntingState
  <2> QED
    BY <2>1, HuntingInv, PTL
<1>4. CASE ContentByte(b)
  <2>1. /\ netData' = Append(DataMet, b)
        /\ packetOffset' = OffsetMet + 1
        /\ isInDoneState' = FALSE
        /\ Len(DataMet) >= 7
        /\ HeaderSane(DataMet)
        /\ Len(DataMet) < PkLen(DataMet) + 7
        /\ PkLen(DataMet) \in 0 .. MaxNetworkLength
    BY <1>4 DEF ContentByte, InBody, Store, BodyShort, HeaderSane
  <2>2. /\ netData' \in Seq(Byte)
        /\ Len(netData') = Len(DataMet) + 1
        /\ PkLen(netData') = PkLen(DataMet)
    BY <2>1, MetState, AppendKeepsHeader
  <2>3. OffsetMet = Len(Magic) + Len(DataMet) /\ OffsetMet \in Nat
    BY <1>0, <2>1, MetState
  <2>4. ParserTypeOK'
    <3>1. packetOffset' \in Nat
      BY <2>1, <2>3
    <3>2. isInDoneState' \in BOOLEAN
      BY <2>1
    <3> QED
      BY <2>2, <3>1, <3>2 DEF ParserTypeOK
  <2>5. OffsetsInStep'
    BY <1>0, <2>1, <2>2, <2>3 DEF OffsetsInStep
  <2>6. BufferBound' /\ ContentWithinLength'
    BY <1>0, <2>1, <2>2 DEF BufferBound, ContentWithinLength
  <2>7. DoneMeansFramed'
    BY <2>1 DEF DoneMeansFramed
  <2> QED
    BY <2>4, <2>5, <2>6, <2>7 DEF ParserInv
<1>5. CASE RejectChecksum(b)
  <2>1. HuntingState'
    BY <1>0, <1>5 DEF RejectChecksum, Restart, HuntingState
  <2> QED
    BY <2>1, HuntingInv, PTL
<1>6. CASE Complete(b)
  <2>1. /\ netData' = DataMet
        /\ packetOffset' = OffsetMet
        /\ isInDoneState' = TRUE
        /\ Len(DataMet) >= 7
        /\ HeaderSane(DataMet)
        /\ ~(Len(DataMet) < PkLen(DataMet) + 7)
        /\ PkLen(DataMet) \in 0 .. MaxNetworkLength
        /\ Adler32(Content(DataMet)) = Checksum(DataMet)
    BY <1>6 DEF Complete, InBody, BodyShort, HeaderSane
  <2>2. Len(DataMet) = PkLen(DataMet) + 7
    BY <1>0, <2>1, MetState
  <2>3. DoneMeansFramed'
    <3> DEFINE p == [type |-> PkType(DataMet), content |-> Content(DataMet)]
    <3>1. DataMet \in Seq(Byte)
      BY MetState
    <3>2. DataMet = Header(p) \o p.content
      BY <2>1, <2>2, <3>1, CheckedBufferIsFramed
    <3>3. CurrentPacket' = p
      BY <2>1 DEF CurrentPacket
    <3> HIDE DEF p
    <3> QED
      BY <2>1, <3>2, <3>3 DEF DoneMeansFramed
  <2>4. /\ ParserTypeOK' /\ OffsetsInStep' /\ BufferBound' /\ ContentWithinLength'
    BY <1>0, <2>1, <2>2, MetState
    DEF ParserTypeOK, OffsetsInStep, BufferBound, ContentWithinLength
  <2> QED
    BY <2>3, <2>4 DEF ParserInv
<1> QED
  BY <1>1, <1>2, <1>3, <1>4, <1>5, <1>6 DEF ProcessByte

(* The inductive invariant holds of the parser under every byte stream.    *)
THEOREM ParserInvariant == ParserSpec => []ParserInv
PROOF
<1>1. ParserInit => ParserInv
  <2>1. ParserInit => HuntingState
    BY FrameAssumption DEF ParserInit, HuntingState
  <2> QED
    BY <2>1, HuntingInv
<1>2. ParserInv /\ [ParserNext]_parserVars => ParserInv'
  <2>1. CASE ParserNext
    BY <2>1, StepInv DEF ParserNext
  <2>2. CASE UNCHANGED parserVars
    BY <2>2
    DEF parserVars, ParserInv, ParserTypeOK, OffsetsInStep, BufferBound,
        ContentWithinLength, DoneMeansFramed, CurrentPacket
  <2> QED
    BY <2>1, <2>2
<1> QED
  BY <1>1, <1>2, PTL DEF ParserSpec

(* The parser's state is always well-typed.                                *)
THEOREM ParserTypeCorrect == ParserSpec => []ParserTypeOK
PROOF
<1>1. ParserInv => ParserTypeOK
  BY DEF ParserInv
<1> QED
  BY <1>1, ParserInvariant, PTL

(* dataOffset never runs ahead of packetOffset, and nothing of a rejected  *)
(* frame is left when the next magic starts.                               *)
THEOREM ParserOffsetsInStep == ParserSpec => []OffsetsInStep
PROOF
<1>1. ParserInv => OffsetsInStep
  BY DEF ParserInv
<1> QED
  BY <1>1, ParserInvariant, PTL

(* No more content is stored than the header in the buffer announces.      *)
THEOREM ParserKeepsToLength == ParserSpec => []ContentWithinLength
PROOF
<1>1. ParserInv => ContentWithinLength
  BY DEF ParserInv
<1> QED
  BY <1>1, ParserInvariant, PTL

(* Every store of processByte hits netData[MAX_NETWORK_LENGTH + 16],       *)
(* because at most the header and MAX_NETWORK_LENGTH bytes are ever kept.  *)
THEOREM ParserStoresInBounds == ParserSpec => [](BufferBound /\ Len(netData) < NetDataSize)
PROOF
<1>1. ParserInv => BufferBound /\ Len(netData) < NetDataSize
  BY FrameAssumption
  DEF ParserInv, ParserTypeOK, BufferBound, NetDataSize, HeaderLen, LenBytes,
      TypeBytes, SumBytes
<1> QED
  BY <1>1, ParserInvariant, PTL

(* Whatever noise arrives, a packet handed to main.cpp is byte for byte    *)
(* one that ArdPacket.insertContent could have written.                    *)
THEOREM ParserCompletesOnlyFrames == ParserSpec => []DoneMeansFramed
PROOF
<1>1. ParserInv => DoneMeansFramed
  BY DEF ParserInv
<1> QED
  BY <1>1, ParserInvariant, PTL

-----------------------------------------------------------------------------
(* The line.                                                               *)

LEMMA ConcatIndexing ==
  ASSUME NEW s \in Seq(Byte), NEW t \in Seq(Byte)
  PROVE  /\ (s \o t) \in Seq(Byte) /\ Len(s \o t) = Len(s) + Len(t)
         /\ Len(s) \in Nat /\ Len(t) \in Nat
         /\ \A i \in 1 .. Len(s) : (s \o t)[i] = s[i]
         /\ \A i \in 1 .. Len(t) : (s \o t)[Len(s) + i] = t[i]
PROOF
<1>1. /\ (s \o t) \in Seq(Byte) /\ Len(s \o t) = Len(s) + Len(t)
      /\ \A i \in 1 .. Len(s) + Len(t) : (s \o t)[i] = IF i <= Len(s) THEN s[i] ELSE t[i - Len(s)]
  BY ConcatProperties
<1>2. \A i \in 1 .. Len(s) : (s \o t)[i] = s[i]
  <2> SUFFICES ASSUME NEW i \in 1 .. Len(s) PROVE (s \o t)[i] = s[i]
    OBVIOUS
  <2>1. i \in 1 .. Len(s) + Len(t) /\ i <= Len(s)
    OBVIOUS
  <2> QED
    BY <1>1, <2>1
<1>3. \A i \in 1 .. Len(t) : (s \o t)[Len(s) + i] = t[i]
  <2> SUFFICES ASSUME NEW i \in 1 .. Len(t) PROVE (s \o t)[Len(s) + i] = t[i]
    OBVIOUS
  <2>1. /\ Len(s) + i \in 1 .. Len(s) + Len(t)
        /\ ~(Len(s) + i <= Len(s))
        /\ (Len(s) + i) - Len(s) = i
    OBVIOUS
  <2> QED
    BY <1>1, <2>1
<1> QED
  BY <1>1, <1>2, <1>3

(* Every byte of a frame, by its place.                                    *)
LEMMA FrameBytes ==
  ASSUME NEW p \in Packets
  PROVE  /\ p.type \in 1 .. MaxType /\ p.content \in Seq(Byte)
         /\ Len(p.content) \in 0 .. MaxNetworkLength
         /\ Frame(p) \in Seq(Byte)
         /\ Len(Frame(p)) = Len(Magic) + 7 + Len(p.content) + 1
         /\ \A i \in 1 .. Len(Magic) : Frame(p)[i] = Magic[i]
         /\ Frame(p)[Len(Magic) + 1] = Len(p.content) % Base
         /\ Frame(p)[Len(Magic) + 2] = Len(p.content) \div Base
         /\ Frame(p)[Len(Magic) + 3] = p.type
         /\ \A i \in 1 .. 4 : Frame(p)[Len(Magic) + 3 + i] = Adler32(p.content)[i]
         /\ \A i \in 1 .. Len(p.content) : Frame(p)[Len(Magic) + 7 + i] = p.content[i]
         /\ Frame(p)[Len(Frame(p))] = 0
PROOF
<1> DEFINE c   == p.content
           sum == Adler32(c)
           lead == << Len(c) % Base, Len(c) \div Base, p.type >>
           head == lead \o sum
           begun == Magic \o head
           filled == begun \o c
<1>1. /\ p.type \in 1 .. MaxType /\ c \in Seq(Byte)
      /\ Len(c) \in 0 .. MaxNetworkLength
  BY LinkAssumption DEF Packet
<1>2. Magic \in Seq(Byte) /\ Len(Magic) \in Nat
  BY FrameAssumption
<1>3. sum \in Seq(Byte) /\ Len(sum) = 4
  BY <1>1, AdlerBytes
<1>4. lead \in Seq(Byte) /\ Len(lead) = 3
  <2>1. Len(c) % Base \in Byte /\ Len(c) \div Base \in Byte /\ p.type \in Byte
    <3> DEFINE n == Len(c)
    <3>1. n \in Nat /\ 2 * n < Base * Base
      BY <1>1, FrameAssumption
    <3>2. p.type \in Byte
      BY <1>1, FrameAssumption DEF Byte
    <3> HIDE DEF n
    <3>3. n % Base \in Byte /\ n \div Base \in Byte
      BY <3>1, FrameAssumption DEF Byte
    <3> QED
      BY <3>2, <3>3 DEF n
  <2> QED
    BY <2>1
<1>5. << 0 >> \in Seq(Byte) /\ Len(<< 0 >>) = 1
  BY FrameAssumption DEF Byte
<1>6. /\ head = lead \o sum /\ begun = Magic \o head
      /\ filled = begun \o c /\ Frame(p) = filled \o << 0 >>
  BY DEF Frame, Header
<1>7. lead[1] = Len(c) % Base /\ lead[2] = Len(c) \div Base /\ lead[3] = p.type
  OBVIOUS
<1> HIDE DEF c, sum, lead, head, begun, filled
<1>8. /\ head \in Seq(Byte) /\ Len(head) = 7
      /\ \A i \in 1 .. 3 : head[i] = lead[i]
      /\ \A i \in 1 .. 4 : head[3 + i] = sum[i]
  <2>1. /\ (lead \o sum) \in Seq(Byte) /\ Len(lead \o sum) = Len(lead) + Len(sum)
        /\ \A i \in 1 .. Len(lead) : (lead \o sum)[i] = lead[i]
        /\ \A i \in 1 .. Len(sum) : (lead \o sum)[Len(lead) + i] = sum[i]
    BY <1>3, <1>4, <1>6, ConcatIndexing
  <2>2. \A i \in 1 .. 3 : head[i] = lead[i]
    BY <1>4, <1>6, <2>1
  <2>3. \A i \in 1 .. 4 : head[3 + i] = sum[i]
    <3> SUFFICES ASSUME NEW i \in 1 .. 4 PROVE head[3 + i] = sum[i]
      OBVIOUS
    <3>1. i \in 1 .. Len(sum) /\ Len(lead) + i = 3 + i
      BY <1>3, <1>4
    <3> QED
      BY <1>6, <2>1, <3>1
  <2>4. head \in Seq(Byte) /\ Len(head) = 7
    BY <1>3, <1>4, <1>6, <2>1
  <2> QED
    BY <2>2, <2>3, <2>4
<1>9. /\ begun \in Seq(Byte) /\ Len(begun) = Len(Magic) + 7
      /\ \A i \in 1 .. Len(Magic) : begun[i] = Magic[i]
      /\ \A i \in 1 .. 7 : begun[Len(Magic) + i] = head[i]
  <2>1. /\ (Magic \o head) \in Seq(Byte) /\ Len(Magic \o head) = Len(Magic) + Len(head)
        /\ \A i \in 1 .. Len(Magic) : (Magic \o head)[i] = Magic[i]
        /\ \A i \in 1 .. Len(head) : (Magic \o head)[Len(Magic) + i] = head[i]
    BY <1>2, <1>6, <1>8, ConcatIndexing
  <2> QED
    BY <2>1, <1>2, <1>6, <1>8
<1>10. /\ filled \in Seq(Byte) /\ Len(filled) = Len(Magic) + 7 + Len(c)
       /\ \A i \in 1 .. Len(Magic) + 7 : filled[i] = begun[i]
       /\ \A i \in 1 .. Len(c) : filled[Len(Magic) + 7 + i] = c[i]
  <2>1. /\ (begun \o c) \in Seq(Byte) /\ Len(begun \o c) = Len(begun) + Len(c)
        /\ \A i \in 1 .. Len(begun) : (begun \o c)[i] = begun[i]
        /\ \A i \in 1 .. Len(c) : (begun \o c)[Len(begun) + i] = c[i]
    BY <1>1, <1>2, <1>6, <1>9, ConcatIndexing
  <2> QED
    BY <2>1, <1>1, <1>2, <1>6, <1>9
<1>11. /\ Frame(p) \in Seq(Byte) /\ Len(Frame(p)) = Len(Magic) + 7 + Len(c) + 1
       /\ \A i \in 1 .. Len(Magic) + 7 + Len(c) : Frame(p)[i] = filled[i]
       /\ Frame(p)[Len(Frame(p))] = 0
  <2>1. /\ (filled \o << 0 >>) \in Seq(Byte) /\ Len(filled \o << 0 >>) = Len(filled) + Len(<< 0 >>)
        /\ \A i \in 1 .. Len(filled) : (filled \o << 0 >>)[i] = filled[i]
        /\ \A i \in 1 .. Len(<< 0 >>) : (filled \o << 0 >>)[Len(filled) + i] = << 0 >>[i]
    BY <1>5, <1>6, <1>10, ConcatIndexing
  <2>2. Len(filled) = Len(Magic) + 7 + Len(c) /\ Len(<< 0 >>) = 1
    BY <1>10
  <2>3. Frame(p) = filled \o << 0 >>
    BY <1>6
  <2>4. (filled \o << 0 >>)[Len(filled) + 1] = 0 /\ Len(filled) + 1 = Len(filled \o << 0 >>)
    BY <2>1, <2>2
  <2> QED
    BY <2>1, <2>2, <2>3, <2>4
<1>12. \A i \in 1 .. 7 : Frame(p)[Len(Magic) + i] = head[i]
  <2> SUFFICES ASSUME NEW i \in 1 .. 7 PROVE Frame(p)[Len(Magic) + i] = head[i]
    OBVIOUS
  <2>1. /\ Len(Magic) + i \in 1 .. Len(Magic) + 7
        /\ Len(Magic) + i \in 1 .. Len(Magic) + 7 + Len(c)
    BY <1>1, <1>2
  <2> QED
    BY <1>9, <1>10, <1>11, <2>1
<1>13. /\ \A i \in 1 .. Len(Magic) : Frame(p)[i] = Magic[i]
       /\ \A i \in 1 .. Len(c) : Frame(p)[Len(Magic) + 7 + i] = c[i]
  <2>1. ASSUME NEW i \in 1 .. Len(Magic) PROVE Frame(p)[i] = Magic[i]
    <3>1. i \in 1 .. Len(Magic) + 7 /\ i \in 1 .. Len(Magic) + 7 + Len(c)
      BY <1>1, <1>2
    <3> QED
      BY <1>9, <1>10, <1>11, <3>1
  <2>2. ASSUME NEW i \in 1 .. Len(c) PROVE Frame(p)[Len(Magic) + 7 + i] = c[i]
    <3>1. Len(Magic) + 7 + i \in 1 .. Len(Magic) + 7 + Len(c)
      BY <1>1, <1>2
    <3> QED
      BY <1>10, <1>11, <3>1
  <2> QED
    BY <2>1, <2>2
<1>14. /\ Frame(p)[Len(Magic) + 1] = head[1]
       /\ Frame(p)[Len(Magic) + 2] = head[2]
       /\ Frame(p)[Len(Magic) + 3] = head[3]
  BY <1>12
<1>15. \A i \in 1 .. 4 : Frame(p)[Len(Magic) + 3 + i] = sum[i]
  BY <1>2, <1>8, <1>12
<1>16. head[1] = lead[1] /\ head[2] = lead[2] /\ head[3] = lead[3]
  BY <1>8
<1> QED
  BY <1>1, <1>7, <1>11, <1>13, <1>14, <1>15, <1>16 DEF c, sum

LEMMA FrameLength ==
  ASSUME NEW p \in Packets
  PROVE  /\ Frame(p) \in Seq(Byte)
         /\ FrameLen(p) = Len(Magic) + 8 + Len(p.content)
         /\ Len(p.content) \in Nat /\ FrameLen(p) \in Nat \ {0}
PROOF
<1>1. /\ Frame(p) \in Seq(Byte)
      /\ Len(Frame(p)) = Len(Magic) + 7 + Len(p.content) + 1
      /\ p.content \in Seq(Byte)
  BY FrameBytes
<1>2. Len(p.content) \in Nat /\ Len(Magic) \in Nat
  BY <1>1, FrameAssumption
<1> DEFINE m == Len(Magic)
           n == Len(p.content)
<1>3. FrameLen(p) = m + 7 + n + 1
  BY <1>1 DEF FrameLen
<1>4. m \in Nat /\ n \in Nat
  BY <1>2
<1> HIDE DEF m, n
<1>5. FrameLen(p) = m + 8 + n /\ FrameLen(p) \in Nat \ {0}
  BY <1>3, <1>4
<1> QED
  BY <1>1, <1>2, <1>5 DEF m, n

-----------------------------------------------------------------------------
(* The invariant.  Without losses the parser is exactly as far into the    *)
(* frame as the line, and holds what of it follows the magic.              *)
FollowsFrame ==
  /\ byteNo = 0 => isInDoneState \/ (packetOffset = 0 /\ netData = <<>>)
  /\ byteNo > 0 => /\ isInDoneState = FALSE
                   /\ packetOffset = byteNo
                   /\ netData = SubSeq(Frame(sent[frameNo]), Len(Magic) + 1, byteNo)

InStep ==
  /\ delivered = SubSeq(sent, 1, frameNo - 1)
  /\ FollowsFrame

LinkInv ==
  /\ LinkTypeOK
  /\ ParserInv
  /\ lost = 0 => InStep

-----------------------------------------------------------------------------
(* The cursor stays on the line, and the byte taken is one.                *)
LEMMA TakeByteTyped ==
  ASSUME LinkTypeOK, TakeByte
  PROVE  /\ frameNo' \in 1 .. Len(sent') + 1
         /\ byteNo' \in Nat
         /\ OnTheLine' => byteNo' < FrameLen(sent'[frameNo'])
         /\ ~OnTheLine' => byteNo' = 0
         /\ sent' \in Seq(Packets)
         /\ NextByte \in Byte
         /\ sent[frameNo] \in Packets
         /\ byteNo + 1 \in 1 .. Len(Frame(sent[frameNo]))
PROOF
<1>1. /\ sent' = sent /\ sent \in Seq(Packets)
      /\ frameNo \in 1 .. Len(sent)
      /\ byteNo \in Nat /\ byteNo < FrameLen(sent[frameNo])
      /\ IF byteNo + 1 = FrameLen(sent[frameNo])
           THEN frameNo' = frameNo + 1 /\ byteNo' = 0
           ELSE frameNo' = frameNo /\ byteNo' = byteNo + 1
  BY DEF TakeByte, OnTheLine, LinkTypeOK
<1>2. sent[frameNo] \in Packets
  BY <1>1
<1>3. \A p \in Packets : FrameLen(p) \in Nat \ {0}
  BY FrameLength
<1>4. /\ byteNo + 1 \in 1 .. Len(Frame(sent[frameNo]))
      /\ NextByte \in Byte
  <2>1. byteNo + 1 \in 1 .. Len(Frame(sent[frameNo]))
    BY <1>1, <1>2, <1>3 DEF FrameLen
  <2>2. Frame(sent[frameNo]) \in Seq(Byte)
    BY <1>2, FrameLength
  <2> QED
    BY <2>1, <2>2, ElementOfSeq DEF NextByte
<1>5. /\ frameNo' \in 1 .. Len(sent') + 1
      /\ byteNo' \in Nat
  BY <1>1
<1>6. OnTheLine' => byteNo' < FrameLen(sent'[frameNo'])
  <2>1. CASE byteNo + 1 = FrameLen(sent[frameNo])
    <3> SUFFICES ASSUME OnTheLine' PROVE byteNo' < FrameLen(sent'[frameNo'])
      OBVIOUS
    <3>1. byteNo' = 0 /\ frameNo' \in 1 .. Len(sent)
      BY <1>1, <1>5, <2>1 DEF OnTheLine
    <3>2. sent'[frameNo'] \in Packets
      BY <1>1, <3>1
    <3> QED
      BY <1>3, <3>1, <3>2
  <2>2. CASE byteNo + 1 # FrameLen(sent[frameNo])
    BY <1>1, <1>2, <1>3, <2>2
  <2> QED
    BY <2>1, <2>2
<1>7. ~OnTheLine' => byteNo' = 0
  BY <1>1 DEF OnTheLine
<1> QED
  BY <1>1, <1>2, <1>4, <1>5, <1>6, <1>7

(* A packet handed on is well-typed.                                       *)
LEMMA CompletedIsPacket ==
  ASSUME ParserInv, NEW b \in Byte, ProcessByte(b), isInDoneState'
  PROVE  CurrentPacket' \in Packet
PROOF
<1>1. Complete(b)
  BY DEF ProcessByte, MagicByte, HeaderByte, RejectHeader, ContentByte, RejectChecksum,
         Store, Restart
<1>2. /\ netData' = DataMet
      /\ DataMet \in Seq(Byte)
      /\ PkType(DataMet) \in 1 .. MaxType
  BY <1>1, MetState DEF Complete, HeaderSane
<1>3. Content(DataMet) \in Seq(Byte)
  BY <1>2 DEF Content, HeaderLen, LenBytes, TypeBytes, SumBytes
<1>4. CurrentPacket' = [type |-> PkType(DataMet), content |-> Content(DataMet)]
  BY <1>2 DEF CurrentPacket
<1> QED
  BY <1>2, <1>3, <1>4 DEF Packet

LEMMA LinkStepTyped ==
  ASSUME LinkTypeOK, ParserInv, LinkNext
  PROVE  LinkTypeOK' /\ ParserInv'
PROOF
<1>1. ASSUME NEW p \in Packets, Send(p) PROVE LinkTypeOK' /\ ParserInv'
  <2>1. /\ sent' = Append(sent, p) /\ sent \in Seq(Packets)
        /\ UNCHANGED << parserVars, frameNo, byteNo, delivered, lost >>
    BY <1>1 DEF Send, LinkTypeOK
  <2>2. /\ sent' \in Seq(Packets) /\ Len(sent') = Len(sent) + 1
        /\ \A i \in 1 .. Len(sent) : sent'[i] = sent[i]
        /\ sent'[Len(sent) + 1] = p
    BY <2>1
  <2>3. ParserInv' /\ ParserTypeOK'
    BY <2>1
    DEF parserVars, ParserInv, ParserTypeOK, OffsetsInStep, BufferBound,
        ContentWithinLength, DoneMeansFramed, CurrentPacket
  <2>4. OnTheLine' => byteNo' < FrameLen(sent'[frameNo'])
    <3>1. CASE OnTheLine
      BY <2>1, <2>2, <3>1 DEF OnTheLine, LinkTypeOK
    <3>2. CASE ~OnTheLine
      <4>1. frameNo = Len(sent) + 1 /\ byteNo = 0
        BY <3>2 DEF OnTheLine, LinkTypeOK
      <4>2. FrameLen(p) \in Nat \ {0}
        BY FrameLength
      <4> QED
        BY <2>1, <2>2, <4>1, <4>2
    <3> QED
      BY <3>1, <3>2
  <2>5. ~OnTheLine' => byteNo' = 0
    BY <2>1, <2>2 DEF OnTheLine, LinkTypeOK
  <2> QED
    BY <2>1, <2>2, <2>3, <2>4, <2>5 DEF LinkTypeOK
<1>2. CASE Receive
  <2>1. ParserInv'
    BY <1>2, TakeByteTyped, StepInv DEF Receive
  <2>2. delivered' \in Seq(Packet)
    BY <1>2, TakeByteTyped, CompletedIsPacket DEF Receive, LinkTypeOK
  <2>3. lost' \in 0 .. MaxLost
    BY <1>2 DEF Receive, LinkTypeOK
  <2>4. TakeByte
    BY <1>2 DEF Receive
  <2> QED
    BY <2>1, <2>2, <2>3, <2>4, TakeByteTyped DEF LinkTypeOK, ParserInv
<1>3. CASE Drop
  <2>1. TakeByte /\ UNCHANGED << parserVars, delivered >>
    BY <1>3 DEF Drop
  <2>2. ParserInv'
    BY <2>1
    DEF parserVars, ParserInv, ParserTypeOK, OffsetsInStep, BufferBound,
        ContentWithinLength, DoneMeansFramed, CurrentPacket
  <2>3. lost' \in 0 .. MaxLost
    BY <1>3, LinkAssumption DEF Drop, LinkTypeOK
  <2> QED
    BY <2>1, <2>2, <2>3, TakeByteTyped DEF LinkTypeOK, ParserInv
<1>4. CASE Reboot
  <2>1. HuntingState'
    BY <1>4, FrameAssumption DEF Reboot, HuntingState
  <2>2. ParserInv'
    BY <2>1, HuntingInv, PTL
  <2>3. lost' \in 0 .. MaxLost
    BY <1>4, LinkAssumption DEF Reboot, LinkTypeOK
  <2> QED
    BY <1>4, <2>2, <2>3 DEF Reboot, LinkTypeOK, ParserInv, OnTheLine
<1> QED
  BY <1>1, <1>2, <1>3, <1>4 DEF LinkNext

-----------------------------------------------------------------------------
LEMMA AppendNext ==
  ASSUME NEW f \in Seq(Byte), NEW m \in Nat, NEW k \in m .. Len(f) - 1
  PROVE  Append(SubSeq(f, m + 1, k), f[k + 1]) = SubSeq(f, m + 1, k + 1)
PROOF
<1> DEFINE s == SubSeq(f, m + 1, k)
           t == SubSeq(f, m + 1, k + 1)
<1>1. \A i \in m + 1 .. k + 1 : f[i] \in Byte
  OBVIOUS
<1>2. /\ s \in Seq(Byte) /\ Len(s) = k - m
      /\ \A i \in 1 .. k - m : s[i] = f[m + i]
  <2>1. \A i \in m + 1 .. k : f[i] \in Byte
    BY <1>1
  <2>2. /\ s \in Seq(Byte) /\ Len(s) = IF m + 1 <= k THEN k - (m + 1) + 1 ELSE 0
        /\ \A i \in 1 .. k - (m + 1) + 1 : s[i] = f[(m + 1) + i - 1]
    BY <2>1, SubSeqProperties
  <2> HIDE DEF s
  <2> QED
    BY <2>2
<1>3. /\ t \in Seq(Byte) /\ Len(t) = k + 1 - m
      /\ \A i \in 1 .. k + 1 - m : t[i] = f[m + i]
  <2>1. /\ t \in Seq(Byte) /\ Len(t) = IF m + 1 <= k + 1 THEN (k + 1) - (m + 1) + 1 ELSE 0
        /\ \A i \in 1 .. (k + 1) - (m + 1) + 1 : t[i] = f[(m + 1) + i - 1]
    BY <1>1, SubSeqProperties
  <2> HIDE DEF t
  <2> QED
    BY <2>1
<1>4. f[k + 1] \in Byte
  OBVIOUS
<1> HIDE DEF s, t
<1> DEFINE u == Append(s, f[k + 1])
<1>5. /\ u \in Seq(Byte) /\ Len(u) = Len(t)
      /\ \A i \in 1 .. Len(u) : u[i] = t[i]
  BY <1>2, <1>3, <1>4
<1> HIDE DEF u
<1>6. u = t
  BY <1>3, <1>5, SeqEqual
<1> QED
  BY <1>6 DEF s, t, u

(* What the parser reads from the header of a packet the server framed.    *)
LEMMA HeaderRead ==
  ASSUME NEW p \in Packets, NEW d \in Seq(Byte), Len(d) >= 7,
         \A i \in 1 .. Len(d) : d[i] = Frame(p)[Len(Magic) + i]
  PROVE  /\ PkLen(d) = Len(p.content)
         /\ PkType(d) = p.type
         /\ HeaderSane(d)
         /\ Checksum(d) = Adler32(p.content)
PROOF
<1> DEFINE n == Len(p.content)
           sum == Adler32(p.content)
<1>0. /\ p.type \in 1 .. MaxType
      /\ n \in 0 .. MaxNetworkLength
      /\ Frame(p)[Len(Magic) + 1] = n % Base
      /\ Frame(p)[Len(Magic) + 2] = n \div Base
      /\ Frame(p)[Len(Magic) + 3] = p.type
      /\ \A i \in 1 .. 4 : Frame(p)[Len(Magic) + 3 + i] = sum[i]
  BY FrameBytes
<1>len. Len(Magic) \in Nat
  BY FrameAssumption
<1> HIDE DEF n, sum
<1>1. d[1] = n % Base /\ d[2] = n \div Base /\ d[3] = p.type
  <2>1. d[1] = Frame(p)[Len(Magic) + 1] /\ d[2] = Frame(p)[Len(Magic) + 2]
        /\ d[3] = Frame(p)[Len(Magic) + 3]
    OBVIOUS
  <2> QED
    BY <1>0, <2>1
<1>2. \A i \in 1 .. 4 : d[3 + i] = sum[i]
  <2> SUFFICES ASSUME NEW i \in 1 .. 4 PROVE d[3 + i] = sum[i]
    OBVIOUS
  <2>1. Frame(p)[Len(Magic) + 3 + i] = sum[i]
    BY <1>0
  <2>2. 3 + i \in 1 .. Len(d) /\ Len(Magic) + (3 + i) = Len(Magic) + 3 + i
    BY <1>len
  <2> QED
    BY <2>1, <2>2
<1>3. PkLen(d) = n
  <2>1. n = d[1] + d[2] * Base
    BY <1>0, <1>1, FrameAssumption, SMTT(30)
  <2>2. n \in Nat /\ 2 * n < Base * Base
    BY <1>0, FrameAssumption
  <2> QED
    BY <2>1, <2>2 DEF PkLen, LengthField, ToShort
<1>4. PkType(d) = p.type
  BY <1>1 DEF PkType
<1>5. HeaderSane(d)
  BY <1>0, <1>3, <1>4 DEF HeaderSane
<1>6. Checksum(d) = sum
  <2>1. sum \in Seq(Byte) /\ Len(sum) = 4
    BY FrameBytes, AdlerBytes DEF sum
  <2>2. /\ SubSeq(d, 4, 7) \in Seq(Byte) /\ Len(SubSeq(d, 4, 7)) = 4
        /\ \A i \in 1 .. 4 : SubSeq(d, 4, 7)[i] = d[3 + i]
    OBVIOUS
  <2>3. SubSeq(d, 4, 7) = sum
    BY <1>2, <2>1, <2>2, SeqEqual
  <2> QED
    BY <2>3 DEF Checksum, HeaderLen, LenBytes, TypeBytes, SumBytes
<1> QED
  BY <1>3, <1>4, <1>5, <1>6 DEF n, sum

LEMMA ContentRead ==
  ASSUME NEW p \in Packets, NEW d \in Seq(Byte), Len(d) = Len(p.content) + 7,
         \A i \in 1 .. Len(d) : d[i] = Frame(p)[Len(Magic) + i]
  PROVE  Content(d) = p.content
PROOF
<1> DEFINE c == p.content
           e == SubSeq(d, 8, Len(d))
<1>0. /\ c \in Seq(Byte)
      /\ \A i \in 1 .. Len(c) : Frame(p)[Len(Magic) + 7 + i] = c[i]
  BY FrameBytes
<1>1. Len(Magic) \in Nat /\ Len(c) \in Nat
  BY <1>0, FrameAssumption
<1> HIDE DEF c
<1>2. Len(d) = Len(c) + 7
  BY DEF c
<1>3. /\ e \in Seq(Byte) /\ Len(e) = Len(c)
      /\ \A i \in 1 .. Len(c) : e[i] = d[7 + i]
  <2>1. /\ e \in Seq(Byte) /\ Len(e) = IF 8 <= Len(d) THEN Len(d) - 8 + 1 ELSE 0
        /\ \A i \in 1 .. Len(d) - 8 + 1 : e[i] = d[8 + i - 1]
    BY SubSeqProperties
  <2> HIDE DEF e
  <2> QED
    BY <1>1, <1>2, <2>1
<1>4. \A i \in 1 .. Len(c) : d[7 + i] = c[i]
  <2> SUFFICES ASSUME NEW i \in 1 .. Len(c) PROVE d[7 + i] = c[i]
    OBVIOUS
  <2>1. 7 + i \in 1 .. Len(d) /\ Len(Magic) + (7 + i) = Len(Magic) + 7 + i
    BY <1>1, <1>2
  <2> QED
    BY <1>0, <2>1
<1> HIDE DEF e
<1>5. e = c
  BY <1>0, <1>3, <1>4, SeqEqual
<1> QED
  BY <1>5 DEF c, e, Content, HeaderLen, LenBytes, TypeBytes, SumBytes

-----------------------------------------------------------------------------
(* A byte received in step: within the frame both move on by one, at its   *)
(* end, and only there, the parser completes the packet.                   *)
LEMMA ReceiveFollows ==
  ASSUME LinkTypeOK, ParserInv, FollowsFrame, Receive
  PROVE  /\ FollowsFrame'
         /\ delivered' = IF byteNo' = 0 THEN Append(delivered, sent[frameNo]) ELSE delivered
PROOF
<1> DEFINE p == sent[frameNo]
           f == Frame(p)
           m == Len(Magic)
           k == byteNo
           n == Len(p.content)
           d == DataMet
           b == f[k + 1]
<1>1. /\ p \in Packets
      /\ k \in Nat /\ k + 1 \in 1 .. Len(f)
      /\ frameNo \in 1 .. Len(sent)
      /\ sent \in Seq(Packets) /\ sent' = sent
      /\ IF k + 1 = Len(f) THEN frameNo' = frameNo + 1 /\ byteNo' = 0
                           ELSE frameNo' = frameNo /\ byteNo' = k + 1
      /\ ProcessByte(b)
      /\ delivered' = IF isInDoneState' THEN Append(delivered, CurrentPacket')
                                        ELSE delivered
  <2>1. TakeByte
    BY DEF Receive
  <2> QED
    BY <2>1, TakeByteTyped DEF Receive, TakeByte, OnTheLine, NextByte, FrameLen, LinkTypeOK
<1>2. /\ f \in Seq(Byte) /\ Len(f) = m + 8 + n
      /\ n \in Nat /\ m \in Nat \ {0}
  <2>1. f \in Seq(Byte) /\ FrameLen(p) = m + 8 + n /\ n \in Nat
    BY <1>1, FrameLength
  <2>2. FrameLen(p) = Len(f)
    BY DEF FrameLen
  <2>3. m \in Nat \ {0}
    BY FrameAssumption
  <2> QED
    BY <2>1, <2>2, <2>3
<1>3. /\ k = 0 => isInDoneState \/ (packetOffset = 0 /\ netData = <<>>)
      /\ k > 0 => /\ isInDoneState = FALSE
                  /\ packetOffset = k
                  /\ netData = SubSeq(f, m + 1, k)
  BY DEF FollowsFrame
<1>4. \A i \in 1 .. m : f[i] = Magic[i]
  BY <1>1, FrameBytes
<1> HIDE DEF f, m, k, n, b
<1>5. OffsetMet = k /\ d = SubSeq(f, m + 1, k)
  <2>1. CASE k = 0
    <3>1. OffsetMet = 0 /\ d = <<>>
      BY <1>3, <2>1 DEF OffsetMet, DataMet
    <3>2. SubSeq(f, m + 1, k) = <<>>
      BY <1>2, <2>1, SubSeqEmpty
    <3> QED
      BY <2>1, <3>1, <3>2
  <2>2. CASE k > 0
    BY <1>3, <2>2 DEF OffsetMet, DataMet
  <2> QED
    BY <1>1, <2>1, <2>2
<1> HIDE DEF d
<1>6. /\ k <= m => d = <<>>
      /\ k >= m => /\ d \in Seq(Byte) /\ Len(d) = k - m
                  /\ \A i \in 1 .. Len(d) : d[i] = f[m + i]
  <2>1. k <= m => d = <<>>
    BY <1>1, <1>2, <1>5, SubSeqEmpty
  <2>2. ASSUME k >= m
        PROVE  /\ d \in Seq(Byte) /\ Len(d) = k - m
               /\ \A i \in 1 .. Len(d) : d[i] = f[m + i]
    <3>1. \A i \in m + 1 .. k : f[i] \in Byte
      BY <1>1, <1>2
    <3>2. /\ d \in Seq(Byte) /\ Len(d) = IF m + 1 <= k THEN k - (m + 1) + 1 ELSE 0
          /\ \A i \in 1 .. k - (m + 1) + 1 : d[i] = f[(m + 1) + i - 1]
      BY <1>1, <1>2, <1>5, <3>1, SubSeqProperties
    <3>3. k \in Nat /\ m \in Nat
      BY <1>1, <1>2
    <3>4. Len(d) = k - m
      <4>1. (IF m + 1 <= k THEN k - (m + 1) + 1 ELSE 0) = k - m
        BY <2>2, <3>3
      <4> QED
        BY <3>2, <4>1
    <3>5. ASSUME NEW i \in 1 .. Len(d)
          PROVE  d[i] = f[m + i]
      <4>1. i \in 1 .. k - m
        BY <3>4
      <4>2. (m + 1) + i - 1 = m + i /\ i \in 1 .. k - (m + 1) + 1
        BY <3>3, <4>1
      <4>3. d[i] = f[(m + 1) + i - 1]
        BY <3>2, <4>2
      <4> QED
        BY <4>2, <4>3
    <3> QED
      BY <3>2, <3>4, <3>5
  <2> QED
    BY <2>1, <2>2
<1>7. k >= m => Append(d, b) = SubSeq(f, m + 1, k + 1)
  BY <1>1, <1>2, <1>5, AppendNext, SMTT(30) DEF b
(* Within the frame, it is enough that the buffer follows the frame.       *)
<1>8. ASSUME k + 1 < Len(f), isInDoneState' = FALSE, packetOffset' = k + 1,
             netData' = SubSeq(f, m + 1, k + 1)
      PROVE  FollowsFrame' /\ byteNo' # 0 /\ delivered' = delivered
  <2>1. /\ frameNo' = frameNo /\ byteNo' = k + 1 /\ sent' = sent
        /\ delivered' = delivered /\ byteNo' > 0 /\ byteNo' # 0
    BY <1>1, <1>2, <1>8
  <2> QED
    BY <1>3, <1>8, <2>1 DEF FollowsFrame, f, m, p
<1>9. CASE k < m
  <2>1. /\ MagicByte(b) /\ d = <<>>
    <3>1. InMagic
      BY <1>5, <1>9 DEF InMagic, m
    <3>2. ProcessByte(b) /\ d = <<>>
      BY <1>1, <1>2, <1>6, <1>9
    <3> QED
      BY <3>1, <3>2
      DEF ProcessByte, HeaderByte, RejectHeader, ContentByte, RejectChecksum, Complete,
          InHeader, InBody
  <2>2. b = Magic[k + 1]
    BY <1>1, <1>2, <1>4, <1>9 DEF b
  <2>3. SubSeq(f, m + 1, k + 1) = <<>>
    BY <1>1, <1>2, <1>9, SubSeqEmpty
  <2>4. isInDoneState' = FALSE /\ packetOffset' = k + 1 /\ netData' = <<>>
    BY <1>5, <2>1, <2>2 DEF MagicByte, d
  <2>5. k + 1 < Len(f)
    BY <1>1, <1>2, <1>9
  <2> QED
    BY <1>8, <2>3, <2>4, <2>5
<1>10. CASE k >= m /\ k < m + 7
  <2>1. HeaderByte(b)
    <3>1. ~InMagic
      BY <1>1, <1>2, <1>5, <1>10 DEF InMagic, m
    <3>2. Len(d) < 7
      BY <1>1, <1>2, <1>6, <1>10
    <3>3. ~(Len(DataMet) >= HeaderLen)
      BY <1>1, <1>2, <1>6, <1>10, <3>2 DEF d, HeaderLen, LenBytes, TypeBytes, SumBytes
    <3>4. ~InBody /\ ProcessByte(b)
      BY <1>1, <3>3 DEF InBody
    <3> QED
      BY <3>1, <3>4
      DEF ProcessByte, MagicByte, RejectHeader, ContentByte, RejectChecksum, Complete
  <2>2. /\ isInDoneState' = FALSE /\ packetOffset' = k + 1
        /\ netData' = SubSeq(f, m + 1, k + 1)
    BY <1>5, <1>7, <1>10, <2>1 DEF HeaderByte, Store, d
  <2>3. k + 1 < Len(f)
    BY <1>1, <1>2, <1>10
  <2> QED
    BY <1>8, <2>2, <2>3
<1>11. CASE k >= m + 7
  <2>1. /\ ~InMagic /\ ~InHeader
        /\ d \in Seq(Byte) /\ Len(d) = k - m /\ Len(d) >= 7
    <3>1. d \in Seq(Byte) /\ Len(d) = k - m /\ Len(d) >= 7
      BY <1>1, <1>2, <1>6, <1>11
    <3>2. ~(OffsetMet < m)
      BY <1>1, <1>2, <1>5, <1>11
    <3>3. ~InMagic
      BY <3>2 DEF InMagic, m
    <3>4. HeaderLen = 7
      BY DEF HeaderLen, LenBytes, TypeBytes, SumBytes
    <3>5. ~InHeader
      BY <3>1, <3>4 DEF InHeader, d
    <3> QED
      BY <3>1, <3>3, <3>5
  <2>same. \A i \in 1 .. Len(d) : d[i] = Frame(p)[Len(Magic) + i]
    <3>1. k >= m
      BY <1>1, <1>2, <1>11
    <3>2. \A i \in 1 .. Len(d) : d[i] = f[m + i]
      BY <1>6, <3>1
    <3> QED
      BY <3>2 DEF f, m
  <2>2. /\ PkLen(d) = n /\ PkType(d) = p.type /\ HeaderSane(d)
        /\ Checksum(d) = Adler32(p.content)
    BY <1>1, <2>1, <2>same, HeaderRead DEF n
  <2>3. CASE k < m + 7 + n
    <3>1. ContentByte(b)
      BY <1>1, <1>2, <2>1, <2>2, <2>3
      DEF ProcessByte, MagicByte, HeaderByte, RejectHeader, RejectChecksum, Complete,
          BodyShort, d, HeaderLen, LenBytes, TypeBytes, SumBytes
    <3>2. /\ isInDoneState' = FALSE /\ packetOffset' = k + 1
          /\ netData' = SubSeq(f, m + 1, k + 1)
      BY <1>1, <1>2, <1>5, <1>7, <1>11, <3>1 DEF ContentByte, Store, d
    <3>3. k + 1 < Len(f)
      BY <1>1, <1>2, <2>3
    <3> QED
      BY <1>8, <3>2, <3>3
  <2>4. CASE k >= m + 7 + n
    <3>1. k + 1 = Len(f) /\ Len(d) = n + 7
      BY <1>1, <1>2, <2>1, <2>4
    <3>2. Content(d) = p.content
      BY <1>1, <2>1, <2>same, <3>1, ContentRead DEF n
    <3>3. Complete(b)
      BY <1>1, <2>1, <2>2, <3>1, <3>2
      DEF ProcessByte, MagicByte, HeaderByte, RejectHeader, ContentByte, RejectChecksum,
          BodyShort, d, HeaderLen, LenBytes, TypeBytes, SumBytes
    <3>4. CurrentPacket' = p
      <4>1. p = [type |-> p.type, content |-> p.content]
        BY <1>1, LinkAssumption DEF Packet
      <4>2. netData' = d
        BY <3>3 DEF Complete, d
      <4> HIDE DEF p
      <4> QED
        BY <2>2, <3>2, <4>1, <4>2 DEF CurrentPacket
    <3>5. /\ isInDoneState' = TRUE /\ frameNo' = frameNo + 1 /\ byteNo' = 0
          /\ delivered' = Append(delivered, p)
      BY <1>1, <1>3, <3>1, <3>3, <3>4 DEF Complete
    <3> QED
      BY <1>1, <3>5 DEF FollowsFrame
  <2> QED
    BY <1>1, <1>2, <2>3, <2>4
<1> QED
  BY <1>1, <1>2, <1>9, <1>10, <1>11

LEMMA ReceiveInStep ==
  ASSUME LinkTypeOK, ParserInv, InStep, Receive
  PROVE  InStep'
PROOF
<1>1. /\ FollowsFrame'
      /\ delivered' = IF byteNo' = 0 THEN Append(delivered, sent[frameNo]) ELSE delivered
      /\ delivered = SubSeq(sent, 1, frameNo - 1)
  BY ReceiveFollows DEF InStep
<1>2. /\ sent' = sent /\ sent \in Seq(Packets) /\ frameNo \in 1 .. Len(sent)
      /\ \/ frameNo' = frameNo + 1 /\ byteNo' = 0
         \/ frameNo' = frameNo /\ byteNo' = byteNo + 1 /\ byteNo \in Nat
  BY DEF Receive, TakeByte, OnTheLine, LinkTypeOK
<1>3. CASE byteNo' = 0
  <2>1. frameNo' = frameNo + 1
    BY <1>2, <1>3
  <2>2. Append(SubSeq(sent, 1, frameNo - 1), sent[frameNo]) = SubSeq(sent, 1, frameNo)
    BY <1>2
  <2> QED
    BY <1>1, <1>2, <1>3, <2>1, <2>2 DEF InStep
<1>4. CASE byteNo' # 0
  BY <1>1, <1>2, <1>4 DEF InStep
<1> QED
  BY <1>3, <1>4

(* Sending appends behind the cursor; a loss ends what InStep is about.    *)
LEMMA LinkStepInStep ==
  ASSUME LinkInv, LinkNext, lost' = 0
  PROVE  InStep'
PROOF
<1>1. LinkTypeOK /\ ParserInv /\ lost \in Nat
  BY LinkAssumption DEF LinkInv, LinkTypeOK
<1>2. ASSUME NEW p \in Packets, Send(p) PROVE InStep'
  <2>1. /\ sent' = Append(sent, p) /\ sent \in Seq(Packets)
        /\ UNCHANGED << netData, packetOffset, isInDoneState, frameNo, byteNo, delivered,
                        lost >>
    BY <1>1, <1>2 DEF Send, parserVars, LinkTypeOK
  <2>2. frameNo \in 1 .. Len(sent) + 1 /\ (byteNo > 0 => frameNo <= Len(sent))
    BY <1>1 DEF LinkTypeOK, OnTheLine
  <2>3. InStep
    BY <2>1 DEF LinkInv
  <2>4. SubSeq(sent', 1, frameNo' - 1) = SubSeq(sent, 1, frameNo - 1)
    BY <2>1, <2>2
  <2>5. byteNo > 0 => sent'[frameNo'] = sent[frameNo]
    BY <2>1, <2>2
  <2> QED
    BY <2>1, <2>3, <2>4, <2>5 DEF InStep, FollowsFrame
<1>3. CASE Receive
  <2>1. lost' = lost
    BY <1>3 DEF Receive
  <2> QED
    BY <1>1, <1>3, <2>1, ReceiveInStep DEF LinkInv
<1>4. CASE Drop \/ Reboot
  BY <1>1, <1>4 DEF Drop, Reboot
<1> QED
  BY <1>2, <1>3, <1>4 DEF LinkNext

-----------------------------------------------------------------------------
(* The inductive invariant of the line.                                    *)
THEOREM LinkInvariant == LinkSpec => []LinkInv
PROOF
<1>1. LinkInit => LinkInv
  <2> SUFFICES ASSUME LinkInit
               PROVE  LinkInv
    OBVIOUS
  <2>1. HuntingState
    BY FrameAssumption DEF LinkInit, ParserInit, HuntingState
  <2>2. ParserInv
    BY <2>1, HuntingInv
  <2>3. LinkTypeOK
    BY <2>2, LinkAssumption DEF LinkInit, LinkTypeOK, ParserInv, OnTheLine
  <2>4. InStep
    BY DEF LinkInit, ParserInit, InStep, FollowsFrame
  <2> QED
    BY <2>2, <2>3, <2>4 DEF LinkInv
<1>2. LinkInv /\ [LinkNext]_linkVars => LinkInv'
  <2> SUFFICES ASSUME LinkInv, [LinkNext]_linkVars
               PROVE  LinkInv'
    OBVIOUS
  <2>1. CASE LinkNext
    BY <2>1, LinkStepTyped, LinkStepInStep DEF LinkInv
  <2>2. CASE UNCHANGED linkVars
    BY <2>2
    DEF linkVars, lineVars, parserVars, LinkInv, LinkTypeOK, OnTheLine, InStep, FollowsFrame,
        ParserInv, ParserTypeOK, OffsetsInStep, BufferBound, ContentWithinLength, DoneMeansFramed,
        CurrentPacket
  <2> QED
    BY <2>1, <2>2
<1> QED
  BY <1>1, <1>2, PTL DEF LinkSpec

(* The line's state is always well-typed, with any bytes lost.             *)
THEOREM LinkTypeCorrect == LinkSpec => []LinkTypeOK
PROOF
  BY LinkInvariant, PTL DEF LinkInv

(* Without losses the controller gets exactly the packets whose frames are *)
(* off the line, in their order: the two sides agree on the format of a    *)
(* frame, pad included, for every packet the server may send.              *)
THEOREM LosslessLineDelivers == LinkSpec => []LosslessInOrder
PROOF
<1>1. LinkInv => LosslessInOrder
  BY DEF LinkInv, InStep, LosslessInOrder
<1> QED
  BY <1>1, LinkInvariant, PTL

-----------------------------------------------------------------------------
(* A step of a line without losses is one of the reliable channel: a       *)
(* packet is accepted or delivered, or nothing is seen of the step.        *)
LEMMA StepOfReliableChannel ==
  ASSUME LinkInv, LinkInv', LinkNext, lost' = 0
  PROVE  Channel!ReliableNext \/ UNCHANGED << sent, delivered >>
PROOF
<1>1. /\ LinkTypeOK /\ LinkTypeOK' /\ lost \in Nat
      /\ delivered' = SubSeq(sent', 1, frameNo' - 1)
  <2>1. LinkTypeOK /\ LinkTypeOK' /\ InStep'
    BY DEF LinkInv
  <2>2. lost \in Nat
    BY <2>1, LinkAssumption DEF LinkTypeOK
  <2> QED
    BY <2>1, <2>2 DEF InStep
<1>2. /\ sent' \in Seq(Packets) /\ frameNo' - 1 \in 0 .. Len(sent')
  <2>1. sent' \in Seq(Packets) /\ frameNo' \in 1 .. Len(sent') + 1
    BY <1>1 DEF LinkTypeOK
  <2> DEFINE s == sent'
             j == frameNo'
             l == Len(s)
  <2>2. s \in Seq(Packets) /\ l \in Nat /\ j \in 1 .. l + 1
    BY <2>1
  <2> HIDE DEF j, l
  <2>3. j - 1 \in 0 .. l
    BY <2>2
  <2> QED
    BY <2>2, <2>3 DEF j, l
<1>3. Channel!IsPrefix(delivered', sent')
  <2> DEFINE s == sent'
             j == frameNo' - 1
  <2>1. SubSeq(s, 1, j) \in Seq(Packets) /\ Len(SubSeq(s, 1, j)) = j
    BY <1>2
  <2>2. SubSeq(SubSeq(s, 1, j), 1, j) = SubSeq(s, 1, j)
    BY <2>1, SubSeqFull
  <2> QED
    BY <1>1, <1>2, <2>1, <2>2 DEF Channel!IsPrefix
<1>4. ASSUME NEW p \in Packets, Send(p) PROVE Channel!ReliableNext
  <2>1. Channel!Accept(p)
    BY <1>4 DEF Send, Channel!Accept
  <2> QED
    BY <1>3, <2>1 DEF Channel!ReliableNext, Channel!AcceptOrDeliver
<1>5. CASE Receive
  <2>1. /\ sent' = sent /\ sent \in Seq(Packets) /\ lost = 0
        /\ frameNo \in 1 .. Len(sent)
        /\ frameNo' = frameNo \/ frameNo' = frameNo + 1
        /\ delivered = SubSeq(sent, 1, frameNo - 1)
    BY <1>1, <1>5 DEF Receive, TakeByte, OnTheLine, LinkTypeOK, LinkInv, InStep
  <2>2. CASE frameNo' = frameNo
    BY <1>1, <2>1, <2>2
  <2>3. CASE frameNo' = frameNo + 1
    <3>1. sent[frameNo] \in Packets
      BY <2>1
    <3>2. delivered' = Append(delivered, sent[frameNo])
      <4>1. delivered' = SubSeq(sent, 1, frameNo)
        BY <1>1, <2>1, <2>3
      <4>2. SubSeq(sent, 1, frameNo) = Append(SubSeq(sent, 1, frameNo - 1), sent[frameNo])
        BY <2>1
      <4> QED
        BY <2>1, <4>1, <4>2
    <3>3. Channel!Deliver(sent[frameNo])
      BY <2>1, <3>2 DEF Channel!Deliver
    <3> QED
      BY <1>3, <3>1, <3>3 DEF Channel!ReliableNext, Channel!AcceptOrDeliver
  <2> QED
    BY <2>1, <2>2, <2>3
<1>6. CASE Drop \/ Reboot
  BY <1>1, <1>6 DEF Drop, Reboot
<1> QED
  BY <1>4, <1>5, <1>6 DEF LinkNext

(* A line that loses nothing implements the reliable channel.  That every  *)
(* packet arrives in the end is left to TLC (LosslessArrives).             *)
THEOREM LosslessLineIsReliable ==
  ASSUME MaxLost = 0
  PROVE  LinkSpec => Channel!ReliableChannel
PROOF
<1>1. LinkInit => Channel!ChannelInit
  BY DEF LinkInit, Channel!ChannelInit
<1>2. LinkInv /\ LinkInv' /\ [LinkNext]_linkVars
        => [Channel!ReliableNext]_(Channel!channelVars)
  <2> SUFFICES ASSUME LinkInv, LinkInv', [LinkNext]_linkVars
               PROVE  Channel!ReliableNext \/ UNCHANGED << sent, delivered >>
    BY DEF Channel!channelVars
  <2>0. LinkTypeOK'
    BY DEF LinkInv
  <2>1. lost' = 0
    BY <2>0 DEF LinkTypeOK
  <2>2. CASE UNCHANGED linkVars
    BY <2>2 DEF linkVars, lineVars
  <2> QED
    BY <2>1, <2>2, StepOfReliableChannel
<1> QED
  BY <1>1, <1>2, LinkInvariant, PTL DEF LinkSpec, Channel!ReliableChannel

-----------------------------------------------------------------------------
(* The line after losses.                                                  *)

(* How many frames are off the line without a packet delivered for them.   *)
Missed == (frameNo - 1) - Len(delivered)

(* The frame the cursor is in the middle of, and what is left of it.       *)
CutFrame  == IF byteNo = 0 THEN 0 ELSE 1
Remaining == IF byteNo = 0 THEN 0 ELSE FrameLen(sent[frameNo]) - byteNo

(* The shortest frame, and the most bytes the parser still takes before it *)
(* stands at the start of a magic again.                                   *)
ShortestFrame == Len(Magic) + HeaderLen + 1
Reach == Len(Magic) + HeaderLen + MaxNetworkLength + 1 - OffsetMet

(* The parser looks for a magic in the middle of a frame, and what it has  *)
(* of one are the bytes before the cursor: in a frame without a magic      *)
(* after its start it finds none.                                          *)
Hunting ==
  /\ byteNo > 0
  /\ InMagic
  /\ OffsetMet < byteNo
  /\ \A i \in 1 .. OffsetMet :
       Magic[i] = Frame(sent[frameNo])[byteNo - OffsetMet + i]

(* The parser has lost the framing; it is back at the start of a magic     *)
(* before the cursor has passed this frame and d more.                     *)
Astray(d) == Reach <= Remaining + d * ShortestFrame

(***************************************************************************)
(* The frames missed, and those the parser is bound to miss or may still   *)
(* miss without a further loss, are within the limit.  DamageBounded alone *)
(* is not inductive: it forgets what a false header may still swallow.     *)
(***************************************************************************)
DamagePaid ==
  \/ FollowsFrame /\ Missed <= DamageLimit * lost
  \/ Hunting /\ Missed + 1 <= DamageLimit * lost
  \/ \E d \in Nat : Astray(d) /\ Missed + CutFrame + d <= DamageLimit * lost

MagicFreeLine == \A i \in 1 .. Len(sent) : MagicFree(sent[i])

DamageInv == MagicFreeLine => DamagePaid

(* Frames are at least as long as the shortest, and the longest content    *)
(* with the byte behind it fits into one frame less than the limit.        *)
LEMMA LimitFacts ==
  /\ ShortestFrame \in Nat /\ ShortestFrame = Len(Magic) + 8 /\ ShortestFrame >= 2
  /\ Len(Magic) \in Nat \ {0} /\ MaxNetworkLength \in Nat
  /\ DamageLimit \in Nat /\ DamageLimit >= 2
  /\ MaxNetworkLength + 1 <= (DamageLimit - 1) * ShortestFrame
  /\ \A p \in Packets : FrameLen(p) \in Nat /\ FrameLen(p) >= ShortestFrame
PROOF
<1>1. Len(Magic) \in Nat \ {0} /\ MaxNetworkLength \in Nat
  BY FrameAssumption
<1>2. ShortestFrame = Len(Magic) + 8
  BY <1>1 DEF ShortestFrame, HeaderLen, LenBytes, TypeBytes, SumBytes
<1>3. ShortestFrame \in Nat /\ ShortestFrame >= 2
  BY <1>1, <1>2
<1> DEFINE w == ShortestFrame
           q == MaxNetworkLength \div w
<1>4. DamageLimit = 2 + q
  BY DEF DamageLimit, ShortestFrame
<1> HIDE DEF w
<1>5. w \in Nat \ {0}
  BY <1>3 DEF w
<1>6. q \in Nat /\ MaxNetworkLength < (q + 1) * w
  BY <1>1, <1>5
<1> HIDE DEF q
<1>7. DamageLimit \in Nat /\ DamageLimit >= 2 /\ DamageLimit - 1 = q + 1
  BY <1>4, <1>6
<1>8. MaxNetworkLength + 1 <= (q + 1) * w
  <2>1. (q + 1) * w \in Nat
    BY <1>5, <1>6
  <2> QED
    BY <1>1, <1>6, <2>1
<1>9. ASSUME NEW p \in Packets
      PROVE  FrameLen(p) \in Nat /\ FrameLen(p) >= ShortestFrame
  <2> DEFINE m == Len(Magic)
             n == Len(p.content)
  <2>1. FrameLen(p) = m + 8 + n /\ n \in Nat
    BY FrameLength
  <2>2. m \in Nat /\ ShortestFrame = m + 8
    BY <1>1, <1>2
  <2> HIDE DEF m, n
  <2> QED
    BY <2>1, <2>2
<1> QED
  BY <1>1, <1>2, <1>3, <1>7, <1>8, <1>9 DEF w

(* A frame more, and what the parser may take of the line.                 *)
LEMMA FrameMore ==
  ASSUME NEW w \in Nat, NEW d \in Nat
  PROVE  /\ (d + 1) * w = d * w + w
         /\ d * w \in Nat
         /\ d > 0 => d - 1 \in Nat /\ d * w = (d - 1) * w + w
PROOF
<1>1. (d + 1) * w = d * w + w /\ d * w \in Nat
  OBVIOUS
<1>2. ASSUME d > 0
      PROVE  d - 1 \in Nat /\ d * w = (d - 1) * w + w
  BY <1>2
<1> QED
  BY <1>1, <1>2

(* No magic ends in a magic-free frame but the one it starts with.         *)
LEMMA NoMagicInside ==
  ASSUME NEW p \in Packets, MagicFree(p), NEW k \in Len(Magic) + 1 .. FrameLen(p)
  PROVE  \E i \in 1 .. Len(Magic) : Magic[i] # Frame(p)[k - Len(Magic) + i]
PROOF
<1> DEFINE f == Frame(p)
           m == Len(Magic)
           l == Len(f)
           rest == Tail(f)
           start == k - m - 1
<1>1. /\ f \in Seq(Byte) /\ l \in Nat /\ m \in Nat \ {0}
      /\ Magic \in Seq(Byte) /\ k \in m + 1 .. l
  <2>1. f \in Seq(Byte) /\ FrameLen(p) = l
    BY FrameLength DEF FrameLen
  <2>2. Magic \in Seq(Byte) /\ m \in Nat \ {0}
    BY FrameAssumption
  <2> QED
    BY <2>1, <2>2
<1> HIDE DEF f
<1>2. /\ rest \in Seq(Byte) /\ Len(rest) = l - 1
      /\ \A i \in 1 .. l - 1 : rest[i] = f[i + 1]
  <2>1. l >= 1
    BY <1>1
  <2>2. f # << >>
    BY <1>1, <2>1
  <2> QED
    BY <1>1, <2>2, HeadTailProperties
<1> HIDE DEF rest, m, l
<1>3. start \in 0 .. (l - 1) - m
  BY <1>1
<1> DEFINE cut == SubSeq(rest, start + 1, start + m)
<1>4. cut # Magic
  <2>1. \A i \in 0 .. Len(rest) - Len(Magic) :
          SubSeq(rest, i + 1, i + Len(Magic)) # Magic
    BY DEF MagicFree, rest, f
  <2>2. start \in 0 .. Len(rest) - Len(Magic)
    BY <1>2, <1>3 DEF m
  <2> QED
    BY <2>1, <2>2 DEF m
<1>5. /\ cut \in Seq(Byte) /\ Len(cut) = m
      /\ \A i \in 1 .. m : cut[i] = rest[start + i]
  <2>1. start \in Nat /\ start + m <= l - 1 /\ m \in Nat \ {0}
    BY <1>1, <1>3
  <2> HIDE DEF start
  <2>2. \A i \in start + 1 .. start + m : rest[i] \in Byte
    BY <1>2, <2>1
  <2>3. /\ cut \in Seq(Byte)
        /\ Len(cut) = IF start + 1 <= start + m THEN (start + m) - (start + 1) + 1 ELSE 0
        /\ \A i \in 1 .. (start + m) - (start + 1) + 1 : cut[i] = rest[(start + 1) + i - 1]
    BY <1>2, <2>1, <2>2, SubSeqProperties
  <2> HIDE DEF cut
  <2>4. Len(cut) = m
    BY <2>1, <2>3
  <2>5. ASSUME NEW i \in 1 .. m PROVE cut[i] = rest[start + i]
    <3>1. i \in 1 .. (start + m) - (start + 1) + 1 /\ (start + 1) + i - 1 = start + i
      BY <2>1
    <3> QED
      BY <2>3, <3>1
  <2> QED
    BY <2>3, <2>4, <2>5
<1> HIDE DEF cut
<1>6. SUFFICES ASSUME \A i \in 1 .. m : Magic[i] = f[k - m + i]
               PROVE  FALSE
  BY DEF f, m
<1>7. \A i \in 1 .. m : cut[i] = Magic[i]
  <2> SUFFICES ASSUME NEW i \in 1 .. m
               PROVE  cut[i] = Magic[i]
    OBVIOUS
  <2>1. start + i \in 1 .. l - 1 /\ (start + i) + 1 = k - m + i
    BY <1>1, <1>3
  <2>2. rest[start + i] = f[(start + i) + 1]
    BY <1>2, <2>1
  <2> QED
    BY <1>5, <1>6, <2>1, <2>2
<1>8. cut = Magic
  BY <1>1, <1>5, <1>7, SeqEqual DEF m
<1> QED
  BY <1>4, <1>8

-----------------------------------------------------------------------------
(* A byte takes the parser one further or back to the start of a magic,    *)
(* and it cannot go further than the longest frame.                        *)
LEMMA ByteOnOrAfresh ==
  ASSUME ParserInv, NEW b \in Byte, ProcessByte(b)
  PROVE  \/ OffsetMet' = OffsetMet + 1
         \/ OffsetMet' = 0 /\ DataMet' = << >>
PROOF
<1>1. CASE MagicByte(b)
  <2>1. DataMet = << >>
    BY <1>1, MetState, FrameAssumption DEF MagicByte, InMagic
  <2>2. /\ isInDoneState' = FALSE /\ netData' = << >>
        /\ packetOffset' = OffsetMet + 1 \/ packetOffset' = 0
    BY <1>1, <2>1 DEF MagicByte
  <2> QED
    BY <2>2 DEF OffsetMet, DataMet
<1>2. CASE HeaderByte(b) \/ ContentByte(b)
  BY <1>2 DEF HeaderByte, ContentByte, Store, OffsetMet
<1>3. CASE RejectHeader(b) \/ RejectChecksum(b)
  BY <1>3 DEF RejectHeader, RejectChecksum, Restart, OffsetMet, DataMet
<1>4. CASE Complete(b)
  BY <1>4 DEF Complete, OffsetMet, DataMet
<1> QED
  BY <1>1, <1>2, <1>3, <1>4 DEF ProcessByte

LEMMA ReachPositive ==
  ParserInv => /\ OffsetMet \in Nat
               /\ Reach \in Nat \ {0}
               /\ Reach <= ShortestFrame + MaxNetworkLength
               /\ Reach = (ShortestFrame + MaxNetworkLength) - OffsetMet
PROOF
<1> SUFFICES ASSUME ParserInv
             PROVE  /\ OffsetMet \in Nat
                    /\ Reach \in Nat \ {0}
                    /\ Reach <= ShortestFrame + MaxNetworkLength
                    /\ Reach = (ShortestFrame + MaxNetworkLength) - OffsetMet
  OBVIOUS
<1> DEFINE o == OffsetMet
           m == Len(Magic)
           x == MaxNetworkLength
<1>1. /\ o \in Nat /\ DataMet \in Seq(Byte)
      /\ Len(DataMet) <= x + 7
      /\ o < m \/ o = m + Len(DataMet)
  BY MetState DEF HeaderLen, LenBytes, TypeBytes, SumBytes
<1>2. m \in Nat \ {0} /\ x \in Nat /\ ShortestFrame = m + 8
  BY LimitFacts
<1>3. Reach = m + 7 + x + 1 - o
  BY DEF Reach, HeaderLen, LenBytes, TypeBytes, SumBytes
<1>4. Len(DataMet) \in Nat
  BY <1>1
<1> DEFINE l == Len(DataMet)
<1>5. l \in Nat /\ l <= x + 7 /\ (o < m \/ o = m + l) /\ o \in Nat
  BY <1>1, <1>4
<1> HIDE DEF o, m, x, l
<1>6. o <= m + x + 7
  BY <1>2, <1>5
<1>7. /\ Reach \in Nat \ {0} /\ Reach <= ShortestFrame + x
      /\ Reach = (ShortestFrame + x) - o
  BY <1>2, <1>3, <1>5, <1>6
<1> QED
  BY <1>5, <1>7 DEF o, x

(* The cursor passes a frame's end, enters the next frame or goes on in    *)
(* the one it is in.                                                       *)
LEMMA CursorMoves ==
  ASSUME LinkTypeOK, TakeByte
  PROVE  \/ /\ byteNo > 0 /\ byteNo' = 0 /\ frameNo' = frameNo + 1
            /\ byteNo + 1 = FrameLen(sent[frameNo])
            /\ CutFrame = 1 /\ Remaining = 1 /\ CutFrame' = 0 /\ Remaining' = 0
         \/ /\ byteNo = 0 /\ byteNo' = 1 /\ frameNo' = frameNo
            /\ CutFrame = 0 /\ Remaining = 0 /\ CutFrame' = 1
            /\ Remaining' \in Nat /\ Remaining' + 1 >= ShortestFrame
         \/ /\ byteNo > 0 /\ byteNo' = byteNo + 1 /\ frameNo' = frameNo
            /\ byteNo + 1 < FrameLen(sent[frameNo])
            /\ CutFrame = 1 /\ CutFrame' = 1
            /\ Remaining' \in Nat /\ Remaining = Remaining' + 1
PROOF
<1> DEFINE l == FrameLen(sent[frameNo])
           k == byteNo
<1>1. /\ k \in Nat /\ k < l /\ sent' = sent
      /\ IF k + 1 = l THEN frameNo' = frameNo + 1 /\ byteNo' = 0
                      ELSE frameNo' = frameNo /\ byteNo' = k + 1
  BY DEF TakeByte, OnTheLine, LinkTypeOK
<1>2. l \in Nat /\ l >= ShortestFrame /\ ShortestFrame \in Nat /\ ShortestFrame >= 2
  BY TakeByteTyped, LimitFacts
<1>3. /\ Remaining = IF k = 0 THEN 0 ELSE l - k
      /\ CutFrame = IF k = 0 THEN 0 ELSE 1
      /\ frameNo' = frameNo => Remaining' = IF byteNo' = 0 THEN 0 ELSE l - byteNo'
      /\ byteNo' = 0 => Remaining' = 0
      /\ CutFrame' = IF byteNo' = 0 THEN 0 ELSE 1
  BY <1>1 DEF Remaining, CutFrame
<1>4. CASE k + 1 = l
  <2>1. k > 0 /\ l - k = 1 /\ k # 0
    BY <1>1, <1>2, <1>4
  <2>2. frameNo' = frameNo + 1 /\ byteNo' = 0
    BY <1>1, <1>4
  <2>3. CutFrame = 1 /\ Remaining = 1 /\ CutFrame' = 0 /\ Remaining' = 0
    BY <1>3, <2>1, <2>2
  <2> QED
    BY <1>4, <2>1, <2>2, <2>3
<1>5. CASE k + 1 # l /\ k = 0
  <2>1. frameNo' = frameNo /\ byteNo' = 1
    BY <1>1, <1>5
  <2>2. CutFrame = 0 /\ Remaining = 0 /\ CutFrame' = 1 /\ Remaining' = l - 1
    BY <1>3, <1>5, <2>1
  <2>3. l - 1 \in Nat /\ (l - 1) + 1 >= ShortestFrame
    BY <1>2
  <2> QED
    BY <1>5, <2>1, <2>2, <2>3
<1>6. CASE k + 1 # l /\ k # 0
  <2>1. frameNo' = frameNo /\ byteNo' = k + 1 /\ k + 1 # 0
    BY <1>1, <1>6
  <2>2. CutFrame = 1 /\ Remaining = l - k /\ CutFrame' = 1 /\ Remaining' = l - (k + 1)
    BY <1>3, <1>6, <2>1
  <2>3. l - (k + 1) \in Nat /\ l - k = (l - (k + 1)) + 1 /\ k > 0 /\ k + 1 < l
    BY <1>1, <1>2, <1>6
  <2> QED
    BY <2>1, <2>2, <2>3
<1> QED
  BY <1>4, <1>5, <1>6

(* With the frame the cursor is in counted as missed, a step of the cursor *)
(* adds at most one, the frame it enters.                                  *)
LEMMA MissedMoves ==
  ASSUME LinkTypeOK, LinkTypeOK', TakeByte,
         Len(delivered') >= Len(delivered)
  PROVE  /\ Missed \in Int /\ Missed' \in Int /\ CutFrame' \in 0 .. 1 /\ CutFrame \in 0 .. 1
         /\ Missed' + CutFrame' <= Missed + 1
PROOF
<1> DEFINE a == frameNo
           x == Len(delivered)
           c == a'
           y == x'
<1>1. a \in Int /\ c \in Int /\ x \in Nat /\ y \in Nat /\ y >= x
  BY DEF LinkTypeOK
<1>2. Missed = (a - 1) - x /\ Missed' = (c - 1) - y
  BY DEF Missed
<1>3. \/ c = a + 1 /\ CutFrame' = 0
      \/ c = a /\ CutFrame' = 1
  BY CursorMoves
<1>4. CutFrame' \in 0 .. 1 /\ CutFrame \in 0 .. 1
  BY <1>3, CursorMoves
<1> HIDE DEF a, x, c, y
<1>5. (a - 1) - x \in Int /\ (c - 1) - y \in Int
  BY <1>1
<1>6. /\ c = a + 1 => (c - 1) - y <= ((a - 1) - x) + 1
      /\ c = a => (c - 1) - y <= (a - 1) - x
  BY <1>1
<1> DEFINE before == (a - 1) - x
           after  == (c - 1) - y
           cut    == CutFrame'
<1>7. /\ before \in Int /\ after \in Int
      /\ \/ after <= before + 1 /\ cut = 0
         \/ after <= before /\ cut = 1
  BY <1>3, <1>5, <1>6
<1> HIDE DEF before, after, cut
<1>8. after + cut <= before + 1
  BY <1>7
<1> QED
  BY <1>2, <1>4, <1>5, <1>8 DEF before, after, cut

(* At the start of a magic the parser is in step between two frames and    *)
(* hunts within one, which it is bound to miss.                            *)
LEMMA AfreshPaid ==
  LinkTypeOK /\ OffsetMet = 0 /\ DataMet = << >> /\ Missed + CutFrame <= DamageLimit * lost
    => DamagePaid
PROOF
<1> SUFFICES ASSUME LinkTypeOK, OffsetMet = 0, DataMet = << >>,
                    Missed + CutFrame <= DamageLimit * lost
             PROVE  DamagePaid
  OBVIOUS
<1>1. byteNo \in Nat /\ Missed \in Int
  BY DEF LinkTypeOK, Missed
<1>2. CASE byteNo = 0
  <2>1. isInDoneState \/ (packetOffset = 0 /\ netData = << >>)
    BY DEF OffsetMet, DataMet
  <2>2. FollowsFrame
    BY <1>2, <2>1 DEF FollowsFrame
  <2>3. CutFrame = 0 /\ Missed + 0 = Missed
    BY <1>1, <1>2 DEF CutFrame
  <2> QED
    BY <2>2, <2>3 DEF DamagePaid
<1>3. CASE byteNo # 0
  <2>1. byteNo > 0 /\ CutFrame = 1
    BY <1>1, <1>3 DEF CutFrame
  <2>2. InMagic
    BY LimitFacts DEF InMagic
  <2>3. Hunting
    BY <2>1, <2>2 DEF Hunting
  <2> QED
    BY <2>1, <2>3 DEF DamagePaid
<1> QED
  BY <1>2, <1>3

(* A byte met in step keeps in step, and a frame that ends is delivered.   *)
LEMMA ReceiveInStepPaid ==
  ASSUME LinkTypeOK, LinkTypeOK', ParserInv, Receive, FollowsFrame,
         Missed <= DamageLimit * lost
  PROVE  DamagePaid'
PROOF
<1>1. FollowsFrame' /\ lost' = lost /\ TakeByte
  BY ReceiveFollows DEF Receive
<1>2. Missed' = Missed
  <2> DEFINE a == frameNo
             x == Len(delivered)
             c == a'
             y == x'
  <2>1. a \in Int /\ x \in Nat /\ delivered \in Seq(Packet) /\ delivered' \in Seq(Packet)
    BY DEF LinkTypeOK
  <2>2. delivered' = IF byteNo' = 0 THEN Append(delivered, sent[frameNo]) ELSE delivered
    BY ReceiveFollows
  <2>3. sent[frameNo] \in Packet
    BY <1>1, TakeByteTyped, LinkAssumption
  <2>4. y = IF byteNo' = 0 THEN x + 1 ELSE x
    BY <2>1, <2>2, <2>3
  <2>5. c = IF byteNo' = 0 THEN a + 1 ELSE a
    <3>1. byteNo \in Nat /\ (byteNo > 0 => byteNo + 1 # 0)
      BY DEF LinkTypeOK
    <3> QED
      BY <1>1, <3>1, CursorMoves
  <2>6. Missed = (a - 1) - x /\ Missed' = (c - 1) - y
    BY DEF Missed
  <2> HIDE DEF a, x, c, y
  <2>7. (c - 1) - y = (a - 1) - x
    BY <2>1, <2>4, <2>5
  <2> QED
    BY <2>6, <2>7
<1>3. Missed' <= DamageLimit * lost'
  BY <1>1, <1>2
<1> QED
  BY <1>1, <1>3 DEF DamagePaid

(* A hunt within a frame without a magic goes on until the pad ends it.    *)
LEMMA ReceiveHuntingPaid ==
  ASSUME LinkTypeOK, LinkTypeOK', ParserInv, Receive, Hunting, MagicFree(sent[frameNo]),
         Missed + 1 <= DamageLimit * lost
  PROVE  DamagePaid'
PROOF
<1> DEFINE p == sent[frameNo]
           f == Frame(p)
           m == Len(Magic)
           k == byteNo
           o == OffsetMet
           b == f[k + 1]
<1>1. /\ TakeByte /\ ProcessByte(b) /\ lost' = lost /\ sent' = sent
      /\ delivered' = IF isInDoneState' THEN Append(delivered, CurrentPacket') ELSE delivered
  BY DEF Receive, TakeByte, NextByte
<1>2. p \in Packets /\ k \in Nat /\ k + 1 \in 1 .. FrameLen(p)
  BY <1>1, TakeByteTyped DEF FrameLen, LinkTypeOK
<1>3. /\ m \in Nat \ {0} /\ o \in Nat /\ o < m /\ o < k /\ k > 0
      /\ \A i \in 1 .. o : Magic[i] = f[k - o + i]
  BY MetState, LimitFacts DEF Hunting, InMagic
<1>4. DataMet = << >>
  BY <1>3, MetState
<1>5. MagicByte(b)
  BY <1>1 DEF ProcessByte, HeaderByte, RejectHeader, ContentByte, RejectChecksum, Complete,
              InHeader, InBody, Hunting
<1>6. /\ isInDoneState' = FALSE /\ netData' = << >>
      /\ packetOffset' = IF b = Magic[o + 1] THEN o + 1 ELSE 0
  BY <1>4, <1>5 DEF MagicByte
<1>7. /\ OffsetMet' = IF b = Magic[o + 1] THEN o + 1 ELSE 0
      /\ DataMet' = << >>
      /\ delivered' = delivered
  BY <1>1, <1>6 DEF OffsetMet, DataMet
<1>8. Missed' + CutFrame' <= DamageLimit * lost'
  <2>1. Len(delivered') >= Len(delivered)
    BY <1>7 DEF LinkTypeOK
  <2> DEFINE before == Missed
             after  == Missed'
             cut    == CutFrame'
             paid   == DamageLimit * lost
  <2>2. before \in Int /\ after \in Int /\ cut \in 0 .. 1 /\ after + cut <= before + 1
    BY <1>1, <2>1, MissedMoves
  <2>3. before + 1 <= paid
    OBVIOUS
  <2>4. paid \in Int
    BY LimitFacts DEF LinkTypeOK
  <2> HIDE DEF before, after, cut, paid
  <2>5. after + cut <= paid
    BY <2>2, <2>3, <2>4
  <2> QED
    BY <1>1, <2>5 DEF after, cut, paid
<1>9. CASE b # Magic[o + 1]
  <2>1. (/\ LinkTypeOK /\ OffsetMet = 0 /\ DataMet = << >>
         /\ Missed + CutFrame <= DamageLimit * lost)'
    BY <1>7, <1>8, <1>9
  <2> QED
    BY <2>1, AfreshPaid, PTL
<1>10. CASE b = Magic[o + 1]
  <2>1. k + 1 < FrameLen(p)
    <3>1. b # 0
      <4>1. o + 1 \in 1 .. Len(Magic)
        BY <1>3
      <4> QED
        BY <1>10, <4>1, PadAssumption
    <3>2. Frame(p)[Len(Frame(p))] = 0
      BY <1>2, FrameBytes
    <3>3. k + 1 # FrameLen(p)
      BY <3>1, <3>2 DEF FrameLen
    <3>4. FrameLen(p) \in Nat
      BY <1>2, LimitFacts
    <3> QED
      BY <1>2, <3>3, <3>4
  <2>2. byteNo' = k + 1 /\ frameNo' = frameNo /\ CutFrame' = 1
    <3>1. k + 1 # FrameLen(p) /\ k # 0
      BY <1>2, <1>3, <2>1, LimitFacts
    <3> QED
      BY <1>1, <3>1, CursorMoves
  <2>3. o + 1 < m
    <3> SUFFICES ASSUME o + 1 = m
                 PROVE  FALSE
      BY <1>3
    <3>1. k + 1 \in m + 1 .. FrameLen(p)
      BY <1>2, <1>3
    <3>2. PICK i \in 1 .. m : Magic[i] # f[(k + 1) - m + i]
      BY <1>2, <3>1, NoMagicInside
    <3>3. CASE i \in 1 .. o
      <4>1. (k + 1) - m + i = k - o + i
        BY <1>2, <1>3
      <4> QED
        BY <1>3, <3>2, <3>3, <4>1
    <3>4. CASE i \notin 1 .. o
      <4>1. i = o + 1 /\ (k + 1) - m + i = k + 1
        BY <1>2, <1>3, <3>4
      <4> QED
        BY <1>10, <3>2, <4>1
    <3> QED
      BY <3>3, <3>4
  <2>4. OffsetMet' = o + 1
    BY <1>7, <1>10
  <2>5. \A i \in 1 .. o + 1 : Magic[i] = f[(k + 1) - (o + 1) + i]
    <3> SUFFICES ASSUME NEW i \in 1 .. o + 1
                 PROVE  Magic[i] = f[(k + 1) - (o + 1) + i]
      OBVIOUS
    <3>1. CASE i \in 1 .. o
      <4>1. (k + 1) - (o + 1) + i = k - o + i
        BY <1>2, <1>3
      <4> QED
        BY <1>3, <3>1, <4>1
    <3>2. CASE i \notin 1 .. o
      <4>1. i = o + 1 /\ (k + 1) - (o + 1) + i = k + 1
        BY <1>2, <1>3, <3>2
      <4> QED
        BY <1>10, <4>1
    <3> QED
      BY <3>1, <3>2
  <2>6. Hunting'
    <3>1. k + 1 > 0 /\ o + 1 < k + 1
      BY <1>2, <1>3
    <3>2. InMagic'
      BY <2>3, <2>4 DEF InMagic
    <3> HIDE DEF o, k
    <3> QED
      BY <1>1, <2>2, <2>4, <2>5, <3>1, <3>2 DEF Hunting
  <2>7. Missed' + 1 <= DamageLimit * lost'
    BY <1>8, <2>2
  <2> QED
    BY <2>6, <2>7 DEF DamagePaid
<1> QED
  BY <1>9, <1>10

(* Astray, the parser uses its reach up as the cursor uses up the frames.  *)
LEMMA ReceiveAstrayPaid ==
  ASSUME LinkTypeOK, LinkTypeOK', ParserInv, ParserInv', Receive,
         NEW d \in Nat, Astray(d), Missed + CutFrame + d <= DamageLimit * lost
  PROVE  DamagePaid'
PROOF
<1> DEFINE w      == ShortestFrame
           reach  == Reach
           left   == Remaining
           cut    == CutFrame
           before == Missed
           after  == Missed'
           cutN   == CutFrame'
           leftN  == Remaining'
           reachN == Reach'
           paid   == DamageLimit * lost
<1>1. TakeByte /\ lost' = lost /\ NextByte \in Byte /\ ProcessByte(NextByte)
  BY TakeByteTyped DEF Receive
<1>2. Len(delivered') >= Len(delivered)
  <2>1. CASE isInDoneState'
    <3>1. CurrentPacket' \in Packet
      BY <1>1, <2>1, CompletedIsPacket
    <3>2. delivered' = Append(delivered, CurrentPacket') /\ delivered \in Seq(Packet)
      BY <2>1 DEF Receive, LinkTypeOK
    <3> QED
      BY <3>1, <3>2
  <2>2. CASE ~isInDoneState'
    BY <2>2 DEF Receive, LinkTypeOK
  <2> QED
    BY <2>1, <2>2
<1>3. /\ before \in Int /\ after \in Int /\ cut \in 0 .. 1 /\ cutN \in 0 .. 1
      /\ after + cutN <= before + 1
  BY <1>1, <1>2, MissedMoves
<1>4. paid \in Int /\ w \in Nat /\ reach \in Nat \ {0}
  BY LimitFacts, ReachPositive DEF LinkTypeOK
<1>5. reach <= left + d * w /\ before + cut + d <= paid
  BY DEF Astray
<1>6. \/ cut = 1 /\ left \in Nat /\ leftN = left - 1
      \/ cut = 0 /\ left = 0 /\ leftN \in Nat /\ leftN + 1 >= w
  <2>1. \/ cut = 1 /\ left = 1 /\ leftN = 0
        \/ cut = 0 /\ left = 0 /\ leftN \in Nat /\ leftN + 1 >= w
        \/ cut = 1 /\ leftN \in Nat /\ left = leftN + 1
    BY <1>1, CursorMoves
  <2> HIDE DEF cut, left, leftN
  <2> QED
    BY <2>1
<1>7. cut = 0 => d - 1 \in Nat /\ d * w = (d - 1) * w + w
  <2> SUFFICES ASSUME cut = 0
               PROVE  d - 1 \in Nat /\ d * w = (d - 1) * w + w
    OBVIOUS
  <2>1. left = 0
    BY <1>6
  <2> HIDE DEF w, reach, left
  <2>2. d # 0
    BY <1>4, <1>5, <2>1
  <2> QED
    BY <1>4, <2>2, FrameMore
<1>8. before + 1 <= paid
  <2>1. cut = 1 \/ (cut = 0 /\ d - 1 \in Nat)
    BY <1>6, <1>7
  <2> HIDE DEF cut, before, paid
  <2> QED
    BY <1>3, <1>4, <1>5, <2>1
<1>9. CASE OffsetMet' = 0 /\ DataMet' = << >>
  <2>1. after + cutN <= paid
    <3> HIDE DEF before, after, cutN, paid
    <3> QED
      BY <1>3, <1>4, <1>8
  <2>2. (/\ LinkTypeOK /\ OffsetMet = 0 /\ DataMet = << >>
         /\ Missed + CutFrame <= DamageLimit * lost)'
    BY <1>1, <1>9, <2>1
  <2> QED
    BY <2>2, AfreshPaid, PTL
<1>10. CASE OffsetMet' = OffsetMet + 1
  <2>1. reachN = reach - 1
    <3> DEFINE o == OffsetMet
               full == ShortestFrame + MaxNetworkLength
    <3>1. o \in Nat /\ reach = full - o
      BY ReachPositive
    <3>2. reachN = full - OffsetMet'
      <4>1. (Reach = (ShortestFrame + MaxNetworkLength) - OffsetMet)'
        BY ReachPositive, PTL
      <4> QED
        BY <4>1
    <3>3. full \in Nat
      BY LimitFacts
    <3> HIDE DEF full, reach, reachN
    <3>4. reachN = full - (o + 1)
      BY <1>10, <3>2
    <3> HIDE DEF o
    <3> QED
      BY <3>1, <3>3, <3>4
  <2>2. \E e \in Nat : reachN <= leftN + e * w /\ after + cutN + e <= paid
    <3>1. CASE cut = 1
      <4>1. left \in Nat /\ leftN = left - 1
        BY <1>6, <3>1
      <4>2. d * w \in Nat
        BY <1>4, FrameMore
      <4> DEFINE more == d * w
      <4>3. reach <= left + more /\ more \in Nat
        BY <1>5, <4>2
      <4> HIDE DEF w, reach, left, cut, before, after, cutN, leftN, reachN, paid, more
      <4>4. reachN <= leftN + more
        BY <1>4, <2>1, <4>1, <4>3
      <4>5. after + cutN + d <= paid
        BY <1>3, <1>4, <1>5, <3>1
      <4> QED
        BY <4>4, <4>5 DEF more
    <3>2. CASE cut = 0
      <4>1. left = 0 /\ leftN \in Nat /\ leftN + 1 >= w
        BY <1>6, <3>2
      <4>2. d - 1 \in Nat /\ d * w = (d - 1) * w + w
        BY <1>7, <3>2
      <4> DEFINE e    == d - 1
                 more == e * w
      <4>3. more \in Nat /\ reach <= more + w
        BY <1>4, <1>5, <4>1, <4>2, FrameMore
      <4> HIDE DEF w, reach, left, cut, before, after, cutN, leftN, reachN, paid, more
      <4>4. reachN <= leftN + more
        BY <1>4, <2>1, <4>1, <4>3
      <4>5. after + cutN + e <= paid
        BY <1>3, <1>4, <1>5, <3>2
      <4>6. e \in Nat
        BY <4>2
      <4> HIDE DEF e
      <4> QED
        BY <4>4, <4>5, <4>6 DEF more
    <3> QED
      BY <1>6, <3>1, <3>2
  <2>3. PICK e \in Nat : reachN <= leftN + e * w /\ after + cutN + e <= paid
    BY <2>2
  <2>4. Astray(e)' /\ Missed' + CutFrame' + e <= DamageLimit * lost'
    BY <1>1, <2>3 DEF Astray
  <2> QED
    BY <2>4 DEF DamagePaid
<1> QED
  BY <1>1, <1>9, <1>10, ByteOnOrAfresh

(* A byte lost anywhere leaves the parser astray, for no longer than one   *)
(* more loss allows; a parser that was astray already goes one frame       *)
(* further at most.                                                        *)
LEMMA DropPaid ==
  ASSUME LinkTypeOK, LinkTypeOK', ParserInv, Drop, DamagePaid
  PROVE  DamagePaid'
PROOF
<1> DEFINE w      == ShortestFrame
           x      == MaxNetworkLength
           limit  == DamageLimit
           reach  == Reach
           left   == Remaining
           cut    == CutFrame
           before == Missed
           after  == Missed'
           cutN   == CutFrame'
           leftN  == Remaining'
           paid   == DamageLimit * lost
           room   == (DamageLimit - 1) * ShortestFrame
<1>1. TakeByte /\ lost' = lost + 1 /\ delivered' = delivered
  BY DEF Drop
<1>2. /\ before \in Int /\ after \in Int /\ cut \in 0 .. 1 /\ cutN \in 0 .. 1
      /\ after + cutN <= before + 1
  BY <1>1, MissedMoves DEF LinkTypeOK
<1>3. Reach' = reach
  BY DEF Drop, parserVars, Reach, OffsetMet
<1>4. /\ w \in Nat /\ x \in Nat /\ limit \in Nat /\ limit >= 2
      /\ paid \in Int /\ DamageLimit * lost' = paid + limit
  BY <1>1, LimitFacts DEF LinkTypeOK
<1>5. /\ x + 1 <= room /\ room \in Nat
      /\ limit * w = room + w
      /\ limit - 1 \in Nat
  <2>1. limit - 1 \in Nat /\ x + 1 <= room
    BY LimitFacts
  <2> QED
    BY <1>4, <2>1, FrameMore
<1>6. /\ left \in Nat /\ leftN \in Nat
      /\ \/ leftN = left - 1 /\ left > 0
         \/ left = 0 /\ leftN + 1 >= w
  <2>1. /\ left \in Nat /\ leftN \in Nat
        /\ \/ left = 1 /\ leftN = 0
           \/ left = 0 /\ leftN + 1 >= w
           \/ left = leftN + 1
    <3>1. \/ left = 1 /\ leftN = 0
          \/ left = 0 /\ leftN \in Nat /\ leftN + 1 >= w
          \/ leftN \in Nat /\ left = leftN + 1
      BY <1>1, CursorMoves
    <3> HIDE DEF left, leftN, w
    <3> QED
      BY <3>1
  <2> HIDE DEF left, leftN, w
  <2> QED
    BY <2>1
<1>7. reach \in Nat /\ reach <= w + x
  BY ReachPositive
<1>paid. SUFFICES \E e \in Nat : reach <= leftN + e * w /\ after + cutN + e <= paid + limit
  <2> SUFFICES ASSUME NEW e \in Nat, reach <= leftN + e * w, after + cutN + e <= paid + limit
               PROVE  DamagePaid'
    OBVIOUS
  <2>1. Astray(e)' /\ Missed' + CutFrame' + e <= DamageLimit * lost'
    BY <1>3, <1>4 DEF Astray
  <2> QED
    BY <2>1 DEF DamagePaid
(* Thrown off within a frame it followed, the parser needs what was left   *)
(* of the frame, and the longest content with the byte behind it.          *)
<1>8. CASE FollowsFrame /\ Missed <= DamageLimit * lost
  <2>1. OffsetMet = byteNo
    <3>1. byteNo \in Nat
      BY DEF LinkTypeOK
    <3> QED
      BY <1>8, <3>1 DEF FollowsFrame, OffsetMet
  <2>2. reach <= leftN + room
    <3> DEFINE k == byteNo
               l == FrameLen(sent[frameNo])
    <3>1. k \in Nat /\ l \in Nat /\ l >= w /\ leftN = l - (k + 1)
      <4>1. /\ frameNo \in 1 .. Len(sent) /\ k \in Nat /\ sent[frameNo] \in Packets
            /\ sent' = sent
        BY <1>1, TakeByteTyped DEF LinkTypeOK, TakeByte, OnTheLine
      <4>2. l \in Nat /\ l >= w
        BY <4>1, LimitFacts
      <4>3. CASE k + 1 = l
        <5>1. leftN = 0
          BY <1>1, <4>1, <4>2, <4>3 DEF TakeByte, Remaining
        <5> QED
          BY <4>1, <4>2, <4>3, <5>1
      <4>4. CASE k + 1 # l
        <5>1. byteNo' = k + 1 /\ frameNo' = frameNo /\ k + 1 # 0
          BY <1>1, <4>1, <4>4 DEF TakeByte
        <5>2. leftN = l - (k + 1)
          BY <4>1, <5>1 DEF Remaining
        <5> QED
          BY <4>1, <4>2, <5>2
      <4> QED
        BY <4>3, <4>4
    <3>2. reach = (w + x) - k
      BY <2>1, ReachPositive
    <3> HIDE DEF k, l, w, x, reach, leftN, room
    <3> QED
      BY <1>4, <1>5, <3>1, <3>2
  <2>3. after + cutN + (limit - 1) <= paid + limit
    <3>1. before <= paid
      BY <1>8
    <3> HIDE DEF before, after, cutN, limit, paid
    <3> QED
      BY <1>2, <1>4, <3>1
  <2> DEFINE e == limit - 1
  <2>4. e \in Nat /\ reach <= leftN + e * w /\ after + cutN + e <= paid + limit
    BY <1>5, <2>2, <2>3
  <2> HIDE DEF e, reach, leftN, w, after, cutN, paid, limit
  <2> QED
    BY <2>4
<1>9. CASE Hunting /\ Missed + 1 <= DamageLimit * lost
  <2>1. after + cutN + limit <= paid + limit
    <3>1. before + 1 <= paid
      BY <1>9
    <3> HIDE DEF before, after, cutN, limit, paid
    <3> QED
      BY <1>2, <1>4, <3>1
  <2>2. reach <= leftN + limit * w
    <3> DEFINE more == limit * w
    <3>1. more = room + w
      BY <1>5
    <3> HIDE DEF reach, leftN, w, room, x, more
    <3> QED
      BY <1>4, <1>5, <1>6, <1>7, <3>1
  <2> HIDE DEF reach, leftN, w, after, cutN, paid, limit
  <2> QED
    BY <1>4, <2>1, <2>2
<1>10. ASSUME NEW d \in Nat, Astray(d), Missed + CutFrame + d <= DamageLimit * lost
       PROVE  \E e \in Nat : reach <= leftN + e * w /\ after + cutN + e <= paid + limit
  <2> DEFINE e    == d + 1
             more == d * w
  <2>1. reach <= left + more /\ before + cut + d <= paid
    BY <1>10 DEF Astray
  <2>2. more \in Nat /\ e * w = more + w /\ e \in Nat
    BY <1>4, FrameMore
  <2>3. w >= 1
    BY LimitFacts
  <2>4. reach <= leftN + (more + w)
    <3> HIDE DEF reach, left, leftN, w, more
    <3> QED
      BY <1>4, <1>6, <1>7, <2>1, <2>2, <2>3
  <2>5. after + cutN + e <= paid + limit
    <3> HIDE DEF before, after, cut, cutN, limit, paid
    <3> QED
      BY <1>2, <1>4, <2>1
  <2> HIDE DEF reach, leftN, w, after, cutN, paid, limit, more, e
  <2> QED
    BY <2>2, <2>4, <2>5
<1> QED
  BY <1>8, <1>9, <1>10 DEF DamagePaid

(* A restart of the controller starts the parser afresh.                   *)
LEMMA RebootPaid ==
  ASSUME LinkTypeOK, LinkTypeOK', ParserInv, Reboot, DamagePaid
  PROVE  DamagePaid'
PROOF
<1> DEFINE before == Missed
           cut    == CutFrame
           limit  == DamageLimit
           paid   == DamageLimit * lost
<1>1. /\ OffsetMet' = 0 /\ DataMet' = << >> /\ lost' = lost + 1
      /\ Missed' = before /\ CutFrame' = cut
  BY DEF Reboot, OffsetMet, DataMet, Missed, CutFrame
<1>2. before \in Int /\ cut \in 0 .. 1
  BY DEF LinkTypeOK, Missed, CutFrame
<1>3. limit \in Nat /\ limit >= 2 /\ paid \in Int /\ DamageLimit * lost' = paid + limit
  BY <1>1, LimitFacts DEF LinkTypeOK
<1>4. before <= paid
  <2>1. CASE Missed <= paid \/ Missed + 1 <= paid
    <3> HIDE DEF before, paid
    <3>1. before <= paid \/ before + 1 <= paid
      BY <2>1 DEF before
    <3> QED
      BY <1>2, <1>3, <3>1
  <2>2. ASSUME NEW d \in Nat, Missed + CutFrame + d <= paid
        PROVE  before <= paid
    <3>1. before + cut + d <= paid
      BY <2>2
    <3> HIDE DEF before, cut, paid
    <3> QED
      BY <1>2, <1>3, <3>1
  <2> QED
    BY <2>1, <2>2 DEF DamagePaid
<1>5. before + cut <= paid + limit
  <2> HIDE DEF before, cut, paid, limit
  <2> QED
    BY <1>2, <1>3, <1>4
<1>6. (/\ LinkTypeOK /\ OffsetMet = 0 /\ DataMet = << >>
       /\ Missed + CutFrame <= DamageLimit * lost)'
  BY <1>1, <1>3, <1>5
<1> QED
  BY <1>6, AfreshPaid, PTL

(* Sending changes nothing of the frames the cursor has reached.           *)
LEMMA SendPaid ==
  ASSUME LinkTypeOK, NEW p \in Packets, Send(p), DamageInv
  PROVE  DamageInv'
PROOF
<1>1. /\ sent' = Append(sent, p) /\ sent \in Seq(Packets)
      /\ UNCHANGED << netData, packetOffset, isInDoneState, frameNo, byteNo, delivered, lost >>
  BY DEF Send, parserVars, LinkTypeOK
<1>2. /\ Len(sent') = Len(sent) + 1 /\ Len(sent) \in Nat
      /\ \A i \in 1 .. Len(sent) : sent'[i] = sent[i]
  BY <1>1
<1>3. byteNo # 0 => sent'[frameNo'] = sent[frameNo]
  BY <1>1, <1>2 DEF LinkTypeOK, OnTheLine
<1>4. byteNo \in Nat
  BY DEF LinkTypeOK
<1>5. ASSUME MagicFreeLine'
      PROVE  MagicFreeLine
  <2>1. \A i \in 1 .. Len(sent') : MagicFree(sent'[i])
    BY <1>5 DEF MagicFreeLine, MagicFree
  <2>2. \A i \in 1 .. Len(sent) : i \in 1 .. Len(sent')
    BY <1>2
  <2> QED
    BY <1>2, <2>1, <2>2 DEF MagicFreeLine
<1>6. /\ OffsetMet' = OffsetMet /\ Missed' = Missed /\ CutFrame' = CutFrame
      /\ lost' = lost
  BY <1>1 DEF OffsetMet, Missed, CutFrame
<1>7. Remaining' = Remaining /\ Reach' = Reach
  BY <1>1, <1>3, <1>6 DEF Remaining, Reach
<1>8. FollowsFrame => FollowsFrame'
  <2>1. CASE byteNo = 0
    BY <1>1, <2>1 DEF FollowsFrame
  <2>2. CASE byteNo # 0
    BY <1>1, <1>3, <2>2 DEF FollowsFrame
  <2> QED
    BY <2>1, <2>2
<1>9. Hunting => Hunting'
  <2> SUFFICES ASSUME Hunting
               PROVE  Hunting'
    OBVIOUS
  <2>1. byteNo # 0 /\ byteNo > 0
    BY <1>4 DEF Hunting
  <2> QED
    BY <1>1, <1>3, <1>6, <2>1 DEF Hunting, InMagic
<1>10. \A d \in Nat : Astray(d) => Astray(d)'
  BY <1>7 DEF Astray
<1>11. DamagePaid => DamagePaid'
  BY <1>6, <1>8, <1>9, <1>10 DEF DamagePaid
<1> QED
  BY <1>5, <1>11 DEF DamageInv

THEOREM DamageInvariant == LinkSpec => []DamageInv
PROOF
<1>1. LinkInit => DamageInv
  <2> SUFFICES ASSUME LinkInit
               PROVE  DamagePaid
    BY DEF DamageInv
  <2>1. FollowsFrame
    BY DEF LinkInit, ParserInit, FollowsFrame
  <2>2. Missed = 0
    <3>1. frameNo = 1 /\ delivered = << >> /\ Len(delivered) = 0
      BY DEF LinkInit
    <3>2. Missed = (1 - 1) - 0
      BY <3>1, Zenon DEF Missed
    <3> QED
      BY <3>2
  <2>3. DamageLimit * lost = 0
    BY LimitFacts DEF LinkInit
  <2> QED
    BY <2>1, <2>2, <2>3 DEF DamagePaid
<1>2. LinkInv /\ LinkInv' /\ DamageInv /\ [LinkNext]_linkVars => DamageInv'
  <2> SUFFICES ASSUME LinkInv, LinkInv', DamageInv, [LinkNext]_linkVars
               PROVE  DamageInv'
    OBVIOUS
  <2>1. LinkTypeOK /\ LinkTypeOK' /\ ParserInv /\ ParserInv'
    BY DEF LinkInv
  <2>2. ASSUME NEW p \in Packets, Send(p)
        PROVE  DamageInv'
    BY <2>1, <2>2, SendPaid
  <2>3. ASSUME Receive, MagicFreeLine, DamagePaid
        PROVE  DamagePaid'
    <3>1. MagicFree(sent[frameNo])
      BY <2>1, <2>3 DEF Receive, TakeByte, OnTheLine, LinkTypeOK, MagicFreeLine
    <3> QED
      BY <2>1, <2>3, <3>1, ReceiveInStepPaid, ReceiveHuntingPaid, ReceiveAstrayPaid
      DEF DamagePaid
  <2>4. ASSUME Receive \/ Drop \/ Reboot
        PROVE  DamageInv'
    <3>1. sent' = sent
      BY <2>4 DEF Receive, Drop, Reboot, TakeByte
    <3>2. MagicFreeLine' => MagicFreeLine
      BY <3>1 DEF MagicFreeLine, MagicFree
    <3>3. DamagePaid => DamagePaid' \/ ~MagicFreeLine
      BY <2>1, <2>3, <2>4, DropPaid, RebootPaid
    <3> QED
      BY <3>2, <3>3 DEF DamageInv
  <2>5. CASE UNCHANGED linkVars
    <3>1. UNCHANGED << netData, packetOffset, isInDoneState, sent, frameNo, byteNo,
                       delivered, lost >>
      BY <2>5 DEF linkVars, lineVars, parserVars
    <3>2. MagicFreeLine' = MagicFreeLine
      BY <3>1 DEF MagicFreeLine, MagicFree
    <3>3. DamagePaid' = DamagePaid
      BY <3>1
      DEF DamagePaid, FollowsFrame, Hunting, Astray, Missed, CutFrame, Remaining, Reach,
          OffsetMet, InMagic
    <3> QED
      BY <3>2, <3>3 DEF DamageInv
  <2> QED
    BY <2>2, <2>4, <2>5 DEF LinkNext
<1> QED
  BY <1>1, <1>2, LinkInvariant, PTL DEF LinkSpec

(* Whatever bytes are lost, and wherever the controller restarts: between  *)
(* packets that do not hold the magic, every loss costs at most the frames *)
(* that fit into the longest content and two more, for every content, byte *)
(* width, magic (the pad is no byte of it) and number of packets.          *)
THEOREM DamageStaysBounded == LinkSpec => []DamageBounded
PROOF
<1>1. LinkInv /\ DamageInv => DamageBounded
  <2> SUFFICES ASSUME LinkInv, MagicFreeLine, DamagePaid
               PROVE  (frameNo - 1) - Len(delivered) <= DamageLimit * lost
    BY DEF DamageInv, DamageBounded, MagicFreeLine
  <2> DEFINE before == Missed
             cut    == CutFrame
             paid   == DamageLimit * lost
  <2>1. before \in Int /\ cut \in 0 .. 1 /\ paid \in Int
    BY LimitFacts DEF LinkInv, LinkTypeOK, Missed, CutFrame
  <2>2. before <= paid
    <3>1. CASE before <= paid \/ before + 1 <= paid
      <4> HIDE DEF before, paid
      <4> QED
        BY <2>1, <3>1
    <3>2. ASSUME NEW d \in Nat, before + cut + d <= paid
          PROVE  before <= paid
      <4> HIDE DEF before, cut, paid
      <4> QED
        BY <2>1, <3>2
    <3> QED
      BY <3>1, <3>2 DEF DamagePaid
  <2> QED
    BY <2>2 DEF Missed
<1> QED
  BY <1>1, LinkInvariant, DamageInvariant, PTL

-----------------------------------------------------------------------------
(* The wave of the sound-to-light component.                               *)

WaveTypeOK ==
  /\ wave \in [Nodes -> 0 .. MaxLum]
  /\ overflow \in 0 .. NodeTicks - 1
  /\ totalNodesReplaced \in 0 .. NumNodes
  /\ front \in 0 .. NumNodes
  /\ flashFade \in 0 .. FlashStart
  /\ flashMomentum \in Int /\ flashMomentum <= 0

WaveInv == WaveTypeOK /\ NoGaps

(* A set of naturals has a least element, so the faintest loud level is    *)
(* below all others.                                                       *)
LEMMA FaintestIsLeast ==
  ASSUME WaveSizes, NEW l \in Levels, l > 0
  PROVE  FaintestLoud \in Nat /\ FaintestLoud <= l
PROOF
<1> DEFINE Loud == Levels \ {0}
           Before == { p \in Nat \X Nat : p[1] < p[2] }
<1>1. Loud \subseteq Nat /\ l \in Loud
  BY DEF WaveSizes
<1>2. IsWellFoundedOn(Before, Nat)
  BY NatLessIsWellFounded
<1> HIDE DEF Loud, Before
<1>3. PICK x \in Loud : \A y \in Loud : ~ (<< y, x >> \in Before)
  <2>1. Loud # {}
    BY <1>1
  <2> QED
    BY <1>1, <1>2, <2>1, WFMin, Zenon
<1>4. \A y \in Loud : x <= y
  <2> SUFFICES ASSUME NEW y \in Loud PROVE x <= y
    OBVIOUS
  <2>1. x \in Nat /\ y \in Nat /\ ~ (<< y, x >> \in Before)
    BY <1>1, <1>3
  <2>2. ~ (y < x)
    BY <2>1 DEF Before
  <2> QED
    BY <2>1, <2>2
<1>5. FaintestLoud \in Loud /\ \A y \in Loud : FaintestLoud <= y
  BY <1>3, <1>4 DEF FaintestLoud, Loud
<1> QED
  BY <1>1, <1>5

(* A call moves the wave by less than its length, and the two nodes whose  *)
(* difference is the momentum lie within it.                               *)
LEMMA StepsWithin ==
  ASSUME WaveSizes, WaveTypeOK, NEW d \in Deltas
  PROVE  /\ Moved(d) \in Nat /\ Steps(d) \in Nat
         /\ Steps(d) + 1 \in Nodes
         /\ Clears(d) => Steps(d) = 0
         /\ ~ Clears(d) => Steps(d) = Moved(d)
PROOF
<1> DEFINE ticks == d + overflow
           half == NumNodes \div 2
<1>1. ticks \in Nat /\ NodeTicks \in Nat \ {0} /\ NumNodes \in Nat /\ NumNodes > 2
  <2>1. NumNodes \in Nat
    BY DEF WaveSizes, NumNodes
  <2> QED
    BY <2>1 DEF WaveSizes, WaveTypeOK
<1> HIDE DEF ticks
<1>2. ticks \div NodeTicks \in Nat
  BY <1>1
<1>3. Moved(d) = ticks \div NodeTicks
  BY DEF Moved, ticks
<1>4. half \in Nat /\ half + 1 < NumNodes
  BY <1>1
<1> HIDE DEF half
<1>5. Clears(d) <=> Moved(d) > half
  BY DEF Clears, half
<1>6. /\ Clears(d) => Steps(d) = 0
      /\ ~ Clears(d) => Steps(d) = Moved(d)
  BY DEF Steps
<1>7. Moved(d) \in Nat
  BY <1>2, <1>3
<1>8. Steps(d) \in Nat /\ Steps(d) <= half
  BY <1>4, <1>5, <1>6, <1>7
<1>9. Steps(d) + 1 \in 0 .. NumNodes - 1
  BY <1>1, <1>4, <1>8
<1> QED
  BY <1>6, <1>7, <1>8, <1>9 DEF Nodes

(* After the move, node n holds what node n - Steps(d) held, or all is     *)
(* dark.                                                                   *)
LEMMA ShiftedWave ==
  ASSUME WaveSizes, WaveTypeOK, NEW d \in Deltas
  PROVE  /\ Shifted(d) \in [Nodes -> 0 .. MaxLum]
         /\ ~ Clears(d) => \A n \in Nodes : n >= Steps(d) =>
              n - Steps(d) \in Nodes /\ Shifted(d)[n] = wave[n - Steps(d)]
PROOF
<1>1. /\ Moved(d) \in Nat
      /\ ~ Clears(d) => Steps(d) = Moved(d)
  BY StepsWithin
<1>2. NumNodes \in Nat /\ MaxLum \in Nat /\ wave \in [Nodes -> 0 .. MaxLum]
  BY DEF WaveSizes, NumNodes, WaveTypeOK
<1>3. \A n \in Nodes : n >= Moved(d) => n - Moved(d) \in Nodes
  BY <1>1, <1>2 DEF Nodes
<1>4. CASE Clears(d)
  BY <1>2, <1>4 DEF Shifted, Dark
<1>5. CASE ~ Clears(d)
  <2>1. Shifted(d) = [n \in Nodes |-> IF n >= Moved(d) THEN wave[n - Moved(d)] ELSE wave[n]]
    BY <1>5 DEF Shifted
  <2>2. \A n \in Nodes :
          (IF n >= Moved(d) THEN wave[n - Moved(d)] ELSE wave[n]) \in 0 .. MaxLum
    BY <1>2, <1>3
  <2>3. Shifted(d) \in [Nodes -> 0 .. MaxLum]
    BY <2>1, <2>2
  <2>4. \A n \in Nodes : n >= Moved(d) => Shifted(d)[n] = wave[n - Moved(d)]
    BY <2>1
  <2> QED
    BY <1>1, <1>3, <1>5, <2>3, <2>4
<1> QED
  BY <1>4, <1>5

LEMMA ConstrainBounded ==
  ASSUME NEW high \in Nat, NEW v \in Int
  PROVE  Constrain(v, 0, high) \in 0 .. high
PROOF
  BY DEF Constrain, Greatest, Least

(* The tail falls within the luminances.                                   *)
LEMMA FallingBounded ==
  ASSUME WaveSizes, NEW w \in [Nodes -> 0 .. MaxLum], NEW k \in Nat, k + 1 \in Nodes
  PROVE  \A n \in 0 .. k : Falling(w, k)[n] \in 0 .. MaxLum
PROOF
<1> DEFINE S == 0 .. MaxLum
           m == Momentum(w, k)
           Lum(v, n) == Constrain(v + m - n * Fall, 0, MaxLum)
           step == [n \in 1 .. k |-> [v \in S |-> Lum(v, n)]]
           Falls(f) == f = [n \in 0 .. k |-> IF n = 0 THEN w[k] ELSE Lum(f[n - 1], n)]
<1>1. w[k] \in S /\ m \in Int /\ MaxLum \in Nat /\ Fall \in Nat
  <2>1. k \in Nodes /\ NumNodes \in Nat /\ MaxLum \in Nat /\ Fall \in Nat
    BY DEF Nodes, WaveSizes, NumNodes
  <2>2. w[k] \in 0 .. MaxLum /\ w[k + 1] \in 0 .. MaxLum
    BY <2>1
  <2> QED
    BY <2>1, <2>2 DEF Momentum, Least
<1> HIDE DEF m
<1>2. ASSUME NEW v \in S, NEW n \in Nat PROVE Lum(v, n) \in S
  <2>1. n * Fall \in Nat
    BY <1>1
  <2>2. v + m - n * Fall \in Int
    BY <1>1, <2>1
  <2> QED
    BY <1>1, <2>2, ConstrainBounded
<1> HIDE DEF Lum, S
<1>3. step \in Steppers(S, k)
  <2>1. \A n \in 1 .. k : [v \in S |-> Lum(v, n)] \in [S -> S]
    BY <1>2
  <2> QED
    BY <2>1 DEF Steppers
<1>4. PICK f \in [0 .. k -> S] :
        f[0] = w[k] /\ \A n \in 1 .. k : f[n] = step[n][f[n - 1]]
  <2> HIDE DEF step
  <2>1. \E f : f \in Recursions(S, w[k], k, step)
    BY <1>1, <1>3, RecursionExists
  <2> QED
    BY <2>1 DEF Recursions
<1>5. Falls(f)
  <2>1. ASSUME NEW n \in 1 .. k PROVE f[n] = Lum(f[n - 1], n)
    <3>1. n - 1 \in 0 .. k
      OBVIOUS
    <3>2. f[n - 1] \in S
      BY <3>1
    <3>3. step[n][f[n - 1]] = Lum(f[n - 1], n)
      BY <3>2
    <3> QED
      BY <1>4, <3>3
  <2>2. \A n \in 0 .. k : f[n] = IF n = 0 THEN w[k] ELSE Lum(f[n - 1], n)
    <3> SUFFICES ASSUME NEW n \in 0 .. k
                 PROVE  f[n] = IF n = 0 THEN w[k] ELSE Lum(f[n - 1], n)
      OBVIOUS
    <3> HIDE DEF step
    <3>1. n = 0 \/ n \in 1 .. k
      OBVIOUS
    <3> QED
      BY <1>4, <2>1, <3>1
  <2> HIDE DEF step
  <2> QED
    BY <2>2
<1> DEFINE r == Falling(w, k)
<1>6. Falls(r)
  <2>1. r = CHOOSE g : Falls(g)
    BY DEF Falling, Lum, m
  <2> HIDE DEF Falls
  <2> QED
    BY <1>5, <2>1
<1>7. \A n \in 0 .. k : r[n] = IF n = 0 THEN w[k] ELSE Lum(r[n - 1], n)
  <2> HIDE DEF r
  <2> QED
    BY <1>6
<1> HIDE DEF r
<1> DEFINE T == { n \in Nat : n <= k => r[n] \in S }
<1>8. 0 \in T
  BY <1>1, <1>7
<1>9. ASSUME NEW n \in Nat, n \in T PROVE n + 1 \in T
  <2> SUFFICES ASSUME n + 1 <= k PROVE r[n + 1] \in S
    OBVIOUS
  <2>1. n + 1 \in 0 .. k /\ n + 1 # 0 /\ (n + 1) - 1 = n /\ n <= k
    OBVIOUS
  <2>2. r[n + 1] = Lum(r[n], n + 1)
    BY <1>7, <2>1
  <2>3. r[n] \in S
    BY <1>9, <2>1
  <2> QED
    BY <1>2, <2>2, <2>3
<1>10. \A n \in Nat : n \in T
  <2> HIDE DEF T
  <2> QED
    BY <1>8, <1>9, SetInduction
<1> QED
  BY <1>10 DEF r, S

LEMMA FallenWave ==
  ASSUME WaveSizes, NEW w \in [Nodes -> 0 .. MaxLum], NEW k \in Nat, k + 1 \in Nodes
  PROVE  /\ Fallen(w, k) \in [Nodes -> 0 .. MaxLum]
         /\ \A n \in Nodes : n >= k => Fallen(w, k)[n] = w[n]
PROOF
<1>1. ASSUME NEW n \in Nodes, n < k PROVE Falling(w, k)[k - n] \in 0 .. MaxLum
  <2>1. k - n \in 0 .. k
    BY <1>1 DEF Nodes
  <2> QED
    BY <2>1, FallingBounded
<1>2. \A n \in Nodes : (IF n < k THEN Falling(w, k)[k - n] ELSE w[n]) \in 0 .. MaxLum
  BY <1>1
<1>3. \A n \in Nodes : n >= k => ~ (n < k)
  BY DEF Nodes
<1> QED
  BY <1>2, <1>3 DEF Fallen

LEMMA RepeatedWave ==
  ASSUME NEW w \in [Nodes -> 0 .. MaxLum], NEW k \in Nodes
  PROVE  /\ Repeated(w, k) \in [Nodes -> 0 .. MaxLum]
         /\ \A n \in Nodes : Repeated(w, k)[n] = IF n < k THEN w[k] ELSE w[n]
PROOF
  BY DEF Repeated

(* The fading flash only ever gets darker, and never negative.             *)
LEMMA FlashFades ==
  ASSUME WaveSizes, NEW fade \in 0 .. FlashStart, NEW momentum \in Int, momentum <= 0,
         NEW d \in Deltas, ContinueFlash(fade, momentum, d)
  PROVE  flashFade' \in 0 .. FlashStart /\ flashMomentum' \in Int /\ flashMomentum' <= 0
PROOF
<1> DEFINE pull == FlashPull * d
<1>1. d \in Nat /\ FlashPull \in Nat /\ FlashStart \in Nat
  BY DEF WaveSizes
<1>2. pull \in Nat
  BY <1>1
<1> HIDE DEF pull
<1>3. CASE fade > 0
  <2>1. flashMomentum' = momentum - pull /\ flashFade' = Greatest(0, fade + flashMomentum' * d)
    BY <1>3 DEF ContinueFlash, pull
  <2> PICK v : v = momentum - pull
    OBVIOUS
  <2>2. v \in Int /\ v <= 0
    BY <1>2
  <2> PICK moved : moved = v * d
    OBVIOUS
  <2>3. moved \in Int /\ moved <= 0
    BY <1>1, <2>2
  <2>4. flashMomentum' = v /\ flashFade' = Greatest(0, fade + moved)
    BY <2>1
  <2>5. Greatest(0, fade + moved) \in 0 .. FlashStart
    BY <1>1, <2>3 DEF Greatest
  <2> QED
    BY <2>2, <2>4, <2>5
<1>4. CASE ~ (fade > 0)
  BY <1>1, <1>4 DEF ContinueFlash
<1> QED
  BY <1>3, <1>4

LEMMA OverflowStays ==
  ASSUME WaveSizes, WaveTypeOK, NEW d \in Deltas, MoveOverflow(d)
  PROVE  overflow' \in 0 .. NodeTicks - 1
PROOF
<1> DEFINE ticks == d + overflow
<1>1. ticks \in Nat /\ NodeTicks \in Nat \ {0}
  BY DEF WaveSizes, WaveTypeOK
<1>2. overflow' = IF Clears(d) THEN 0 ELSE ticks % NodeTicks
  BY DEF MoveOverflow
<1> HIDE DEF ticks
<1>3. ticks % NodeTicks \in 0 .. NodeTicks - 1
  BY <1>1
<1> QED
  BY <1>1, <1>2, <1>3

(* Behind the nodes that enter, a loud line is as it was before it moved.  *)
LEMMA LineMoves ==
  ASSUME WaveSizes, WaveInv, NEW d \in Deltas, ~ Clears(d), front > 0,
         NEW n \in Nodes, n >= Steps(d), n < front + Steps(d)
  PROVE  Shifted(d)[n] >= FaintestLoud
PROOF
<1> PICK k : k = Steps(d)
  OBVIOUS
<1>1. k \in Nat /\ n \in Int /\ front \in Nat
  BY StepsWithin DEF WaveInv, WaveTypeOK, Nodes, WaveSizes
<1>2. n - k \in Nodes /\ Shifted(d)[n] = wave[n - k]
  BY ShiftedWave DEF WaveInv
<1>3. n - k < front
  BY <1>1
<1> QED
  BY <1>2, <1>3 DEF WaveInv, NoGaps

LEMMA LoopKeepsLine ==
  ASSUME WaveSizes, WaveInv, NEW d \in Deltas, Loop(d)
  PROVE  WaveInv'
PROOF
<1> DEFINE k == Steps(d)
           moved == Shifted(d)
<1>1. /\ k \in Nat /\ k \in Nodes /\ NumNodes \in Nat /\ NumNodes > 2
      /\ Clears(d) => k = 0
  <2>1. k \in Nat /\ k + 1 \in Nodes /\ NumNodes \in Nat /\ NumNodes > 2
    BY StepsWithin DEF WaveInv, WaveSizes, NumNodes
  <2> QED
    BY <2>1, StepsWithin DEF Nodes, WaveInv
<1>2. moved \in [Nodes -> 0 .. MaxLum]
  BY ShiftedWave DEF WaveInv
<1>3. /\ wave' = Repeated(moved, k)
      /\ totalNodesReplaced' = Least(totalNodesReplaced + k, NumNodes)
      /\ front' = IF front = 0 \/ Clears(d) THEN 0 ELSE Least(front + k, NumNodes)
  BY DEF Loop
<1>4. ASSUME ~ Clears(d), front > 0, NEW n \in Nodes, n >= k, n < front + k
      PROVE  moved[n] >= FaintestLoud
  BY <1>4, LineMoves
<1> HIDE DEF k, moved
<1>5. /\ wave' \in [Nodes -> 0 .. MaxLum]
      /\ \A n \in Nodes : wave'[n] = IF n < k THEN moved[k] ELSE moved[n]
  BY <1>1, <1>2, <1>3, RepeatedWave
<1>6. /\ totalNodesReplaced \in 0 .. NumNodes /\ front \in 0 .. NumNodes
      /\ flashFade \in 0 .. FlashStart /\ flashMomentum \in Int /\ flashMomentum <= 0
  BY DEF WaveInv, WaveTypeOK
<1>7. totalNodesReplaced' \in 0 .. NumNodes /\ front' \in 0 .. NumNodes
  BY <1>1, <1>3, <1>6 DEF Least
<1>8. overflow' \in 0 .. NodeTicks - 1
  BY OverflowStays DEF WaveInv, Loop
<1>9. flashFade' \in 0 .. FlashStart /\ flashMomentum' \in Int /\ flashMomentum' <= 0
  BY <1>6, FlashFades DEF Loop
<1>10. ASSUME NEW n \in Nodes, n < front' PROVE wave'[n] >= FaintestLoud
  <2>1. ~ Clears(d) /\ front > 0 /\ n \in Nat
    BY <1>1, <1>3, <1>6, <1>10 DEF Nodes
  <2>2. n < front + k
    <3>1. front' = Least(front + k, NumNodes)
      BY <1>3, <1>6, <2>1
    <3> QED
      BY <1>1, <1>6, <1>10, <2>1, <3>1 DEF Least
  <2>3. CASE n < k
    <3>1. wave'[n] = moved[k] /\ k < front + k /\ k >= k
      BY <1>1, <1>5, <1>6, <2>1, <2>3
    <3> QED
      BY <1>1, <1>4, <2>1, <3>1
  <2>4. CASE ~ (n < k)
    <3>1. wave'[n] = moved[n] /\ n >= k
      BY <1>1, <1>5, <2>1, <2>4
    <3> QED
      BY <1>4, <2>1, <2>2, <3>1
  <2> QED
    BY <2>3, <2>4
<1>11. NoGaps'
  BY <1>10 DEF NoGaps
<1>12. WaveTypeOK'
  BY <1>5, <1>7, <1>8, <1>9 DEF WaveTypeOK
<1> QED
  BY <1>11, <1>12 DEF WaveInv

LEMMA StartKeepsLine ==
  ASSUME WaveSizes, WaveInv, NEW d \in Deltas, NEW loud \in Levels, NEW hit, NEW strobe,
         Start(d, loud, hit, strobe)
  PROVE  WaveInv'
PROOF
<1> DEFINE k == Steps(d)
           moved == Shifted(d)
           filled == Fallen(moved, k)
           bright == Overwritten(d)
           fresh == Constrain(totalNodesReplaced + k, Resolution, NumNodes)
           before == IF front = 0 \/ Clears(d) THEN 0 ELSE Least(front + k, NumNodes)
<1>1. /\ k \in Nat /\ k + 1 \in Nodes /\ NumNodes \in Nat /\ NumNodes > 2
  BY StepsWithin DEF WaveInv, WaveSizes, NumNodes
<1>2. moved \in [Nodes -> 0 .. MaxLum]
  BY ShiftedWave DEF WaveInv
<1>3. /\ wave' = [n \in Nodes |-> IF loud > 0 /\ n < bright
                                     THEN Greatest(filled[n], loud) ELSE filled[n]]
      /\ totalNodesReplaced' = 0
      /\ front' = IF loud = 0 THEN 0 ELSE Greatest(fresh, before)
  BY DEF Start
<1>4. ASSUME ~ Clears(d), front > 0, NEW n \in Nodes, n >= k, n < front + k
      PROVE  moved[n] >= FaintestLoud
  BY <1>4, LineMoves
<1>5. /\ totalNodesReplaced \in 0 .. NumNodes /\ front \in 0 .. NumNodes
      /\ flashFade \in 0 .. FlashStart /\ flashMomentum \in Int /\ flashMomentum <= 0
      /\ Resolution \in Nat /\ Resolution <= NumNodes /\ FlashStart \in Nat
      /\ MaxLum \in Nat /\ loud \in 0 .. MaxLum
  BY DEF WaveInv, WaveTypeOK, WaveSizes
<1>6. bright = Constrain(k + Least(totalNodesReplaced, NumNodes), Resolution, NumNodes)
  BY DEF Overwritten
<1> HIDE DEF k, moved
<1>7. /\ filled \in [Nodes -> 0 .. MaxLum]
      /\ \A n \in Nodes : n >= k => filled[n] = moved[n]
  BY <1>1, <1>2, FallenWave
<1> HIDE DEF filled, bright
<1>8. bright = fresh /\ fresh \in 0 .. NumNodes /\ (fresh >= k \/ fresh = NumNodes)
  <2>1. Least(totalNodesReplaced, NumNodes) = totalNodesReplaced
    BY <1>1, <1>5 DEF Least
  <2> QED
    BY <1>1, <1>5, <1>6, <2>1 DEF Constrain, Least, Greatest
<1> HIDE DEF fresh
<1>9. before \in 0 .. NumNodes
  BY <1>1, <1>5 DEF Least
<1>10. front' \in 0 .. NumNodes
  <2> HIDE DEF before
  <2> QED
    BY <1>1, <1>3, <1>8, <1>9 DEF Greatest
<1>11. /\ wave' \in [Nodes -> 0 .. MaxLum]
       /\ \A n \in Nodes : /\ n >= bright => wave'[n] = filled[n]
                           /\ n < bright /\ loud > 0 => wave'[n] >= loud
  <2>1. ASSUME NEW n \in Nodes
        PROVE  /\ Greatest(filled[n], loud) \in 0 .. MaxLum
               /\ Greatest(filled[n], loud) >= loud
    <3>1. filled[n] \in 0 .. MaxLum
      BY <1>7
    <3> QED
      BY <1>5, <3>1 DEF Greatest
  <2>2. \A n \in Nodes : n >= bright => ~ (n < bright)
    BY <1>1, <1>8 DEF Nodes
  <2> QED
    BY <1>3, <1>7, <2>1, <2>2
<1>12. overflow' \in 0 .. NodeTicks - 1
  BY OverflowStays DEF WaveInv, Start
<1>13. flashFade' \in 0 .. FlashStart /\ flashMomentum' \in Int /\ flashMomentum' <= 0
  <2> DEFINE fade == IF hit THEN FlashStart ELSE flashFade
             momentum == IF hit THEN 0 ELSE flashMomentum
  <2>1. fade \in 0 .. FlashStart /\ momentum \in Int /\ momentum <= 0
    BY <1>5
  <2>2. ContinueFlash(fade, momentum, d)
    BY DEF Start
  <2> HIDE DEF fade, momentum
  <2> QED
    BY <2>1, <2>2, FlashFades
<1>14. ASSUME NEW n \in Nodes, n < front' PROVE wave'[n] >= FaintestLoud
  <2>1. loud > 0 /\ n \in Nat /\ front' = Greatest(fresh, before)
    BY <1>1, <1>3, <1>5, <1>14 DEF Nodes
  <2>2. FaintestLoud \in Nat /\ FaintestLoud <= loud
    BY <2>1, FaintestIsLeast
  <2>3. CASE n < bright
    <3>1. wave'[n] >= loud /\ wave'[n] \in 0 .. MaxLum
      BY <1>11, <2>1, <2>3
    <3> QED
      BY <1>5, <2>2, <3>1
  <2>4. CASE ~ (n < bright)
    <3>1. n >= bright /\ n >= k /\ n < before
      <4> HIDE DEF before
      <4> QED
        BY <1>1, <1>8, <1>9, <1>14, <2>1, <2>4 DEF Greatest, Nodes
    <3>2. ~ Clears(d) /\ front > 0 /\ n < front + k
      BY <1>1, <1>5, <2>1, <3>1 DEF Least
    <3>3. wave'[n] = moved[n]
      BY <1>7, <1>11, <3>1
    <3> QED
      BY <1>4, <3>1, <3>2, <3>3
  <2> QED
    BY <2>3, <2>4
<1>15. NoGaps'
  BY <1>14 DEF NoGaps
<1>16. WaveTypeOK'
  BY <1>1, <1>3, <1>5, <1>10, <1>11, <1>12, <1>13 DEF WaveTypeOK
<1> QED
  BY <1>15, <1>16 DEF WaveInv

(* Luminances fit a byte, the flash its scale, and a sound that stays loud *)
(* draws an unbroken line, however start() and loop() share the movement:  *)
(* for strips and waves of every length, and any times between calls.      *)
THEOREM LoudLineUnbroken ==
  ASSUME WaveSizes
  PROVE  WaveSpec => [](WaveTypeOK /\ NoGaps)
PROOF
<1>1. WaveInit => WaveInv
  <2> SUFFICES ASSUME WaveInit PROVE WaveInv
    OBVIOUS
  <2>1. NumNodes \in Nat
    BY DEF WaveSizes, NumNodes
  <2>2. wave \in [Nodes -> 0 .. MaxLum]
    BY DEF WaveInit, WaveSizes, Dark
  <2>3. WaveTypeOK
    BY <2>1, <2>2 DEF WaveInit, WaveSizes, WaveTypeOK
  <2>4. NoGaps
    BY <2>1 DEF WaveInit, NoGaps, Nodes
  <2> QED
    BY <2>3, <2>4 DEF WaveInv
<1>2. WaveInv /\ [WaveNext]_waveVars => WaveInv'
  <2> SUFFICES ASSUME WaveInv, [WaveNext]_waveVars PROVE WaveInv'
    OBVIOUS
  <2>1. CASE UNCHANGED waveVars
    BY <2>1 DEF waveVars, flashVars, WaveInv, WaveTypeOK, NoGaps
  <2>2. CASE WaveNext
    BY <2>2, LoopKeepsLine, StartKeepsLine DEF WaveNext
  <2> QED
    BY <2>1, <2>2
<1> QED
  BY <1>1, <1>2, PTL DEF WaveSpec, WaveInv

-----------------------------------------------------------------------------
(* The pictures.                                                           *)

LEMMA PictureType ==
  ASSUME PictureSizes, NEW pic \in Pictures
  PROVE  /\ Len(pic) \in Nat \ {0} /\ pic \in [1 .. Len(pic) -> Color]
         /\ \A i \in 1 .. Len(pic) : pic[i] \in [1 .. 3 -> Nat]
PROOF
<1>1. PICK n \in 1 .. MaxPicture : pic \in [1 .. n -> Color]
  BY DEF Pictures
<1>2. n \in Nat \ {0}
  BY <1>1 DEF PictureSizes
<1>3. Len(pic) = n
  BY <1>1, <1>2
<1> QED
  BY <1>1, <1>2, <1>3 DEF PictureSizes

(* The places of a colour's three bytes when the colours follow each other *)
(* and when the three planes do.                                           *)
LEMMA InterleavedPlace ==
  ASSUME NEW i \in Nat, NEW c \in 1 .. 3
  PROVE  /\ ((3 * i + c) - 1) \div 3 = i
         /\ ((3 * i + c) - 1) % 3 = c - 1
PROOF
  OBVIOUS

LEMMA PlanarPlace ==
  ASSUME NEW n \in Nat \ {0}, NEW i \in 0 .. n - 1, NEW c \in 1 .. 3
  PROVE  /\ 1 + i + (c - 1) * n \in 1 .. 3 * n
         /\ ((1 + i + (c - 1) * n) - 1) % n = i
         /\ ((1 + i + (c - 1) * n) - 1) \div n = c - 1
PROOF
<1>1. CASE c = 1
  BY <1>1
<1>2. CASE c = 2
  BY <1>2
<1>3. CASE c = 3
  BY <1>3
<1> QED
  BY <1>1, <1>2, <1>3

LEMMA InterleavedBytes ==
  ASSUME PictureSizes, NEW pic \in Pictures
  PROVE  /\ Len(Interleaved(pic)) = 3 * Len(pic)
         /\ \A i \in 0 .. Len(pic) - 1, c \in 1 .. 3 :
              /\ 3 * i + c \in DOMAIN Interleaved(pic)
              /\ Interleaved(pic)[3 * i + c] = pic[i + 1][c]
PROOF
<1> DEFINE n == Len(pic)
<1>1. n \in Nat \ {0}
  BY PictureType
<1>2. Interleaved(pic) = [i \in 1 .. 3 * n |-> pic[1 + ((i - 1) \div 3)][1 + ((i - 1) % 3)]]
  BY DEF Interleaved
<1> HIDE DEF n
<1>3. Len(Interleaved(pic)) = 3 * n /\ DOMAIN Interleaved(pic) = 1 .. 3 * n
  <2>1. 3 * n \in Nat
    BY <1>1
  <2> QED
    BY <1>2, <2>1
<1>4. ASSUME NEW i \in 0 .. n - 1, NEW c \in 1 .. 3
      PROVE  /\ 3 * i + c \in 1 .. 3 * n
             /\ Interleaved(pic)[3 * i + c] = pic[i + 1][c]
  <2>1. i \in Nat /\ 3 * i + c \in 1 .. 3 * n
    BY <1>1
  <2>2. /\ ((3 * i + c) - 1) \div 3 = i
        /\ ((3 * i + c) - 1) % 3 = c - 1
    BY <2>1, InterleavedPlace
  <2> PICK k : k = 3 * i + c
    OBVIOUS
  <2>3. k \in 1 .. 3 * n /\ (k - 1) \div 3 = i /\ (k - 1) % 3 = c - 1
    BY <2>1, <2>2
  <2>4. Interleaved(pic)[k] = pic[1 + ((k - 1) \div 3)][1 + ((k - 1) % 3)]
    BY <1>2, <2>3
  <2>5. 1 + ((k - 1) \div 3) = i + 1 /\ 1 + ((k - 1) % 3) = c
    BY <2>1, <2>3
  <2> QED
    BY <2>1, <2>4, <2>5
<1> QED
  BY <1>3, <1>4 DEF n

LEMMA PlanarBytes ==
  ASSUME PictureSizes, NEW pic \in Pictures
  PROVE  /\ Len(Planar(pic)) = 3 * Len(pic)
         /\ \A i \in 0 .. Len(pic) - 1, c \in 1 .. 3 :
              Planar(pic)[1 + i + (c - 1) * Len(pic)] = pic[i + 1][c]
PROOF
<1> DEFINE n == Len(pic)
<1>1. n \in Nat \ {0}
  BY PictureType
<1>2. Planar(pic) = [i \in 1 .. 3 * n |-> pic[1 + ((i - 1) % n)][1 + ((i - 1) \div n)]]
  BY DEF Planar
<1> HIDE DEF n
<1>3. Len(Planar(pic)) = 3 * n
  <2>1. 3 * n \in Nat
    BY <1>1
  <2> QED
    BY <1>2, <2>1
<1>4. ASSUME NEW i \in 0 .. n - 1, NEW c \in 1 .. 3
      PROVE  Planar(pic)[1 + i + (c - 1) * n] = pic[i + 1][c]
  <2> PICK k : k = 1 + i + (c - 1) * n
    OBVIOUS
  <2>1. k \in 1 .. 3 * n /\ (k - 1) % n = i /\ (k - 1) \div n = c - 1
    BY <1>1, PlanarPlace
  <2>2. Planar(pic)[k] = pic[1 + ((k - 1) % n)][1 + ((k - 1) \div n)]
    BY <1>2, <2>1
  <2>3. 1 + ((k - 1) % n) = i + 1 /\ 1 + ((k - 1) \div n) = c
    BY <1>1, <2>1
  <2> QED
    BY <2>2, <2>3
<1> QED
  BY <1>3, <1>4 DEF n

(* What setBoth leaves on the right strip when it is called for every LED. *)
LEMMA SetAllRight ==
  ASSUME NEW colour, DOMAIN colour = Leds, SetBoth(colour)
  PROVE  \A i \in Leds : rawLedRight'[i] = colour[i]
PROOF
  BY DEF SetBoth

(* Whatever picture is sent in whatever layout, drawing reads bytes of the *)
(* packet only, and shows each colour where it belongs.                    *)
LEMMA InterleavedDrawn ==
  ASSUME PictureSizes, NEW pic \in Pictures, SendColors(pic)
  PROVE  /\ picture' = pic
         /\ reads' \subseteq 1 .. 3 * Len(pic)
         /\ \A i \in Leds : i < Len(pic) => rawLedRight'[i] = pic[i + 1]
         /\ Len(pic) = 1 => \A i \in Leds : rawLedRight'[i] = pic[1]
PROOF
<1> DEFINE bytes == Interleaved(pic)
           n == Len(pic)
           given == IF PacketLength(bytes) \div 3 < NumLed
                      THEN PacketLength(bytes) \div 3 ELSE NumLed
           at(i) == [c \in 1 .. 3 |-> ByteAt(bytes, 3 * i + c)]
           colour == [i \in Leds |-> IF i < given THEN at(i) ELSE at(given - 1)]
<1>1. n \in Nat \ {0} /\ NumLed \in Nat /\ \A i \in 1 .. n : pic[i] \in [1 .. 3 -> Nat]
  BY PictureType DEF PictureSizes
<1>2. /\ Len(bytes) = 3 * n
      /\ \A i \in 0 .. n - 1, c \in 1 .. 3 :
           3 * i + c \in DOMAIN bytes /\ bytes[3 * i + c] = pic[i + 1][c]
  BY InterleavedBytes
<1>3. picture' = pic /\ SetBoth(colour) /\ reads' = 1 .. 3 * given
  BY DEF SendColors, DrawInterleaved
<1> HIDE DEF bytes, n
<1>4. given = IF n < NumLed THEN n ELSE NumLed
  <2>1. (3 * n + 1) \div 3 = n
    BY <1>1
  <2> QED
    BY <1>2, <2>1 DEF PacketLength
<1> HIDE DEF given
<1>5. ASSUME NEW i \in 0 .. n - 1 PROVE at(i) = pic[i + 1]
  <2>1. ASSUME NEW c \in 1 .. 3 PROVE ByteAt(bytes, 3 * i + c) = pic[i + 1][c]
    BY <1>2 DEF ByteAt
  <2>2. pic[i + 1] \in [1 .. 3 -> Nat]
    <3>1. i + 1 \in 1 .. n
      BY <1>1
    <3> QED
      BY <1>1, <3>1
  <2> QED
    BY <2>1, <2>2
<1> HIDE DEF at
<1>6. \A i \in Leds : rawLedRight'[i] = IF i < given THEN at(i) ELSE at(given - 1)
  <2>1. DOMAIN colour = Leds
    OBVIOUS
  <2>2. \A i \in Leds : colour[i] = IF i < given THEN at(i) ELSE at(given - 1)
    OBVIOUS
  <2> HIDE DEF colour
  <2> QED
    BY <1>3, <2>1, <2>2, SetAllRight
<1>7. ASSUME NEW i \in Leds, i < n PROVE rawLedRight'[i] = pic[i + 1]
  <2>1. i < given /\ i \in 0 .. n - 1
    BY <1>1, <1>4, <1>7 DEF Leds
  <2> QED
    BY <1>5, <1>6, <2>1
<1>8. ASSUME n = 1, NEW i \in Leds PROVE rawLedRight'[i] = pic[1]
  <2>1. given = 1 /\ given - 1 = 0 /\ 0 \in 0 .. n - 1 /\ (i < given => i = 0) /\ 0 + 1 = 1
    BY <1>1, <1>4, <1>8 DEF Leds
  <2>2. at(0) = pic[1]
    BY <1>5, <2>1
  <2> QED
    BY <1>6, <2>1, <2>2
<1>9. 1 .. 3 * given \subseteq 1 .. 3 * n
  BY <1>1, <1>4
<1> QED
  BY <1>3, <1>7, <1>8, <1>9 DEF n

LEMMA PlanarDrawn ==
  ASSUME PictureSizes, NEW pic \in Pictures, SendCompressed(pic)
  PROVE  /\ picture' = pic
         /\ reads' \subseteq 1 .. 3 * Len(pic)
         /\ \/ \A i \in Leds : i < Len(pic) => rawLedRight'[i] = pic[i + 1]
            \/ Len(pic) > NumLed /\ UNCHANGED << rawLedLeft, rawLedRight >>
         /\ Len(pic) = 1 => \A i \in Leds : i > 0 => rawLedRight'[i] = Black
PROOF
<1> DEFINE bytes == Planar(pic)
           m == Len(pic)
           n == Len(bytes) \div 3
           at(i) == [c \in 1 .. 3 |-> bytes[1 + i + (c - 1) * n]]
           colour == [i \in Leds |-> IF i < n THEN at(i) ELSE Black]
<1>1. m \in Nat \ {0} /\ NumLed \in Nat /\ \A i \in 1 .. m : pic[i] \in [1 .. 3 -> Nat]
  BY PictureType DEF PictureSizes
<1>2. /\ Len(bytes) = 3 * m
      /\ \A i \in 0 .. m - 1, c \in 1 .. 3 : bytes[1 + i + (c - 1) * m] = pic[i + 1][c]
  BY PlanarBytes
<1>3. /\ picture' = pic
      /\ \/ /\ Len(bytes) > 3 * NumLed + 1
            /\ UNCHANGED << rawLedLeft, rawLedRight >> /\ reads' = {}
         \/ /\ ~ (Len(bytes) > 3 * NumLed + 1)
            /\ SetBoth(colour) /\ reads' = 1 .. 3 * n
  BY DEF SendCompressed, DrawPlanar
<1> HIDE DEF bytes, m
<1>4. n = m
  BY <1>1, <1>2
<1> HIDE DEF n
<1>5. ASSUME NEW i \in 0 .. m - 1 PROVE at(i) = pic[i + 1]
  <2>1. ASSUME NEW c \in 1 .. 3 PROVE bytes[1 + i + (c - 1) * n] = pic[i + 1][c]
    BY <1>2, <1>4
  <2>2. pic[i + 1] \in [1 .. 3 -> Nat]
    <3>1. i + 1 \in 1 .. m
      BY <1>1
    <3> QED
      BY <1>1, <3>1
  <2> QED
    BY <2>1, <2>2
<1> HIDE DEF at
<1>6. CASE Len(bytes) > 3 * NumLed + 1
  <2>1. (m > NumLed /\ m # 1) \/ (m > NumLed /\ Leds = {})
    BY <1>1, <1>2, <1>6 DEF Leds
  <2>2. UNCHANGED << rawLedLeft, rawLedRight >> /\ reads' = {}
    BY <1>3, <1>6
  <2> QED
    BY <1>3, <2>1, <2>2 DEF m
<1>7. CASE ~ (Len(bytes) > 3 * NumLed + 1)
  <2>1. SetBoth(colour) /\ reads' = 1 .. 3 * n
    BY <1>3, <1>7
  <2>2. \A i \in Leds : rawLedRight'[i] = IF i < n THEN at(i) ELSE Black
    <3>1. DOMAIN colour = Leds
      OBVIOUS
    <3>2. \A i \in Leds : colour[i] = IF i < n THEN at(i) ELSE Black
      OBVIOUS
    <3> HIDE DEF colour
    <3> QED
      BY <2>1, <3>1, <3>2, SetAllRight
  <2>3. ASSUME NEW i \in Leds, i < m PROVE rawLedRight'[i] = pic[i + 1]
    <3>1. i \in 0 .. m - 1
      BY <1>1, <2>3 DEF Leds
    <3> QED
      BY <1>4, <1>5, <2>2, <2>3, <3>1
  <2>4. ASSUME m = 1, NEW i \in Leds, i > 0 PROVE rawLedRight'[i] = Black
    <3>1. ~ (i < n)
      BY <1>1, <1>4, <2>4 DEF Leds
    <3> QED
      BY <2>2, <3>1
  <2> QED
    BY <1>3, <1>4, <2>1, <2>3, <2>4 DEF m
<1> QED
  BY <1>6, <1>7

(* Pictures of every length on strips of every length arrive in their      *)
(* colours, in either layout; a single colour leaves nothing of the old.   *)
THEOREM PicturesShown ==
  ASSUME PictureSizes
  PROVE  ColorSpec => PictureArrives /\ OneColorFills
PROOF
<1> DEFINE Arrives ==
             picture' # picture =>
               \/ \A i \in Leds : i < Len(picture') => rawLedRight'[i] = picture'[i + 1]
               \/ Len(picture') > NumLed /\ UNCHANGED << rawLedLeft, rawLedRight >>
           Fills ==
             Len(picture') = 1 /\ picture' # picture =>
               \A i \in 1 .. NumLed - 1 : rawLedRight'[i] \in { picture'[1], Black }
<1>1. ASSUME NEW pic \in Pictures, SendColors(pic) PROVE Arrives /\ Fills
  <2>1. \A i \in 1 .. NumLed - 1 : i \in Leds
    BY DEF Leds, PictureSizes
  <2> QED
    BY <1>1, <2>1, InterleavedDrawn
<1>2. ASSUME NEW pic \in Pictures, SendCompressed(pic) PROVE Arrives /\ Fills
  <2>1. \A i \in 1 .. NumLed - 1 : i \in Leds /\ i > 0
    BY DEF Leds, PictureSizes
  <2> QED
    BY <1>2, <2>1, PlanarDrawn
<1>3. ColorNext => Arrives /\ Fills
  <2> HIDE DEF Arrives, Fills
  <2> QED
    BY <1>1, <1>2 DEF ColorNext
<1>4. [ColorNext]_colorVars => [Arrives]_colorVars /\ [Fills]_colorVars
  <2> HIDE DEF Arrives, Fills
  <2> QED
    BY <1>3
<1> QED
  BY <1>4, PTL DEF ColorSpec, PictureArrives, OneColorFills

(* Drawing reads no byte behind the content of the packet.                 *)
THEOREM DrawingReadsContent ==
  ASSUME PictureSizes
  PROVE  ColorSpec => []ReadsInContent
PROOF
<1>1. ColorInit => ReadsInContent
  BY DEF ColorInit, ReadsInContent
<1>2. ReadsInContent /\ [ColorNext]_colorVars => ReadsInContent'
  <2>1. ASSUME ReadsInContent, UNCHANGED colorVars PROVE ReadsInContent'
    BY <2>1 DEF colorVars, ReadsInContent
  <2>2. ASSUME NEW pic \in Pictures, SendColors(pic) \/ SendCompressed(pic)
        PROVE  ReadsInContent'
    BY <2>2, InterleavedDrawn, PlanarDrawn DEF ReadsInContent
  <2> QED
    BY <2>1, <2>2 DEF ColorNext
<1> QED
  BY <1>1, <1>2, PTL DEF ColorSpec

=============================================================================
