------------------------ MODULE Lz4HighOutputProofs -------------------------
(***************************************************************************)
(* LZ4HC_compress_hashChain keeps to its output buffer and what it writes  *)
(* is accepted by the decoder, for every size of the input, every          *)
(* capacity, every choice of sequences and each way to bound the output.   *)
(***************************************************************************)
EXTENDS Lz4HighOutput, TLAPS

HighSizes ==
  /\ SrcSizes \subseteq Nat /\ Capacities \subseteq Nat /\ LitLengths \subseteq Nat
  /\ MatchLengths \subseteq { n \in Nat : n >= 4 }

HighTypeOK ==
  /\ srcSize \in Nat /\ capacity \in Nat
  /\ limit \in { "notLimited", "limitedOutput", "fillOutput" }
  /\ pc \in { "main", "overflow", "last", "done", "failed" }
  /\ anchor \in Nat /\ ip \in Nat /\ ml \in Nat /\ op \in Nat /\ optr \in Nat
  /\ reached \in Nat
  /\ lastSequence \in [literals : Nat, code : Nat, match : Nat]

(* What was encoded lies in the input; a match that found no room starts   *)
(* 12 bytes before its end and ends 5 bytes before it.                     *)
HighTaken ==
  /\ anchor <= srcSize
  /\ pc = "overflow" =>
       /\ anchor <= ip /\ ip + 12 <= srcSize
       /\ ml >= 4 /\ ip + ml + 5 <= srcSize
       /\ limit # "notLimited"

(* The output for an input without any match, and the capacity for that.   *)
Expands(o, a) == o <= a + a \div 255
EnoughRoom    == capacity >= srcSize + srcSize \div 255 + 16

(* Without limit what was written is little more than what was taken;      *)
(* when the output is filled there is always room for a token.             *)
HighRoom ==
  /\ limit = "notLimited" =>
       /\ EnoughRoom
       /\ pc \in { "main", "last" } => Expands(op, anchor)
  /\ limit = "fillOutput" =>
       /\ pc \in { "main", "last" } => op + 1 <= capacity
       /\ pc = "overflow" => optr + 1 <= capacity

(* What still has to be behind the last match: of the input, and of the    *)
(* output when it is filled.                                               *)
BehindMatch ==
  /\ lastSequence.match = anchor /\ anchor + 5 <= srcSize
  /\ lastSequence.literals + 4 <= anchor
  /\ lastSequence.literals + 12 <= srcSize

BehindCode(o) ==
  /\ lastSequence.code + 2 <= o
  /\ limit = "fillOutput" =>
       o + 6 <= capacity /\ lastSequence.literals + 13 + o <= anchor + capacity

HighSequence ==
  lastSequence # NoSequence =>
    /\ pc \in { "main", "last", "overflow" } => BehindMatch
    /\ pc \in { "main", "last" } => BehindCode(op)
    /\ pc = "overflow" => BehindCode(optr)

HighInv ==
  /\ HighTypeOK /\ HighTaken /\ HighRoom /\ HighSequence
  /\ HighInsideCapacity /\ HighAccepted

-----------------------------------------------------------------------------
LEMMA HighLengthBytes ==
  ASSUME NEW n \in Nat
  PROVE  /\ LengthBytes(n) \in Nat
         /\ LengthBytes(n) <= (n + 240) \div 255
         /\ LengthBytes(n) <= n \div 255 + 1
         /\ LengthBytes(n) <= n
         /\ n < 15 => LengthBytes(n) = 0
BY DEF LengthBytes

LEMMA HighWildCopy ==
  ASSUME NEW n \in Nat
  PROVE  /\ WildCopy8(n) \in Nat
         /\ WildCopy8(n) <= n + 8
         /\ LengthBytes(n) + WildCopy8(n) <= n + 8 + n \div 255
<1>1. WildCopy8(n) \in Nat /\ WildCopy8(n) <= n + 8 /\ (n >= 1 => WildCopy8(n) <= n + 7)
      BY DEF WildCopy8, Most
<1> QED
    BY <1>1, HighLengthBytes

LEMMA MostOf ==
  ASSUME NEW a \in Nat, NEW b \in Nat, NEW c \in Nat, a <= c, b <= c
  PROVE  Most(a, b) \in Nat /\ Most(a, b) <= c
BY DEF Most

LEMMA HighInitInv ==
  ASSUME HighSizes, HighInit
  PROVE  HighInv
<1>1. HighTypeOK
      BY DEF HighSizes, HighInit, HighTypeOK, NoSequence
<1>2. HighTaken
      BY <1>1 DEF HighInit, HighTaken, HighTypeOK
<1>3. HighRoom
  <2>1. limit = "notLimited" => EnoughRoom
        BY <1>1 DEF HighInit, HighTypeOK, LZ4_compressBound, EnoughRoom
  <2>2. op = 0 /\ anchor = 0 /\ pc # "overflow" /\ Expands(op, anchor)
        BY DEF HighInit, Expands
  <2>3. limit = "fillOutput" /\ pc \in { "main", "last" } => 1 <= capacity
        BY <1>1 DEF HighInit, HighTypeOK
  <2> QED
      BY <2>1, <2>2, <2>3 DEF HighRoom
<1>4. HighSequence /\ HighInsideCapacity /\ HighAccepted
      BY <1>1 DEF HighInit, HighTypeOK, HighSequence, HighInsideCapacity, HighAccepted
<1> QED
    BY <1>1, <1>2, <1>3, <1>4 DEF HighInv

-----------------------------------------------------------------------------
(* A sequence that was written, with the room it needs.                    *)
LEMMA Written ==
  ASSUME HighInv, NEW start \in Nat, NEW position \in Nat, NEW n \in Nat, NEW o \in Nat,
         Write(start, position, n), UNCHANGED highCaller, pc' \in { "main", "last" },
         ml' \in Nat, optr' \in Nat, op' = o,
         anchor <= position, position + 12 <= srcSize, n >= 4, position + n + 5 <= srcSize,
         LiteralsReach(start, position - anchor) <= capacity,
         o <= capacity,
         limit = "notLimited" => Expands(start, anchor),
         limit = "fillOutput" => o + 6 <= capacity /\ o + 13 <= n + capacity
  PROVE  HighInv'
<1>1. /\ srcSize \in Nat /\ capacity \in Nat /\ anchor \in Nat /\ reached \in Nat
      /\ reached <= capacity
      /\ limit \in { "notLimited", "limitedOutput", "fillOutput" }
      /\ limit = "notLimited" => EnoughRoom
      /\ srcSize' = srcSize /\ capacity' = capacity /\ limit' = limit
      BY DEF HighInv, HighTypeOK, HighInsideCapacity, HighRoom, highCaller
<1>2. PICK l \in Nat : l = position - anchor
      BY <1>1
<1>3. n - 4 \in Nat
      OBVIOUS
<1>a. PICK b \in Nat : b = LengthBytes(l)
      BY HighLengthBytes
<1>b. PICK w \in Nat : w = WildCopy8(l)
      BY HighWildCopy
<1>c. PICK c \in Nat : c = LengthBytes(n - 4) /\ c <= n - 4
      BY <1>3, HighLengthBytes
<1>4. /\ op' = start + 1 + b + l + 2 + c
      /\ anchor' = position + n /\ ip' = position + n
      /\ reached' = Most(reached, Most(start + 1 + b + w, op'))
      /\ lastSequence' = [literals |-> position, code |-> start + 1 + b + l + 2 - 2,
                          match |-> position + n]
      /\ start + 1 + b + w <= capacity
  <2>1. MINMATCH = 4 /\ OffsetEnd(start, l) = start + 1 + b + l + 2
        /\ LiteralsReach(start, l) = start + 1 + b + w
        BY <1>a, <1>b DEF MINMATCH, OffsetEnd, LiteralsReach
  <2>2. /\ op' = OffsetEnd(start, l) + LengthBytes(n - MINMATCH)
        /\ anchor' = position + n /\ ip' = position + n
        /\ reached' = Most(reached, Most(LiteralsReach(start, l), op'))
        /\ lastSequence' = [literals |-> position, code |-> OffsetEnd(start, l) - 2,
                            match |-> position + n]
        BY <1>2 DEF Write
  <2> QED
      BY <1>2, <1>c, <2>1, <2>2
<1>5. /\ op' \in Nat /\ start + 1 + b + w \in Nat /\ start + 1 + b + l + 2 - 2 \in Nat
      /\ position + n \in Nat
      BY <1>2, <1>a, <1>b, <1>4
<1>6. Most(start + 1 + b + w, op') \in Nat /\ Most(start + 1 + b + w, op') <= capacity
      BY <1>1, <1>4, <1>5, MostOf
<1>7. reached' \in Nat /\ reached' <= capacity
      BY <1>1, <1>4, <1>6, MostOf
<1>8. HighTypeOK'
      BY <1>1, <1>4, <1>5, <1>7 DEF HighTypeOK
<1>9. HighTaken'
  <2>1. position + n <= srcSize /\ pc' # "overflow"
        BY <1>1
  <2>2. anchor' <= srcSize'
        BY <1>1, <1>4, <2>1
  <2> QED
      BY <2>1, <2>2 DEF HighTaken
<1>10. HighRoom'
  <2>1. ASSUME limit = "notLimited"
        PROVE  Expands(op, anchor)' /\ EnoughRoom'
    <3>1. l = position - anchor /\ b <= l \div 255 + 1
          BY <1>2, <1>a, HighLengthBytes
    <3>2. anchor \div 255 + l \div 255 <= position \div 255
          BY <1>1, <1>2, <3>1
    <3>3. position \div 255 <= (position + n) \div 255
          OBVIOUS
    <3>4. start <= anchor + anchor \div 255
          BY <2>1 DEF Expands
    <3>5. start + 1 + b + l + 2 + c <= position + position \div 255 + 4 + c
          BY <1>1, <1>2, <1>3, <3>1, <3>2, <3>4
    <3>6. op' <= (position + n) + (position + n) \div 255
      <4>1. 4 + c <= n
            BY <1>3, <1>c
      <4>2. start + 1 + b + l + 2 + c <= (position + n) + position \div 255
            BY <1>2, <1>3, <3>5, <4>1
      <4>3. start + 1 + b + l + 2 + c <= (position + n) + (position + n) \div 255
            BY <3>3, <4>2
      <4> QED
          BY <1>4, <4>3
    <3> QED
        BY <1>1, <1>4, <2>1, <3>6 DEF Expands, EnoughRoom
  <2>2. limit = "fillOutput" => op' + 1 <= capacity'
        BY <1>1, <1>5
  <2> QED
      BY <1>1, <2>1, <2>2 DEF HighRoom
<1>11. HighSequence'
  <2>1. /\ lastSequence'.literals = position /\ lastSequence'.match = position + n
        /\ lastSequence'.code + 2 = start + 1 + b + l + 2
        BY <1>2, <1>3, <1>4
  <2>2. BehindMatch'
        BY <1>1, <1>4, <2>1 DEF BehindMatch
  <2>3. lastSequence'.code + 2 <= op'
        BY <1>2, <1>3, <1>4, <2>1
  <2>4. limit = "fillOutput" =>
          op' + 6 <= capacity' /\ lastSequence'.literals + 13 + op' <= anchor' + capacity'
        BY <1>1, <1>4, <1>5, <2>1
  <2>5. BehindCode(op)'
        BY <1>1, <2>3, <2>4 DEF BehindCode
  <2> QED
      BY <2>2, <2>5 DEF HighSequence
<1>12. HighInsideCapacity' /\ HighAccepted'
       BY <1>1, <1>7 DEF HighInsideCapacity, HighAccepted
<1> QED
    BY <1>8, <1>9, <1>10, <1>11, <1>12 DEF HighInv

LEMMA SearchEndsInv ==
  ASSUME HighInv, SearchEnds
  PROVE  HighInv'
BY DEF HighInv, HighTypeOK, HighTaken, HighRoom, HighSequence, HighInsideCapacity, HighAccepted,
       BehindMatch, BehindCode, Expands, EnoughRoom, SearchEnds, highCaller

(* A sequence that finds no room leaves everything as it was, apart from   *)
(* the bytes it wrote into the room it has.                                *)
LEMMA NoRoomInv ==
  ASSUME HighInv, pc = "main", UNCHANGED << highCaller, anchor, lastSequence >>,
         pc' = "overflow", optr' = op, op' \in Nat, ip' \in Nat, ml' \in Nat, limit # "notLimited",
         anchor <= ip', ip' + 12 <= srcSize, ml' >= 4, ip' + ml' + 5 <= srcSize,
         reached' \in Nat, reached' <= capacity
  PROVE  HighInv'
<1>1. HighTypeOK' /\ HighTaken'
      BY DEF HighInv, HighTypeOK, HighTaken, highCaller
<1>2. HighRoom'
      BY DEF HighInv, HighRoom, HighTypeOK, highCaller
<1>3. HighSequence'
      BY DEF HighInv, HighSequence, BehindMatch, BehindCode, highCaller
<1> QED
    BY <1>1, <1>2, <1>3 DEF HighInv, HighInsideCapacity, HighAccepted, highCaller

LEMMA EncodeSequenceInv ==
  ASSUME HighSizes, HighInv, LZ4HC_encodeSequence
  PROVE  HighInv'
<1>1. /\ pc = "main" /\ optr' = op /\ UNCHANGED highCaller
      /\ srcSize \in Nat /\ capacity \in Nat /\ anchor \in Nat /\ op \in Nat /\ ml \in Nat
      /\ reached \in Nat /\ reached <= capacity
      /\ limit \in { "notLimited", "limitedOutput", "fillOutput" }
      /\ limit = "notLimited" => EnoughRoom /\ Expands(op, anchor)
      BY DEF LZ4HC_encodeSequence, HighInv, HighTypeOK, HighRoom, HighInsideCapacity
<1>2. PICK l \in LitLengths :
        /\ anchor + l <= mflimit
        /\ \E n \in Lengths(anchor + l) :
             LET roomForMatch == MatchRoom(OffsetEnd(op, l), n - MINMATCH)
             IN  \/ /\ limit # "notLimited" => LiteralRoom(l) /\ roomForMatch
                    /\ Write(op, anchor + l, n)
                    /\ UNCHANGED << pc, ml >>
                 \/ /\ limit # "notLimited" /\ ~LiteralRoom(l)
                    /\ op' = op + 1
                    /\ ip' = anchor + l /\ ml' = n /\ pc' = "overflow"
                    /\ UNCHANGED << anchor, lastSequence, reached >>
                 \/ /\ limit # "notLimited" /\ LiteralRoom(l) /\ ~roomForMatch
                    /\ op' = OffsetEnd(op, l)
                    /\ reached' = Most(reached, Most(LiteralsReach(op, l), op'))
                    /\ ip' = anchor + l /\ ml' = n /\ pc' = "overflow"
                    /\ UNCHANGED << anchor, lastSequence >>
      BY DEF LZ4HC_encodeSequence
<1>3. /\ l \in Nat /\ anchor + l \in Nat /\ anchor + l + 12 <= srcSize
      /\ (anchor + l) - anchor = l
      BY <1>1, <1>2 DEF HighSizes, mflimit, iend, MFLIMIT
<1>4. PICK n \in Lengths(anchor + l) :
         \/ /\ limit # "notLimited" => /\ LiteralRoom(l)
                                       /\ MatchRoom(OffsetEnd(op, l), n - MINMATCH)
            /\ Write(op, anchor + l, n)
            /\ UNCHANGED << pc, ml >>
         \/ /\ limit # "notLimited" /\ ~LiteralRoom(l)
            /\ op' = op + 1
            /\ ip' = anchor + l /\ ml' = n /\ pc' = "overflow"
            /\ UNCHANGED << anchor, lastSequence, reached >>
         \/ /\ limit # "notLimited" /\ LiteralRoom(l)
            /\ op' = OffsetEnd(op, l)
            /\ reached' = Most(reached, Most(LiteralsReach(op, l), op'))
            /\ ip' = anchor + l /\ ml' = n /\ pc' = "overflow"
            /\ UNCHANGED << anchor, lastSequence >>
      BY <1>2
<1>5. n \in Nat /\ n >= 4 /\ (anchor + l) + n + 5 <= srcSize
  <2>1. matchlimit = srcSize - 5
        BY DEF matchlimit, iend, LASTLITERALS
  <2>2. CASE n \in MatchLengths /\ n <= matchlimit - (anchor + l)
        BY <1>1, <1>3, <2>1, <2>2 DEF HighSizes
  <2>3. CASE n = matchlimit - (anchor + l)
        BY <1>1, <1>3, <2>1, <2>3
  <2> QED
      BY <1>4, <2>2, <2>3 DEF Lengths
<1>a. PICK b \in Nat : b = LengthBytes(l) /\ b <= l \div 255 + 1
      BY <1>3, HighLengthBytes
<1>b. PICK w \in Nat : /\ w = WildCopy8(l) /\ w <= l + 8
                       /\ b + w <= l + 8 + l \div 255
      BY <1>3, <1>a, HighWildCopy
<1>c. PICK c \in Nat : c = LengthBytes(n - 4) /\ c <= (n - 4) \div 255 + 1 /\ c <= n - 4
  <2>1. n - 4 \in Nat
        BY <1>5
  <2> QED
      BY <2>1, HighLengthBytes
<1>6. /\ OffsetEnd(op, l) = op + 1 + b + l + 2
      /\ LiteralsReach(op, l) = op + 1 + b + w
      BY <1>a, <1>b DEF OffsetEnd, LiteralsReach
<1>7. LiteralRoom(l) /\ limit # "notLimited" =>
        /\ op + 1 + b + w <= capacity /\ op + 1 + b + l + 2 <= capacity
  <2>1. LiteralRoom(l) /\ limit # "notLimited" => op + 1 + l \div 255 + l + 8 <= capacity
        BY <1>1, <1>3 DEF LiteralRoom, oend, LASTLITERALS
  <2> QED
      BY <1>1, <1>3, <1>a, <1>b, <2>1
<1>8. CASE /\ limit # "notLimited" => /\ LiteralRoom(l)
                                      /\ MatchRoom(OffsetEnd(op, l), n - MINMATCH)
           /\ Write(op, anchor + l, n)
           /\ UNCHANGED << pc, ml >>
  <2>1. PICK o \in Nat : o = op + 1 + b + l + 2 + c
        BY <1>1, <1>3
  <2>2. op' = o
    <3>1. op' = OffsetEnd(op, (anchor + l) - anchor) + LengthBytes(n - MINMATCH)
          BY <1>8 DEF Write
    <3> QED
        BY <1>3, <1>6, <1>c, <2>1, <3>1 DEF MINMATCH
  <2>3. limit # "notLimited" =>
          op + 1 + b + l + 2 + (n - 4) \div 255 + 6 <=
            (IF limit = "fillOutput" THEN capacity - 5 ELSE capacity)
        BY <1>6, <1>8 DEF MatchRoom, oend, LASTLITERALS, MINMATCH
  <2>4. limit # "notLimited" => o + 5 <= capacity
        BY <1>1, <1>3, <1>5, <1>c, <2>1, <2>3
  <2>5. limit = "fillOutput" => o + 10 <= capacity
        BY <1>1, <1>3, <1>5, <1>c, <2>1, <2>3
  <2>6. op + 1 + b + w <= capacity /\ o <= capacity
    <3>1. CASE limit # "notLimited"
          BY <1>1, <1>7, <1>8, <2>4, <3>1
    <3>2. CASE limit = "notLimited"
      <4>1. /\ capacity >= srcSize + srcSize \div 255 + 16
            /\ op <= anchor + anchor \div 255
            BY <1>1, <3>2 DEF EnoughRoom, Expands
      <4>2. anchor \div 255 + l \div 255 <= (anchor + l) \div 255
            BY <1>1, <1>3
      <4>3. /\ (anchor + l) \div 255 <= srcSize \div 255
            /\ (anchor + l) \div 255 + (n - 4) \div 255 <= srcSize \div 255
            BY <1>1, <1>3, <1>5
      <4>4. op + b <= anchor + (anchor + l) \div 255 + 1
            BY <1>1, <1>3, <1>a, <4>1, <4>2
      <4>5. op + 1 + b + w <= capacity
            BY <1>1, <1>3, <1>b, <4>1, <4>3, <4>4
      <4>6. o <= anchor + l + srcSize \div 255 + 5
            BY <1>1, <1>3, <1>5, <1>c, <2>1, <4>3, <4>4
      <4>7. o <= capacity
            BY <1>1, <1>3, <1>5, <4>1, <4>6
      <4> QED
          BY <4>5, <4>7
    <3> QED
        BY <3>1, <3>2
  <2>7. LiteralsReach(op, (anchor + l) - anchor) <= capacity
        BY <1>3, <1>6, <2>6
  <2>8. limit = "fillOutput" => o + 6 <= capacity /\ o + 13 <= n + capacity
        BY <1>1, <1>5, <2>5
  <2>9. pc' \in { "main", "last" } /\ ml' \in Nat /\ optr' \in Nat
        BY <1>1, <1>8
  <2>10. limit = "notLimited" => Expands(op, anchor)
         BY <1>1
  <2>11. anchor <= anchor + l /\ Write(op, anchor + l, n)
         BY <1>1, <1>3, <1>8
  <2> QED
      BY <1>1, <1>3, <1>5, <2>2, <2>6, <2>7, <2>8, <2>9, <2>10, <2>11, Written
<1>9. CASE /\ limit # "notLimited" /\ op' = op + 1
           /\ ip' = anchor + l /\ ml' = n /\ pc' = "overflow"
           /\ UNCHANGED << anchor, lastSequence, reached >>
  <2>1. anchor <= ip' /\ op' \in Nat
        BY <1>1, <1>3, <1>9
  <2> QED
      BY <1>1, <1>3, <1>5, <1>9, <2>1, NoRoomInv
<1>10. CASE /\ limit # "notLimited" /\ LiteralRoom(l)
            /\ op' = OffsetEnd(op, l)
            /\ reached' = Most(reached, Most(LiteralsReach(op, l), op'))
            /\ ip' = anchor + l /\ ml' = n /\ pc' = "overflow"
            /\ UNCHANGED << anchor, lastSequence >>
  <2>1. PICK o \in Nat : o = op + 1 + b + l + 2
        BY <1>1, <1>3
  <2>2. op' = o /\ o <= capacity
        BY <1>6, <1>7, <1>10, <2>1
  <2>3. PICK r \in Nat : r = LiteralsReach(op, l) /\ r <= capacity
        BY <1>1, <1>6, <1>7, <1>10
  <2>4. Most(r, o) \in Nat /\ Most(r, o) <= capacity
        BY <1>1, <2>2, <2>3, MostOf
  <2>5. /\ Most(reached, Most(r, o)) \in Nat
        /\ Most(reached, Most(r, o)) <= capacity
        BY <1>1, <2>4, MostOf
  <2>6. reached' = Most(reached, Most(r, o))
        BY <1>10, <2>2, <2>3
  <2>7. anchor <= anchor + l
        BY <1>1, <1>3
  <2> QED
      BY <1>1, <1>3, <1>5, <1>10, <2>2, <2>5, <2>6, <2>7, NoRoomInv
<1> QED
    BY <1>4, <1>8, <1>9, <1>10

-----------------------------------------------------------------------------
(* The length bytes of a match cut to the longest that fits.               *)
LEMMA LongestMatch ==
  ASSUME NEW free \in Nat, NEW n \in Nat, n >= 4, n <= 18 + 255 * free
  PROVE  /\ n - 4 \in Nat /\ LengthBytes(n - 4) \in Nat
         /\ LengthBytes(n - 4) <= free
         /\ n <= 18 => LengthBytes(n - 4) = 0
<1>1. n - 4 \in Nat
      OBVIOUS
<1>2. (n - 4) - 15 < 255 * free
      OBVIOUS
<1>3. CASE n <= 18
  <2>1. n - 4 < 15
        BY <1>3
  <2> QED
      BY <1>1, <2>1 DEF LengthBytes
<1>4. CASE n > 18
  <2>1. n - 4 >= 15
        BY <1>4
  <2>2. LengthBytes(n - 4) = ((n - 4) - 15) \div 255 + 1
        BY <1>1, <2>1 DEF LengthBytes
  <2>3. ((n - 4) - 15) \div 255 < free
        BY <1>1, <1>2, <2>1
  <2> QED
      BY <1>1, <1>4, <2>1, <2>2, <2>3
<1> QED
    BY <1>3, <1>4

LEMMA DestOverflowInv ==
  ASSUME HighInv, DestOverflow
  PROVE  HighInv'
<1>1. /\ pc = "overflow" /\ UNCHANGED << highCaller, ml, optr >>
      /\ srcSize \in Nat /\ capacity \in Nat /\ anchor \in Nat /\ ip \in Nat /\ ml \in Nat
      /\ optr \in Nat /\ anchor <= ip /\ ip + 12 <= srcSize /\ ml >= 4 /\ ip + ml + 5 <= srcSize
      BY DEF DestOverflow, HighInv, HighTypeOK, HighTaken
<1>2. CASE pc' = "failed" /\ UNCHANGED << anchor, ip, op, lastSequence, reached >>
      BY <1>1, <1>2 DEF HighInv, HighTypeOK, HighTaken, HighRoom, HighSequence,
                        HighInsideCapacity, HighAccepted, EnoughRoom, highCaller
<1>3. CASE /\ limit = "fillOutput" /\ pc' = "last" /\ op' = optr
           /\ UNCHANGED << anchor, ip, lastSequence, reached >>
  <2>1. HighTypeOK' /\ HighTaken' /\ HighInsideCapacity' /\ HighAccepted'
        BY <1>1, <1>3 DEF HighInv, HighTypeOK, HighTaken, HighInsideCapacity, HighAccepted,
                          highCaller
  <2>2. HighRoom'
        BY <1>1, <1>3 DEF HighInv, HighRoom, highCaller
  <2>3. HighSequence'
        BY <1>1, <1>3 DEF HighInv, HighSequence, BehindMatch, BehindCode, highCaller
  <2> QED
      BY <2>1, <2>2, <2>3 DEF HighInv
<1>4. CASE /\ limit = "fillOutput" /\ pc' = "last"
           /\ optr + ll_totalCost <= maxLitPos /\ FarFromEnd(Least(ml, maxMlSize))
           /\ Write(optr, ip, Least(ml, maxMlSize))
  <2>1. PICK l \in Nat : l = ip - anchor
        BY <1>1
  <2>2. PICK b \in Nat : b = LengthBytes(l) /\ b <= (l + 240) \div 255
        BY HighLengthBytes
  <2>3. PICK w \in Nat : w = WildCopy8(l) /\ w <= l + 8
        BY HighWildCopy
  <2>4. PICK t \in Nat : t = optr + 1 + (l + 240) \div 255 + l
        BY <1>1
  <2>5. optr + ll_totalCost = t
        BY <1>1, <2>1, <2>4 DEF ll_totalCost
  <2>6. maxLitPos = capacity - 8 /\ t <= capacity - 8
        BY <1>1, <1>4, <2>5 DEF maxLitPos, oend, LASTLITERALS
  <2>7. PICK free \in Nat : free = capacity - 8 - t
        BY <1>1, <2>6
  <2>8. maxMlSize = 18 + 255 * free
        BY <1>1, <2>5, <2>6, <2>7 DEF maxMlSize, MINMATCH, ML_MASK
  <2>9. PICK n \in Nat : n = Least(ml, maxMlSize) /\ n >= 4 /\ n <= ml /\ n <= 18 + 255 * free
        BY <1>1, <2>8 DEF Least
  <2>10. capacity - (t + 2) - 1 + n >= 12
    <3>1. capacity - (optr + ll_totalCost + 2) - 1 + n >= 12
          BY <1>4, <2>9 DEF FarFromEnd, MFLIMIT
    <3> QED
        BY <2>5, <3>1
  <2>11. PICK c \in Nat : c = LengthBytes(n - 4) /\ c <= free /\ (n <= 18 => c = 0)
         BY <2>9, LongestMatch
  <2>12. PICK o \in Nat : o = optr + 1 + b + l + 2 + c
         BY <1>1
  <2>13. Write(optr, ip, n)
         BY <1>4, <2>9
  <2>14. op' = o
    <3>1. op' = OffsetEnd(optr, ip - anchor) + LengthBytes(n - MINMATCH)
          BY <2>13 DEF Write
    <3> QED
        BY <2>1, <2>2, <2>11, <2>12, <3>1 DEF OffsetEnd, MINMATCH
  <2>15. o <= t + 2 + c
         BY <1>1, <2>2, <2>4, <2>12
  <2>16. o + 6 <= capacity
         BY <1>1, <2>7, <2>11, <2>15
  <2>17. o + 13 <= n + capacity
    <3>1. CASE n <= 18
          BY <1>1, <2>10, <2>11, <2>15, <3>1
    <3>2. CASE n > 18
          BY <1>1, <2>16, <3>2
    <3> QED
        BY <3>1, <3>2
  <2>18. LiteralsReach(optr, ip - anchor) <= capacity
    <3>1. LiteralsReach(optr, ip - anchor) = optr + 1 + b + w
          BY <2>1, <2>2, <2>3 DEF LiteralsReach
    <3>2. optr + 1 + b + w <= t + 8
          BY <1>1, <2>2, <2>3, <2>4
    <3> QED
        BY <1>1, <2>6, <3>1, <3>2
  <2>19. ip + n + 5 <= srcSize /\ o <= capacity
         BY <1>1, <2>9, <2>16
  <2>20. pc' \in { "main", "last" } /\ ml' \in Nat /\ optr' \in Nat /\ UNCHANGED highCaller
         BY <1>1, <1>4
  <2>21. limit # "notLimited"
         BY <1>4
  <2> QED
      BY <1>1, <2>9, <2>13, <2>14, <2>16, <2>17, <2>18, <2>19, <2>20, <2>21, Written
<1>5. \/ pc' = "failed" /\ UNCHANGED << anchor, ip, op, lastSequence, reached >>
      \/ /\ limit = "fillOutput" /\ pc' = "last" /\ op' = optr
         /\ UNCHANGED << anchor, ip, lastSequence, reached >>
      \/ /\ limit = "fillOutput" /\ pc' = "last"
         /\ optr + ll_totalCost <= maxLitPos /\ FarFromEnd(Least(ml, maxMlSize))
         /\ Write(optr, ip, Least(ml, maxMlSize))
      BY DEF DestOverflow
<1> QED
    BY <1>2, <1>3, <1>4, <1>5

-----------------------------------------------------------------------------
(* What is behind the last match, with a last run of n literals.           *)
LEMMA EndsBehind ==
  ASSUME NEW a \in Nat, NEW o \in Nat, NEW l \in Nat, NEW c \in Nat, NEW n \in Nat,
         n >= 5, l + 12 <= a + n, c + 2 <= o
  PROVE  /\ l <= (a + n) - 12
         /\ c <= (o + 1 + LengthBytes(n) + n) - 8
         /\ a <= (a + n) - 5
BY HighLengthBytes

(* A last run of n literals that fits and leaves the distances.            *)
LEMMA RunWritten ==
  ASSUME HighInv, UNCHANGED << highCaller, anchor, ml, optr, lastSequence >>, pc = "last",
         NEW n \in Nat, op + 1 + LengthBytes(n) + n <= capacity, anchor + n <= srcSize,
         lastSequence # NoSequence => n >= 5 /\ lastSequence.literals + 12 <= anchor + n,
         op' = op + 1 + LengthBytes(n) + n, ip' = anchor + n,
         reached' = Most(reached, op'), pc' = "done"
  PROVE  HighInv'
<1>1. /\ srcSize \in Nat /\ capacity \in Nat /\ op \in Nat /\ anchor \in Nat
      /\ reached \in Nat /\ reached <= capacity
      /\ lastSequence \in [literals : Nat, code : Nat, match : Nat]
      BY DEF HighInv, HighTypeOK, HighInsideCapacity
<1>2. PICK o \in Nat : o = op + 1 + LengthBytes(n) + n
      BY <1>1, HighLengthBytes
<1>3. PICK i \in Nat : i = anchor + n
      BY <1>1
<1>4. reached' \in Nat /\ reached' <= capacity
  <2>1. Most(reached, o) \in Nat /\ Most(reached, o) <= capacity
        BY <1>1, <1>2, MostOf
  <2> QED
      BY <1>2, <2>1
<1>5. HighTypeOK'
      BY <1>2, <1>3, <1>4 DEF HighInv, HighTypeOK, highCaller
<1>6. HighTaken' /\ HighRoom' /\ HighSequence' /\ HighInsideCapacity'
      BY <1>4 DEF HighInv, HighTaken, HighRoom, EnoughRoom, HighSequence, HighInsideCapacity,
                  highCaller
<1>7. HighAccepted'
  <2> SUFFICES ASSUME lastSequence # NoSequence
               PROVE  /\ lastSequence.literals <= i - 12
                      /\ lastSequence.code <= o - 8
                      /\ lastSequence.match <= i - 5
      BY <1>2, <1>3 DEF HighAccepted, MFLIMIT, LASTLITERALS
  <2>1. lastSequence.match = anchor /\ lastSequence.code + 2 <= op
        BY DEF HighInv, HighSequence, BehindMatch, BehindCode
  <2>2. /\ lastSequence.literals <= (anchor + n) - 12
        /\ lastSequence.code <= (op + 1 + LengthBytes(n) + n) - 8
        /\ anchor <= (anchor + n) - 5
        BY <1>1, <2>1, EndsBehind
  <2> QED
      BY <1>2, <1>3, <2>1, <2>2
<1> QED
    BY <1>5, <1>6, <1>7 DEF HighInv

LEMMA LastLiteralsInv ==
  ASSUME HighInv, LastLiterals
  PROVE  HighInv'
<1>1. /\ pc = "last" /\ UNCHANGED << highCaller, anchor, ml, optr, lastSequence >>
      /\ srcSize \in Nat /\ capacity \in Nat /\ op \in Nat /\ anchor \in Nat /\ anchor <= srcSize
      /\ limit \in { "notLimited", "limitedOutput", "fillOutput" }
      /\ limit = "notLimited" => /\ capacity >= srcSize + srcSize \div 255 + 16
                                 /\ op <= anchor + anchor \div 255
      /\ limit = "fillOutput" => op + 1 <= capacity
      BY DEF LastLiterals, HighInv, HighTypeOK, HighTaken, HighRoom, EnoughRoom, Expands
<1>2. lastSequence # NoSequence =>
        /\ anchor + 5 <= srcSize /\ lastSequence.literals + 12 <= srcSize
        /\ lastSequence.literals \in Nat
        /\ limit = "fillOutput" =>
             op + 6 <= capacity /\ lastSequence.literals + 13 + op <= anchor + capacity
      BY <1>1 DEF HighInv, HighTypeOK, HighSequence, BehindMatch, BehindCode
<1>3. PICK lastRun \in Nat : lastRun = iend - anchor /\ anchor + lastRun = srcSize
      BY <1>1 DEF iend
<1>4. CASE /\ limit # "notLimited" =>
                op + 1 + (lastRun + 255 - RUN_MASK) \div 255 + lastRun <= capacity
           /\ op' = op + 1 + LengthBytes(lastRun) + lastRun /\ ip' = anchor + lastRun
           /\ reached' = Most(reached, op') /\ pc' = "done"
  <2>1. PICK b \in Nat : /\ b = LengthBytes(lastRun)
                         /\ b <= (lastRun + 240) \div 255 /\ b <= lastRun \div 255 + 1
        BY HighLengthBytes
  <2>2. limit # "notLimited" => op + 1 + (lastRun + 240) \div 255 + lastRun <= capacity
        BY <1>4 DEF RUN_MASK
  <2>3. anchor \div 255 + lastRun \div 255 <= srcSize \div 255
        BY <1>1, <1>3
  <2>4. op + 1 + b + lastRun <= capacity
        BY <1>1, <1>3, <2>1, <2>2, <2>3
  <2>5. op + 1 + LengthBytes(lastRun) + lastRun <= capacity
        BY <2>1, <2>4
  <2>6. /\ anchor + lastRun <= srcSize
        /\ lastSequence # NoSequence =>
             lastRun >= 5 /\ lastSequence.literals + 12 <= anchor + lastRun
        BY <1>1, <1>2, <1>3
  <2> QED
      BY <1>1, <1>4, <2>5, <2>6, RunWritten
<1>5. CASE pc' = "failed" /\ UNCHANGED << ip, op, reached >>
      BY <1>1, <1>5 DEF HighInv, HighTypeOK, HighTaken, HighRoom, HighSequence,
                        HighInsideCapacity, HighAccepted, EnoughRoom, highCaller
<1>6. CASE /\ limit = "fillOutput"
           /\ ~(op + 1 + (lastRun + 255 - RUN_MASK) \div 255 + lastRun <= capacity)
           /\ op' = op + 1 + LengthBytes(adaptedRun) + adaptedRun /\ ip' = anchor + adaptedRun
           /\ reached' = Most(reached, op') /\ pc' = "done"
  <2>1. PICK r \in Nat : r = capacity - op - 1 /\ capacity = op + 1 + r
        BY <1>1, <1>6
  <2>2. adaptedRun = r - (r + 241) \div 256
        BY <2>1 DEF adaptedRun, RUN_MASK
  <2>3. PICK n \in Nat : n = adaptedRun /\ n = r - (r + 241) \div 256
        BY <2>2
  <2>4. PICK b \in Nat : b = LengthBytes(n) /\ b <= (r + 241) \div 256
        BY <2>3 DEF LengthBytes
  <2>5. op + 1 + b + n <= capacity
        BY <1>1, <2>1, <2>3, <2>4
  <2>6. n <= lastRun
    <3>1. ~(op + 1 + (lastRun + 240) \div 255 + lastRun <= capacity)
          BY <1>6 DEF RUN_MASK
    <3>2. r < lastRun + (lastRun + 240) \div 255
          BY <1>1, <2>1, <3>1
    <3> QED
        BY <2>3, <3>2
  <2>7. lastSequence # NoSequence => n >= 5 /\ lastSequence.literals + 12 <= anchor + n
    <3> SUFFICES ASSUME lastSequence # NoSequence
                 PROVE  n >= 5 /\ lastSequence.literals + 12 <= anchor + n
        OBVIOUS
    <3>1. PICK l \in Nat : l = lastSequence.literals
          BY <1>2
    <3>2. r >= 5 /\ l + 12 <= anchor + r /\ anchor + 5 <= srcSize
          BY <1>1, <1>2, <1>6, <2>1, <3>1
    <3>3. r < 15 => n = r
          BY <2>3
    <3>4. r >= 15 => n >= 14
          BY <2>3
    <3>5. l <= anchor
          BY <1>1, <3>1 DEF HighInv, HighSequence, BehindMatch
    <3> QED
        BY <1>1, <3>1, <3>2, <3>3, <3>4, <3>5
  <2>8. anchor + n <= srcSize /\ op + 1 + LengthBytes(n) + n <= capacity
        BY <1>1, <1>3, <2>4, <2>5, <2>6
  <2> QED
      BY <1>1, <1>6, <2>3, <2>7, <2>8, RunWritten
<1> QED
    BY <1>3, <1>4, <1>5, <1>6 DEF LastLiterals

-----------------------------------------------------------------------------
LEMMA HighStepInv ==
  ASSUME HighSizes, HighInv, [HighNext \/ Returned]_highVars
  PROVE  HighInv'
<1>1. CASE HighNext
      BY <1>1, EncodeSequenceInv, SearchEndsInv, DestOverflowInv, LastLiteralsInv DEF HighNext
<1>2. CASE UNCHANGED highVars
      BY <1>2 DEF highVars, HighInv, HighTypeOK, HighTaken, HighRoom, EnoughRoom, Expands,
                  HighSequence, BehindMatch, BehindCode, HighInsideCapacity, HighAccepted
<1> QED
    BY <1>1, <1>2 DEF Returned

(* LZ4HC_compress_hashChain never writes past its capacity, whatever       *)
(* sequences it encodes: its checks, made per sequence and not per         *)
(* position, cover the copies that run over, and the sequence that is      *)
(* squeezed in when the output is to be filled leaves the last literals    *)
(* their room.                                                             *)
THEOREM HighCompressorInsideCapacity ==
  ASSUME HighSizes
  PROVE  HighSpec => []HighInsideCapacity
<1>1. HighInit => HighInv
      BY HighInitInv
<1>2. HighInv /\ [HighNext \/ Returned]_highVars => HighInv'
      BY HighStepInv
<1>3. HighInv => HighInsideCapacity
      BY DEF HighInv
<1> QED
    BY <1>1, <1>2, <1>3, PTL DEF HighSpec

(* Its blocks end as the format demands, so the decoder accepts them: also *)
(* the squeezed sequence keeps 12 bytes between the start of its match and *)
(* the end of what is compressed.                                          *)
THEOREM HighBlocksAccepted ==
  ASSUME HighSizes
  PROVE  HighSpec => []HighAccepted
<1>1. HighInit => HighInv
      BY HighInitInv
<1>2. HighInv /\ [HighNext \/ Returned]_highVars => HighInv'
      BY HighStepInv
<1>3. HighInv => HighAccepted
      BY DEF HighInv
<1> QED
    BY <1>1, <1>2, <1>3, PTL DEF HighSpec
=============================================================================
