--------------------------- MODULE Lz4OutputProofs --------------------------
(***************************************************************************)
(* LZ4_compress_generic keeps to its output buffer, for every size of the  *)
(* input, every capacity, every choice of matches and each of the three    *)
(* ways to bound the output.  The functions that write frames never want   *)
(* more room than LZ4F_compressBound promises, keep what waits for a full  *)
(* block inside tmpBuff, lose no byte of the text and only refer to what   *)
(* the decoder has, for all sizes and preferences and however the text is  *)
(* cut.                                                                    *)
(***************************************************************************)
EXTENDS Lz4Output, Lz4FrameEncoder, SequenceTheorems, TLAPS

SizesAreNat ==
  /\ SrcSizes \subseteq Nat /\ Capacities \subseteq Nat
  /\ LitLengths \subseteq Nat /\ MatchCodes \subseteq Nat

OutputTypeOK ==
  /\ srcSize \in Nat /\ capacity \in Nat
  /\ pc \in { "begin", "search", "match", "next", "last", "done", "failed" }
  /\ anchor \in Nat /\ ip \in Nat /\ op \in Nat /\ token \in Nat
  /\ reached \in Nat

(* What was encoded lies in the input; where a match starts, 12 bytes are  *)
(* left of it.                                                             *)
InputTaken ==
  /\ anchor <= srcSize
  /\ pc = "begin" => anchor = 0 /\ op = 0
  /\ pc \in { "match", "next" } => ip + 12 <= srcSize
  /\ pc = "next" => anchor = ip

(* Without limit: what was written is little more than what was taken.     *)
Expansion ==
  outputDirective = "notLimited" =>
    /\ pc \in { "begin", "search", "next", "last" } => op <= anchor + anchor \div 255
    /\ pc = "match" => op <= ip + ip \div 255 + 2

(* With a limit: an offset fits, and after a match the last literals of    *)
(* the format; when the output is filled, always a token.                  *)
RoomLeft ==
  /\ outputDirective # "notLimited" =>
       /\ pc = "match" => op + 2 <= capacity
       /\ pc = "next" => op + 6 <= capacity
  /\ outputDirective = "fillOutput" =>
       /\ pc \in { "search", "last" } => op + 1 <= capacity
       /\ pc = "match" => token + 1 <= capacity

OutputInv ==
  OutputTypeOK /\ InputTaken /\ Expansion /\ RoomLeft /\ InsideCapacity

-----------------------------------------------------------------------------
(* The bytes of a length, also when they are written four at a time.       *)
LEMMA LengthBytesBounds ==
  ASSUME NEW n \in Nat
  PROVE  /\ LengthBytes(n) \in Nat
         /\ LengthBytes(n) <= (n + 240) \div 255
         /\ LengthBytes(n) <= n \div 255 + 1
         /\ LengthBytes(n) <= n
         /\ n >= 15 => 4 * ((n - 15) \div (4 * 255)) + 4 <= LengthBytes(n) + 3
BY DEF LengthBytes

LEMMA WildCopyBounds ==
  ASSUME NEW n \in Nat
  PROVE  /\ WildCopy8(n) \in Nat
         /\ WildCopy8(n) <= n + 8
         /\ n >= 1 => WildCopy8(n) <= n + 7
BY DEF WildCopy8, Most

LEMMA DivSum ==
  ASSUME NEW a \in Nat, NEW b \in Nat
  PROVE  a \div 255 + b \div 255 <= (a + b) \div 255
OBVIOUS

LEMMA DirectiveCases ==
  ASSUME OutputTypeOK
  PROVE  /\ outputDirective \in { "notLimited", "limitedOutput", "fillOutput" }
         /\ outputDirective = "notLimited" =>
              capacity >= srcSize + srcSize \div 255 + 16
BY DEF OutputTypeOK, outputDirective, LZ4_compressBound

LEMMA DirectiveStays ==
  ASSUME UNCHANGED caller
  PROVE  outputDirective' = outputDirective
BY DEF caller, outputDirective, LZ4_compressBound

LEMMA OutputInitInv ==
  ASSUME SizesAreNat, OutputInit
  PROVE  OutputInv
<1>1. OutputTypeOK
      BY DEF SizesAreNat, OutputInit, OutputTypeOK
<1>2. InputTaken
      BY <1>1 DEF OutputInit, OutputTypeOK, InputTaken
<1>3. Expansion
      BY DEF OutputInit, Expansion
<1>4. RoomLeft
      BY DEF OutputInit, RoomLeft
<1>5. InsideCapacity
      BY <1>1 DEF OutputInit, OutputTypeOK, InsideCapacity
<1> QED
    BY <1>1, <1>2, <1>3, <1>4, <1>5 DEF OutputInv

-----------------------------------------------------------------------------
LEMMA BeginInv ==
  ASSUME OutputInv, Begin
  PROVE  OutputInv'
<1>1. outputDirective' = outputDirective
      BY DirectiveStays DEF Begin
<1>2. /\ outputDirective \in { "notLimited", "limitedOutput", "fillOutput" }
      /\ outputDirective = "notLimited" => capacity >= srcSize + srcSize \div 255 + 16
      BY DirectiveCases DEF OutputInv
<1>3. /\ anchor = 0 /\ op = 0
      /\ reached <= capacity
      BY DEF OutputInv, InputTaken, InsideCapacity, Begin
<1>4. OutputTypeOK'
      BY DEF OutputInv, OutputTypeOK, Begin, caller
<1>5. InputTaken'
      BY <1>3, <1>4 DEF OutputTypeOK, InputTaken, Begin, caller
<1>6. Expansion'
      BY <1>1, <1>3 DEF Expansion, Begin, caller
<1>7. RoomLeft'
  <2>1. capacity \in Nat /\ capacity' = capacity /\ op = 0
        BY <1>3 DEF OutputInv, OutputTypeOK, Begin, caller
  <2>2. pc' \in { "search", "last" } => op' = op
        BY DEF Begin
  <2>3. pc' \in { "search", "last" } /\ outputDirective = "fillOutput" => ~(capacity < 1)
        BY DEF Begin
  <2>4. pc' \notin { "match", "next" }
        BY DEF Begin
  <2> QED
      BY <1>1, <2>1, <2>2, <2>3, <2>4 DEF RoomLeft
<1>8. InsideCapacity'
      BY <1>3, <1>4 DEF OutputTypeOK, InsideCapacity, Begin, caller
<1> QED
    BY <1>4, <1>5, <1>6, <1>7, <1>8 DEF OutputInv

LEMMA NoMatchFoundInv ==
  ASSUME OutputInv, NoMatchFound
  PROVE  OutputInv'
<1>1. outputDirective' = outputDirective
      BY DirectiveStays DEF NoMatchFound
<1> QED
    BY <1>1 DEF OutputInv, OutputTypeOK, InputTaken, Expansion, RoomLeft, InsideCapacity,
                NoMatchFound, caller

(* The literals of a sequence, and what the copy writes too much.          *)
LEMMA EncodeLiteralsInv ==
  ASSUME SizesAreNat, OutputInv, EncodeLiterals
  PROVE  OutputInv'
<1>1. outputDirective' = outputDirective
      BY DirectiveStays DEF EncodeLiterals
<1>2. /\ outputDirective \in { "notLimited", "limitedOutput", "fillOutput" }
      /\ outputDirective = "notLimited" => capacity >= srcSize + srcSize \div 255 + 16
      BY DirectiveCases DEF OutputInv
<1>3. CASE pc' \in { "failed", "last" }
      BY <1>1, <1>3 DEF OutputInv, OutputTypeOK, InputTaken, Expansion, RoomLeft,
                        InsideCapacity, EncodeLiterals, caller
<1>4. CASE pc' = "match"
  <2>1. PICK n \in LitLengths :
          /\ anchor + n < mflimitPlusOne
          /\ outputDirective = "limitedOutput" => LimitedRoom(n)
          /\ outputDirective = "fillOutput" => FillRoom(n)
          /\ op' = op + 1 + LengthBytes(n) + n
          /\ reached' = Most(reached, op + 1 + LengthBytes(n) + WildCopy8(n))
          /\ token' = op
          /\ ip' = anchor + n
        BY <1>4 DEF EncodeLiterals
  <2> DEFINE b == LengthBytes(n)
             w == WildCopy8(n)
  <2>2. /\ n \in Nat /\ b \in Nat /\ w \in Nat
        /\ b <= (n + 240) \div 255 /\ b <= n \div 255 + 1 /\ b <= n
        /\ w <= n + 8 /\ (n >= 1 => w <= n + 7)
        BY LengthBytesBounds, WildCopyBounds DEF SizesAreNat
  <2>3. /\ op' = op + 1 + b + n
        /\ reached' = Most(reached, op + 1 + b + w)
        BY <2>1
  <2> HIDE DEF b, w
  <2>4. /\ srcSize' = srcSize /\ capacity' = capacity /\ anchor' = anchor
        /\ pc = "search"
        BY DEF EncodeLiterals, caller
  <2>5. /\ srcSize \in Nat /\ capacity \in Nat /\ anchor \in Nat /\ op \in Nat
        /\ reached \in Nat /\ reached <= capacity /\ anchor <= srcSize
        /\ outputDirective = "notLimited" => op <= anchor + anchor \div 255
        BY <2>4 DEF OutputInv, OutputTypeOK, InputTaken, Expansion, InsideCapacity
  <2>6. anchor + n + 12 <= srcSize
        BY <2>1, <2>2, <2>5 DEF mflimitPlusOne, iend, MFLIMIT
  <2>7. op + 1 + b + w <= capacity /\ op' + 2 <= capacity
    <3>1. CASE outputDirective = "notLimited"
      <4>1. anchor \div 255 + n \div 255 <= srcSize \div 255
            BY <2>2, <2>5, <2>6
      <4> QED
          BY <3>1, <4>1, <1>2, <2>2, <2>3, <2>5, <2>6
    <3>2. CASE outputDirective = "limitedOutput"
      <4>1. op + 1 + n + 8 + n \div 255 <= capacity
            BY <3>2, <2>1, <2>2, <2>5 DEF LimitedRoom, olimit, LASTLITERALS
      <4>2. b + w <= n + 8 + n \div 255
            BY <2>2 DEF b, LengthBytes
      <4> QED
          BY <4>1, <4>2, <2>2, <2>3, <2>5
    <3>3. CASE outputDirective = "fillOutput"
      <4>1. op + 1 + (n + 240) \div 255 + n + 11 <= capacity
            BY <3>3, <2>1, <2>2, <2>5 DEF FillRoom, olimit, MFLIMIT, MINMATCH
      <4> QED
          BY <4>1, <2>2, <2>3, <2>5
    <3> QED
        BY <1>2, <3>1, <3>2, <3>3
  <2>8. OutputTypeOK'
    <3>1. op' \in Nat /\ reached' \in Nat /\ ip' \in Nat /\ token' \in Nat
          BY <2>1, <2>2, <2>3, <2>5 DEF Most
    <3> QED
        BY <1>4, <3>1, <2>4, <2>5 DEF OutputTypeOK
  <2>9. InputTaken'
        BY <1>4, <2>1, <2>2, <2>4, <2>5, <2>6 DEF InputTaken
  <2>10. Expansion'
    <3>1. CASE outputDirective = "notLimited"
      <4>1. ip' = anchor + n
            BY <2>1
      <4>2. anchor \div 255 + n \div 255 <= ip' \div 255
            BY <2>2, <2>5, <4>1, DivSum
      <4>3. op' <= ip' + ip' \div 255 + 2
            BY <3>1, <4>1, <4>2, <2>2, <2>3, <2>5
      <4> QED
          BY <1>4, <4>3 DEF Expansion
    <3> QED
        BY <1>1, <3>1 DEF Expansion
  <2>11. RoomLeft'
    <3>1. token' + 1 <= capacity'
          BY <2>1, <2>2, <2>4, <2>5, <2>7
    <3> QED
        BY <1>4, <2>4, <2>7, <3>1 DEF RoomLeft
  <2>12. InsideCapacity'
         BY <2>2, <2>3, <2>4, <2>5, <2>7 DEF InsideCapacity, Most
  <2> QED
      BY <2>8, <2>9, <2>10, <2>11, <2>12 DEF OutputInv
<1> QED
    BY <1>3, <1>4 DEF EncodeLiterals

-----------------------------------------------------------------------------
(* The offset and the length of a match, for a length that there is room   *)
(* for and that leaves five bytes of the input.                            *)
LEMMA WriteMatchInv ==
  ASSUME OutputInv, NEW n \in Nat, pc = "match", WriteMatch(n), UNCHANGED caller,
         ip + 4 + n + 5 <= srcSize,
         outputDirective # "notLimited" => op + 8 + LengthBytes(n) <= capacity
  PROVE  OutputInv'
<1>1. outputDirective' = outputDirective
      BY DirectiveStays
<1>2. /\ outputDirective \in { "notLimited", "limitedOutput", "fillOutput" }
      /\ outputDirective = "notLimited" => capacity >= srcSize + srcSize \div 255 + 16
      BY DirectiveCases DEF OutputInv
<1> DEFINE b    == LengthBytes(n)
           wide == 4 * ((n - 15) \div (4 * 255)) + 4
<1>3. /\ b \in Nat /\ b <= n /\ b <= n \div 255 + 1
      /\ n >= 15 => wide <= b + 3
      BY LengthBytesBounds
<1>4. n >= 15 => wide \in Nat
      OBVIOUS
<1>5. /\ op' = op + 2 + b
      /\ ip' = ip + 4 + n /\ anchor' = ip' /\ token' = token
      /\ reached' = Most(reached, Most(op', IF n >= 15 THEN op + 2 + wide ELSE 0))
      /\ (pc' = "next" /\ ip' < mflimitPlusOne) \/ pc' = "last"
      BY DEF WriteMatch, ML_MASK, MINMATCH
<1> HIDE DEF b, wide
<1>6. /\ srcSize' = srcSize /\ capacity' = capacity
      /\ srcSize \in Nat /\ capacity \in Nat /\ op \in Nat /\ ip \in Nat
      /\ token \in Nat /\ reached \in Nat /\ reached <= capacity
      /\ outputDirective = "notLimited" => op <= ip + ip \div 255 + 2
      BY DEF caller, OutputInv, OutputTypeOK, InsideCapacity, Expansion
<1>7. outputDirective # "notLimited" => op + 8 + b <= capacity
      BY DEF b
<1>8. op' + 3 <= capacity
  <2>1. CASE outputDirective = "notLimited"
    <3>1. ip \div 255 + n \div 255 <= srcSize \div 255
          BY <1>6
    <3> QED
        BY <2>1, <3>1, <1>2, <1>3, <1>5, <1>6
  <2> QED
      BY <2>1, <1>3, <1>5, <1>6, <1>7
<1>9. OutputTypeOK'
  <2>1. op' \in Nat /\ ip' \in Nat /\ anchor' \in Nat /\ token' \in Nat
        BY <1>3, <1>5, <1>6
  <2>2. reached' \in Nat
        BY <2>1, <1>3, <1>4, <1>5, <1>6 DEF Most
  <2> QED
      BY <2>1, <2>2, <1>5, <1>6 DEF OutputTypeOK
<1>10. InputTaken'
       BY <1>5, <1>6 DEF InputTaken, mflimitPlusOne, iend, MFLIMIT
<1>11. Expansion'
  <2>1. CASE outputDirective = "notLimited"
    <3>1. ip \div 255 <= ip' \div 255
          BY <1>5, <1>6
    <3>2. op' <= anchor' + anchor' \div 255
          BY <2>1, <3>1, <1>3, <1>5, <1>6
    <3> QED
        BY <1>5, <3>2 DEF Expansion
  <2> QED
      BY <1>1, <2>1 DEF Expansion
<1>12. RoomLeft'
  <2>1. outputDirective # "notLimited" => op' + 6 <= capacity'
        BY <1>3, <1>5, <1>6, <1>7
  <2>2. outputDirective = "fillOutput" => op' + 1 <= capacity'
        BY <2>1, <1>3, <1>5, <1>6
  <2> QED
      BY <1>1, <1>5, <2>1, <2>2 DEF RoomLeft
<1>13. InsideCapacity'
  <2>1. op' \in Nat
        BY <1>3, <1>5, <1>6
  <2> QED
      BY <2>1, <1>3, <1>4, <1>5, <1>6, <1>8 DEF InsideCapacity, Most
<1> QED
    BY <1>9, <1>10, <1>11, <1>12, <1>13 DEF OutputInv

(* The match that LZ4_compress_destSize shortens fits exactly.             *)
LEMMA ShortenedMatch ==
  ASSUME capacity \in Nat, op \in Nat, NEW n \in Nat, ~TooLateForMatch, ~MatchRoom(n)
  PROVE  /\ newMatchCode \in Nat /\ newMatchCode < n
         /\ op + 8 + LengthBytes(newMatchCode) <= capacity
<1> DEFINE k == capacity - op - 8
<1>1. k \in Nat /\ k >= 3
      BY DEF TooLateForMatch, olimit, MFLIMIT, MINMATCH
<1>2. (n + 240) \div 255 > k
      BY DEF MatchRoom, olimit, LASTLITERALS
<1>3. newMatchCode = 14 + 255 * k
      BY DEF newMatchCode, olimit, LASTLITERALS
<1>4. capacity = op + 8 + k
      OBVIOUS
<1> HIDE DEF k
<1>5. newMatchCode \in Nat /\ newMatchCode < n
      BY <1>1, <1>2, <1>3
<1>6. LengthBytes(newMatchCode) = k
      BY <1>1, <1>3 DEF LengthBytes
<1> QED
    BY <1>4, <1>5, <1>6

LEMMA EncodeMatchInv ==
  ASSUME SizesAreNat, OutputInv, EncodeMatch
  PROVE  OutputInv'
<1>1. outputDirective' = outputDirective
      BY DirectiveStays DEF EncodeMatch
<1>2. outputDirective \in { "notLimited", "limitedOutput", "fillOutput" }
      BY DirectiveCases DEF OutputInv
<1>3. /\ pc = "match" /\ UNCHANGED caller
      /\ srcSize \in Nat /\ capacity \in Nat /\ op \in Nat /\ ip \in Nat
      /\ token \in Nat /\ reached \in Nat /\ reached <= capacity
      /\ ip + 12 <= srcSize
      /\ outputDirective # "notLimited" => op + 2 <= capacity
      /\ outputDirective = "fillOutput" => token + 1 <= capacity
      BY DEF EncodeMatch, caller, OutputInv, OutputTypeOK, InputTaken, RoomLeft, InsideCapacity
<1>4. LongestMatch = srcSize - 5 - ip - 4 /\ LongestMatch \in Nat
      BY <1>3 DEF LongestMatch, matchlimit, iend, LASTLITERALS, MINMATCH
<1>5. CASE /\ outputDirective = "fillOutput" /\ op' = token /\ pc' = "last"
           /\ UNCHANGED << anchor, ip, token, lastSequence, reached >>
      BY <1>1, <1>3, <1>5 DEF OutputInv, OutputTypeOK, InputTaken, Expansion, RoomLeft,
                              InsideCapacity, caller
<1>6. ASSUME NEW n \in { c \in MatchCodes : c <= LongestMatch } \union { LongestMatch },
             outputDirective # "notLimited" => MatchRoom(n), WriteMatch(n)
      PROVE  OutputInv'
  <2>1. n \in Nat /\ n <= LongestMatch
        BY <1>4 DEF SizesAreNat
  <2>2. ip + 4 + n + 5 <= srcSize
        BY <1>3, <1>4, <2>1
  <2>3. LengthBytes(n) \in Nat /\ LengthBytes(n) <= (n + 240) \div 255
        BY <2>1, LengthBytesBounds
  <2>4. outputDirective # "notLimited" => op + 8 + LengthBytes(n) <= capacity
        BY <1>3, <1>6, <2>1, <2>3 DEF MatchRoom, olimit, LASTLITERALS
  <2> QED
      BY <1>3, <1>6, <2>1, <2>2, <2>4, WriteMatchInv
<1>7. CASE /\ outputDirective = "limitedOutput" /\ pc' = "failed"
           /\ reached' = Most(reached, op + 2)
           /\ UNCHANGED << anchor, ip, op, token, lastSequence >>
  <2>1. reached' \in Nat /\ reached' <= capacity
        BY <1>3, <1>7 DEF Most
  <2> QED
      BY <1>1, <1>3, <1>7, <2>1 DEF OutputInv, OutputTypeOK, InputTaken, Expansion, RoomLeft,
                                    InsideCapacity, caller
<1>8. ASSUME NEW n \in { c \in MatchCodes : c <= LongestMatch } \union { LongestMatch },
             outputDirective = "fillOutput", ~TooLateForMatch, ~MatchRoom(n),
             WriteMatch(newMatchCode)
      PROVE  OutputInv'
  <2>1. n \in Nat /\ n <= LongestMatch
        BY <1>4 DEF SizesAreNat
  <2>2. /\ newMatchCode \in Nat /\ newMatchCode < n
        /\ op + 8 + LengthBytes(newMatchCode) <= capacity
        BY <1>3, <1>8, <2>1, ShortenedMatch
  <2>3. ip + 4 + newMatchCode + 5 <= srcSize
        BY <1>3, <1>4, <2>1, <2>2
  <2> QED
      BY <1>3, <1>8, <2>2, <2>3, WriteMatchInv
<1> QED
    BY <1>5, <1>6, <1>7, <1>8 DEF EncodeMatch

LEMMA NextPositionInv ==
  ASSUME OutputInv, NextPosition
  PROVE  OutputInv'
<1>1. outputDirective' = outputDirective
      BY DirectiveStays DEF NextPosition
<1>2. /\ outputDirective \in { "notLimited", "limitedOutput", "fillOutput" }
      /\ outputDirective = "notLimited" => capacity >= srcSize + srcSize \div 255 + 16
      BY DirectiveCases DEF OutputInv
<1>3. /\ pc = "next" /\ UNCHANGED << caller, anchor, ip, lastSequence >>
      /\ srcSize \in Nat /\ capacity \in Nat /\ op \in Nat /\ ip \in Nat
      /\ anchor = ip /\ ip + 12 <= srcSize
      /\ token \in Nat /\ reached \in Nat /\ reached <= capacity
      /\ outputDirective # "notLimited" => op + 6 <= capacity
      /\ outputDirective = "notLimited" => op <= ip + ip \div 255
      BY DEF NextPosition, OutputInv, OutputTypeOK, InputTaken, Expansion, RoomLeft,
             InsideCapacity
<1>4. CASE /\ pc' = "match" /\ token' = op /\ op' = op + 1
           /\ reached' = Most(reached, op + 1)
  <2>1. op + 1 <= capacity
    <3>1. ip \div 255 <= srcSize \div 255
          BY <1>3
    <3> QED
        BY <1>2, <1>3, <3>1
  <2>2. reached' \in Nat /\ reached' <= capacity /\ op' \in Nat
        BY <1>3, <1>4, <2>1 DEF Most
  <2>3. OutputTypeOK'
        BY <1>3, <1>4, <2>2 DEF OutputTypeOK, caller
  <2>4. InputTaken'
        BY <1>3, <1>4 DEF InputTaken, caller
  <2>5. Expansion'
        BY <1>1, <1>3, <1>4 DEF Expansion
  <2>6. RoomLeft'
        BY <1>1, <1>3, <1>4 DEF RoomLeft, caller
  <2> QED
      BY <1>3, <2>2, <2>3, <2>4, <2>5, <2>6 DEF OutputInv, InsideCapacity, caller
<1>5. CASE pc' = "search" /\ UNCHANGED << token, op, reached >>
  <2>1. RoomLeft'
        BY <1>1, <1>3, <1>5 DEF RoomLeft, caller
  <2>2. Expansion'
        BY <1>1, <1>3, <1>5 DEF Expansion
  <2> QED
      BY <1>3, <1>5, <2>1, <2>2 DEF OutputInv, OutputTypeOK, InputTaken, InsideCapacity, caller
<1> QED
    BY <1>4, <1>5 DEF NextPosition

(* The last literals, all of them or as many as fit.                       *)
LEMMA LastLiteralsInv ==
  ASSUME OutputInv, LastLiterals
  PROVE  OutputInv'
<1>1. /\ outputDirective \in { "notLimited", "limitedOutput", "fillOutput" }
      /\ outputDirective = "notLimited" => capacity >= srcSize + srcSize \div 255 + 16
      BY DirectiveCases DEF OutputInv
<1>2. /\ pc = "last" /\ UNCHANGED << caller, anchor, token, lastSequence >>
      /\ srcSize \in Nat /\ capacity \in Nat /\ op \in Nat /\ ip \in Nat
      /\ anchor \in Nat /\ anchor <= srcSize
      /\ token \in Nat /\ reached \in Nat /\ reached <= capacity
      /\ outputDirective = "notLimited" => op <= anchor + anchor \div 255
      /\ outputDirective = "fillOutput" => op + 1 <= capacity
      BY DEF LastLiterals, OutputInv, OutputTypeOK, InputTaken, Expansion, RoomLeft,
             InsideCapacity
<1> DEFINE lastRun == iend - anchor
           fits    == op + lastRun + 1 + (lastRun + 255 - RUN_MASK) \div 255 <= olimit
<1>3. lastRun \in Nat /\ anchor + lastRun = srcSize
      BY <1>2 DEF iend
<1>4. ASSUME NEW n \in Nat, op + 1 + LengthBytes(n) + n <= capacity,
             op' = op + 1 + LengthBytes(n) + n, ip' = anchor + n,
             reached' = Most(reached, op'), pc' = "done"
      PROVE  OutputInv'
  <2>1. LengthBytes(n) \in Nat
        BY LengthBytesBounds
  <2>2. op' \in Nat /\ ip' \in Nat /\ reached' \in Nat /\ reached' <= capacity
        BY <1>2, <1>4, <2>1 DEF Most
  <2>3. OutputTypeOK'
        BY <1>2, <1>4, <2>2 DEF OutputTypeOK, caller
  <2> QED
      BY <1>2, <1>4, <2>2, <2>3 DEF OutputInv, InputTaken, Expansion, RoomLeft, InsideCapacity,
                                    caller
<1>5. CASE /\ outputDirective # "notLimited" => fits
           /\ op' = op + 1 + LengthBytes(lastRun) + lastRun /\ ip' = anchor + lastRun
           /\ reached' = Most(reached, op') /\ pc' = "done"
  <2>1. /\ LengthBytes(lastRun) \in Nat
        /\ LengthBytes(lastRun) <= (lastRun + 240) \div 255
        /\ LengthBytes(lastRun) <= lastRun \div 255 + 1
        BY <1>3, LengthBytesBounds
  <2>2. outputDirective # "notLimited" =>
          op + lastRun + 1 + (lastRun + 240) \div 255 <= capacity
        BY <1>2, <1>3, <1>5 DEF RUN_MASK, olimit
  <2> HIDE DEF lastRun
  <2>3. op + 1 + LengthBytes(lastRun) + lastRun <= capacity
    <3>1. anchor \div 255 + lastRun \div 255 <= srcSize \div 255
          BY <1>2, <1>3
    <3> QED
        BY <1>1, <1>2, <1>3, <2>1, <2>2, <3>1
  <2> QED
      BY <1>3, <1>4, <1>5, <2>3
<1>6. CASE pc' = "failed" /\ UNCHANGED << ip, op, reached >>
      BY <1>2, <1>6 DEF OutputInv, OutputTypeOK, InputTaken, Expansion, RoomLeft,
                        InsideCapacity, caller
<1>7. CASE /\ outputDirective = "fillOutput"
           /\ op' = op + 1 + LengthBytes(adaptedRun) + adaptedRun /\ ip' = anchor + adaptedRun
           /\ reached' = Most(reached, op') /\ pc' = "done"
  <2> DEFINE r == capacity - op - 1
  <2>1. r \in Nat
        BY <1>2, <1>7
  <2>2. adaptedRun = r - (r + 241) \div 256
        BY <1>2 DEF adaptedRun, olimit, RUN_MASK
  <2>3. capacity = op + 1 + r
        BY <1>2
  <2> HIDE DEF r
  <2>4. adaptedRun \in Nat
        BY <2>1, <2>2
  <2>5. LengthBytes(adaptedRun) \in Nat /\ LengthBytes(adaptedRun) <= (r + 241) \div 256
        BY <2>1, <2>2 DEF LengthBytes
  <2>6. op + 1 + LengthBytes(adaptedRun) + adaptedRun <= capacity
        BY <1>2, <2>1, <2>2, <2>3, <2>5
  <2> QED
      BY <1>4, <1>7, <2>4, <2>6
<1> QED
    BY <1>5, <1>6, <1>7 DEF LastLiterals

-----------------------------------------------------------------------------
LEMMA OutputStepInv ==
  ASSUME SizesAreNat, OutputInv, [OutputNext \/ Returned]_outputVars
  PROVE  OutputInv'
<1>1. CASE OutputNext
      BY <1>1, BeginInv, NoMatchFoundInv, EncodeLiteralsInv, EncodeMatchInv, NextPositionInv,
         LastLiteralsInv DEF OutputNext
<1>2. CASE UNCHANGED outputVars
  <2>1. outputDirective' = outputDirective
        BY <1>2, DirectiveStays DEF outputVars, caller
  <2> QED
      BY <1>2, <2>1 DEF outputVars, OutputInv, OutputTypeOK, InputTaken, Expansion, RoomLeft,
                        InsideCapacity
<1> QED
    BY <1>1, <1>2 DEF Returned

(* LZ4_compress_generic never writes past its capacity, for every input    *)
(* size, capacity and choice of matches: the room checks of the limited    *)
(* modes cover the copies that run over, the shortened match and the       *)
(* adapted last run of LZ4_compress_destSize fit exactly, and with the     *)
(* capacity of LZ4_compressBound no check is needed.                       *)
THEOREM CompressorInsideCapacity ==
  ASSUME SizesAreNat
  PROVE  OutputSpec => []InsideCapacity
<1>1. OutputInit => OutputInv
      BY OutputInitInv
<1>2. OutputInv /\ [OutputNext \/ Returned]_outputVars => OutputInv'
      BY OutputStepInv
<1>3. OutputInv => InsideCapacity
      BY DEF OutputInv
<1> QED
    BY <1>1, <1>2, <1>3, PTL DEF OutputSpec

-----------------------------------------------------------------------------
(* Where the last sequence with a match ends, and what still has to be     *)
(* behind it: the end of the input, and of the output when it is filled.   *)
BehindMatch ==
  /\ lastSequence.match = anchor /\ anchor + 5 <= srcSize
  /\ lastSequence.literals + 4 <= anchor
  /\ lastSequence.literals + 12 <= srcSize

BehindCode(o) ==
  /\ lastSequence.code + 2 <= o
  /\ outputDirective = "fillOutput" =>
       o + 6 <= capacity /\ lastSequence.literals + 13 + o <= anchor + capacity

(* A sequence that was begun in vain is taken back: its token counts.      *)
SequenceInv ==
  /\ lastSequence \in [literals : Nat, code : Nat, match : Nat]
  /\ pc = "begin" => lastSequence = NoSequence
  /\ lastSequence # NoSequence =>
       /\ pc \in { "search", "match", "next", "last" } => BehindMatch
       /\ pc \in { "search", "next", "last" } => BehindCode(op)
       /\ pc = "match" => BehindCode(token)

LEMMA SequenceInitInv ==
  ASSUME OutputInit
  PROVE  SequenceInv /\ DecoderAccepts
BY DEF OutputInit, SequenceInv, NoSequence, DecoderAccepts

LEMMA SequenceWritten ==
  ASSUME OutputInv, SequenceInv, NEW n \in Nat, pc = "match", WriteMatch(n), UNCHANGED caller,
         ip + 4 + n + 5 <= srcSize,
         outputDirective # "notLimited" => op + 8 + LengthBytes(n) <= capacity,
         outputDirective = "fillOutput" => op + 11 <= capacity
  PROVE  SequenceInv'
<1>1. outputDirective' = outputDirective
      BY DirectiveStays
<1>2. outputDirective \in { "notLimited", "limitedOutput", "fillOutput" }
      BY DirectiveCases DEF OutputInv
<1> DEFINE b == LengthBytes(n)
<1>3. /\ b \in Nat /\ b <= n
      /\ outputDirective # "notLimited" => op + 8 + b <= capacity
      BY LengthBytesBounds
<1>4. /\ op' = op + 2 + b
      /\ ip' = ip + 4 + n /\ anchor' = ip'
      /\ lastSequence' = [literals |-> ip, code |-> op, match |-> ip']
      /\ pc' \in { "next", "last" }
      BY DEF WriteMatch, MINMATCH
<1> HIDE DEF b
<1>5. /\ srcSize' = srcSize /\ capacity' = capacity
      /\ srcSize \in Nat /\ capacity \in Nat /\ op \in Nat /\ ip \in Nat
      BY DEF caller, OutputInv, OutputTypeOK
<1>6. /\ lastSequence'.literals = ip /\ lastSequence'.code = op /\ lastSequence'.match = ip'
      /\ lastSequence' \in [literals : Nat, code : Nat, match : Nat]
      BY <1>4, <1>5
<1>7. ip + 12 <= srcSize
      BY DEF OutputInv, InputTaken
<1>8. BehindMatch'
      BY <1>4, <1>5, <1>6, <1>7 DEF BehindMatch
<1>9. BehindCode(op)'
  <2>1. CASE outputDirective = "fillOutput"
        BY <2>1, <1>1, <1>2, <1>3, <1>4, <1>5, <1>6 DEF BehindCode
  <2>2. CASE outputDirective # "fillOutput"
        BY <2>2, <1>1, <1>3, <1>4, <1>5, <1>6 DEF BehindCode
  <2> QED
      BY <2>1, <2>2
<1> QED
    BY <1>4, <1>6, <1>8, <1>9 DEF SequenceInv

LEMMA SequenceMatch ==
  ASSUME SizesAreNat, OutputInv, SequenceInv, EncodeMatch
  PROVE  SequenceInv'
<1>1. outputDirective' = outputDirective
      BY DirectiveStays DEF EncodeMatch
<1>2. outputDirective \in { "notLimited", "limitedOutput", "fillOutput" }
      BY DirectiveCases DEF OutputInv
<1>3. /\ pc = "match" /\ UNCHANGED caller
      /\ srcSize \in Nat /\ capacity \in Nat /\ op \in Nat /\ ip \in Nat
      /\ ip + 12 <= srcSize
      BY DEF EncodeMatch, OutputInv, OutputTypeOK, InputTaken
<1>4. LongestMatch = srcSize - 5 - ip - 4 /\ LongestMatch \in Nat
      BY <1>3 DEF LongestMatch, matchlimit, iend, LASTLITERALS, MINMATCH
<1>5. CASE /\ outputDirective = "fillOutput" /\ op' = token /\ pc' = "last"
           /\ UNCHANGED << anchor, ip, token, lastSequence, reached >>
      BY <1>1, <1>3, <1>5 DEF SequenceInv, BehindMatch, BehindCode, caller
<1>6. CASE ~(outputDirective = "fillOutput" /\ TooLateForMatch)
  <2>1. outputDirective = "fillOutput" => op + 11 <= capacity
        BY <1>3, <1>6 DEF TooLateForMatch, olimit, MFLIMIT, MINMATCH
  <2>2. ASSUME NEW n \in { c \in MatchCodes : c <= LongestMatch } \union { LongestMatch },
               outputDirective # "notLimited" => MatchRoom(n), WriteMatch(n)
        PROVE  SequenceInv'
    <3>1. n \in Nat /\ n <= LongestMatch
          BY <1>4 DEF SizesAreNat
    <3>2. ip + 4 + n + 5 <= srcSize
          BY <1>3, <1>4, <3>1
    <3>3. LengthBytes(n) \in Nat /\ LengthBytes(n) <= (n + 240) \div 255
          BY <3>1, LengthBytesBounds
    <3>4. outputDirective # "notLimited" => op + 8 + LengthBytes(n) <= capacity
          BY <1>3, <2>2, <3>1, <3>3 DEF MatchRoom, olimit, LASTLITERALS
    <3> QED
        BY <1>3, <2>1, <2>2, <3>1, <3>2, <3>4, SequenceWritten
  <2>3. CASE pc' = "failed" /\ UNCHANGED lastSequence
        BY <2>3 DEF SequenceInv
  <2>4. ASSUME NEW n \in { c \in MatchCodes : c <= LongestMatch } \union { LongestMatch },
               outputDirective = "fillOutput", ~MatchRoom(n), WriteMatch(newMatchCode)
        PROVE  SequenceInv'
    <3>1. n \in Nat /\ n <= LongestMatch
          BY <1>4 DEF SizesAreNat
    <3>2. ~TooLateForMatch
          BY <1>6, <2>4
    <3>3. newMatchCode \in Nat /\ newMatchCode < n
          BY <1>3, <2>4, <3>1, <3>2, ShortenedMatch
    <3>4. op + 8 + LengthBytes(newMatchCode) <= capacity
          BY <1>3, <2>4, <3>1, <3>2, ShortenedMatch
    <3>5. ip + 4 + newMatchCode + 5 <= srcSize
          BY <1>3, <1>4, <3>1, <3>3
    <3> QED
        BY <1>3, <2>1, <2>4, <3>3, <3>4, <3>5, SequenceWritten
  <2> QED
      BY <1>6, <2>2, <2>3, <2>4 DEF EncodeMatch
<1> QED
    BY <1>5, <1>6 DEF EncodeMatch

LEMMA SequenceKept ==
  ASSUME SizesAreNat, OutputInv, SequenceInv,
         Begin \/ NoMatchFound \/ EncodeLiterals \/ NextPosition
  PROVE  SequenceInv'
<1>1. outputDirective' = outputDirective
      BY DirectiveStays DEF Begin, NoMatchFound, EncodeLiterals, NextPosition
<1>2. CASE Begin
      BY <1>2 DEF Begin, SequenceInv
<1>3. CASE NoMatchFound
      BY <1>1, <1>3 DEF NoMatchFound, SequenceInv, BehindMatch, BehindCode, caller
<1>4. CASE EncodeLiterals
  <2>1. /\ pc = "search" /\ UNCHANGED << caller, anchor, lastSequence >>
        /\ \/ pc' = "failed"
           \/ pc' = "last" /\ op' = op
           \/ pc' = "match" /\ token' = op
        BY <1>4 DEF EncodeLiterals
  <2> QED
      BY <1>1, <2>1 DEF SequenceInv, BehindMatch, BehindCode, caller
<1>5. CASE NextPosition
  <2>1. /\ pc = "next" /\ UNCHANGED << caller, anchor, lastSequence >>
        /\ \/ pc' = "search" /\ op' = op
           \/ pc' = "match" /\ token' = op
        BY <1>5 DEF NextPosition
  <2> QED
      BY <1>1, <2>1 DEF SequenceInv, BehindMatch, BehindCode, caller
<1> QED
    BY <1>2, <1>3, <1>4, <1>5

LEMMA EndsFarBehind ==
  ASSUME NEW a \in Nat, NEW o \in Nat, NEW l \in Nat, NEW c \in Nat, NEW n \in Nat,
         n >= 5, l + 12 <= a + n, c + 2 <= o
  PROVE  /\ l <= (a + n) - 12
         /\ c <= (o + 1 + LengthBytes(n) + n) - 8
         /\ a <= (a + n) - 5
BY LengthBytesBounds

(* The last literals are at least five, and with the match twelve bytes.   *)
LEMMA SequenceLast ==
  ASSUME OutputInv, SequenceInv, LastLiterals
  PROVE  SequenceInv' /\ DecoderAccepts'
<1>1. /\ pc = "last" /\ UNCHANGED << caller, anchor, token, lastSequence >>
      /\ pc' \in { "done", "failed" }
      /\ srcSize \in Nat /\ capacity \in Nat /\ op \in Nat
      /\ anchor \in Nat /\ anchor <= srcSize
      BY DEF LastLiterals, OutputInv, OutputTypeOK, InputTaken
<1>2. SequenceInv'
      BY <1>1 DEF SequenceInv
<1>3. ASSUME pc' = "done", lastSequence # NoSequence
      PROVE  /\ lastSequence.literals <= ip' - 12
             /\ lastSequence.code <= op' - 8
             /\ lastSequence.match <= ip' - 5
  <2> DEFINE l == lastSequence.literals
             c == lastSequence.code
  <2>1. /\ l \in Nat /\ c \in Nat /\ lastSequence.match = anchor
        /\ anchor + 5 <= srcSize /\ l + 4 <= anchor /\ l + 12 <= srcSize /\ c + 2 <= op
        /\ outputDirective = "fillOutput" =>
             op + 6 <= capacity /\ l + 13 + op <= anchor + capacity
        BY <1>1, <1>3 DEF SequenceInv, BehindMatch, BehindCode
  <2>2. \/ /\ op' = op + 1 + LengthBytes(iend - anchor) + (iend - anchor)
           /\ ip' = anchor + (iend - anchor)
        \/ /\ outputDirective = "fillOutput"
           /\ op' = op + 1 + LengthBytes(adaptedRun) + adaptedRun
           /\ ip' = anchor + adaptedRun
        BY <1>3 DEF LastLiterals
  <2> SUFFICES l <= ip' - 12 /\ c <= op' - 8 /\ anchor <= ip' - 5
      BY <2>1
  <2> HIDE DEF l, c
  <2>3. CASE /\ op' = op + 1 + LengthBytes(iend - anchor) + (iend - anchor)
             /\ ip' = anchor + (iend - anchor)
    <3>1. iend - anchor \in Nat /\ iend - anchor >= 5 /\ l + 12 <= anchor + (iend - anchor)
          BY <1>1, <2>1 DEF iend
    <3> QED
        BY <1>1, <2>1, <2>3, <3>1, EndsFarBehind
  <2>4. CASE /\ outputDirective = "fillOutput"
             /\ op' = op + 1 + LengthBytes(adaptedRun) + adaptedRun
             /\ ip' = anchor + adaptedRun
    <3> DEFINE r == capacity - op - 1
    <3>1. r \in Nat /\ r >= 5 /\ l + 12 <= anchor + r
          BY <1>1, <2>1, <2>4
    <3>2. adaptedRun = r - (r + 241) \div 256
          BY <1>1 DEF adaptedRun, olimit, RUN_MASK
    <3> HIDE DEF r
    <3>3. r < 15 => adaptedRun = r
          BY <3>1, <3>2
    <3>4. r >= 15 => adaptedRun \in Nat /\ adaptedRun >= 14
          BY <3>1, <3>2
    <3>5. adaptedRun \in Nat /\ adaptedRun >= 5 /\ l + 12 <= anchor + adaptedRun
          BY <1>1, <2>1, <3>1, <3>3, <3>4
    <3> QED
        BY <1>1, <2>1, <2>4, <3>5, EndsFarBehind
  <2> QED
      BY <2>2, <2>3, <2>4
<1> QED
    BY <1>1, <1>2, <1>3 DEF DecoderAccepts, MFLIMIT, LASTLITERALS

(* Every block that comes out ends as the format demands, so the decoder   *)
(* accepts it: also when LZ4_compress_destSize shortened its last match,   *)
(* took a begun sequence back or cut the last literals.                    *)
THEOREM CompressedIsAccepted ==
  ASSUME SizesAreNat
  PROVE  OutputSpec => []DecoderAccepts
<1> DEFINE Inv == OutputInv /\ SequenceInv /\ DecoderAccepts
<1>1. OutputInit => Inv
      BY OutputInitInv, SequenceInitInv
<1>2. Inv /\ [OutputNext \/ Returned]_outputVars => Inv'
  <2> SUFFICES ASSUME Inv, [OutputNext \/ Returned]_outputVars
               PROVE  Inv'
      OBVIOUS
  <2>1. OutputInv'
        BY OutputStepInv
  <2>2. CASE LastLiterals
        BY <2>1, <2>2, SequenceLast
  <2>3. CASE Begin \/ NoMatchFound \/ EncodeLiterals \/ EncodeMatch \/ NextPosition
    <3>1. SequenceInv'
          BY <2>3, SequenceKept, SequenceMatch
    <3>2. pc' = "done" => lastSequence' = NoSequence
      <4>1. CASE Begin
            BY <4>1 DEF SequenceInv, Begin
      <4>2. CASE NoMatchFound \/ EncodeLiterals \/ NextPosition
            BY <4>2 DEF NoMatchFound, EncodeLiterals, NextPosition
      <4>3. CASE EncodeMatch
            BY <4>3 DEF EncodeMatch, WriteMatch
      <4> QED
          BY <2>3, <4>1, <4>2, <4>3
    <3> QED
        BY <2>1, <3>1, <3>2 DEF DecoderAccepts
  <2>4. CASE UNCHANGED outputVars
    <3>1. outputDirective' = outputDirective
          BY <2>4, DirectiveStays DEF outputVars, caller
    <3>2. SequenceInv' /\ DecoderAccepts'
          BY <2>4, <3>1 DEF outputVars, SequenceInv, BehindMatch, BehindCode, DecoderAccepts
    <3> QED
        BY <2>1, <3>2
  <2> QED
      BY <2>2, <2>3, <2>4 DEF OutputNext, Returned
<1>3. Inv => DecoderAccepts
      OBVIOUS
<1> QED
    BY <1>1, <1>2, <1>3, PTL DEF OutputSpec
-----------------------------------------------------------------------------
(* What n bytes take in blocks of b bytes, with head bytes around each; a  *)
(* rest that makes no full block only counts when all is to be written.    *)
Cost(b, head, all, n) ==
  head * (n \div b + IF all /\ n % b > 0 THEN 1 ELSE 0) + IF all THEN n ELSE n - (n % b)

Framing(prefs) == BHSize + BlockChecksum(prefs)
Ending(prefs)  == BHSize + ContentChecksum(prefs)

LEMMA Quotients ==
  ASSUME NEW b \in Nat \ {0}, NEW n \in Nat
  PROVE  /\ n \div b \in Nat /\ n % b \in 0 .. b - 1
         /\ n = b * (n \div b) + (n % b)
         /\ n < b => n \div b = 0 /\ n % b = n
         /\ (n + b) \div b = n \div b + 1 /\ (n + b) % b = n % b
OBVIOUS

LEMMA Products ==
  ASSUME NEW c \in Nat, NEW a \in Nat, NEW b \in Nat
  PROVE  /\ c * a \in Nat
         /\ a <= b => c * a <= c * b
         /\ c * (a + 1) = c * a + c
OBVIOUS

LEMMA CostIsNat ==
  ASSUME NEW b \in Nat \ {0}, NEW head \in Nat, NEW all \in BOOLEAN, NEW n \in Nat
  PROVE  Cost(b, head, all, n) \in Nat
PROOF
<1> DEFINE q == n \div b
           r == n % b
<1>1. q \in Nat /\ r \in Nat /\ r <= n
  <2>1. b * q \in Nat
    BY Quotients, Products
  <2> QED
    BY Quotients, <2>1
<1> HIDE DEF q, r
<1>2. head * (q + IF all /\ r > 0 THEN 1 ELSE 0) \in Nat
  <2> DEFINE k == q + IF all /\ r > 0 THEN 1 ELSE 0
  <2>1. k \in Nat
    BY <1>1
  <2> HIDE DEF k
  <2>2. head * k \in Nat
    BY <2>1, Products
  <2> QED
    BY <2>2 DEF k
<1> QED
  BY <1>1, <1>2 DEF Cost, q, r

(* A rest alone.                                                           *)
LEMMA CostOfRest ==
  ASSUME NEW b \in Nat \ {0}, NEW head \in Nat, NEW all \in BOOLEAN, NEW n \in Nat,
         all, n \in 1 .. b - 1
  PROVE  Cost(b, head, all, n) = head + n
PROOF
<1>1. n \div b = 0 /\ n % b = n
  BY Quotients
<1>2. Cost(b, head, all, n) = head * (0 + 1) + n
  BY <1>1 DEF Cost
<1>3. head * (0 + 1) = head
  OBVIOUS
<1> QED
  BY <1>2, <1>3

(* A full block more, and nothing.                                         *)
LEMMA CostOfBlock ==
  ASSUME NEW b \in Nat \ {0}, NEW head \in Nat, NEW all \in BOOLEAN, NEW n \in Nat
  PROVE  /\ Cost(b, head, all, n + b) = Cost(b, head, all, n) + head + b
         /\ Cost(b, head, all, 0) = 0
PROOF
<1> DEFINE q == n \div b
           r == n % b
           k == q + IF all /\ r > 0 THEN 1 ELSE 0
<1>1. q \in Nat /\ r \in Nat
  BY Quotients
<1>2. (n + b) \div b = q + 1 /\ (n + b) % b = r
  BY Quotients
<1>4. Cost(b, head, all, 0) = 0
  <2>1. 0 \div b = 0 /\ 0 % b = 0
    BY Quotients
  <2>2. head * (0 + 0) = 0
    OBVIOUS
  <2> QED
    BY <2>1, <2>2 DEF Cost
<1> HIDE DEF q, r
<1>5. k \in Nat
  BY <1>1
<1>6. (q + 1) + (IF all /\ r > 0 THEN 1 ELSE 0) = k + 1
  BY <1>1
<1>7. Cost(b, head, all, n) = head * k + IF all THEN n ELSE n - r
  BY DEF Cost, q, r
<1>8. Cost(b, head, all, n + b) = head * (k + 1) + IF all THEN n + b ELSE (n + b) - r
  <2>1. Cost(b, head, all, n + b) =
          head * ((q + 1) + IF all /\ r > 0 THEN 1 ELSE 0) + IF all THEN n + b ELSE (n + b) - r
    BY <1>2 DEF Cost
  <2> QED
    BY <2>1, <1>6
<1> HIDE DEF k
<1>9. head * (k + 1) = head * k + head /\ head * k \in Nat
  BY <1>5, Products
<1>10. Cost(b, head, all, n + b) = Cost(b, head, all, n) + head + b
  <2> DEFINE hk == head * k
  <2>1. hk \in Nat /\ head * (k + 1) = hk + head
    BY <1>9
  <2>2. Cost(b, head, all, n) = hk + IF all THEN n ELSE n - r
    BY <1>7
  <2>3. Cost(b, head, all, n + b) = (hk + head) + IF all THEN n + b ELSE (n + b) - r
    BY <1>8, <2>1
  <2> HIDE DEF hk
  <2> QED
    BY <1>1, <2>1, <2>2, <2>3
<1> QED
  BY <1>4, <1>10

(* More bytes never take less.                                             *)
LEMMA CostGrows ==
  ASSUME NEW b \in Nat \ {0}, NEW head \in Nat, NEW all \in BOOLEAN,
         NEW n \in Nat, NEW more \in Nat, n <= more
  PROVE  Cost(b, head, all, n) <= Cost(b, head, all, more)
PROOF
<1> DEFINE q == n \div b
           r == n % b
           p == more \div b
           s == more % b
           k == q + IF all /\ r > 0 THEN 1 ELSE 0
           l == p + IF all /\ s > 0 THEN 1 ELSE 0
<1>1. /\ q \in Nat /\ r \in 0 .. b - 1 /\ p \in Nat /\ s \in 0 .. b - 1
      /\ n = b * q + r /\ more = b * p + s
  BY Quotients
<1> HIDE DEF q, r, p, s
<1>2. q <= p
  <2>1. SUFFICES ASSUME p + 1 <= q PROVE FALSE
    BY <1>1
  <2>2. b * (p + 1) <= b * q /\ b * (p + 1) = b * p + b /\ b * p \in Nat /\ b * q \in Nat
    BY <1>1, <2>1, Products
  <2> DEFINE bp == b * p
             bq == b * q
  <2>3. bp \in Nat /\ bq \in Nat /\ bp + b <= bq /\ n = bq + r /\ more = bp + s
    BY <2>2, <1>1
  <2> HIDE DEF bp, bq
  <2> QED
    BY <2>3, <1>1
<1>3. q = p => r <= s
  <2> SUFFICES ASSUME q = p PROVE r <= s
    OBVIOUS
  <2> DEFINE bp == b * p
  <2>1. bp \in Nat /\ n = bp + r /\ more = bp + s
    BY <1>1, Products
  <2> HIDE DEF bp
  <2> QED
    BY <2>1, <1>1
<1>4. k <= l /\ k \in Nat /\ l \in Nat
  BY <1>1, <1>2, <1>3
<1>5. n - r <= more - s
  <2> DEFINE bp == b * p
             bq == b * q
  <2>1. bp \in Nat /\ bq \in Nat /\ bq <= bp /\ n = bq + r /\ more = bp + s
    BY <1>1, <1>2, Products
  <2> HIDE DEF bp, bq
  <2> QED
    BY <2>1, <1>1
<1>6. /\ Cost(b, head, all, n) = head * k + IF all THEN n ELSE n - r
      /\ Cost(b, head, all, more) = head * l + IF all THEN more ELSE more - s
  BY DEF Cost, q, r, p, s
<1> HIDE DEF k, l
<1>7. head * k <= head * l /\ head * k \in Nat /\ head * l \in Nat
  BY <1>4, Products
<1> DEFINE hk == head * k
           hl == head * l
<1>8. /\ hk \in Nat /\ hl \in Nat /\ hk <= hl
      /\ Cost(b, head, all, n) = hk + IF all THEN n ELSE n - r
      /\ Cost(b, head, all, more) = hl + IF all THEN more ELSE more - s
  BY <1>6, <1>7
<1> HIDE DEF hk, hl
<1> QED
  BY <1>1, <1>5, <1>8

(* Writing all at once takes no less than leaving the rest.                *)
LEMMA AllCostsMore ==
  ASSUME NEW b \in Nat \ {0}, NEW head \in Nat, NEW all \in BOOLEAN, NEW flush \in BOOLEAN,
         NEW n \in Nat, all => flush
  PROVE  Cost(b, head, all, n) <= Cost(b, head, flush, n)
PROOF
<1> DEFINE q == n \div b
           r == n % b
           k == q + IF all /\ r > 0 THEN 1 ELSE 0
           l == q + IF flush /\ r > 0 THEN 1 ELSE 0
<1>1. q \in Nat /\ r \in Nat
  BY Quotients
<1>2. /\ Cost(b, head, all, n) = head * k + IF all THEN n ELSE n - r
      /\ Cost(b, head, flush, n) = head * l + IF flush THEN n ELSE n - r
  BY DEF Cost
<1> HIDE DEF q, r
<1>3. k <= l /\ k \in Nat /\ l \in Nat
  BY <1>1
<1> HIDE DEF k, l
<1>4. head * k <= head * l /\ head * k \in Nat /\ head * l \in Nat
  BY <1>3, Products
<1> DEFINE hk == head * k
           hl == head * l
<1>5. /\ hk \in Nat /\ hl \in Nat /\ hk <= hl
      /\ Cost(b, head, all, n) = hk + IF all THEN n ELSE n - r
      /\ Cost(b, head, flush, n) = hl + IF flush THEN n ELSE n - r
  BY <1>2, <1>4
<1> HIDE DEF hk, hl
<1> QED
  BY <1>1, <1>5

(* The sizes of blocks, and what the preferences add to them.              *)
BlockIDs == { 0 } \cup 4 .. 7

LEMMA BlockSizes ==
  ASSUME EncoderSizes, NEW id \in BlockIDs
  PROVE  /\ LZ4F_getBlockSize(id) \in Nat \ {0}
         /\ \A other \in BlockIDs :
              other \in 4 .. id => LZ4F_getBlockSize(other) <= LZ4F_getBlockSize(id)
PROOF
<1>1. KB64 \in Nat /\ KB64 # 0
  BY DEF EncoderSizes
<1>2. \A k \in BlockIDs :
        /\ k \in { 0, 4 } => LZ4F_getBlockSize(k) = KB64
        /\ k = 5 => LZ4F_getBlockSize(k) = KB64 * 4
        /\ k = 6 => LZ4F_getBlockSize(k) = KB64 * 16
        /\ k = 7 => LZ4F_getBlockSize(k) = KB64 * 64
  <2>1. /\ << 1, 4, 16, 64 >>[1] = 1 /\ << 1, 4, 16, 64 >>[2] = 4
        /\ << 1, 4, 16, 64 >>[3] = 16 /\ << 1, 4, 16, 64 >>[4] = 64
    OBVIOUS
  <2> QED
    BY <1>1, <2>1 DEF BlockIDs, LZ4F_getBlockSize, LZ4F_max64KB
<1>3. BlockIDs = { 0, 4, 5, 6, 7 }
  BY DEF BlockIDs
<1> QED
  BY <1>1, <1>2, <1>3

LEMMA Extras ==
  ASSUME EncoderSizes, NEW prefs \in Preferences
  PROVE  /\ Framing(prefs) \in Nat /\ Ending(prefs) \in Nat
         /\ BHSize + ContentChecksum(prefs) = Ending(prefs)
         /\ BHSize + BFSize <= Framing(prefs) + Ending(prefs)
         /\ HeaderSize(prefs) \in Nat /\ HeaderSize(prefs) <= maxFHSize
         /\ ContextType(prefs) \in 1 .. 2
         /\ prefs.blockSizeID \in BlockIDs
BY DEF EncoderSizes, Preferences, Framing, Ending, BlockChecksum, ContentChecksum, HeaderSize,
       ContextType, BlockIDs

LEMMA BoundIsCost ==
  ASSUME EncoderSizes, NEW prefs \in Preferences, NEW n \in Nat, NEW buffered \in Nat,
         NEW all \in BOOLEAN, all <=> (prefs.autoFlush \/ n = 0)
  PROVE  LZ4F_compressBound_internal(n, prefs, buffered)
           = Cost(LZ4F_getBlockSize(prefs.blockSizeID), Framing(prefs), all,
                  n + Smaller(buffered, LZ4F_getBlockSize(prefs.blockSizeID) - 1))
               + Ending(prefs)
PROOF
<1> DEFINE b    == LZ4F_getBlockSize(prefs.blockSizeID)
           max  == n + Smaller(buffered, b - 1)
           r    == max % b
           last == IF prefs.autoFlush \/ n = 0 THEN r ELSE 0
           nb   == max \div b + IF last > 0 THEN 1 ELSE 0
           nbc  == max \div b + IF all /\ r > 0 THEN 1 ELSE 0
<1>1. b \in Nat \ {0}
  BY BlockSizes, Extras
<1>2. LZ4F_compressBound_internal(n, prefs, buffered)
        = Framing(prefs) * nb + (max - r) + last + BHSize + ContentChecksum(prefs)
  BY DEF LZ4F_compressBound_internal, Framing
<1> HIDE DEF b
<1>3. max \in Nat
  BY <1>1 DEF Smaller
<1>4. Cost(b, Framing(prefs), all, max) = Framing(prefs) * nbc + IF all THEN max ELSE max - r
  BY DEF Cost
<1> HIDE DEF max
<1>5. r \in Nat /\ max \div b \in Nat
  BY <1>1, <1>3, Quotients
<1> HIDE DEF r
<1>6. nb = nbc /\ nb \in Nat
  BY <1>5
<1>7. IF all THEN last = r ELSE last = 0
  OBVIOUS
<1> HIDE DEF nb, nbc, last
<1> DEFINE product == Framing(prefs) * nb
<1>8. product \in Nat
  BY <1>6, Products, Extras
<1>9. /\ LZ4F_compressBound_internal(n, prefs, buffered)
           = product + (max - r) + last + BHSize + ContentChecksum(prefs)
      /\ Cost(b, Framing(prefs), all, max) = product + IF all THEN max ELSE max - r
  BY <1>2, <1>4, <1>6
<1> HIDE DEF product
<1>10. BHSize \in Nat /\ ContentChecksum(prefs) \in Nat
  BY DEF EncoderSizes, ContentChecksum
<1>11. LZ4F_compressBound_internal(n, prefs, buffered) = Cost(b, Framing(prefs), all, max) + Ending(prefs)
  BY <1>3, <1>5, <1>7, <1>8, <1>9, <1>10 DEF Ending
<1> QED
  BY <1>11 DEF b, max

LEMMA BoundIsNat ==
  ASSUME EncoderSizes, NEW prefs \in Preferences, NEW n \in Nat, NEW buffered \in Nat
  PROVE  LZ4F_compressBound_internal(n, prefs, buffered) \in Nat
PROOF
<1> DEFINE all == prefs.autoFlush \/ n = 0
           b   == LZ4F_getBlockSize(prefs.blockSizeID)
           c   == Cost(b, Framing(prefs), all, n + Smaller(buffered, b - 1))
<1>1. b \in Nat \ {0} /\ Framing(prefs) \in Nat /\ Ending(prefs) \in Nat
  BY BlockSizes, Extras
<1>2. all \in BOOLEAN
  OBVIOUS
<1>3. LZ4F_compressBound_internal(n, prefs, buffered) = c + Ending(prefs)
  <2> HIDE DEF all
  <2>1. all <=> (prefs.autoFlush \/ n = 0)
    BY DEF all
  <2> QED
    BY <1>2, <2>1, BoundIsCost
<1> HIDE DEF all, b
<1>4. n + Smaller(buffered, b - 1) \in Nat
  BY <1>1 DEF Smaller
<1>5. c \in Nat
  BY <1>1, <1>2, <1>4, CostIsNat
<1> QED
  BY <1>1, <1>3, <1>5

(* LZ4F_compressBound is enough whatever waits in tmpIn.                   *)
LEMMA BoundForUpdate ==
  ASSUME EncoderSizes, NEW prefs \in Preferences, NEW n \in Nat, NEW buffered \in Nat,
         prefs.autoFlush => buffered = 0,
         ~prefs.autoFlush => LZ4F_getBlockSize(prefs.blockSizeID) <= LargestTmpBuff
  PROVE  /\ LZ4F_compressBound(n, prefs) \in Nat
         /\ LZ4F_compressBound_internal(n, prefs, buffered) <= LZ4F_compressBound(n, prefs)
PROOF
<1> DEFINE b    == LZ4F_getBlockSize(prefs.blockSizeID)
           head == Framing(prefs)
           most == IF prefs.autoFlush THEN 0 ELSE LargestTmpBuff
           less == n + Smaller(buffered, b - 1)
           more == n + Smaller(most, b - 1)
<1>1. b \in Nat \ {0} /\ head \in Nat /\ Ending(prefs) \in Nat
  BY BlockSizes, Extras
<1>2. prefs.autoFlush \in BOOLEAN /\ LargestTmpBuff \in Nat
  BY DEF Preferences, EncoderSizes
<1>3. PICK all \in BOOLEAN : all <=> (prefs.autoFlush \/ n = 0)
  OBVIOUS
<1>4. most \in Nat
  BY <1>2
<1>5. LZ4F_compressBound_internal(n, prefs, buffered) = Cost(b, head, all, less) + Ending(prefs)
  BY <1>3, BoundIsCost
<1>6. LZ4F_compressBound(n, prefs) = Cost(b, head, all, more) + Ending(prefs)
  <2>1. LZ4F_compressBound(n, prefs) = LZ4F_compressBound_internal(n, prefs, most)
    BY DEF LZ4F_compressBound
  <2> HIDE DEF most
  <2> QED
    BY <1>3, <1>4, <2>1, BoundIsCost
<1>7. less \in Nat /\ more \in Nat /\ less <= more
  <2>1. ~prefs.autoFlush => b <= LargestTmpBuff
    OBVIOUS
  <2> HIDE DEF b
  <2> QED
    BY <1>1, <1>2, <2>1 DEF Smaller
<1> HIDE DEF b, head, less, more
<1>8. Cost(b, head, all, less) <= Cost(b, head, all, more)
  BY <1>1, <1>7, CostGrows
<1>9. Cost(b, head, all, less) \in Nat /\ Cost(b, head, all, more) \in Nat
  BY <1>1, <1>7, CostIsNat
<1> QED
  BY <1>1, <1>5, <1>6, <1>8, <1>9

(* ... and for what LZ4F_flush and LZ4F_compressEnd write.                 *)
LEMMA BoundForFlush ==
  ASSUME EncoderSizes, NEW prefs \in Preferences, NEW buffered \in Nat,
         prefs.autoFlush => buffered = 0,
         ~prefs.autoFlush => LZ4F_getBlockSize(prefs.blockSizeID) <= LargestTmpBuff,
         buffered < LZ4F_getBlockSize(prefs.blockSizeID)
  PROVE  (IF buffered = 0 THEN 0 ELSE Framing(prefs) + buffered) + Ending(prefs)
           <= LZ4F_compressBound(0, prefs)
PROOF
<1> DEFINE b    == LZ4F_getBlockSize(prefs.blockSizeID)
           head == Framing(prefs)
<1>1. b \in Nat \ {0} /\ head \in Nat /\ Ending(prefs) \in Nat
  BY BlockSizes, Extras
<1>2. PICK all \in BOOLEAN : all
  OBVIOUS
<1>3. LZ4F_compressBound_internal(0, prefs, buffered)
        = Cost(b, head, all, 0 + Smaller(buffered, b - 1)) + Ending(prefs)
  BY <1>2, BoundIsCost
<1>4. LZ4F_compressBound_internal(0, prefs, buffered) <= LZ4F_compressBound(0, prefs)
  BY BoundForUpdate
<1>5. buffered < b
  OBVIOUS
<1> HIDE DEF b, head
<1>6. 0 + Smaller(buffered, b - 1) = buffered
  BY <1>1, <1>5 DEF Smaller
<1>7. Cost(b, head, all, buffered) = IF buffered = 0 THEN 0 ELSE head + buffered
  <2>1. buffered = 0 => Cost(b, head, all, buffered) = 0
    BY <1>1, CostOfBlock
  <2>2. buffered # 0 => buffered \in 1 .. b - 1
    BY <1>1, <1>5
  <2>3. ASSUME buffered \in 1 .. b - 1 PROVE Cost(b, head, all, buffered) = head + buffered
    BY <1>1, <1>2, <2>3, CostOfRest
  <2> QED
    BY <2>1, <2>2, <2>3
<1> QED
  BY <1>1, <1>3, <1>4, <1>6, <1>7 DEF head

(* The preferences of LZ4F_compressFrame, and its room.                    *)
LEMMA BoundForFrame ==
  ASSUME EncoderSizes, NEW prefs \in Preferences, NEW n \in Nat
  PROVE  /\ FramePrefs(prefs, n) \in Preferences /\ FramePrefs(prefs, n).autoFlush
         /\ LZ4F_compressFrameBound(n, FramePrefs(prefs, n)) = LZ4F_compressFrameBound(n, prefs)
         /\ LZ4F_compressFrameBound(n, prefs)
              = maxFHSize + LZ4F_compressBound_internal(n, FramePrefs(prefs, n), 0)
PROOF
<1> DEFINE id == LZ4F_optimalBSID(prefs.blockSizeID, n)
           p  == FramePrefs(prefs, n)
           q  == [prefs EXCEPT !.autoFlush = TRUE]
           a  == LZ4F_getBlockSize(id)
           b  == LZ4F_getBlockSize(prefs.blockSizeID)
<1>1. prefs.blockSizeID \in BlockIDs
  BY Extras
<1>2. id \in BlockIDs /\ (id = prefs.blockSizeID \/ (n <= a /\ a <= b))
  <2> DEFINE enough == { k \in LZ4F_max64KB .. prefs.blockSizeID - 1 : n <= LZ4F_getBlockSize(k) }
  <2>1. CASE enough = {}
    BY <1>1, <2>1 DEF LZ4F_optimalBSID
  <2>2. CASE enough # {}
    <3>1. enough \subseteq { 4, 5, 6 }
      BY <1>1 DEF LZ4F_max64KB, BlockIDs
    <3>2. \E k \in enough : \A other \in enough : k <= other
      <4> HIDE DEF enough
      <4>1. CASE 4 \in enough
        BY <3>1, <4>1
      <4>2. CASE 4 \notin enough /\ 5 \in enough
        BY <3>1, <4>2
      <4>3. CASE 4 \notin enough /\ 5 \notin enough
        <5>1. enough = { 6 }
          BY <2>2, <3>1, <4>3
        <5> QED
          BY <5>1
      <4> QED
        BY <4>1, <4>2, <4>3
    <3>3. id \in enough
      <4>1. id = CHOOSE k \in enough : \A other \in enough : k <= other
        BY <2>2 DEF LZ4F_optimalBSID
      <4> QED
        BY <3>2, <4>1
    <3>4. id \in BlockIDs /\ n <= a /\ id \in 4 .. prefs.blockSizeID
      BY <1>1, <3>1, <3>3 DEF BlockIDs, LZ4F_max64KB
    <3>5. a <= b
      BY <1>1, <3>4, BlockSizes
    <3> QED
      BY <3>4, <3>5
  <2> QED
    BY <2>1, <2>2
<1> HIDE DEF id
<1>3. p = [prefs EXCEPT !.contentSize = IF @ = 0 THEN 0 ELSE n, !.blockSizeID = id,
                        !.autoFlush = TRUE, !.linked = @ /\ n > a]
  BY DEF FramePrefs, id
<1>4. p \in Preferences /\ p.autoFlush /\ p.blockSizeID = id
      /\ p.blockChecksum = prefs.blockChecksum /\ p.contentChecksum = prefs.contentChecksum
  BY <1>2, <1>3 DEF Preferences, BlockIDs
<1>5. q \in Preferences /\ q.autoFlush /\ q.blockSizeID = prefs.blockSizeID
      /\ q.blockChecksum = prefs.blockChecksum /\ q.contentChecksum = prefs.contentChecksum
  BY DEF Preferences
<1>6. [p EXCEPT !.autoFlush = TRUE] = p
  BY <1>4 DEF Preferences
<1>7. PICK all \in BOOLEAN : all
  OBVIOUS
<1>8. a \in Nat \ {0} /\ b \in Nat \ {0}
  BY <1>1, <1>2, BlockSizes
<1>9. Framing(p) = Framing(q) /\ Ending(p) = Ending(q) /\ Framing(p) \in Nat /\ Ending(p) \in Nat
  <2>1. Framing(p) = Framing(q) /\ Ending(p) = Ending(q)
    BY <1>4, <1>5 DEF Framing, Ending, BlockChecksum, ContentChecksum
  <2> QED
    BY <1>4, <2>1, Extras
<1>10. /\ LZ4F_compressBound_internal(n, p, 0)
            = Cost(a, Framing(p), all, n + Smaller(0, a - 1)) + Ending(p)
       /\ LZ4F_compressBound_internal(n, q, 0)
            = Cost(b, Framing(q), all, n + Smaller(0, b - 1)) + Ending(q)
  <2>1. a = LZ4F_getBlockSize(p.blockSizeID) /\ b = LZ4F_getBlockSize(q.blockSizeID)
    BY <1>4, <1>5
  <2>2. p \in Preferences /\ q \in Preferences
        /\ (all <=> (p.autoFlush \/ n = 0)) /\ (all <=> (q.autoFlush \/ n = 0))
    BY <1>4, <1>5, <1>7
  <2> HIDE DEF p, q, a, b
  <2> QED
    BY <2>1, <2>2, BoundIsCost
<1>11. /\ LZ4F_compressFrameBound(n, p) = maxFHSize + LZ4F_compressBound_internal(n, p, 0)
       /\ LZ4F_compressFrameBound(n, prefs) = maxFHSize + LZ4F_compressBound_internal(n, q, 0)
  BY <1>6 DEF LZ4F_compressFrameBound
<1> HIDE DEF a, b, p, q
<1>12. n + Smaller(0, a - 1) = n /\ n + Smaller(0, b - 1) = n
  BY <1>8 DEF Smaller
<1>13. Cost(a, Framing(p), all, n) = Cost(b, Framing(p), all, n)
  <2>1. CASE n = 0
    BY <1>7, <1>8, <1>9, <2>1, CostOfBlock
  <2>2. CASE n # 0 /\ n <= a /\ a <= b
    <3>1. \A c \in Nat \ {0} : n <= c => Cost(c, Framing(p), all, n) = Framing(p) + n
      <4> TAKE c \in Nat \ {0}
      <4>1. CASE n < c
        <5>1. n \in 1 .. c - 1
          BY <2>2, <4>1
        <5> QED
          BY <1>7, <1>9, <5>1, CostOfRest
      <4>2. CASE n = c
        <5>1. Cost(c, Framing(p), all, 0 + c) = Cost(c, Framing(p), all, 0) + Framing(p) + c
              /\ Cost(c, Framing(p), all, 0) = 0
          BY <1>9, CostOfBlock
        <5> QED
          BY <1>9, <4>2, <5>1
      <4> QED
        BY <4>1, <4>2
    <3> QED
      BY <1>8, <2>2, <3>1
  <2> QED
    BY <1>2, <2>1, <2>2 DEF a, b
<1> QED
  BY <1>4, <1>9, <1>10, <1>11, <1>12, <1>13 DEF p

-----------------------------------------------------------------------------
(* The encoder's state.                                                    *)
Contexts ==
  [cStage : 0 .. 1, prefs : Preferences, cdict : Nat, lz4CtxAlloc : 0 .. 2, lz4CtxState : 0 .. 2,
   maxBufferSize : Nat, allocated : Nat, tmpIn : Nat, tmpInSize : Nat, totalInSize : Nat]

Histories == [from : Int, size : Nat, extFrom : Int, extSize : Nat, attached : BOOLEAN]

Calls ==
  [op : { "none", "update", "frame", "ownFrame", "flush", "end" }, src : Nat, n : Nat, size : Nat,
   stable : BOOLEAN, capacity : Nat, last : { "notDone", "fromTmpBuffer", "fromSrcBuffer" }]

EncoderTypeOK ==
  /\ e \in Contexts /\ lz \in Histories /\ call \in Calls
  /\ given \in Nat /\ done \in Nat /\ written \in Nat
  /\ at \in { "idle", "piece", "complete", "tmpBlock", "blocks", "preserve", "limits", "rest",
              "flush", "flushed", "end", "return" }

(* Where LZ4F_compressUpdate has taken over the piece.                     *)
Taking == at \in { "complete", "tmpBlock", "blocks", "preserve", "limits", "rest" }

(* Which calls are under way where.                                        *)
CallsInPlace ==
  /\ at \in { "idle", "return" } \/ e.cStage = 1
  /\ at = "idle" => call.op = "none"
  /\ Taking \/ at = "piece" => call.op \in { "update", "frame", "ownFrame" }
  /\ call.op \in { "frame", "ownFrame" } => e.prefs.autoFlush
  /\ call.op = "ownFrame" => call.stable
  /\ at = "return" /\ call.op = "ownFrame" => e.cStage = 0
  /\ e.prefs \in Prefs \/ e.prefs.autoFlush
  /\ e.cStage = 1 => outcome = "none"
  /\ at = "piece" => call.n = call.size /\ PASSING <= call.src

(* What is in tmpIn, and the full block it may become, fit tmpBuff; the    *)
(* context that LZ4F_compressFrame has of its own has none, and needs none.*)
TmpInFits ==
  /\ e.cStage = 0 \/ call.op # "ownFrame" => e.maxBufferSize <= e.allocated
  /\ e.cStage = 1 =>
       /\ Required(e.prefs) <= e.maxBufferSize
       /\ ~e.prefs.linked => e.tmpIn = TMPBUFF
       /\ e.prefs.autoFlush => e.tmpInSize = 0
       /\ IF at = "tmpBlock" THEN e.tmpInSize = blockSize ELSE e.tmpInSize < blockSize
       /\ ~e.prefs.autoFlush
            /\ (at \notin { "blocks", "preserve", "limits", "flushed" } \/ e.tmpInSize > 0)
              => e.tmpIn + blockSize <= e.maxBufferSize

UnusedKept == \A a \in e.allocated .. PASSING - 1 : m[a] = Unknown

(* Every byte handed over is in a block, in tmpIn or in the piece.         *)
BytesCounted ==
  /\ e.cStage = 1 =>
       /\ given = done + e.tmpInSize + IF Taking THEN call.n ELSE 0
       /\ e.prefs.contentSize > 0 => e.totalInSize + (IF Taking THEN call.size ELSE 0) = given
  /\ at \in { "flushed", "end" } => e.tmpInSize = 0
  /\ at = "flushed" => ~e.prefs.autoFlush
  /\ at \in { "blocks", "preserve", "limits", "rest" } /\ e.tmpInSize > 0 => call.n = 0
  /\ at \in { "preserve", "limits", "rest" } =>
       call.n < blockSize /\ (e.prefs.autoFlush => call.n = 0)
  /\ at \in { "piece", "complete" } => call.last = "notDone"
  /\ at \in { "blocks", "preserve" } /\ call.last = "fromSrcBuffer" => lz.size > 0

(* What the call may still write fits the room it was given.               *)
AllLeft(prefs, n) ==
  Cost(LZ4F_getBlockSize(prefs.blockSizeID), Framing(prefs), prefs.autoFlush, n) + Ending(prefs)

EncoderRoom ==
  /\ at = "piece" =>
       written + LZ4F_compressBound_internal(call.n, e.prefs, e.tmpInSize) <= call.capacity
  /\ at = "complete" => written + AllLeft(e.prefs, e.tmpInSize + call.n) <= call.capacity
  /\ at = "tmpBlock" => written + AllLeft(e.prefs, call.n + blockSize) <= call.capacity
  /\ at = "blocks" => written + AllLeft(e.prefs, call.n) <= call.capacity
  /\ at \in { "preserve", "limits", "rest", "flushed", "end" } =>
       written + Ending(e.prefs) <= call.capacity
  /\ at = "flush" =>
       written + (IF e.tmpInSize = 0 THEN 0 ELSE Framing(e.prefs) + e.tmpInSize) + Ending(e.prefs)
         <= call.capacity
  /\ at \in { "idle", "return" } => written <= call.capacity

EncoderInv ==
  /\ EncoderTypeOK /\ CallsInPlace /\ TmpInFits /\ UnusedKept /\ BytesCounted /\ EncoderRoom
  /\ EndsWell

LEMMA RequiredRoom ==
  ASSUME EncoderSizes, NEW prefs \in Preferences
  PROVE  /\ Required(prefs) \in Nat
         /\ prefs.linked => KB64 <= Required(prefs)
         /\ ~prefs.autoFlush => LZ4F_getBlockSize(prefs.blockSizeID) <= Required(prefs)
         /\ ~prefs.autoFlush /\ prefs.linked =>
              KB64 + LZ4F_getBlockSize(prefs.blockSizeID) <= Required(prefs)
         /\ prefs.autoFlush => Required(prefs) <= 80 * KB64
         /\ ~prefs.autoFlush /\ prefs \in Prefs =>
              LZ4F_getBlockSize(prefs.blockSizeID) <= LargestTmpBuff
PROOF
<1> DEFINE b == LZ4F_getBlockSize(prefs.blockSizeID)
<1>1. b \in Nat /\ KB64 \in Nat /\ LargestTmpBuff \in Nat
  BY BlockSizes, Extras DEF EncoderSizes
<1>2. Required(prefs) =
        (IF prefs.autoFlush THEN 0 ELSE b)
          + IF ~prefs.linked THEN 0 ELSE IF prefs.autoFlush THEN KB64 ELSE 2 * KB64
  BY DEF Required
<1>3. prefs \in Prefs => Required(prefs) <= LargestTmpBuff
  BY DEF EncoderSizes
<1> HIDE DEF b
<1>4. Required(prefs) \in Nat
  BY <1>1, <1>2
<1>5. ~prefs.autoFlush => b <= Required(prefs)
  BY <1>1, <1>2
<1>6. ~prefs.autoFlush /\ prefs \in Prefs => b <= LargestTmpBuff
  BY <1>1, <1>3, <1>4, <1>5
<1>7. /\ prefs.linked => KB64 <= Required(prefs)
      /\ ~prefs.autoFlush /\ prefs.linked => KB64 + b <= Required(prefs)
      /\ prefs.autoFlush => Required(prefs) <= 80 * KB64
  BY <1>1, <1>2
<1> QED
  BY <1>4, <1>5, <1>6, <1>7 DEF b

(* What is written elsewhere does not change a byte.                       *)
LEMMA SegmentLength ==
  ASSUME NEW from \in Int, NEW n \in Nat
  PROVE  Len(Segment(from, n)) = n
PROOF
<1>1. Segment(from, n) = [k \in 1 .. n |-> m[from + k - 1]]
  BY DEF Segment
<1> QED
  BY <1>1

LEMMA WrittenElsewhere ==
  ASSUME NEW to \in Int, NEW s, Len(s) \in Nat, NEW a \in Addresses, a < to \/ to + Len(s) <= a
  PROVE  Written(to, s)[a] = m[a]
PROOF
<1>1. a \in Int
  BY DEF Addresses
<1>2. CASE s = << >>
  BY <1>2 DEF Written
<1>3. CASE s # << >>
  <2>1. Written(to, s)[a] = IF a - to \in 0 .. Len(s) - 1 THEN s[a - to + 1] ELSE m[a]
    BY <1>3 DEF Written
  <2>2. a - to \notin 0 .. Len(s) - 1
    BY <1>1
  <2> QED
    BY <2>1, <2>2
<1> QED
  BY <1>2, <1>3

LEMMA Places ==
  ASSUME EncoderSizes
  PROVE  /\ TMPBUFF = 0 /\ PASSING \in Nat /\ STAYING \in Nat /\ STAYING >= PASSING
         /\ 0 .. PASSING - 1 \subseteq Addresses
BY DEF EncoderSizes, TMPBUFF, PASSING, STAYING, DICT, DICTEND, Addresses

(* A write within the allocated part of tmpBuff, or behind all of it.      *)
LEMMA WriteKeepsUnused ==
  ASSUME EncoderSizes, e.allocated \in Nat, UnusedKept,
         NEW to \in Nat, NEW s, Len(s) \in Nat,
         s = << >> \/ to + Len(s) <= e.allocated \/ PASSING <= to
  PROVE  \A a \in e.allocated .. PASSING - 1 : Written(to, s)[a] = Unknown
PROOF
<1> TAKE a \in e.allocated .. PASSING - 1
<1>1. a \in Addresses /\ a \in Int /\ m[a] = Unknown
  BY Places DEF UnusedKept
<1>2. CASE s = << >>
  BY <1>1, <1>2 DEF Written
<1>3. CASE to + Len(s) <= e.allocated \/ PASSING <= to
  <2>1. a < to \/ to + Len(s) <= a
    BY <1>1, <1>3, Places
  <2> QED
    BY <1>1, <2>1, WrittenElsewhere
<1> QED
  BY <1>2, <1>3

-----------------------------------------------------------------------------
(* Changes of a history.                                                   *)
LEMMA HistoryWith ==
  ASSUME NEW z \in Histories, NEW from \in Int, NEW size \in Nat
  PROVE  /\ [z EXCEPT !.from = from, !.size = size] \in Histories
         /\ [z EXCEPT !.from = from, !.size = size].size = size
         /\ [z EXCEPT !.extFrom = from, !.extSize = size] \in Histories
         /\ [z EXCEPT !.extFrom = from, !.extSize = size, !.attached = FALSE] \in Histories
         /\ [z EXCEPT !.attached = FALSE] \in Histories
         /\ [z EXCEPT !.size = size] \in Histories /\ [z EXCEPT !.size = size].size = size
BY DEF Histories

LEMMA HistoryAttached ==
  ASSUME NEW z \in Histories, NEW any \in BOOLEAN
  PROVE  [z EXCEPT !.attached = any] \in Histories
BY DEF Histories

LEMMA HistoryMoved ==
  ASSUME NEW z \in Histories, NEW from \in Int, NEW size \in Nat, NEW ext \in Int, NEW n \in Nat
  PROVE  [z EXCEPT !.from = from, !.size = size, !.extFrom = ext, !.extSize = n] \in Histories
BY DEF Histories

(* Both compressors leave a history that is not empty.                     *)
LEMMA CompressorsKeepType ==
  ASSUME EncoderSizes, e \in Contexts, NEW z \in Histories, NEW src \in Nat, NEW n \in Nat \ {0}
  PROVE  Continue(z, src, n).lz \in Histories /\ Continue(z, src, n).lz.size > 0
PROOF
<1>1. KB64 \in Nat /\ Tiny \in Nat /\ KB4 \in Nat /\ e.cdict \in Nat /\ DICTEND \in Int
  BY Places DEF EncoderSizes, Contexts, DICTEND, DICT, STAYING, PASSING, TMPBUFF
<1>2. \A y \in Histories : y.from \in Int /\ y.size \in Nat /\ y.extFrom \in Int /\ y.extSize \in Nat
  BY DEF Histories
<1>3. NoHistory \in Histories
  BY DEF NoHistory, Histories, NULL
<1>4. LZ4_compress_fast_continue(z, src, n).lz \in Histories
      /\ LZ4_compress_fast_continue(z, src, n).lz.size > 0
  <2> DEFINE y == WithoutTiny(z, src)
             s == WithoutOverwritten(y, src, n)
  <2>1. y \in Histories
    <3> DEFINE zero == 0
    <3>1. zero \in Nat /\ src \in Int
      OBVIOUS
    <3>2. y = IF z.size \in 1 .. Tiny - 1 /\ End(z) # src
              THEN [z EXCEPT !.from = src, !.size = zero] ELSE z
      BY DEF WithoutTiny
    <3> HIDE DEF zero, y
    <3>3. [z EXCEPT !.from = src, !.size = zero] \in Histories
      BY <3>1, HistoryWith
    <3> QED
      BY <3>2, <3>3
  <2> HIDE DEF y
  <2>2. s \in Histories
    <3> DEFINE left == Smaller(End(y) - (src + n), KB64)
               size == IF left < Tiny THEN 0 ELSE left
    <3>1. End(y) \in Int
      BY <1>2, <2>1 DEF End
    <3>2. src + n < End(y) => size \in Nat /\ End(y) - size \in Int
      BY <1>1, <3>1 DEF Smaller
    <3>3. s = IF src + n > y.from /\ src + n < End(y)
              THEN [y EXCEPT !.from = End(y) - size, !.size = size] ELSE y
      BY DEF WithoutOverwritten
    <3> HIDE DEF left, size, s
    <3> QED
      BY <2>1, <3>2, <3>3 DEF Histories
  <2> HIDE DEF s
  <2>3. LZ4_compress_fast_continue(z, src, n).lz =
          IF End(s) = src THEN [s EXCEPT !.size = @ + n]
          ELSE [NoHistory EXCEPT !.from = src, !.size = n]
    BY DEF LZ4_compress_fast_continue, s, y
  <2>4. [s EXCEPT !.size = @ + n] \in Histories /\ [s EXCEPT !.size = @ + n].size > 0
    BY <2>2 DEF Histories
  <2>5. [NoHistory EXCEPT !.from = src, !.size = n] \in Histories
        /\ [NoHistory EXCEPT !.from = src, !.size = n].size > 0
    <3>1. src \in Int /\ n \in Nat /\ n > 0
      OBVIOUS
    <3> QED
      BY <1>3, <3>1, HistoryWith
  <2> QED
    BY <2>3, <2>4, <2>5
<1>5. LZ4_compressHC_continue(z, src, n).lz \in Histories
      /\ LZ4_compressHC_continue(z, src, n).lz.size > 0
  <2> DEFINE begun == IF z.from = NULL THEN [z EXCEPT !.from = src] ELSE z
             s == IF End(begun) = src THEN begun ELSE LZ4HC_setExternalDict(begun, src)
             x == WithoutOverwrittenExt(s, src, n)
  <2>1. begun \in Histories
    BY DEF Histories
  <2> HIDE DEF begun
  <2>2. s \in Histories
    BY <2>1 DEF LZ4HC_setExternalDict, Histories
  <2> HIDE DEF s
  <2>3. x \in Histories
    <3> DEFINE end  == s.extFrom + s.extSize
               left == s.extFrom + s.extSize - Smaller(src + n, end)
               size == IF left < Tiny THEN 0 ELSE left
    <3>1. end \in Int /\ size \in Nat /\ end - size \in Int
      BY <1>1, <1>2, <2>2 DEF Smaller
    <3>2. x = IF Overlaps(src, n, s.extFrom, s.extSize)
              THEN [s EXCEPT !.extFrom = @ + s.extSize - size, !.extSize = size] ELSE s
      BY DEF WithoutOverwrittenExt
    <3> HIDE DEF left, size, x
    <3>3. s.extFrom + s.extSize - size \in Int
      BY <1>2, <2>2, <3>1
    <3> QED
      BY <2>2, <3>1, <3>2, <3>3 DEF Histories
  <2> HIDE DEF x
  <2> DEFINE y == IF ~x.attached \/ x.size + x.extSize >= KB64 THEN [x EXCEPT !.attached = FALSE]
                  ELSE IF x.size + x.extSize = 0 /\ n > KB4
                  THEN [x EXCEPT !.extFrom = DICTEND - e.cdict, !.extSize = e.cdict, !.attached = FALSE]
                  ELSE x
  <2>4. y \in Histories
    <3>1. DICTEND - e.cdict \in Int
      BY <1>1
    <3>2. [x EXCEPT !.attached = FALSE] \in Histories
      BY <2>3 DEF Histories
    <3>3. [x EXCEPT !.extFrom = DICTEND - e.cdict, !.extSize = e.cdict, !.attached = FALSE]
            \in Histories
      BY <1>1, <2>3, <3>1, HistoryWith
    <3> QED
      BY <2>3, <3>2, <3>3
  <2>5. LZ4_compressHC_continue(z, src, n).lz = [y EXCEPT !.size = @ + n]
    BY DEF LZ4_compressHC_continue, LZ4HC_compress_generic, x, s, begun
  <2> HIDE DEF y
  <2>6. [y EXCEPT !.size = @ + n] \in Histories /\ [y EXCEPT !.size = @ + n].size > 0
    BY <2>4 DEF Histories
  <2> QED
    BY <2>5, <2>6
<1> QED
  BY <1>4, <1>5 DEF Continue

LEMMA MakesBlock ==
  ASSUME EncoderSizes, EncoderTypeOK, NEW src \in Nat, NEW n \in Nat \ {0},
         LZ4F_makeBlock(src, n)
  PROVE  /\ lz' \in Histories /\ lz'.size > 0
         /\ done' = done + n /\ done' \in Nat
         /\ written' = written + Framing(e.prefs) + n /\ written' \in Nat
PROOF
<1>1. e \in Contexts /\ lz \in Histories /\ e.prefs \in Preferences
  BY DEF EncoderTypeOK, Contexts
<1>2. NoHistory \in Histories
  BY DEF NoHistory, Histories, NULL
<1>3. n \in Nat /\ n > 0
  OBVIOUS
<1>4. Compress(src, n).lz \in Histories /\ Compress(src, n).lz.size > 0
  <2>1. CASE e.prefs.linked
    BY <1>1, <2>1, CompressorsKeepType DEF Compress
  <2>2. CASE ~e.prefs.linked /\ e.cdict = 0
    <3>1. Compress(src, n).lz = [NoHistory EXCEPT !.size = n]
      BY <2>2 DEF Compress, OneShot
    <3>2. src \in Int
      OBVIOUS
    <3> QED
      BY <1>2, <1>3, <3>1, <3>2, HistoryWith
  <2>3. CASE ~e.prefs.linked /\ e.cdict # 0
    <3> DEFINE z == LZ4F_initStream(lz, e.prefs, e.cdict)
    <3>1. z \in Histories
      <4>1. \A any \in BOOLEAN : [NoHistory EXCEPT !.attached = any] \in Histories
                                 /\ [lz EXCEPT !.attached = any] \in Histories
        BY <1>1, <1>2, HistoryAttached
      <4> DEFINE positive == e.cdict > 0
                 no == FALSE
      <4>2. positive \in BOOLEAN /\ no \in BOOLEAN
        OBVIOUS
      <4>3. z = [NoHistory EXCEPT !.attached = positive] \/ z = [lz EXCEPT !.attached = no]
        BY DEF LZ4F_initStream
      <4> HIDE DEF positive, no, z
      <4> QED
        BY <4>1, <4>2, <4>3
    <3>2. Compress(src, n) = Continue(z, src, n)
      BY <2>3 DEF Compress
    <3> HIDE DEF z
    <3> QED
      BY <1>1, <3>1, <3>2, CompressorsKeepType
  <2> QED
    BY <2>1, <2>2, <2>3
<1>5. lz' = Compress(src, n).lz /\ done' = done + n
      /\ written' = written + BHSize + n + BlockChecksum(e.prefs)
  BY DEF LZ4F_makeBlock
<1>6. done \in Nat /\ written \in Nat /\ BHSize \in Nat /\ BlockChecksum(e.prefs) \in Nat
  BY DEF EncoderTypeOK, EncoderSizes, BlockChecksum
<1>7. written' = written + Framing(e.prefs) + n /\ written' \in Nat
  BY <1>3, <1>5, <1>6 DEF Framing
<1> QED
  BY <1>3, <1>4, <1>5, <1>6, <1>7

(* History is saved within 64 KB of tmpBuff.                               *)
LEMMA SavesDict ==
  ASSUME EncoderSizes, EncoderTypeOK, UnusedKept, KB64 <= e.allocated, LZ4F_localSaveDict
  PROVE  /\ lz' \in Histories
         /\ \E n \in 0 .. KB64 : e' = [e EXCEPT !.tmpIn = n]
         /\ \A a \in e.allocated .. PASSING - 1 : m'[a] = Unknown
PROOF
<1> DEFINE n == Smaller(lz.size, KB64)
           s == Segment(End(lz) - n, n)
<1>1. KB64 \in Nat /\ lz \in Histories /\ lz.size \in Nat /\ lz.from \in Int /\ e.allocated \in Nat
  BY DEF EncoderSizes, EncoderTypeOK, Histories, Contexts
<1>2. n \in 0 .. KB64
  BY <1>1 DEF Smaller
<1>3. End(lz) \in Int
  BY <1>1 DEF End
<1>4. /\ m' = Written(TMPBUFF, s)
      /\ lz' = [lz EXCEPT !.from = TMPBUFF, !.size = n, !.extFrom = NULL, !.extSize = 0]
      /\ e' = [e EXCEPT !.tmpIn = TMPBUFF + n]
  BY DEF LZ4F_localSaveDict
<1> HIDE DEF n
<1>5. Len(s) = n
  BY <1>2, <1>3, SegmentLength
<1> HIDE DEF s
<1>6. lz' \in Histories
  <2> DEFINE none == NULL
             zero == 0
             front == TMPBUFF
  <2>1. none \in Int /\ zero \in Nat /\ front \in Int
    BY DEF NULL, TMPBUFF
  <2>2. n \in Nat
    BY <1>1, <1>2
  <2>3. lz' = [lz EXCEPT !.from = front, !.size = n, !.extFrom = none, !.extSize = zero]
    BY <1>4
  <2> HIDE DEF none, zero, front
  <2> QED
    BY <1>1, <2>1, <2>2, <2>3, HistoryMoved
<1>7. e' = [e EXCEPT !.tmpIn = n]
  BY <1>2, <1>4 DEF TMPBUFF
<1>8. \A a \in e.allocated .. PASSING - 1 : m'[a] = Unknown
  <2>1. TMPBUFF \in Nat /\ TMPBUFF + Len(s) <= e.allocated /\ Len(s) \in Nat
    BY <1>1, <1>2, <1>5 DEF TMPBUFF
  <2> QED
    BY <1>1, <1>4, <2>1, WriteKeepsUnused
<1> QED
  BY <1>2, <1>6, <1>7, <1>8

(* The sizes as they are now.                                              *)
LEMMA SizesNow ==
  ASSUME EncoderSizes, EncoderTypeOK
  PROVE  /\ blockSize \in Nat \ {0} /\ e.prefs \in Preferences
         /\ Framing(e.prefs) \in Nat /\ Ending(e.prefs) \in Nat
         /\ e.prefs.autoFlush \in BOOLEAN /\ e.prefs.linked \in BOOLEAN
         /\ e.prefs.contentSize \in Nat
         /\ e.cStage \in 0 .. 1 /\ e.maxBufferSize \in Nat /\ e.allocated \in Nat
         /\ e.tmpIn \in Nat /\ e.tmpInSize \in Nat /\ e.totalInSize \in Nat
         /\ call.src \in Nat /\ call.n \in Nat /\ call.size \in Nat /\ call.capacity \in Nat
         /\ call.stable \in BOOLEAN
PROOF
<1>1. e.prefs \in Preferences /\ call \in Calls /\ e \in Contexts
  BY DEF EncoderTypeOK, Contexts
<1>2. e.prefs.autoFlush \in BOOLEAN /\ e.prefs.linked \in BOOLEAN /\ e.prefs.contentSize \in Nat
  BY <1>1 DEF Preferences
<1>3. /\ call.src \in Nat /\ call.n \in Nat /\ call.size \in Nat /\ call.capacity \in Nat
      /\ call.stable \in BOOLEAN
  BY <1>1 DEF Calls
<1>4. /\ e.cStage \in 0 .. 1 /\ e.maxBufferSize \in Nat /\ e.allocated \in Nat
      /\ e.tmpIn \in Nat /\ e.tmpInSize \in Nat /\ e.totalInSize \in Nat
  BY <1>1 DEF Contexts
<1> QED
  BY <1>1, <1>2, <1>3, <1>4, Extras, BlockSizes DEF blockSize

LEMMA AllLeftFacts ==
  ASSUME EncoderSizes, NEW prefs \in Preferences, NEW n \in Nat,
         NEW b, b = LZ4F_getBlockSize(prefs.blockSizeID)
  PROVE  /\ AllLeft(prefs, n) \in Nat /\ Ending(prefs) <= AllLeft(prefs, n)
         /\ AllLeft(prefs, 0) = Ending(prefs)
         /\ AllLeft(prefs, n + b) = AllLeft(prefs, n) + Framing(prefs) + b
         /\ prefs.autoFlush /\ n \in 1 .. b - 1 => AllLeft(prefs, n) = Framing(prefs) + n + Ending(prefs)
PROOF
<1> DEFINE head == Framing(prefs)
<1>1. b \in Nat \ {0} /\ head \in Nat /\ Ending(prefs) \in Nat
  BY BlockSizes, Extras
<1>2. PICK all \in BOOLEAN : all = prefs.autoFlush
  BY DEF Preferences
<1>3. \A k \in Nat : AllLeft(prefs, k) = Cost(b, head, all, k) + Ending(prefs)
  BY <1>2 DEF AllLeft
<1> HIDE DEF head
<1>4. Cost(b, head, all, n) \in Nat
  BY <1>1, CostIsNat
<1>5. /\ Cost(b, head, all, n + b) = Cost(b, head, all, n) + head + b
      /\ Cost(b, head, all, 0) = 0
  BY <1>1, CostOfBlock
<1>6. ASSUME prefs.autoFlush, n \in 1 .. b - 1
      PROVE  Cost(b, head, all, n) = head + n
  BY <1>1, <1>2, <1>6, CostOfRest
<1>7. n + b \in Nat /\ 0 \in Nat
  BY <1>1
<1>8. AllLeft(prefs, n + b) = AllLeft(prefs, n) + head + b
  BY <1>1, <1>3, <1>4, <1>5, <1>7
<1>9. AllLeft(prefs, n) \in Nat /\ Ending(prefs) <= AllLeft(prefs, n) /\ AllLeft(prefs, 0) = Ending(prefs)
  BY <1>1, <1>3, <1>4, <1>5, <1>7
<1>10. ASSUME prefs.autoFlush, n \in 1 .. b - 1
       PROVE  AllLeft(prefs, n) = head + n + Ending(prefs)
  BY <1>1, <1>3, <1>6, <1>10
<1> QED
  BY <1>8, <1>9, <1>10 DEF head

(* What a step does to the context and to the call, field by field.        *)
TmpInBecomes(in, size) ==
  /\ e' \in Contexts
  /\ e'.prefs = e.prefs /\ e'.cStage = e.cStage /\ e'.totalInSize = e.totalInSize
  /\ e'.maxBufferSize = e.maxBufferSize /\ e'.allocated = e.allocated
  /\ e'.tmpIn = in /\ e'.tmpInSize = size

LEMMA TmpInChanges ==
  ASSUME e \in Contexts, NEW in \in Nat, NEW size \in Nat
  PROVE  /\ e' = [e EXCEPT !.tmpIn = in, !.tmpInSize = size] => TmpInBecomes(in, size)
         /\ e' = [e EXCEPT !.tmpIn = in] => TmpInBecomes(in, e.tmpInSize)
         /\ e' = [e EXCEPT !.tmpInSize = size] => TmpInBecomes(e.tmpIn, size)
         /\ e' = e => TmpInBecomes(e.tmpIn, e.tmpInSize)
BY DEF Contexts, TmpInBecomes

CallBecomes(n, last) ==
  /\ call' \in Calls
  /\ call'.op = call.op /\ call'.size = call.size /\ call'.stable = call.stable
  /\ call'.capacity = call.capacity
  /\ call'.n = n /\ call'.last = last

LEMMA CallChanges ==
  ASSUME call \in Calls, NEW k \in 0 .. call.n,
         NEW last \in { "notDone", "fromTmpBuffer", "fromSrcBuffer" }
  PROVE  /\ call' = Consumed(k) => CallBecomes(call.n - k, call.last)
         /\ call' = [Consumed(k) EXCEPT !.last = last] => CallBecomes(call.n - k, last)
         /\ call' = [call EXCEPT !.last = last] => CallBecomes(call.n, last)
         /\ call' = call => CallBecomes(call.n, call.last)
PROOF
<1> DEFINE src == call.src + k
           n == call.n - k
           c == [call EXCEPT !.src = src, !.n = n]
<1>1. src \in Nat /\ n \in Nat
  BY DEF Calls
<1>2. Consumed(k) = c
  BY DEF Consumed
<1> HIDE DEF src, n
<1>3. call' = c => CallBecomes(n, call.last)
  BY <1>1 DEF Calls, CallBecomes
<1>4. call' = [c EXCEPT !.last = last] => CallBecomes(n, last)
  BY <1>1 DEF Calls, CallBecomes
<1>5. call' = [call EXCEPT !.last = last] => CallBecomes(call.n, last)
  BY DEF Calls, CallBecomes
<1>6. call' = call => CallBecomes(call.n, call.last)
  BY DEF Calls, CallBecomes
<1> HIDE DEF c
<1> QED
  BY <1>2, <1>3, <1>4, <1>5, <1>6 DEF n

LEMMA UnusedStays ==
  ASSUME UnusedKept, m' = m, e'.allocated = e.allocated
  PROVE  UnusedKept'
BY DEF UnusedKept

-----------------------------------------------------------------------------
(* Every step keeps the invariant.                                         *)
LEMMA TmpBlockInv ==
  ASSUME EncoderSizes, EncoderInv, TmpBlock
  PROVE  EncoderInv'
PROOF
<1>1. /\ at = "tmpBlock" /\ at' = "blocks" /\ m' = m /\ given' = given /\ outcome' = outcome
      /\ e.cStage = 1 /\ outcome = "none"
  BY DEF TmpBlock, EncoderInv, CallsInPlace
<1>2. /\ EncoderTypeOK /\ e.tmpInSize = blockSize /\ ~e.prefs.autoFlush
      /\ blockSize \in Nat \ {0} /\ e.tmpIn \in Nat /\ e.prefs \in Preferences
  BY <1>1, SizesNow DEF EncoderInv, TmpInFits
<1>3. /\ lz' \in Histories /\ lz'.size > 0
      /\ done' = done + blockSize /\ done' \in Nat
      /\ written' = written + Framing(e.prefs) + blockSize /\ written' \in Nat
  BY <1>2, MakesBlock DEF TmpBlock
<1>4. PICK in \in Nat : TmpInBecomes(in, 0) /\ (~e.prefs.linked => in = e.tmpIn)
  <2> DEFINE in == IF e.prefs.linked THEN e.tmpIn + blockSize ELSE e.tmpIn
             zero == 0
  <2>1. in \in Nat /\ zero \in Nat
    BY <1>2
  <2>2. e' = [e EXCEPT !.tmpIn = in, !.tmpInSize = zero]
    BY DEF TmpBlock, AfterTmpBlock
  <2> HIDE DEF in, zero
  <2>3. TmpInBecomes(in, zero)
    BY <1>2, <2>1, <2>2, TmpInChanges DEF EncoderTypeOK
  <2> QED
    BY <2>1, <2>3 DEF in, zero
<1>5. CallBecomes(call.n, "fromTmpBuffer")
  <2>1. call' = [call EXCEPT !.last = "fromTmpBuffer"] /\ call \in Calls /\ 0 \in 0 .. call.n
    BY <1>2, SizesNow DEF TmpBlock, EncoderTypeOK
  <2> QED
    BY <2>1, CallChanges
<1>6. EncoderTypeOK'
  BY <1>1, <1>2, <1>3, <1>4, <1>5 DEF EncoderTypeOK, TmpInBecomes, CallBecomes
<1>7. CallsInPlace'
  BY <1>1, <1>4, <1>5 DEF EncoderInv, CallsInPlace, TmpInBecomes, CallBecomes, Taking
<1>8. blockSize' = blockSize
  BY <1>4 DEF TmpInBecomes, blockSize
<1>9. TmpInFits'
  BY <1>1, <1>2, <1>4, <1>5, <1>8 DEF EncoderInv, TmpInFits, TmpInBecomes, CallBecomes
<1>10. UnusedKept'
  BY <1>1, <1>4, UnusedStays DEF EncoderInv, TmpInBecomes
<1>11. BytesCounted'
  <2>1. /\ given = done + blockSize + call.n
        /\ e.prefs.contentSize > 0 => e.totalInSize + call.size = given
    BY <1>1, <1>2 DEF EncoderInv, BytesCounted, Taking
  <2>2. call.n \in Nat /\ done \in Nat
    BY <1>2, SizesNow DEF EncoderTypeOK
  <2>3. given' = done' + 0 + call.n
    BY <1>1, <1>2, <1>3, <2>1, <2>2
  <2> QED
    BY <1>1, <1>4, <1>5, <2>1, <2>3 DEF BytesCounted, Taking, TmpInBecomes, CallBecomes
<1>12. EncoderRoom'
  <2>1. written + AllLeft(e.prefs, call.n + blockSize) <= call.capacity
    BY <1>1 DEF EncoderInv, EncoderRoom
  <2>2. call.n \in Nat /\ written \in Nat /\ call.capacity \in Nat /\ Framing(e.prefs) \in Nat
    BY <1>2, SizesNow DEF EncoderTypeOK
  <2>3. /\ AllLeft(e.prefs, call.n) \in Nat
        /\ AllLeft(e.prefs, call.n + blockSize) = AllLeft(e.prefs, call.n) + Framing(e.prefs) + blockSize
    BY <1>2, <2>2, AllLeftFacts DEF blockSize
  <2>4. written' + AllLeft(e.prefs, call.n) <= call.capacity
    BY <1>2, <1>3, <2>1, <2>2, <2>3
  <2> QED
    BY <1>1, <1>4, <1>5, <2>4 DEF EncoderRoom, TmpInBecomes, CallBecomes
<1>13. EndsWell'
  BY <1>1 DEF EndsWell
<1> QED
  BY <1>6, <1>7, <1>9, <1>10, <1>11, <1>12, <1>13 DEF EncoderInv

LEMMA SrcBlockInv ==
  ASSUME EncoderSizes, EncoderInv, SrcBlock
  PROVE  EncoderInv'
PROOF
<1> DEFINE n == Smaller(blockSize, call.n)
<1>1. /\ at = "blocks" /\ e' = e /\ m' = m /\ given' = given /\ outcome' = outcome
      /\ e.cStage = 1 /\ outcome = "none"
  BY DEF SrcBlock, EncoderInv, CallsInPlace
<1>2. EncoderTypeOK /\ blockSize \in Nat \ {0} /\ call.n \in Nat /\ e.prefs \in Preferences
      /\ call.src \in Nat /\ call.capacity \in Nat /\ written \in Nat /\ done \in Nat
      /\ Framing(e.prefs) \in Nat /\ Ending(e.prefs) \in Nat
  BY SizesNow DEF EncoderInv, EncoderTypeOK
<1>3. TmpInBecomes(e.tmpIn, e.tmpInSize)
  <2>1. e \in Contexts /\ e.tmpIn \in Nat /\ e.tmpInSize \in Nat
    BY <1>2, SizesNow DEF EncoderTypeOK
  <2> QED
    BY <1>1, <2>1, TmpInChanges
<1>4. blockSize' = blockSize
  BY <1>1 DEF blockSize
<1>5. UnusedKept'
  BY <1>1, UnusedStays DEF EncoderInv
<1>6. EndsWell'
  BY <1>1 DEF EndsWell
<1>7. /\ given = done + e.tmpInSize + call.n
      /\ e.prefs.contentSize > 0 => e.totalInSize + call.size = given
      /\ e.tmpInSize > 0 => call.n = 0
      /\ call.last = "fromSrcBuffer" => lz.size > 0
      /\ e.tmpInSize \in Nat /\ given \in Nat
  BY <1>1, <1>2, SizesNow DEF EncoderInv, BytesCounted, Taking, EncoderTypeOK
<1>8. written + AllLeft(e.prefs, call.n) <= call.capacity
  BY <1>1 DEF EncoderInv, EncoderRoom
<1>9. CASE n = blockSize \/ (e.prefs.autoFlush /\ n > 0)
  <2>1. n \in Nat \ {0} /\ n \in 0 .. call.n /\ n <= call.n /\ call.n - n \in Nat
    BY <1>2, <1>9 DEF Smaller
  <2>2. LZ4F_makeBlock(call.src, n) /\ call' = [Consumed(n) EXCEPT !.last = "fromSrcBuffer"] /\ at' = at
    BY <1>9 DEF SrcBlock
  <2>3. n < blockSize => e.prefs.autoFlush /\ n = call.n
    BY <1>2, <1>9 DEF Smaller
  <2>4. n <= blockSize
    BY <1>2 DEF Smaller
  <2> HIDE DEF n
  <2>5. /\ lz' \in Histories /\ lz'.size > 0
        /\ done' = done + n /\ done' \in Nat
        /\ written' = written + Framing(e.prefs) + n /\ written' \in Nat
    BY <1>2, <2>1, <2>2, MakesBlock
  <2>6. CallBecomes(call.n - n, "fromSrcBuffer")
    BY <1>2, <2>1, <2>2, CallChanges DEF EncoderTypeOK
  <2>7. EncoderTypeOK'
    BY <1>1, <1>2, <1>3, <2>2, <2>5, <2>6 DEF EncoderTypeOK, TmpInBecomes, CallBecomes
  <2>8. CallsInPlace'
    BY <1>1, <1>3, <2>2, <2>6 DEF EncoderInv, CallsInPlace, TmpInBecomes, CallBecomes, Taking
  <2>9. TmpInFits'
    BY <1>1, <1>4, <2>2, <2>6 DEF EncoderInv, TmpInFits, CallBecomes
  <2>10. BytesCounted'
    <3>1. given = (done + n) + e.tmpInSize + (call.n - n) /\ e.tmpInSize = 0
      BY <1>2, <1>7, <2>1
    <3> QED
      BY <1>1, <1>7, <2>2, <2>5, <2>6, <3>1 DEF BytesCounted, Taking, CallBecomes
  <2>11. EncoderRoom'
    <3> DEFINE left == call.n - n
    <3>1. left \in Nat /\ call.n = left + n
      BY <1>2, <2>1
    <3>2. written + Framing(e.prefs) + n + AllLeft(e.prefs, left) <= call.capacity
          /\ AllLeft(e.prefs, left) \in Nat
      <4> HIDE DEF left
      <4>1. AllLeft(e.prefs, left) \in Nat
        BY <1>2, <3>1, AllLeftFacts DEF blockSize
      <4>2. CASE n = blockSize
        <5>1. AllLeft(e.prefs, left + blockSize) = AllLeft(e.prefs, left) + Framing(e.prefs) + blockSize
          BY <1>2, <3>1, AllLeftFacts DEF blockSize
        <5>2. written + AllLeft(e.prefs, left + blockSize) <= call.capacity
          BY <1>8, <3>1, <4>2
        <5> QED
          BY <1>2, <4>1, <4>2, <5>1, <5>2
      <4>3. CASE n < blockSize
        <5>1. e.prefs.autoFlush /\ call.n = n /\ left = 0 /\ n \in 1 .. blockSize - 1
          BY <1>2, <2>1, <2>3, <3>1, <4>3
        <5>2. AllLeft(e.prefs, n) = Framing(e.prefs) + n + Ending(e.prefs)
          BY <1>2, <2>1, <5>1, AllLeftFacts DEF blockSize
        <5>3. AllLeft(e.prefs, 0) = Ending(e.prefs)
          BY <1>2, AllLeftFacts
        <5> QED
          BY <1>2, <1>8, <2>1, <4>1, <5>1, <5>2, <5>3
      <4> QED
        BY <1>2, <2>1, <2>4, <4>2, <4>3
    <3> HIDE DEF left
    <3>3. written' + AllLeft(e.prefs, left) <= call.capacity
      BY <2>5, <3>2
    <3> QED
      BY <1>1, <2>2, <2>6, <3>3 DEF EncoderRoom, CallBecomes, left
  <2> QED
    BY <1>5, <1>6, <2>7, <2>8, <2>9, <2>10, <2>11 DEF EncoderInv
<1>10. CASE ~(n = blockSize \/ (e.prefs.autoFlush /\ n > 0))
  <2>1. at' = "preserve" /\ UNCHANGED << lz, call, done, block, written >>
    BY <1>10 DEF SrcBlock
  <2>2. call.n < blockSize /\ (e.prefs.autoFlush => call.n = 0)
    BY <1>2, <1>10 DEF Smaller
  <2> HIDE DEF n
  <2>3. EncoderTypeOK'
    BY <1>1, <1>2, <2>1 DEF EncoderTypeOK
  <2>4. CallsInPlace'
    BY <1>1, <2>1 DEF EncoderInv, CallsInPlace, Taking
  <2>5. TmpInFits'
    BY <1>1, <1>4, <2>1 DEF EncoderInv, TmpInFits
  <2>6. BytesCounted'
    BY <1>1, <1>4, <1>7, <2>1, <2>2 DEF BytesCounted, Taking
  <2>7. EncoderRoom'
    <3>1. Ending(e.prefs) <= AllLeft(e.prefs, call.n) /\ AllLeft(e.prefs, call.n) \in Nat
      BY <1>2, AllLeftFacts
    <3>2. written + Ending(e.prefs) <= call.capacity
      BY <1>2, <1>8, <3>1
    <3> QED
      BY <1>1, <2>1, <3>2 DEF EncoderRoom
  <2> QED
    BY <1>5, <1>6, <2>3, <2>4, <2>5, <2>6, <2>7 DEF EncoderInv
<1> QED
  BY <1>9, <1>10

LEMMA NoSegment ==
  ASSUME NEW from
  PROVE  Segment(from, 0) = << >>
BY DEF Segment

LEMMA FillTmpInInv ==
  ASSUME EncoderSizes, EncoderInv, FillTmpIn
  PROVE  EncoderInv'
PROOF
<1> DEFINE k == IF e.tmpInSize = 0 THEN 0 ELSE Smaller(blockSize - e.tmpInSize, call.n)
<1>1. /\ at = "complete" /\ lz' = lz /\ given' = given /\ done' = done /\ written' = written
      /\ outcome' = outcome /\ e.cStage = 1 /\ outcome = "none"
      /\ m' = Written(e.tmpIn + e.tmpInSize, Segment(call.src, k))
      /\ e' = [e EXCEPT !.tmpInSize = e.tmpInSize + k]
      /\ call' = Consumed(k)
      /\ at' = IF e.tmpInSize + k = blockSize THEN "tmpBlock" ELSE "blocks"
  BY DEF FillTmpIn, EncoderInv, CallsInPlace
<1>2. EncoderTypeOK /\ blockSize \in Nat \ {0} /\ call.n \in Nat /\ e.prefs \in Preferences
      /\ call.src \in Nat /\ call.capacity \in Nat /\ written \in Nat /\ done \in Nat /\ given \in Nat
      /\ e.tmpIn \in Nat /\ e.tmpInSize \in Nat /\ e.allocated \in Nat /\ e.maxBufferSize \in Nat
  BY SizesNow DEF EncoderInv, EncoderTypeOK
<1>3. e.tmpInSize < blockSize
  BY <1>1 DEF EncoderInv, TmpInFits
<1>4. /\ k \in 0 .. call.n /\ e.tmpInSize + k <= blockSize /\ k \in Nat /\ call.n - k \in Nat
      /\ e.tmpInSize + k # blockSize /\ e.tmpInSize + k > 0 => call.n - k = 0
      /\ e.tmpInSize = 0 => k = 0
  BY <1>2, <1>3 DEF Smaller
<1> HIDE DEF k
<1>5. TmpInBecomes(e.tmpIn, e.tmpInSize + k)
  <2>1. e.tmpInSize + k \in Nat /\ e \in Contexts
    BY <1>2, <1>4 DEF EncoderTypeOK
  <2> QED
    BY <1>1, <1>2, <2>1, TmpInChanges
<1>6. CallBecomes(call.n - k, call.last)
  <2>1. call \in Calls /\ call.last \in { "notDone", "fromTmpBuffer", "fromSrcBuffer" }
    BY <1>2 DEF EncoderTypeOK, Calls
  <2> QED
    BY <1>1, <1>4, <2>1, CallChanges
<1>7. EncoderTypeOK'
  BY <1>1, <1>2, <1>5, <1>6 DEF EncoderTypeOK, TmpInBecomes, CallBecomes
<1>8. CallsInPlace'
  BY <1>1, <1>5, <1>6 DEF EncoderInv, CallsInPlace, TmpInBecomes, CallBecomes, Taking
<1>9. blockSize' = blockSize
  BY <1>5 DEF TmpInBecomes, blockSize
<1>10. TmpInFits'
  <2>1. e.prefs.autoFlush => e.tmpInSize + k = 0
    BY <1>1, <1>4 DEF EncoderInv, TmpInFits
  <2>2. ~e.prefs.autoFlush => e.tmpIn + blockSize <= e.maxBufferSize
    BY <1>1 DEF EncoderInv, TmpInFits
  <2>3. IF at' = "tmpBlock" THEN e.tmpInSize + k = blockSize ELSE e.tmpInSize + k < blockSize
    BY <1>1, <1>2, <1>4
  <2> QED
    BY <1>1, <1>5, <1>6, <1>9, <2>1, <2>2, <2>3 DEF EncoderInv, TmpInFits, TmpInBecomes, CallBecomes
<1>11. UnusedKept'
  <2> DEFINE s == Segment(call.src, k)
  <2>1. Len(s) = k
    BY <1>2, <1>4, SegmentLength
  <2>2. CASE e.tmpInSize = 0
    <3>1. s = << >>
      BY <1>4, <2>2, NoSegment
    <3>2. m' = m
      BY <1>1, <3>1 DEF Written
    <3> QED
      BY <1>5, <3>2, UnusedStays DEF EncoderInv, TmpInBecomes
  <2>3. CASE e.tmpInSize > 0
    <3>1. ~e.prefs.autoFlush /\ e.tmpIn + blockSize <= e.maxBufferSize
      BY <1>1, <2>3 DEF EncoderInv, TmpInFits
    <3>2. e.maxBufferSize <= e.allocated
      BY <3>1 DEF EncoderInv, TmpInFits, CallsInPlace
    <3> HIDE DEF s
    <3>3. (e.tmpIn + e.tmpInSize) + k <= e.allocated /\ e.tmpIn + e.tmpInSize \in Nat
      <4>1. e.tmpInSize + k <= blockSize /\ k \in Nat
        BY <1>4
      <4> QED
        BY <1>2, <3>1, <3>2, <4>1
    <3>4. \A a \in e.allocated .. PASSING - 1 : Written(e.tmpIn + e.tmpInSize, s)[a] = Unknown
      BY <1>2, <1>4, <2>1, <3>3, WriteKeepsUnused DEF EncoderInv
    <3> QED
      BY <1>1, <1>5, <3>4 DEF UnusedKept, TmpInBecomes, s
  <2> QED
    BY <1>2, <2>2, <2>3
<1>12. BytesCounted'
  <2>1. /\ given = done + e.tmpInSize + call.n
        /\ e.prefs.contentSize > 0 => e.totalInSize + call.size = given
    BY <1>1 DEF EncoderInv, BytesCounted, Taking
  <2>2. given = done + (e.tmpInSize + k) + (call.n - k)
    BY <1>2, <1>4, <2>1
  <2>3. call.last = "notDone"
    BY <1>1 DEF EncoderInv, BytesCounted
  <2> QED
    BY <1>1, <1>4, <1>5, <1>6, <2>1, <2>2, <2>3 DEF BytesCounted, Taking, TmpInBecomes, CallBecomes
<1>13. EncoderRoom'
  <2>1. written + AllLeft(e.prefs, e.tmpInSize + call.n) <= call.capacity
    BY <1>1 DEF EncoderInv, EncoderRoom
  <2>2. CASE e.tmpInSize + k = blockSize
    <3>1. e.tmpInSize + call.n = (call.n - k) + blockSize
      BY <1>2, <1>4, <2>2
    <3> QED
      BY <1>1, <1>5, <1>6, <1>9, <2>1, <2>2, <3>1 DEF EncoderRoom, TmpInBecomes, CallBecomes
  <2>3. CASE e.tmpInSize + k # blockSize
    <3>1. CASE e.tmpInSize = 0
      <4>1. e.tmpInSize + call.n = call.n - k
        BY <1>2, <1>4, <3>1
      <4> QED
        BY <1>1, <1>5, <1>6, <2>1, <2>3, <4>1 DEF EncoderRoom, TmpInBecomes, CallBecomes
    <3>2. CASE e.tmpInSize > 0
      <4> DEFINE buffered == e.tmpInSize + call.n
      <4>1. call.n - k = 0 /\ buffered \in Nat
        BY <1>2, <1>4, <2>3, <3>2
      <4>2. AllLeft(e.prefs, 0) = Ending(e.prefs)
        BY <1>2, AllLeftFacts
      <4> HIDE DEF buffered
      <4>3. Ending(e.prefs) <= AllLeft(e.prefs, buffered) /\ AllLeft(e.prefs, buffered) \in Nat
            /\ Ending(e.prefs) \in Nat
        BY <1>2, <4>1, AllLeftFacts, Extras
      <4>4. written + AllLeft(e.prefs, buffered) <= call.capacity
        BY <2>1 DEF buffered
      <4>5. written + AllLeft(e.prefs, call.n - k) <= call.capacity
        BY <1>2, <4>1, <4>2, <4>3, <4>4
      <4> QED
        BY <1>1, <1>5, <1>6, <2>3, <4>5 DEF EncoderRoom, TmpInBecomes, CallBecomes
    <3> QED
      BY <1>2, <3>1, <3>2
  <2> QED
    BY <2>2, <2>3
<1>14. EndsWell'
  BY <1>1 DEF EndsWell
<1> QED
  BY <1>7, <1>8, <1>10, <1>11, <1>12, <1>13, <1>14 DEF EncoderInv

LEMMA NewPieceInv ==
  ASSUME EncoderSizes, EncoderInv, NewPiece
  PROVE  EncoderInv'
PROOF
<1> DEFINE bound == LZ4F_compressBound_internal(call.n, e.prefs, e.tmpInSize)
<1>1. /\ at = "piece" /\ e.cStage = 1 /\ outcome = "none" /\ PASSING <= call.src /\ call.n = call.size
      /\ written + bound <= call.capacity /\ e.tmpInSize < blockSize
  BY DEF NewPiece, EncoderInv, CallsInPlace, EncoderRoom, TmpInFits
<1>2. EncoderTypeOK /\ blockSize \in Nat \ {0} /\ call.n \in Nat /\ e.prefs \in Preferences
      /\ call.src \in Nat /\ call.capacity \in Nat /\ written \in Nat /\ done \in Nat /\ given \in Nat
      /\ e.tmpInSize \in Nat /\ e.allocated \in Nat /\ e.prefs.autoFlush \in BOOLEAN
      /\ Framing(e.prefs) \in Nat /\ Ending(e.prefs) \in Nat
  BY SizesNow DEF EncoderInv, EncoderTypeOK
<1>3. /\ bound \in Nat
      /\ AllLeft(e.prefs, e.tmpInSize + call.n) \in Nat
      /\ AllLeft(e.prefs, e.tmpInSize + call.n) <= bound
  <2> DEFINE all == e.prefs.autoFlush \/ call.n = 0
             n   == call.n + Smaller(e.tmpInSize, blockSize - 1)
             c   == Cost(blockSize, Framing(e.prefs), e.prefs.autoFlush, n)
             d   == Cost(blockSize, Framing(e.prefs), all, n)
  <2>1. all \in BOOLEAN /\ (e.prefs.autoFlush => all)
    OBVIOUS
  <2>2. bound = d + Ending(e.prefs)
    <3> HIDE DEF all
    <3>1. all <=> (e.prefs.autoFlush \/ call.n = 0)
      BY DEF all
    <3> QED
      BY <1>2, <2>1, <3>1, BoundIsCost DEF blockSize
  <2>3. n = e.tmpInSize + call.n /\ n \in Nat
    BY <1>1, <1>2 DEF Smaller
  <2>4. AllLeft(e.prefs, n) = c + Ending(e.prefs)
    BY DEF AllLeft, blockSize
  <2> HIDE DEF all, n, bound
  <2>5. c \in Nat /\ d \in Nat /\ c <= d
    BY <1>2, <2>1, <2>3, CostIsNat, AllCostsMore
  <2> HIDE DEF c, d
  <2>6. bound \in Nat /\ AllLeft(e.prefs, n) \in Nat /\ AllLeft(e.prefs, n) <= bound
    BY <1>2, <2>2, <2>4, <2>5
  <2> QED
    BY <2>3, <2>6
<1>4. /\ m' = Written(call.src, Text(given, given + call.n))
      /\ given' = given + call.n /\ at' = "complete"
      /\ e' = e /\ lz' = lz /\ call' = call /\ done' = done /\ written' = written /\ outcome' = outcome
  <2>1. ~(call.capacity - written < bound)
    <3> HIDE DEF bound
    <3> QED
      BY <1>1, <1>2, <1>3
  <2> QED
    BY <2>1 DEF NewPiece
<1> HIDE DEF bound
<1>5. EncoderTypeOK'
  BY <1>2, <1>4 DEF EncoderTypeOK
<1>6. CallsInPlace'
  BY <1>1, <1>4 DEF EncoderInv, CallsInPlace, Taking
<1>7. TmpInFits'
  <2>1. blockSize' = blockSize
    BY <1>4 DEF blockSize
  <2> QED
    BY <1>1, <1>4, <2>1 DEF EncoderInv, TmpInFits
<1>8. UnusedKept'
  <2> DEFINE s == Text(given, given + call.n)
  <2>1. Len(s) = call.n
    <3>1. s = [k \in 1 .. call.n |-> 100 * frames + given + k]
      <4>1. (given + call.n) - given = call.n
        BY <1>2
      <4> QED
        BY <4>1 DEF Text
    <3> HIDE DEF s
    <3> QED
      BY <1>2, <3>1
  <2> HIDE DEF s
  <2>2. \A a \in e.allocated .. PASSING - 1 : Written(call.src, s)[a] = Unknown
    BY <1>1, <1>2, <2>1, WriteKeepsUnused DEF EncoderInv
  <2> QED
    BY <1>4, <2>2 DEF UnusedKept, s
<1>9. BytesCounted'
  <2>1. /\ given = done + e.tmpInSize + 0
        /\ e.prefs.contentSize > 0 => e.totalInSize + 0 = given
        /\ call.last = "notDone"
    BY <1>1 DEF EncoderInv, BytesCounted, Taking
  <2>2. given + call.n = done + e.tmpInSize + call.n
    BY <1>2, <2>1
  <2>3. e.prefs.contentSize > 0 => e.totalInSize + call.size = given + call.n
    <3>1. e.totalInSize \in Nat
      BY <1>2, SizesNow
    <3> QED
      BY <1>1, <1>2, <2>1, <3>1
  <2> QED
    BY <1>1, <1>4, <2>1, <2>2, <2>3 DEF BytesCounted, Taking
<1>10. EncoderRoom'
  <2>1. written + AllLeft(e.prefs, e.tmpInSize + call.n) <= call.capacity
    BY <1>1, <1>2, <1>3
  <2> QED
    BY <1>4, <2>1 DEF EncoderRoom
<1>11. EndsWell'
  BY <1>1, <1>4 DEF EndsWell
<1> QED
  BY <1>5, <1>6, <1>7, <1>8, <1>9, <1>10, <1>11 DEF EncoderInv

(* Saved history leaves room for a block behind it.                        *)
LEMMA SavesDictInv ==
  ASSUME EncoderSizes, EncoderInv, LZ4F_localSaveDict, e.cStage = 1, e.prefs.linked,
         call.op # "ownFrame"
  PROVE  /\ lz' \in Histories /\ UnusedKept'
         /\ \E n \in Nat : /\ TmpInBecomes(n, e.tmpInSize)
                           /\ ~e.prefs.autoFlush => n + blockSize <= e.maxBufferSize
PROOF
<1>1. EncoderTypeOK /\ e \in Contexts /\ e.prefs \in Preferences /\ blockSize \in Nat \ {0} /\ KB64 \in Nat
      /\ e.maxBufferSize \in Nat /\ e.allocated \in Nat /\ e.tmpInSize \in Nat
  BY SizesNow DEF EncoderInv, EncoderTypeOK, EncoderSizes
<1>2. Required(e.prefs) <= e.maxBufferSize /\ e.maxBufferSize <= e.allocated
  BY DEF EncoderInv, TmpInFits
<1>3. /\ Required(e.prefs) \in Nat /\ KB64 <= Required(e.prefs)
      /\ ~e.prefs.autoFlush => KB64 + blockSize <= Required(e.prefs)
  BY <1>1, RequiredRoom DEF blockSize
<1>4. KB64 <= e.allocated
  BY <1>1, <1>2, <1>3
<1>5. /\ lz' \in Histories
      /\ \E n \in 0 .. KB64 : e' = [e EXCEPT !.tmpIn = n]
      /\ \A a \in e.allocated .. PASSING - 1 : m'[a] = Unknown
  BY <1>1, <1>4, SavesDict DEF EncoderInv
<1>6. PICK n \in 0 .. KB64 : e' = [e EXCEPT !.tmpIn = n]
  BY <1>5
<1>7. n \in Nat /\ (~e.prefs.autoFlush => n + blockSize <= e.maxBufferSize)
  BY <1>1, <1>2, <1>3, <1>6
<1>8. TmpInBecomes(n, e.tmpInSize)
  BY <1>1, <1>6, <1>7, TmpInChanges
<1>9. UnusedKept'
  BY <1>5, <1>8 DEF UnusedKept, TmpInBecomes
<1> QED
  BY <1>5, <1>7, <1>8, <1>9

(* Between the last block of a call and its end, only tmpIn moves.         *)
LEMMA MovedInv ==
  ASSUME EncoderSizes, EncoderInv, e.cStage = 1,
         NEW in \in Nat, TmpInBecomes(in, e.tmpInSize),
         ~e.prefs.linked => in = TMPBUFF,
         ~e.prefs.autoFlush /\ (at' # "limits" \/ e.tmpInSize > 0) =>
           in + blockSize <= e.maxBufferSize,
         lz' \in Histories, UnusedKept',
         call' = call, given' = given, done' = done, written' = written, outcome' = outcome,
         \/ at = "preserve" /\ at' = "limits"
         \/ at = "limits" /\ at' = "rest"
         \/ at = "flushed" /\ at' = AfterFlush
  PROVE  EncoderInv'
PROOF
<1>1. EncoderTypeOK /\ written \in Nat /\ call.capacity \in Nat /\ Ending(e.prefs) \in Nat
  BY SizesNow DEF EncoderInv, EncoderTypeOK
<1>2. /\ at' \in { "limits", "rest", "end", "return" }
      /\ at' = "return" => call.op = "flush"
      /\ at \in { "preserve", "limits", "flushed" }
  BY DEF AfterFlush
<1>3. EncoderTypeOK'
  BY <1>1, <1>2 DEF EncoderTypeOK, TmpInBecomes
<1>4. CallsInPlace'
  <2>1. at' \in { "limits", "rest" } => at \in { "preserve", "limits" }
    BY DEF AfterFlush
  <2> QED
    BY <1>2, <2>1 DEF EncoderInv, CallsInPlace, TmpInBecomes, Taking
<1>5. blockSize' = blockSize
  BY DEF TmpInBecomes, blockSize
<1>6. TmpInFits'
  <2>1. /\ Required(e.prefs) <= e.maxBufferSize
        /\ e.prefs.autoFlush => e.tmpInSize = 0
        /\ e.tmpInSize < blockSize
        /\ call.op # "ownFrame" => e.maxBufferSize <= e.allocated
    BY <1>2 DEF EncoderInv, TmpInFits
  <2> QED
    BY <1>2, <1>5, <2>1 DEF TmpInFits, TmpInBecomes
<1>7. BytesCounted'
  <2>1. Taking' <=> Taking
    BY <1>2 DEF Taking, AfterFlush
  <2>2. /\ at' \in { "limits", "rest" } => at \in { "preserve", "limits" }
        /\ at' = "end" => at = "flushed"
    BY DEF AfterFlush
  <2> QED
    BY <1>2, <1>5, <2>1, <2>2 DEF EncoderInv, BytesCounted, TmpInBecomes
<1>8. EncoderRoom'
  <2>1. written + Ending(e.prefs) <= call.capacity
    BY <1>2 DEF EncoderInv, EncoderRoom
  <2>2. written <= call.capacity
    BY <1>1, <2>1
  <2> QED
    BY <1>2, <2>1, <2>2 DEF EncoderRoom, TmpInBecomes
<1>9. EndsWell'
  <2>1. outcome = "none"
    BY <1>2 DEF EncoderInv, CallsInPlace
  <2> QED
    BY <2>1 DEF EndsWell
<1> QED
  BY <1>3, <1>4, <1>6, <1>7, <1>8, <1>9 DEF EncoderInv

(* A context beyond its limits keeps history, and has a tmpBuff for it.    *)
LEMMA LimitsReached ==
  ASSUME EncoderSizes, EncoderInv, e.cStage = 1, ~e.prefs.autoFlush
  PROVE  /\ call.op # "ownFrame"
         /\ ~e.prefs.linked => e.tmpIn = TMPBUFF
         /\ BeyondLimits => e.prefs.linked
         /\ ~BeyondLimits => e.tmpIn + blockSize <= e.maxBufferSize
         /\ TMPBUFF + blockSize <= e.maxBufferSize
PROOF
<1>1. e.prefs \in Preferences /\ blockSize \in Nat /\ e.tmpIn \in Nat /\ e.maxBufferSize \in Nat
  BY SizesNow DEF EncoderInv
<1>2. Required(e.prefs) <= e.maxBufferSize /\ (~e.prefs.linked => e.tmpIn = TMPBUFF)
  BY DEF EncoderInv, TmpInFits
<1>3. Required(e.prefs) \in Nat /\ blockSize <= Required(e.prefs)
  BY <1>1, RequiredRoom DEF blockSize
<1>4. TMPBUFF + blockSize <= e.maxBufferSize
  BY <1>1, <1>2, <1>3 DEF TMPBUFF
<1>5. BeyondLimits <=> e.tmpIn + blockSize > e.maxBufferSize
  BY <1>1 DEF BeyondLimits, TMPBUFF
<1>6. call.op # "ownFrame"
  BY DEF EncoderInv, CallsInPlace
<1> QED
  BY <1>1, <1>2, <1>4, <1>5, <1>6

LEMMA TmpInWithinLimitsInv ==
  ASSUME EncoderSizes, EncoderInv, TmpInWithinLimits
  PROVE  EncoderInv'
PROOF
<1>1. /\ at = "limits" /\ at' = "rest" /\ e.cStage = 1
      /\ call' = call /\ given' = given /\ done' = done /\ written' = written /\ outcome' = outcome
  BY DEF TmpInWithinLimits, EncoderInv, CallsInPlace
<1>2. e \in Contexts /\ lz \in Histories /\ e.tmpIn \in Nat /\ e.tmpInSize \in Nat
      /\ (~e.prefs.linked => e.tmpIn = TMPBUFF)
  BY <1>1, SizesNow DEF EncoderInv, EncoderTypeOK, TmpInFits
<1>3. CASE BeyondLimits /\ ~e.prefs.autoFlush
  <2>1. LZ4F_localSaveDict /\ e.prefs.linked /\ call.op # "ownFrame"
    BY <1>1, <1>3, LimitsReached DEF TmpInWithinLimits
  <2>2. /\ lz' \in Histories /\ UnusedKept'
        /\ \E n \in Nat : /\ TmpInBecomes(n, e.tmpInSize)
                          /\ ~e.prefs.autoFlush => n + blockSize <= e.maxBufferSize
    BY <1>1, <2>1, SavesDictInv
  <2>3. PICK n \in Nat : /\ TmpInBecomes(n, e.tmpInSize)
                         /\ ~e.prefs.autoFlush => n + blockSize <= e.maxBufferSize
    BY <2>2
  <2> QED
    BY <1>1, <2>1, <2>2, <2>3, MovedInv
<1>4. CASE ~(BeyondLimits /\ ~e.prefs.autoFlush)
  <2>1. e' = e /\ lz' = lz /\ m' = m
    BY <1>4 DEF TmpInWithinLimits
  <2>2. TmpInBecomes(e.tmpIn, e.tmpInSize) /\ UnusedKept'
    BY <1>2, <2>1, TmpInChanges, UnusedStays DEF EncoderInv
  <2>3. ~e.prefs.autoFlush => e.tmpIn + blockSize <= e.maxBufferSize
    BY <1>1, <1>4, LimitsReached
  <2> QED
    BY <1>1, <1>2, <2>1, <2>2, <2>3, MovedInv
<1> QED
  BY <1>3, <1>4

LEMMA FlushedInv ==
  ASSUME EncoderSizes, EncoderInv, Flushed
  PROVE  EncoderInv'
PROOF
<1>1. /\ at = "flushed" /\ at' = AfterFlush /\ e.cStage = 1 /\ ~e.prefs.autoFlush
      /\ call' = call /\ given' = given /\ done' = done /\ written' = written /\ outcome' = outcome
  BY DEF Flushed, EncoderInv, CallsInPlace, BytesCounted
<1>2. e \in Contexts /\ lz \in Histories /\ e.tmpIn \in Nat /\ e.tmpInSize \in Nat
      /\ (~e.prefs.linked => e.tmpIn = TMPBUFF)
  BY <1>1, SizesNow DEF EncoderInv, EncoderTypeOK, TmpInFits
<1>3. CASE BeyondLimits
  <2>1. LZ4F_localSaveDict /\ e.prefs.linked /\ call.op # "ownFrame"
    BY <1>1, <1>3, LimitsReached DEF Flushed
  <2>2. /\ lz' \in Histories /\ UnusedKept'
        /\ \E n \in Nat : /\ TmpInBecomes(n, e.tmpInSize)
                          /\ ~e.prefs.autoFlush => n + blockSize <= e.maxBufferSize
    BY <1>1, <2>1, SavesDictInv
  <2>3. PICK n \in Nat : /\ TmpInBecomes(n, e.tmpInSize)
                         /\ ~e.prefs.autoFlush => n + blockSize <= e.maxBufferSize
    BY <2>2
  <2> QED
    BY <1>1, <2>1, <2>2, <2>3, MovedInv
<1>4. CASE ~BeyondLimits
  <2>1. e' = e /\ lz' = lz /\ m' = m
    BY <1>4 DEF Flushed
  <2>2. TmpInBecomes(e.tmpIn, e.tmpInSize) /\ UnusedKept'
    BY <1>2, <2>1, TmpInChanges, UnusedStays DEF EncoderInv
  <2>3. e.tmpIn + blockSize <= e.maxBufferSize
    BY <1>1, <1>4, LimitsReached
  <2> QED
    BY <1>1, <1>2, <2>1, <2>2, <2>3, MovedInv
<1> QED
  BY <1>3, <1>4

LEMMA PreserveDictionaryInv ==
  ASSUME EncoderSizes, EncoderInv, PreserveDictionary
  PROVE  EncoderInv'
PROOF
<1>1. /\ at = "preserve" /\ e.cStage = 1
      /\ call' = call /\ given' = given /\ done' = done /\ written' = written
  BY DEF PreserveDictionary, EncoderInv, CallsInPlace
<1>2. e \in Contexts /\ lz \in Histories /\ e.tmpIn \in Nat /\ e.tmpInSize \in Nat
      /\ (~e.prefs.linked => e.tmpIn = TMPBUFF)
  BY <1>1, SizesNow DEF EncoderInv, EncoderTypeOK, TmpInFits
<1>3. CASE ~(e.prefs.linked /\ call.last = "fromSrcBuffer")
  <2>1. e' = e /\ lz' = lz /\ m' = m /\ outcome' = outcome /\ at' = "limits"
    BY <1>3 DEF PreserveDictionary
  <2>2. TmpInBecomes(e.tmpIn, e.tmpInSize) /\ UnusedKept'
    BY <1>2, <2>1, TmpInChanges, UnusedStays DEF EncoderInv
  <2>3. ~e.prefs.autoFlush /\ e.tmpInSize > 0 => e.tmpIn + blockSize <= e.maxBufferSize
    BY <1>1 DEF EncoderInv, TmpInFits
  <2> QED
    BY <1>1, <1>2, <2>1, <2>2, <2>3, MovedInv
<1>4. CASE e.prefs.linked /\ call.last = "fromSrcBuffer" /\ call.stable
  <2>1. e' = [e EXCEPT !.tmpIn = TMPBUFF] /\ lz' = lz /\ m' = m /\ outcome' = outcome /\ at' = "limits"
    BY <1>4 DEF PreserveDictionary
  <2> DEFINE front == TMPBUFF
  <2>2. front \in Nat
    BY DEF TMPBUFF
  <2>3. ~e.prefs.autoFlush => front + blockSize <= e.maxBufferSize
    BY <1>1, LimitsReached
  <2>4. e' = [e EXCEPT !.tmpIn = front]
    BY <2>1
  <2> HIDE DEF front
  <2>5. TmpInBecomes(front, e.tmpInSize)
    BY <1>2, <2>2, <2>4, TmpInChanges
  <2>6. UnusedKept'
    BY <2>1, <2>5, UnusedStays DEF EncoderInv, TmpInBecomes
  <2> QED
    BY <1>1, <1>2, <1>4, <2>1, <2>2, <2>3, <2>5, <2>6, MovedInv
<1>5. CASE e.prefs.linked /\ call.last = "fromSrcBuffer" /\ ~call.stable
  <2>1. LZ4F_localSaveDict /\ outcome' = outcome /\ at' = "limits" /\ call.op # "ownFrame"
    <3>1. lz.size > 0
      BY <1>1, <1>5 DEF EncoderInv, BytesCounted
    <3>2. lz.size \in Nat
      BY <1>2 DEF Histories
    <3>3. lz.size # 0
      BY <3>1, <3>2
    <3> QED
      BY <1>5, <3>3 DEF PreserveDictionary, EncoderInv, CallsInPlace
  <2>2. /\ lz' \in Histories /\ UnusedKept'
        /\ \E n \in Nat : /\ TmpInBecomes(n, e.tmpInSize)
                          /\ ~e.prefs.autoFlush => n + blockSize <= e.maxBufferSize
    BY <1>1, <1>5, <2>1, SavesDictInv
  <2>3. PICK n \in Nat : /\ TmpInBecomes(n, e.tmpInSize)
                         /\ ~e.prefs.autoFlush => n + blockSize <= e.maxBufferSize
    BY <2>2
  <2> QED
    BY <1>1, <1>5, <2>1, <2>2, <2>3, MovedInv
<1> QED
  BY <1>3, <1>4, <1>5

LEMMA KeepRestInv ==
  ASSUME EncoderSizes, EncoderInv, KeepRest
  PROVE  EncoderInv'
PROOF
<1> DEFINE size  == IF call.n > 0 THEN call.n ELSE e.tmpInSize
           total == e.totalInSize + call.size
<1>1. /\ at = "rest" /\ e.cStage = 1 /\ outcome = "none"
      /\ call.op \in { "update", "frame", "ownFrame" }
      /\ call.op # "update" => e.prefs.autoFlush
      /\ m' = Written(e.tmpIn, Segment(call.src, call.n))
      /\ at' = IF call.op = "update" THEN "return" ELSE "flush"
      /\ lz' = lz /\ call' = call /\ given' = given /\ done' = done /\ written' = written
      /\ outcome' = outcome
  BY DEF KeepRest, EncoderInv, CallsInPlace, Taking
<1>2. EncoderTypeOK /\ blockSize \in Nat \ {0} /\ call.n \in Nat /\ call.size \in Nat
      /\ call.src \in Nat /\ call.capacity \in Nat /\ written \in Nat /\ done \in Nat /\ given \in Nat
      /\ e.tmpIn \in Nat /\ e.tmpInSize \in Nat /\ e.allocated \in Nat /\ e.maxBufferSize \in Nat
      /\ e.totalInSize \in Nat /\ Ending(e.prefs) \in Nat
  BY SizesNow DEF EncoderInv, EncoderTypeOK
<1>3. /\ Required(e.prefs) <= e.maxBufferSize
      /\ ~e.prefs.linked => e.tmpIn = TMPBUFF
      /\ e.prefs.autoFlush => e.tmpInSize = 0
      /\ e.tmpInSize < blockSize
      /\ ~e.prefs.autoFlush => e.tmpIn + blockSize <= e.maxBufferSize
      /\ e.cStage = 0 \/ call.op # "ownFrame" => e.maxBufferSize <= e.allocated
  BY <1>1 DEF EncoderInv, TmpInFits
<1>4. /\ given = done + e.tmpInSize + call.n
      /\ e.prefs.contentSize > 0 => total = given
      /\ e.tmpInSize > 0 => call.n = 0
      /\ call.n < blockSize /\ (e.prefs.autoFlush => call.n = 0)
  BY <1>1 DEF EncoderInv, BytesCounted, Taking
<1>5. size \in Nat /\ total \in Nat
  BY <1>2
<1>6. e' = [e EXCEPT !.tmpInSize = size, !.totalInSize = total]
  BY DEF KeepRest
<1>7. given = done + size + 0 /\ size < blockSize /\ (e.prefs.autoFlush => size = 0)
  BY <1>2, <1>3, <1>4
<1> HIDE DEF size, total
<1>8. /\ e' \in Contexts
      /\ e'.prefs = e.prefs /\ e'.cStage = e.cStage /\ e'.maxBufferSize = e.maxBufferSize
      /\ e'.allocated = e.allocated /\ e'.tmpIn = e.tmpIn
      /\ e'.tmpInSize = size /\ e'.totalInSize = total
  BY <1>2, <1>5, <1>6 DEF EncoderTypeOK, Contexts
<1>9. EncoderTypeOK'
  BY <1>1, <1>2, <1>8 DEF EncoderTypeOK
<1>10. CallsInPlace'
  BY <1>1, <1>8 DEF EncoderInv, CallsInPlace, Taking
<1>11. blockSize' = blockSize
  BY <1>8 DEF blockSize
<1>12. TmpInFits'
  BY <1>1, <1>3, <1>7, <1>8, <1>11 DEF TmpInFits
<1>13. UnusedKept'
  <2> DEFINE s == Segment(call.src, call.n)
  <2>1. Len(s) = call.n
    BY <1>2, SegmentLength
  <2>2. s = << >> \/ e.tmpIn + Len(s) <= e.allocated
    <3>1. CASE call.n = 0
      BY <3>1, NoSegment
    <3>2. CASE call.n > 0
      <4>1. ~e.prefs.autoFlush /\ call.op # "ownFrame"
        BY <1>1, <1>2, <1>4, <3>2 DEF EncoderInv, CallsInPlace
      <4>2. e.tmpIn + blockSize <= e.maxBufferSize /\ e.maxBufferSize <= e.allocated
        BY <1>3, <4>1
      <4>3. call.n < blockSize
        BY <1>4
      <4> HIDE DEF s
      <4> QED
        BY <1>2, <2>1, <4>2, <4>3
    <3> QED
      BY <1>2, <3>1, <3>2
  <2> HIDE DEF s
  <2>3. \A a \in e.allocated .. PASSING - 1 : Written(e.tmpIn, s)[a] = Unknown
    BY <1>2, <2>1, <2>2, WriteKeepsUnused DEF EncoderInv
  <2> QED
    BY <1>1, <1>8, <2>3 DEF UnusedKept, s
<1>14. BytesCounted'
  <2>1. ~Taking' /\ at' \in { "return", "flush" }
    BY <1>1 DEF Taking
  <2>2. e.prefs.contentSize > 0 => total + 0 = given
    BY <1>4, <1>5
  <2>3. /\ given' = done' + e'.tmpInSize + 0
        /\ e'.prefs.contentSize > 0 => e'.totalInSize + 0 = given'
    BY <1>1, <1>7, <1>8, <2>2
  <2> QED
    BY <2>1, <2>3 DEF BytesCounted
<1>15. EncoderRoom'
  <2>1. written + Ending(e.prefs) <= call.capacity
    BY <1>1 DEF EncoderInv, EncoderRoom
  <2>2. written <= call.capacity
    BY <1>2, <2>1
  <2>3. call.op # "update" =>
          written + (IF size = 0 THEN 0 ELSE Framing(e.prefs) + size) + Ending(e.prefs) <= call.capacity
    BY <1>1, <1>2, <1>7, <2>1
  <2> QED
    BY <1>1, <1>8, <2>2, <2>3 DEF EncoderRoom
<1>16. EndsWell'
  BY <1>1 DEF EndsWell
<1> QED
  BY <1>9, <1>10, <1>12, <1>13, <1>14, <1>15, <1>16 DEF EncoderInv

LEMMA FlushBlockInv ==
  ASSUME EncoderSizes, EncoderInv, FlushBlock
  PROVE  EncoderInv'
PROOF
<1>1. /\ at = "flush" /\ e.cStage = 1 /\ outcome = "none"
  BY DEF FlushBlock, EncoderInv, CallsInPlace
<1>2. EncoderTypeOK /\ blockSize \in Nat \ {0} /\ e.prefs \in Preferences
      /\ call.capacity \in Nat /\ written \in Nat /\ done \in Nat /\ given \in Nat
      /\ e.tmpIn \in Nat /\ e.tmpInSize \in Nat /\ e.allocated \in Nat /\ e.maxBufferSize \in Nat
      /\ Framing(e.prefs) \in Nat /\ Ending(e.prefs) \in Nat
  BY SizesNow DEF EncoderInv, EncoderTypeOK
<1>3. /\ Required(e.prefs) <= e.maxBufferSize
      /\ ~e.prefs.linked => e.tmpIn = TMPBUFF
      /\ e.prefs.autoFlush => e.tmpInSize = 0
      /\ e.tmpInSize < blockSize
      /\ ~e.prefs.autoFlush => e.tmpIn + blockSize <= e.maxBufferSize
      /\ call.op # "ownFrame" => e.maxBufferSize <= e.allocated
  BY <1>1 DEF EncoderInv, TmpInFits
<1>4. /\ given = done + e.tmpInSize + 0
      /\ e.prefs.contentSize > 0 => e.totalInSize + 0 = given
  BY <1>1 DEF EncoderInv, BytesCounted, Taking
<1>5. written + (IF e.tmpInSize = 0 THEN 0 ELSE Framing(e.prefs) + e.tmpInSize) + Ending(e.prefs)
        <= call.capacity
  BY <1>1 DEF EncoderInv, EncoderRoom
<1>6. CASE e.tmpInSize = 0
  <2>1. /\ at' = AfterFlush /\ outcome' = outcome
        /\ e' = e /\ lz' = lz /\ m' = m /\ call' = call /\ given' = given /\ done' = done
        /\ written' = written
    BY <1>6 DEF FlushBlock
  <2>2. at' \in { "return", "end" } /\ (at' = "return" => call.op = "flush")
    BY <2>1 DEF AfterFlush
  <2>3. EncoderTypeOK'
    BY <1>2, <2>1, <2>2 DEF EncoderTypeOK
  <2>4. CallsInPlace'
    BY <1>1, <2>1, <2>2 DEF EncoderInv, CallsInPlace, Taking
  <2>5. blockSize' = blockSize
    BY <2>1 DEF blockSize
  <2>6. TmpInFits'
    BY <1>1, <1>3, <2>1, <2>2, <2>5 DEF TmpInFits
  <2>7. UnusedKept'
    BY <2>1, UnusedStays DEF EncoderInv
  <2>8. BytesCounted'
    BY <1>1, <1>4, <1>6, <2>1, <2>2 DEF BytesCounted, Taking
  <2>9. EncoderRoom'
    <3>1. written + Ending(e.prefs) <= call.capacity /\ written <= call.capacity
      BY <1>2, <1>5, <1>6
    <3> QED
      BY <2>1, <2>2, <3>1 DEF EncoderRoom
  <2>10. EndsWell'
    BY <1>1, <2>1 DEF EndsWell
  <2> QED
    BY <2>3, <2>4, <2>6, <2>7, <2>8, <2>9, <2>10 DEF EncoderInv
<1>7. CASE e.tmpInSize # 0
  <2> DEFINE size == e.tmpInSize
  <2>1. size \in Nat \ {0} /\ ~e.prefs.autoFlush
    BY <1>2, <1>3, <1>7
  <2>2. ~(call.capacity - written < e.tmpInSize + BHSize + BFSize)
    <3>1. BHSize + BFSize <= Framing(e.prefs) + Ending(e.prefs) /\ BHSize \in Nat /\ BFSize \in Nat
      BY <1>2, Extras DEF EncoderSizes
    <3>2. written + Framing(e.prefs) + e.tmpInSize + Ending(e.prefs) <= call.capacity
      BY <1>2, <1>5, <1>7
    <3> QED
      BY <1>2, <3>1, <3>2
  <2>3. /\ LZ4F_makeBlock(e.tmpIn, size) /\ e' = AfterTmpBlock(size)
        /\ at' = "flushed" /\ m' = m /\ call' = call /\ given' = given /\ outcome' = outcome
    BY <1>7, <2>2 DEF FlushBlock
  <2> HIDE DEF size
  <2>4. /\ lz' \in Histories
        /\ done' = done + size /\ done' \in Nat
        /\ written' = written + Framing(e.prefs) + size /\ written' \in Nat
    BY <1>2, <2>1, <2>3, MakesBlock
  <2>5. PICK in \in Nat : TmpInBecomes(in, 0) /\ (~e.prefs.linked => in = e.tmpIn)
    <3> DEFINE in == IF e.prefs.linked THEN e.tmpIn + size ELSE e.tmpIn
               zero == 0
    <3>1. in \in Nat /\ zero \in Nat
      BY <1>2, <2>1
    <3>2. e' = [e EXCEPT !.tmpIn = in, !.tmpInSize = zero]
      BY <2>3 DEF AfterTmpBlock
    <3> HIDE DEF in, zero
    <3>3. TmpInBecomes(in, zero)
      BY <1>2, <3>1, <3>2, TmpInChanges DEF EncoderTypeOK
    <3> QED
      BY <3>1, <3>3 DEF in, zero
  <2>6. EncoderTypeOK'
    BY <1>2, <2>3, <2>4, <2>5 DEF EncoderTypeOK, TmpInBecomes
  <2>7. CallsInPlace'
    BY <1>1, <2>3, <2>5 DEF EncoderInv, CallsInPlace, TmpInBecomes, Taking
  <2>8. blockSize' = blockSize
    BY <2>5 DEF TmpInBecomes, blockSize
  <2>9. TmpInFits'
    BY <1>1, <1>2, <1>3, <2>3, <2>5, <2>8 DEF TmpInFits, TmpInBecomes
  <2>10. UnusedKept'
    BY <2>3, <2>5, UnusedStays DEF EncoderInv, TmpInBecomes
  <2>11. BytesCounted'
    <3>1. given = (done + size) + 0 + 0
      BY <1>2, <1>4, <2>1 DEF size
    <3> QED
      BY <1>1, <1>4, <2>1, <2>3, <2>4, <2>5, <3>1 DEF BytesCounted, Taking, TmpInBecomes
  <2>12. EncoderRoom'
    <3>1. written + Framing(e.prefs) + size + Ending(e.prefs) <= call.capacity
      BY <1>2, <1>5, <1>7 DEF size
    <3>2. written' + Ending(e.prefs) <= call.capacity
      BY <2>4, <3>1
    <3> QED
      BY <2>3, <2>5, <3>2 DEF EncoderRoom, TmpInBecomes
  <2>13. EndsWell'
    BY <1>1, <2>3 DEF EndsWell
  <2> QED
    BY <2>6, <2>7, <2>9, <2>10, <2>11, <2>12, <2>13 DEF EncoderInv
<1> QED
  BY <1>6, <1>7

LEMMA EndFrameInv ==
  ASSUME EncoderSizes, EncoderInv, EndFrame
  PROVE  EncoderInv'
PROOF
<1>1. /\ at = "end" /\ e.cStage = 1 /\ e.tmpInSize = 0
      /\ written + Ending(e.prefs) <= call.capacity
  BY DEF EndFrame, EncoderInv, CallsInPlace, BytesCounted, EncoderRoom
<1>2. EncoderTypeOK /\ e.prefs \in Preferences /\ e.prefs.contentSize \in Nat
      /\ call.capacity \in Nat /\ written \in Nat /\ done \in Nat /\ given \in Nat
      /\ e.totalInSize \in Nat /\ e.allocated \in Nat /\ Ending(e.prefs) \in Nat
  BY SizesNow DEF EncoderInv, EncoderTypeOK
<1>3. BHSize + ContentChecksum(e.prefs) = Ending(e.prefs)
      /\ BHSize \in Nat /\ ContentChecksum(e.prefs) \in Nat
  BY <1>2, Extras DEF EncoderSizes, ContentChecksum
<1>4. ~(call.capacity - written < BHSize + ContentChecksum(e.prefs))
  BY <1>1, <1>2, <1>3
<1>5. /\ written' = written + BHSize + ContentChecksum(e.prefs)
      /\ e' = [e EXCEPT !.cStage = 0, !.maxBufferSize = 0]
      /\ outcome' = IF e.prefs.contentSize \in { 0, e.totalInSize } THEN "done" ELSE "frameSize_wrong"
      /\ at' = "return"
      /\ lz' = lz /\ m' = m /\ call' = call /\ given' = given /\ done' = done
  BY <1>4 DEF EndFrame
<1>6. written' \in Nat /\ written' <= call.capacity
  BY <1>1, <1>2, <1>3, <1>5
<1>7. /\ e' \in Contexts
      /\ e'.prefs = e.prefs /\ e'.cStage = 0 /\ e'.maxBufferSize = 0 /\ e'.allocated = e.allocated
  <2> DEFINE zero == 0
  <2>1. zero \in Nat /\ zero \in 0 .. 1
    OBVIOUS
  <2>2. e' = [e EXCEPT !.cStage = zero, !.maxBufferSize = zero]
    BY <1>5
  <2> HIDE DEF zero
  <2>3. /\ e' \in Contexts /\ e'.prefs = e.prefs /\ e'.cStage = zero /\ e'.maxBufferSize = zero
        /\ e'.allocated = e.allocated
    BY <1>2, <2>1, <2>2 DEF EncoderTypeOK, Contexts
  <2> QED
    BY <2>3 DEF zero
<1>8. EncoderTypeOK'
  BY <1>2, <1>5, <1>6, <1>7 DEF EncoderTypeOK
<1>9. CallsInPlace'
  BY <1>5, <1>7 DEF EncoderInv, CallsInPlace, Taking
<1>10. TmpInFits'
  BY <1>2, <1>7 DEF TmpInFits
<1>11. UnusedKept'
  BY <1>5, <1>7, UnusedStays DEF EncoderInv
<1>12. BytesCounted'
  BY <1>5, <1>7 DEF BytesCounted
<1>13. EncoderRoom'
  BY <1>5, <1>6 DEF EncoderRoom
<1>14. EndsWell'
  <2>1. /\ given = done + 0 + 0
        /\ e.prefs.contentSize > 0 => e.totalInSize + 0 = given
    BY <1>1 DEF EncoderInv, BytesCounted, Taking
  <2>2. done = given /\ (e.prefs.contentSize > 0 => e.totalInSize = given)
    BY <1>2, <2>1
  <2> QED
    BY <1>2, <1>5, <1>7, <2>2 DEF EndsWell
<1> QED
  BY <1>8, <1>9, <1>10, <1>11, <1>12, <1>13, <1>14 DEF EncoderInv

LEMMA ReturnInv ==
  ASSUME EncoderSizes, EncoderInv, Return
  PROVE  EncoderInv'
PROOF
<1>1. /\ at = "return" /\ at' = "idle" /\ call' = NoCall /\ written' = 0
      /\ m' = Forgotten(PASSING, STAYING - PASSING)
      /\ e' = e /\ lz' = lz /\ given' = given /\ done' = done /\ outcome' = outcome
      /\ call.op = "ownFrame" => e.cStage = 0
  BY DEF Return, EncoderInv, CallsInPlace
<1>2. EncoderTypeOK /\ e.allocated \in Nat
  BY SizesNow DEF EncoderInv
<1>3. /\ call' \in Calls /\ call'.op = "none" /\ call'.n = 0 /\ call'.size = 0 /\ call'.capacity = 0
      /\ call'.last = "notDone"
  BY <1>1, Places DEF NoCall, Calls
<1>4. EncoderTypeOK'
  BY <1>1, <1>2, <1>3 DEF EncoderTypeOK
<1>5. CallsInPlace'
  BY <1>1, <1>3 DEF EncoderInv, CallsInPlace, Taking
<1>6. blockSize' = blockSize
  BY <1>1 DEF blockSize
<1>7. TmpInFits'
  BY <1>1, <1>3, <1>6 DEF EncoderInv, TmpInFits
<1>8. UnusedKept'
  <2> DEFINE n == STAYING - PASSING
             s == [k \in 1 .. n |-> Unknown]
  <2>1. n \in Nat /\ PASSING \in Nat
    BY Places
  <2>2. m' = Written(PASSING, s)
    BY <1>1 DEF Forgotten
  <2> HIDE DEF n
  <2>3. Len(s) \in Nat
    BY <2>1
  <2> HIDE DEF s
  <2>4. \A a \in e.allocated .. PASSING - 1 : Written(PASSING, s)[a] = Unknown
    BY <1>2, <2>1, <2>3, WriteKeepsUnused DEF EncoderInv
  <2> QED
    BY <1>1, <2>2, <2>4 DEF UnusedKept
<1>9. BytesCounted'
  BY <1>1, <1>3 DEF EncoderInv, BytesCounted, Taking
<1>10. EncoderRoom'
  BY <1>1, <1>3 DEF EncoderRoom
<1>11. EndsWell'
  BY <1>1 DEF EncoderInv, EndsWell
<1> QED
  BY <1>4, <1>5, <1>7, <1>8, <1>9, <1>10, <1>11 DEF EncoderInv

(* What is enough for a piece, and for what waits in tmpIn.                *)
LEMMA RoomOfContext ==
  ASSUME EncoderSizes, EncoderInv, e.cStage = 1, at = "idle", NEW n \in Nat
  PROVE  /\ LZ4F_compressBound(n, e.prefs) \in Nat
         /\ LZ4F_compressBound_internal(n, e.prefs, e.tmpInSize) <= LZ4F_compressBound(n, e.prefs)
         /\ (IF e.tmpInSize = 0 THEN 0 ELSE Framing(e.prefs) + e.tmpInSize) + Ending(e.prefs)
              <= LZ4F_compressBound(0, e.prefs)
PROOF
<1>1. e.prefs \in Preferences /\ e.tmpInSize \in Nat
  BY SizesNow DEF EncoderInv
<1>2. /\ e.prefs.autoFlush => e.tmpInSize = 0
      /\ e.tmpInSize < LZ4F_getBlockSize(e.prefs.blockSizeID)
  BY DEF EncoderInv, TmpInFits, blockSize
<1>3. ~e.prefs.autoFlush => LZ4F_getBlockSize(e.prefs.blockSizeID) <= LargestTmpBuff
  <2>1. e.prefs \in Prefs \/ e.prefs.autoFlush
    BY DEF EncoderInv, CallsInPlace
  <2> QED
    BY <1>1, <2>1, RequiredRoom
<1> QED
  BY <1>1, <1>2, <1>3, BoundForUpdate, BoundForFlush

LEMMA CompressUpdateInv ==
  ASSUME EncoderSizes, EncoderInv, LZ4F_compressUpdate
  PROVE  EncoderInv'
PROOF
<1>1. /\ at = "idle" /\ e.cStage = 1 /\ at' = "piece" /\ written' = 0
      /\ e' = e /\ lz' = lz /\ m' = m /\ given' = given /\ done' = done /\ outcome' = outcome
  BY DEF LZ4F_compressUpdate
<1>2. PICK n \in 0 .. MaxPiece, stable \in BOOLEAN :
        call' = [op |-> "update", src |-> IF stable THEN STAYING + given ELSE PASSING,
                 n |-> n, size |-> n, stable |-> stable,
                 capacity |-> LZ4F_compressBound(n, e.prefs), last |-> "notDone"]
  BY DEF LZ4F_compressUpdate
<1>3. EncoderTypeOK /\ given \in Nat /\ MaxPiece \in Nat
  BY DEF EncoderInv, EncoderTypeOK, EncoderSizes
<1>4. n \in Nat
  BY <1>3
<1> DEFINE src  == IF stable THEN STAYING + given ELSE PASSING
           room == LZ4F_compressBound(n, e.prefs)
<1>5. src \in Nat /\ PASSING <= src
  BY <1>3, Places
<1>6. room \in Nat
      /\ LZ4F_compressBound_internal(n, e.prefs, e.tmpInSize) <= room
  BY <1>1, <1>4, RoomOfContext
<1> HIDE DEF src, room
<1>7. /\ call' \in Calls /\ call'.op = "update" /\ call'.src = src /\ call'.n = n /\ call'.size = n
      /\ call'.capacity = room /\ call'.last = "notDone"
  BY <1>2, <1>4, <1>5, <1>6 DEF Calls, src, room
<1>8. EncoderTypeOK'
  BY <1>1, <1>3, <1>7 DEF EncoderTypeOK
<1>9. CallsInPlace'
  BY <1>1, <1>5, <1>7 DEF EncoderInv, CallsInPlace, Taking
<1>10. TmpInFits'
  <2>1. blockSize' = blockSize
    BY <1>1 DEF blockSize
  <2>2. e.maxBufferSize <= e.allocated
    BY <1>1 DEF EncoderInv, TmpInFits, CallsInPlace
  <2> QED
    BY <1>1, <1>7, <2>1, <2>2 DEF EncoderInv, TmpInFits
<1>11. UnusedKept'
  BY <1>1, UnusedStays DEF EncoderInv
<1>12. BytesCounted'
  BY <1>1, <1>7 DEF EncoderInv, BytesCounted, Taking
<1>13. EncoderRoom'
  <2>1. LZ4F_compressBound_internal(n, e.prefs, e.tmpInSize) \in Nat
    BY <1>3, <1>4, SizesNow, BoundIsNat
  <2> QED
    BY <1>1, <1>6, <1>7, <2>1 DEF EncoderRoom
<1>14. EndsWell'
  BY <1>1 DEF EncoderInv, EndsWell
<1> QED
  BY <1>8, <1>9, <1>10, <1>11, <1>12, <1>13, <1>14 DEF EncoderInv

LEMMA FlushOrEndInv ==
  ASSUME EncoderSizes, EncoderInv, NEW name \in { "flush", "end" }, FlushOrEnd(name)
  PROVE  EncoderInv'
PROOF
<1> DEFINE room == LZ4F_compressBound(0, e.prefs)
<1>1. /\ at = "idle" /\ e.cStage = 1 /\ at' = "flush" /\ written' = 0
      /\ e' = e /\ lz' = lz /\ m' = m /\ given' = given /\ done' = done /\ outcome' = outcome
      /\ call' = [NoCall EXCEPT !.op = name, !.capacity = room]
  BY DEF FlushOrEnd
<1>2. EncoderTypeOK /\ e.tmpInSize \in Nat /\ Framing(e.prefs) \in Nat /\ Ending(e.prefs) \in Nat
  BY SizesNow DEF EncoderInv
<1>3. /\ room \in Nat
      /\ (IF e.tmpInSize = 0 THEN 0 ELSE Framing(e.prefs) + e.tmpInSize) + Ending(e.prefs) <= room
  BY <1>1, RoomOfContext
<1> HIDE DEF room
<1>4. NoCall \in Calls
  BY Places DEF NoCall, Calls
<1>5. /\ call' \in Calls /\ call'.op = name /\ call'.capacity = room
  BY <1>1, <1>3, <1>4 DEF Calls
<1>6. EncoderTypeOK'
  BY <1>1, <1>2, <1>5 DEF EncoderTypeOK
<1>7. CallsInPlace'
  BY <1>1, <1>5 DEF EncoderInv, CallsInPlace, Taking
<1>8. TmpInFits'
  <2>1. blockSize' = blockSize
    BY <1>1 DEF blockSize
  <2>2. e.maxBufferSize <= e.allocated
    BY <1>1 DEF EncoderInv, TmpInFits, CallsInPlace
  <2> QED
    BY <1>1, <1>5, <2>1, <2>2 DEF EncoderInv, TmpInFits
<1>9. UnusedKept'
  BY <1>1, UnusedStays DEF EncoderInv
<1>10. BytesCounted'
  BY <1>1, <1>5 DEF EncoderInv, BytesCounted, Taking
<1>11. EncoderRoom'
  BY <1>1, <1>2, <1>3, <1>5 DEF EncoderRoom
<1>12. EndsWell'
  BY <1>1 DEF EncoderInv, EndsWell
<1> QED
  BY <1>6, <1>7, <1>8, <1>9, <1>10, <1>11, <1>12 DEF EncoderInv

(* What a frame begins with.                                               *)
BeginsWith(prefs) ==
  /\ e' \in Contexts /\ lz' \in Histories
  /\ e'.prefs = prefs /\ e'.cStage = 1 /\ e'.tmpIn = TMPBUFF /\ e'.tmpInSize = 0
  /\ prefs.contentSize > 0 => e'.totalInSize = 0
  /\ Required(prefs) <= e'.maxBufferSize
  /\ done' = 0
  /\ UnusedKept'

LEMMA BeginsFrame ==
  ASSUME EncoderSizes, NEW x \in Contexts, NEW z \in Histories,
         NEW prefs \in Preferences, NEW cdict \in Nat,
         \A a \in x.allocated .. PASSING - 1 : m[a] = Unknown,
         LZ4F_compressBegin_usingCDict(x, z, prefs, cdict)
  PROVE  /\ BeginsWith(prefs)
         /\ x.maxBufferSize <= x.allocated => e'.maxBufferSize <= e'.allocated
PROOF
<1> DEFINE more  == x.maxBufferSize < Required(prefs)
           clean == Fitting(x, z, prefs)
           alloc == IF x.lz4CtxAlloc < ContextType(prefs) THEN ContextType(prefs) ELSE x.lz4CtxAlloc
           max   == IF more THEN Required(prefs) ELSE x.maxBufferSize
           got   == IF more THEN Required(prefs) ELSE x.allocated
           total == IF prefs.contentSize > 0 THEN 0 ELSE x.totalInSize
           zero  == 0
           one   == 1
           type  == ContextType(prefs)
           front == TMPBUFF
<1>1. /\ e' = [x EXCEPT !.prefs = prefs, !.cdict = cdict, !.cStage = one, !.lz4CtxAlloc = alloc,
                 !.lz4CtxState = type, !.maxBufferSize = max, !.allocated = got,
                 !.tmpIn = front, !.tmpInSize = zero, !.totalInSize = total]
      /\ lz' = IF prefs.linked THEN LZ4F_initStream(clean, prefs, cdict) ELSE clean
      /\ m' = IF more THEN Forgotten(TMPBUFF, PASSING) ELSE m
      /\ done' = 0
  BY DEF LZ4F_compressBegin_usingCDict, Contexts
<1>2. Required(prefs) \in Nat /\ type \in 1 .. 2
  BY RequiredRoom, Extras
<1>3. /\ x.maxBufferSize \in Nat /\ x.allocated \in Nat /\ x.lz4CtxAlloc \in 0 .. 2 /\ x.totalInSize \in Nat
      /\ prefs.contentSize \in Nat
  BY DEF Contexts, Preferences
<1>4. alloc \in 0 .. 2 /\ max \in Nat /\ got \in Nat /\ total \in Nat /\ zero \in Nat /\ one \in 0 .. 1
      /\ type \in 0 .. 2 /\ front \in Nat
  BY <1>2, <1>3, Places
<1>5. /\ Required(prefs) <= max
      /\ x.maxBufferSize <= x.allocated => max <= got
      /\ prefs.contentSize > 0 => total = 0
  BY <1>2, <1>3
<1>6. clean \in Histories
  BY DEF Fitting, NoHistory, Histories, NULL
<1>7. lz' \in Histories
  <2> HIDE DEF clean
  <2> DEFINE positive == cdict > 0
             no == FALSE
  <2>1. positive \in BOOLEAN /\ no \in BOOLEAN /\ NoHistory \in Histories
    BY DEF NoHistory, Histories, NULL
  <2>2. \/ lz' = clean \/ lz' = [NoHistory EXCEPT !.attached = positive]
        \/ lz' = [clean EXCEPT !.attached = no]
    BY <1>1 DEF LZ4F_initStream
  <2> HIDE DEF positive, no
  <2> QED
    BY <1>6, <2>1, <2>2, HistoryAttached
<1>8. \A a \in got .. PASSING - 1 : m'[a] = Unknown
  <2>1. CASE more
    <3> TAKE a \in got .. PASSING - 1
    <3> DEFINE s == [k \in 1 .. PASSING |-> Unknown]
    <3>1. a \in 0 .. PASSING - 1 /\ PASSING \in Nat /\ a \in Addresses
      BY <1>4, Places
    <3>2. m' = Written(TMPBUFF, s)
      BY <1>1, <2>1 DEF Forgotten
    <3>3. s # << >> /\ Len(s) = PASSING
      BY <3>1
    <3>4. m'[a] = IF a - TMPBUFF \in 0 .. Len(s) - 1 THEN s[a - TMPBUFF + 1] ELSE m[a]
      <4> HIDE DEF s
      <4> QED
        BY <3>1, <3>2, <3>3 DEF Written
    <3>5. a - TMPBUFF \in 0 .. PASSING - 1 /\ a - TMPBUFF + 1 \in 1 .. PASSING
      BY <3>1, Places
    <3>6. s[a - TMPBUFF + 1] = Unknown
      BY <3>5
    <3> HIDE DEF s
    <3> QED
      BY <3>3, <3>4, <3>5, <3>6
  <2>2. CASE ~more
    BY <1>1, <2>2
  <2> QED
    BY <2>1, <2>2
<1> HIDE DEF more, clean, alloc, max, got, total, zero, one, type, front
<1>9. /\ e' \in Contexts
      /\ e'.prefs = prefs /\ e'.cStage = one /\ e'.tmpIn = front /\ e'.tmpInSize = zero
      /\ e'.totalInSize = total /\ e'.maxBufferSize = max /\ e'.allocated = got
  BY <1>1, <1>4 DEF Contexts
<1>10. UnusedKept'
  BY <1>8, <1>9 DEF UnusedKept
<1> QED
  BY <1>1, <1>5, <1>7, <1>9, <1>10 DEF BeginsWith, zero, one, front

LEMMA CompressBeginInv ==
  ASSUME EncoderSizes, EncoderInv, LZ4F_compressBegin
  PROVE  EncoderInv'
PROOF
<1>1. /\ at = "idle" /\ at' = "idle" /\ given' = 0 /\ outcome' = "none"
      /\ call' = call /\ written' = written
  BY DEF LZ4F_compressBegin
<1>2. PICK prefs \in Prefs, size \in DictSizes :
        LZ4F_compressBegin_usingCDict(e, lz, prefs, LZ4F_createCDict(size))
  BY DEF LZ4F_compressBegin
<1>3. EncoderTypeOK /\ e \in Contexts /\ lz \in Histories
  BY DEF EncoderInv, EncoderTypeOK
<1>4. prefs \in Preferences /\ LZ4F_createCDict(size) \in Nat
  BY DEF EncoderSizes, LZ4F_createCDict, Smaller
<1>5. e.maxBufferSize <= e.allocated /\ call.op = "none" /\ written <= call.capacity
  BY <1>1 DEF EncoderInv, TmpInFits, CallsInPlace, EncoderRoom
<1>6. BeginsWith(prefs) /\ e'.maxBufferSize <= e'.allocated
  <2>1. \A a \in e.allocated .. PASSING - 1 : m[a] = Unknown
    BY DEF EncoderInv, UnusedKept
  <2> QED
    BY <1>2, <1>3, <1>4, <1>5, <2>1, BeginsFrame
<1>7. EncoderTypeOK'
  BY <1>1, <1>3, <1>6 DEF EncoderTypeOK, BeginsWith
<1>8. CallsInPlace'
  BY <1>1, <1>5, <1>6 DEF CallsInPlace, BeginsWith, Taking
<1>9. TmpInFits'
  <2>1. LZ4F_getBlockSize(prefs.blockSizeID) \in Nat \ {0} /\ blockSize' = LZ4F_getBlockSize(prefs.blockSizeID)
    BY <1>4, <1>6, BlockSizes, Extras DEF BeginsWith, blockSize
  <2>2. ~prefs.autoFlush => TMPBUFF + blockSize' <= e'.maxBufferSize
    <3>1. ~prefs.autoFlush => blockSize' <= Required(prefs)
      BY <1>4, <2>1, RequiredRoom
    <3>2. Required(prefs) \in Nat /\ Required(prefs) <= e'.maxBufferSize /\ e'.maxBufferSize \in Nat
      BY <1>4, <1>6, RequiredRoom DEF BeginsWith, Contexts
    <3> QED
      BY <2>1, <3>1, <3>2, Places
  <2> QED
    BY <1>1, <1>5, <1>6, <2>1, <2>2 DEF TmpInFits, BeginsWith
<1>10. BytesCounted'
  BY <1>1, <1>6 DEF BytesCounted, BeginsWith, Taking
<1>11. EncoderRoom'
  BY <1>1, <1>5 DEF EncoderRoom
<1>12. EndsWell'
  BY <1>1 DEF EndsWell
<1> QED
  BY <1>6, <1>7, <1>8, <1>9, <1>10, <1>11, <1>12 DEF EncoderInv, BeginsWith

(* No memory is allocated before the first frame.                          *)
FirstFrame == frames \in Nat /\ (frames = 0 => e.allocated = 0)

LEMMA CompressFrameInv ==
  ASSUME EncoderSizes, EncoderInv, FirstFrame, LZ4F_compressFrame
  PROVE  EncoderInv' /\ FirstFrame'
PROOF
<1>1. PICK prefs \in Prefs, size \in DictSizes, n \in 0 .. MaxText, own \in BOOLEAN :
        LET p == FramePrefs(prefs, n)
            dstCapacity == LZ4F_compressFrameBound(n, prefs)
        IN  /\ own => frames = 0 /\ size = 0
            /\ LZ4F_compressBegin_usingCDict(
                 IF own THEN NewContext(80 * KB64, IF p.hc THEN 0 ELSE 1) ELSE e, lz, p,
                 LZ4F_createCDict(size))
            /\ call' = [op |-> IF own THEN "ownFrame" ELSE "frame", src |-> STAYING, n |-> n, size |-> n,
                        stable |-> TRUE, capacity |-> dstCapacity, last |-> "notDone"]
            /\ written' = HeaderSize(p)
            /\ IF dstCapacity < LZ4F_compressFrameBound(n, p)
               THEN outcome' = "tooSmall" /\ at' = "error"
               ELSE outcome' = "none" /\ at' = "piece"
  BY DEF LZ4F_compressFrame
<1> DEFINE p        == FramePrefs(prefs, n)
           room     == LZ4F_compressFrameBound(n, prefs)
           bound    == LZ4F_compressBound_internal(n, p, 0)
           x        == IF own THEN NewContext(80 * KB64, IF p.hc THEN 0 ELSE 1) ELSE e
           kind     == IF own THEN "ownFrame" ELSE "frame"
           cdict    == LZ4F_createCDict(size)
           yes      == TRUE
<1>2. at = "idle" /\ given' = 0
  BY DEF LZ4F_compressFrame
<1>3. EncoderTypeOK /\ e \in Contexts /\ lz \in Histories /\ KB64 \in Nat /\ MaxText \in Nat
  BY DEF EncoderInv, EncoderTypeOK, EncoderSizes
<1>4. prefs \in Preferences /\ cdict \in Nat /\ n \in Nat /\ yes \in BOOLEAN /\ yes = TRUE
  BY <1>3 DEF EncoderSizes, LZ4F_createCDict, Smaller
<1>5. p \in Preferences /\ p.autoFlush /\ room = maxFHSize + bound
      /\ LZ4F_compressFrameBound(n, p) = room
  BY <1>4, BoundForFrame
<1>6. /\ own => frames = 0
      /\ LZ4F_compressBegin_usingCDict(x, lz, p, cdict)
      /\ call' = [op |-> kind, src |-> STAYING, n |-> n, size |-> n, stable |-> yes,
                  capacity |-> room, last |-> "notDone"]
      /\ written' = HeaderSize(p)
      /\ IF room < room THEN outcome' = "tooSmall" /\ at' = "error"
         ELSE outcome' = "none" /\ at' = "piece"
  BY <1>1, <1>5
<1>7. x \in Contexts /\ (own => x.allocated = 0)
  <2> DEFINE type == IF p.hc THEN 0 ELSE 1
             much == 80 * KB64
             some == CHOOSE q \in Prefs : TRUE
             zero == 0
             front == TMPBUFF
  <2>1. type \in 0 .. 2 /\ much \in Nat /\ zero \in Nat /\ zero \in 0 .. 1 /\ front \in Nat
    BY <1>3, Places
  <2>2. some \in Preferences
    <3>1. \E q \in Prefs : TRUE
      BY DEF EncoderSizes
    <3> QED
      BY <3>1 DEF EncoderSizes
  <2>3. x = IF own THEN [cStage |-> zero, prefs |-> some, cdict |-> zero, lz4CtxAlloc |-> type,
                         lz4CtxState |-> type, maxBufferSize |-> much, allocated |-> zero,
                         tmpIn |-> front, tmpInSize |-> zero, totalInSize |-> zero]
            ELSE e
    BY DEF NewContext
  <2> HIDE DEF type, much, some, zero, front, x
  <2>4. x \in Contexts /\ (own => x.allocated = zero)
    BY <1>3, <2>1, <2>2, <2>3 DEF Contexts
  <2>5. own => x.allocated = 0
    BY <2>4 DEF zero
  <2> QED
    BY <2>4, <2>5 DEF Contexts
<1>8. \A a \in x.allocated .. PASSING - 1 : m[a] = Unknown
  <2>1. x.allocated = e.allocated
    <3>1. CASE own
      BY <1>6, <1>7, <3>1 DEF FirstFrame
    <3>2. CASE ~own
      BY <3>2
    <3> QED
      BY <3>1, <3>2
  <2> HIDE DEF x
  <2> QED
    BY <2>1 DEF EncoderInv, UnusedKept
<1>9. ~own => x.maxBufferSize <= x.allocated
  BY <1>2 DEF EncoderInv, TmpInFits, CallsInPlace
<1>10. bound \in Nat /\ HeaderSize(p) \in Nat /\ HeaderSize(p) <= maxFHSize /\ maxFHSize \in Nat
  BY <1>4, <1>5, BoundIsNat, Extras DEF EncoderSizes
<1> HIDE DEF p, bound, x, cdict, room, yes
<1>11. BeginsWith(p) /\ (~own => e'.maxBufferSize <= e'.allocated)
  BY <1>3, <1>4, <1>5, <1>6, <1>7, <1>8, <1>9, BeginsFrame
<1>12. room \in Nat /\ outcome' = "none" /\ at' = "piece"
       /\ written' \in Nat /\ written' + bound <= room
  BY <1>5, <1>6, <1>10
<1>13. kind \in { "frame", "ownFrame" } /\ (kind = "ownFrame" <=> own) /\ STAYING \in Nat /\ PASSING <= STAYING
  BY Places
<1> HIDE DEF kind
<1>14. /\ call' \in Calls /\ call'.op = kind /\ call'.src = STAYING /\ call'.n = n /\ call'.size = n
       /\ call'.stable = yes /\ call'.capacity = room /\ call'.last = "notDone"
  BY <1>4, <1>6, <1>12, <1>13 DEF Calls
<1>15. EncoderTypeOK'
  BY <1>2, <1>3, <1>11, <1>12, <1>14 DEF EncoderTypeOK, BeginsWith
<1>16. CallsInPlace'
  BY <1>4, <1>5, <1>11, <1>12, <1>13, <1>14 DEF CallsInPlace, BeginsWith, Taking
<1>17. TmpInFits'
  <2>1. LZ4F_getBlockSize(p.blockSizeID) \in Nat \ {0} /\ blockSize' = LZ4F_getBlockSize(p.blockSizeID)
    BY <1>5, <1>11, BlockSizes, Extras DEF BeginsWith, blockSize
  <2> QED
    BY <1>5, <1>11, <1>12, <1>13, <1>14, <2>1 DEF TmpInFits, BeginsWith
<1>18. BytesCounted'
  BY <1>2, <1>11, <1>12, <1>14 DEF BytesCounted, BeginsWith, Taking
<1>19. EncoderRoom'
  <2>1. LZ4F_compressBound_internal(call'.n, e'.prefs, e'.tmpInSize) = bound
    BY <1>11, <1>14 DEF BeginsWith, bound
  <2> QED
    BY <1>12, <1>14, <2>1 DEF EncoderRoom
<1>20. EndsWell'
  BY <1>12 DEF EndsWell
<1>21. FirstFrame'
  <2>1. frames' = frames + 1
    BY <1>6 DEF LZ4F_compressBegin_usingCDict
  <2> QED
    BY <2>1 DEF FirstFrame
<1> QED
  BY <1>11, <1>15, <1>16, <1>17, <1>18, <1>19, <1>20, <1>21 DEF EncoderInv, BeginsWith

LEMMA FirstFrameStays ==
  ASSUME EncoderSizes, EncoderInv, FirstFrame, EncoderNext, ~LZ4F_compressFrame
  PROVE  FirstFrame'
PROOF
<1>1. e \in Contexts /\ frames \in Nat /\ MaxFrames \in Nat \ {0}
  BY DEF EncoderInv, EncoderTypeOK, FirstFrame, EncoderSizes
<1>2. CASE LZ4F_compressBegin
  <2>1. frames' = frames + 1
    BY <1>2 DEF LZ4F_compressBegin, LZ4F_compressBegin_usingCDict
  <2> QED
    BY <1>1, <2>1 DEF FirstFrame
<1>3. CASE Return
  <2>1. e' = e /\ (frames' = MaxFrames \/ frames' = frames)
    BY <1>3 DEF Return
  <2> QED
    BY <1>1, <2>1 DEF FirstFrame
<1>4. ASSUME frames' = frames, e'.allocated = e.allocated
      PROVE  FirstFrame'
  BY <1>4 DEF FirstFrame
<1>5. CASE LZ4F_compressUpdate \/ LZ4F_flush \/ LZ4F_compressEnd \/ SrcBlock
  BY <1>4, <1>5 DEF LZ4F_compressUpdate, LZ4F_flush, LZ4F_compressEnd, FlushOrEnd, SrcBlock
<1>6. CASE NewPiece
  BY <1>4, <1>6 DEF NewPiece, Refuse
<1>7. CASE FillTmpIn
  <2> DEFINE size == e.tmpInSize + IF e.tmpInSize = 0 THEN 0 ELSE Smaller(blockSize - e.tmpInSize, call.n)
  <2>1. e' = [e EXCEPT !.tmpInSize = size] /\ frames' = frames
    BY <1>7 DEF FillTmpIn
  <2> HIDE DEF size
  <2> QED
    BY <1>1, <1>4, <2>1 DEF Contexts
<1>8. \A n : e' = AfterTmpBlock(n) => e'.allocated = e.allocated
  BY <1>1 DEF AfterTmpBlock, Contexts
<1>9. LZ4F_localSaveDict => e'.allocated = e.allocated
  <2> DEFINE in == TMPBUFF + Smaller(lz.size, KB64)
  <2>1. LZ4F_localSaveDict => e' = [e EXCEPT !.tmpIn = in]
    BY DEF LZ4F_localSaveDict
  <2> HIDE DEF in
  <2> QED
    BY <1>1, <2>1 DEF Contexts
<1>10. CASE TmpBlock
  BY <1>4, <1>8, <1>10 DEF TmpBlock
<1>11. CASE FlushBlock
  BY <1>4, <1>8, <1>11 DEF FlushBlock, Refuse
<1>12. CASE PreserveDictionary
  <2> DEFINE front == TMPBUFF
  <2>1. frames' = frames /\ (e' = e \/ e' = [e EXCEPT !.tmpIn = front] \/ LZ4F_localSaveDict)
    BY <1>12 DEF PreserveDictionary
  <2> HIDE DEF front
  <2>2. e' = [e EXCEPT !.tmpIn = front] => e'.allocated = e.allocated
    BY <1>1 DEF Contexts
  <2> QED
    BY <1>4, <1>9, <2>1, <2>2
<1>13. CASE TmpInWithinLimits \/ Flushed
  BY <1>4, <1>9, <1>13 DEF TmpInWithinLimits, Flushed
<1>14. CASE KeepRest
  <2> DEFINE size  == IF call.n > 0 THEN call.n ELSE e.tmpInSize
             total == e.totalInSize + call.size
  <2>1. e' = [e EXCEPT !.tmpInSize = size, !.totalInSize = total] /\ frames' = frames
    BY <1>14 DEF KeepRest
  <2> HIDE DEF size, total
  <2> QED
    BY <1>1, <1>4, <2>1 DEF Contexts
<1>15. CASE EndFrame
  <2>1. frames' = frames /\ (e' = e \/ e' = [e EXCEPT !.cStage = 0, !.maxBufferSize = 0])
    BY <1>15 DEF EndFrame, Refuse
  <2>2. e' = [e EXCEPT !.cStage = 0, !.maxBufferSize = 0] => e'.allocated = e.allocated
    BY <1>1 DEF Contexts
  <2> QED
    BY <1>4, <2>1, <2>2
<1> QED
  BY <1>2, <1>3, <1>5, <1>6, <1>7, <1>10, <1>11, <1>12, <1>13, <1>14, <1>15 DEF EncoderNext

LEMMA EncoderInitInv ==
  ASSUME EncoderSizes, EncoderInit
  PROVE  EncoderInv /\ FirstFrame
PROOF
<1> DEFINE some == CHOOSE q \in Prefs : TRUE
<1>1. some \in Preferences /\ some \in Prefs
  <2>1. \E q \in Prefs : TRUE
    BY DEF EncoderSizes
  <2> QED
    BY <2>1 DEF EncoderSizes
<1>2. e = [cStage |-> 0, prefs |-> some, cdict |-> 0, lz4CtxAlloc |-> 0, lz4CtxState |-> 0,
           maxBufferSize |-> 0, allocated |-> 0, tmpIn |-> TMPBUFF, tmpInSize |-> 0, totalInSize |-> 0]
  BY DEF EncoderInit, NewContext
<1> HIDE DEF some
<1>3. /\ e \in Contexts /\ e.cStage = 0 /\ e.prefs = some
      /\ e.maxBufferSize = 0 /\ e.allocated = 0
  BY <1>1, <1>2, Places DEF Contexts
<1>4. call \in Calls /\ call.op = "none" /\ call.capacity = 0
  BY Places DEF EncoderInit, NoCall, Calls
<1>5. EncoderTypeOK
  BY <1>3, <1>4 DEF EncoderInit, EncoderTypeOK, NoHistory, Histories, NULL
<1>6. CallsInPlace
  BY <1>1, <1>3, <1>4 DEF EncoderInit, CallsInPlace, Taking
<1>7. TmpInFits
  BY <1>3 DEF TmpInFits
<1>8. UnusedKept
  <2>1. \A a \in 0 .. PASSING - 1 : a \in Addresses /\ ~(a >= DICT)
    BY Places DEF DICT, STAYING, EncoderSizes
  <2>2. \A a \in Addresses : m[a] = IF a >= DICT THEN a - DICTEND + 1 ELSE Unknown
    BY DEF EncoderInit
  <2> QED
    BY <1>3, <2>1, <2>2 DEF UnusedKept
<1>9. BytesCounted
  BY <1>3 DEF EncoderInit, BytesCounted
<1>10. EncoderRoom
  BY <1>4 DEF EncoderInit, EncoderRoom
<1>11. EndsWell
  BY DEF EncoderInit, EndsWell
<1>12. FirstFrame
  BY <1>3 DEF EncoderInit, FirstFrame
<1> QED
  BY <1>5, <1>6, <1>7, <1>8, <1>9, <1>10, <1>11, <1>12 DEF EncoderInv

LEMMA EncoderStep ==
  ASSUME EncoderSizes, EncoderInv, FirstFrame, [EncoderNext \/ AllWritten]_encoderVars
  PROVE  EncoderInv' /\ FirstFrame'
PROOF
<1>1. CASE LZ4F_compressFrame
  BY <1>1, CompressFrameInv
<1>2. CASE EncoderNext /\ ~LZ4F_compressFrame
  <2>1. EncoderInv'
    <3>1. CASE LZ4F_flush
      BY <3>1, FlushOrEndInv DEF LZ4F_flush
    <3>2. CASE LZ4F_compressEnd
      BY <3>2, FlushOrEndInv DEF LZ4F_compressEnd
    <3> QED
      BY <1>2, <3>1, <3>2, CompressBeginInv, CompressUpdateInv, NewPieceInv, FillTmpInInv,
         TmpBlockInv, SrcBlockInv, PreserveDictionaryInv, TmpInWithinLimitsInv, KeepRestInv,
         ReturnInv, FlushBlockInv, FlushedInv, EndFrameInv DEF EncoderNext
  <2> QED
    BY <1>2, <2>1, FirstFrameStays
<1>3. CASE UNCHANGED encoderVars
  <2>1. /\ e' = e /\ lz' = lz /\ m' = m /\ call' = call /\ given' = given /\ done' = done
        /\ written' = written /\ at' = at /\ frames' = frames /\ outcome' = outcome
    BY <1>3 DEF encoderVars
  <2>2. EncoderTypeOK' /\ CallsInPlace' /\ FirstFrame' /\ EndsWell'
    BY <2>1 DEF EncoderInv, EncoderTypeOK, CallsInPlace, FirstFrame, EndsWell, Taking
  <2>3. TmpInFits' /\ UnusedKept' /\ BytesCounted'
    <3>1. blockSize' = blockSize
      BY <2>1 DEF blockSize
    <3>2. TmpInFits'
      BY <2>1, <3>1 DEF EncoderInv, TmpInFits
    <3>3. UnusedKept'
      BY <2>1 DEF EncoderInv, UnusedKept
    <3>4. BytesCounted'
      BY <2>1, <3>1 DEF EncoderInv, BytesCounted, Taking
    <3> QED
      BY <3>2, <3>3, <3>4
  <2>4. EncoderRoom'
    <3>1. blockSize' = blockSize
      BY <2>1 DEF blockSize
    <3> QED
      BY <2>1, <3>1 DEF EncoderInv, EncoderRoom
  <2> QED
    BY <2>2, <2>3, <2>4 DEF EncoderInv
<1> QED
  BY <1>1, <1>2, <1>3 DEF AllWritten

THEOREM EncoderInvariant ==
  ASSUME EncoderSizes
  PROVE  EncoderSpec => [](EncoderInv /\ FirstFrame)
PROOF
<1>1. EncoderInit => EncoderInv /\ FirstFrame
  BY EncoderInitInv
<1>2. EncoderInv /\ FirstFrame /\ [EncoderNext \/ AllWritten]_encoderVars
        => (EncoderInv /\ FirstFrame)'
  BY EncoderStep
<1> QED
  BY <1>1, <1>2, PTL DEF EncoderSpec

(* "dstCapacity MUST be large enough": with LZ4F_compressBound no call of  *)
(* the encoder's functions is refused, and none writes more.               *)
THEOREM NoCallRefused ==
  ASSUME EncoderSizes
  PROVE  EncoderSpec => []CapacitySuffices
PROOF
<1>1. ASSUME EncoderInv PROVE CapacitySuffices
  <2>1. EncoderTypeOK /\ e.prefs \in Preferences /\ e.tmpInSize \in Nat /\ call.n \in Nat
        /\ written \in Nat /\ call.capacity \in Nat /\ blockSize \in Nat
        /\ Framing(e.prefs) \in Nat /\ Ending(e.prefs) \in Nat
    BY <1>1, SizesNow DEF EncoderInv, EncoderTypeOK
  <2>2. /\ LZ4F_compressBound_internal(call.n, e.prefs, e.tmpInSize) \in Nat
        /\ \A n \in Nat : AllLeft(e.prefs, n) \in Nat
    BY <2>1, BoundIsNat, AllLeftFacts
  <2>3. e.tmpInSize + call.n \in Nat /\ call.n + blockSize \in Nat
    BY <2>1
  <2>4. PICK left \in Nat : written + left <= call.capacity
    <3>1. CASE at = "piece"
      BY <1>1, <2>2, <3>1 DEF EncoderInv, EncoderRoom
    <3>2. CASE at \in { "complete", "tmpBlock", "blocks" }
      BY <1>1, <2>1, <2>2, <2>3, <3>2 DEF EncoderInv, EncoderRoom
    <3>3. CASE at \in { "preserve", "limits", "rest", "flushed", "end" }
      BY <1>1, <2>1, <3>3 DEF EncoderInv, EncoderRoom
    <3>4. CASE at = "flush"
      <4> DEFINE rest == (IF e.tmpInSize = 0 THEN 0 ELSE Framing(e.prefs) + e.tmpInSize) + Ending(e.prefs)
      <4>1. rest \in Nat
        BY <2>1
      <4>2. written + rest <= call.capacity
        BY <1>1, <2>1, <3>4 DEF EncoderInv, EncoderRoom
      <4> QED
        BY <4>1, <4>2
    <3>5. CASE at \in { "idle", "return" }
      <4>1. written + 0 <= call.capacity
        BY <1>1, <2>1, <3>5 DEF EncoderInv, EncoderRoom
      <4> QED
        BY <4>1
    <3> QED
      BY <2>1, <3>1, <3>2, <3>3, <3>4, <3>5 DEF EncoderTypeOK
  <2>5. at # "error"
    BY <2>1 DEF EncoderTypeOK
  <2> QED
    BY <2>1, <2>4, <2>5 DEF CapacitySuffices
<1> QED
  BY <1>1, EncoderInvariant, PTL

(* Nothing is written behind what was allocated of tmpBuff, and between    *)
(* calls what waits in tmpIn is shorter than a block that fits behind it.  *)
THEOREM TmpInInsideTmpBuff ==
  ASSUME EncoderSizes
  PROVE  EncoderSpec => []InsideTmpBuff
PROOF
<1>1. ASSUME EncoderInv PROVE InsideTmpBuff
  <2>1. \A a \in Addresses : a \in TMPBUFF + e.allocated .. PASSING - 1 => m[a] = Unknown
    <3>1. TMPBUFF + e.allocated = e.allocated
      BY <1>1, SizesNow DEF EncoderInv, TMPBUFF
    <3> QED
      BY <1>1, <3>1 DEF EncoderInv, UnusedKept
  <2>2. ASSUME e.cStage = 1, ~e.prefs.autoFlush, at \in { "idle", "rest" }
        PROVE  e.tmpIn + blockSize <= TMPBUFF + e.allocated /\ e.tmpInSize < blockSize
    <3>1. e.tmpIn + blockSize <= e.maxBufferSize /\ e.tmpInSize < blockSize
      BY <1>1, <2>2 DEF EncoderInv, TmpInFits
    <3>2. e.maxBufferSize <= e.allocated
      BY <1>1, <2>2 DEF EncoderInv, TmpInFits, CallsInPlace
    <3>3. blockSize \in Nat /\ e.tmpIn \in Nat /\ e.maxBufferSize \in Nat /\ e.allocated \in Nat
      BY <1>1, SizesNow DEF EncoderInv
    <3> QED
      BY <3>1, <3>2, <3>3, Places
  <2> QED
    BY <2>1, <2>2 DEF InsideTmpBuff
<1> QED
  BY <1>1, EncoderInvariant, PTL

(* A frame ends well when all of its text is in blocks, and its declared   *)
(* size, if any, is right.                                                 *)
THEOREM FramesEndWell ==
  ASSUME EncoderSizes
  PROVE  EncoderSpec => []EndsWell
PROOF
<1>1. EncoderInv => EndsWell
  BY DEF EncoderInv
<1> QED
  BY <1>1, EncoderInvariant, PTL


-----------------------------------------------------------------------------
(* The last n bytes of the text of frame f, or of the dictionary in front  *)
(* of it, up to the one numbered last; memory that holds them.             *)
Byte(f, k) == IF k <= 0 THEN k ELSE 100 * f + k

TextUpTo(f, n, last) == [k \in 1 .. n |-> Byte(f, last - n + k)]

Holds(mem, f, from, n, last) == \A k \in 1 .. n : mem[from + k - 1] = Byte(f, last - n + k)

LEMMA TextFacts ==
  ASSUME NEW f \in Nat, NEW n \in Nat, NEW last \in Int
  PROVE  /\ TextUpTo(f, n, last) \in Seq(Int) /\ Len(TextUpTo(f, n, last)) = n
         /\ \A k \in 1 .. n : TextUpTo(f, n, last)[k] = Byte(f, last - n + k)
         /\ n = 0 => TextUpTo(f, n, last) = << >>
PROOF
<1>1. \A k \in 1 .. n : Byte(f, last - n + k) \in Int
  BY DEF Byte
<1>2. TextUpTo(f, n, last) = [k \in 1 .. n |-> Byte(f, last - n + k)]
  BY DEF TextUpTo
<1>3. TextUpTo(f, n, last) \in Seq(Int) /\ Len(TextUpTo(f, n, last)) = n
  BY <1>1, <1>2
<1>4. n = 0 => TextUpTo(f, n, last) = << >>
  BY <1>3
<1> QED
  BY <1>2, <1>3, <1>4

Joins(f, a, mid, b, last, both) ==
  TextUpTo(f, a, mid) \o TextUpTo(f, b, last) = TextUpTo(f, both, last)

LEMMA TextJoins ==
  ASSUME NEW f \in Nat, NEW a \in Nat, NEW b \in Nat, NEW last \in Int,
         NEW mid, mid = last - b, NEW both, both = a + b
  PROVE  Joins(f, a, mid, b, last, both)
PROOF
<1> DEFINE s == TextUpTo(f, a, last - b)
           t == TextUpTo(f, b, last)
           u == TextUpTo(f, a + b, last)
<1>1. /\ s \in Seq(Int) /\ Len(s) = a
      /\ \A k \in 1 .. a : s[k] = Byte(f, (last - b) - a + k)
  BY TextFacts
<1>2. /\ t \in Seq(Int) /\ Len(t) = b
      /\ \A k \in 1 .. b : t[k] = Byte(f, last - b + k)
  BY TextFacts
<1>3. /\ u \in Seq(Int) /\ Len(u) = a + b
      /\ \A k \in 1 .. a + b : u[k] = Byte(f, last - (a + b) + k)
  <2>1. a + b \in Nat
    OBVIOUS
  <2> HIDE DEF u
  <2> QED
    BY <2>1, TextFacts DEF u
<1> HIDE DEF s, t, u
<1>4. /\ s \o t \in Seq(Int) /\ Len(s \o t) = Len(s) + Len(t)
      /\ \A i \in 1 .. Len(s) + Len(t) : (s \o t)[i] = IF i <= Len(s) THEN s[i] ELSE t[i - Len(s)]
  BY <1>1, <1>2, ConcatProperties
<1>5. ASSUME NEW k \in 1 .. a + b PROVE (s \o t)[k] = u[k]
  <2>1. CASE k <= a
    <3>1. k \in 1 .. a /\ (last - b) - a + k = last - (a + b) + k
      BY <2>1
    <3>2. (s \o t)[k] = s[k]
      BY <1>1, <1>2, <1>4, <2>1
    <3> QED
      BY <1>1, <1>3, <3>1, <3>2
  <2>2. CASE k > a
    <3> DEFINE i == k - a
    <3>1. i \in 1 .. b /\ last - b + i = last - (a + b) + k
      BY <2>2
    <3>2. (s \o t)[k] = t[i]
      BY <1>1, <1>2, <1>4, <2>2
    <3> HIDE DEF i
    <3>3. t[i] = Byte(f, last - b + i) /\ u[k] = Byte(f, last - (a + b) + k)
      BY <1>2, <1>3, <3>1
    <3> QED
      BY <3>1, <3>2, <3>3
  <2>3. k <= a \/ k > a
    OBVIOUS
  <2> QED
    BY <2>1, <2>2, <2>3, Zenon
<1>6. s \o t = u
  BY <1>1, <1>2, <1>3, <1>4, <1>5, SeqEqual
<1> QED
  BY <1>6, Zenon DEF s, t, u, Joins

LEMMA NothingHeld ==
  ASSUME NEW mem, NEW f, NEW from, NEW last
  PROVE  Holds(mem, f, from, 0, last)
BY DEF Holds

LEMMA SuffixHeld ==
  ASSUME NEW mem, NEW f, NEW from \in Int, NEW n \in Nat, NEW last \in Int, NEW k \in 0 .. n,
         Holds(mem, f, from, n, last)
  PROVE  Holds(mem, f, from + n - k, k, last)
PROOF
<1> SUFFICES ASSUME NEW j \in 1 .. k
             PROVE  mem[(from + n - k) + j - 1] = Byte(f, last - k + j)
  BY DEF Holds
<1> DEFINE i == n - k + j
<1>1. i \in 1 .. n /\ from + i - 1 = (from + n - k) + j - 1 /\ last - n + i = last - k + j
  OBVIOUS
<1> HIDE DEF i
<1> QED
  BY <1>1 DEF Holds

LEMMA PrefixHeld ==
  ASSUME NEW mem, NEW f, NEW from \in Int, NEW n \in Nat, NEW last \in Int, NEW k \in 0 .. n,
         Holds(mem, f, from, n, last)
  PROVE  Holds(mem, f, from, k, (last - n) + k)
PROOF
<1> SUFFICES ASSUME NEW j \in 1 .. k
             PROVE  mem[from + j - 1] = Byte(f, ((last - n) + k) - k + j)
  BY DEF Holds
<1>1. j \in 1 .. n /\ last - n + j = ((last - n) + k) - k + j
  OBVIOUS
<1> QED
  BY <1>1 DEF Holds

LEMMA MoreHeld ==
  ASSUME NEW mem, NEW f, NEW from \in Int, NEW n \in Nat, NEW more \in Nat, NEW last \in Int,
         Holds(mem, f, from, n, last), Holds(mem, f, from + n, more, last + more)
  PROVE  Holds(mem, f, from, n + more, last + more)
PROOF
<1> SUFFICES ASSUME NEW j \in 1 .. n + more
             PROVE  mem[from + j - 1] = Byte(f, (last + more) - (n + more) + j)
  BY DEF Holds
<1>1. CASE j <= n
  <2>1. j \in 1 .. n /\ last - n + j = (last + more) - (n + more) + j
    BY <1>1
  <2> QED
    BY <2>1 DEF Holds
<1>2. CASE j > n
  <2> DEFINE i == j - n
  <2>1. i \in 1 .. more /\ (from + n) + i - 1 = from + j - 1
        /\ (last + more) - more + i = (last + more) - (n + more) + j
    BY <1>2
  <2> HIDE DEF i
  <2> QED
    BY <2>1 DEF Holds
<1> QED
  BY <1>1, <1>2

LEMMA SegmentIsText ==
  ASSUME NEW f \in Nat, NEW from \in Int, NEW n \in Nat, NEW last \in Int,
         Holds(m, f, from, n, last)
  PROVE  Segment(from, n) = TextUpTo(f, n, last)
BY DEF Segment, TextUpTo, Holds

(* Writing elsewhere, and writing text.                                    *)
LEMMA HeldElsewhere ==
  ASSUME NEW f, NEW from \in Int, NEW n \in Nat, NEW last \in Int,
         n = 0 \/ (0 <= from /\ from + n <= DICTEND + 1),
         NEW to \in Int, NEW s, Len(s) \in Nat, from + n <= to \/ to + Len(s) <= from,
         DICTEND \in Int, Holds(m, f, from, n, last)
  PROVE  Holds(Written(to, s), f, from, n, last)
PROOF
<1> SUFFICES ASSUME NEW k \in 1 .. n
             PROVE  Written(to, s)[from + k - 1] = Byte(f, last - n + k)
  BY DEF Holds
<1> DEFINE a == from + k - 1
<1>1. a \in Addresses /\ (a < to \/ to + Len(s) <= a)
  BY DEF Addresses
<1>2. m[a] = Byte(f, last - n + k)
  BY DEF Holds
<1> HIDE DEF a
<1>3. Written(to, s)[a] = m[a]
  BY <1>1, WrittenElsewhere
<1> QED
  BY <1>2, <1>3 DEF a

LEMMA HeldWhenWritten ==
  ASSUME NEW f \in Nat, NEW n \in Nat, NEW last \in Int, NEW to \in Nat, to + n <= DICTEND + 1,
         DICTEND \in Int
  PROVE  Holds(Written(to, TextUpTo(f, n, last)), f, to, n, last)
PROOF
<1> DEFINE s == TextUpTo(f, n, last)
<1> SUFFICES ASSUME NEW k \in 1 .. n
             PROVE  Written(to, s)[to + k - 1] = Byte(f, last - n + k)
  BY DEF Holds
<1> DEFINE a == to + k - 1
<1>1. Len(s) = n /\ s[k] = Byte(f, last - n + k) /\ n > 0
  BY TextFacts
<1> HIDE DEF s
<1>2. s # << >>
  BY <1>1
<1>3. a \in Addresses /\ a - to \in 0 .. Len(s) - 1 /\ a - to + 1 = k
  BY <1>1 DEF Addresses
<1> HIDE DEF a
<1>4. Written(to, s)[a] = IF a - to \in 0 .. Len(s) - 1 THEN s[a - to + 1] ELSE m[a]
  BY <1>2, <1>3 DEF Written
<1> QED
  BY <1>1, <1>3, <1>4 DEF a

-----------------------------------------------------------------------------
(* What both compressors make of a history z for a block of n bytes at src, *)
(* after d bytes of the text: the history of the block is text up to d, and*)
(* what they keep is text up to the block's end.  It lies where the block  *)
(* lies, or goes on from where it was.                                     *)
Within(from, n, low, high) == low <= from /\ from + n <= high

Follows(z, y, history, src, n, d, f) ==
  /\ y \in Histories
  /\ \E past \in Nat : history = TextUpTo(f, past, d)
  /\ End(y) = src + n /\ y.size >= n
  /\ y.from = src \/ (End(z) = src /\ z.from <= y.from)
  /\ Holds(m, f, src, n, d + n) => Holds(m, f, y.from, y.size, d + n)
  /\ Holds(m, f, y.extFrom, y.extSize, (d + n) - y.size)
  /\ y.attached => y.extSize = 0 /\ y.size = d + n
  /\ ~e.prefs.hc => y.extSize = 0 /\ ~y.attached
  /\ \/ y.extSize = 0
     \/ End(z) = src /\ z.extSize > 0 /\ Within(y.extFrom, y.extSize, z.extFrom, z.extFrom + z.extSize)
     \/ End(z) # src /\ z.size > 0 /\ Within(y.extFrom, y.extSize, z.from, End(z))
     \/ Within(y.extFrom, y.extSize, DICT, DICTEND)

(* Histories, field by field.                                              *)
IsHistory(y, from, size, extFrom, extSize, attached) ==
  /\ y \in Histories /\ y.from = from /\ y.size = size
  /\ y.extFrom = extFrom /\ y.extSize = extSize /\ y.attached = attached

LEMMA HistoryFields ==
  ASSUME NEW z \in Histories
  PROVE  /\ z.from \in Int /\ z.size \in Nat /\ z.extFrom \in Int /\ z.extSize \in Nat
         /\ z.attached \in BOOLEAN
         /\ IsHistory(z, z.from, z.size, z.extFrom, z.extSize, z.attached)
BY DEF Histories, IsHistory

LEMMA HistoryChanges ==
  ASSUME NEW z \in Histories, NEW from \in Int, NEW size \in Nat, NEW y
  PROVE  /\ y = [z EXCEPT !.from = from, !.size = size] =>
              IsHistory(y, from, size, z.extFrom, z.extSize, z.attached)
         /\ y = [z EXCEPT !.size = size] =>
              IsHistory(y, z.from, size, z.extFrom, z.extSize, z.attached)
         /\ y = [z EXCEPT !.from = from] =>
              IsHistory(y, from, z.size, z.extFrom, z.extSize, z.attached)
         /\ y = [z EXCEPT !.extFrom = from, !.extSize = size] =>
              IsHistory(y, z.from, z.size, from, size, z.attached)
         /\ y = [z EXCEPT !.extFrom = from, !.extSize = size, !.attached = FALSE] =>
              IsHistory(y, z.from, z.size, from, size, FALSE)
         /\ y = [z EXCEPT !.attached = FALSE] =>
              IsHistory(y, z.from, z.size, z.extFrom, z.extSize, FALSE)
BY DEF Histories, IsHistory

LEMMA FastSegment ==
  ASSUME EncoderSizes, NEW z \in Histories, NEW src \in Nat, NEW n \in Nat \ {0}
  PROVE  LET s == WithoutOverwritten(WithoutTiny(z, src), src, n)
         IN  /\ s \in Histories /\ s.extSize = z.extSize /\ s.attached = z.attached
             /\ \/ End(s) = End(z) /\ z.from <= s.from /\ s.size <= z.size
                \/ End(z) # src /\ s.from = src /\ s.size = 0 /\ z.size > 0
PROOF
<1> DEFINE y == WithoutTiny(z, src)
           left == Smaller(End(y) - (src + n), KB64)
           size == IF left < Tiny THEN 0 ELSE left
           from == End(y) - size
           s == WithoutOverwritten(y, src, n)
           zero == 0
<1>1. KB64 \in Nat /\ Tiny \in Nat /\ zero \in Nat /\ src \in Int /\ n \in Nat /\ n > 0
  BY DEF EncoderSizes
<1>2. /\ z.from \in Int /\ z.size \in Nat
      /\ \A x \in Histories : x.from \in Int /\ x.size \in Nat
  BY HistoryFields, <1>1
<1>3. y = IF z.size \in 1 .. Tiny - 1 /\ End(z) # src THEN [z EXCEPT !.from = src, !.size = zero] ELSE z
  BY DEF WithoutTiny
<1> HIDE DEF y, zero
<1>4. /\ y \in Histories /\ y.extSize = z.extSize /\ y.attached = z.attached
      /\ \/ y = z
         \/ End(z) # src /\ y.from = src /\ y.size = 0 /\ z.size > 0
  <2>1. CASE y = z
    BY <2>1
  <2>2. CASE z.size > 0 /\ End(z) # src /\ y = [z EXCEPT !.from = src, !.size = zero]
    <3>1. IsHistory(y, src, zero, z.extFrom, z.extSize, z.attached)
      BY <1>1, <2>2, HistoryChanges
    <3> QED
      BY <2>2, <3>1 DEF IsHistory, zero
  <2> QED
    BY <1>1, <1>2, <1>3, <2>1, <2>2
<1>5. s = IF src + n > y.from /\ src + n < End(y) THEN [y EXCEPT !.from = from, !.size = size] ELSE y
  BY DEF WithoutOverwritten
<1>6. y.from \in Int /\ y.size \in Nat
  BY <1>2, <1>4
<1>7. ASSUME src + n > y.from, src + n < End(y)
      PROVE  /\ s \in Histories /\ s.extSize = z.extSize /\ s.attached = z.attached
             /\ End(s) = End(y) /\ y.from <= s.from /\ s.size <= y.size /\ y.size > 0
  <2>1. left \in Nat /\ left <= End(y) - (src + n)
    BY <1>1, <1>6, <1>7 DEF Smaller, End
  <2> HIDE DEF left
  <2>2. size \in Nat /\ size <= End(y) - (src + n)
    BY <1>1, <1>6, <1>7, <2>1 DEF End
  <2> HIDE DEF size
  <2>3. from \in Int /\ from + size = End(y) /\ y.from <= from /\ size <= y.size /\ y.size > 0
    BY <1>1, <1>6, <1>7, <2>2 DEF End
  <2> HIDE DEF from, s
  <2>4. s = [y EXCEPT !.from = from, !.size = size]
    BY <1>5, <1>7
  <2>5. s \in Histories /\ s.from = from /\ s.size = size /\ s.extSize = y.extSize /\ s.attached = y.attached
    <3>1. IsHistory(s, from, size, y.extFrom, y.extSize, y.attached)
      BY <1>4, <2>2, <2>3, <2>4, HistoryChanges
    <3> QED
      BY <3>1 DEF IsHistory
  <2> QED
    BY <1>4, <2>3, <2>5 DEF End
<1> HIDE DEF left, size, from, s
<1>8. CASE src + n > y.from /\ src + n < End(y)
  <2>1. y = z
    BY <1>4, <1>7, <1>8
  <2> QED
    BY <1>7, <1>8, <2>1 DEF s, y
<1>9. CASE ~(src + n > y.from /\ src + n < End(y))
  <2>1. s = y
    BY <1>5, <1>9
  <2> QED
    BY <1>2, <1>4, <2>1 DEF s, y
<1> QED
  BY <1>8, <1>9

LEMMA FastFollows ==
  ASSUME EncoderSizes, NEW z \in Histories, NEW src \in Nat, NEW n \in Nat \ {0},
         NEW d \in Nat, NEW f \in Nat, e.cdict \in Nat,
         z.extSize = 0, z.attached => z.size = 0 /\ d = 0 /\ z.from = NULL,
         Holds(m, f, z.from, z.size, d), Holds(m, f, DICTEND - e.cdict, e.cdict, 0)
  PROVE  LET r == LZ4_compress_fast_continue(z, src, n)
         IN  Follows(z, r.lz, r.history, src, n, d, f)
PROOF
<1> DEFINE s == WithoutOverwritten(WithoutTiny(z, src), src, n)
           r == LZ4_compress_fast_continue(z, src, n)
           more == s.size + n
           new == [NoHistory EXCEPT !.from = src, !.size = n]
<1>1. r = IF End(s) = src
          THEN [lz |-> [s EXCEPT !.size = more], history |-> Segment(s.from, s.size)]
          ELSE [lz |-> new, history |-> IF s.attached THEN Dictionary ELSE Segment(s.from, s.size)]
  BY DEF LZ4_compress_fast_continue
<1>2. /\ s \in Histories /\ s.extSize = 0 /\ s.attached = z.attached
      /\ \/ End(s) = End(z) /\ z.from <= s.from /\ s.size <= z.size
         \/ End(z) # src /\ s.from = src /\ s.size = 0 /\ z.size > 0
  BY FastSegment
<1> HIDE DEF s, r, new
<1>3. /\ z.from \in Int /\ z.size \in Nat
      /\ s.from \in Int /\ s.size \in Nat /\ s.extFrom \in Int
      /\ src \in Int /\ n \in Nat /\ n > 0 /\ d + n \in Int /\ d \in Int
  BY <1>2, HistoryFields
<1>4. Holds(m, f, s.from, s.size, d)
  <2>1. CASE s.size = 0
    BY <2>1, NothingHeld
  <2>2. CASE End(s) = End(z) /\ s.size <= z.size
    <3>1. s.size \in 0 .. z.size /\ z.from + z.size - s.size = s.from
      BY <1>3, <2>2 DEF End
    <3>2. Holds(m, f, z.from + z.size - s.size, s.size, d)
      BY <1>3, <3>1, SuffixHeld
    <3> QED
      BY <3>1, <3>2
  <2> QED
    BY <1>2, <2>1, <2>2
<1>5. Segment(s.from, s.size) = TextUpTo(f, s.size, d)
  BY <1>3, <1>4, SegmentIsText
<1>6. s.attached => Dictionary = TextUpTo(f, e.cdict, d)
  <2>1. DICTEND - e.cdict \in Int /\ 0 \in Int
    BY Places DEF DICTEND, DICT, EncoderSizes
  <2>2. Dictionary = TextUpTo(f, e.cdict, 0)
    BY <2>1, SegmentIsText DEF Dictionary
  <2> QED
    BY <1>2, <2>2
<1>7. CASE End(s) = src
  <2> DEFINE y == [s EXCEPT !.size = more]
  <2>1. r.lz = y /\ r.history = TextUpTo(f, s.size, d)
    BY <1>1, <1>5, <1>7
  <2>2. more \in Nat
    BY <1>3
  <2> HIDE DEF more, y
  <2>3. IsHistory(y, s.from, more, s.extFrom, s.extSize, s.attached)
    BY <1>2, <1>3, <2>2, HistoryChanges DEF y
  <2>4. y \in Histories /\ y.from = s.from /\ y.size = s.size + n /\ y.extSize = 0
        /\ y.attached = s.attached /\ y.extFrom = s.extFrom
    BY <1>2, <2>3 DEF IsHistory, more
  <2>5. \E past \in Nat : r.history = TextUpTo(f, past, d)
    BY <1>3, <2>1
  <2>6. End(y) = src + n /\ y.size >= n
    BY <1>3, <1>7, <2>4 DEF End
  <2>7. y.from = src \/ (End(z) = src /\ z.from <= y.from)
    BY <1>2, <1>7, <2>4
  <2>8. Holds(m, f, src, n, d + n) => Holds(m, f, y.from, y.size, d + n)
    <3>1. s.from + s.size = src
      BY <1>7 DEF End
    <3> QED
      BY <1>3, <1>4, <2>4, <3>1, MoreHeld
  <2>9. Holds(m, f, y.extFrom, y.extSize, (d + n) - y.size)
    BY <2>4, NothingHeld
  <2>10. ~y.attached
    BY <1>2, <1>3, <1>7, <2>4 DEF End, NULL
  <2> QED
    BY <2>1, <2>4, <2>5, <2>6, <2>7, <2>8, <2>9, <2>10 DEF Follows, r
<1>8. CASE End(s) # src
  <2>1. NoHistory \in Histories /\ NoHistory.extSize = 0 /\ ~NoHistory.attached
    BY DEF NoHistory, Histories, NULL
  <2>2. IsHistory(new, src, n, NoHistory.extFrom, NoHistory.extSize, NoHistory.attached)
    BY <1>3, <2>1, HistoryChanges DEF new
  <2>3. new \in Histories /\ new.from = src /\ new.size = n /\ new.extSize = 0 /\ ~new.attached
    BY <2>1, <2>2 DEF IsHistory
  <2>4. r.lz = new /\ r.history = IF s.attached THEN Dictionary ELSE Segment(s.from, s.size)
    BY <1>1, <1>8
  <2>5. \E past \in Nat : r.history = TextUpTo(f, past, d)
    BY <1>3, <1>5, <1>6, <2>4
  <2>6. End(new) = src + n /\ new.size >= n
    BY <1>3, <2>3 DEF End
  <2>7. Holds(m, f, new.extFrom, new.extSize, (d + n) - new.size)
    BY <2>3, NothingHeld
  <2> QED
    BY <2>3, <2>4, <2>5, <2>6, <2>7 DEF Follows, r
<1> QED
  BY <1>7, <1>8

(* LZ4HC: the segments a block goes on from.                               *)
LEMMA ExtCut ==
  ASSUME EncoderSizes, NEW s \in Histories, NEW src \in Nat, NEW n \in Nat
  PROVE  LET x == WithoutOverwrittenExt(s, src, n)
         IN  /\ x \in Histories /\ x.from = s.from /\ x.size = s.size /\ x.attached = s.attached
             /\ x.extSize <= s.extSize
             /\ x.extFrom = s.extFrom + s.extSize - x.extSize
PROOF
<1> DEFINE left == s.extFrom + s.extSize - Smaller(src + n, s.extFrom + s.extSize)
           size == IF left < Tiny THEN 0 ELSE left
           from == s.extFrom + s.extSize - size
           x == WithoutOverwrittenExt(s, src, n)
<1>1. Tiny \in Nat /\ s.extFrom \in Int /\ s.extSize \in Nat
      /\ IsHistory(s, s.from, s.size, s.extFrom, s.extSize, s.attached)
  BY HistoryFields DEF EncoderSizes
<1>2. x = IF Overlaps(src, n, s.extFrom, s.extSize)
          THEN [s EXCEPT !.extFrom = from, !.extSize = size] ELSE s
  BY DEF WithoutOverwrittenExt
<1> HIDE DEF x
<1>3. CASE Overlaps(src, n, s.extFrom, s.extSize)
  <2>1. src + n > s.extFrom
    BY <1>3 DEF Overlaps
  <2>2. left \in Nat /\ left <= s.extSize
    BY <1>1, <2>1 DEF Smaller
  <2> HIDE DEF left
  <2>3. size \in Nat /\ size <= s.extSize
    BY <1>1, <2>2
  <2> HIDE DEF size
  <2>4. from \in Int
    BY <1>1, <2>3
  <2> HIDE DEF from
  <2>5. IsHistory(x, s.from, s.size, from, size, s.attached)
    BY <1>2, <1>3, <2>3, <2>4, HistoryChanges
  <2> QED
    BY <2>3, <2>5 DEF IsHistory, from, x
<1>4. CASE ~Overlaps(src, n, s.extFrom, s.extSize)
  <2>1. x = s
    BY <1>2, <1>4
  <2> QED
    BY <1>1, <2>1 DEF x
<1> QED
  BY <1>3, <1>4

LEMMA HCPlaced ==
  ASSUME EncoderSizes, NEW z \in Histories, NEW src \in Nat, NEW n \in Nat,
         NEW d \in Nat, NEW f \in Nat,
         z.from = NULL => z.size = 0 /\ z.extSize = 0,
         z.attached => z.extSize = 0 /\ (z.size = d \/ z.size >= KB64),
         Holds(m, f, z.from, z.size, d),
         End(z) = src => Holds(m, f, z.extFrom, z.extSize, d - z.size)
  PROVE  LET begun == IF z.from = NULL THEN [z EXCEPT !.from = src] ELSE z
             s == IF End(begun) = src THEN begun ELSE LZ4HC_setExternalDict(begun, src)
             x == WithoutOverwrittenExt(s, src, n)
         IN  /\ x \in Histories /\ End(x) = src
             /\ (x.from = src /\ x.size = 0) \/ (End(z) = src /\ x.from = z.from /\ x.size = z.size)
             /\ Holds(m, f, x.from, x.size, d)
             /\ Holds(m, f, x.extFrom, x.extSize, d - x.size)
             /\ x.attached => x.extSize = 0 /\ (x.size = d \/ x.size >= KB64)
             /\ \/ x.extSize = 0
                \/ End(z) = src /\ z.extSize > 0
                     /\ Within(x.extFrom, x.extSize, z.extFrom, z.extFrom + z.extSize)
                \/ End(z) # src /\ z.size > 0 /\ Within(x.extFrom, x.extSize, z.from, End(z))
PROOF
<1> DEFINE begun == IF z.from = NULL THEN [z EXCEPT !.from = src] ELSE z
           s == IF End(begun) = src THEN begun ELSE LZ4HC_setExternalDict(begun, src)
           x == WithoutOverwrittenExt(s, src, n)
<1>1. /\ z.from \in Int /\ z.size \in Nat /\ z.extFrom \in Int /\ z.extSize \in Nat
      /\ src \in Int /\ NULL = -1
      /\ IsHistory(z, z.from, z.size, z.extFrom, z.extSize, z.attached)
  BY HistoryFields DEF NULL
<1>2. /\ s \in Histories /\ End(s) = src
      /\ (s.from = src /\ s.size = 0) \/ (End(z) = src /\ s.from = z.from /\ s.size = z.size)
      /\ Holds(m, f, s.from, s.size, d)
      /\ Holds(m, f, s.extFrom, s.extSize, d - s.size)
      /\ s.attached => s.extSize = 0 /\ (s.size = d \/ s.size >= KB64)
      /\ \/ s.extSize = 0
         \/ End(z) = src /\ s.extFrom = z.extFrom /\ s.extSize = z.extSize
         \/ End(z) # src /\ s.extFrom = z.from /\ s.extSize = z.size
  <2>1. CASE z.from = NULL
    <3>1. IsHistory(begun, src, z.size, z.extFrom, z.extSize, z.attached)
      BY <1>1, <2>1, HistoryChanges
    <3> HIDE DEF begun
    <3>2. s = begun /\ End(begun) = src
      BY <1>1, <2>1, <3>1 DEF End, IsHistory
    <3> HIDE DEF s
    <3> QED
      BY <2>1, <3>1, <3>2, NothingHeld DEF IsHistory
  <2>2. CASE z.from # NULL /\ End(z) = src
    <3>1. s = z
      BY <2>2
    <3> HIDE DEF s
    <3> QED
      BY <1>1, <2>2, <3>1
  <2>3. CASE z.from # NULL /\ End(z) # src
    <3>1. s = [from |-> src, size |-> 0, extFrom |-> z.from, extSize |-> z.size, attached |-> FALSE]
      BY <2>3 DEF LZ4HC_setExternalDict
    <3> HIDE DEF s
    <3>2. IsHistory(s, src, 0, z.from, z.size, FALSE)
      BY <1>1, <3>1 DEF Histories, IsHistory
    <3>3. End(s) = src /\ d - s.size = d
      BY <1>1, <3>2 DEF IsHistory, End
    <3> QED
      BY <2>3, <3>2, <3>3, NothingHeld DEF IsHistory
  <2> QED
    BY <2>1, <2>2, <2>3
<1> HIDE DEF s
<1>3. /\ x \in Histories /\ x.from = s.from /\ x.size = s.size /\ x.attached = s.attached
      /\ x.extSize <= s.extSize /\ x.extFrom = s.extFrom + s.extSize - x.extSize
  BY <1>2, ExtCut
<1> HIDE DEF x
<1>4. /\ x.extSize \in Nat /\ s.extSize \in Nat /\ s.extFrom \in Int /\ s.size \in Nat /\ x.extFrom \in Int
  BY <1>2, <1>3, HistoryFields
<1>5. Holds(m, f, x.extFrom, x.extSize, d - x.size)
  <2>1. x.extSize \in 0 .. s.extSize /\ d - s.size \in Int
    BY <1>3, <1>4
  <2> QED
    BY <1>2, <1>3, <1>4, <2>1, SuffixHeld
<1>6. x.extSize > 0 => s.extSize > 0 /\ Within(x.extFrom, x.extSize, s.extFrom, s.extFrom + s.extSize)
  BY <1>3, <1>4 DEF Within
<1>7. s.extSize = 0 => x.extSize = 0
  BY <1>3, <1>4
<1>8. \/ x.extSize = 0
      \/ End(z) = src /\ z.extSize > 0 /\ Within(x.extFrom, x.extSize, z.extFrom, z.extFrom + z.extSize)
      \/ End(z) # src /\ z.size > 0 /\ Within(x.extFrom, x.extSize, z.from, End(z))
  <2>1. CASE x.extSize = 0
    BY <2>1
  <2>2. CASE x.extSize # 0
    BY <1>2, <1>4, <1>6, <1>7, <2>2 DEF End
  <2> QED
    BY <2>1, <2>2
<1>9. End(x) = src
  BY <1>2, <1>3 DEF End
<1> QED
  BY <1>2, <1>3, <1>5, <1>7, <1>8, <1>9 DEF x, s

(* A history in front of the text d: its segment, its external one, and    *)
(* the dictionary in front of both.                                        *)
LEMMA HCHistory ==
  ASSUME EncoderSizes, NEW x \in Histories, NEW n \in Nat \ {0}, NEW d \in Nat, NEW f \in Nat,
         e.cdict \in Nat,
         Holds(m, f, x.from, x.size, d), Holds(m, f, x.extFrom, x.extSize, d - x.size),
         x.attached => x.extSize = 0 /\ (x.size = d \/ x.size >= KB64),
         Holds(m, f, DICTEND - e.cdict, e.cdict, 0)
  PROVE  LET r == LZ4HC_compress_generic(x, n)
         IN  /\ \E past \in Nat : r.history = TextUpTo(f, past, d)
             /\ r.lz \in Histories /\ r.lz.from = x.from /\ r.lz.size = x.size + n
             /\ r.lz.attached => r.lz.extSize = 0 /\ x.size = d
             /\ Holds(m, f, r.lz.extFrom, r.lz.extSize, d - x.size)
             /\ \/ r.lz.extFrom = x.extFrom /\ r.lz.extSize = x.extSize
                \/ r.lz.extFrom = DICTEND - e.cdict /\ r.lz.extSize = e.cdict
PROOF
<1> DEFINE position == x.size + x.extSize
           dict == DICTEND - e.cdict
           all == e.cdict
           s == IF ~x.attached \/ position >= KB64 THEN [x EXCEPT !.attached = FALSE]
                ELSE IF position = 0 /\ n > KB4
                THEN [x EXCEPT !.extFrom = dict, !.extSize = all, !.attached = FALSE]
                ELSE x
           more == s.size + n
           y == [s EXCEPT !.size = more]
           history == (IF s.attached THEN Dictionary ELSE << >>)
                      \o Segment(s.extFrom, s.extSize) \o Segment(s.from, s.size)
           r == LZ4HC_compress_generic(x, n)
<1>1. r = [lz |-> y, history |-> history]
  BY DEF LZ4HC_compress_generic
<1>2. /\ x.from \in Int /\ x.size \in Nat /\ x.extFrom \in Int /\ x.extSize \in Nat
      /\ x.attached \in BOOLEAN
      /\ IsHistory(x, x.from, x.size, x.extFrom, x.extSize, x.attached)
      /\ KB64 \in Nat \ {0} /\ KB4 \in Nat /\ dict \in Int /\ all \in Nat /\ d \in Int
  BY HistoryFields DEF EncoderSizes, DICTEND, DICT, STAYING, PASSING, TMPBUFF
<1>3. /\ s \in Histories /\ s.from = x.from /\ s.size = x.size
      /\ \/ s.extFrom = x.extFrom /\ s.extSize = x.extSize
            /\ (s.attached => s.extSize = 0 /\ s.size = d)
         \/ s.extFrom = dict /\ s.extSize = all /\ x.size = 0 /\ d = 0 /\ ~s.attached
  <2> HIDE DEF dict, all, s
  <2>1. CASE ~x.attached \/ position >= KB64
    <3>1. s = [x EXCEPT !.attached = FALSE]
      BY <2>1 DEF s
    <3>2. IsHistory(s, x.from, x.size, x.extFrom, x.extSize, FALSE)
      BY <1>2, <3>1, HistoryChanges
    <3> QED
      BY <3>2 DEF IsHistory
  <2>2. CASE x.attached /\ ~(position >= KB64) /\ position = 0 /\ n > KB4
    <3>1. s = [x EXCEPT !.extFrom = dict, !.extSize = all, !.attached = FALSE]
      BY <2>2 DEF s
    <3>2. IsHistory(s, x.from, x.size, dict, all, FALSE)
      BY <1>2, <3>1, HistoryChanges
    <3>3. x.size = 0 /\ d = 0
      BY <1>2, <2>2
    <3> QED
      BY <3>2, <3>3 DEF IsHistory
  <2>3. CASE x.attached /\ ~(position >= KB64) /\ ~(position = 0 /\ n > KB4)
    <3>1. s = x
      BY <2>3 DEF s
    <3>2. x.extSize = 0 /\ x.size = d
      BY <1>2, <2>3
    <3> QED
      BY <1>2, <3>1, <3>2 DEF IsHistory
  <2> QED
    BY <2>1, <2>2, <2>3
<1>4. Holds(m, f, s.from, s.size, d)
  <2> HIDE DEF s
  <2> QED
    BY <1>3
<1>5. Holds(m, f, s.extFrom, s.extSize, d - x.size)
  <2> HIDE DEF s
  <2>1. CASE s.extFrom = x.extFrom /\ s.extSize = x.extSize
    BY <2>1
  <2>2. CASE s.extFrom = dict /\ s.extSize = all /\ x.size = 0 /\ d = 0
    <3>1. d - x.size = 0
      BY <2>2
    <3> QED
      BY <2>2, <3>1
  <2> QED
    BY <1>3, <2>1, <2>2
<1> HIDE DEF s
<1>6. /\ s.extSize \in Nat /\ s.extFrom \in Int /\ d - s.size \in Int /\ d - x.size = d - s.size
      /\ s.size \in Nat /\ s.from \in Int /\ s.attached \in BOOLEAN /\ more \in Nat
  BY <1>2, <1>3, HistoryFields
<1>7. Segment(s.extFrom, s.extSize) \o Segment(s.from, s.size) = TextUpTo(f, s.extSize + s.size, d)
  <2>1. Segment(s.extFrom, s.extSize) = TextUpTo(f, s.extSize, d - s.size)
    BY <1>5, <1>6, SegmentIsText
  <2>2. Segment(s.from, s.size) = TextUpTo(f, s.size, d)
    BY <1>2, <1>4, <1>6, SegmentIsText
  <2>3. Joins(f, s.extSize, d - s.size, s.size, d, s.extSize + s.size)
    BY <1>2, <1>6, TextJoins
  <2> QED
    BY <2>1, <2>2, <2>3, Zenon DEF Joins
<1>8. \E past \in Nat : history = TextUpTo(f, past, d)
  <2>0. s.extSize + s.size \in Nat
    BY <1>6
  <2> DEFINE ext == Segment(s.extFrom, s.extSize)
             seg == Segment(s.from, s.size)
  <2>1. ext \in Seq(Int) /\ seg \in Seq(Int)
    <3>1. ext = TextUpTo(f, s.extSize, d - s.size) /\ seg = TextUpTo(f, s.size, d)
      BY <1>2, <1>4, <1>5, <1>6, SegmentIsText
    <3> HIDE DEF ext, seg
    <3> QED
      BY <1>2, <1>6, <3>1, TextFacts
  <2>2. CASE ~s.attached
    <3>1. history = << >> \o ext \o seg
      BY <2>2
    <3> HIDE DEF ext, seg
    <3>2. << >> \o ext = ext
      BY <2>1, ConcatEmptySeq
    <3>3. history = ext \o seg
      BY <3>1, <3>2
    <3> QED
      BY <1>7, <2>0, <3>3 DEF ext, seg
  <2>3. CASE s.attached
    <3>1. s.extSize = 0 /\ s.size = d
      BY <1>3, <2>3
    <3>2. history = Dictionary \o ext \o seg
      BY <2>3
    <3>3. Dictionary = TextUpTo(f, all, 0)
      <4>1. 0 \in Int
        OBVIOUS
      <4> QED
        BY <1>2, <4>1, SegmentIsText DEF Dictionary
    <3>4. ext = << >>
      BY <3>1 DEF Segment
    <3>5. seg = TextUpTo(f, d, d)
      BY <1>2, <1>4, <1>6, <3>1, SegmentIsText
    <3> HIDE DEF history, ext, seg, all
    <3>6. Dictionary \o << >> = Dictionary
      <4>1. 0 \in Int
        OBVIOUS
      <4>2. Dictionary \in Seq(Int)
        BY <1>2, <3>3, <4>1, TextFacts
      <4> QED
        BY <4>2, ConcatEmptySeq
    <3>7. history = TextUpTo(f, all, d - d) \o TextUpTo(f, d, d)
      <4>1. d - d = 0
        BY <1>2
      <4>2. history = Dictionary \o seg
        BY <3>2, <3>4, <3>6, Zenon
      <4>3. Dictionary = TextUpTo(f, all, d - d)
        BY <3>3, <4>1, Zenon
      <4> QED
        BY <3>5, <4>2, <4>3, Zenon
    <3>8. history = TextUpTo(f, all + d, d) /\ all + d \in Nat
      <4>1. Joins(f, all, d - d, d, d, all + d) /\ all + d \in Nat
        BY <1>2, TextJoins
      <4> QED
        BY <3>7, <4>1, Zenon DEF Joins
    <3> QED
      BY <3>8
  <2> QED
    BY <1>6, <2>2, <2>3
<1>9. IsHistory(y, x.from, more, s.extFrom, s.extSize, s.attached)
  <2> HIDE DEF more
  <2> QED
    BY <1>2, <1>3, <1>6, HistoryChanges
<1>10. y \in Histories /\ y.from = x.from /\ y.size = x.size + n /\ y.extFrom = s.extFrom
       /\ y.extSize = s.extSize /\ y.attached = s.attached
  BY <1>3, <1>9 DEF IsHistory
<1> HIDE DEF y, history, r
<1>11. r.lz = y /\ r.history = history
  BY <1>1
<1>12. y.attached => y.extSize = 0 /\ x.size = d
  BY <1>3, <1>10
<1> QED
  BY <1>3, <1>5, <1>8, <1>10, <1>11, <1>12 DEF r

LEMMA HCFollows ==
  ASSUME EncoderSizes, NEW z \in Histories, NEW src \in Nat, NEW n \in Nat \ {0},
         NEW d \in Nat, NEW f \in Nat, e.cdict \in Nat, e.cdict <= KB64, e.prefs.hc,
         z.from = NULL => z.size = 0 /\ z.extSize = 0,
         z.attached => z.extSize = 0 /\ (z.size = d \/ z.size >= KB64),
         Holds(m, f, z.from, z.size, d),
         End(z) = src => Holds(m, f, z.extFrom, z.extSize, d - z.size),
         Holds(m, f, DICTEND - e.cdict, e.cdict, 0)
  PROVE  LET r == LZ4_compressHC_continue(z, src, n)
         IN  Follows(z, r.lz, r.history, src, n, d, f)
PROOF
<1> DEFINE begun == IF z.from = NULL THEN [z EXCEPT !.from = src] ELSE z
           s == IF End(begun) = src THEN begun ELSE LZ4HC_setExternalDict(begun, src)
           x == WithoutOverwrittenExt(s, src, n)
           r == LZ4HC_compress_generic(x, n)
           y == r.lz
<1>1. LZ4_compressHC_continue(z, src, n) = r
  BY DEF LZ4_compressHC_continue
<1>2. n \in Nat
  OBVIOUS
<1>3. /\ x \in Histories /\ End(x) = src
      /\ (x.from = src /\ x.size = 0) \/ (End(z) = src /\ x.from = z.from /\ x.size = z.size)
      /\ Holds(m, f, x.from, x.size, d)
      /\ Holds(m, f, x.extFrom, x.extSize, d - x.size)
      /\ x.attached => x.extSize = 0 /\ (x.size = d \/ x.size >= KB64)
      /\ \/ x.extSize = 0
         \/ End(z) = src /\ z.extSize > 0
              /\ Within(x.extFrom, x.extSize, z.extFrom, z.extFrom + z.extSize)
         \/ End(z) # src /\ z.size > 0 /\ Within(x.extFrom, x.extSize, z.from, End(z))
  BY <1>2, HCPlaced
<1> HIDE DEF x
<1>4. /\ \E past \in Nat : r.history = TextUpTo(f, past, d)
      /\ y \in Histories /\ y.from = x.from /\ y.size = x.size + n
      /\ y.attached => y.extSize = 0 /\ x.size = d
      /\ Holds(m, f, y.extFrom, y.extSize, d - x.size)
      /\ \/ y.extFrom = x.extFrom /\ y.extSize = x.extSize
         \/ y.extFrom = DICTEND - e.cdict /\ y.extSize = e.cdict
  BY <1>3, HCHistory
<1> HIDE DEF r, y
<1>5. /\ x.from \in Int /\ x.size \in Nat /\ z.from \in Int /\ KB64 \in Nat
      /\ DICTEND \in Int /\ DICT \in Int /\ DICTEND = DICT + KB64
  BY <1>3, HistoryFields DEF EncoderSizes, DICTEND, DICT, STAYING, PASSING, TMPBUFF
<1>6. End(y) = src + n /\ y.size >= n
  <2>1. x.from + x.size = src /\ End(y) = y.from + y.size
    BY <1>3 DEF End
  <2>2. y.from = x.from /\ y.size = x.size + n
    BY <1>4
  <2>3. (x.from + (x.size + n)) = src + n /\ x.size + n >= n
    BY <1>2, <1>5, <2>1
  <2> QED
    BY <2>1, <2>2, <2>3
<1>7. y.from = src \/ (End(z) = src /\ z.from <= y.from)
  BY <1>3, <1>4, <1>5
<1>8. ASSUME Holds(m, f, src, n, d + n) PROVE Holds(m, f, y.from, y.size, d + n)
  <2>1. x.from + x.size = src /\ d \in Int
    BY <1>3 DEF End
  <2> QED
    BY <1>3, <1>4, <1>5, <1>8, <2>1, MoreHeld
<1>9. Holds(m, f, y.extFrom, y.extSize, (d + n) - y.size)
  <2>1. (d + n) - y.size = d - x.size
    BY <1>4, <1>5
  <2> QED
    BY <1>4, <2>1
<1>10. y.attached => y.extSize = 0 /\ y.size = d + n
  BY <1>4
<1>11. \/ y.extSize = 0
       \/ End(z) = src /\ z.extSize > 0 /\ Within(y.extFrom, y.extSize, z.extFrom, z.extFrom + z.extSize)
       \/ End(z) # src /\ z.size > 0 /\ Within(y.extFrom, y.extSize, z.from, End(z))
       \/ Within(y.extFrom, y.extSize, DICT, DICTEND)
  <2>1. CASE y.extFrom = x.extFrom /\ y.extSize = x.extSize
    BY <1>3, <2>1
  <2>2. CASE y.extFrom = DICTEND - e.cdict /\ y.extSize = e.cdict
    <3>1. DICT <= DICTEND - e.cdict /\ (DICTEND - e.cdict) + e.cdict <= DICTEND
      BY <1>5
    <3> QED
      BY <2>2, <3>1 DEF Within
  <2> QED
    BY <1>4, <2>1, <2>2
<1> QED
  BY <1>1, <1>4, <1>6, <1>7, <1>8, <1>9, <1>10, <1>11 DEF Follows, y

(* A history that a compressor may go on from.                             *)
GoesOn(z, src, d, f) ==
  /\ z.from = NULL => z.size = 0 /\ z.extSize = 0
  /\ z.attached => z.extSize = 0 /\ (z.size = d \/ z.size >= KB64)
  /\ ~e.prefs.hc => z.extSize = 0 /\ (z.attached => z.size = 0 /\ z.from = NULL)
  /\ Holds(m, f, z.from, z.size, d)
  /\ End(z) = src => Holds(m, f, z.extFrom, z.extSize, d - z.size)

DictionaryKept == \A a \in DICT .. DICTEND : m[a] = a - DICTEND + 1

LEMMA DictionaryHeld ==
  ASSUME EncoderSizes, DictionaryKept, NEW f \in Nat, NEW n \in Nat, n <= KB64
  PROVE  Holds(m, f, DICTEND - n, n, 0)
PROOF
<1> SUFFICES ASSUME NEW k \in 1 .. n
             PROVE  m[(DICTEND - n) + k - 1] = Byte(f, 0 - n + k)
  BY DEF Holds
<1>1. DICT \in Int /\ DICTEND = DICT + KB64 /\ KB64 \in Nat
  BY DEF EncoderSizes, DICTEND, DICT, STAYING, PASSING, TMPBUFF
<1> DEFINE a == (DICTEND - n) + k - 1
<1>2. a \in DICT .. DICTEND /\ a - DICTEND + 1 = 0 - n + k /\ 0 - n + k <= 0
  BY <1>1
<1> HIDE DEF a
<1>3. m[a] = 0 - n + k
  BY <1>2 DEF DictionaryKept
<1>4. Byte(f, 0 - n + k) = 0 - n + k
  BY <1>2 DEF Byte
<1> QED
  BY <1>3, <1>4 DEF a

LEMMA ContinueFollows ==
  ASSUME EncoderSizes, e \in Contexts, DictionaryKept, e.cdict <= KB64,
         NEW z \in Histories, NEW src \in Nat, NEW n \in Nat \ {0},
         NEW d \in Nat, NEW f \in Nat, GoesOn(z, src, d, f)
  PROVE  LET r == Continue(z, src, n)
         IN  Follows(z, r.lz, r.history, src, n, d, f)
PROOF
<1>1. e.cdict \in Nat /\ KB64 \in Nat \ {0}
  BY DEF Contexts, EncoderSizes
<1>2. Holds(m, f, DICTEND - e.cdict, e.cdict, 0)
  BY <1>1, DictionaryHeld
<1>3. CASE e.prefs.hc
  <2>1. Continue(z, src, n) = LZ4_compressHC_continue(z, src, n)
    BY <1>3 DEF Continue
  <2> QED
    BY <1>1, <1>2, <1>3, <2>1, HCFollows DEF GoesOn
<1>4. CASE ~e.prefs.hc
  <2>1. Continue(z, src, n) = LZ4_compress_fast_continue(z, src, n)
    BY <1>4 DEF Continue
  <2>2. z.extSize = 0 /\ (z.attached => z.size = 0 /\ d = 0 /\ z.from = NULL)
    BY <1>1, <1>4 DEF GoesOn
  <2> QED
    BY <1>1, <1>2, <2>1, <2>2, FastFollows DEF GoesOn
<1> QED
  BY <1>3, <1>4

(* A new block is text, and its history the text in front of it.           *)
IsText(s, f, n, last) == Len(s) = n /\ \A k \in 1 .. n : s[k] = Byte(f, last - n + k)

LEMMA BlockOfText ==
  ASSUME NEW f \in Nat, NEW n \in Nat, NEW past \in Nat, NEW last \in Int, NEW start \in Int,
         NEW s, NEW t, IsText(s, f, n, last), IsText(t, f, past, start),
         frames' = f, done' = last, block'.text = s, block'.history = t,
         e'.prefs.linked => start = last - n, ~e'.prefs.linked => start = 0
  PROVE  BlocksFollow'
PROOF
<1>1. \A k \in 1 .. Len(block'.text) : block'.text[k] = Byte(f, done' - Len(block'.text) + k)
  BY DEF IsText
<1>2. \A k \in 1 .. Len(block'.history) : block'.history[k] = Byte(f, start - Len(block'.history) + k)
  BY DEF IsText
<1>3. (IF e'.prefs.linked THEN done' - Len(block'.text) ELSE 0) = start
  BY DEF IsText
<1>4. \A k \in 1 .. Len(block'.history) :
        block'.history[k] =
          Byte(f, (IF e'.prefs.linked THEN done' - Len(block'.text) ELSE 0) - Len(block'.history) + k)
  BY <1>2, <1>3
<1> QED
  BY <1>1, <1>4 DEF BlocksFollow, Right, Byte

LEMMA FreshGoesOn ==
  ASSUME EncoderSizes, NEW src \in Nat, NEW f \in Nat, NEW any \in BOOLEAN
  PROVE  LET z == [NoHistory EXCEPT !.attached = any]
         IN  z \in Histories /\ GoesOn(z, src, 0, f)
PROOF
<1> DEFINE z == [NoHistory EXCEPT !.attached = any]
<1>1. z = [from |-> NULL, size |-> 0, extFrom |-> NULL, extSize |-> 0, attached |-> any]
  BY DEF NoHistory
<1> HIDE DEF z
<1>2. /\ z \in Histories /\ z.from = NULL /\ z.size = 0 /\ z.extSize = 0
  BY <1>1 DEF Histories, NULL
<1> QED
  BY <1>2, NothingHeld DEF GoesOn, z

LEMMA BlockFollows ==
  ASSUME EncoderSizes, EncoderTypeOK, DictionaryKept, e.cdict <= KB64, frames \in Nat,
         NEW src \in Nat, NEW n \in Nat \ {0}, LZ4F_makeBlock(src, n),
         Holds(m, frames, src, n, done + n),
         e.prefs.linked => GoesOn(lz, src, done, frames),
         frames' = frames, e'.prefs = e.prefs
  PROVE  /\ BlocksFollow'
         /\ e.prefs.linked => \E history : Follows(lz, lz', history, src, n, done, frames)
PROOF
<1> DEFINE r == Compress(src, n)
           start == IF e.prefs.linked THEN done ELSE 0
<1>1. /\ e \in Contexts /\ e.prefs \in Preferences /\ lz \in Histories /\ done \in Nat
      /\ n \in Nat /\ src \in Int /\ done + n \in Int /\ e.cdict \in Nat
  BY SizesNow DEF EncoderTypeOK, Contexts
<1>2. /\ block' = [text |-> Segment(src, n), history |-> r.history]
      /\ lz' = r.lz /\ done' = done + n
  BY DEF LZ4F_makeBlock
<1>3. Segment(src, n) = TextUpTo(frames, n, done + n)
  BY <1>1, SegmentIsText
<1>4. e.prefs.linked => Follows(lz, r.lz, r.history, src, n, done, frames)
  <2>1. e.prefs.linked => r = Continue(lz, src, n)
    BY DEF Compress
  <2> HIDE DEF r
  <2> QED
    BY <1>1, <2>1, ContinueFollows
<1>5. PICK past \in Nat : r.history = TextUpTo(frames, past, start)
  <2>1. CASE e.prefs.linked
    BY <1>4, <2>1 DEF Follows
  <2>2. CASE ~e.prefs.linked /\ e.cdict = 0
    <3>1. r.history = << >>
      BY <2>2 DEF Compress, OneShot
    <3>2. 0 \in Nat /\ 0 \in Int
      OBVIOUS
    <3>3. TextUpTo(frames, 0, 0) = << >>
      BY <3>2, TextFacts
    <3> QED
      BY <2>2, <3>1, <3>2, <3>3
  <2>3. CASE ~e.prefs.linked /\ e.cdict # 0
    <3> DEFINE positive == e.cdict > 0
               z == [NoHistory EXCEPT !.attached = positive]
               c == Continue(z, src, n)
    <3>1. r = c
      BY <1>1, <2>3 DEF Compress, LZ4F_initStream
    <3>2. positive \in BOOLEAN
      OBVIOUS
    <3> HIDE DEF positive
    <3>3. z \in Histories /\ GoesOn(z, src, 0, frames) /\ 0 \in Nat
      BY <3>2, FreshGoesOn
    <3> HIDE DEF z, r
    <3>4. Follows(z, c.lz, c.history, src, n, 0, frames)
      BY <1>1, <3>3, ContinueFollows
    <3> QED
      BY <2>3, <3>1, <3>4 DEF Follows
  <2> QED
    BY <2>1, <2>2, <2>3
<1> HIDE DEF r
<1>6. BlocksFollow'
  <2> DEFINE last == done + n
  <2>1. start \in Int /\ last \in Int
    BY <1>1
  <2>2. block'.text = TextUpTo(frames, n, last) /\ block'.history = TextUpTo(frames, past, start)
    BY <1>2, <1>3, <1>5
  <2>3. done' = last
    BY <1>2
  <2>4. (e'.prefs.linked => start = last - n) /\ (~e'.prefs.linked => start = 0)
    BY <1>1
  <2> HIDE DEF last, start
  <2>5. IsText(TextUpTo(frames, n, last), frames, n, last)
    BY <1>1, <2>1, TextFacts DEF IsText
  <2>6. IsText(TextUpTo(frames, past, start), frames, past, start)
    BY <1>1, <2>1, TextFacts DEF IsText
  <2> QED
    BY <1>1, <2>1, <2>2, <2>3, <2>4, <2>5, <2>6, BlockOfText
<1> QED
  BY <1>2, <1>4, <1>6

-----------------------------------------------------------------------------
(* Where in memory the text lies that later blocks are made of or refer to.*)
PlacesKept ==
  /\ frames \in Nat
  /\ e.cdict <= KB64 /\ e.allocated <= LargestTmpBuff
  /\ given <= MaxText
  /\ e.cStage = 1 => e.tmpIn <= e.allocated
  /\ at = "piece" =>
       /\ given + call.n <= MaxText
       /\ call.stable => call.src = STAYING + given
       /\ ~call.stable => call.src + call.n < STAYING
  /\ Taking =>
       /\ call.stable => call.src + call.n = STAYING + given
       /\ ~call.stable => PASSING <= call.src /\ call.src + call.n < STAYING

TextInPlace ==
  /\ DictionaryKept
  /\ Taking => Holds(m, frames, call.src, call.n, given)
  /\ e.cStage = 1 => Holds(m, frames, e.tmpIn, e.tmpInSize, done + e.tmpInSize)

(* Blocks of a piece end what was in tmpIn.                                *)
FromSrc == at \in { "blocks", "preserve" } /\ call.last = "fromSrcBuffer"

Outside(z) == z.extSize = 0 \/ STAYING <= z.extFrom

(* The history of a linked frame is empty, or ends where tmpIn begins, with*)
(* text that stays, or where the rest of the piece begins.                 *)
NoneYet(z)   == z.from = NULL /\ z.size = 0 /\ z.extSize = 0 /\ done = 0 /\ e.tmpIn = TMPBUFF
InTmpBuff(z) == z.size > 0 /\ ~FromSrc /\ TMPBUFF <= z.from /\ End(z) = e.tmpIn /\ Outside(z)
InText(z)    == /\ z.size > 0 /\ (FromSrc => call.stable) /\ (FromSrc \/ e.tmpIn = TMPBUFF)
                /\ STAYING <= z.from /\ End(z) = STAYING + done
InPiece(z)   == z.size > 0 /\ FromSrc /\ ~call.stable /\ PASSING <= z.from /\ End(z) = call.src

SegmentInPlace == NoneYet(lz) \/ InTmpBuff(lz) \/ InText(lz) \/ InPiece(lz)

(* The external segment is elsewhere than pieces that pass.                *)
ExtInPlace ==
  lz.extSize > 0 =>
    \/ TMPBUFF <= lz.extFrom /\ lz.extFrom + lz.extSize < PASSING
    \/ STAYING <= lz.extFrom /\ lz.extFrom + lz.extSize <= STAYING + done
    \/ Within(lz.extFrom, lz.extSize, DICT, DICTEND)

(* Both hold the last of the text that is in blocks.  An external segment  *)
(* in tmpBuff may be written over, and then is never used.                 *)
HistoryHeld ==
  /\ Holds(m, frames, lz.from, lz.size, done)
  /\ Outside(lz) \/ e.tmpInSize = 0 => Holds(m, frames, lz.extFrom, lz.extSize, done - lz.size)
  /\ lz.attached => lz.extSize = 0 /\ (lz.size = done \/ lz.size >= KB64)
  /\ ~e.prefs.hc => lz.extSize = 0 /\ (lz.attached => lz.size = 0)

LinkedInv == SegmentInPlace /\ ExtInPlace /\ HistoryHeld

FollowInv ==
  /\ PlacesKept /\ TextInPlace /\ BlocksFollow
  /\ FromSrc => e.tmpInSize = 0
  /\ e.cStage = 1 /\ e.prefs.linked => LinkedInv

LEMMA AllPlaces ==
  ASSUME EncoderSizes
  PROVE  /\ TMPBUFF = 0 /\ PASSING = LargestTmpBuff + 1 /\ STAYING = PASSING + MaxPiece + 1
         /\ DICT = STAYING + MaxText + 1 /\ DICTEND = DICT + KB64
         /\ PASSING \in Nat /\ STAYING \in Nat /\ DICT \in Nat /\ DICTEND \in Nat
         /\ PASSING > LargestTmpBuff /\ STAYING > PASSING + MaxPiece /\ DICT > STAYING + MaxText
         /\ LargestTmpBuff \in Nat /\ MaxPiece \in Nat /\ MaxText \in Nat /\ KB64 \in Nat \ {0}
BY DEF EncoderSizes, TMPBUFF, PASSING, STAYING, DICT, DICTEND

(* What is in tmpIn may go on from the history, and so may the piece.      *)
LEMMA TmpInGoesOn ==
  ASSUME EncoderSizes, EncoderTypeOK, FollowInv, e.cStage = 1, e.prefs.linked, ~FromSrc
  PROVE  GoesOn(lz, e.tmpIn, done, frames)
PROOF
<1>1. lz \in Histories /\ lz.from \in Int /\ lz.size \in Nat /\ lz.extFrom \in Int /\ lz.extSize \in Nat
  BY HistoryFields DEF EncoderTypeOK
<1>2. SegmentInPlace /\ HistoryHeld /\ e.tmpIn <= e.allocated /\ e.allocated <= LargestTmpBuff
  BY DEF FollowInv, LinkedInv, PlacesKept
<1>3. /\ e.tmpIn \in Nat /\ e.allocated \in Nat /\ done \in Nat /\ NULL = -1
  BY SizesNow DEF EncoderTypeOK, NULL
<1>4. lz.from = NULL => lz.size = 0 /\ lz.extSize = 0
  BY <1>1, <1>2, <1>3, AllPlaces DEF SegmentInPlace, NoneYet, InTmpBuff, InText, InPiece
<1>5. lz.size = 0 => lz.from = NULL
  BY <1>1, <1>2 DEF SegmentInPlace, NoneYet, InTmpBuff, InText, InPiece
<1>6. ASSUME End(lz) = e.tmpIn
      PROVE  Holds(m, frames, lz.extFrom, lz.extSize, done - lz.size)
  <2>1. NoneYet(lz) \/ InTmpBuff(lz) \/ InText(lz)
    BY <1>2 DEF SegmentInPlace, InPiece
  <2>2. ~InText(lz)
    BY <1>2, <1>3, <1>6, AllPlaces DEF InText
  <2>3. Outside(lz)
    BY <2>1, <2>2 DEF NoneYet, InTmpBuff, Outside
  <2> QED
    BY <1>2, <2>3 DEF HistoryHeld
<1> QED
  BY <1>2, <1>4, <1>5, <1>6 DEF GoesOn, HistoryHeld

LEMMA PieceGoesOn ==
  ASSUME EncoderSizes, EncoderTypeOK, FollowInv, e.cStage = 1, e.prefs.linked,
         e.tmpInSize = 0
  PROVE  GoesOn(lz, call.src, done, frames)
PROOF
<1>1. lz \in Histories /\ lz.from \in Int /\ lz.size \in Nat /\ lz.extFrom \in Int /\ lz.extSize \in Nat
  BY HistoryFields DEF EncoderTypeOK
<1>2. SegmentInPlace /\ HistoryHeld
  BY DEF FollowInv, LinkedInv
<1>3. done \in Nat /\ NULL = -1 /\ e.tmpIn \in Nat
  BY SizesNow DEF EncoderTypeOK, NULL
<1>4. lz.from = NULL => lz.size = 0 /\ lz.extSize = 0
  BY <1>1, <1>2, <1>3, AllPlaces DEF SegmentInPlace, NoneYet, InTmpBuff, InText, InPiece
<1>5. lz.size = 0 => lz.from = NULL
  BY <1>1, <1>2 DEF SegmentInPlace, NoneYet, InTmpBuff, InText, InPiece
<1> QED
  BY <1>2, <1>4, <1>5 DEF GoesOn, HistoryHeld

(* A block makes the history longer, or leaves it behind as the external   *)
(* segment.                                                                *)
LEMMA HeldAfterBlock ==
  ASSUME EncoderTypeOK, NEW src \in Nat, NEW n \in Nat \ {0}, NEW history, frames \in Nat,
         Follows(lz, lz', history, src, n, done, frames), Holds(m, frames, src, n, done + n),
         m' = m, frames' = frames, done' = done + n, e'.prefs = e.prefs
  PROVE  HistoryHeld' /\ lz'.size > 0
PROOF
<1>1. lz' \in Histories /\ lz'.size \in Nat /\ lz'.size >= n /\ n > 0
  BY HistoryFields DEF Follows
<1>2. /\ Holds(m, frames, lz'.from, lz'.size, done + n)
      /\ Holds(m, frames, lz'.extFrom, lz'.extSize, (done + n) - lz'.size)
      /\ lz'.attached => lz'.extSize = 0 /\ lz'.size = done + n
      /\ ~e.prefs.hc => lz'.extSize = 0 /\ ~lz'.attached
  BY DEF Follows
<1> QED
  BY <1>1, <1>2 DEF HistoryHeld, Holds

LEMMA TmpInBlockLinked ==
  ASSUME EncoderSizes, EncoderTypeOK, FollowInv, e.cStage = 1, e.prefs.linked, ~FromSrc,
         NEW n \in Nat \ {0}, Holds(m, frames, e.tmpIn, n, done + n), NEW history,
         Follows(lz, lz', history, e.tmpIn, n, done, frames),
         m' = m, frames' = frames, done' = done + n, e'.prefs = e.prefs,
         e'.tmpIn = e.tmpIn + n, ~FromSrc'
  PROVE  LinkedInv'
PROOF
<1>1. /\ lz \in Histories /\ lz.from \in Int /\ lz.size \in Nat /\ lz.extFrom \in Int /\ lz.extSize \in Nat
      /\ lz' \in Histories /\ lz'.from \in Int /\ lz'.size \in Nat /\ lz'.extFrom \in Int /\ lz'.extSize \in Nat
  BY HistoryFields DEF EncoderTypeOK, Follows
<1>2. /\ SegmentInPlace /\ ExtInPlace /\ HistoryHeld /\ e.tmpIn <= e.allocated
      /\ e.allocated <= LargestTmpBuff /\ frames \in Nat
  BY DEF FollowInv, LinkedInv, PlacesKept
<1>3. e.tmpIn \in Nat /\ e.allocated \in Nat /\ done \in Nat /\ n \in Nat /\ n > 0
  BY SizesNow DEF EncoderTypeOK
<1>4. HistoryHeld' /\ lz'.size > 0
  BY <1>2, <1>3, HeldAfterBlock
<1>5. /\ End(lz') = e.tmpIn + n
      /\ lz'.from = e.tmpIn \/ (End(lz) = e.tmpIn /\ lz.from <= lz'.from)
      /\ \/ lz'.extSize = 0
         \/ /\ End(lz) = e.tmpIn /\ lz.extSize > 0
            /\ Within(lz'.extFrom, lz'.extSize, lz.extFrom, lz.extFrom + lz.extSize)
         \/ End(lz) # e.tmpIn /\ lz.size > 0 /\ Within(lz'.extFrom, lz'.extSize, lz.from, End(lz))
         \/ Within(lz'.extFrom, lz'.extSize, DICT, DICTEND)
  BY DEF Follows
<1>6. \/ NoneYet(lz) /\ lz.extSize = 0 /\ lz.from = -1 /\ lz.size = 0
      \/ InTmpBuff(lz) /\ TMPBUFF <= lz.from /\ End(lz) = e.tmpIn
      \/ InText(lz) /\ STAYING <= lz.from /\ End(lz) = STAYING + done
  BY <1>2 DEF SegmentInPlace, NoneYet, InTmpBuff, InText, InPiece, NULL
<1>7. TMPBUFF <= lz'.from
  BY <1>1, <1>3, <1>5, <1>6, AllPlaces DEF End
<1>8. InText(lz) => End(lz) # e.tmpIn
  BY <1>2, <1>3, <1>6, AllPlaces DEF InText
<1>9. Outside(lz')
  <2>1. CASE lz'.extSize = 0
    BY <2>1 DEF Outside
  <2>2. CASE /\ End(lz) = e.tmpIn /\ lz.extSize > 0
             /\ Within(lz'.extFrom, lz'.extSize, lz.extFrom, lz.extFrom + lz.extSize)
    <3>1. Outside(lz)
      BY <1>6, <1>8, <2>2 DEF InTmpBuff
    <3> QED
      BY <1>1, <2>2, <3>1, AllPlaces DEF Outside, Within
  <2>3. CASE End(lz) # e.tmpIn /\ lz.size > 0 /\ Within(lz'.extFrom, lz'.extSize, lz.from, End(lz))
    <3>1. STAYING <= lz.from
      BY <1>6, <2>3
    <3> QED
      BY <1>1, <2>3, <3>1, AllPlaces DEF Outside, Within
  <2>4. CASE Within(lz'.extFrom, lz'.extSize, DICT, DICTEND)
    BY <1>1, <2>4, AllPlaces DEF Outside, Within
  <2> QED
    BY <1>5, <2>1, <2>2, <2>3, <2>4
<1>10. SegmentInPlace'
  BY <1>4, <1>5, <1>7, <1>9 DEF SegmentInPlace, InTmpBuff, Outside, End
<1>11. ExtInPlace'
  <2>1. CASE lz'.extSize = 0
    BY <2>1 DEF ExtInPlace
  <2>2. CASE /\ End(lz) = e.tmpIn /\ lz.extSize > 0
             /\ Within(lz'.extFrom, lz'.extSize, lz.extFrom, lz.extFrom + lz.extSize)
    BY <1>1, <1>2, <1>3, <2>2, AllPlaces DEF ExtInPlace, Within
  <2>3. CASE End(lz) # e.tmpIn /\ lz.size > 0 /\ Within(lz'.extFrom, lz'.extSize, lz.from, End(lz))
    <3>1. STAYING <= lz.from /\ End(lz) = STAYING + done
      BY <1>6, <2>3
    <3> QED
      BY <1>1, <1>3, <2>3, <3>1, AllPlaces DEF ExtInPlace, Within
  <2>4. CASE Within(lz'.extFrom, lz'.extSize, DICT, DICTEND)
    BY <2>4 DEF ExtInPlace, Within, DICT, DICTEND, STAYING, PASSING, TMPBUFF
  <2> QED
    BY <1>5, <2>1, <2>2, <2>3, <2>4
<1> QED
  BY <1>4, <1>10, <1>11 DEF LinkedInv

LEMMA PieceBlockLinked ==
  ASSUME EncoderSizes, EncoderTypeOK, FollowInv, e.cStage = 1, e.prefs.linked, at = "blocks",
         NEW n \in Nat \ {0}, n <= call.n, Holds(m, frames, call.src, n, done + n),
         given = done + call.n, NEW history,
         Follows(lz, lz', history, call.src, n, done, frames),
         m' = m, frames' = frames, done' = done + n, e' = e,
         FromSrc', call'.stable = call.stable, call'.src = call.src + n
  PROVE  LinkedInv'
PROOF
<1>1. /\ lz \in Histories /\ lz.from \in Int /\ lz.size \in Nat /\ lz.extFrom \in Int /\ lz.extSize \in Nat
      /\ lz' \in Histories /\ lz'.from \in Int /\ lz'.size \in Nat /\ lz'.extFrom \in Int /\ lz'.extSize \in Nat
  BY HistoryFields DEF EncoderTypeOK, Follows
<1>2. /\ SegmentInPlace /\ ExtInPlace /\ HistoryHeld /\ e.tmpIn <= e.allocated
      /\ e.allocated <= LargestTmpBuff /\ frames \in Nat /\ given <= MaxText
      /\ call.stable => call.src + call.n = STAYING + given
      /\ ~call.stable => PASSING <= call.src /\ call.src + call.n < STAYING
  BY DEF FollowInv, LinkedInv, PlacesKept, Taking
<1>3. /\ e.tmpIn \in Nat /\ e.allocated \in Nat /\ done \in Nat /\ n \in Nat /\ n > 0
      /\ call.src \in Nat /\ call.n \in Nat /\ given \in Nat
  BY SizesNow DEF EncoderTypeOK
<1>4. HistoryHeld' /\ lz'.size > 0
  BY <1>2, <1>3, HeldAfterBlock
<1>5. /\ End(lz') = call.src + n
      /\ lz'.from = call.src \/ (End(lz) = call.src /\ lz.from <= lz'.from)
      /\ \/ lz'.extSize = 0
         \/ /\ End(lz) = call.src /\ lz.extSize > 0
            /\ Within(lz'.extFrom, lz'.extSize, lz.extFrom, lz.extFrom + lz.extSize)
         \/ End(lz) # call.src /\ lz.size > 0 /\ Within(lz'.extFrom, lz'.extSize, lz.from, End(lz))
         \/ Within(lz'.extFrom, lz'.extSize, DICT, DICTEND)
  BY DEF Follows
<1>6. /\ call.stable => call.src = STAYING + done
      /\ PASSING <= call.src
  BY <1>2, <1>3, AllPlaces
<1>7. \/ lz.extSize = 0 /\ lz.from = -1 /\ lz.size = 0
      \/ TMPBUFF <= lz.from /\ End(lz) = e.tmpIn
      \/ STAYING <= lz.from /\ End(lz) = STAYING + done
      \/ PASSING <= lz.from /\ End(lz) = call.src /\ ~call.stable
  BY <1>2 DEF SegmentInPlace, NoneYet, InTmpBuff, InText, InPiece, NULL
<1>8. ASSUME End(lz) = call.src
      PROVE  /\ PASSING <= lz.from
             /\ call.stable => STAYING <= lz.from
  BY <1>1, <1>2, <1>3, <1>6, <1>7, <1>8, AllPlaces DEF End
<1>9. SegmentInPlace'
  <2>1. CASE call.stable
    <3>1. STAYING <= lz'.from /\ End(lz') = STAYING + (done + n)
      BY <1>1, <1>3, <1>5, <1>6, <1>8, <2>1, AllPlaces
    <3> QED
      BY <1>4, <2>1, <3>1 DEF SegmentInPlace, InText, End, STAYING, PASSING, TMPBUFF
  <2>2. CASE ~call.stable
    <3>1. PASSING <= lz'.from
      BY <1>1, <1>3, <1>5, <1>6, <1>8, <2>2, AllPlaces
    <3> QED
      BY <1>4, <1>5, <2>2, <3>1 DEF SegmentInPlace, InPiece, End, PASSING, TMPBUFF
  <2> QED
    BY <2>1, <2>2
<1>10. ExtInPlace'
  <2>1. CASE lz'.extSize = 0
    BY <2>1 DEF ExtInPlace
  <2>2. CASE /\ End(lz) = call.src /\ lz.extSize > 0
             /\ Within(lz'.extFrom, lz'.extSize, lz.extFrom, lz.extFrom + lz.extSize)
    BY <1>1, <1>2, <1>3, <2>2, AllPlaces DEF ExtInPlace, Within
  <2>3. CASE End(lz) # call.src /\ lz.size > 0 /\ Within(lz'.extFrom, lz'.extSize, lz.from, End(lz))
    <3>1. CASE STAYING <= lz.from /\ End(lz) = STAYING + done
      BY <1>1, <1>3, <2>3, <3>1, AllPlaces DEF ExtInPlace, Within
    <3>2. CASE TMPBUFF <= lz.from /\ End(lz) = e.tmpIn
      BY <1>1, <1>2, <1>3, <2>3, <3>2, AllPlaces DEF ExtInPlace, Within
    <3> QED
      BY <1>7, <2>3, <3>1, <3>2
  <2>4. CASE Within(lz'.extFrom, lz'.extSize, DICT, DICTEND)
    BY <2>4 DEF ExtInPlace, Within, DICT, DICTEND, STAYING, PASSING, TMPBUFF
  <2> QED
    BY <1>5, <2>1, <2>2, <2>3, <2>4
<1> QED
  BY <1>4, <1>9, <1>10 DEF LinkedInv

-----------------------------------------------------------------------------
(* Every step keeps it.  First what steps do to the records.               *)
TmpInMoves(in, size) == TmpInBecomes(in, size) /\ e'.cdict = e.cdict

LEMMA TmpInMoved ==
  ASSUME e \in Contexts, NEW in \in Nat, NEW size \in Nat
  PROVE  /\ e' = [e EXCEPT !.tmpIn = in, !.tmpInSize = size] => TmpInMoves(in, size)
         /\ e' = [e EXCEPT !.tmpIn = in] => TmpInMoves(in, e.tmpInSize)
         /\ e' = [e EXCEPT !.tmpInSize = size] => TmpInMoves(e.tmpIn, size)
         /\ e' = e => TmpInMoves(e.tmpIn, e.tmpInSize)
BY DEF Contexts, TmpInBecomes, TmpInMoves

PieceBecomes(src, n, last) ==
  call'.src = src /\ call'.n = n /\ call'.last = last /\ call'.stable = call.stable

LEMMA PieceChanges ==
  ASSUME call \in Calls, NEW k \in 0 .. call.n,
         NEW last \in { "notDone", "fromTmpBuffer", "fromSrcBuffer" }
  PROVE  /\ call' = Consumed(k) => PieceBecomes(call.src + k, call.n - k, call.last)
         /\ call' = [Consumed(k) EXCEPT !.last = last] =>
              PieceBecomes(call.src + k, call.n - k, last)
         /\ call' = [call EXCEPT !.last = last] => PieceBecomes(call.src, call.n, last)
         /\ call' = call => PieceBecomes(call.src, call.n, call.last)
PROOF
<1> DEFINE src == call.src + k
           n == call.n - k
           c == [call EXCEPT !.src = src, !.n = n]
<1>1. src \in Nat /\ n \in Nat
  BY DEF Calls
<1>2. Consumed(k) = c
  BY DEF Consumed
<1> HIDE DEF src, n
<1>3. call' = c => PieceBecomes(src, n, call.last)
  BY <1>1 DEF Calls, PieceBecomes
<1>4. call' = [c EXCEPT !.last = last] => PieceBecomes(src, n, last)
  BY <1>1 DEF Calls, PieceBecomes
<1>5. call' = [call EXCEPT !.last = last] => PieceBecomes(call.src, call.n, last)
  BY DEF Calls, PieceBecomes
<1>6. call' = call => PieceBecomes(call.src, call.n, call.last)
  BY DEF Calls, PieceBecomes
<1> HIDE DEF c
<1> QED
  BY <1>2, <1>3, <1>4, <1>5, <1>6 DEF src, n

(* Steps that leave text and history alone.                                *)
LEMMA NothingMoves ==
  ASSUME FollowInv, e' = e, lz' = lz, m' = m, given' = given, done' = done, block' = block,
         frames' = frames, FromSrc' => FromSrc, e.prefs.linked => (FromSrc' <=> FromSrc),
         FromSrc => call'.src = call.src /\ call'.stable = call.stable,
         Taking' => Taking /\ call'.src = call.src /\ call'.n = call.n /\ call'.stable = call.stable,
         at' = "piece" =>
           /\ given + call'.n <= MaxText
           /\ call'.stable => call'.src = STAYING + given
           /\ ~call'.stable => call'.src + call'.n < STAYING
  PROVE  FollowInv'
PROOF
<1>1. PlacesKept'
  BY DEF FollowInv, PlacesKept, STAYING, PASSING, TMPBUFF
<1>2. TextInPlace' /\ BlocksFollow'
  BY DEF FollowInv, TextInPlace, BlocksFollow, DictionaryKept, Holds, Right, DICT, DICTEND,
         STAYING, PASSING, TMPBUFF
<1>3. ASSUME LinkedInv, e.prefs.linked PROVE LinkedInv'
  <2>0. FromSrc' <=> FromSrc
    BY <1>3
  <2>1. SegmentInPlace => SegmentInPlace'
    BY <2>0 DEF SegmentInPlace, NoneYet, InTmpBuff, InText, InPiece, Outside, End, STAYING, PASSING, TMPBUFF
  <2>2. ExtInPlace => ExtInPlace'
    BY DEF ExtInPlace, Within, DICT, DICTEND, STAYING, PASSING, TMPBUFF
  <2>3. HistoryHeld => HistoryHeld'
    BY DEF HistoryHeld, Outside, Holds, STAYING, PASSING, TMPBUFF
  <2> QED
    BY <1>3, <2>1, <2>2, <2>3 DEF LinkedInv
<1> QED
  BY <1>1, <1>2, <1>3 DEF FollowInv

LEMMA TmpInBlockFollows ==
  ASSUME EncoderSizes, EncoderInv, FollowInv, e.cStage = 1, ~FromSrc,
         NEW n \in Nat \ {0}, n = e.tmpInSize, ~e.prefs.autoFlush, at \in { "tmpBlock", "flush" },
         LZ4F_makeBlock(e.tmpIn, n), NEW in \in Nat, TmpInMoves(in, 0),
         e.prefs.linked => in = e.tmpIn + n, ~e.prefs.linked => in = e.tmpIn,
         m' = m, frames' = frames, given' = given,
         call'.src = call.src, call'.n = call.n, call'.stable = call.stable,
         ~FromSrc', at' # "piece", Taking' => Taking
  PROVE  FollowInv'
PROOF
<1>1. /\ EncoderTypeOK /\ e \in Contexts /\ lz \in Histories /\ done \in Nat /\ frames \in Nat
      /\ e.tmpIn \in Nat /\ e.maxBufferSize \in Nat /\ e.allocated \in Nat /\ blockSize \in Nat
      /\ n \in Nat /\ n > 0
  BY SizesNow DEF EncoderInv, EncoderTypeOK, FollowInv, PlacesKept
<1>2. PlacesKept /\ TextInPlace /\ DictionaryKept /\ e.cdict <= KB64
  BY DEF FollowInv, TextInPlace, PlacesKept
<1>3. Holds(m, frames, e.tmpIn, n, done + n)
  BY <1>2 DEF TextInPlace
<1>4. e.prefs.linked => GoesOn(lz, e.tmpIn, done, frames)
  BY <1>1, TmpInGoesOn
<1>5. e'.prefs = e.prefs /\ e'.cdict = e.cdict /\ e'.allocated = e.allocated /\ e'.cStage = 1
      /\ e'.tmpIn = in /\ e'.tmpInSize = 0
  BY DEF TmpInMoves, TmpInBecomes
<1>6. /\ BlocksFollow'
      /\ e.prefs.linked => \E history : Follows(lz, lz', history, e.tmpIn, n, done, frames)
  BY <1>1, <1>2, <1>3, <1>4, <1>5, BlockFollows
<1>7. done' = done + n
  BY DEF LZ4F_makeBlock
<1>8. in <= e.allocated
  <2>1. e.tmpIn + blockSize <= e.maxBufferSize /\ e.maxBufferSize <= e.allocated /\ n <= blockSize
    BY <1>1 DEF EncoderInv, TmpInFits, CallsInPlace
  <2> QED
    BY <1>1, <2>1
<1>9. PlacesKept'
  BY <1>2, <1>5, <1>8, <1>1 DEF PlacesKept, STAYING, PASSING, TMPBUFF
<1>10. TextInPlace'
  <2>1. DictionaryKept'
    BY <1>2 DEF DictionaryKept, DICT, DICTEND, STAYING, PASSING, TMPBUFF
  <2>2. Holds(m, frames, in, 0, done + n)
    BY NothingHeld
  <2>3. done' + e'.tmpInSize = done + n
    BY <1>1, <1>5, <1>7
  <2> QED
    BY <1>2, <1>5, <2>1, <2>2, <2>3 DEF TextInPlace, Holds
<1>11. e'.prefs.linked => LinkedInv'
  <2>1. ASSUME e.prefs.linked PROVE LinkedInv'
    <3>1. PICK history : Follows(lz, lz', history, e.tmpIn, n, done, frames)
      BY <1>6, <2>1
    <3> QED
      BY <1>1, <1>3, <1>5, <1>7, <2>1, <3>1, TmpInBlockLinked
  <2> QED
    BY <1>5, <2>1
<1> QED
  BY <1>5, <1>6, <1>9, <1>10, <1>11 DEF FollowInv

LEMMA TmpBlockFollows ==
  ASSUME EncoderSizes, EncoderInv, FollowInv, TmpBlock
  PROVE  FollowInv'
PROOF
<1>1. /\ at = "tmpBlock" /\ at' = "blocks" /\ m' = m /\ given' = given /\ frames' = frames
      /\ e.cStage = 1
  BY DEF TmpBlock, EncoderInv, CallsInPlace
<1>2. /\ EncoderTypeOK /\ e.tmpInSize = blockSize /\ ~e.prefs.autoFlush
      /\ blockSize \in Nat \ {0} /\ e.tmpIn \in Nat /\ call.n \in Nat /\ e \in Contexts /\ call \in Calls
  BY <1>1, SizesNow DEF EncoderInv, TmpInFits, EncoderTypeOK
<1> DEFINE n == blockSize
           in == IF e.prefs.linked THEN e.tmpIn + n ELSE e.tmpIn
           zero == 0
<1>3. in \in Nat /\ zero \in Nat
  BY <1>2
<1>4. e' = [e EXCEPT !.tmpIn = in, !.tmpInSize = zero]
  BY DEF TmpBlock, AfterTmpBlock
<1>5. (e.prefs.linked => in = e.tmpIn + n) /\ (~e.prefs.linked => in = e.tmpIn)
  OBVIOUS
<1>6. LZ4F_makeBlock(e.tmpIn, n)
  BY DEF TmpBlock
<1> HIDE DEF in, zero, n
<1>7. TmpInMoves(in, zero)
  BY <1>2, <1>3, <1>4, TmpInMoved
<1>8. PieceBecomes(call.src, call.n, "fromTmpBuffer")
  <2>1. call' = [call EXCEPT !.last = "fromTmpBuffer"] /\ 0 \in 0 .. call.n
    BY <1>2 DEF TmpBlock
  <2> QED
    BY <1>2, <2>1, PieceChanges
<1>9. ~FromSrc /\ ~FromSrc' /\ Taking
  BY <1>1, <1>8 DEF FromSrc, PieceBecomes, Taking
<1>10. n \in Nat \ {0} /\ n = e.tmpInSize
  BY <1>2 DEF n
<1> QED
  BY <1>1, <1>2, <1>3, <1>5, <1>6, <1>7, <1>8, <1>9, <1>10, TmpInBlockFollows DEF PieceBecomes, zero

LEMMA FlushBlockFollows ==
  ASSUME EncoderSizes, EncoderInv, FollowInv, EncoderInv', FlushBlock
  PROVE  FollowInv'
PROOF
<1>1. at = "flush" /\ e.cStage = 1 /\ EncoderTypeOK /\ e \in Contexts /\ call \in Calls
  BY DEF FlushBlock, EncoderInv, CallsInPlace, EncoderTypeOK
<1>2. /\ e.tmpIn \in Nat /\ e.tmpInSize \in Nat
  BY <1>1, SizesNow
<1>3. at' # "error"
  BY DEF EncoderInv, EncoderTypeOK
<1>4. CASE e.tmpInSize = 0
  <2>1. /\ e' = e /\ lz' = lz /\ m' = m /\ call' = call /\ given' = given /\ done' = done
        /\ block' = block /\ frames' = frames /\ at' \in { "return", "end" }
    BY <1>4 DEF FlushBlock, AfterFlush
  <2>2. ~Taking' /\ at' # "piece" /\ ~FromSrc' /\ ~FromSrc
    BY <1>1, <2>1 DEF Taking, FromSrc
  <2> QED
    BY <2>1, <2>2, NothingMoves
<1>5. CASE e.tmpInSize # 0
  <2> DEFINE n == e.tmpInSize
             in == IF e.prefs.linked THEN e.tmpIn + n ELSE e.tmpIn
             zero == 0
  <2>1. LZ4F_makeBlock(e.tmpIn, n) /\ e' = AfterTmpBlock(n) /\ at' = "flushed"
        /\ m' = m /\ call' = call /\ given' = given /\ frames' = frames
    BY <1>3, <1>5 DEF FlushBlock, Refuse
  <2>2. in \in Nat /\ zero \in Nat
    BY <1>2
  <2>3. e' = [e EXCEPT !.tmpIn = in, !.tmpInSize = zero]
    BY <2>1 DEF AfterTmpBlock
  <2>4. (e.prefs.linked => in = e.tmpIn + n) /\ (~e.prefs.linked => in = e.tmpIn)
    OBVIOUS
  <2> HIDE DEF in, zero
  <2>5. TmpInMoves(in, zero)
    BY <1>1, <2>2, <2>3, TmpInMoved
  <2>6. ~FromSrc /\ ~FromSrc' /\ ~Taking'
    BY <1>1, <2>1 DEF FromSrc, Taking
  <2>7. ~e.prefs.autoFlush
    BY <1>1, <1>5 DEF EncoderInv, TmpInFits
  <2>8. n \in Nat \ {0}
    BY <1>2, <1>5
  <2> QED
    BY <1>1, <2>1, <2>2, <2>4, <2>5, <2>6, <2>7, <2>8, TmpInBlockFollows DEF zero
<1> QED
  BY <1>4, <1>5

LEMMA SrcBlockFollows ==
  ASSUME EncoderSizes, EncoderInv, FollowInv, SrcBlock
  PROVE  FollowInv'
PROOF
<1> DEFINE n == Smaller(blockSize, call.n)
<1>1. /\ at = "blocks" /\ e.cStage = 1 /\ Taking
      /\ e' = e /\ m' = m /\ given' = given /\ frames' = frames
  BY DEF SrcBlock, EncoderInv, CallsInPlace, Taking
<1>2. /\ EncoderTypeOK /\ e \in Contexts /\ lz \in Histories /\ call \in Calls /\ done \in Nat
      /\ e.tmpIn \in Nat /\ e.tmpInSize \in Nat /\ call.n \in Nat /\ call.src \in Nat
      /\ blockSize \in Nat \ {0} /\ given \in Nat /\ frames \in Nat
  BY SizesNow DEF EncoderInv, EncoderTypeOK, FollowInv, PlacesKept
<1>3. CASE ~(n = blockSize \/ (e.prefs.autoFlush /\ n > 0))
  <2>1. at' = "preserve" /\ lz' = lz /\ call' = call /\ done' = done /\ block' = block
    BY <1>3 DEF SrcBlock
  <2>2. (FromSrc' <=> FromSrc) /\ at' # "piece"
    BY <1>1, <2>1 DEF FromSrc
  <2> QED
    BY <1>1, <2>1, <2>2, NothingMoves
<1>4. CASE n = blockSize \/ (e.prefs.autoFlush /\ n > 0)
  <2>1. /\ LZ4F_makeBlock(call.src, n) /\ call' = [Consumed(n) EXCEPT !.last = "fromSrcBuffer"]
        /\ at' = at
    BY <1>4 DEF SrcBlock
  <2>2. n \in Nat \ {0} /\ n <= call.n /\ n \in 0 .. call.n
    BY <1>2, <1>4 DEF Smaller
  <2> HIDE DEF n
  <2>3. PieceBecomes(call.src + n, call.n - n, "fromSrcBuffer")
    BY <1>2, <2>1, <2>2, PieceChanges
  <2>4. e.tmpInSize = 0 /\ given = done + call.n
    <3>1. /\ given = done + e.tmpInSize + call.n
          /\ e.tmpInSize > 0 => call.n = 0
      BY <1>1 DEF EncoderInv, BytesCounted
    <3> QED
      BY <1>2, <2>2, <3>1
  <2>5. PlacesKept /\ TextInPlace /\ DictionaryKept /\ e.cdict <= KB64
    BY DEF FollowInv, TextInPlace, PlacesKept
  <2>6. Holds(m, frames, call.src, call.n, given)
    BY <1>1, <2>5 DEF TextInPlace
  <2>7. Holds(m, frames, call.src, n, done + n)
    <3>1. Holds(m, frames, call.src, n, (given - call.n) + n)
      BY <1>2, <2>2, <2>6, PrefixHeld
    <3>2. (given - call.n) + n = done + n
      BY <1>2, <2>2, <2>4
    <3> QED
      BY <3>1, <3>2
  <2>8. Holds(m, frames, call.src + n, call.n - n, given)
    <3>1. call.n - n \in 0 .. call.n /\ call.src + call.n - (call.n - n) = call.src + n
      BY <1>2, <2>2
    <3>2. Holds(m, frames, call.src + call.n - (call.n - n), call.n - n, given)
      BY <1>2, <2>6, <3>1, SuffixHeld
    <3> QED
      BY <3>1, <3>2
  <2>9. e.prefs.linked => GoesOn(lz, call.src, done, frames)
    BY <1>1, <1>2, <2>4, PieceGoesOn
  <2>10. /\ BlocksFollow'
         /\ e.prefs.linked => \E history : Follows(lz, lz', history, call.src, n, done, frames)
    BY <1>1, <1>2, <2>1, <2>2, <2>5, <2>7, <2>9, BlockFollows
  <2>11. done' = done + n
    BY <2>1 DEF LZ4F_makeBlock
  <2>12. PlacesKept'
    <3>1. /\ call.stable => call.src + call.n = STAYING + given
          /\ ~call.stable => PASSING <= call.src /\ call.src + call.n < STAYING
      BY <1>1, <2>5 DEF PlacesKept
    <3>2. /\ call'.stable => call'.src + call'.n = STAYING + given
          /\ ~call'.stable => PASSING <= call'.src /\ call'.src + call'.n < STAYING
      <4>1. call'.src + call'.n = call.src + call.n /\ call.src <= call'.src
        BY <1>2, <2>2, <2>3 DEF PieceBecomes
      <4>2. call'.src \in Nat
        BY <1>2, <2>2, <2>3 DEF PieceBecomes
      <4> QED
        BY <1>2, <2>3, <3>1, <4>1, <4>2, AllPlaces DEF PieceBecomes
    <3> QED
      BY <1>1, <2>1, <2>5, <3>2 DEF PlacesKept, STAYING, PASSING, TMPBUFF
  <2>13. TextInPlace'
    <3>1. Holds(m, frames, e.tmpIn, 0, done + n)
      BY NothingHeld
    <3>2. done' + e'.tmpInSize = done + n
      BY <1>1, <1>2, <2>2, <2>4, <2>11
    <3>3. DictionaryKept'
      BY <1>1, <2>5 DEF DictionaryKept, DICT, DICTEND, STAYING, PASSING, TMPBUFF
    <3> QED
      BY <1>1, <2>3, <2>4, <2>8, <3>1, <3>2, <3>3 DEF TextInPlace, Holds, PieceBecomes
  <2>14. FromSrc'
    BY <1>1, <2>1, <2>3 DEF FromSrc, PieceBecomes
  <2>15. e.prefs.linked => LinkedInv'
    <3>1. ASSUME e.prefs.linked PROVE LinkedInv'
      <4>1. PICK history : Follows(lz, lz', history, call.src, n, done, frames)
        BY <2>10, <3>1
      <4> QED
        BY <1>1, <1>2, <2>2, <2>3, <2>4, <2>7, <2>11, <2>14, <3>1, <4>1, PieceBlockLinked DEF PieceBecomes
    <3> QED
      BY <3>1
  <2> QED
    BY <1>1, <2>4, <2>10, <2>12, <2>13, <2>15 DEF FollowInv
<1> QED
  BY <1>3, <1>4

(* What is written in front of the dictionary, and in tmpBuff.             *)
LEMMA DictionaryStays ==
  ASSUME EncoderSizes, DictionaryKept, NEW to \in Nat, NEW s, Len(s) \in Nat, to + Len(s) <= DICT,
         m' = Written(to, s)
  PROVE  DictionaryKept'
PROOF
<1>1. ASSUME NEW a \in DICT .. DICTEND PROVE m'[a] = a - DICTEND + 1
  <2>1. DICT \in Nat /\ DICTEND \in Nat
    BY AllPlaces
  <2>2. a \in Addresses /\ a \in Int /\ DICT <= a
    BY <2>1 DEF Addresses
  <2>3. to + Len(s) <= a /\ to \in Int
    BY <2>1, <2>2
  <2>4. Written(to, s)[a] = m[a]
    BY <2>2, <2>3, WrittenElsewhere
  <2> QED
    BY <2>4 DEF DictionaryKept
<1> QED
  BY <1>1 DEF DictionaryKept, DICT, DICTEND, STAYING, PASSING, TMPBUFF

LEMMA PieceLies ==
  ASSUME EncoderSizes, EncoderInv, PlacesKept, Taking
  PROVE  /\ PASSING <= call.src /\ call.src + call.n <= DICT
         /\ given = done + e.tmpInSize + call.n
PROOF
<1>1. EncoderTypeOK
  BY DEF EncoderInv
<1>2. /\ call.src \in Nat /\ call.n \in Nat /\ given \in Nat /\ call.stable \in BOOLEAN
      /\ done \in Nat /\ e.tmpInSize \in Nat
  BY <1>1, SizesNow DEF EncoderTypeOK
<1>3. given = done + e.tmpInSize + call.n /\ given <= MaxText
  BY DEF EncoderInv, BytesCounted, CallsInPlace, Taking, PlacesKept
<1>4. CASE call.stable
  <2>1. call.src + call.n = STAYING + given
    BY <1>4 DEF PlacesKept
  <2> QED
    BY <1>2, <1>3, <2>1, AllPlaces
<1>5. CASE ~call.stable
  <2>1. PASSING <= call.src /\ call.src + call.n < STAYING
    BY <1>5 DEF PlacesKept
  <2> QED
    BY <1>2, <1>3, <2>1, AllPlaces
<1> QED
  BY <1>4, <1>5

LEMMA PieceStays ==
  ASSUME EncoderSizes, EncoderInv, PlacesKept, Taking, Holds(m, frames, call.src, call.n, given),
         NEW to \in Nat, NEW s, Len(s) \in Nat, to + Len(s) <= PASSING
  PROVE  Holds(Written(to, s), frames, call.src, call.n, given)
PROOF
<1>1. EncoderTypeOK
  BY DEF EncoderInv
<1>2. call.src \in Nat /\ call.n \in Nat /\ given \in Nat
  BY <1>1, SizesNow DEF EncoderTypeOK
<1>3. PASSING \in Nat /\ DICT \in Nat /\ DICTEND \in Nat /\ DICT <= DICTEND
  BY AllPlaces
<1>4. PASSING <= call.src /\ call.src + call.n <= DICT
  BY PieceLies
<1>5. 0 <= call.src /\ call.src + call.n <= DICTEND + 1 /\ to + Len(s) <= call.src
  BY <1>2, <1>3, <1>4
<1>6. call.src \in Int /\ given \in Int /\ to \in Int /\ DICTEND \in Int
  BY <1>2, <1>3
<1> QED
  BY <1>2, <1>5, <1>6, HeldElsewhere

LEMMA SaveFollows ==
  ASSUME EncoderSizes, EncoderInv, FollowInv, e.cStage = 1, e.prefs.linked, call.op # "ownFrame",
         LZ4F_localSaveDict, lz.size > 0, e.tmpInSize = 0,
         call' = call, given' = given, done' = done, block' = block, frames' = frames,
         ~FromSrc', at' # "piece", Taking' => Taking
  PROVE  FollowInv'
PROOF
<1> DEFINE n == Smaller(lz.size, KB64)
           s == Segment(End(lz) - n, n)
           none == NULL
           zero == 0
           front == TMPBUFF
<1>1. /\ EncoderTypeOK /\ e \in Contexts /\ e.prefs \in Preferences /\ lz \in Histories
      /\ lz.size \in Nat /\ lz.from \in Int /\ e.allocated \in Nat /\ e.maxBufferSize \in Nat
      /\ done \in Nat /\ done \in Int /\ frames \in Nat
  BY SizesNow, HistoryFields DEF EncoderInv, EncoderTypeOK, FollowInv, PlacesKept
<1>2. n \in Nat /\ n > 0 /\ n <= KB64 /\ n <= lz.size /\ (n = lz.size \/ n = KB64)
  BY <1>1, AllPlaces DEF Smaller
<1>3. /\ m' = Written(front, s)
      /\ lz' = [lz EXCEPT !.from = front, !.size = n, !.extFrom = none, !.extSize = zero]
      /\ e' = [e EXCEPT !.tmpIn = front + n]
  BY DEF LZ4F_localSaveDict
<1> HIDE DEF n
<1>4. PlacesKept /\ TextInPlace /\ DictionaryKept /\ LinkedInv /\ BlocksFollow
  BY DEF FollowInv, TextInPlace
<1>5. n <= e.allocated /\ n < PASSING
  <2>1. KB64 <= Required(e.prefs) /\ Required(e.prefs) \in Nat
    BY <1>1, RequiredRoom
  <2>2. Required(e.prefs) <= e.maxBufferSize /\ e.maxBufferSize <= e.allocated
    BY DEF EncoderInv, TmpInFits
  <2>3. e.allocated <= LargestTmpBuff
    BY <1>4 DEF PlacesKept
  <2> QED
    BY <1>1, <1>2, <2>1, <2>2, <2>3, AllPlaces
<1>6. s = TextUpTo(frames, n, done)
  <2>1. Holds(m, frames, lz.from, lz.size, done)
    BY <1>4 DEF LinkedInv, HistoryHeld
  <2>2. n \in 0 .. lz.size
    BY <1>1, <1>2
  <2>3. Holds(m, frames, lz.from + lz.size - n, n, done)
    BY <1>1, <2>1, <2>2, SuffixHeld
  <2>4. lz.from + lz.size - n = End(lz) - n /\ End(lz) - n \in Int
    BY <1>1, <1>2 DEF End
  <2> QED
    BY <1>1, <1>2, <2>3, <2>4, SegmentIsText
<1>7. Len(s) = n
  <2>1. End(lz) - n \in Int
    BY <1>1, <1>2 DEF End
  <2> QED
    BY <1>2, <2>1, SegmentLength
<1> HIDE DEF s
<1>8. front = 0 /\ front \in Nat
  BY AllPlaces
<1>9. Holds(m', frames, 0, n, done)
  <2>1. front + n <= DICTEND + 1 /\ DICTEND \in Int
    BY <1>2, <1>5, <1>8, AllPlaces
  <2>2. Holds(Written(front, TextUpTo(frames, n, done)), frames, front, n, done)
    BY <1>1, <1>2, <1>8, <2>1, HeldWhenWritten
  <2> QED
    BY <1>3, <1>6, <1>8, <2>2
<1>10. e'.prefs = e.prefs /\ e'.cdict = e.cdict /\ e'.allocated = e.allocated /\ e'.cStage = 1
       /\ e'.tmpIn = n /\ e'.tmpInSize = 0
  <2>1. front + n = n /\ e.tmpInSize \in Nat
    BY <1>2, <1>8
  <2>2. TmpInMoves(n, e.tmpInSize)
    BY <1>1, <1>2, <1>3, <2>1, TmpInMoved
  <2> QED
    BY <2>2 DEF TmpInMoves, TmpInBecomes
<1>11. lz'.from = 0 /\ lz'.size = n /\ lz'.extSize = 0 /\ lz'.attached = lz.attached
  <2>1. none \in Int /\ zero \in Nat
    BY DEF NULL
  <2> HIDE DEF front, none, zero
  <2>2. lz'.from = front /\ lz'.size = n /\ lz'.extSize = zero /\ lz'.attached = lz.attached
    BY <1>1, <1>3 DEF Histories
  <2>3. zero = 0
    BY DEF zero
  <2> QED
    BY <1>8, <2>2, <2>3, Zenon
<1>12. Len(s) \in Nat /\ front + Len(s) <= PASSING /\ front + Len(s) <= DICT
  <2>1. PASSING \in Nat /\ DICT \in Nat /\ PASSING <= DICT
    BY AllPlaces
  <2> HIDE DEF front
  <2>2. Len(s) = n /\ front + Len(s) = n
    BY <1>2, <1>7, <1>8
  <2> QED
    BY <1>2, <1>5, <2>1, <2>2
<1> HIDE DEF front, none, zero
<1>13. PlacesKept'
  BY <1>4, <1>5, <1>10 DEF PlacesKept, STAYING, PASSING, TMPBUFF
<1>14. TextInPlace'
  <2>1. DictionaryKept'
    BY <1>3, <1>4, <1>8, <1>12, DictionaryStays
  <2>2. Taking => Holds(m', frames, call.src, call.n, given)
    BY <1>3, <1>4, <1>8, <1>12, PieceStays DEF TextInPlace
  <2>3. Holds(m', frames, n, 0, done + 0)
    BY NothingHeld
  <2> QED
    BY <1>10, <2>1, <2>2, <2>3 DEF TextInPlace, Holds
<1>15. BlocksFollow'
  BY <1>4, <1>10 DEF BlocksFollow, Right
<1>16. SegmentInPlace'
  <2>1. TMPBUFF' = 0 /\ lz'.from + lz'.size = n
    BY <1>2, <1>11 DEF TMPBUFF
  <2> QED
    BY <1>2, <1>10, <1>11, <2>1 DEF SegmentInPlace, InTmpBuff, Outside, End
<1>17. ExtInPlace'
  BY <1>11 DEF ExtInPlace
<1>18. HistoryHeld'
  <2>1. lz.attached => lz.size = done \/ lz.size >= KB64
    BY <1>4 DEF LinkedInv, HistoryHeld
  <2>2. lz'.attached => lz'.extSize = 0 /\ (lz'.size = done' \/ lz'.size >= KB64)
    BY <1>1, <1>2, <1>11, <2>1, AllPlaces
  <2>3. ~e.prefs.hc => ~lz.attached
    BY <1>1, <1>4 DEF LinkedInv, HistoryHeld
  <2>4. Holds(m', frames', lz'.from, lz'.size, done')
    BY <1>9, <1>11
  <2>5. Holds(m', frames', lz'.extFrom, lz'.extSize, done' - lz'.size)
    BY <1>11, NothingHeld
  <2> QED
    BY <1>10, <1>11, <2>2, <2>3, <2>4, <2>5 DEF HistoryHeld, Holds
<1> QED
  BY <1>10, <1>13, <1>14, <1>15, <1>16, <1>17, <1>18 DEF FollowInv, LinkedInv

LEMMA PreserveDictionaryFollows ==
  ASSUME EncoderSizes, EncoderInv, FollowInv, EncoderInv', PreserveDictionary
  PROVE  FollowInv'
PROOF
<1>1. /\ at = "preserve" /\ e.cStage = 1 /\ Taking /\ EncoderTypeOK /\ e \in Contexts
      /\ call' = call /\ given' = given /\ done' = done /\ block' = block /\ frames' = frames
  BY DEF PreserveDictionary, EncoderInv, CallsInPlace, EncoderTypeOK, Taking
<1>2. at' = "limits"
  <2>1. at' # "error"
    BY DEF EncoderInv, EncoderTypeOK
  <2> QED
    BY <2>1 DEF PreserveDictionary
<1>3. ~FromSrc' /\ at' # "piece" /\ Taking'
  BY <1>2 DEF FromSrc, Taking
<1>4. FromSrc <=> call.last = "fromSrcBuffer"
  BY <1>1 DEF FromSrc
<1>5. CASE ~(e.prefs.linked /\ call.last = "fromSrcBuffer")
  <2>1. e' = e /\ lz' = lz /\ m' = m
    BY <1>5 DEF PreserveDictionary
  <2>2. e.prefs.linked => (FromSrc' <=> FromSrc)
    BY <1>3, <1>4, <1>5
  <2>3. FromSrc' => FromSrc
    BY <1>3
  <2>4. FromSrc => call'.src = call.src /\ call'.stable = call.stable
    BY <1>1
  <2> QED
    BY <1>1, <1>3, <2>1, <2>2, <2>3, <2>4, NothingMoves
<1>6. CASE e.prefs.linked /\ call.last = "fromSrcBuffer" /\ call.stable
  <2> DEFINE front == TMPBUFF
  <2>1. e' = [e EXCEPT !.tmpIn = front] /\ lz' = lz /\ m' = m
    BY <1>6 DEF PreserveDictionary
  <2>2. front \in Nat /\ front = 0
    BY AllPlaces
  <2> HIDE DEF front
  <2>3. TmpInMoves(front, e.tmpInSize)
    BY <1>1, <2>1, <2>2, TmpInMoved
  <2>4. /\ e'.prefs = e.prefs /\ e'.cdict = e.cdict /\ e'.allocated = e.allocated /\ e'.cStage = 1
        /\ e'.tmpIn = front /\ e'.tmpInSize = e.tmpInSize
    BY <1>1, <2>3 DEF TmpInMoves, TmpInBecomes
  <2>5. e.tmpInSize = 0 /\ e.allocated \in Nat /\ done \in Nat
    BY <1>1, <1>4, <1>6, SizesNow DEF FollowInv, EncoderTypeOK
  <2>6. PlacesKept'
    BY <1>1, <1>3, <2>2, <2>4, <2>5 DEF FollowInv, PlacesKept, STAYING, PASSING, TMPBUFF
  <2>7. TextInPlace'
    <3>1. Holds(m', frames', e'.tmpIn, e'.tmpInSize, done' + e'.tmpInSize)
      BY <2>4, <2>5, NothingHeld
    <3> QED
      BY <1>1, <2>1, <3>1 DEF FollowInv, TextInPlace, DictionaryKept, Holds, DICT, DICTEND, STAYING,
                              PASSING, TMPBUFF
  <2>8. BlocksFollow'
    BY <1>1, <2>4 DEF FollowInv, BlocksFollow, Right
  <2>9. LinkedInv'
    <3>1. SegmentInPlace /\ ExtInPlace /\ HistoryHeld
      BY <1>1, <1>6 DEF FollowInv, LinkedInv
    <3>2. NoneYet(lz) \/ InText(lz)
      BY <1>4, <1>6, <3>1 DEF SegmentInPlace, InTmpBuff, InPiece
    <3>3. SegmentInPlace'
      BY <1>1, <1>3, <1>6, <2>1, <2>4, <3>2
      DEF front, SegmentInPlace, NoneYet, InText, End, STAYING, PASSING, TMPBUFF
    <3>4. ExtInPlace'
      BY <1>1, <2>1, <3>1 DEF ExtInPlace, Within, DICT, DICTEND, STAYING, PASSING, TMPBUFF
    <3>5. HistoryHeld'
      BY <1>1, <2>1, <2>4, <3>1 DEF HistoryHeld, Outside, Holds, STAYING, PASSING, TMPBUFF
    <3> QED
      BY <3>3, <3>4, <3>5 DEF LinkedInv
  <2> QED
    BY <1>3, <2>6, <2>7, <2>8, <2>9 DEF FollowInv
<1>7. CASE e.prefs.linked /\ call.last = "fromSrcBuffer" /\ ~call.stable
  <2>1. LZ4F_localSaveDict /\ lz.size # 0
    BY <1>2, <1>7 DEF PreserveDictionary
  <2>2. call.op # "ownFrame"
    BY <1>7 DEF EncoderInv, CallsInPlace
  <2>3. lz.size > 0
    BY <1>1, <2>1, HistoryFields DEF EncoderTypeOK
  <2>4. e.tmpInSize = 0
    BY <1>4, <1>7 DEF FollowInv
  <2> QED
    BY <1>1, <1>3, <1>7, <2>1, <2>2, <2>3, <2>4, SaveFollows
<1> QED
  BY <1>5, <1>6, <1>7

(* Beyond its limits tmpBuff is where the history is.                      *)
LEMMA BeyondFollows ==
  ASSUME EncoderSizes, EncoderInv, FollowInv, e.cStage = 1, ~e.prefs.autoFlush,
         at \in { "limits", "flushed" }, BeyondLimits, LZ4F_localSaveDict,
         call' = call, given' = given, done' = done, block' = block, frames' = frames,
         ~FromSrc', at' # "piece", Taking' => Taking
  PROVE  FollowInv'
PROOF
<1>1. EncoderTypeOK
  BY DEF EncoderInv
<1>2. /\ e.tmpIn \in Nat /\ e.tmpInSize \in Nat /\ blockSize \in Nat /\ e.maxBufferSize \in Nat
      /\ lz.size \in Nat
  BY <1>1, SizesNow, HistoryFields DEF EncoderTypeOK
<1>3. /\ call.op # "ownFrame" /\ e.prefs.linked
      /\ TMPBUFF + blockSize <= e.maxBufferSize
  BY LimitsReached
<1>4. e.tmpIn + blockSize > e.maxBufferSize
  BY <1>2, AllPlaces DEF BeyondLimits
<1>5. e.tmpInSize = 0
  <2>1. e.tmpInSize > 0 => e.tmpIn + blockSize <= e.maxBufferSize
    BY DEF EncoderInv, TmpInFits
  <2> QED
    BY <1>2, <1>4, <2>1
<1>6. lz.size > 0
  <2>1. e.tmpIn # TMPBUFF
    BY <1>2, <1>3, <1>4
  <2> QED
    BY <1>3, <2>1 DEF FollowInv, LinkedInv, SegmentInPlace, NoneYet, InTmpBuff, InText, InPiece
<1> QED
  BY <1>3, <1>5, <1>6, SaveFollows

LEMMA TmpInWithinLimitsFollows ==
  ASSUME EncoderSizes, EncoderInv, FollowInv, TmpInWithinLimits
  PROVE  FollowInv'
PROOF
<1>1. /\ at = "limits" /\ at' = "rest" /\ e.cStage = 1
      /\ call' = call /\ given' = given /\ done' = done /\ block' = block /\ frames' = frames
  BY DEF TmpInWithinLimits, EncoderInv, CallsInPlace
<1>2. ~FromSrc' /\ ~FromSrc /\ at' # "piece" /\ Taking' /\ Taking
  BY <1>1 DEF FromSrc, Taking
<1>3. CASE BeyondLimits /\ ~e.prefs.autoFlush
  BY <1>1, <1>2, <1>3, BeyondFollows DEF TmpInWithinLimits
<1>4. CASE ~(BeyondLimits /\ ~e.prefs.autoFlush)
  <2>1. e' = e /\ lz' = lz /\ m' = m
    BY <1>4 DEF TmpInWithinLimits
  <2> QED
    BY <1>1, <1>2, <2>1, NothingMoves
<1> QED
  BY <1>3, <1>4

LEMMA FlushedFollows ==
  ASSUME EncoderSizes, EncoderInv, FollowInv, Flushed
  PROVE  FollowInv'
PROOF
<1>1. /\ at = "flushed" /\ at' \in { "return", "end" } /\ e.cStage = 1 /\ ~e.prefs.autoFlush
      /\ call' = call /\ given' = given /\ done' = done /\ block' = block /\ frames' = frames
  BY DEF Flushed, AfterFlush, EncoderInv, CallsInPlace, BytesCounted
<1>2. ~FromSrc' /\ ~FromSrc /\ at' # "piece" /\ ~Taking'
  BY <1>1 DEF FromSrc, Taking
<1>3. CASE BeyondLimits
  BY <1>1, <1>2, <1>3, BeyondFollows DEF Flushed
<1>4. CASE ~BeyondLimits
  <2>1. e' = e /\ lz' = lz /\ m' = m
    BY <1>4 DEF Flushed
  <2> QED
    BY <1>1, <1>2, <2>1, NothingMoves
<1> QED
  BY <1>3, <1>4

LEMMA PlacesInOrder ==
  ASSUME EncoderSizes
  PROVE  /\ PASSING \in Nat /\ STAYING \in Nat /\ DICT \in Nat /\ DICTEND \in Nat
         /\ TMPBUFF = 0 /\ PASSING <= STAYING /\ STAYING <= DICT /\ DICT <= DICTEND /\ DICTEND \in Int
BY AllPlaces

LEMMA DoneLies ==
  ASSUME EncoderSizes, EncoderInv, PlacesKept
  PROVE  e.cStage = 1 => STAYING + done < DICT /\ e.tmpIn < PASSING
PROOF
<1> SUFFICES ASSUME e.cStage = 1
             PROVE  STAYING + done < DICT /\ e.tmpIn < PASSING
  OBVIOUS
<1>1. EncoderTypeOK
  BY DEF EncoderInv
<1>2. /\ e.tmpIn \in Nat /\ e.allocated \in Nat /\ e.tmpInSize \in Nat /\ done \in Nat
      /\ given \in Nat /\ call.n \in Nat
  BY <1>1, SizesNow DEF EncoderTypeOK
<1>3. e.tmpIn <= e.allocated /\ e.allocated <= LargestTmpBuff /\ given <= MaxText
  BY DEF PlacesKept
<1>4. done <= given
  <2>1. given = done + e.tmpInSize \/ given = done + e.tmpInSize + call.n
    <3>1. given = done + e.tmpInSize + IF Taking THEN call.n ELSE 0
      BY DEF EncoderInv, BytesCounted
    <3> QED
      BY <1>2, <3>1
  <2> QED
    BY <1>2, <2>1
<1> QED
  BY <1>2, <1>3, <1>4, AllPlaces

(* The external segment is in tmpBuff, or with the text that stays, or in  *)
(* the dictionary.                                                         *)
LEMMA ExtLies ==
  ASSUME EncoderSizes, EncoderInv, PlacesKept, LinkedInv, e.cStage = 1, lz.extSize # 0
  PROVE  /\ 0 <= lz.extFrom /\ lz.extFrom + lz.extSize <= DICTEND
         /\ \/ lz.extFrom + lz.extSize < PASSING
            \/ STAYING <= lz.extFrom /\ lz.extFrom + lz.extSize <= STAYING + done
            \/ DICT <= lz.extFrom
PROOF
<1>1. EncoderTypeOK
  BY DEF EncoderInv
<1>2. lz.extFrom \in Int /\ lz.extSize \in Nat
  BY <1>1, HistoryFields DEF EncoderTypeOK
<1>3. done \in Nat
  BY <1>1 DEF EncoderTypeOK
<1>4. \/ TMPBUFF <= lz.extFrom /\ lz.extFrom + lz.extSize < PASSING
      \/ STAYING <= lz.extFrom /\ lz.extFrom + lz.extSize <= STAYING + done
      \/ DICT <= lz.extFrom /\ lz.extFrom + lz.extSize <= DICTEND
  BY <1>2 DEF LinkedInv, ExtInPlace, Within
<1>5. STAYING + done < DICT
  BY DoneLies
<1> QED
  BY <1>2, <1>3, <1>4, <1>5, PlacesInOrder

LEMMA SegmentLies ==
  ASSUME EncoderSizes, EncoderInv, PlacesKept, LinkedInv, e.cStage = 1, ~FromSrc, lz.size # 0
  PROVE  /\ 0 <= lz.from /\ lz.from + lz.size <= DICTEND
         /\ \/ lz.from + lz.size = e.tmpIn /\ e.tmpIn < PASSING
            \/ STAYING <= lz.from /\ lz.from + lz.size = STAYING + done
PROOF
<1>1. EncoderTypeOK
  BY DEF EncoderInv
<1>2. lz.from \in Int /\ lz.size \in Nat
  BY <1>1, HistoryFields DEF EncoderTypeOK
<1>3. done \in Nat /\ e.tmpIn \in Nat
  BY <1>1, SizesNow DEF EncoderTypeOK
<1>4. \/ TMPBUFF <= lz.from /\ lz.from + lz.size = e.tmpIn
      \/ STAYING <= lz.from /\ lz.from + lz.size = STAYING + done
  BY DEF LinkedInv, SegmentInPlace, NoneYet, InTmpBuff, InText, InPiece, End
<1>5. STAYING + done < DICT /\ e.tmpIn < PASSING
  BY DoneLies
<1> QED
  BY <1>2, <1>3, <1>4, <1>5, PlacesInOrder

(* What is written elsewhere leaves the history alone; an external segment *)
(* that may be in the way is not used any more.                            *)
LEMMA HistoryStays ==
  ASSUME EncoderSizes, EncoderInv, PlacesKept, LinkedInv, e.cStage = 1, ~FromSrc,
         NEW to \in Nat, NEW s, Len(s) \in Nat,
         m' = Written(to, s), lz' = lz, done' = done, frames' = frames,
         e'.tmpIn = e.tmpIn, e'.prefs = e.prefs, ~FromSrc',
         lz.size # 0 => lz.from + lz.size <= to \/ to + Len(s) <= lz.from,
         lz.extSize # 0 /\ (Outside(lz) \/ e'.tmpInSize = 0) =>
           /\ m' = m \/ lz.extFrom + lz.extSize <= to \/ to + Len(s) <= lz.extFrom
           /\ Outside(lz) \/ e.tmpInSize = 0
  PROVE  LinkedInv'
PROOF
<1>1. EncoderTypeOK
  BY DEF EncoderInv
<1>2. /\ lz.from \in Int /\ lz.size \in Nat /\ lz.extFrom \in Int /\ lz.extSize \in Nat
  BY <1>1, HistoryFields DEF EncoderTypeOK
<1>3. done \in Int
  BY <1>1 DEF EncoderTypeOK
<1>4. done - lz.size \in Int /\ to \in Int
  BY <1>2, <1>3
<1>5. DICTEND \in Nat
  BY PlacesInOrder
<1>6. SegmentInPlace'
  BY DEF LinkedInv, SegmentInPlace, NoneYet, InTmpBuff, InText, InPiece, Outside, End, STAYING, PASSING,
         TMPBUFF
<1>7. ExtInPlace'
  BY DEF LinkedInv, ExtInPlace, Within, DICT, DICTEND, STAYING, PASSING, TMPBUFF
<1>8. Holds(m', frames, lz.from, lz.size, done)
  <2>1. CASE lz.size = 0
    BY <2>1, NothingHeld
  <2>2. CASE lz.size # 0
    <3>1. /\ 0 <= lz.from /\ lz.from + lz.size <= DICTEND
      BY <2>2, SegmentLies
    <3>2. lz.from + lz.size <= DICTEND + 1
      BY <1>2, <1>5, <3>1
    <3>3. Holds(m, frames, lz.from, lz.size, done)
      BY DEF LinkedInv, HistoryHeld
    <3> QED
      BY <1>2, <1>3, <1>4, <1>5, <2>2, <3>1, <3>2, <3>3, HeldElsewhere
  <2> QED
    BY <2>1, <2>2
<1>9. ASSUME Outside(lz) \/ e'.tmpInSize = 0
      PROVE  Holds(m', frames, lz.extFrom, lz.extSize, done - lz.size)
  <2>1. CASE lz.extSize = 0
    BY <2>1, NothingHeld
  <2>2. CASE lz.extSize # 0
    <3>1. /\ 0 <= lz.extFrom /\ lz.extFrom + lz.extSize <= DICTEND
      BY <2>2, ExtLies
    <3>2. lz.extFrom + lz.extSize <= DICTEND + 1
      BY <1>2, <1>5, <3>1
    <3>3. Holds(m, frames, lz.extFrom, lz.extSize, done - lz.size)
      BY <1>9, <2>2 DEF LinkedInv, HistoryHeld
    <3>4. m' = m \/ lz.extFrom + lz.extSize <= to \/ to + Len(s) <= lz.extFrom
      BY <1>9, <2>2
    <3>5. CASE m' = m
      BY <3>3, <3>5
    <3>6. CASE m' # m
      BY <1>2, <1>4, <1>5, <3>1, <3>2, <3>3, <3>4, <3>6, HeldElsewhere
    <3> QED
      BY <3>5, <3>6
  <2> QED
    BY <2>1, <2>2
<1>10. HistoryHeld'
  BY <1>8, <1>9 DEF LinkedInv, HistoryHeld, Outside, Holds, STAYING, PASSING, TMPBUFF
<1> QED
  BY <1>6, <1>7, <1>10 DEF LinkedInv

LEMMA TmpInWritten ==
  ASSUME EncoderSizes, EncoderInv, PlacesKept, LinkedInv, e.cStage = 1, ~FromSrc,
         NEW to \in Nat, NEW s, Len(s) \in Nat, e.tmpIn <= to, to + Len(s) <= PASSING,
         m' = Written(to, s), lz' = lz, done' = done, frames' = frames,
         e'.tmpIn = e.tmpIn, e'.prefs = e.prefs, ~FromSrc',
         s = << >> => e'.tmpInSize = e.tmpInSize, s # << >> => e'.tmpInSize # 0
  PROVE  LinkedInv'
PROOF
<1>1. EncoderTypeOK
  BY DEF EncoderInv
<1>2. lz.from \in Int /\ lz.size \in Nat /\ lz.extFrom \in Int /\ lz.extSize \in Nat
  BY <1>1, HistoryFields DEF EncoderTypeOK
<1>3. done \in Nat /\ e.tmpIn \in Nat
  BY <1>1, SizesNow DEF EncoderTypeOK
<1>4. PASSING \in Nat /\ STAYING \in Nat /\ PASSING <= STAYING
  BY PlacesInOrder
<1>5. ASSUME lz.size # 0 PROVE lz.from + lz.size <= to \/ to + Len(s) <= lz.from
  <2>1. \/ lz.from + lz.size = e.tmpIn
        \/ STAYING <= lz.from
    BY <1>5, SegmentLies
  <2> QED
    BY <1>2, <1>3, <1>4, <2>1
<1>6. ASSUME lz.extSize # 0, Outside(lz) \/ e'.tmpInSize = 0
      PROVE  /\ m' = m \/ lz.extFrom + lz.extSize <= to \/ to + Len(s) <= lz.extFrom
             /\ Outside(lz) \/ e.tmpInSize = 0
  <2>1. CASE Outside(lz)
    <3>1. STAYING <= lz.extFrom
      BY <1>6, <2>1 DEF Outside
    <3>2. to + Len(s) <= lz.extFrom
      BY <1>2, <1>4, <3>1
    <3> QED
      BY <2>1, <3>2
  <2>2. CASE ~Outside(lz)
    BY <1>6, <2>2 DEF Written
  <2> QED
    BY <2>1, <2>2
<1> QED
  BY <1>5, <1>6, HistoryStays

LEMMA CallerWrites ==
  ASSUME EncoderSizes, EncoderInv, PlacesKept, LinkedInv, e.cStage = 1, ~FromSrc,
         NEW to \in Nat, NEW s, Len(s) \in Nat, PASSING <= to, to + Len(s) <= DICT,
         to + Len(s) <= STAYING \/ STAYING + done <= to,
         m' = Written(to, s), lz' = lz, done' = done, frames' = frames, e' = e, ~FromSrc'
  PROVE  LinkedInv'
PROOF
<1>1. EncoderTypeOK
  BY DEF EncoderInv
<1>2. lz.from \in Int /\ lz.size \in Nat /\ lz.extFrom \in Int /\ lz.extSize \in Nat
  BY <1>1, HistoryFields DEF EncoderTypeOK
<1>3. done \in Nat /\ e.tmpIn \in Nat
  BY <1>1, SizesNow DEF EncoderTypeOK
<1>4. PASSING \in Nat /\ STAYING \in Nat /\ DICT \in Nat /\ PASSING <= STAYING
  BY PlacesInOrder
<1>5. ASSUME lz.size # 0 PROVE lz.from + lz.size <= to \/ to + Len(s) <= lz.from
  <2>1. \/ lz.from + lz.size = e.tmpIn /\ e.tmpIn < PASSING
        \/ STAYING <= lz.from /\ lz.from + lz.size = STAYING + done
    BY <1>5, SegmentLies
  <2> QED
    BY <1>2, <1>3, <1>4, <2>1
<1>6. ASSUME lz.extSize # 0 PROVE lz.extFrom + lz.extSize <= to \/ to + Len(s) <= lz.extFrom
  <2>1. \/ lz.extFrom + lz.extSize < PASSING
        \/ STAYING <= lz.extFrom /\ lz.extFrom + lz.extSize <= STAYING + done
        \/ DICT <= lz.extFrom
    BY <1>6, ExtLies
  <2> QED
    BY <1>2, <1>3, <1>4, <2>1
<1> QED
  BY <1>5, <1>6, HistoryStays

(* The piece, or what is left of it, goes on in tmpIn.                     *)
TmpInGrows(k) ==
  /\ e'.prefs = e.prefs /\ e'.cdict = e.cdict /\ e'.allocated = e.allocated
  /\ e'.cStage = e.cStage /\ e'.tmpIn = e.tmpIn /\ e'.tmpInSize = e.tmpInSize + k

LEMMA GrowsFollows ==
  ASSUME EncoderSizes, EncoderInv, FollowInv, e.cStage = 1, Taking, ~FromSrc,
         NEW k \in Nat, k <= call.n, k = 0 \/ e.tmpIn + e.tmpInSize + k <= e.allocated,
         m' = Written(e.tmpIn + e.tmpInSize, Segment(call.src, k)), TmpInGrows(k),
         lz' = lz, given' = given, done' = done, block' = block, frames' = frames,
         ~FromSrc', at' # "piece",
         Taking' => PieceBecomes(call.src + k, call.n - k, call'.last)
  PROVE  FollowInv'
PROOF
<1> DEFINE to == e.tmpIn + e.tmpInSize
           s  == Segment(call.src, k)
<1>1. /\ EncoderTypeOK /\ e.tmpIn \in Nat /\ e.tmpInSize \in Nat /\ e.allocated \in Nat
      /\ call.src \in Nat /\ call.n \in Nat /\ given \in Nat /\ done \in Nat /\ frames \in Nat
  BY SizesNow DEF EncoderInv, EncoderTypeOK, FollowInv, PlacesKept
<1>2. PlacesKept /\ DictionaryKept /\ Holds(m, frames, call.src, call.n, given)
      /\ Holds(m, frames, e.tmpIn, e.tmpInSize, done + e.tmpInSize)
  BY DEF FollowInv, TextInPlace
<1>3. /\ PASSING <= call.src /\ call.src + call.n <= DICT
      /\ given = done + e.tmpInSize + call.n
  BY <1>2, PieceLies
<1>4. /\ e'.prefs = e.prefs /\ e'.cdict = e.cdict /\ e'.allocated = e.allocated
      /\ e'.cStage = 1 /\ e'.tmpIn = e.tmpIn /\ e'.tmpInSize = e.tmpInSize + k
  BY DEF TmpInGrows
<1>5. to \in Nat /\ e.tmpIn <= to
  BY <1>1
<1>6. Len(s) = k /\ Len(s) \in Nat
  BY <1>1, SegmentLength
<1>7. k = 0 => s = << >>
  BY NoSegment
<1>8. s = << >> => k = 0
  BY <1>6
<1>9. k > 0 => to + Len(s) <= PASSING
  <2>1. e.allocated <= LargestTmpBuff
    BY <1>2 DEF PlacesKept
  <2>2. LargestTmpBuff \in Nat /\ PASSING = LargestTmpBuff + 1
    BY AllPlaces
  <2> HIDE DEF s
  <2>3. k > 0 => to + k <= e.allocated
    OBVIOUS
  <2> HIDE DEF to
  <2> QED
    BY <1>1, <1>5, <1>6, <2>1, <2>2, <2>3
<1>10. Holds(m, frames, call.src, k, (done + e.tmpInSize) + k)
  <2>1. Holds(m, frames, call.src, k, (given - call.n) + k)
    BY <1>1, <1>2, PrefixHeld
  <2>2. (given - call.n) + k = (done + e.tmpInSize) + k
    BY <1>1, <1>3
  <2> QED
    BY <2>1, <2>2
<1>11. m' = Written(to, s)
  OBVIOUS
<1>12. s = TextUpTo(frames, k, (done + e.tmpInSize) + k)
  <2>1. (done + e.tmpInSize) + k \in Int
    BY <1>1
  <2> QED
    BY <1>1, <1>10, <2>1, SegmentIsText
<1> HIDE DEF to, s
<1>13. Holds(m', frames, call.src, call.n, given)
  <2>1. CASE k = 0
    BY <1>2, <1>7, <1>11, <2>1 DEF Written
  <2>2. CASE k # 0
    <3>1. to + Len(s) <= PASSING
      BY <1>9, <2>2
    <3> QED
      BY <1>2, <1>5, <1>6, <1>11, <3>1, PieceStays
  <2> QED
    BY <2>1, <2>2
<1>14. Taking' => Holds(m', frames', call'.src, call'.n, given')
  <2>1. call.n - k \in 0 .. call.n /\ call.src + call.n - (call.n - k) = call.src + k
    BY <1>1
  <2>2. Holds(m', frames, call.src + call.n - (call.n - k), call.n - k, given)
    BY <1>1, <1>13, <2>1, SuffixHeld
  <2> QED
    BY <2>1, <2>2 DEF PieceBecomes
<1>15. Holds(m', frames, e.tmpIn, e.tmpInSize + k, (done + e.tmpInSize) + k)
  <2>1. CASE k = 0
    <3>1. m' = m /\ e.tmpInSize + k = e.tmpInSize /\ (done + e.tmpInSize) + k = done + e.tmpInSize
      BY <1>1, <1>7, <1>11, <2>1 DEF Written
    <3> QED
      BY <1>2, <3>1
  <2>2. CASE k # 0
    <3>1. to + Len(s) <= PASSING
      BY <1>9, <2>2
    <3>2. PASSING <= DICTEND /\ PASSING \in Nat /\ DICTEND \in Nat
      BY AllPlaces
    <3>3. DICTEND \in Int /\ e.tmpIn \in Int /\ to \in Int /\ done + e.tmpInSize \in Int
          /\ (done + e.tmpInSize) + k \in Int
      BY <1>1, <1>5, <3>2
    <3>4. Holds(m', frames, e.tmpIn, e.tmpInSize, done + e.tmpInSize)
      <4>1. e.tmpIn + e.tmpInSize <= to /\ e.tmpIn + e.tmpInSize <= DICTEND + 1 /\ 0 <= e.tmpIn
        <5>1. to <= PASSING
          BY <1>5, <1>6, <3>1, <3>2
        <5> QED
          BY <1>1, <3>2, <5>1 DEF to
      <4> QED
        BY <1>1, <1>2, <1>6, <1>11, <3>3, <4>1, HeldElsewhere
    <3>5. Holds(m', frames, to, k, (done + e.tmpInSize) + k)
      <4>1. to + k <= DICTEND + 1
        BY <1>5, <1>6, <3>1, <3>2
      <4> QED
        BY <1>1, <1>5, <1>11, <1>12, <3>3, <4>1, HeldWhenWritten
    <3>6. to = e.tmpIn + e.tmpInSize
      BY DEF to
    <3> QED
      BY <1>1, <3>3, <3>4, <3>5, <3>6, MoreHeld
  <2> QED
    BY <2>1, <2>2
<1>16. TextInPlace'
  <2>1. DictionaryKept'
    <3>1. CASE k = 0
      BY <1>2, <1>7, <1>11, <3>1 DEF Written, DictionaryKept, DICT, DICTEND, STAYING, PASSING, TMPBUFF
    <3>2. CASE k # 0
      <4>1. to + Len(s) <= DICT
        <5>1. to + Len(s) <= PASSING /\ PASSING <= DICT /\ PASSING \in Nat /\ DICT \in Nat
          BY <1>9, <3>2, AllPlaces
        <5> QED
          BY <1>5, <1>6, <5>1
      <4> QED
        BY <1>2, <1>5, <1>6, <1>11, <4>1, DictionaryStays
    <3> QED
      BY <3>1, <3>2
  <2>2. Holds(m', frames', e'.tmpIn, e'.tmpInSize, done' + e'.tmpInSize)
    <3>1. done' + e'.tmpInSize = (done + e.tmpInSize) + k
      BY <1>1, <1>4
    <3> QED
      BY <1>4, <1>15, <3>1
  <2> QED
    BY <1>14, <2>1, <2>2 DEF TextInPlace, Holds
<1>17. PlacesKept'
  <2>1. ASSUME Taking'
        PROVE  /\ call'.stable => call'.src + call'.n = STAYING + given
               /\ ~call'.stable => PASSING <= call'.src /\ call'.src + call'.n < STAYING
    <3>1. /\ call.stable => call.src + call.n = STAYING + given
          /\ ~call.stable => PASSING <= call.src /\ call.src + call.n < STAYING
      BY <1>2 DEF PlacesKept
    <3>2. call'.src = call.src + k /\ call'.n = call.n - k /\ call'.stable = call.stable
      BY <2>1 DEF PieceBecomes
    <3>3. call'.src + call'.n = call.src + call.n /\ call.src <= call'.src /\ call'.src \in Nat
      BY <1>1, <3>2
    <3>4. PASSING <= call.src /\ PASSING \in Nat
      BY <1>3, PlacesInOrder
    <3> QED
      BY <1>1, <3>1, <3>2, <3>3, <3>4
  <2> QED
    BY <1>2, <1>4, <2>1 DEF PlacesKept, STAYING, PASSING, TMPBUFF
<1>18. BlocksFollow'
  BY <1>4 DEF FollowInv, BlocksFollow, Right
<1>19. ASSUME e.prefs.linked PROVE LinkedInv'
  <2>1. LinkedInv
    BY <1>19 DEF FollowInv
  <2>2. CASE k = 0
    <3>1. m' = m /\ e'.tmpInSize = e.tmpInSize
      BY <1>1, <1>4, <1>7, <1>11, <2>2 DEF Written
    <3>2. SegmentInPlace'
      BY <1>4, <2>1, <3>1
      DEF LinkedInv, SegmentInPlace, NoneYet, InTmpBuff, InText, InPiece, Outside, End, STAYING, PASSING,
          TMPBUFF
    <3>3. ExtInPlace'
      BY <2>1 DEF LinkedInv, ExtInPlace, Within, DICT, DICTEND, STAYING, PASSING, TMPBUFF
    <3>4. HistoryHeld'
      BY <1>4, <2>1, <3>1 DEF LinkedInv, HistoryHeld, Outside, Holds, STAYING, PASSING, TMPBUFF
    <3> QED
      BY <3>2, <3>3, <3>4 DEF LinkedInv
  <2>3. CASE k # 0
    <3>1. to + Len(s) <= PASSING
      BY <1>9, <2>3
    <3>2. s # << >> /\ e'.tmpInSize # 0
      BY <1>1, <1>4, <1>8, <2>3
    <3> QED
      BY <1>2, <1>4, <1>5, <1>6, <1>11, <2>1, <3>1, <3>2, TmpInWritten
  <2> QED
    BY <2>2, <2>3
<1> QED
  BY <1>4, <1>16, <1>17, <1>18, <1>19 DEF FollowInv

LEMMA FillTmpInFollows ==
  ASSUME EncoderSizes, EncoderInv, FollowInv, FillTmpIn
  PROVE  FollowInv'
PROOF
<1> DEFINE k == IF e.tmpInSize = 0 THEN 0 ELSE Smaller(blockSize - e.tmpInSize, call.n)
<1>1. /\ at = "complete" /\ e.cStage = 1 /\ lz' = lz /\ given' = given /\ done' = done
      /\ block' = block /\ frames' = frames
      /\ m' = Written(e.tmpIn + e.tmpInSize, Segment(call.src, k))
      /\ e' = [e EXCEPT !.tmpInSize = e.tmpInSize + k]
      /\ call' = Consumed(k)
      /\ at' \in { "tmpBlock", "blocks" }
  BY DEF FillTmpIn, EncoderInv, CallsInPlace
<1>2. EncoderTypeOK /\ blockSize \in Nat \ {0} /\ call.n \in Nat /\ e \in Contexts /\ call \in Calls
      /\ e.tmpIn \in Nat /\ e.tmpInSize \in Nat /\ e.allocated \in Nat /\ e.maxBufferSize \in Nat
  BY SizesNow DEF EncoderInv, EncoderTypeOK
<1>3. e.tmpInSize < blockSize
  BY <1>1 DEF EncoderInv, TmpInFits
<1>4. /\ k \in Nat /\ k <= call.n /\ k \in 0 .. call.n /\ e.tmpInSize + k <= blockSize
      /\ e.tmpInSize = 0 => k = 0
  BY <1>2, <1>3 DEF Smaller
<1> HIDE DEF k
<1>5. call.last = "notDone"
  BY <1>1 DEF EncoderInv, BytesCounted
<1>6. PieceBecomes(call.src + k, call.n - k, call.last)
  BY <1>1, <1>2, <1>4, <1>5, PieceChanges
<1>7. TmpInGrows(k)
  <2>1. e.tmpInSize + k \in Nat
    BY <1>2, <1>4
  <2>2. TmpInMoves(e.tmpIn, e.tmpInSize + k)
    BY <1>1, <1>2, <2>1, TmpInMoved
  <2> QED
    BY <2>2 DEF TmpInMoves, TmpInBecomes, TmpInGrows
<1>8. Taking /\ ~FromSrc /\ ~FromSrc' /\ at' # "piece"
  BY <1>1, <1>5, <1>6 DEF Taking, FromSrc, PieceBecomes
<1>9. k = 0 \/ e.tmpIn + e.tmpInSize + k <= e.allocated
  <2>1. CASE e.tmpInSize = 0
    BY <1>4, <2>1
  <2>2. CASE e.tmpInSize > 0
    <3>1. ~e.prefs.autoFlush /\ e.tmpIn + blockSize <= e.maxBufferSize
      BY <1>1, <2>2 DEF EncoderInv, TmpInFits
    <3>2. e.maxBufferSize <= e.allocated
      BY <3>1 DEF EncoderInv, TmpInFits, CallsInPlace
    <3> QED
      BY <1>2, <1>4, <3>1, <3>2
  <2> QED
    BY <1>2, <2>1, <2>2
<1>10. PieceBecomes(call.src + k, call.n - k, call'.last)
  BY <1>6 DEF PieceBecomes
<1> QED
  BY <1>1, <1>4, <1>7, <1>8, <1>9, <1>10, GrowsFollows

LEMMA KeepRestFollows ==
  ASSUME EncoderSizes, EncoderInv, FollowInv, KeepRest
  PROVE  FollowInv'
PROOF
<1>1. /\ at = "rest" /\ e.cStage = 1 /\ lz' = lz /\ given' = given /\ done' = done
      /\ block' = block /\ frames' = frames
      /\ m' = Written(e.tmpIn, Segment(call.src, call.n))
      /\ at' \in { "return", "flush" }
  BY DEF KeepRest, EncoderInv, CallsInPlace
<1>2. EncoderTypeOK /\ blockSize \in Nat \ {0} /\ call.n \in Nat /\ e \in Contexts
      /\ e.tmpIn \in Nat /\ e.tmpInSize \in Nat /\ e.allocated \in Nat /\ e.maxBufferSize \in Nat
  BY SizesNow DEF EncoderInv, EncoderTypeOK
<1>3. /\ e.tmpInSize > 0 => call.n = 0
      /\ call.n < blockSize /\ (e.prefs.autoFlush => call.n = 0)
  BY <1>1 DEF EncoderInv, BytesCounted
<1>4. TmpInGrows(call.n)
  <2> DEFINE size  == IF call.n > 0 THEN call.n ELSE e.tmpInSize
             total == e.totalInSize + call.size
  <2>1. e' = [e EXCEPT !.tmpInSize = size, !.totalInSize = total]
    BY DEF KeepRest
  <2>2. size = e.tmpInSize + call.n
    BY <1>2, <1>3
  <2> HIDE DEF size, total
  <2> QED
    BY <1>2, <2>1, <2>2 DEF TmpInGrows, Contexts
<1>5. Taking /\ ~FromSrc /\ ~FromSrc' /\ ~Taking' /\ at' # "piece"
  BY <1>1 DEF Taking, FromSrc
<1>6. m' = Written(e.tmpIn + e.tmpInSize, Segment(call.src, call.n))
  <2>1. CASE call.n = 0
    BY <1>1, <2>1, NoSegment DEF Written
  <2>2. CASE call.n > 0
    <3>1. e.tmpIn + e.tmpInSize = e.tmpIn
      BY <1>2, <1>3, <2>2
    <3> QED
      BY <1>1, <3>1
  <2> QED
    BY <1>2, <2>1, <2>2
<1>7. call.n = 0 \/ e.tmpIn + e.tmpInSize + call.n <= e.allocated
  <2>1. CASE call.n > 0
    <3>1. ~e.prefs.autoFlush /\ call.op # "ownFrame"
      BY <1>2, <1>3, <2>1 DEF EncoderInv, CallsInPlace
    <3>2. e.tmpIn + blockSize <= e.maxBufferSize /\ e.maxBufferSize <= e.allocated
      BY <1>1, <3>1 DEF EncoderInv, TmpInFits
    <3> QED
      BY <1>2, <1>3, <2>1, <3>2
  <2> QED
    BY <1>2, <2>1
<1> QED
  BY <1>1, <1>2, <1>4, <1>5, <1>6, <1>7, GrowsFollows

(* A new piece is in memory where nothing lies that is still needed.       *)
LEMMA NewPieceFollows ==
  ASSUME EncoderSizes, EncoderInv, FollowInv, EncoderInv', NewPiece
  PROVE  FollowInv'
PROOF
<1> DEFINE n == call.n
           s == Text(given, given + n)
<1>1. at = "piece" /\ e.cStage = 1
  BY DEF NewPiece, EncoderInv, CallsInPlace
<1>2. /\ m' = Written(call.src, s) /\ given' = given + n /\ at' = "complete"
      /\ e' = e /\ lz' = lz /\ call' = call /\ done' = done /\ block' = block /\ frames' = frames
  <2>1. at' # "error"
    BY DEF EncoderInv, EncoderTypeOK
  <2> QED
    BY <2>1 DEF NewPiece, Refuse
<1>3. /\ EncoderTypeOK /\ e.tmpIn \in Nat /\ e.tmpInSize \in Nat /\ e.allocated \in Nat
      /\ e.maxBufferSize \in Nat /\ blockSize \in Nat
      /\ call.src \in Nat /\ n \in Nat /\ given \in Nat /\ done \in Nat /\ frames \in Nat
      /\ call.stable \in BOOLEAN
  BY SizesNow DEF EncoderInv, EncoderTypeOK, FollowInv, PlacesKept
<1>4. PlacesKept /\ DictionaryKept /\ Holds(m, frames, e.tmpIn, e.tmpInSize, done + e.tmpInSize)
  BY <1>1 DEF FollowInv, TextInPlace
<1>5. given = done + e.tmpInSize
  <2>1. given = done + e.tmpInSize + 0
    BY <1>1 DEF EncoderInv, BytesCounted, Taking
  <2> QED
    BY <1>3, <2>1
<1>6. /\ given + n <= MaxText
      /\ call.stable => call.src = STAYING + given
      /\ ~call.stable => call.src + n < STAYING
      /\ PASSING <= call.src
  BY <1>1, <1>4 DEF PlacesKept, EncoderInv, CallsInPlace
<1>7. ~Taking /\ Taking' /\ ~FromSrc
  BY <1>1, <1>2 DEF Taking, FromSrc
<1>8. ~FromSrc'
  BY <1>2 DEF FromSrc
<1>9. s = TextUpTo(frames, n, given + n)
  <2>1. \A k \in 1 .. n : Byte(frames, (given + n) - n + k) = 100 * frames + given + k
    BY <1>3 DEF Byte
  <2>2. (given + n) - given = n
    BY <1>3
  <2> HIDE DEF n
  <2>3. s = [k \in 1 .. n |-> 100 * frames + given + k]
    BY <2>2 DEF Text
  <2>4. TextUpTo(frames, n, given + n) = [k \in 1 .. n |-> Byte(frames, (given + n) - n + k)]
    BY DEF TextUpTo
  <2> HIDE DEF s
  <2> QED
    BY <2>1, <2>3, <2>4
<1>10. Len(s) = n
  <2> HIDE DEF s, n
  <2> DEFINE last == given + n
  <2>1. last \in Int
    BY <1>3
  <2>2. s = TextUpTo(frames, n, last)
    BY <1>9
  <2> HIDE DEF last
  <2> QED
    BY <1>3, <2>1, <2>2, TextFacts
<1> HIDE DEF s, n
<1>11. /\ call.src + n < DICT
       /\ call.src + n <= STAYING \/ STAYING + done <= call.src
  <2>1. CASE call.stable
    <3>1. call.src = STAYING + given
      BY <1>6, <2>1
    <3> QED
      BY <1>3, <1>5, <1>6, <3>1, AllPlaces
  <2>2. CASE ~call.stable
    <3>1. call.src + n < STAYING
      BY <1>6, <2>2
    <3> QED
      BY <1>3, <3>1, PlacesInOrder
  <2> QED
    BY <2>1, <2>2
<1>12. call.src + n <= DICT /\ DICT \in Nat /\ DICTEND \in Nat /\ DICT <= DICTEND /\ DICTEND \in Int
  BY <1>3, <1>11, PlacesInOrder
<1>13. DictionaryKept'
  BY <1>2, <1>3, <1>4, <1>10, <1>12, DictionaryStays
<1>14. Holds(m', frames, call.src, n, given + n)
  <2>1. call.src + n <= DICTEND + 1 /\ given + n \in Int
    BY <1>3, <1>12
  <2> QED
    BY <1>2, <1>3, <1>9, <1>12, <2>1, HeldWhenWritten
<1>15. Holds(m', frames, e.tmpIn, e.tmpInSize, done + e.tmpInSize)
  <2>1. CASE e.tmpInSize = 0
    BY <2>1, NothingHeld
  <2>2. CASE e.tmpInSize # 0
    <3>1. /\ ~e.prefs.autoFlush /\ e.tmpIn + blockSize <= e.maxBufferSize
          /\ e.maxBufferSize <= e.allocated /\ e.tmpInSize < blockSize
      BY <1>1, <2>2 DEF EncoderInv, TmpInFits, CallsInPlace
    <3>2. e.allocated <= LargestTmpBuff
      BY <1>4 DEF PlacesKept
    <3>3. e.tmpIn + e.tmpInSize <= PASSING
      BY <1>3, <3>1, <3>2, AllPlaces
    <3>4. e.tmpIn + e.tmpInSize <= call.src /\ e.tmpIn + e.tmpInSize <= DICTEND + 1 /\ 0 <= e.tmpIn
      BY <1>3, <1>6, <3>3, PlacesInOrder
    <3>5. e.tmpIn \in Int /\ done + e.tmpInSize \in Int /\ call.src \in Int /\ Len(s) \in Nat
      BY <1>3, <1>10
    <3> QED
      BY <1>2, <1>3, <1>4, <1>12, <3>4, <3>5, HeldElsewhere
  <2> QED
    BY <2>1, <2>2
<1>16. TextInPlace'
  BY <1>2, <1>13, <1>14, <1>15 DEF TextInPlace, Holds, n
<1>17. PlacesKept'
  <2>1. /\ call.stable => call.src + n = STAYING + (given + n)
        /\ ~call.stable => PASSING <= call.src /\ call.src + n < STAYING
    <3>1. STAYING \in Nat
      BY PlacesInOrder
    <3> QED
      BY <1>3, <1>6, <3>1
  <2> QED
    BY <1>2, <1>4, <1>6, <2>1 DEF PlacesKept, STAYING, PASSING, TMPBUFF, n
<1>18. BlocksFollow'
  BY <1>2 DEF FollowInv, BlocksFollow, Right
<1>19. ASSUME e.prefs.linked PROVE LinkedInv'
  <2>1. LinkedInv
    BY <1>1, <1>19 DEF FollowInv
  <2> QED
    BY <1>1, <1>2, <1>3, <1>4, <1>6, <1>7, <1>8, <1>10, <1>11, <1>12, <2>1, CallerWrites
<1> QED
  BY <1>2, <1>8, <1>16, <1>17, <1>18, <1>19 DEF FollowInv

(* A piece that passes is gone after the call.                             *)
LEMMA ReturnFollows ==
  ASSUME EncoderSizes, EncoderInv, FollowInv, Return
  PROVE  FollowInv'
PROOF
<1> DEFINE n == STAYING - PASSING
           s == [k \in 1 .. n |-> Unknown]
<1>1. /\ at = "return" /\ at' = "idle" /\ block' = NoBlock /\ m' = Written(PASSING, s)
      /\ e' = e /\ lz' = lz /\ given' = given /\ done' = done
  BY DEF Return, Forgotten
<1>2. call.op = "ownFrame" => e.cStage = 0
  BY <1>1 DEF EncoderInv, CallsInPlace
<1>3. frames' = IF call.op = "ownFrame" THEN MaxFrames ELSE frames
  BY DEF Return
<1>4. /\ EncoderTypeOK /\ e.tmpIn \in Nat /\ e.tmpInSize \in Nat /\ e.allocated \in Nat
      /\ e.maxBufferSize \in Nat /\ blockSize \in Nat
      /\ given \in Nat /\ done \in Nat /\ frames \in Nat
  BY SizesNow DEF EncoderInv, EncoderTypeOK, FollowInv, PlacesKept
<1>5. PlacesKept /\ DictionaryKept
  BY <1>1 DEF FollowInv, TextInPlace
<1>6. n \in Nat /\ PASSING + n = STAYING
  BY PlacesInOrder
<1> HIDE DEF n
<1>7. Len(s) = n
  BY <1>6
<1> HIDE DEF s
<1>8. /\ PASSING \in Nat /\ STAYING \in Nat /\ DICT \in Nat /\ DICTEND \in Nat
      /\ PASSING <= STAYING /\ STAYING <= DICT /\ DICT <= DICTEND
  BY PlacesInOrder
<1>9. PASSING + Len(s) <= STAYING /\ PASSING + Len(s) <= DICT /\ Len(s) \in Nat
  BY <1>6, <1>7, <1>8
<1>10. ~FromSrc /\ ~FromSrc' /\ ~Taking'
  BY <1>1 DEF FromSrc, Taking
<1>11. DictionaryKept'
  BY <1>1, <1>5, <1>8, <1>9, DictionaryStays
<1>12. frames' \in Nat
  BY <1>3, <1>4 DEF EncoderSizes
<1>13. PlacesKept'
  BY <1>1, <1>5, <1>10, <1>12 DEF PlacesKept, STAYING, PASSING, TMPBUFF
<1>14. BlocksFollow'
  BY <1>1 DEF BlocksFollow, NoBlock
<1>15. CASE e.cStage = 0
  BY <1>1, <1>10, <1>11, <1>13, <1>14, <1>15 DEF FollowInv, TextInPlace
<1>16. CASE e.cStage = 1
  <2>1. frames' = frames
    BY <1>2, <1>3, <1>16
  <2>2. Holds(m', frames, e.tmpIn, e.tmpInSize, done + e.tmpInSize)
    <3>1. CASE e.tmpInSize = 0
      BY <3>1, NothingHeld
    <3>2. CASE e.tmpInSize # 0
      <4>1. /\ ~e.prefs.autoFlush /\ e.tmpIn + blockSize <= e.maxBufferSize
            /\ e.maxBufferSize <= e.allocated /\ e.tmpInSize < blockSize
        BY <1>1, <1>2, <1>16, <3>2 DEF EncoderInv, TmpInFits
      <4>2. e.allocated <= LargestTmpBuff
        BY <1>5 DEF PlacesKept
      <4>3. e.tmpIn + e.tmpInSize <= PASSING
        BY <1>4, <4>1, <4>2, AllPlaces
      <4>4. e.tmpIn + e.tmpInSize <= DICTEND + 1 /\ 0 <= e.tmpIn
        BY <1>4, <1>8, <4>3
      <4>5. e.tmpIn \in Int /\ done + e.tmpInSize \in Int /\ PASSING \in Int /\ DICTEND \in Int
        BY <1>4, <1>8
      <4>6. Holds(m, frames, e.tmpIn, e.tmpInSize, done + e.tmpInSize)
        BY <1>16 DEF FollowInv, TextInPlace
      <4> QED
        BY <1>1, <1>4, <1>9, <4>3, <4>4, <4>5, <4>6, HeldElsewhere
    <3> QED
      BY <3>1, <3>2
  <2>3. TextInPlace'
    BY <1>1, <1>10, <1>11, <2>1, <2>2 DEF TextInPlace, Holds
  <2>4. ASSUME e.prefs.linked PROVE LinkedInv'
    <3>1. LinkedInv
      BY <1>16, <2>4 DEF FollowInv
    <3>2. PASSING <= PASSING
      BY <1>8
    <3> QED
      BY <1>1, <1>5, <1>8, <1>9, <1>10, <1>16, <2>1, <3>1, <3>2, CallerWrites
  <2> QED
    BY <1>1, <1>10, <1>13, <1>14, <2>3, <2>4 DEF FollowInv
<1>17. e.cStage \in 0 .. 1
  BY <1>4, SizesNow
<1> QED
  BY <1>15, <1>16, <1>17

LEMMA EndFrameFollows ==
  ASSUME EncoderSizes, EncoderInv, FollowInv, EncoderInv', EndFrame
  PROVE  FollowInv'
PROOF
<1>1. at = "end" /\ e \in Contexts
  BY DEF EndFrame, EncoderInv, EncoderTypeOK
<1>2. /\ e' = [e EXCEPT !.cStage = 0, !.maxBufferSize = 0] /\ at' = "return"
      /\ lz' = lz /\ m' = m /\ call' = call /\ given' = given /\ done' = done /\ block' = block
      /\ frames' = frames
  <2>1. at' # "error"
    BY DEF EncoderInv, EncoderTypeOK
  <2> QED
    BY <2>1 DEF EndFrame, Refuse
<1>3. e'.cStage = 0 /\ e'.prefs = e.prefs /\ e'.cdict = e.cdict /\ e'.allocated = e.allocated
  <2> DEFINE zero == 0
  <2>1. e' = [e EXCEPT !.cStage = zero, !.maxBufferSize = zero]
    BY <1>2
  <2> HIDE DEF zero
  <2>2. e'.cStage = zero /\ e'.prefs = e.prefs /\ e'.cdict = e.cdict /\ e'.allocated = e.allocated
    BY <1>1, <2>1 DEF Contexts
  <2> QED
    BY <2>2 DEF zero
<1>4. ~FromSrc' /\ ~Taking'
  BY <1>2 DEF FromSrc, Taking
<1>5. PlacesKept'
  BY <1>2, <1>3, <1>4 DEF FollowInv, PlacesKept, STAYING, PASSING, TMPBUFF
<1>6. TextInPlace'
  BY <1>2, <1>3, <1>4 DEF FollowInv, TextInPlace, DictionaryKept, DICT, DICTEND, STAYING, PASSING, TMPBUFF
<1>7. BlocksFollow'
  BY <1>2, <1>3 DEF FollowInv, BlocksFollow, Right
<1> QED
  BY <1>3, <1>4, <1>5, <1>6, <1>7 DEF FollowInv

LEMMA CompressUpdateFollows ==
  ASSUME EncoderSizes, EncoderInv, FollowInv, LZ4F_compressUpdate
  PROVE  FollowInv'
PROOF
<1>1. /\ at = "idle" /\ e.cStage = 1 /\ at' = "piece"
      /\ e' = e /\ lz' = lz /\ m' = m /\ given' = given /\ done' = done /\ block' = block
      /\ frames' = frames
  BY DEF LZ4F_compressUpdate
<1>2. PICK n \in 0 .. MaxPiece, stable \in BOOLEAN :
        /\ given + n <= MaxText
        /\ call' = [op |-> "update", src |-> IF stable THEN STAYING + given ELSE PASSING,
                    n |-> n, size |-> n, stable |-> stable,
                    capacity |-> LZ4F_compressBound(n, e.prefs), last |-> "notDone"]
  BY DEF LZ4F_compressUpdate
<1> DEFINE src  == IF stable THEN STAYING + given ELSE PASSING
           room == LZ4F_compressBound(n, e.prefs)
<1>3. /\ stable => src = STAYING + given
      /\ ~stable => src = PASSING
  OBVIOUS
<1> HIDE DEF src, room
<1>4. call'.src = src /\ call'.n = n /\ call'.stable = stable /\ given + call'.n <= MaxText
  BY <1>2 DEF src, room
<1>5. PASSING + n < STAYING
  BY AllPlaces
<1>6. ~FromSrc /\ ~FromSrc' /\ ~Taking'
  BY <1>1 DEF FromSrc, Taking
<1> QED
  BY <1>1, <1>3, <1>4, <1>5, <1>6, NothingMoves

LEMMA FlushOrEndFollows ==
  ASSUME EncoderSizes, EncoderInv, FollowInv, NEW name, FlushOrEnd(name)
  PROVE  FollowInv'
PROOF
<1>1. /\ at = "idle" /\ at' = "flush"
      /\ e' = e /\ lz' = lz /\ m' = m /\ given' = given /\ done' = done /\ block' = block
      /\ frames' = frames
  BY DEF FlushOrEnd
<1>2. ~FromSrc /\ ~FromSrc' /\ ~Taking' /\ at' # "piece"
  BY <1>1 DEF FromSrc, Taking
<1> QED
  BY <1>1, <1>2, NothingMoves

(* A frame begins with no history but the dictionary.                      *)
LEMMA BeginsFresh ==
  ASSUME NEW x \in Contexts, NEW z, NEW prefs \in Preferences, NEW cdict \in Nat,
         LZ4F_compressBegin_usingCDict(x, z, prefs, cdict)
  PROVE  /\ e'.prefs = prefs /\ e'.cStage = 1 /\ e'.cdict = cdict
         /\ e'.tmpIn = TMPBUFF /\ e'.tmpInSize = 0
         /\ e'.allocated \in { x.allocated, Required(prefs) }
         /\ m' = m \/ m' = Forgotten(TMPBUFF, PASSING)
         /\ done' = 0 /\ block' = NoBlock /\ frames' = frames + 1
         /\ prefs.linked => /\ lz'.from = NULL /\ lz'.size = 0
                            /\ lz'.extFrom = NULL /\ lz'.extSize = 0
PROOF
<1> DEFINE more  == x.maxBufferSize < Required(prefs)
           alloc == IF x.lz4CtxAlloc < ContextType(prefs) THEN ContextType(prefs) ELSE x.lz4CtxAlloc
           max   == IF more THEN Required(prefs) ELSE x.maxBufferSize
           got   == IF more THEN Required(prefs) ELSE x.allocated
           total == IF prefs.contentSize > 0 THEN 0 ELSE x.totalInSize
           zero  == 0
           one   == 1
           type  == ContextType(prefs)
           front == TMPBUFF
           any   == cdict > 0
<1>1. /\ e' = [x EXCEPT !.prefs = prefs, !.cdict = cdict, !.cStage = one, !.lz4CtxAlloc = alloc,
                 !.lz4CtxState = type, !.maxBufferSize = max, !.allocated = got,
                 !.tmpIn = front, !.tmpInSize = zero, !.totalInSize = total]
      /\ prefs.linked => lz' = [NoHistory EXCEPT !.attached = any]
      /\ m' = m \/ m' = Forgotten(TMPBUFF, PASSING)
      /\ done' = 0 /\ block' = NoBlock /\ frames' = frames + 1
  BY DEF LZ4F_compressBegin_usingCDict, LZ4F_initStream, Contexts
<1>2. got \in { x.allocated, Required(prefs) }
  OBVIOUS
<1> HIDE DEF more, alloc, max, got, total, zero, one, type, front, any
<1>3. /\ e'.prefs = prefs /\ e'.cStage = one /\ e'.cdict = cdict
      /\ e'.tmpIn = front /\ e'.tmpInSize = zero /\ e'.allocated = got
  BY <1>1 DEF Contexts
<1>4. prefs.linked => /\ lz'.from = NULL /\ lz'.size = 0 /\ lz'.extFrom = NULL /\ lz'.extSize = 0
  BY <1>1 DEF NoHistory
<1> QED
  BY <1>1, <1>2, <1>3, <1>4 DEF zero, one, front

LEMMA BeginsFollowing ==
  ASSUME EncoderSizes, FollowInv, EncoderInv',
         NEW x \in Contexts, NEW z, NEW prefs \in Preferences, NEW cdict \in Nat,
         LZ4F_compressBegin_usingCDict(x, z, prefs, cdict),
         x.allocated <= LargestTmpBuff, Required(prefs) <= LargestTmpBuff, cdict <= KB64,
         given' = 0, at' \in { "idle", "piece" },
         at' = "piece" => call'.stable /\ call'.src = STAYING /\ call'.n <= MaxText
  PROVE  FollowInv'
PROOF
<1>1. /\ e'.prefs = prefs /\ e'.cStage = 1 /\ e'.cdict = cdict
      /\ e'.tmpIn = TMPBUFF /\ e'.tmpInSize = 0
      /\ e'.allocated \in { x.allocated, Required(prefs) }
      /\ m' = m \/ m' = Forgotten(TMPBUFF, PASSING)
      /\ done' = 0 /\ block' = NoBlock /\ frames' = frames + 1
      /\ prefs.linked => lz'.from = NULL /\ lz'.size = 0 /\ lz'.extFrom = NULL /\ lz'.extSize = 0
  BY BeginsFresh
<1>2. e'.allocated \in Nat /\ call'.n \in Nat
  BY DEF EncoderInv, EncoderTypeOK, Contexts, Calls
<1>3. e'.allocated <= LargestTmpBuff
  BY <1>1
<1>4. DictionaryKept /\ frames \in Nat
  BY DEF FollowInv, TextInPlace, PlacesKept
<1>5. ~FromSrc' /\ ~Taking'
  BY DEF FromSrc, Taking
<1>6. MaxText \in Nat /\ TMPBUFF = 0 /\ PASSING \in Nat /\ DICT \in Nat /\ PASSING <= DICT /\ STAYING \in Nat
  <2>1. PASSING <= STAYING /\ STAYING <= DICT /\ PASSING \in Nat /\ STAYING \in Nat /\ DICT \in Nat
    BY PlacesInOrder
  <2> QED
    BY <2>1, PlacesInOrder DEF EncoderSizes
<1>7. DictionaryKept'
  <2>1. CASE m' = m
    BY <1>4, <2>1 DEF DictionaryKept, DICT, DICTEND, STAYING, PASSING, TMPBUFF
  <2>2. CASE m' = Forgotten(TMPBUFF, PASSING)
    <3> DEFINE s == [k \in 1 .. PASSING |-> Unknown]
    <3>1. m' = Written(TMPBUFF, s)
      BY <2>2 DEF Forgotten
    <3>2. Len(s) = PASSING
      BY <1>6
    <3> HIDE DEF s
    <3>3. TMPBUFF \in Nat /\ Len(s) \in Nat /\ TMPBUFF + Len(s) <= DICT
      BY <1>6, <3>2
    <3> QED
      BY <1>4, <3>1, <3>3, DictionaryStays
  <2> QED
    BY <1>1, <2>1, <2>2
<1>8. PlacesKept'
  <2>1. e'.tmpIn <= e'.allocated
    BY <1>1, <1>2, <1>6
  <2>2. at' = "piece" => /\ given' + call'.n <= MaxText
                         /\ call'.src = STAYING + given'
    BY <1>2, <1>6
  <2>3. given' <= MaxText /\ frames' \in Nat
    BY <1>1, <1>4, <1>6
  <2> QED
    BY <1>1, <1>3, <1>5, <2>1, <2>2, <2>3 DEF PlacesKept, STAYING, PASSING, TMPBUFF
<1>9. TextInPlace'
  <2>1. Holds(m', frames', e'.tmpIn, e'.tmpInSize, done' + e'.tmpInSize)
    BY <1>1, NothingHeld
  <2> QED
    BY <1>5, <1>7, <2>1 DEF TextInPlace, Holds
<1>10. BlocksFollow'
  BY <1>1 DEF BlocksFollow, NoBlock
<1>11. ASSUME prefs.linked PROVE LinkedInv'
  <2>1. SegmentInPlace'
    BY <1>1, <1>11 DEF SegmentInPlace, NoneYet, NULL, TMPBUFF
  <2>2. ExtInPlace'
    BY <1>1, <1>11 DEF ExtInPlace
  <2>3. Holds(m', frames', lz'.from, lz'.size, done') /\ Holds(m', frames', lz'.extFrom, lz'.extSize, done' - lz'.size)
    BY <1>1, <1>11, NothingHeld
  <2>4. HistoryHeld'
    BY <1>1, <1>11, <2>3 DEF HistoryHeld, Holds
  <2> QED
    BY <2>1, <2>2, <2>4 DEF LinkedInv
<1> QED
  BY <1>1, <1>5, <1>8, <1>9, <1>10, <1>11 DEF FollowInv

LEMMA CompressBeginFollows ==
  ASSUME EncoderSizes, EncoderInv, FollowInv, EncoderInv', LZ4F_compressBegin
  PROVE  FollowInv'
PROOF
<1>1. at' = "idle" /\ given' = 0
  BY DEF LZ4F_compressBegin
<1>2. PICK prefs \in Prefs, size \in DictSizes :
        LZ4F_compressBegin_usingCDict(e, lz, prefs, LZ4F_createCDict(size))
  BY DEF LZ4F_compressBegin
<1>3. e \in Contexts /\ e.allocated <= LargestTmpBuff
  BY DEF EncoderInv, EncoderTypeOK, FollowInv, PlacesKept
<1>4. /\ prefs \in Preferences /\ Required(prefs) <= LargestTmpBuff
      /\ LZ4F_createCDict(size) \in Nat /\ LZ4F_createCDict(size) <= KB64
  BY DEF EncoderSizes, LZ4F_createCDict, Smaller
<1> QED
  BY <1>1, <1>2, <1>3, <1>4, BeginsFollowing

LEMMA CompressFrameFollows ==
  ASSUME EncoderSizes, EncoderInv, FollowInv, EncoderInv', LZ4F_compressFrame
  PROVE  FollowInv'
PROOF
<1>1. PICK prefs \in Prefs, size \in DictSizes, n \in 0 .. MaxText, own \in BOOLEAN :
        LET p == FramePrefs(prefs, n)
            dstCapacity == LZ4F_compressFrameBound(n, prefs)
        IN  /\ own => frames = 0 /\ size = 0
            /\ LZ4F_compressBegin_usingCDict(
                 IF own THEN NewContext(80 * KB64, IF p.hc THEN 0 ELSE 1) ELSE e, lz, p,
                 LZ4F_createCDict(size))
            /\ call' = [op |-> IF own THEN "ownFrame" ELSE "frame", src |-> STAYING, n |-> n, size |-> n,
                        stable |-> TRUE, capacity |-> dstCapacity, last |-> "notDone"]
            /\ written' = HeaderSize(p)
            /\ IF dstCapacity < LZ4F_compressFrameBound(n, p)
               THEN outcome' = "tooSmall" /\ at' = "error"
               ELSE outcome' = "none" /\ at' = "piece"
  BY DEF LZ4F_compressFrame
<1> DEFINE p     == FramePrefs(prefs, n)
           x     == IF own THEN NewContext(80 * KB64, IF p.hc THEN 0 ELSE 1) ELSE e
           cdict == LZ4F_createCDict(size)
<1>2. given' = 0 /\ at' # "error"
  BY DEF LZ4F_compressFrame, EncoderInv, EncoderTypeOK
<1>3. /\ LZ4F_compressBegin_usingCDict(x, lz, p, cdict)
      /\ call'.src = STAYING /\ call'.n = n /\ call'.stable /\ at' = "piece"
  BY <1>1, <1>2
<1>4. /\ prefs \in Preferences /\ Required(prefs) <= LargestTmpBuff /\ LargestTmpBuff \in Nat
      /\ KB64 \in Nat /\ MaxText \in Nat
      /\ cdict \in Nat /\ cdict <= KB64
  BY DEF EncoderSizes, LZ4F_createCDict, Smaller
<1>5. n \in Nat /\ n <= MaxText
  BY <1>4
<1>6. p \in Preferences /\ p.autoFlush
  BY <1>4, <1>5, BoundForFrame
<1>7. p.linked => prefs.linked
  <2> DEFINE id   == LZ4F_optimalBSID(prefs.blockSizeID, n)
             most == IF prefs.contentSize = 0 THEN 0 ELSE n
             more == n > LZ4F_getBlockSize(id)
             both == prefs.linked /\ more
             yes  == TRUE
  <2>1. p = [prefs EXCEPT !.contentSize = most, !.blockSizeID = id, !.autoFlush = yes, !.linked = both]
    BY <1>4 DEF FramePrefs, Preferences
  <2>2. both => prefs.linked
    OBVIOUS
  <2> HIDE DEF id, most, more, both, yes, p
  <2>3. p.linked = both
    BY <1>4, <2>1 DEF Preferences
  <2> QED
    BY <2>2, <2>3
<1>8. Required(p) <= LargestTmpBuff
  <2>1. p.linked => KB64 <= Required(prefs)
    BY <1>4, <1>7, RequiredRoom
  <2>2. Required(prefs) \in Nat
    BY <1>4, RequiredRoom
  <2>3. Required(p) \in { 0, KB64 } /\ (Required(p) = KB64 => p.linked \/ KB64 = 0)
    <3> HIDE DEF p
    <3> QED
      BY <1>4, <1>6 DEF Required
  <2> QED
    BY <1>4, <2>1, <2>2, <2>3
<1>9. x \in Contexts /\ x.allocated <= LargestTmpBuff
  <2> DEFINE type == IF p.hc THEN 0 ELSE 1
             much == 80 * KB64
             some == CHOOSE q \in Prefs : TRUE
             zero == 0
             front == TMPBUFF
  <2>1. type \in 0 .. 2 /\ much \in Nat /\ zero \in Nat /\ zero \in 0 .. 1 /\ front \in Nat
    BY <1>4, Places
  <2>2. some \in Preferences
    <3>1. \E q \in Prefs : TRUE
      BY DEF EncoderSizes
    <3> QED
      BY <3>1 DEF EncoderSizes
  <2>3. x = IF own THEN [cStage |-> zero, prefs |-> some, cdict |-> zero, lz4CtxAlloc |-> type,
                         lz4CtxState |-> type, maxBufferSize |-> much, allocated |-> zero,
                         tmpIn |-> front, tmpInSize |-> zero, totalInSize |-> zero]
            ELSE e
    BY DEF NewContext
  <2>4. e \in Contexts /\ e.allocated <= LargestTmpBuff
    BY DEF EncoderInv, EncoderTypeOK, FollowInv, PlacesKept
  <2>5. zero <= LargestTmpBuff
    BY <1>4
  <2> HIDE DEF type, much, some, zero, front, x
  <2> QED
    BY <2>1, <2>2, <2>3, <2>4, <2>5 DEF Contexts
<1> HIDE DEF p, x, cdict
<1> QED
  BY <1>2, <1>3, <1>4, <1>5, <1>6, <1>8, <1>9, BeginsFollowing

LEMMA EncoderInitFollows ==
  ASSUME EncoderSizes, EncoderInit
  PROVE  FollowInv
PROOF
<1>1. EncoderInv
  BY EncoderInitInv
<1>2. e.cStage = 0 /\ e.cdict = 0 /\ e.allocated = 0
  BY DEF EncoderInit, NewContext
<1>3. at = "idle" /\ given = 0 /\ frames = 0 /\ block = NoBlock
  BY DEF EncoderInit
<1>4. ~FromSrc /\ ~Taking
  BY <1>3 DEF FromSrc, Taking
<1>5. PlacesKept
  BY <1>2, <1>3, <1>4 DEF PlacesKept, EncoderSizes
<1>6. DictionaryKept
  <2>1. \A a \in DICT .. DICTEND : a \in Addresses /\ a >= DICT
    BY PlacesInOrder DEF Addresses
  <2>2. \A a \in Addresses : m[a] = IF a >= DICT THEN a - DICTEND + 1 ELSE Unknown
    BY DEF EncoderInit
  <2> QED
    BY <2>1, <2>2 DEF DictionaryKept
<1>7. TextInPlace
  BY <1>2, <1>4, <1>6 DEF TextInPlace
<1>8. BlocksFollow
  BY <1>3 DEF BlocksFollow
<1> QED
  BY <1>2, <1>4, <1>5, <1>7, <1>8 DEF FollowInv

LEMMA FollowStep ==
  ASSUME EncoderSizes, EncoderInv, FollowInv, EncoderInv', [EncoderNext \/ AllWritten]_encoderVars
  PROVE  FollowInv'
PROOF
<1>1. CASE EncoderNext
  <2>1. CASE LZ4F_flush \/ LZ4F_compressEnd
    BY <2>1, FlushOrEndFollows DEF LZ4F_flush, LZ4F_compressEnd
  <2>2. CASE LZ4F_compressBegin \/ LZ4F_compressFrame \/ LZ4F_compressUpdate
    BY <2>2, CompressBeginFollows, CompressFrameFollows, CompressUpdateFollows
  <2>3. CASE NewPiece \/ FillTmpIn \/ TmpBlock \/ SrcBlock
    BY <2>3, NewPieceFollows, FillTmpInFollows, TmpBlockFollows, SrcBlockFollows
  <2>4. CASE PreserveDictionary \/ TmpInWithinLimits \/ KeepRest \/ Return
    BY <2>4, PreserveDictionaryFollows, TmpInWithinLimitsFollows, KeepRestFollows, ReturnFollows
  <2>5. CASE FlushBlock \/ Flushed \/ EndFrame
    BY <2>5, FlushBlockFollows, FlushedFollows, EndFrameFollows
  <2> QED
    BY <1>1, <2>1, <2>2, <2>3, <2>4, <2>5 DEF EncoderNext
<1>2. CASE UNCHANGED encoderVars
  <2>1. /\ e' = e /\ lz' = lz /\ m' = m /\ call' = call /\ given' = given /\ done' = done
        /\ block' = block /\ at' = at /\ frames' = frames
    BY <1>2 DEF encoderVars
  <2>2. (FromSrc' <=> FromSrc) /\ (Taking' <=> Taking)
    BY <2>1 DEF FromSrc, Taking
  <2>3. at = "piece" =>
          /\ given + call.n <= MaxText
          /\ call.stable => call.src = STAYING + given
          /\ ~call.stable => call.src + call.n < STAYING
    BY DEF FollowInv, PlacesKept
  <2> QED
    BY <2>1, <2>2, <2>3, NothingMoves
<1> QED
  BY <1>1, <1>2 DEF AllWritten

(* The decoder will have, before each block, the very bytes the block      *)
(* refers to: those of the text right in front of it, and of the dictionary*)
(* in front of that; a block that is not linked refers to the dictionary   *)
(* alone.  And the blocks make up the text without gaps.  This for frames  *)
(* of both compressors, however the text is cut into pieces, and whether   *)
(* the caller keeps them or overwrites them.                               *)
THEOREM BlocksOfTheText ==
  ASSUME EncoderSizes
  PROVE  EncoderSpec => []BlocksFollow
PROOF
<1>1. EncoderInit => FollowInv
  BY EncoderInitFollows
<1>2. EncoderInv /\ EncoderInv' /\ FollowInv /\ [EncoderNext \/ AllWritten]_encoderVars => FollowInv'
  BY FollowStep
<1>3. FollowInv => BlocksFollow
  BY DEF FollowInv
<1> QED
  BY <1>1, <1>2, <1>3, EncoderInvariant, PTL DEF EncoderSpec
=============================================================================
