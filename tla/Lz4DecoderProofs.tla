-------------------------- MODULE Lz4DecoderProofs --------------------------
(***************************************************************************)
(* Theorems about LZ4_decompress_generic, for blocks, outputs, prefixes    *)
(* and dictionaries of any size, and whatever the bytes of the block say;  *)
(* about LZ4F_decompress, for frames, buffers and pieces of any size; and  *)
(* about LZ4_decompress_safe_continue in a ring buffer.                    *)
(***************************************************************************)
EXTENDS Lz4Decoder, Lz4FrameDecoder, TLAPS

(* A byte of the block is a byte, half a token half a byte, an offset two. *)
HalfBytes == 0 .. 15
Octets     == 0 .. 255
Shorts    == 0 .. 65535

DecoderArguments ==
  /\ Calls \subseteq CallType
  /\ Codes \subseteq HalfBytes /\ Extra \subseteq Octets /\ Offsets \subseteq Shorts

Labels == { "begin", "fast", "fastMatch", "safe", "match", "done", "error" }

(* The margins the decoder has at a label: a token to read and room for    *)
(* the wide copies of the fast loop, an offset and the byte behind it, the *)
(* room MFLIMIT that literals leave to the match that follows them.        *)
Margin(label, i, o) ==
  /\ i \in 0 .. iend /\ o \in 0 .. oend
  /\ label = "begin" => i = 0 /\ o = 0
  /\ label \in { "fast", "safe" } => i < iend
  /\ label = "fast" => o <= oend - 64
  /\ label = "fastMatch" => i <= iend - 3 /\ o <= oend - 32
  /\ label = "match" => i <= iend - 3 /\ (call.partialDecoding \/ o <= oend - 12)
  /\ label = "done" =>
       oend = 0 \/ IF call.partialDecoding THEN o = oend \/ i >= iend - 2 ELSE i = iend

(* The inductive invariant.                                                *)
DecoderInv ==
  /\ call \in Calls
  /\ pc \in Labels
  /\ code \in HalfBytes
  /\ Margin(pc, ip, op)
  /\ InsideBuffers

-----------------------------------------------------------------------------
LEMMA CallFacts ==
  ASSUME DecoderArguments, call \in Calls
  PROVE  /\ iend \in Nat /\ oend \in Nat /\ call.dictSize \in Nat
         /\ lowPrefix \in Int /\ lowPrefix <= 0
         /\ call.partialDecoding \in BOOLEAN
         /\ call.dict = "withPrefix64k" => lowPrefix = -65536
         /\ call.dict # "usingExtDict" => call.dictSize = 0
PROOF
<1>1. Calls \subseteq CallType
  BY Zenon DEF DecoderArguments
<1>2. call \in CallType
  BY Zenon, <1>1
<1> QED
  BY <1>2 DEF CallType, iend, oend, lowPrefix, Distance64KB

(* Steps of 8 or of 32 write less than one step too much.                  *)
LEMMA WildCopies ==
  ASSUME NEW n \in Nat
  PROVE  /\ WildCopy8(n) \in Nat /\ n <= WildCopy8(n) /\ 8 <= WildCopy8(n)
         /\ WildCopy8(n) <= n + 8 /\ (n > 0 => WildCopy8(n) <= n + 7)
         /\ WildCopy32(n) \in Nat /\ n <= WildCopy32(n)
         /\ (n > 0 => WildCopy32(n) <= n + 31)
PROOF
<1> DEFINE k == Most(n, 1)
<1>1. k \in Nat /\ k >= 1 /\ n <= k /\ k <= n + 1 /\ (n > 0 => k = n)
  BY DEF Most
<1> HIDE DEF k
<1>2. 8 * ((k + 7) \div 8) \in Nat /\ k <= 8 * ((k + 7) \div 8) /\ 8 * ((k + 7) \div 8) <= k + 7
  BY <1>1
<1>3. 8 <= 8 * ((k + 7) \div 8)
  BY <1>1
<1>4. 32 * ((k + 31) \div 32) \in Nat /\ k <= 32 * ((k + 31) \div 32)
      /\ 32 * ((k + 31) \div 32) <= k + 31
  BY <1>1
<1>5. WildCopy8(n) = 8 * ((k + 7) \div 8) /\ WildCopy32(n) = 32 * ((k + 31) \div 32)
  BY DEF WildCopy8, WildCopy32, k
<1> DEFINE w == 8 * ((k + 7) \div 8)
           u == 32 * ((k + 31) \div 32)
<1>6. /\ WildCopy8(n) = w /\ WildCopy32(n) = u
      /\ w \in Nat /\ k <= w /\ w <= k + 7 /\ 8 <= w
      /\ u \in Nat /\ k <= u /\ u <= k + 31
  BY <1>2, <1>3, <1>4, <1>5
<1> HIDE DEF w, u
<1> QED
  BY <1>1, <1>6

(* read_variable_length reads one byte at least and does not go beyond     *)
(* lencheck, where there is one byte before it.                            *)
LEMMA LengthRead ==
  ASSUME DecoderArguments, NEW at \in Nat, NEW lencheck \in Int,
         NEW v \in VariableLength(at, lencheck)
  PROVE  /\ v.ip \in Int /\ at + 1 <= v.ip
         /\ v.ip <= at + 1 \/ v.ip <= lencheck
         /\ v.add \in Nat
         /\ v.late <=> v.ip >= lencheck
         /\ v = [ip |-> v.ip, add |-> v.add, late |-> v.late]
PROOF
<1>1. PICK n \in 1 .. Most(1, lencheck - at), s \in Extra :
        v = [ip |-> at + n, add |-> 255 * (n - 1) + s, late |-> at + n >= lencheck]
  BY DEF VariableLength
<1>2. s \in 0 .. 255
  BY DEF DecoderArguments, Octets
<1> DEFINE most == Most(1, lencheck - at)
<1>3. most \in Int /\ (most <= 1 \/ most <= lencheck - at)
  BY DEF Most
<1> HIDE DEF most
<1>4. n \in 1 .. most
  BY DEF most
<1>5. n \in Nat /\ n >= 1 /\ (n <= 1 \/ n <= lencheck - at)
  BY <1>3, <1>4
<1>6. v.ip = at + n /\ v.add = 255 * (n - 1) + s /\ (v.late <=> at + n >= lencheck)
  BY <1>1
<1>7. v = [ip |-> v.ip, add |-> v.add, late |-> v.late]
  BY Zenon, <1>1
<1>8. v.ip \in Int /\ v.add \in Nat /\ at + 1 <= v.ip /\ (v.ip <= at + 1 \/ v.ip <= lencheck)
  BY <1>2, <1>5, <1>6
<1> QED
  BY <1>6, <1>7, <1>8

LEMMA MatchLengthRead ==
  ASSUME DecoderArguments, call \in Calls, NEW i \in Nat, i < iend, NEW m \in HalfBytes,
         NEW v \in MatchLength(i, m)
  PROVE  /\ v.ip \in Int /\ i <= v.ip /\ v.ip <= iend
         /\ ~v.late => v.ip < iend
         /\ v.add \in Nat /\ v.add >= 4
         /\ m # ML_MASK => v.ip = i /\ v.add = m + 4
PROOF
<1>1. iend \in Nat
  BY CallFacts
<1>2. CASE m # ML_MASK
  <2>1. v = [ip |-> i, add |-> m + MINMATCH, late |-> FALSE]
    BY <1>2 DEF MatchLength
  <2>2. v.ip = i /\ v.add = m + 4
    BY <2>1 DEF MINMATCH
  <2> QED
    BY <1>1, <2>2 DEF HalfBytes
<1>3. CASE m = ML_MASK
  <2>1. PICK w \in VariableLength(i, iend - LASTLITERALS + 1) :
          v = [w EXCEPT !.add = @ + ML_MASK + MINMATCH]
    BY <1>3 DEF MatchLength
  <2>4. iend - LASTLITERALS + 1 \in Int /\ iend - LASTLITERALS + 1 <= iend - 4
    BY <1>1 DEF LASTLITERALS
  <2>5. /\ w.ip \in Int /\ i + 1 <= w.ip
        /\ w.ip <= i + 1 \/ w.ip <= iend - LASTLITERALS + 1
        /\ w.add \in Nat
        /\ w.late <=> w.ip >= iend - LASTLITERALS + 1
        /\ w = [ip |-> w.ip, add |-> w.add, late |-> w.late]
    BY <2>1, <2>4, LengthRead
  <2>2. w.add + ML_MASK + MINMATCH = w.add + 19
    BY <2>5 DEF ML_MASK, MINMATCH
  <2>3. v.ip = w.ip /\ v.late = w.late /\ v.add = w.add + 19
    BY <2>1, <2>2, <2>5
  <2> QED
    BY <1>1, <1>3, <2>3, <2>4, <2>5
<1> QED
  BY <1>2, <1>3

-----------------------------------------------------------------------------
(* A piece of a buffer that is inside of it.                               *)
Fits(u) == Low(u[1]) <= u[2] /\ u[2] <= u[3] /\ u[3] <= High(u[1])

LEMMA Pieces ==
  ASSUME NEW from, NEW to
  PROVE  /\ Fits(Read(from, to)) <=> 0 <= from /\ from <= to /\ to <= iend
         /\ Fits(Written(from, to)) <=> 0 <= from /\ from <= to /\ to <= oend
         /\ Fits(LookBack(from, to)) <=> lowPrefix <= from /\ from <= to /\ to <= oend
         /\ Fits(FromDict(from, to)) <=> 0 <= from /\ from <= to /\ to <= call.dictSize
PROOF
<1>1. High("src") = iend /\ High("dst") = oend /\ High("back") = oend /\ High("dict") = call.dictSize
  BY DEF High
<1>2. Low("src") = 0 /\ Low("dst") = 0 /\ Low("back") = lowPrefix /\ Low("dict") = 0
  BY DEF Low
<1> QED
  BY <1>1, <1>2 DEF Fits, Read, Written, LookBack, FromDict

(* A step keeps the invariant when it arrives with the margins of its next *)
(* label, and all it has touched fits.                                     *)
LEMMA StepFits ==
  ASSUME call \in Calls, call' = call, pc' \in Labels, code' \in HalfBytes,
         Margin(pc', ip', op'), \A u \in touched' : Fits(u)
  PROVE  DecoderInv'
PROOF
<1>1. iend' = iend /\ oend' = oend /\ lowPrefix' = lowPrefix /\ call'.dictSize = call.dictSize
  BY DEF iend, oend, lowPrefix
<1>2. InsideBuffers'
  <2>1. \A buffer : Low(buffer)' = Low(buffer) /\ High(buffer)' = High(buffer)
    BY <1>1 DEF Low, High
  <2> QED
    BY <2>1 DEF InsideBuffers, Fits
<1>3. Margin(pc, ip, op)'
  BY <1>1 DEF Margin
<1> QED
  BY <1>2, <1>3 DEF DecoderInv

LEMMA FailKeeps ==
  ASSUME DecoderArguments, DecoderInv, NEW i \in Int, ip <= i, i <= iend, Fail(i)
  PROVE  DecoderInv'
PROOF
<1>1. ip \in 0 .. iend /\ op \in 0 .. oend /\ iend \in Nat /\ oend \in Nat
  BY CallFacts DEF DecoderInv, Margin
<1>2. Fits(Read(ip, i))
  BY <1>1, Pieces
<1>3. Margin("error", ip, op)
  BY <1>1 DEF Margin
<1> QED
  BY <1>2, <1>3, StepFits DEF Fail, DecoderInv, Labels

LEMMA LiteralsKeep ==
  ASSUME DecoderArguments, DecoderInv, NEW i \in Int, NEW len \in Nat, NEW wide \in Nat,
         NEW next \in Labels, ip <= i, i + wide <= iend, op + wide <= oend,
         Margin(next, i + len, op + len), CopyLiterals(i, len, wide, next)
  PROVE  DecoderInv'
PROOF
<1>1. ip \in 0 .. iend /\ op \in 0 .. oend /\ iend \in Nat /\ oend \in Nat
  BY CallFacts DEF DecoderInv, Margin
<1>2. Fits(Read(ip, i + wide)) /\ Fits(Written(op, op + wide))
  BY <1>1, Pieces
<1>3. code' \in HalfBytes
  <2>1. code' \in { 0 } \union Codes
    BY DEF CopyLiterals
  <2>2. 0 \in HalfBytes /\ Codes \subseteq HalfBytes
    BY DEF HalfBytes, DecoderArguments
  <2> QED
    BY <2>1, <2>2
<1>4. /\ call' = call /\ pc' = next /\ ip' = i + len /\ op' = op + len
      /\ \A u \in touched' : Fits(u)
  BY <1>2 DEF CopyLiterals
<1> QED
  BY <1>3, <1>4, StepFits DEF DecoderInv

(* A match whose source was checked, and whose wide copy ends in time.     *)
LEMMA MatchKeeps ==
  ASSUME DecoderArguments, DecoderInv, NEW i \in Int, NEW o \in Int, NEW len \in Nat,
         NEW wide \in Nat, NEW off \in Nat, NEW before, \A u \in before : Fits(u),
         NEW next \in Labels, ip <= i, i <= iend, 0 <= o, o + wide <= oend,
         lowPrefix <= o - off, Margin(next, i, o + len),
         CopyMatch(i, o, len, wide, off, before, next)
  PROVE  DecoderInv'
PROOF
<1>1. ip \in 0 .. iend /\ iend \in Nat /\ oend \in Nat /\ lowPrefix \in Int
  BY CallFacts DEF DecoderInv, Margin
<1>2. /\ Fits(Read(ip, i)) /\ Fits(Written(o, o + wide))
      /\ Fits(LookBack(o - off, o - off + wide))
  BY <1>1, Pieces
<1>3. code' \in HalfBytes
  BY DEF HalfBytes, CopyMatch
<1>4. /\ call' = call /\ pc' = next /\ ip' = i /\ op' = o + len
      /\ \A u \in touched' : Fits(u)
  BY <1>2 DEF CopyMatch
<1> QED
  BY <1>3, <1>4, StepFits DEF DecoderInv

LEMMA ShortFacts ==
  ASSUME DecoderArguments, NEW off \in Offsets
  PROVE  off \in Nat /\ off <= 65535
PROOF
<1>1. off \in Shorts
  BY Zenon DEF DecoderArguments
<1> QED
  BY <1>1 DEF Shorts

(* Where a match may start that passed the two tests: inside the dictionary *)
(* when it starts before the prefix, or in the prefix and what is decoded.  *)
LEMMA SourceChecked ==
  ASSUME DecoderArguments, call \in Calls, NEW o \in Nat, NEW off \in Offsets,
         ~OutsideBuffers(o, off)
  PROVE  IF InDictionary(o, off)
         THEN 1 <= lowPrefix - (o - off) /\ lowPrefix - (o - off) <= call.dictSize
         ELSE lowPrefix <= o - off
PROOF
<1>1. /\ lowPrefix \in Int /\ lowPrefix <= 0 /\ call.dictSize \in Nat
      /\ call.dict # "usingExtDict" => call.dictSize = 0
  BY CallFacts
<1>2. off \in Nat /\ off <= 65535
  BY ShortFacts
<1>3. call.dictSize < 65536 => o - off + call.dictSize >= lowPrefix
  BY <1>1, <1>2 DEF OutsideBuffers, checkOffset, Distance64KB
<1>4. CASE InDictionary(o, off)
  <2>1. o - off < lowPrefix
    BY <1>4 DEF InDictionary
  <2> QED
    BY <1>1, <1>2, <1>3, <1>4, <2>1
<1>5. CASE ~InDictionary(o, off)
  <2>1. CASE call.dict = "usingExtDict"
    BY <1>1, <1>2, <1>5, <2>1 DEF InDictionary
  <2>2. CASE call.dict # "usingExtDict"
    BY <1>1, <1>2, <1>3, <1>5, <2>2
  <2> QED
    BY <2>1, <2>2
<1> QED
  BY <1>4, <1>5

(* A match from the dictionary, which may go on at the start of the prefix. *)
LEMMA DictionaryKeeps ==
  ASSUME DecoderArguments, DecoderInv, NEW i \in Int, NEW o \in Nat, NEW len \in Nat,
         NEW off \in Offsets, NEW before, \A u \in before : Fits(u), NEW next \in { "fast", "safe" },
         ip <= i, i < iend, o <= oend, next = "fast" => o + len < oend - 64,
         ~OutsideBuffers(o, off), InDictionary(o, off),
         CopyFromDictionary(i, o, len, off, before, next)
  PROVE  DecoderInv'
PROOF
<1> DEFINE fed  == IF o + len > oend - LASTLITERALS THEN RoomFor(o, len) ELSE len
           away == lowPrefix - (o - off)
           here == Least(fed, away)
           size == call.dictSize
<1>1. ip \in 0 .. iend /\ iend \in Nat /\ oend \in Nat /\ lowPrefix \in Int /\ lowPrefix <= 0
      /\ size \in Nat
  BY CallFacts DEF DecoderInv, Margin
<1>2. off \in Nat
  BY ShortFacts
<1>3. away \in Int /\ 1 <= away /\ away <= size
  <2>1. 1 <= away /\ away <= size
    BY SourceChecked DEF DecoderInv
  <2> QED
    BY <1>1, <1>2, <2>1
<1>4. fed \in Nat /\ fed <= len /\ o + fed <= oend
  BY <1>1 DEF RoomFor, Least, LASTLITERALS
<1>5. /\ call' = call /\ pc' = next /\ ip' = i /\ op' = o + fed /\ code' = 0
      /\ touched' = before \union
           { Read(ip, i), Written(o, o + fed), LookBack(lowPrefix, lowPrefix + fed - here),
             FromDict(size - away, size - away + here) }
  BY DEF CopyFromDictionary
<1> HIDE DEF fed, away, size
<1>6. here \in Nat /\ here <= fed /\ here <= away
  BY <1>3, <1>4 DEF Least
<1> HIDE DEF here
<1>7. Margin(next, i, o + fed)
  BY <1>1, <1>4 DEF Margin
<1>8. /\ Fits(Read(ip, i)) /\ Fits(Written(o, o + fed))
      /\ Fits(LookBack(lowPrefix, lowPrefix + fed - here))
  BY <1>1, <1>4, <1>6, Pieces
<1>9. Fits(FromDict(size - away, size - away + here))
  BY <1>1, <1>3, <1>6, Pieces DEF size
<1>10. code' \in HalfBytes /\ \A u \in touched' : Fits(u)
  BY <1>5, <1>8, <1>9 DEF HalfBytes
<1> QED
  BY <1>5, <1>7, <1>10, StepFits DEF DecoderInv, Labels

-----------------------------------------------------------------------------
(* safe_literal_copy, with len literals to copy from i on.                 *)
LEMMA SafeLiteralKeeps ==
  ASSUME DecoderArguments, DecoderInv, NEW i \in Int, ip <= i, i <= iend, NEW len \in Nat,
         SafeLiteralCopy(i, len)
  PROVE  DecoderInv'
PROOF
<1>1. ip \in 0 .. iend /\ op \in 0 .. oend /\ iend \in Nat /\ oend \in Nat
  BY CallFacts DEF DecoderInv, Margin
<1>2. CASE ~EndsSoon(i, len) /\ CopyLiterals(i, len, WildCopy8(len), "match")
  <2>1. op + len <= oend - 12 /\ i + len <= iend - 8
    BY <1>1, <1>2 DEF EndsSoon, MFLIMIT, LASTLITERALS
  <2>2. PICK wide \in Nat : wide = WildCopy8(len) /\ wide <= len + 8
    BY WildCopies
  <2>3. Margin("match", i + len, op + len)
    BY <1>1, <2>1 DEF Margin
  <2>4. i + wide <= iend /\ op + wide <= oend
    BY <1>1, <2>1, <2>2
  <2> QED
    BY <1>2, <2>2, <2>3, <2>4, LiteralsKeep DEF Labels
<1>3. CASE /\ EndsSoon(i, len) /\ ~call.partialDecoding
           /\ IF WholeBlock(i, len) THEN CopyLiterals(i, len, len, "done") ELSE Fail(i)
  <2>1. CASE WholeBlock(i, len) /\ CopyLiterals(i, len, len, "done")
    <3>1. i + len = iend /\ op + len <= oend
      BY <2>1 DEF WholeBlock
    <3>2. Margin("done", i + len, op + len)
      BY <1>1, <1>3, <3>1 DEF Margin
    <3>3. i + len <= iend
      BY <1>1, <3>1
    <3> QED
      BY <2>1, <3>1, <3>2, <3>3, LiteralsKeep DEF Labels
  <2>2. CASE Fail(i)
    BY <2>2, FailKeeps
  <2> QED
    BY <1>3, <2>1, <2>2
<1>4. CASE /\ EndsSoon(i, len) /\ call.partialDecoding
           /\ LET fed == Least(len, Least(iend - i, oend - op))
                  end == op + fed = oend \/ i + fed >= iend - 2
              IN  CopyLiterals(i, fed, fed, IF end THEN "done" ELSE "match")
  <2> DEFINE fed == Least(len, Least(iend - i, oend - op))
             end == op + fed = oend \/ i + fed >= iend - 2
             next == IF end THEN "done" ELSE "match"
  <2>1. fed \in Nat /\ i + fed <= iend /\ op + fed <= oend
    BY <1>1 DEF Least
  <2>2. CopyLiterals(i, fed, fed, next)
    BY <1>4
  <2> HIDE DEF fed
  <2>3. CASE end
    <3>1. Margin("done", i + fed, op + fed)
      BY <1>1, <1>4, <2>1, <2>3 DEF Margin
    <3>2. CopyLiterals(i, fed, fed, "done")
      BY <2>2, <2>3
    <3> QED
      BY <2>1, <3>1, <3>2, LiteralsKeep DEF Labels
  <2>4. CASE ~end
    <3>1. Margin("match", i + fed, op + fed)
      BY <1>1, <1>4, <2>1, <2>4 DEF Margin
    <3>2. CopyLiterals(i, fed, fed, "match")
      BY <2>2, <2>4
    <3> QED
      BY <2>1, <3>1, <3>2, LiteralsKeep DEF Labels
  <2> QED
    BY <2>3, <2>4
<1> QED
  BY <1>2, <1>3, <1>4 DEF SafeLiteralCopy

(* What the copy of a match near the end of the output covers ends before  *)
(* the output does.                                                        *)
LEMMA GuardedFits ==
  ASSUME DecoderArguments, call \in Calls, NEW o \in Nat, NEW len \in Nat,
         o <= oend - 8, o + len <= oend
  PROVE  Guarded(o, len) \in Nat /\ o + Guarded(o, len) <= oend
PROOF
<1>1. oend \in Nat
  BY CallFacts
<1>2. CASE o + 8 < oend - 7
  <2>1. PICK n \in Nat : n = oend - 7 - o - 8 /\ n > 0
    BY <1>1, <1>2
  <2>2. PICK w \in Nat : w = WildCopy8(n) /\ w <= n + 7
    BY <2>1, WildCopies
  <2>3. Guarded(o, len) = Most(len, 8 + w)
    BY <1>2, <2>1, <2>2 DEF Guarded, WILDCOPYLENGTH
  <2> QED
    BY <1>1, <2>1, <2>2, <2>3 DEF Most
<1>3. CASE ~(o + 8 < oend - 7)
  <2>1. Guarded(o, len) = Most(len, 8)
    BY <1>3 DEF Guarded, WILDCOPYLENGTH
  <2> QED
    BY <1>1, <2>1 DEF Most
<1> QED
  BY <1>2, <1>3

(* safe_match_copy, with a match of len bytes to copy to o, and the block  *)
(* read up to i.                                                           *)
LEMMA SafeMatchKeeps ==
  ASSUME DecoderArguments, DecoderInv, NEW i \in Int, NEW o \in Nat, NEW len \in Nat,
         NEW off \in Offsets, NEW before, \A u \in before : Fits(u),
         ip <= i, i < iend, len >= 4, o <= oend, call.partialDecoding \/ o <= oend - 8,
         SafeMatchCopy(i, o, len, off, before)
  PROVE  DecoderInv'
PROOF
<1>1. /\ ip \in 0 .. iend /\ iend \in Nat /\ oend \in Nat /\ call \in Calls
      /\ lowPrefix \in Int /\ off \in Nat
  BY CallFacts, ShortFacts DEF DecoderInv, Margin
<1>2. CASE OutsideBuffers(o, off) /\ Fail(i)
  BY <1>1, <1>2, FailKeeps
<1>3. CASE ~OutsideBuffers(o, off) /\ InDictionary(o, off)
           /\ CopyFromDictionary(i, o, len, off, before, "safe")
  BY <1>3, DictionaryKeeps
<1>4. CASE ~OutsideBuffers(o, off) /\ InDictionary(o, off) /\ Fail(i)
  BY <1>1, <1>4, FailKeeps
<1>5. ASSUME ~OutsideBuffers(o, off), ~InDictionary(o, off), NEW n \in Nat, NEW wide \in Nat,
             NEW next \in { "safe", "done", "error" }, o + n <= oend, o + wide <= oend,
             next = "done" => call.partialDecoding /\ o + n = oend,
             CopyMatch(i, o, n, wide, off, before, next)
      PROVE  DecoderInv'
  <2>1. lowPrefix <= o - off
    BY <1>1, <1>5, SourceChecked
  <2>2. Margin(next, i, o + n)
    BY <1>1, <1>5 DEF Margin
  <2> QED
    BY <1>1, <1>5, <2>1, <2>2, MatchKeeps DEF Labels
<1>6. CASE /\ ~OutsideBuffers(o, off) /\ ~InDictionary(o, off) /\ call.partialDecoding
           /\ LET fed == RoomFor(o, len)
              IN  CopyMatch(i, o, fed, fed, off, before, IF o + fed = oend THEN "done" ELSE "safe")
  <2> DEFINE fed == RoomFor(o, len)
             next == IF o + fed = oend THEN "done" ELSE "safe"
  <2>1. fed \in Nat /\ o + fed <= oend
    BY <1>1 DEF RoomFor, Least
  <2>2. CopyMatch(i, o, fed, fed, off, before, next)
    BY <1>6
  <2> HIDE DEF fed
  <2> QED
    BY <1>5, <1>6, <2>1, <2>2
<1>7. CASE /\ ~OutsideBuffers(o, off) /\ ~InDictionary(o, off) /\ ~call.partialDecoding
           /\ CopyMatch(i, o, 0, 8, off, before, "error")
  <2>1. o + 0 <= oend /\ o + 8 <= oend
    BY <1>1, <1>7
  <2> QED
    BY <1>5, <1>7, <2>1
<1>8. CASE /\ ~OutsideBuffers(o, off) /\ ~InDictionary(o, off) /\ ~call.partialDecoding
           /\ o + len <= oend - LASTLITERALS
           /\ CopyMatch(i, o, len, Guarded(o, len), off, before, "safe")
  <2>1. o + len <= oend
    BY <1>1, <1>8 DEF LASTLITERALS
  <2>2. o <= oend - 8
    BY <1>8
  <2>3. Guarded(o, len) \in Nat /\ o + Guarded(o, len) <= oend
    BY <1>1, <2>1, <2>2, GuardedFits
  <2> QED
    BY <1>5, <1>8, <2>1, <2>3
<1>9. CASE /\ ~OutsideBuffers(o, off) /\ ~InDictionary(o, off)
           /\ o + len <= oend - MATCH_SAFEGUARD_DISTANCE
           /\ CopyMatch(i, o, len, Most(16, WildCopy8(len)), off, before, "safe")
  <2>1. o + len <= oend - 12
    BY <1>9 DEF MATCH_SAFEGUARD_DISTANCE
  <2>2. PICK w \in Nat : w = WildCopy8(len) /\ w <= len + 8
    BY WildCopies
  <2>3. PICK wide \in Nat : wide = Most(16, w) /\ (wide <= 16 \/ wide <= len + 8)
    BY <2>2 DEF Most
  <2>4. o + len <= oend /\ o + wide <= oend
    BY <1>1, <2>1, <2>3
  <2> QED
    BY <1>5, <1>9, <2>2, <2>3, <2>4
<1> QED
  BY <1>2, <1>3, <1>4, <1>6, <1>7, <1>8, <1>9 DEF SafeMatchCopy

-----------------------------------------------------------------------------
LEMMA CodeFacts ==
  ASSUME DecoderArguments, NEW n \in Codes
  PROVE  n \in HalfBytes /\ n \in Nat /\ n <= 15 /\ (n # 15 => n <= 14)
PROOF
<1>1. n \in HalfBytes
  BY Zenon DEF DecoderArguments
<1> QED
  BY <1>1 DEF HalfBytes

LEMMA PositionFacts ==
  ASSUME DecoderArguments, DecoderInv
  PROVE  /\ call \in Calls /\ iend \in Nat /\ oend \in Nat /\ lowPrefix \in Int
         /\ ip \in Nat /\ ip <= iend /\ op \in Nat /\ op <= oend
PROOF
  BY CallFacts DEF DecoderInv, Margin

LEMMA InitHolds ==
  ASSUME DecoderArguments, DecoderInit
  PROVE  DecoderInv
PROOF
<1>1. iend \in Nat /\ oend \in Nat
  BY CallFacts DEF DecoderInit
<1> QED
  BY <1>1 DEF DecoderInit, DecoderInv, Margin, InsideBuffers, Labels, HalfBytes

LEMMA BeginKeeps ==
  ASSUME DecoderArguments, DecoderInv, Begin
  PROVE  DecoderInv'
PROOF
<1>1. ip \in Nat /\ ip <= iend /\ op \in Nat /\ op <= oend /\ iend \in Nat /\ oend \in Nat
  BY PositionFacts
<1>2. call' = call /\ ip' = ip /\ op' = op /\ code' = code
  BY DEF Begin
<1>3. \A u \in touched' : Fits(u)
  <2>1. CASE iend = 1
    <3>1. Fits(Read(0, 1))
      BY <2>1, Pieces
    <3> QED
      BY <3>1 DEF Begin
  <2>2. CASE iend # 1
    BY <2>2 DEF Begin
  <2> QED
    BY <2>1, <2>2
<1>4. pc' \in Labels /\ Margin(pc', ip, op)
  <2>1. CASE oend = 0 /\ pc' \in { "done", "error" }
    BY <1>1, <2>1 DEF Labels, Margin
  <2>2. CASE pc' = "error"
    BY <1>1, <2>2 DEF Labels, Margin
  <2>3. CASE oend # 0 /\ iend # 0 /\ pc' \in { "fast", "safe" } /\ (pc' = "fast" => oend >= 64)
    <3>1. ip = 0 /\ op = 0
      BY DEF DecoderInv, Margin, Begin
    <3> QED
      BY <1>1, <2>3, <3>1 DEF Labels, Margin
  <2> QED
    BY <2>1, <2>2, <2>3 DEF Begin, FASTLOOP_SAFE_DISTANCE
<1> QED
  BY <1>2, <1>3, <1>4, StepFits DEF DecoderInv

(* Fast loop: a short run of literals is copied as 16 bytes.               *)
LEMMA FastShortLiteralsKeeps ==
  ASSUME DecoderArguments, DecoderInv, FastShortLiterals
  PROVE  DecoderInv'
PROOF
<1>1. ip \in Nat /\ op \in Nat /\ iend \in Nat /\ oend \in Nat
  BY PositionFacts
<1>2. ip < iend /\ op <= oend - 64
  BY DEF DecoderInv, Margin, FastShortLiterals
<1>3. PICK lit \in Codes \ { RUN_MASK } :
        IF ip + 1 > iend - (16 + 1) THEN SafeLiteralCopy(ip + 1, lit)
        ELSE CopyLiterals(ip + 1, lit, 16, "fastMatch")
  BY DEF FastShortLiterals
<1>4. lit \in Nat /\ lit <= 14
  BY CodeFacts DEF RUN_MASK
<1>5. CASE SafeLiteralCopy(ip + 1, lit)
  BY <1>1, <1>2, <1>4, <1>5, SafeLiteralKeeps
<1>6. CASE ip + 1 <= iend - 17 /\ CopyLiterals(ip + 1, lit, 16, "fastMatch")
  <2>1. Margin("fastMatch", ip + 1 + lit, op + lit)
    BY <1>1, <1>2, <1>4, <1>6 DEF Margin
  <2>2. ip + 1 \in Int /\ ip <= ip + 1 /\ ip + 1 + 16 <= iend /\ op + 16 <= oend
    BY <1>1, <1>2, <1>6
  <2> QED
    BY <1>4, <1>6, <2>1, <2>2, LiteralsKeep DEF Labels
<1> QED
  BY <1>1, <1>3, <1>5, <1>6

(* Fast loop: a long run is copied in steps of 32.                         *)
LEMMA FastLongLiteralsKeeps ==
  ASSUME DecoderArguments, DecoderInv, FastLongLiterals
  PROVE  DecoderInv'
PROOF
<1>1. ip \in Nat /\ op \in Nat /\ iend \in Nat /\ oend \in Nat
  BY PositionFacts
<1>2. ip < iend
  BY DEF DecoderInv, Margin, FastLongLiterals
<1>3. CASE Fail(ip + 1)
  BY <1>1, <1>2, <1>3, FailKeeps
<1>4. CASE /\ ip + 1 < iend - RUN_MASK
           /\ \E v \in VariableLength(ip + 1, iend - RUN_MASK) :
                LET len == RUN_MASK + v.add
                IN  IF op + len > oend - 32 \/ v.ip + len > iend - 32
                    THEN SafeLiteralCopy(v.ip, len)
                    ELSE CopyLiterals(v.ip, len, WildCopy32(len), "fastMatch")
  <2>1. PICK v \in VariableLength(ip + 1, iend - RUN_MASK) :
          LET len == RUN_MASK + v.add
          IN  IF op + len > oend - 32 \/ v.ip + len > iend - 32
              THEN SafeLiteralCopy(v.ip, len)
              ELSE CopyLiterals(v.ip, len, WildCopy32(len), "fastMatch")
    BY <1>4
  <2>2. ip + 1 \in Nat /\ iend - RUN_MASK \in Int /\ iend - RUN_MASK = iend - 15
    BY <1>1 DEF RUN_MASK
  <2>3. v.ip \in Int /\ ip + 2 <= v.ip /\ (v.ip <= ip + 2 \/ v.ip <= iend - 15) /\ v.add \in Nat
    <3>1. /\ v.ip \in Int /\ ip + 1 + 1 <= v.ip
          /\ v.ip <= ip + 1 + 1 \/ v.ip <= iend - RUN_MASK
          /\ v.add \in Nat
      BY <2>1, <2>2, LengthRead
    <3> QED
      BY <1>1, <2>2, <3>1
  <2>4. ip <= v.ip /\ v.ip <= iend
    BY <1>1, <1>4, <2>2, <2>3
  <2>5. PICK len \in Nat : len = RUN_MASK + v.add /\ len >= 15
    BY <2>3 DEF RUN_MASK
  <2>6. CASE SafeLiteralCopy(v.ip, len)
    BY <2>3, <2>4, <2>5, <2>6, SafeLiteralKeeps
  <2>7. CASE op + len <= oend - 32 /\ v.ip + len <= iend - 32
             /\ CopyLiterals(v.ip, len, WildCopy32(len), "fastMatch")
    <3>1. PICK wide \in Nat : wide = WildCopy32(len) /\ wide <= len + 31
      <4>1. len > 0
        BY <2>5
      <4> QED
        BY <4>1, WildCopies
    <3>2. Margin("fastMatch", v.ip + len, op + len)
      BY <1>1, <2>3, <2>5, <2>7 DEF Margin
    <3>3. v.ip + wide <= iend /\ op + wide <= oend
      BY <1>1, <2>3, <2>5, <2>7, <3>1
    <3> QED
      BY <2>3, <2>4, <2>7, <3>1, <3>2, <3>3, LiteralsKeep DEF Labels
  <2>8. v.ip + len \in Int /\ op + len \in Int
    BY <1>1, <2>3, <2>5
  <2> QED
    BY <1>1, <2>1, <2>5, <2>6, <2>7, <2>8
<1> QED
  BY <1>3, <1>4 DEF FastLongLiterals

(* The branch that copies 18 bytes tests the source in its own way: with   *)
(* 64 KB of prefix an offset of two bytes cannot leave it.                 *)
LEMMA SimpleSource ==
  ASSUME DecoderArguments, call \in Calls, NEW o \in Nat, NEW m, NEW off \in Offsets,
         Simple(o, m, off)
  PROVE  lowPrefix <= o - off
PROOF
<1>1. off \in Nat /\ off <= 65535
  BY ShortFacts
<1>2. CASE call.dict = "withPrefix64k"
  <2>1. lowPrefix = -65536
    BY <1>2, CallFacts
  <2> QED
    BY <1>1, <2>1
<1> QED
  BY <1>2 DEF Simple

(* Fast loop: a match that ends far enough from the end of the output.     *)
LEMMA FastMatchCopyKeeps ==
  ASSUME DecoderArguments, DecoderInv, NEW i \in Int, NEW len \in Nat, NEW off \in Offsets,
         ip <= i, i < iend, op + len < oend - 64, len >= 4,
         FastMatchCopy(i, len, off)
  PROVE  DecoderInv'
PROOF
<1>1. /\ ip \in Nat /\ op \in Nat /\ op <= oend /\ iend \in Nat /\ oend \in Nat
      /\ call \in Calls /\ lowPrefix \in Int /\ off \in Nat
  BY PositionFacts, ShortFacts
<1>2. ASSUME lowPrefix <= op - off, NEW wide \in Nat, wide <= len + 31,
             CopyMatch(i, op, len, wide, off, {}, "fast")
      PROVE  DecoderInv'
  <2>1. Margin("fast", i, op + len)
    BY <1>1 DEF Margin
  <2>2. i <= iend /\ 0 <= op /\ op + wide <= oend /\ op \in Int
    BY <1>1, <1>2
  <2> QED
    BY <1>1, <1>2, <2>1, <2>2, MatchKeeps DEF Labels
<1>3. CASE Simple(op, code, off) /\ CopyMatch(i, op, len, 18, off, {}, "fast")
  <2>1. lowPrefix <= op - off
    BY <1>1, <1>3, SimpleSource
  <2> QED
    BY <1>2, <1>3, <2>1
<1>4. CASE Fail(i)
  BY <1>1, <1>4, FailKeeps
<1>5. CASE ~OutsideBuffers(op, off) /\ InDictionary(op, off)
           /\ CopyFromDictionary(i, op, len, off, {}, "fast")
  BY <1>1, <1>5, DictionaryKeeps
<1>6. CASE ~OutsideBuffers(op, off) /\ ~InDictionary(op, off)
           /\ CopyMatch(i, op, len, IF off < 16 THEN Most(16, WildCopy8(len)) ELSE WildCopy32(len),
                        off, {}, "fast")
  <2>1. lowPrefix <= op - off
    BY <1>1, <1>6, SourceChecked
  <2>2. PICK w \in Nat : w = WildCopy8(len) /\ w <= len + 8
    BY WildCopies
  <2>3. PICK u \in Nat : u = WildCopy32(len) /\ u <= len + 31
    <3>1. len > 0
      OBVIOUS
    <3> QED
      BY <3>1, WildCopies
  <2>4. CASE off < 16
    <3>1. Most(16, w) \in Nat /\ Most(16, w) <= len + 31
      BY <2>2 DEF Most
    <3> QED
      BY <1>2, <1>6, <2>1, <2>2, <2>4, <3>1
  <2>5. CASE ~(off < 16)
    BY <1>2, <1>6, <2>1, <2>3, <2>5
  <2> QED
    BY <2>4, <2>5
<1> QED
  BY <1>3, <1>4, <1>5, <1>6 DEF FastMatchCopy
LEMMA FastMatchKeeps ==
  ASSUME DecoderArguments, DecoderInv, FastMatch
  PROVE  DecoderInv'
PROOF
<1>1. ip \in Nat /\ op \in Nat /\ op <= oend /\ iend \in Nat /\ oend \in Nat /\ call \in Calls
  BY PositionFacts
<1>2. ip <= iend - 3 /\ op <= oend - 32 /\ code \in HalfBytes
  BY DEF DecoderInv, Margin, FastMatch
<1>3. ip + 2 \in Nat /\ ip <= ip + 2 /\ ip + 2 < iend /\ ip + 2 <= iend /\ op <= oend - 8
  BY <1>1, <1>2
<1>4. PICK off \in Offsets :
        \/ Fail(ip + 2)
        \/ \E v \in MatchLength(ip + 2, code) :
             IF v.late THEN Fail(v.ip)
             ELSE IF op + v.add >= oend - FASTLOOP_SAFE_DISTANCE
             THEN SafeMatchCopy(v.ip, op, v.add, off, {})
             ELSE FastMatchCopy(v.ip, v.add, off)
  BY DEF FastMatch
<1>5. CASE Fail(ip + 2)
  BY <1>3, <1>5, FailKeeps
<1>6. ASSUME NEW v \in MatchLength(ip + 2, code),
             IF v.late THEN Fail(v.ip)
             ELSE IF op + v.add >= oend - FASTLOOP_SAFE_DISTANCE
             THEN SafeMatchCopy(v.ip, op, v.add, off, {})
             ELSE FastMatchCopy(v.ip, v.add, off)
      PROVE  DecoderInv'
  <2>1. /\ v.ip \in Int /\ ip + 2 <= v.ip /\ v.ip <= iend
        /\ ~v.late => v.ip < iend
        /\ v.add \in Nat /\ v.add >= 4
    BY <1>1, <1>2, <1>3, MatchLengthRead
  <2>2. ip <= v.ip
    BY <1>1, <2>1
  <2>3. CASE Fail(v.ip)
    BY <2>1, <2>2, <2>3, FailKeeps
  <2>4. CASE ~v.late /\ SafeMatchCopy(v.ip, op, v.add, off, {})
    BY <1>1, <1>3, <2>1, <2>2, <2>4, SafeMatchKeeps
  <2>5. CASE ~v.late /\ op + v.add < oend - 64 /\ FastMatchCopy(v.ip, v.add, off)
    BY <1>1, <2>1, <2>2, <2>5, FastMatchCopyKeeps
  <2>6. op + v.add >= oend - FASTLOOP_SAFE_DISTANCE \/ op + v.add < oend - 64
    BY <1>1, <2>1 DEF FASTLOOP_SAFE_DISTANCE
  <2> QED
    BY <1>6, <2>3, <2>4, <2>5, <2>6
<1> QED
  BY <1>4, <1>5, <1>6

(* Safe loop: the shortcut, after whose literals there is room for a match. *)
LEMMA ShortcutKeeps ==
  ASSUME DecoderArguments, DecoderInv, Shortcut
  PROVE  DecoderInv'
PROOF
<1>1. /\ ip \in Nat /\ op \in Nat /\ iend \in Nat /\ oend \in Nat /\ lowPrefix \in Int
      /\ call \in Calls
  BY PositionFacts
<1>2. PICK lit \in Codes, m \in Codes, off \in Offsets :
        LET i == ip + 1 + lit
            o == op + lit
            before == { Read(ip, ip + 1 + 16), Written(op, op + 16) }
        IN  /\ ShortcutTaken(lit)
            /\ \/ Simple(o, m, off) /\ CopyMatch(i + 2, o, m + MINMATCH, 18, off, before, "safe")
               \/ \E v \in MatchLength(i + 2, m) :
                    IF v.late THEN Fail(v.ip) ELSE SafeMatchCopy(v.ip, o, v.add, off, before)
  BY DEF Shortcut
<1>3. lit \in Nat /\ lit <= 14 /\ ip + 1 < iend - 16 /\ op <= oend - 32
  BY <1>2, CodeFacts DEF ShortcutTaken, RUN_MASK
<1>4. m \in HalfBytes /\ m \in Nat /\ m <= 15 /\ off \in Nat
  BY CodeFacts, ShortFacts
<1> DEFINE before == { Read(ip, ip + 1 + 16), Written(op, op + 16) }
<1>5. \A u \in before : Fits(u)
  <2>1. Fits(Read(ip, ip + 1 + 16)) /\ Fits(Written(op, op + 16))
    BY <1>1, <1>3, Pieces
  <2> QED
    BY <2>1
<1> HIDE DEF before
<1>6. PICK i \in Nat, o \in Nat : i = ip + 1 + lit + 2 /\ o = op + lit
  BY <1>1, <1>3
<1>7. ip <= i /\ i < iend /\ i <= iend /\ 0 <= o /\ o <= oend - 18 /\ o <= oend - 8 /\ o <= oend
  BY <1>1, <1>3, <1>6
<1>8. CASE Simple(o, m, off) /\ CopyMatch(i, o, m + MINMATCH, 18, off, before, "safe")
  <2>1. lowPrefix <= o - off
    BY <1>1, <1>8, SimpleSource
  <2>2. PICK len \in Nat : len = m + MINMATCH /\ len <= 18
    <3>1. m # 15
      BY <1>8 DEF Simple, ML_MASK
    <3> QED
      BY <1>4, <3>1 DEF MINMATCH
  <2>3. Margin("safe", i, o + len) /\ o + 18 <= oend
    BY <1>1, <1>7, <2>2 DEF Margin
  <2>4. CopyMatch(i, o, len, 18, off, before, "safe")
    BY <1>8, <2>2
  <2>5. i \in Int /\ o \in Int /\ 18 \in Nat /\ len \in Nat /\ "safe" \in Labels
    BY DEF Labels
  <2> QED
    BY <1>4, <1>5, <1>7, <2>1, <2>3, <2>4, <2>5, MatchKeeps
<1>9. ASSUME NEW v \in MatchLength(i, m),
             IF v.late THEN Fail(v.ip) ELSE SafeMatchCopy(v.ip, o, v.add, off, before)
      PROVE  DecoderInv'
  <2>1. /\ v.ip \in Int /\ i <= v.ip /\ v.ip <= iend
        /\ ~v.late => v.ip < iend
        /\ v.add \in Nat /\ v.add >= 4
    BY <1>1, <1>4, <1>7, MatchLengthRead
  <2>2. ip <= v.ip
    BY <1>1, <1>7, <2>1
  <2>3. CASE Fail(v.ip)
    BY <2>1, <2>2, <2>3, FailKeeps
  <2>4. CASE ~v.late /\ SafeMatchCopy(v.ip, o, v.add, off, before)
    BY <1>5, <1>7, <2>1, <2>2, <2>4, SafeMatchKeeps
  <2> QED
    BY <1>9, <2>3, <2>4
<1> QED
  BY <1>2, <1>6, <1>8, <1>9 DEF before

LEMMA SafeLiteralsKeeps ==
  ASSUME DecoderArguments, DecoderInv, SafeLiterals
  PROVE  DecoderInv'
PROOF
<1>1. ip \in Nat /\ op \in Nat /\ iend \in Nat /\ oend \in Nat
  BY PositionFacts
<1>2. ip < iend
  BY DEF DecoderInv, Margin, SafeLiterals
<1>3. ip + 1 \in Nat /\ ip <= ip + 1 /\ ip + 1 <= iend
  BY <1>1, <1>2
<1>4. PICK lit \in Codes :
        \/ SafeLiteralCopy(ip + 1, lit)
        \/ Fail(ip + 1)
        \/ /\ ip + 1 < iend - RUN_MASK
           /\ \E v \in VariableLength(ip + 1, iend - RUN_MASK) :
                SafeLiteralCopy(v.ip, RUN_MASK + v.add)
  BY DEF SafeLiterals
<1>5. CASE SafeLiteralCopy(ip + 1, lit)
  BY <1>3, <1>5, CodeFacts, SafeLiteralKeeps
<1>6. CASE Fail(ip + 1)
  BY <1>3, <1>6, FailKeeps
<1>7. ASSUME ip + 1 < iend - RUN_MASK, NEW v \in VariableLength(ip + 1, iend - RUN_MASK),
             SafeLiteralCopy(v.ip, RUN_MASK + v.add)
      PROVE  DecoderInv'
  <2>1. iend - RUN_MASK \in Int /\ iend - RUN_MASK = iend - 15
    BY <1>1 DEF RUN_MASK
  <2>2. /\ v.ip \in Int /\ ip + 1 + 1 <= v.ip
        /\ v.ip <= ip + 1 + 1 \/ v.ip <= iend - RUN_MASK
        /\ v.add \in Nat
    BY <1>3, <1>7, <2>1, LengthRead
  <2>3. ip <= v.ip /\ v.ip <= iend
    BY <1>1, <1>7, <2>1, <2>2
  <2>4. RUN_MASK + v.add \in Nat
    BY <2>2 DEF RUN_MASK
  <2> QED
    BY <1>7, <2>2, <2>3, <2>4, SafeLiteralKeeps
<1> QED
  BY <1>4, <1>5, <1>6, <1>7

LEMMA SafeMatchStepKeeps ==
  ASSUME DecoderArguments, DecoderInv, SafeMatch
  PROVE  DecoderInv'
PROOF
<1>1. ip \in Nat /\ op \in Nat /\ op <= oend /\ iend \in Nat /\ oend \in Nat /\ call \in Calls
  BY PositionFacts
<1>2. /\ ip <= iend - 3 /\ (call.partialDecoding \/ op <= oend - 12) /\ code \in HalfBytes
  BY DEF DecoderInv, Margin, SafeMatch
<1>3. ip + 2 \in Nat /\ ip + 2 < iend /\ (call.partialDecoding \/ op <= oend - 8)
  BY <1>1, <1>2
<1>4. PICK off \in Offsets, v \in MatchLength(ip + 2, code) :
        IF v.late THEN Fail(v.ip) ELSE SafeMatchCopy(v.ip, op, v.add, off, {})
  BY DEF SafeMatch
<1>5. /\ v.ip \in Int /\ ip + 2 <= v.ip /\ v.ip <= iend
      /\ ~v.late => v.ip < iend
      /\ v.add \in Nat /\ v.add >= 4
  BY <1>1, <1>2, <1>3, MatchLengthRead
<1>6. ip <= v.ip
  BY <1>1, <1>5
<1>7. CASE Fail(v.ip)
  BY <1>5, <1>6, <1>7, FailKeeps
<1>8. CASE ~v.late /\ SafeMatchCopy(v.ip, op, v.add, off, {})
  BY <1>1, <1>3, <1>5, <1>6, <1>8, SafeMatchKeeps
<1> QED
  BY <1>4, <1>7, <1>8

LEMMA StutterKeeps ==
  ASSUME DecoderInv, UNCHANGED decoderVars
  PROVE  DecoderInv'
PROOF
<1>1. /\ call' = call /\ pc' = pc /\ ip' = ip /\ op' = op /\ code' = code
      /\ touched' = touched
  BY DEF decoderVars
<1>2. InsideBuffers'
  <2>1. \A buffer : Low(buffer)' = Low(buffer) /\ High(buffer)' = High(buffer)
    BY <1>1 DEF Low, High, iend, oend, lowPrefix
  <2> QED
    BY <1>1, <2>1 DEF InsideBuffers, DecoderInv
<1>3. Margin(pc, ip, op)'
  BY <1>1 DEF Margin, DecoderInv, iend, oend
<1> QED
  BY <1>1, <1>2, <1>3 DEF DecoderInv

-----------------------------------------------------------------------------
LEMMA DecoderInvariant ==
  ASSUME DecoderArguments
  PROVE  DecoderSpec => []DecoderInv
PROOF
<1>1. DecoderInit => DecoderInv
  BY InitHolds
<1>2. DecoderInv /\ [DecoderNext \/ Returned]_decoderVars => DecoderInv'
  <2> SUFFICES ASSUME DecoderInv, [DecoderNext \/ Returned]_decoderVars
               PROVE  DecoderInv'
    OBVIOUS
  <2>1. CASE Begin
    BY <2>1, BeginKeeps
  <2>2. CASE FastShortLiterals
    BY <2>2, FastShortLiteralsKeeps
  <2>3. CASE FastLongLiterals
    BY <2>3, FastLongLiteralsKeeps
  <2>4. CASE FastMatch
    BY <2>4, FastMatchKeeps
  <2>5. CASE Shortcut
    BY <2>5, ShortcutKeeps
  <2>6. CASE SafeLiterals
    BY <2>6, SafeLiteralsKeeps
  <2>7. CASE SafeMatch
    BY <2>7, SafeMatchStepKeeps
  <2>8. CASE UNCHANGED decoderVars
    BY <2>8, StutterKeeps
  <2> QED
    BY <2>1, <2>2, <2>3, <2>4, <2>5, <2>6, <2>7, <2>8 DEF DecoderNext, Returned
<1> QED
  BY <1>1, <1>2, PTL DEF DecoderSpec

(* LZ4_decompress_safe and its kin never read outside the block, write     *)
(* outside the output or look back beyond the prefix and the dictionary,   *)
(* whatever block they are given and however large the buffers are, in     *)
(* both loops.                                                             *)
THEOREM DecoderStaysInside ==
  ASSUME DecoderArguments
  PROVE  DecoderSpec => []InsideBuffers
PROOF
<1>1. DecoderInv => InsideBuffers
  BY DEF DecoderInv
<1> QED
  BY <1>1, DecoderInvariant, PTL

(* They report success only when the whole block was read; a decoder that  *)
(* was asked for a part, when the output is full or no match can follow.   *)
THEOREM DecoderLeavesNothingOut ==
  ASSUME DecoderArguments
  PROVE  DecoderSpec => []NothingLeftOut
PROOF
<1>1. DecoderInv => NothingLeftOut
  <2> SUFFICES ASSUME DecoderInv, pc = "done", oend > 0
               PROVE  IF call.partialDecoding THEN op = oend \/ ip >= iend - 2 ELSE ip = iend
    BY DEF NothingLeftOut
  <2>1. oend # 0
    BY CallFacts DEF DecoderInv
  <2> QED
    BY <2>1 DEF DecoderInv, Margin
<1> QED
  BY <1>1, DecoderInvariant, PTL

-----------------------------------------------------------------------------
(***************************************************************************)
(* LZ4F_decompress, for frames, buffers and pieces of any size.            *)
(***************************************************************************)

Storing == { "storeFrameHeader", "storeBlockHeader", "storeCBlock", "getBlockChecksum",
             "storeSuffix", "storeSFrameSize" }
HeaderStages == { "getFrameHeader", "storeFrameHeader", "getSFrameSize", "storeSFrameSize",
                  "skipSkippable" }
DecoderStages == HeaderStages \cup InBlocks \cup { "getSuffix", "storeSuffix" }
Built == InBlocks \ { "init" }
OfBlock == { "copyDirect", "getBlockChecksum", "getCBlock", "storeCBlock", "flushOut" }

Context ==
  [stage : DecoderStages, held : Seq(Int), target : Nat, remaining : Int, maxBufferSize : Nat,
   tmpOut : Int, tmpOutSize : Nat, tmpOutStart : Nat, dict : Int, dictSize : Nat,
   xxh : Int, blockSum : Nat]
CallState ==
  [at : Nat, given : Nat, ptr : Int, start : Int, room : Nat, asked : BOOLEAN, moved : BOOLEAN]
TextState == [due : Nat, block : Nat, decoded : Nat, delivered : Nat]

FrameDecoderTypeOK ==
  /\ stream \in Seq(IntactFrame)
  /\ d \in Context /\ c \in CallState /\ t \in TextState
  /\ phase \in { "idle", "loop", "leave", "error" }

(* Bytes a field that may be cut has in all.                               *)
FieldSize ==
  IF d.stage = "storeBlockHeader" THEN BHSize
  ELSE IF d.stage \in { "getBlockChecksum", "storeSuffix" } THEN BFSize
  ELSE d.target

FieldsFit ==
  /\ Len(d.held) <= maxBlockSize + BFSize
  /\ d.stage \in Storing => Len(d.held) < FieldSize /\ FieldSize <= maxBlockSize + BFSize

TargetsFit ==
  /\ (phase = "loop" \/ d.stage # "getFrameHeader") => stream # << >>
  /\ d.stage \in HeaderStages \cup { "init" } => t.block = 0
  /\ d.stage = "init" => phase # "leave"
  /\ d.stage \in Built => t.block <= Len(f.blocks)
  /\ d.stage \in OfBlock => t.block > 0
  /\ d.stage = "storeFrameHeader" =>
       d.target = minFHSize \/ (~f.skippable /\ d.target = HeaderSize(f))
  /\ d.stage = "storeSFrameSize" => d.target = 2 * BHSize
  /\ d.stage = "skipSkippable" /\ d.target = 0 => phase = "loop" /\ c.moved
  /\ d.stage \in { "getCBlock", "storeCBlock" } => d.target = b.csize + crcSize
  /\ d.stage = "copyDirect" => 0 < d.target /\ d.target <= b.csize /\ d.blockSum = b.csize - d.target
  /\ d.stage = "getBlockChecksum" => d.blockSum = b.csize

(* Input is read where the field is that is due.                           *)
InField ==
  phase # "error" =>
  /\ d.stage \in Storing => c.at = t.due + Len(d.held) /\ d.held = Bytes(t.due, Len(d.held))
  /\ d.stage \in HeaderStages => t.due = 0
  /\ d.stage \in { "getFrameHeader", "init", "getBlockHeader", "getCBlock", "flushOut", "getSuffix" }
       => c.at = t.due
  /\ d.stage = "getSFrameSize" => c.at = BHSize
  /\ d.stage = "copyDirect" => c.at = t.due + b.csize - d.target

(* What is left of the call.                                               *)
InOutput ==
  /\ c.ptr = NULL \/ (0 <= c.start /\ c.start <= c.ptr /\ c.ptr + c.room <= DstSize)
  /\ c.ptr = NULL => c.room = 0 /\ ~c.asked /\ ~StableDst

GetsAhead ==
  /\ phase = "loop" /\ c.asked => c.moved \/ (c.given > 0 /\ c.room > 0)
  /\ phase = "leave" /\ c.asked => c.moved

Buffers ==
  /\ d.dict = TMP => d.dictSize <= d.maxBufferSize
  /\ d.stage \in HeaderStages \cup { "init" } => d.dict # TMP
  /\ d.stage \in Built =>
       /\ maxBlockSize + (IF f.linked THEN 2 * KB64 ELSE 0) <= d.maxBufferSize
       /\ TMP <= d.tmpOut /\ d.tmpOut + d.tmpOutSize <= TMP + d.maxBufferSize
       /\ d.tmpOutSize <= maxBlockSize
       /\ ~f.linked => d.tmpOut = TMP
  /\ d.stage = "flushOut" =>
       /\ d.tmpOutStart <= d.tmpOutSize
       /\ f.linked /\ d.dict = TMP => TMP + d.dictSize = d.tmpOut + d.tmpOutStart

RefusedAtEnd == phase = "error" => d.stage \in { "getSuffix", "storeSuffix" }

FrameInv ==
  /\ FrameDecoderTypeOK
  /\ FieldsFit /\ TargetsFit /\ InField
  /\ InOutput /\ GetsAhead
  /\ Buffers
  /\ RefusedAtEnd

-----------------------------------------------------------------------------
LEMMA FormatFacts ==
  /\ maxFHSize \in Nat /\ SizeField \in Nat /\ KB64 \in Nat /\ DstSize \in Nat
  /\ MaxGiven \in Nat /\ MaxRoom \in Nat /\ DictSize \in Nat
  /\ minFHSize \in Nat /\ BHSize \in Nat /\ BFSize \in Nat /\ maxBlockSize \in Nat
  /\ minFHSize > 0 /\ BHSize > 0 /\ BFSize > 0 /\ maxBlockSize > 0
  /\ BHSize <= minFHSize /\ minFHSize < 2 * BHSize
  /\ minFHSize + SizeField <= maxFHSize
  /\ minFHSize + SizeField <= maxBlockSize + BFSize /\ 2 * BHSize <= maxBlockSize + BFSize
  /\ StableDst \in BOOLEAN
PROOF
<1>1. /\ maxFHSize \in Nat /\ SizeField \in Nat /\ KB64 \in Nat /\ DstSize \in Nat
      /\ MaxGiven \in Nat /\ MaxRoom \in Nat /\ DictSize \in Nat
  BY FormatAssumption
<1>2. /\ minFHSize \in Nat /\ BHSize \in Nat /\ BFSize \in Nat /\ maxBlockSize \in Nat
      /\ minFHSize > 0 /\ BHSize > 0 /\ BFSize > 0 /\ maxBlockSize > 0
  BY FormatAssumption
<1>3. minFHSize + SizeField <= maxBlockSize + BFSize /\ 2 * BHSize <= maxBlockSize + BFSize
  BY FormatAssumption
<1> QED
  BY <1>1, <1>2, <1>3, FormatAssumption

LEMMA FrameFacts ==
  ASSUME stream \in Seq(IntactFrame), stream # << >>
  PROVE  /\ Tail(stream) \in Seq(IntactFrame)
         /\ f.skippable \in BOOLEAN /\ f.linked \in BOOLEAN /\ f.sized \in BOOLEAN
         /\ f.checksum \in BOOLEAN /\ f.blockChecksum \in BOOLEAN
         /\ f.blocks \in Seq(Block) /\ Len(f.blocks) \in Nat /\ f.size \in Nat
         /\ HeaderSize(f) \in Nat /\ minFHSize <= HeaderSize(f) /\ HeaderSize(f) <= maxFHSize
         /\ HeaderSize(f) <= maxBlockSize + BFSize
         /\ crcSize \in Nat /\ crcSize <= BFSize
PROOF
<1>1. f \in IntactFrame
  BY DEF f
<1>2. /\ f.skippable \in BOOLEAN /\ f.linked \in BOOLEAN /\ f.sized \in BOOLEAN
      /\ f.checksum \in BOOLEAN /\ f.blockChecksum \in BOOLEAN
      /\ f.blocks \in Seq(Block) /\ f.size \in Nat
  BY <1>1 DEF IntactFrame
<1>3. /\ HeaderSize(f) \in Nat /\ minFHSize <= HeaderSize(f) /\ HeaderSize(f) <= maxFHSize
      /\ HeaderSize(f) <= maxBlockSize + BFSize
  BY FormatFacts DEF HeaderSize
<1>4. crcSize \in Nat /\ crcSize <= BFSize
  BY FormatFacts DEF crcSize
<1> QED
  BY <1>2, <1>3, <1>4

LEMMA BlockFacts ==
  ASSUME stream \in Seq(IntactFrame), stream # << >>, NEW k \in Nat, 0 < k, k <= Len(f.blocks)
  PROVE  /\ f.blocks[k].csize \in Nat /\ 0 < f.blocks[k].csize /\ f.blocks[k].csize <= maxBlockSize
         /\ f.blocks[k].size \in Nat /\ f.blocks[k].size <= maxBlockSize
         /\ f.blocks[k].raw => f.blocks[k].size = f.blocks[k].csize
PROOF
<1>1. f.blocks \in Seq(Block) /\ Len(f.blocks) \in Nat
  BY FrameFacts
<1>2. k \in 1 .. Len(f.blocks)
  BY <1>1
<1>3. f.blocks[k] \in Block
  BY <1>1, <1>2
<1> QED
  BY <1>3 DEF Block

LEMMA BytesFacts ==
  ASSUME NEW from \in Int, NEW n \in Nat
  PROVE  Bytes(from, n) \in Seq(Int) /\ Len(Bytes(from, n)) = n
PROOF
  BY DEF Bytes

LEMMA BytesJoined ==
  ASSUME NEW from \in Int, NEW n \in Nat, NEW more \in Nat
  PROVE  Bytes(from, n) \o Bytes(from + n, more) = Bytes(from, n + more)
PROOF
  BY DEF Bytes

LEMMA BytesBehind ==
  ASSUME NEW from \in Int, NEW n \in Nat, NEW more \in Nat
  PROVE  SubSeq(Bytes(from, n + more), n + 1, n + more) = Bytes(from + n, more)
PROOF
  BY DEF Bytes

LEMMA ConsumedFacts ==
  ASSUME c \in CallState, NEW k \in Nat, k <= c.given
  PROVE  /\ Consumed(k) \in CallState
         /\ Consumed(k).at = c.at + k /\ Consumed(k).given = c.given - k
         /\ Consumed(k).ptr = c.ptr /\ Consumed(k).start = c.start /\ Consumed(k).room = c.room
         /\ Consumed(k).asked = c.asked
         /\ (c.moved \/ k > 0) => Consumed(k).moved
PROOF
<1>1. /\ Consumed(k).at = c.at + k /\ Consumed(k).given = c.given - k
      /\ Consumed(k).ptr = c.ptr /\ Consumed(k).start = c.start /\ Consumed(k).room = c.room
      /\ Consumed(k).asked = c.asked
  BY DEF Consumed, CallState
<1>2. c.at + k \in Nat /\ c.given - k \in Nat
  BY DEF CallState
<1>3. Consumed(k) = [c EXCEPT !.at = c.at + k, !.given = c.given - k, !.moved = c.moved \/ k > 0]
  BY DEF Consumed, CallState
<1>4. Consumed(k) \in CallState
  BY <1>2, <1>3 DEF CallState
<1>5. (c.moved \/ k > 0) => Consumed(k).moved
  BY <1>3 DEF CallState
<1> QED
  BY <1>1, <1>4, <1>5

LEMMA LesserFacts ==
  ASSUME NEW x \in Int, NEW y \in Int
  PROVE  /\ Lesser(x, y) \in Int /\ Lesser(x, y) <= x /\ Lesser(x, y) <= y
         /\ Lesser(x, y) = x \/ (Lesser(x, y) = y /\ y < x)
         /\ x \in Nat /\ y \in Nat => Lesser(x, y) \in Nat
PROOF
  BY DEF Lesser

(* The bytes of a field that is cut.                                       *)
LEMMA GatheredFacts ==
  ASSUME FrameInv, phase = "loop", d.stage \in Storing, NEW n \in Nat, n = FieldSize,
         NEW k, k = Lesser(n - Len(d.held), c.given)
  PROVE  /\ k \in Nat /\ k <= c.given
         /\ Gathered(n) \in Seq(Int) /\ Len(Gathered(n)) = Len(d.held) + k
         /\ Gathered(n) = Bytes(t.due, Len(d.held) + k)
         /\ Len(d.held) \in Nat /\ Len(d.held) + k <= n
         /\ Len(Gathered(n)) < n => k = c.given
         /\ ~(Len(Gathered(n)) < n) => k = n - Len(d.held) /\ k > 0 /\ Len(Gathered(n)) = n
         /\ IsDue(Gathered(n))
         /\ t.due \in Nat /\ c.at \in Nat /\ c.at = t.due + Len(d.held)
PROOF
<1>1. /\ d.held \in Seq(Int) /\ c.given \in Nat /\ c.at \in Nat /\ t.due \in Nat
  BY DEF FrameInv, FrameDecoderTypeOK, Context, CallState, TextState
<1>2. Len(d.held) \in Nat /\ Len(d.held) < n
  BY <1>1 DEF FrameInv, FieldsFit
<1>3. c.at = t.due + Len(d.held) /\ d.held = Bytes(t.due, Len(d.held))
  BY DEF FrameInv, InField
<1> DEFINE m == Len(d.held)
           g == c.given
<1>4. m \in Nat /\ m < n /\ g \in Nat
  BY <1>1, <1>2
<1>12. k = Lesser(n - m, g)
  OBVIOUS
<1>13. d.held = Bytes(t.due, m) /\ c.at = t.due + m /\ Gathered(n) = d.held \o Bytes(c.at, k)
  BY <1>3 DEF Gathered
<1> HIDE DEF m, g
<1>14. /\ k \in Int /\ k <= n - m /\ k <= g /\ (k = n - m \/ (k = g /\ g < n - m))
  BY <1>4, <1>12, LesserFacts
<1>5. /\ k \in Nat /\ k <= g /\ m + k <= n
      /\ m + k < n => k = g
      /\ ~(m + k < n) => k = n - m /\ k > 0 /\ m + k = n
  BY <1>4, <1>14
<1>6. Gathered(n) = Bytes(t.due, m) \o Bytes(t.due + m, k)
  BY <1>13
<1>8. m \in Nat /\ k \in Nat /\ m + k \in Nat /\ t.due \in Int
  BY <1>1, <1>4, <1>5
<1>7. Gathered(n) = Bytes(t.due, m + k)
  BY <1>6, <1>8, BytesJoined
<1>9. Gathered(n) \in Seq(Int) /\ Len(Gathered(n)) = m + k
  BY <1>7, <1>8, BytesFacts
<1>10. IsDue(Gathered(n))
  BY <1>7, <1>9 DEF IsDue
<1>11. /\ Len(Gathered(n)) < n => k = g
       /\ ~(Len(Gathered(n)) < n) => k = n - m /\ k > 0 /\ Len(Gathered(n)) = n
  BY <1>5, <1>9
<1> QED
  BY <1>1, <1>3, <1>4, <1>5, <1>7, <1>9, <1>10, <1>11 DEF m, g

(* An input that ends inside a field is kept for the next call.            *)
LEMMA InputEnds ==
  ASSUME FrameInv, phase = "loop", d.stage \in Storing, NEW n \in Nat, n = FieldSize,
         Len(Gathered(n)) < n, c' = Consumed(Lesser(n - Len(d.held), c.given)),
         d' = [d EXCEPT !.held = Gathered(n)], phase' = "leave", UNCHANGED << stream, t, mem >>
  PROVE  FrameInv'
PROOF
<1>1. PICK k \in Nat : k = Lesser(n - Len(d.held), c.given)
  BY GatheredFacts
<1>2. /\ k <= c.given /\ k = c.given
      /\ Gathered(n) \in Seq(Int) /\ Len(Gathered(n)) = Len(d.held) + k
      /\ Gathered(n) = Bytes(t.due, Len(d.held) + k)
      /\ Len(d.held) \in Nat /\ t.due \in Nat /\ c.at \in Nat
      /\ c.at = t.due + Len(d.held)
  BY <1>1, GatheredFacts
<1>3. /\ d \in Context /\ c \in CallState
  BY DEF FrameInv, FrameDecoderTypeOK
<1>4. /\ d' \in Context /\ d'.held = Gathered(n) /\ d'.stage = d.stage /\ d'.target = d.target
      /\ d'.maxBufferSize = d.maxBufferSize /\ d'.tmpOut = d.tmpOut
      /\ d'.tmpOutSize = d.tmpOutSize /\ d'.tmpOutStart = d.tmpOutStart
      /\ d'.dict = d.dict /\ d'.dictSize = d.dictSize /\ d'.blockSum = d.blockSum
  BY <1>2, <1>3 DEF Context
<1>5. /\ c' \in CallState /\ c'.at = c.at + k /\ c'.given = c.given - k /\ c'.ptr = c.ptr
      /\ c'.start = c.start /\ c'.room = c.room /\ c'.asked = c.asked
      /\ (c.moved \/ k > 0) => c'.moved
  BY <1>1, <1>2, <1>3, ConsumedFacts
<1>6. t' = t /\ stream' = stream /\ phase' = "leave"
  OBVIOUS
<1>7. FrameDecoderTypeOK'
  BY <1>4, <1>5, <1>6 DEF FrameInv, FrameDecoderTypeOK
<1>8. FieldsFit'
  <2>1. FieldSize' = FieldSize
    BY <1>4 DEF FieldSize
  <2>2. Len(d'.held) < n
    BY <1>4
  <2>3. FieldSize <= maxBlockSize + BFSize /\ Len(d'.held) <= maxBlockSize + BFSize
    <3>1. n <= maxBlockSize + BFSize
      BY DEF FrameInv, FieldsFit
    <3>2. Len(d'.held) \in Nat
      BY <1>2, <1>4
    <3> QED
      BY <2>2, <3>1, <3>2, FormatFacts
  <2> QED
    BY <1>4, <2>1, <2>2, <2>3 DEF FieldsFit
<1>9. TargetsFit'
  <2>1. f' = f /\ (b' = b) /\ (crcSize' = crcSize)
    BY <1>6 DEF f, b, crcSize
  <2>2. d.stage \notin { "init", "skipSkippable", "getFrameHeader" }
    BY DEF Storing
  <2> QED
    BY <1>4, <1>6, <2>1, <2>2 DEF FrameInv, TargetsFit
<1>10. InField'
  <2>1. d'.held = Bytes(t'.due, Len(d'.held)) /\ c'.at = t'.due + Len(d'.held)
    <3>1. Len(d'.held) = Len(d.held) + k /\ t'.due = t.due
      BY <1>2, <1>4, <1>6
    <3>2. c'.at = t.due + Len(d.held) + k
      BY <1>2, <1>5
    <3> QED
      BY <1>2, <1>4, <3>1, <3>2
  <2>2. d.stage \in HeaderStages => t'.due = 0
    BY <1>6 DEF FrameInv, InField
  <2> QED
    BY <1>4, <2>1, <2>2 DEF InField, Storing
<1>11. InOutput'
  BY <1>5 DEF FrameInv, InOutput
<1>12. GetsAhead'
  <2>1. c.asked => c.moved \/ c.given > 0
    BY DEF FrameInv, GetsAhead
  <2>2. c.given > 0 => k > 0
    BY <1>2
  <2>3. c'.asked => c'.moved
    BY Zenon, <1>5, <2>1, <2>2
  <2> QED
    BY <1>6, <2>3 DEF GetsAhead
<1>13. Buffers'
  <2>1. f' = f
    BY <1>6 DEF f
  <2> QED
    BY <1>4, <2>1 DEF FrameInv, Buffers
<1>14. RefusedAtEnd'
  BY <1>6 DEF RefusedAtEnd
<1> QED
  BY <1>7, <1>8, <1>9, <1>10, <1>11, <1>12, <1>13, <1>14 DEF FrameInv

-----------------------------------------------------------------------------
(* Most steps leave the buffers as they are, and read from the input.      *)
SameBuffers ==
  /\ d'.maxBufferSize = d.maxBufferSize /\ d'.dict = d.dict /\ d'.dictSize = d.dictSize
  /\ d'.tmpOut = d.tmpOut /\ d'.tmpOutSize = d.tmpOutSize /\ d'.tmpOutStart = d.tmpOutStart

SameOutput == c'.ptr = c.ptr /\ c'.start = c.start /\ c'.room = c.room /\ c'.asked = c.asked

LEMMA BuffersStay ==
  ASSUME FrameInv, SameBuffers, stream' = stream,
         d'.stage \in Built => d.stage \in Built,
         d'.stage \in HeaderStages \cup { "init" } => d.stage \in HeaderStages \cup { "init" },
         d'.stage # "flushOut"
  PROVE  Buffers'
PROOF
<1>1. f' = f
  BY DEF f
<1> QED
  BY <1>1 DEF FrameInv, Buffers, SameBuffers

LEMMA CallMoves ==
  ASSUME FrameInv, SameOutput, c'.moved
  PROVE  InOutput' /\ GetsAhead'
PROOF
<1>1. InOutput'
  BY DEF FrameInv, InOutput, SameOutput
<1> QED
  BY <1>1 DEF GetsAhead

LEMMA CallStays ==
  ASSUME FrameInv, c' = c, phase = "loop", phase' = "loop"
  PROVE  InOutput' /\ GetsAhead'
PROOF
  BY DEF FrameInv, InOutput, GetsAhead

(* The bytes of a header, all of them or enough to see how many it has.    *)
LEMMA HeaderRead ==
  ASSUME FrameInv, phase \in { "loop", "idle" }, stream # << >>,
         d.stage \in { "getFrameHeader", "storeFrameHeader" },
         NEW bytes \in Seq(Int), IsDue(bytes), NEW direct \in BOOLEAN, DecodeHeader(bytes, direct),
         c' \in CallState, InOutput', GetsAhead', UNCHANGED resets,
         direct => (f.skippable \/ HeaderSize(f) <= Len(bytes)) /\ c'.at = HeaderTaken,
         ~direct => /\ c'.at = Len(bytes)
                    /\ Len(bytes) = minFHSize \/ (~f.skippable /\ Len(bytes) = HeaderSize(f))
  PROVE  FrameInv'
PROOF
<1>1. /\ d \in Context /\ t \in TextState /\ stream \in Seq(IntactFrame) /\ stream # << >>
      /\ t.due = 0 /\ t.block = 0 /\ Len(d.held) <= maxBlockSize + BFSize
      /\ t' \in TextState => t'.due \in Nat
  BY DEF FrameInv, FrameDecoderTypeOK, FieldsFit, TargetsFit, InField, HeaderStages, TextState
<1>2. /\ f.skippable \in BOOLEAN /\ f.sized \in BOOLEAN /\ f.size \in Nat
      /\ HeaderSize(f) \in Nat /\ minFHSize <= HeaderSize(f)
      /\ HeaderSize(f) <= maxBlockSize + BFSize /\ Len(f.blocks) \in Nat
  BY <1>1, FrameFacts
<1>3. stream' = stream /\ mem' = mem /\ phase' \in { "loop", "idle" } /\ f' = f /\ Len(bytes) \in Nat
      /\ bytes = Bytes(0, Len(bytes))
  BY <1>1 DEF DecodeHeader, IsDue, f
<1>4. InOutput' /\ GetsAhead'
  OBVIOUS
<1>5. CASE f.skippable /\ direct
  <2>1. d' = [d EXCEPT !.stage = "getSFrameSize"] /\ t' = t
    BY <1>5 DEF DecodeHeader
  <2>2. d' \in Context /\ SameBuffers /\ d'.stage = "getSFrameSize" /\ d'.held = d.held
    BY <1>1, <2>1 DEF Context, SameBuffers, DecoderStages, HeaderStages
  <2>3. Buffers'
    BY <1>3, <2>2, BuffersStay DEF HeaderStages, Built, InBlocks
  <2>4. FrameDecoderTypeOK'
    BY <1>1, <1>3, <2>1, <2>2 DEF FrameDecoderTypeOK
  <2>5. FieldsFit' /\ TargetsFit'
    BY <1>1, <1>3, <2>1, <2>2
    DEF FieldsFit, TargetsFit, Storing, HeaderStages, Built, InBlocks, OfBlock
  <2>6. InField'
    BY <1>1, <1>3, <1>5, <2>1, <2>2 DEF InField, Storing, HeaderTaken
  <2> QED
    BY <1>3, <1>4, <2>3, <2>4, <2>5, <2>6 DEF FrameInv, RefusedAtEnd
<1>6. CASE f.skippable /\ ~direct
  <2>1. /\ d' = [d EXCEPT !.stage = "storeSFrameSize", !.held = bytes, !.target = 2 * BHSize]
        /\ t' = t
    BY <1>6 DEF DecodeHeader
  <2>2. /\ d' \in Context /\ SameBuffers /\ d'.stage = "storeSFrameSize"
        /\ d'.held = bytes /\ d'.target = 2 * BHSize
    <3> 2 * BHSize \in Nat
      BY FormatFacts
    <3> QED
      BY <1>1, <2>1 DEF Context, SameBuffers, DecoderStages, HeaderStages
  <2>3. Buffers'
    BY <1>3, <2>2, BuffersStay DEF HeaderStages, Built, InBlocks
  <2>4. FrameDecoderTypeOK'
    BY <1>1, <1>3, <2>1, <2>2 DEF FrameDecoderTypeOK
  <2>5. Len(bytes) < 2 * BHSize /\ 2 * BHSize <= maxBlockSize + BFSize /\ Len(bytes) <= maxBlockSize + BFSize
    BY <1>6, FormatFacts
  <2>6. FieldsFit'
    BY <1>3, <2>2, <2>5 DEF FieldsFit, FieldSize
  <2>7. TargetsFit'
    BY <1>1, <1>3, <2>1, <2>2 DEF TargetsFit, HeaderStages, Built, InBlocks, OfBlock
  <2>8. InField'
    BY <1>1, <1>3, <1>6, <2>1, <2>2 DEF InField
  <2> QED
    BY <1>3, <1>4, <2>3, <2>4, <2>6, <2>7, <2>8 DEF FrameInv, RefusedAtEnd
<1>7. CASE ~f.skippable /\ Len(bytes) < HeaderSize(f)
  <2>1. /\ d' = [d EXCEPT !.stage = "storeFrameHeader", !.held = bytes, !.target = HeaderSize(f)]
        /\ t' = t /\ ~direct
    BY <1>2, <1>3, <1>7 DEF DecodeHeader
  <2>2. /\ d' \in Context /\ SameBuffers /\ d'.stage = "storeFrameHeader"
        /\ d'.held = bytes /\ d'.target = HeaderSize(f)
    BY <1>1, <1>2, <2>1 DEF Context, SameBuffers, DecoderStages, HeaderStages
  <2>3. Buffers'
    BY <1>3, <2>2, BuffersStay DEF HeaderStages, Built, InBlocks
  <2>4. FrameDecoderTypeOK'
    BY <1>1, <1>3, <2>1, <2>2 DEF FrameDecoderTypeOK
  <2>5. Len(bytes) <= maxBlockSize + BFSize
    BY <1>2, <1>3, <1>7, FormatFacts
  <2>6. FieldsFit'
    BY <1>2, <1>3, <1>7, <2>2, <2>5 DEF FieldsFit, FieldSize
  <2>7. TargetsFit'
    BY <1>1, <1>3, <1>7, <2>1, <2>2 DEF TargetsFit, HeaderStages, Built, InBlocks, OfBlock
  <2>8. InField'
    BY <1>1, <1>3, <2>1, <2>2 DEF InField
  <2> QED
    BY <1>3, <1>4, <2>3, <2>4, <2>6, <2>7, <2>8 DEF FrameInv, RefusedAtEnd
<1>8. CASE ~f.skippable /\ ~(Len(bytes) < HeaderSize(f))
  <2>1. /\ d' = [d EXCEPT !.stage = "init", !.remaining = IF f.sized THEN f.size ELSE @]
        /\ t' = [t EXCEPT !.due = HeaderSize(f)]
    BY <1>8 DEF DecodeHeader
  <2>2. /\ d' \in Context /\ SameBuffers /\ d'.stage = "init" /\ d'.held = d.held
    <3> DEFINE r == IF f.sized THEN f.size ELSE d.remaining
    <3>1. d' = [d EXCEPT !.stage = "init", !.remaining = r] /\ r \in Int
      BY <1>1, <1>2, <2>1 DEF Context
    <3> HIDE DEF r
    <3> QED
      BY <1>1, <3>1 DEF Context, SameBuffers, DecoderStages, InBlocks
  <2>3. t' \in TextState /\ t'.due = HeaderSize(f) /\ t'.block = 0
    BY <1>1, <1>2, <2>1 DEF TextState
  <2>4. Buffers'
    BY <1>3, <2>2, BuffersStay DEF HeaderStages, Built, InBlocks
  <2>5. FrameDecoderTypeOK'
    BY <1>1, <1>3, <2>2, <2>3 DEF FrameDecoderTypeOK
  <2>6. FieldsFit'
    BY <1>1, <2>2 DEF FieldsFit, Storing
  <2>7. TargetsFit'
    BY <1>1, <1>3, <2>2, <2>3 DEF TargetsFit, HeaderStages, Built, InBlocks, OfBlock
  <2>8. c'.at = HeaderSize(f)
    BY <1>2, <1>8, FormatFacts DEF HeaderTaken
  <2>9. InField'
    BY <2>2, <2>3, <2>8 DEF InField, Storing, HeaderStages
  <2> QED
    BY <1>3, <1>4, <2>4, <2>5, <2>6, <2>7, <2>9 DEF FrameInv, RefusedAtEnd
<1> QED
  BY <1>2, <1>5, <1>6, <1>7, <1>8
-----------------------------------------------------------------------------
(* A field that was cut and of which now all bytes are there.              *)
LEMMA FieldWhole ==
  ASSUME FrameInv, phase = "loop", d.stage \in Storing, NEW n \in Nat, n = FieldSize,
         ~(Len(Gathered(n)) < n), NEW k, k = Lesser(n - Len(d.held), c.given)
  PROVE  /\ Gathered(n) \in Seq(Int) /\ Len(Gathered(n)) = n
         /\ Gathered(n) = Bytes(t.due, n) /\ IsDue(Gathered(n))
         /\ Consumed(k) \in CallState /\ Consumed(k).moved /\ Consumed(k).at = t.due + n
         /\ Consumed(k).ptr = c.ptr /\ Consumed(k).start = c.start /\ Consumed(k).room = c.room
         /\ Consumed(k).asked = c.asked
         /\ k = n - Len(d.held) /\ k \in Nat
PROOF
<1>1. /\ k \in Nat /\ k <= c.given /\ k > 0 /\ k = n - Len(d.held) /\ Len(d.held) \in Nat
      /\ Gathered(n) \in Seq(Int) /\ Len(Gathered(n)) = n
      /\ Gathered(n) = Bytes(t.due, Len(d.held) + k) /\ IsDue(Gathered(n))
      /\ t.due \in Nat /\ c.at \in Nat /\ c.at = t.due + Len(d.held)
  BY GatheredFacts
<1>2. c \in CallState
  BY DEF FrameInv, FrameDecoderTypeOK
<1>3. /\ Consumed(k) \in CallState /\ Consumed(k).at = c.at + k /\ Consumed(k).moved
      /\ Consumed(k).ptr = c.ptr /\ Consumed(k).start = c.start /\ Consumed(k).room = c.room
      /\ Consumed(k).asked = c.asked
  BY <1>1, <1>2, ConsumedFacts
<1>4. Len(d.held) + k = n /\ c.at + k = t.due + n
  BY <1>1
<1> QED
  BY <1>1, <1>3, <1>4

LEMMA DueFacts ==
  ASSUME c.at = t.due, t.due \in Nat, NEW n \in Nat
  PROVE  /\ Bytes(c.at, n) \in Seq(Int) /\ Len(Bytes(c.at, n)) = n /\ IsDue(Bytes(c.at, n))
PROOF
<1>1. Bytes(c.at, n) \in Seq(Int) /\ Len(Bytes(c.at, n)) = n
  BY BytesFacts
<1> QED
  BY <1>1 DEF IsDue

LEMMA NothingHeld == << >> \in Seq(Int) /\ Len(<< >>) = 0
PROOF
  OBVIOUS

LEMMA GetFrameHeaderStep ==
  ASSUME FrameInv, GetFrameHeader, UNCHANGED resets
  PROVE  FrameInv'
PROOF
<1>1. /\ phase = "loop" /\ d.stage = "getFrameHeader" /\ d \in Context /\ c \in CallState
      /\ t \in TextState /\ stream \in Seq(IntactFrame) /\ stream # << >>
      /\ t.due = 0 /\ t.block = 0 /\ c.at = 0 /\ c.given \in Nat /\ d.dict # TMP
      /\ d.maxBufferSize \in Nat
  BY DEF FrameInv, FrameDecoderTypeOK, TargetsFit, InField, Buffers, HeaderStages, GetFrameHeader,
         Stop, Context, CallState
<1>2. CASE c.given >= maxFHSize
  <2> DEFINE bytes == Bytes(c.at, c.given)
  <2>1. DecodeHeader(bytes, TRUE) /\ c' = Consumed(HeaderTaken)
    BY <1>2 DEF GetFrameHeader
  <2>2. bytes \in Seq(Int) /\ Len(bytes) = c.given /\ IsDue(bytes)
    <3> c.at = t.due /\ t.due \in Nat /\ c.given \in Nat
      BY <1>1
    <3> QED
      BY DueFacts
  <2>3. /\ HeaderTaken \in Nat /\ HeaderTaken > 0 /\ HeaderTaken <= c.given
        /\ HeaderSize(f) <= c.given
    BY <1>1, <1>2, FrameFacts, FormatFacts DEF HeaderTaken
  <2>4. c' \in CallState /\ SameOutput /\ c'.moved /\ c'.at = HeaderTaken
    BY <1>1, <2>1, <2>3, ConsumedFacts DEF SameOutput
  <2> HIDE DEF bytes
  <2>5. HeaderSize(f) <= Len(bytes)
    BY <2>2, <2>3
  <2>6. InOutput' /\ GetsAhead'
    BY <2>4, CallMoves
  <2> QED
    BY <1>1, <2>1, <2>2, <2>4, <2>5, <2>6, HeaderRead
<1>3. CASE ~(c.given >= maxFHSize) /\ c.given = 0
  <2>1. phase' = "idle" /\ d' = [d EXCEPT !.held = << >>] /\ UNCHANGED << stream, c, t, mem >>
    BY <1>3 DEF GetFrameHeader
  <2>2. /\ d' \in Context /\ SameBuffers /\ d'.stage = "getFrameHeader" /\ d'.held = << >>
    BY <1>1, <2>1, NothingHeld DEF Context, SameBuffers
  <2>3. Buffers'
    BY <1>1, <2>1, <2>2, BuffersStay DEF Built, InBlocks
  <2>4. FrameDecoderTypeOK'
    BY <1>1, <2>1, <2>2 DEF FrameDecoderTypeOK
  <2>5. FieldsFit'
    BY <2>2, FormatFacts DEF FieldsFit, Storing
  <2>6. TargetsFit' /\ InField'
    BY <1>1, <2>1, <2>2 DEF TargetsFit, InField, HeaderStages, Built, InBlocks, OfBlock, Storing
  <2>7. InOutput' /\ GetsAhead' /\ RefusedAtEnd'
    BY <2>1 DEF FrameInv, InOutput, GetsAhead, RefusedAtEnd
  <2> QED
    BY <2>3, <2>4, <2>5, <2>6, <2>7 DEF FrameInv
<1>4. CASE ~(c.given >= maxFHSize) /\ c.given # 0
  <2>1. /\ d' = [d EXCEPT !.held = << >>, !.target = minFHSize, !.stage = "storeFrameHeader"]
        /\ UNCHANGED << stream, c, t, mem, phase >>
    BY <1>4 DEF GetFrameHeader
  <2>2. /\ d' \in Context /\ SameBuffers /\ d'.stage = "storeFrameHeader" /\ d'.held = << >>
        /\ d'.target = minFHSize
    <3> minFHSize \in Nat
      BY FormatFacts
    <3> QED
      BY <1>1, <2>1, NothingHeld DEF Context, SameBuffers, DecoderStages, HeaderStages
  <2>3. Buffers'
    BY <1>1, <2>1, <2>2, BuffersStay DEF HeaderStages, Built, InBlocks
  <2>4. FrameDecoderTypeOK'
    BY <1>1, <2>1, <2>2 DEF FrameDecoderTypeOK
  <2>5. FieldsFit'
    BY <2>2, FormatFacts DEF FieldsFit, FieldSize
  <2>6. TargetsFit'
    BY <1>1, <2>1, <2>2 DEF TargetsFit, HeaderStages, Built, InBlocks, OfBlock
  <2>7. InField'
    <3>1. Bytes(0, 0) = << >>
      BY DEF Bytes
    <3> QED
      BY <1>1, <2>1, <2>2, <3>1 DEF InField
  <2>8. InOutput' /\ GetsAhead'
    BY <1>1, <2>1, CallStays
  <2> QED
    BY <1>1, <2>1, <2>3, <2>4, <2>5, <2>6, <2>7, <2>8 DEF FrameInv, RefusedAtEnd
<1> QED
  BY <1>2, <1>3, <1>4

LEMMA StoreFrameHeaderStep ==
  ASSUME FrameInv, StoreFrameHeader, UNCHANGED resets
  PROVE  FrameInv'
PROOF
<1> DEFINE k == Lesser(d.target - Len(d.held), c.given)
<1>1. phase = "loop" /\ d.stage = "storeFrameHeader" /\ d.stage \in Storing
  BY DEF StoreFrameHeader, Stop, Storing
<1>2. d.target \in Nat /\ d.target = FieldSize /\ t.due = 0
  BY <1>1 DEF FrameInv, FrameDecoderTypeOK, Context, FieldSize, InField, HeaderStages
<1>3. /\ c' = Consumed(k)
      /\ Len(Gathered(d.target)) < d.target =>
           /\ d' = [d EXCEPT !.held = Gathered(d.target)] /\ phase' = "leave"
           /\ UNCHANGED << stream, t, mem >>
      /\ ~(Len(Gathered(d.target)) < d.target) => DecodeHeader(Gathered(d.target), FALSE)
  BY DEF StoreFrameHeader, Gather
<1>4. CASE Len(Gathered(d.target)) < d.target
  BY <1>1, <1>2, <1>3, <1>4, InputEnds
<1>5. CASE ~(Len(Gathered(d.target)) < d.target)
  <2>1. /\ Gathered(d.target) \in Seq(Int) /\ IsDue(Gathered(d.target))
        /\ Len(Gathered(d.target)) = d.target
        /\ c' \in CallState /\ SameOutput /\ c'.moved /\ c'.at = d.target
    BY <1>1, <1>2, <1>3, <1>5, FieldWhole DEF SameOutput
  <2>2. d.target = minFHSize \/ (~f.skippable /\ d.target = HeaderSize(f))
    BY <1>1 DEF FrameInv, TargetsFit
  <2>3. InOutput' /\ GetsAhead' /\ stream # << >>
    BY <1>1, <2>1, CallMoves DEF FrameInv, TargetsFit
  <2> QED
    BY <1>1, <1>3, <1>5, <2>1, <2>2, <2>3, HeaderRead
<1> QED
  BY <1>4, <1>5

LEMMA InitFrameStep ==
  ASSUME FrameInv, InitFrame, UNCHANGED resets
  PROVE  FrameInv'
PROOF
<1> DEFINE needed == maxBlockSize + IF f.linked THEN 2 * KB64 ELSE 0
           m == IF needed > d.maxBufferSize THEN needed ELSE d.maxBufferSize
<1>1. /\ phase = "loop" /\ d.stage = "init" /\ d \in Context /\ c \in CallState
      /\ t \in TextState /\ stream \in Seq(IntactFrame) /\ stream # << >>
      /\ t.block = 0 /\ c.at = t.due /\ d.dict # TMP /\ d.maxBufferSize \in Nat
  BY DEF FrameInv, FrameDecoderTypeOK, TargetsFit, InField, Buffers, HeaderStages, InitFrame,
         Stop, Context
<1>2. f.linked \in BOOLEAN /\ Len(f.blocks) \in Nat
  BY <1>1, FrameFacts
<1>3. needed \in Nat /\ m \in Nat /\ needed <= m /\ maxBlockSize <= needed
  BY <1>1, <1>2, FormatFacts
<1>4. /\ d' = [d EXCEPT !.stage = "getBlockHeader", !.xxh = 0, !.held = << >>, !.target = 0,
                        !.tmpOut = TMP, !.tmpOutStart = 0, !.tmpOutSize = 0, !.maxBufferSize = m]
      /\ UNCHANGED << stream, c, t, phase >>
  BY <1>1 DEF InitFrame, Context
<1>5. TMP \in Nat
  BY FormatFacts DEF TMP
<1> HIDE DEF m
<1>6. /\ d' \in Context /\ d'.stage = "getBlockHeader" /\ d'.held = << >>
      /\ d'.tmpOut = TMP /\ d'.tmpOutSize = 0 /\ d'.maxBufferSize = m /\ d'.dict = d.dict
  <2> d \in Context /\ m \in Nat /\ TMP \in Int
    BY <1>1, <1>3, <1>5
  <2> DEFINE nothing == << >>
             zero == 0
  <2>1. nothing \in Seq(Int) /\ zero \in Nat /\ zero \in Int
    BY NothingHeld
  <2>2. d' = [d EXCEPT !.stage = "getBlockHeader", !.xxh = zero, !.held = nothing, !.target = zero,
                       !.tmpOut = TMP, !.tmpOutStart = zero, !.tmpOutSize = zero,
                       !.maxBufferSize = m]
    BY <1>4
  <2>3. "getBlockHeader" \in DecoderStages
    BY DEF DecoderStages, InBlocks
  <2> HIDE DEF needed, nothing, zero
  <2>4. d' \in Context
    BY <2>1, <2>2, <2>3 DEF Context
  <2>5. /\ d'.stage = "getBlockHeader" /\ d'.held = nothing
        /\ d'.tmpOut = TMP /\ d'.tmpOutSize = zero /\ d'.maxBufferSize = m /\ d'.dict = d.dict
    BY <2>2 DEF Context
  <2> QED
    BY <2>4, <2>5 DEF nothing, zero
<1>7. f' = f
  BY <1>4 DEF f
<1>8. FrameDecoderTypeOK'
  BY <1>1, <1>4, <1>6 DEF FrameDecoderTypeOK
<1>9. FieldsFit'
  BY <1>6, FormatFacts DEF FieldsFit, Storing
<1>10. TargetsFit' /\ InField'
  BY <1>1, <1>2, <1>4, <1>6, <1>7
  DEF TargetsFit, InField, HeaderStages, Built, InBlocks, OfBlock, Storing
<1>11. Buffers'
  <2>1. maxBlockSize + (IF f.linked THEN 2 * KB64 ELSE 0) <= m
    BY <1>3
  <2>2. TMP + 0 <= TMP + m /\ 0 <= maxBlockSize /\ TMP <= TMP
    BY <1>3, <1>5, FormatFacts
  <2> HIDE DEF needed
  <2> QED
    BY <1>1, <1>6, <1>7, <2>1, <2>2 DEF Buffers, HeaderStages, Built, InBlocks
<1>12. InOutput' /\ GetsAhead'
  BY <1>1, <1>4, CallStays
<1> QED
  BY <1>1, <1>4, <1>8, <1>9, <1>10, <1>11, <1>12 DEF FrameInv, RefusedAtEnd

-----------------------------------------------------------------------------
LEMMA BlockHeaderRead ==
  ASSUME FrameInv, phase = "loop", d.stage \in { "getBlockHeader", "storeBlockHeader" },
         NEW bytes, IsDue(bytes), DecodeBlockHeader(bytes),
         c' \in CallState, SameOutput, c'.moved, c'.at = t.due + BHSize, UNCHANGED resets
  PROVE  FrameInv'
PROOF
<1>1. /\ d \in Context /\ t \in TextState /\ stream \in Seq(IntactFrame) /\ stream # << >>
      /\ t.due \in Nat /\ t.block \in Nat /\ t.block <= Len(f.blocks)
      /\ Len(d.held) <= maxBlockSize + BFSize
  BY DEF FrameInv, FrameDecoderTypeOK, FieldsFit, TargetsFit, TextState, Built, InBlocks
<1>2. Len(f.blocks) \in Nat /\ crcSize \in Nat
  BY <1>1, FrameFacts
<1>3. /\ t' = [t EXCEPT !.due = t.due + BHSize, !.block = t.block + 1]
      /\ stream' = stream /\ f' = f /\ crcSize' = crcSize
  BY <1>1 DEF DecodeBlockHeader, TextState, f, crcSize
<1>4. t' \in TextState /\ t'.due = t.due + BHSize /\ t'.block = t.block + 1
  <2> t.due + BHSize \in Nat /\ t.block + 1 \in Nat
    BY <1>1, FormatFacts
  <2> QED
    BY <1>1, <1>3 DEF TextState
<1>5. InOutput' /\ GetsAhead'
  BY CallMoves
<1>6. CASE t.block = Len(f.blocks)
  <2>1. d' = [d EXCEPT !.stage = "getSuffix"] /\ phase' = phase
    BY <1>6 DEF DecodeBlockHeader
  <2>2. d' \in Context /\ SameBuffers /\ d'.stage = "getSuffix" /\ d'.held = d.held
    BY <1>1, <2>1 DEF Context, SameBuffers, DecoderStages
  <2>3. Buffers'
    BY <1>3, <2>2, BuffersStay DEF HeaderStages, Built, InBlocks
  <2>4. FrameDecoderTypeOK'
    BY <1>1, <1>3, <1>4, <2>1, <2>2 DEF FrameDecoderTypeOK
  <2>5. FieldsFit' /\ TargetsFit'
    BY <1>1, <1>3, <2>2 DEF FieldsFit, TargetsFit, Storing, HeaderStages, Built, InBlocks, OfBlock
  <2>6. InField'
    BY <1>4, <2>2 DEF InField, Storing, HeaderStages
  <2> QED
    BY <1>5, <2>1, <2>3, <2>4, <2>5, <2>6 DEF FrameInv, RefusedAtEnd
<1>7. CASE t.block # Len(f.blocks)
  <2>1. t.block + 1 \in Nat /\ 0 < t.block + 1 /\ t.block + 1 <= Len(f.blocks)
    BY <1>1, <1>2, <1>7
  <2> DEFINE csize == f.blocks[t.block + 1].csize
  <2>2. csize \in Nat /\ 0 < csize
    BY <1>1, <2>1, BlockFacts
  <2>3. b' = f.blocks[t.block + 1] /\ b'.csize = csize
    BY <1>3, <1>4 DEF b
  <2>4. CASE f.blocks[t.block + 1].raw
    <3>1. /\ d' = [d EXCEPT !.target = csize, !.blockSum = 0, !.stage = "copyDirect"]
          /\ phase' = phase
      BY <1>7, <2>4 DEF DecodeBlockHeader
    <3> HIDE DEF csize
    <3>2. /\ d' \in Context /\ SameBuffers /\ d'.stage = "copyDirect" /\ d'.held = d.held
          /\ d'.target = csize /\ d'.blockSum = 0
      BY <1>1, <2>2, <3>1 DEF Context, SameBuffers, DecoderStages, InBlocks
    <3>3. Buffers'
      BY <1>3, <3>2, BuffersStay DEF HeaderStages, Built, InBlocks
    <3>4. FrameDecoderTypeOK'
      BY <1>1, <1>3, <1>4, <3>1, <3>2 DEF FrameDecoderTypeOK
    <3>5. FieldsFit'
      BY <1>1, <3>2 DEF FieldsFit, Storing
    <3>6. 0 < csize /\ csize <= csize /\ 0 = csize - csize
      BY <2>2
    <3>7. TargetsFit'
      BY <1>1, <1>3, <1>4, <2>1, <2>3, <3>2, <3>6
      DEF TargetsFit, HeaderStages, Built, InBlocks, OfBlock
    <3>8. t'.due = t'.due + csize - csize
      BY <1>1, <1>4, <2>2, FormatFacts
    <3>9. InField'
      BY <1>4, <2>3, <3>2, <3>8 DEF InField, Storing, HeaderStages
    <3> QED
      BY <1>5, <3>1, <3>3, <3>4, <3>5, <3>7, <3>9 DEF FrameInv, RefusedAtEnd
  <2>5. CASE ~f.blocks[t.block + 1].raw
    <3>1. /\ d' = [d EXCEPT !.target = csize + crcSize, !.stage = "getCBlock"]
          /\ phase' \in { "loop", "leave" }
      BY <1>7, <2>5 DEF DecodeBlockHeader
    <3> HIDE DEF csize
    <3>2. /\ d' \in Context /\ SameBuffers /\ d'.stage = "getCBlock" /\ d'.held = d.held
          /\ d'.target = csize + crcSize
      <4> csize + crcSize \in Nat
        BY <1>2, <2>2
      <4> QED
        BY <1>1, <3>1 DEF Context, SameBuffers, DecoderStages, InBlocks
    <3>3. Buffers'
      BY <1>3, <3>2, BuffersStay DEF HeaderStages, Built, InBlocks
    <3>4. FrameDecoderTypeOK'
      BY <1>1, <1>3, <1>4, <3>1, <3>2 DEF FrameDecoderTypeOK
    <3>5. FieldsFit'
      BY <1>1, <3>2 DEF FieldsFit, Storing
    <3>6. TargetsFit'
      BY <1>1, <1>3, <1>4, <2>1, <2>3, <3>2
      DEF TargetsFit, HeaderStages, Built, InBlocks, OfBlock
    <3>7. InField'
      BY <1>4, <3>2 DEF InField, Storing, HeaderStages
    <3> QED
      BY <1>5, <3>1, <3>3, <3>4, <3>5, <3>6, <3>7 DEF FrameInv, RefusedAtEnd
  <2> QED
    BY <2>4, <2>5
<1> QED
  BY <1>6, <1>7

LEMMA GetBlockHeaderStep ==
  ASSUME FrameInv, GetBlockHeader, UNCHANGED resets
  PROVE  FrameInv'
PROOF
<1>1. /\ phase = "loop" /\ d.stage = "getBlockHeader" /\ d \in Context /\ c \in CallState
      /\ t \in TextState /\ stream \in Seq(IntactFrame) /\ stream # << >>
      /\ t.due \in Nat /\ c.at = t.due /\ c.given \in Nat /\ t.block <= Len(f.blocks)
  BY DEF FrameInv, FrameDecoderTypeOK, TargetsFit, InField, GetBlockHeader, Stop, Context,
         CallState, TextState, Built, InBlocks
<1>2. CASE c.given >= BHSize
  <2>1. DecodeBlockHeader(Bytes(c.at, BHSize)) /\ c' = Consumed(BHSize)
    BY <1>2 DEF GetBlockHeader
  <2>2. IsDue(Bytes(c.at, BHSize))
    BY <1>1, FormatFacts, DueFacts
  <2>3. BHSize \in Nat /\ BHSize > 0 /\ BHSize <= c.given
    BY <1>1, <1>2, FormatFacts
  <2>4. c' \in CallState /\ SameOutput /\ c'.moved /\ c'.at = t.due + BHSize
    BY <1>1, <2>1, <2>3, ConsumedFacts DEF SameOutput
  <2> QED
    BY <1>1, <2>1, <2>2, <2>4, BlockHeaderRead
<1>3. CASE ~(c.given >= BHSize)
  <2>1. /\ d' = [d EXCEPT !.held = << >>, !.stage = "storeBlockHeader"]
        /\ UNCHANGED << stream, c, t, mem, phase >>
    BY <1>3 DEF GetBlockHeader
  <2>2. /\ d' \in Context /\ SameBuffers /\ d'.stage = "storeBlockHeader" /\ d'.held = << >>
    BY <1>1, <2>1, NothingHeld DEF Context, SameBuffers, DecoderStages, InBlocks
  <2>3. Buffers'
    BY <1>1, <2>1, <2>2, BuffersStay DEF HeaderStages, Built, InBlocks
  <2>4. FrameDecoderTypeOK'
    BY <1>1, <2>1, <2>2 DEF FrameDecoderTypeOK
  <2>5. FieldsFit'
    BY <2>2, FormatFacts DEF FieldsFit, FieldSize
  <2>6. f' = f
    BY <2>1 DEF f
  <2>7. TargetsFit'
    BY <1>1, <2>1, <2>2, <2>6 DEF TargetsFit, HeaderStages, Built, InBlocks, OfBlock
  <2>8. InField'
    <3>1. Bytes(t.due, 0) = << >> /\ c.at = t.due + 0
      BY <1>1 DEF Bytes
    <3> QED
      BY <1>1, <2>1, <2>2, <3>1, NothingHeld DEF InField, HeaderStages
  <2>9. InOutput' /\ GetsAhead'
    BY <1>1, <2>1, CallStays
  <2> QED
    BY <1>1, <2>1, <2>3, <2>4, <2>5, <2>7, <2>8, <2>9 DEF FrameInv, RefusedAtEnd
<1> QED
  BY <1>2, <1>3

LEMMA StoreBlockHeaderStep ==
  ASSUME FrameInv, StoreBlockHeader, UNCHANGED resets
  PROVE  FrameInv'
PROOF
<1> DEFINE k == Lesser(BHSize - Len(d.held), c.given)
<1>1. phase = "loop" /\ d.stage = "storeBlockHeader" /\ d.stage \in Storing
  BY DEF StoreBlockHeader, Stop, Storing
<1>2. BHSize \in Nat /\ BHSize = FieldSize
  BY <1>1, FormatFacts DEF FieldSize
<1>3. /\ c' = Consumed(k)
      /\ Len(Gathered(BHSize)) < BHSize =>
           /\ d' = [d EXCEPT !.held = Gathered(BHSize)] /\ phase' = "leave"
           /\ UNCHANGED << stream, t, mem >>
      /\ ~(Len(Gathered(BHSize)) < BHSize) => DecodeBlockHeader(Gathered(BHSize))
  BY DEF StoreBlockHeader, Gather
<1>4. CASE Len(Gathered(BHSize)) < BHSize
  BY <1>1, <1>2, <1>3, <1>4, InputEnds
<1>5. CASE ~(Len(Gathered(BHSize)) < BHSize)
  <2>1. /\ IsDue(Gathered(BHSize))
        /\ c' \in CallState /\ SameOutput /\ c'.moved /\ c'.at = t.due + BHSize
    BY <1>1, <1>2, <1>3, <1>5, FieldWhole DEF SameOutput
  <2> QED
    BY <1>1, <1>3, <1>5, <2>1, BlockHeaderRead
<1> QED
  BY <1>4, <1>5

LEMMA BlockChecked ==
  ASSUME FrameInv, phase = "loop", d.stage = "getBlockChecksum",
         NEW bytes, IsDue(bytes), CheckBlock(bytes),
         c' \in CallState, SameOutput, c'.moved, c'.at = t.due + BFSize, UNCHANGED resets
  PROVE  FrameInv'
PROOF
<1>1. /\ d \in Context /\ t \in TextState /\ stream \in Seq(IntactFrame) /\ stream # << >>
      /\ t.due \in Nat /\ t.block \in Nat /\ t.block <= Len(f.blocks)
      /\ Len(d.held) <= maxBlockSize + BFSize /\ d.blockSum = b.csize
  BY DEF FrameInv, FrameDecoderTypeOK, FieldsFit, TargetsFit, TextState, Built, InBlocks
<1>2. /\ d' = [d EXCEPT !.stage = "getBlockHeader"] /\ t' = [t EXCEPT !.due = t.due + BFSize]
      /\ stream' = stream /\ phase' = phase /\ f' = f
  BY <1>1 DEF CheckBlock, TextState, f
<1>3. t' \in TextState /\ t'.due = t.due + BFSize /\ t'.block = t.block
  <2> t.due + BFSize \in Nat
    BY <1>1, FormatFacts
  <2> QED
    BY <1>1, <1>2 DEF TextState
<1>4. d' \in Context /\ SameBuffers /\ d'.stage = "getBlockHeader" /\ d'.held = d.held
  BY <1>1, <1>2 DEF Context, SameBuffers, DecoderStages, InBlocks
<1>5. Buffers'
  BY <1>1, <1>2, <1>4, BuffersStay DEF HeaderStages, Built, InBlocks
<1>6. FrameDecoderTypeOK'
  BY <1>1, <1>2, <1>3, <1>4 DEF FrameDecoderTypeOK
<1>7. FieldsFit'
  BY <1>1, <1>4 DEF FieldsFit, Storing
<1>8. TargetsFit'
  BY <1>1, <1>2, <1>3, <1>4 DEF TargetsFit, HeaderStages, Built, InBlocks, OfBlock
<1>9. InField'
  BY <1>3, <1>4 DEF InField, Storing, HeaderStages
<1>10. InOutput' /\ GetsAhead'
  BY CallMoves
<1> QED
  BY <1>2, <1>5, <1>6, <1>7, <1>8, <1>9, <1>10 DEF FrameInv, RefusedAtEnd

LEMMA GetBlockChecksumStep ==
  ASSUME FrameInv, GetBlockChecksum, UNCHANGED resets
  PROVE  FrameInv'
PROOF
<1> DEFINE k == Lesser(BFSize - Len(d.held), c.given)
<1>1. /\ phase = "loop" /\ d.stage = "getBlockChecksum" /\ d.stage \in Storing
      /\ c \in CallState /\ c.given \in Nat /\ t.due \in Nat /\ c.at = t.due + Len(d.held)
  BY DEF GetBlockChecksum, Stop, Storing, FrameInv, FrameDecoderTypeOK, CallState, TextState, InField
<1>2. BFSize \in Nat /\ BFSize > 0 /\ BFSize = FieldSize
  BY <1>1, FormatFacts DEF FieldSize
<1>3. CASE c.given >= BFSize /\ d.held = << >>
  <2>1. CheckBlock(Bytes(c.at, BFSize)) /\ c' = Consumed(BFSize)
    BY <1>3 DEF GetBlockChecksum
  <2>2. c.at = t.due /\ BFSize <= c.given
    BY <1>1, <1>2, <1>3
  <2>3. IsDue(Bytes(c.at, BFSize))
    BY <1>1, <1>2, <2>2, DueFacts
  <2>4. c' \in CallState /\ SameOutput /\ c'.moved /\ c'.at = t.due + BFSize
    BY <1>1, <1>2, <2>1, <2>2, ConsumedFacts DEF SameOutput
  <2> QED
    BY <1>1, <2>1, <2>3, <2>4, BlockChecked
<1>4. CASE ~(c.given >= BFSize /\ d.held = << >>)
  <2>1. /\ c' = Consumed(k)
        /\ Len(Gathered(BFSize)) < BFSize =>
             /\ d' = [d EXCEPT !.held = Gathered(BFSize)] /\ phase' = "leave"
             /\ UNCHANGED << stream, t, mem >>
        /\ ~(Len(Gathered(BFSize)) < BFSize) => CheckBlock(Gathered(BFSize))
    BY <1>4 DEF GetBlockChecksum, Gather
  <2>2. CASE Len(Gathered(BFSize)) < BFSize
    BY <1>1, <1>2, <2>1, <2>2, InputEnds
  <2>3. CASE ~(Len(Gathered(BFSize)) < BFSize)
    <3>1. /\ IsDue(Gathered(BFSize))
          /\ c' \in CallState /\ SameOutput /\ c'.moved /\ c'.at = t.due + BFSize
      BY <1>1, <1>2, <2>1, <2>3, FieldWhole DEF SameOutput
    <3> QED
      BY <1>1, <2>1, <2>3, <3>1, BlockChecked
  <2> QED
    BY <2>2, <2>3
<1> QED
  BY <1>3, <1>4

-----------------------------------------------------------------------------
(* The end of a frame.                                                     *)
LEMMA FrameEnds ==
  ASSUME FrameInv, phase = "loop", FrameDone, c' \in CallState, SameOutput, c'.moved, c'.at = 0,
         UNCHANGED resets
  PROVE  FrameInv'
PROOF
<1>1. /\ d \in Context /\ stream \in Seq(IntactFrame) /\ stream # << >>
      /\ Len(d.held) <= maxBlockSize + BFSize
  BY DEF FrameInv, FrameDecoderTypeOK, FieldsFit, TargetsFit
<1>2. /\ d' = [d EXCEPT !.stage = "getFrameHeader", !.dict = NULL, !.dictSize = 0]
      /\ stream' = Tail(stream) /\ phase' = "leave"
      /\ t' = [due |-> 0, block |-> 0, decoded |-> 0, delivered |-> 0]
  BY DEF FrameDone, Reset, NewText
<1>3. /\ d' \in Context /\ d'.stage = "getFrameHeader" /\ d'.held = d.held /\ d'.dict = NULL
  <2> DEFINE none == 0
  <2>1. none \in Nat /\ NULL \in Int /\ "getFrameHeader" \in DecoderStages
    BY DEF NULL, DecoderStages, HeaderStages
  <2>2. d' = [d EXCEPT !.stage = "getFrameHeader", !.dict = NULL, !.dictSize = none]
    BY <1>2
  <2> HIDE DEF none
  <2> QED
    BY <1>1, <2>1, <2>2 DEF Context
<1>4. t' \in TextState /\ t'.due = 0 /\ t'.block = 0
  BY <1>2 DEF TextState
<1>5. stream' \in Seq(IntactFrame)
  BY <1>1, <1>2, FrameFacts
<1>6. NULL # TMP
  BY FormatFacts DEF NULL, TMP
<1>7. FrameDecoderTypeOK'
  BY <1>2, <1>3, <1>4, <1>5 DEF FrameDecoderTypeOK
<1>8. FieldsFit'
  BY <1>1, <1>3 DEF FieldsFit, Storing
<1>9. TargetsFit' /\ InField'
  BY <1>2, <1>3, <1>4 DEF TargetsFit, InField, HeaderStages, Built, InBlocks, OfBlock, Storing
<1>10. Buffers'
  BY <1>3, <1>6 DEF Buffers, HeaderStages, Built, InBlocks
<1>11. InOutput' /\ GetsAhead'
  BY CallMoves
<1> QED
  BY <1>2, <1>7, <1>8, <1>9, <1>10, <1>11 DEF FrameInv, RefusedAtEnd

LEMMA TextRefused ==
  ASSUME FrameInv, phase = "loop", d.stage \in { "getSuffix", "storeSuffix" }, Refuse,
         c' \in CallState, SameOutput, UNCHANGED resets
  PROVE  FrameInv'
PROOF
<1>1. phase' = "error" /\ UNCHANGED << stream, d, t >>
  BY DEF Refuse
<1>2. f' = f /\ b' = b /\ crcSize' = crcSize
  BY <1>1 DEF f, b, crcSize
<1>3. FrameDecoderTypeOK'
  BY <1>1 DEF FrameInv, FrameDecoderTypeOK
<1>4. FieldsFit'
  BY <1>1 DEF FrameInv, FieldsFit, FieldSize
<1>5. TargetsFit'
  BY <1>1, <1>2 DEF FrameInv, TargetsFit, HeaderStages, Built, InBlocks, OfBlock
<1>6. InField' /\ GetsAhead'
  BY <1>1 DEF InField, GetsAhead
<1>7. InOutput'
  BY DEF FrameInv, InOutput, SameOutput
<1>8. Buffers'
  BY <1>1, <1>2 DEF FrameInv, Buffers
<1> QED
  BY <1>1, <1>3, <1>4, <1>5, <1>6, <1>7, <1>8 DEF FrameInv, RefusedAtEnd

LEMMA Restarted ==
  ASSUME NEW fed \in CallState, NEW next, next = [fed EXCEPT !.at = 0]
  PROVE  /\ next \in CallState /\ next.at = 0 /\ next.moved = fed.moved
         /\ next.ptr = fed.ptr /\ next.start = fed.start /\ next.room = fed.room
         /\ next.asked = fed.asked
PROOF
  BY DEF CallState

LEMMA GetSuffixStep ==
  ASSUME FrameInv, GetSuffix, UNCHANGED resets
  PROVE  FrameInv'
PROOF
<1>1. /\ phase = "loop" /\ d.stage = "getSuffix" /\ d \in Context /\ c \in CallState
      /\ t \in TextState /\ stream \in Seq(IntactFrame) /\ stream # << >>
      /\ t.due \in Nat /\ c.at = t.due /\ c.given \in Nat
  BY DEF FrameInv, FrameDecoderTypeOK, TargetsFit, InField, GetSuffix, Stop, CallState, TextState
<1>2. CASE d.remaining # 0
  <2>1. Refuse /\ c' = c
    BY <1>2 DEF GetSuffix
  <2> QED
    BY <1>1, <2>1, TextRefused DEF SameOutput
<1>3. CASE d.remaining = 0 /\ ~f.checksum
  <2>1. FrameDone /\ c' = [c EXCEPT !.at = 0, !.moved = TRUE]
    BY <1>3 DEF GetSuffix
  <2>2. c' \in CallState /\ SameOutput /\ c'.moved /\ c'.at = 0
    BY <1>1, <2>1 DEF CallState, SameOutput
  <2> QED
    BY <1>1, <2>1, <2>2, FrameEnds
<1>4. CASE d.remaining = 0 /\ f.checksum /\ c.given < BFSize
  <2>1. /\ d' = [d EXCEPT !.held = << >>, !.stage = "storeSuffix"]
        /\ UNCHANGED << stream, c, t, mem, phase >>
    BY <1>4 DEF GetSuffix
  <2>2. /\ d' \in Context /\ SameBuffers /\ d'.stage = "storeSuffix" /\ d'.held = << >>
    BY <1>1, <2>1, NothingHeld DEF Context, SameBuffers, DecoderStages
  <2>3. Buffers'
    BY <1>1, <2>1, <2>2, BuffersStay DEF HeaderStages, Built, InBlocks
  <2>4. FrameDecoderTypeOK'
    BY <1>1, <2>1, <2>2 DEF FrameDecoderTypeOK
  <2>5. FieldsFit'
    BY <2>2, FormatFacts DEF FieldsFit, FieldSize
  <2>6. TargetsFit'
    BY <1>1, <2>1, <2>2 DEF TargetsFit, HeaderStages, Built, InBlocks, OfBlock
  <2>7. InField'
    <3>1. Bytes(t.due, 0) = << >> /\ c.at = t.due + 0
      BY <1>1 DEF Bytes
    <3> QED
      BY <1>1, <2>1, <2>2, <3>1, NothingHeld DEF InField, HeaderStages
  <2>8. InOutput' /\ GetsAhead'
    BY <1>1, <2>1, CallStays
  <2> QED
    BY <1>1, <2>1, <2>3, <2>4, <2>5, <2>6, <2>7, <2>8 DEF FrameInv, RefusedAtEnd
<1>5. CASE d.remaining = 0 /\ f.checksum /\ ~(c.given < BFSize)
  <2>1. CheckSuffix(Bytes(c.at, BFSize)) /\ c' = [Consumed(BFSize) EXCEPT !.at = 0]
    BY <1>5 DEF GetSuffix
  <2>2. BFSize \in Nat /\ BFSize > 0 /\ BFSize <= c.given
    BY <1>1, <1>5, FormatFacts
  <2>3. /\ Consumed(BFSize) \in CallState /\ Consumed(BFSize).moved
        /\ Consumed(BFSize).ptr = c.ptr /\ Consumed(BFSize).start = c.start
        /\ Consumed(BFSize).room = c.room /\ Consumed(BFSize).asked = c.asked
    BY <1>1, <2>2, ConsumedFacts
  <2>4. c' \in CallState /\ SameOutput /\ c'.moved /\ c'.at = 0
    BY <2>1, <2>3, Restarted DEF SameOutput
  <2> QED
    BY <1>1, <2>1, <2>4, FrameEnds, TextRefused DEF CheckSuffix
<1> QED
  BY <1>2, <1>3, <1>4, <1>5

LEMMA StoreSuffixStep ==
  ASSUME FrameInv, StoreSuffix, UNCHANGED resets
  PROVE  FrameInv'
PROOF
<1> DEFINE k == Lesser(BFSize - Len(d.held), c.given)
<1>1. phase = "loop" /\ d.stage = "storeSuffix" /\ d.stage \in Storing
  BY DEF StoreSuffix, Stop, Storing
<1>2. BFSize \in Nat /\ BFSize = FieldSize
  BY <1>1, FormatFacts DEF FieldSize
<1>3. CASE Len(Gathered(BFSize)) < BFSize
  <2>1. /\ c' = Consumed(k) /\ d' = [d EXCEPT !.held = Gathered(BFSize)] /\ phase' = "leave"
        /\ UNCHANGED << stream, t, mem >>
    BY <1>3 DEF StoreSuffix, Gather
  <2> QED
    BY <1>1, <1>2, <1>3, <2>1, InputEnds
<1>4. CASE ~(Len(Gathered(BFSize)) < BFSize)
  <2>1. CheckSuffix(Gathered(BFSize)) /\ c' = [Consumed(BFSize - Len(d.held)) EXCEPT !.at = 0]
    BY <1>4 DEF StoreSuffix
  <2>2. /\ Consumed(k) \in CallState /\ Consumed(k).moved /\ k = BFSize - Len(d.held)
        /\ Consumed(k).ptr = c.ptr /\ Consumed(k).start = c.start
        /\ Consumed(k).room = c.room /\ Consumed(k).asked = c.asked
    BY <1>1, <1>2, <1>4, FieldWhole
  <2>3. c' = [Consumed(k) EXCEPT !.at = 0]
    BY <2>1, <2>2
  <2>4. c' \in CallState /\ SameOutput /\ c'.moved /\ c'.at = 0
    BY <2>2, <2>3, Restarted DEF SameOutput
  <2> QED
    BY <1>1, <2>1, <2>4, FrameEnds, TextRefused DEF CheckSuffix
<1> QED
  BY <1>3, <1>4

-----------------------------------------------------------------------------
(* Frames to skip.                                                         *)
LEMMA SkippedSizeRead ==
  ASSUME FrameInv, phase = "loop", d.stage \in { "getSFrameSize", "storeSFrameSize" },
         NEW bytes, bytes = Bytes(BHSize, BHSize), SFrameSize(bytes),
         c' \in CallState, SameOutput, c'.moved, UNCHANGED resets
  PROVE  FrameInv'
PROOF
<1>1. /\ d \in Context /\ t \in TextState /\ stream \in Seq(IntactFrame) /\ stream # << >>
      /\ t.due = 0 /\ t.block = 0 /\ Len(d.held) <= maxBlockSize + BFSize
  BY DEF FrameInv, FrameDecoderTypeOK, FieldsFit, TargetsFit, InField, HeaderStages
<1>2. Len(bytes) = BHSize
  BY FormatFacts, BytesFacts
<1>3. /\ d' = [d EXCEPT !.target = f.size, !.stage = "skipSkippable"]
      /\ UNCHANGED << stream, t, phase >>
  BY <1>2 DEF SFrameSize
<1>4. f.size \in Nat
  BY <1>1, FrameFacts
<1>5. d' \in Context /\ SameBuffers /\ d'.stage = "skipSkippable" /\ d'.held = d.held
  BY <1>1, <1>3, <1>4 DEF Context, SameBuffers, DecoderStages, HeaderStages
<1>6. Buffers'
  BY <1>1, <1>3, <1>5, BuffersStay DEF HeaderStages, Built, InBlocks
<1>7. FrameDecoderTypeOK'
  BY <1>1, <1>3, <1>5 DEF FrameDecoderTypeOK
<1>8. FieldsFit'
  BY <1>1, <1>5 DEF FieldsFit, Storing
<1>9. TargetsFit'
  BY <1>1, <1>3, <1>5 DEF TargetsFit, HeaderStages, Built, InBlocks, OfBlock
<1>10. InField'
  BY <1>1, <1>3, <1>5 DEF InField, Storing
<1>11. InOutput' /\ GetsAhead'
  BY CallMoves
<1> QED
  BY <1>3, <1>6, <1>7, <1>8, <1>9, <1>10, <1>11 DEF FrameInv, RefusedAtEnd

LEMMA GetSFrameSizeStep ==
  ASSUME FrameInv, GetSFrameSize, UNCHANGED resets
  PROVE  FrameInv'
PROOF
<1>1. /\ phase = "loop" /\ d.stage = "getSFrameSize" /\ d \in Context /\ c \in CallState
      /\ t \in TextState /\ stream \in Seq(IntactFrame) /\ stream # << >>
      /\ t.due = 0 /\ t.block = 0 /\ c.at = BHSize /\ c.given \in Nat
  BY DEF FrameInv, FrameDecoderTypeOK, TargetsFit, InField, GetSFrameSize, Stop, CallState,
         HeaderStages
<1>2. CASE c.given >= BHSize
  <2>1. SFrameSize(Bytes(BHSize, BHSize)) /\ c' = Consumed(BHSize)
    BY <1>1, <1>2 DEF GetSFrameSize
  <2>2. BHSize \in Nat /\ BHSize > 0 /\ BHSize <= c.given
    BY <1>1, <1>2, FormatFacts
  <2>3. c' \in CallState /\ SameOutput /\ c'.moved
    BY <1>1, <2>1, <2>2, ConsumedFacts DEF SameOutput
  <2> QED
    BY <1>1, <2>1, <2>3, SkippedSizeRead
<1>3. CASE ~(c.given >= BHSize)
  <2> DEFINE mark == Bytes(0, BHSize)
  <2>1. /\ d' = [d EXCEPT !.held = mark, !.target = 2 * BHSize, !.stage = "storeSFrameSize"]
        /\ UNCHANGED << stream, c, t, mem, phase >>
    BY <1>3 DEF GetSFrameSize
  <2>2. mark \in Seq(Int) /\ Len(mark) = BHSize /\ mark = Bytes(0, Len(mark))
    BY FormatFacts, BytesFacts
  <2> HIDE DEF mark
  <2>3. /\ d' \in Context /\ SameBuffers /\ d'.stage = "storeSFrameSize" /\ d'.held = mark
        /\ d'.target = 2 * BHSize
    <3> 2 * BHSize \in Nat
      BY FormatFacts
    <3> QED
      BY <1>1, <2>1, <2>2 DEF Context, SameBuffers, DecoderStages, HeaderStages
  <2>4. Buffers'
    BY <1>1, <2>1, <2>3, BuffersStay DEF HeaderStages, Built, InBlocks
  <2>5. FrameDecoderTypeOK'
    BY <1>1, <2>1, <2>3 DEF FrameDecoderTypeOK
  <2>6. /\ Len(mark) < 2 * BHSize /\ 2 * BHSize <= maxBlockSize + BFSize
        /\ Len(mark) <= maxBlockSize + BFSize
    BY <2>2, FormatFacts
  <2>7. FieldsFit'
    BY <2>3, <2>6 DEF FieldsFit, FieldSize
  <2>8. TargetsFit'
    BY <1>1, <2>1, <2>3 DEF TargetsFit, HeaderStages, Built, InBlocks, OfBlock
  <2>9. InField'
    <3>1. c.at = t.due + Len(mark)
      BY <1>1, <2>2, FormatFacts
    <3> QED
      BY <1>1, <2>1, <2>2, <2>3, <3>1 DEF InField
  <2>10. InOutput' /\ GetsAhead'
    BY <1>1, <2>1, CallStays
  <2> QED
    BY <1>1, <2>1, <2>4, <2>5, <2>7, <2>8, <2>9, <2>10 DEF FrameInv, RefusedAtEnd
<1> QED
  BY <1>2, <1>3

LEMMA StoreSFrameSizeStep ==
  ASSUME FrameInv, StoreSFrameSize, UNCHANGED resets
  PROVE  FrameInv'
PROOF
<1> DEFINE n == 2 * BHSize
           k == Lesser(n - Len(d.held), c.given)
           size == SubSeq(Gathered(n), BHSize + 1, Len(Gathered(n)))
<1>1. /\ phase = "loop" /\ d.stage = "storeSFrameSize" /\ d.stage \in Storing
      /\ d.target = n /\ t.due = 0
  BY DEF StoreSFrameSize, Stop, Storing, FrameInv, TargetsFit, InField, HeaderStages
<1>2. n \in Nat /\ n = FieldSize /\ n = BHSize + BHSize /\ BHSize \in Nat
  BY <1>1, FormatFacts DEF FieldSize
<1>3. /\ c' = Consumed(k)
      /\ Len(Gathered(n)) < n =>
           /\ d' = [d EXCEPT !.held = Gathered(n)] /\ phase' = "leave"
           /\ UNCHANGED << stream, t, mem >>
      /\ ~(Len(Gathered(n)) < n) => SFrameSize(size)
  BY <1>1 DEF StoreSFrameSize, Gather
<1> HIDE DEF n
<1>4. CASE Len(Gathered(n)) < n
  BY <1>1, <1>2, <1>3, <1>4, InputEnds
<1>5. CASE ~(Len(Gathered(n)) < n)
  <2>1. /\ Len(Gathered(n)) = n /\ Gathered(n) = Bytes(t.due, n)
        /\ c' \in CallState /\ SameOutput /\ c'.moved
    BY <1>1, <1>2, <1>3, <1>5, FieldWhole DEF SameOutput
  <2>2. size = SubSeq(Bytes(t.due, BHSize + BHSize), BHSize + 1, BHSize + BHSize)
    BY <1>2, <2>1
  <2>3. size = Bytes(BHSize, BHSize)
    <3>1. t.due \in Int /\ t.due + BHSize = BHSize
      BY <1>1, <1>2
    <3>2. SubSeq(Bytes(t.due, BHSize + BHSize), BHSize + 1, BHSize + BHSize)
            = Bytes(t.due + BHSize, BHSize)
      BY <1>2, <3>1, BytesBehind
    <3> HIDE DEF size
    <3> QED
      BY <2>2, <3>1, <3>2
  <2> HIDE DEF size
  <2> QED
    BY <1>1, <1>3, <1>5, <2>1, <2>3, SkippedSizeRead
<1> QED
  BY <1>4, <1>5

LEMMA SkipSkippableStep ==
  ASSUME FrameInv, SkipSkippable, UNCHANGED resets
  PROVE  FrameInv'
PROOF
<1> DEFINE n == Lesser(d.target, c.given)
<1>1. /\ phase = "loop" /\ d.stage = "skipSkippable" /\ d \in Context /\ c \in CallState
      /\ t \in TextState /\ stream \in Seq(IntactFrame) /\ stream # << >>
      /\ t.due = 0 /\ t.block = 0 /\ c.given \in Nat /\ d.target \in Nat
      /\ d.target = 0 => c.moved
      /\ c.asked => c.moved \/ c.given > 0
      /\ Len(d.held) <= maxBlockSize + BFSize
  BY DEF FrameInv, FrameDecoderTypeOK, FieldsFit, TargetsFit, InField, GetsAhead, SkipSkippable,
         Stop, CallState, Context, HeaderStages
<1>2. n \in Nat /\ n <= c.given /\ n <= d.target /\ (n = d.target \/ (n = c.given /\ n < d.target))
  <2>1. PICK x \in Nat, y \in Nat : x = d.target /\ y = c.given
    BY <1>1
  <2>2. Lesser(x, y) \in Nat /\ Lesser(x, y) <= x /\ Lesser(x, y) <= y
    BY LesserFacts
  <2>3. Lesser(x, y) = x \/ (Lesser(x, y) = y /\ y < x)
    BY LesserFacts
  <2> QED
    BY <2>1, <2>2, <2>3
<1>3. /\ n = d.target => FrameDone /\ c' = [Consumed(n) EXCEPT !.at = 0]
      /\ n # d.target =>
           /\ c' = Consumed(n) /\ d' = [d EXCEPT !.target = d.target - n] /\ phase' = "leave"
           /\ UNCHANGED << stream, t, mem >>
  BY <1>1 DEF SkipSkippable, Context
<1> HIDE DEF n
<1>4. /\ Consumed(n) \in CallState /\ Consumed(n).ptr = c.ptr /\ Consumed(n).start = c.start
      /\ Consumed(n).room = c.room /\ Consumed(n).asked = c.asked
      /\ c.moved \/ n > 0 => Consumed(n).moved
  BY <1>1, <1>2, ConsumedFacts
<1>5. CASE n = d.target
  <2>1. d.target = 0 \/ n > 0
    BY <1>1, <1>5
  <2>2. Consumed(n).moved
    BY Zenon, <1>1, <1>4, <2>1
  <2>3. c' \in CallState /\ SameOutput /\ c'.moved /\ c'.at = 0
    BY <1>3, <1>4, <1>5, <2>2, Restarted DEF SameOutput
  <2> QED
    BY <1>1, <1>3, <1>5, <2>3, FrameEnds
<1>6. CASE n # d.target
  <2>1. d.target - n \in Nat /\ d.target - n # 0 /\ n = c.given
    BY <1>1, <1>2, <1>6
  <2>2. /\ d' \in Context /\ SameBuffers /\ d'.stage = "skipSkippable" /\ d'.held = d.held
        /\ d'.target # 0
    BY <1>1, <1>3, <1>6, <2>1 DEF Context, SameBuffers
  <2>3. c' \in CallState /\ SameOutput /\ t' = t /\ stream' = stream /\ phase' = "leave"
    BY <1>3, <1>4, <1>6 DEF SameOutput
  <2>4. Buffers'
    BY <1>1, <2>2, <2>3, BuffersStay DEF HeaderStages, Built, InBlocks
  <2>5. FrameDecoderTypeOK'
    BY <1>1, <2>2, <2>3 DEF FrameDecoderTypeOK
  <2>6. FieldsFit'
    BY <1>1, <2>2 DEF FieldsFit, Storing
  <2>7. TargetsFit'
    BY <1>1, <2>2, <2>3 DEF TargetsFit, HeaderStages, Built, InBlocks, OfBlock
  <2>8. InField'
    BY <1>1, <2>2, <2>3 DEF InField, Storing
  <2>9. InOutput'
    BY <2>3 DEF FrameInv, InOutput, SameOutput
  <2>10. GetsAhead'
    <3>1. c.asked => c.moved \/ n > 0
      BY <1>1, <2>1
    <3>2. Consumed(n).asked => Consumed(n).moved
      BY Zenon, <1>4, <3>1
    <3> QED
      BY <1>3, <1>6, <2>3, <3>2 DEF GetsAhead
  <2> QED
    BY <2>3, <2>4, <2>5, <2>6, <2>7, <2>8, <2>9, <2>10 DEF FrameInv, RefusedAtEnd
<1> QED
  BY <1>5, <1>6

-----------------------------------------------------------------------------
(* Where the history is after n more bytes of text went to the caller.     *)
LEMMA HistoryFacts ==
  ASSUME FrameInv, d.stage \in Built, f.linked, c.ptr # NULL,
         NEW n \in Nat, n <= c.room, NEW m, NEW withinTmp \in BOOLEAN,
         withinTmp => d.stage = "flushOut" /\ d.tmpOutStart + n <= d.tmpOutSize,
         NEW history, history = LZ4F_updateDict(m, n, withinTmp)
  PROVE  /\ history.dict \in Int /\ history.size \in Nat
         /\ history.dict = TMP => history.size <= d.maxBufferSize
         /\ withinTmp /\ history.dict = TMP => TMP + history.size = d.tmpOut + d.tmpOutStart + n
PROOF
<1> DEFINE dict == IF d.dictSize = 0 THEN c.ptr ELSE d.dict
           size == d.dictSize
           inDst == c.ptr - c.start + n
           full   == size + n > d.maxBufferSize
           kept   == IF full THEN KB64 - n ELSE size
           joined == Lesser(KB64 - n, size)
<1>1. /\ c.ptr \in Int /\ c.start \in Int /\ c.room \in Nat /\ size \in Nat /\ d.dict \in Int
      /\ d.maxBufferSize \in Nat /\ d.tmpOut \in Int /\ d.tmpOutStart \in Nat /\ d.tmpOutSize \in Nat
  <2>1. d \in Context /\ c \in CallState
    BY DEF FrameInv, FrameDecoderTypeOK
  <2>2. c.ptr \in Int /\ c.start \in Int /\ c.room \in Nat
    BY <2>1 DEF CallState
  <2>3. /\ d.dictSize \in Nat /\ d.dict \in Int /\ d.maxBufferSize \in Nat /\ d.tmpOut \in Int
        /\ d.tmpOutStart \in Nat /\ d.tmpOutSize \in Nat
    BY <2>1 DEF Context
  <2> QED
    BY <2>2, <2>3
<1>2. c.start <= c.ptr /\ c.ptr < TMP /\ TMP \in Nat
  BY <1>1, FormatFacts DEF FrameInv, InOutput, TMP
<1>3. /\ 2 * KB64 <= d.maxBufferSize /\ KB64 <= d.maxBufferSize /\ KB64 \in Nat
      /\ TMP <= d.tmpOut /\ d.tmpOut + d.tmpOutSize <= TMP + d.maxBufferSize
  <2>1. /\ maxBlockSize + 2 * KB64 <= d.maxBufferSize
        /\ TMP <= d.tmpOut /\ d.tmpOut + d.tmpOutSize <= TMP + d.maxBufferSize
    BY DEF FrameInv, Buffers
  <2> QED
    BY <1>1, <2>1, FormatFacts
<1>4. d.dict = TMP => size <= d.maxBufferSize
  BY DEF FrameInv, Buffers
<1>5. dict \in Int /\ (dict = TMP => d.dict = TMP)
  BY <1>1, <1>2
<1>6. CASE dict + size = c.ptr
  <2>1. history = [mem |-> m, dict |-> dict, size |-> size + n]
    BY <1>6 DEF LZ4F_updateDict
  <2> HIDE DEF dict, size
  <2>2. dict # TMP
    BY <1>1, <1>2, <1>5, <1>6
  <2> QED
    BY <1>1, <1>5, <2>1, <2>2
<1>7. CASE dict + size # c.ptr /\ inDst >= KB64
  <2>1. history = [mem |-> m, dict |-> c.start, size |-> inDst]
    BY <1>7 DEF LZ4F_updateDict
  <2>2. c.start # TMP /\ inDst \in Nat
    BY <1>1, <1>2
  <2> HIDE DEF dict, size, inDst
  <2> QED
    BY <1>1, <2>1, <2>2
<1>8. CASE dict + size # c.ptr /\ ~(inDst >= KB64) /\ withinTmp /\ dict = TMP
  <2>1. history = [mem |-> m, dict |-> dict, size |-> size + n]
    BY <1>8 DEF LZ4F_updateDict
  <2>2. TMP + size = d.tmpOut + d.tmpOutStart
    BY <1>5, <1>8 DEF FrameInv, Buffers
  <2> HIDE DEF dict, size, inDst
  <2>3. size + n \in Nat /\ size + n <= d.maxBufferSize /\ TMP + (size + n) = d.tmpOut + d.tmpOutStart + n
    BY <1>1, <1>2, <1>3, <1>8, <2>2
  <2> QED
    BY <1>5, <2>1, <2>3
<1>9. CASE dict + size # c.ptr /\ ~(inDst >= KB64) /\ withinTmp /\ dict # TMP
  <2>1. history = [mem |-> InFrontOfTmpOut(m, dict, size), dict |-> TMP,
                   size |-> d.tmpOut - TMP + d.tmpOutStart + n]
    BY <1>9 DEF LZ4F_updateDict
  <2> DEFINE after == d.tmpOut - TMP + d.tmpOutStart + n
  <2>2. after \in Nat /\ after <= d.maxBufferSize /\ TMP + after = d.tmpOut + d.tmpOutStart + n
    BY <1>1, <1>2, <1>3, <1>9
  <2> HIDE DEF dict, size, inDst, after
  <2> QED
    BY <1>2, <2>1, <2>2 DEF after
<1>10. CASE dict + size # c.ptr /\ ~(inDst >= KB64) /\ ~withinTmp /\ dict = TMP
  <2>1. history = [mem |-> Copy(IF full THEN Copy(m, TMP, TMP + size - kept, kept) ELSE m,
                                TMP + kept, c.ptr, n),
                   dict |-> dict, size |-> kept + n]
    BY <1>10 DEF LZ4F_updateDict
  <2>2. kept + n \in Nat /\ kept + n <= d.maxBufferSize
    BY <1>1, <1>3
  <2> HIDE DEF dict, size, inDst, full, kept
  <2> QED
    BY <1>5, <1>10, <2>1, <2>2
<1>11. CASE dict + size # c.ptr /\ ~(inDst >= KB64) /\ ~withinTmp /\ dict # TMP
  <2>1. history = [mem |-> Copy(Copy(m, TMP, dict + size - joined, joined), TMP + joined, c.ptr, n),
                   dict |-> TMP, size |-> joined + n]
    BY <1>11 DEF LZ4F_updateDict
  <2>2. joined \in Int /\ joined <= KB64 - n /\ (joined = KB64 - n \/ joined = size)
    <3>1. PICK x \in Int, y \in Int : x = KB64 - n /\ y = size
      BY <1>1, <1>3
    <3>2. Lesser(x, y) \in Int /\ Lesser(x, y) <= x /\ (Lesser(x, y) = x \/ Lesser(x, y) = y)
      BY LesserFacts
    <3> HIDE DEF size
    <3> QED
      BY <3>1, <3>2
  <2> HIDE DEF joined
  <2>3. joined + n \in Nat /\ joined + n <= d.maxBufferSize
    BY <1>1, <1>3, <2>2
  <2> HIDE DEF dict, size, inDst
  <2> QED
    BY <1>2, <1>11, <2>1, <2>3
<1> HIDE DEF dict, size, inDst
<1> QED
  BY <1>6, <1>7, <1>8, <1>9, <1>10, <1>11

(* Where a block goes that the caller has no room for.                     *)
LEMMA TmpOutFacts ==
  ASSUME FrameInv, d.stage \in Built
  PROVE  /\ TmpOut.at \in Int /\ TmpOut.dictSize \in Nat
         /\ TMP <= TmpOut.at /\ TmpOut.at + maxBlockSize <= TMP + d.maxBufferSize
         /\ d.dict = TMP => TmpOut.dictSize <= d.maxBufferSize
         /\ ~f.linked => TmpOut.at = TMP
         /\ f.linked /\ d.dict = TMP => TMP + TmpOut.dictSize = TmpOut.at
PROOF
<1>1. /\ d.dictSize \in Nat /\ d.dict \in Int /\ d.maxBufferSize \in Nat /\ d.tmpOut \in Int
      /\ TMP \in Nat /\ KB64 \in Nat /\ maxBlockSize \in Nat /\ f.linked \in BOOLEAN
  <2> d.stage # "getFrameHeader"
    BY DEF Built, InBlocks
  <2> QED
    BY FormatFacts, FrameFacts DEF FrameInv, FrameDecoderTypeOK, TargetsFit, Context, TMP
<1>2. /\ maxBlockSize + (IF f.linked THEN 2 * KB64 ELSE 0) <= d.maxBufferSize
      /\ ~f.linked => d.tmpOut = TMP
      /\ d.dict = TMP => d.dictSize <= d.maxBufferSize
  BY DEF FrameInv, Buffers
<1>3. CASE ~f.linked
  <2>1. TmpOut.at = TMP /\ TmpOut.dictSize = d.dictSize
    BY <1>2, <1>3 DEF TmpOut
  <2>2. maxBlockSize <= d.maxBufferSize
    BY <1>1, <1>2, <1>3
  <2> QED
    BY <1>1, <1>2, <1>3, <2>1, <2>2
<1>4. CASE f.linked
  <2>1. maxBlockSize + 2 * KB64 <= d.maxBufferSize
    BY <1>2, <1>4
  <2>2. CASE d.dict # TMP
    <3>1. PICK k \in Nat : k = Lesser(d.dictSize, KB64) /\ k <= KB64
      <4> d.dictSize \in Nat /\ KB64 \in Nat
        BY <1>1
      <4> QED
        BY LesserFacts
    <3>2. TmpOut.at = TMP + k /\ TmpOut.dictSize = d.dictSize
      BY <1>4, <2>2, <3>1 DEF TmpOut
    <3>3. TMP + k \in Int /\ TMP <= TMP + k /\ TMP + k + maxBlockSize <= TMP + d.maxBufferSize
      BY <1>1, <2>1, <3>1
    <3> QED
      BY <1>1, <1>4, <2>2, <3>2, <3>3
  <2>3. CASE d.dict = TMP /\ d.dictSize > 2 * KB64
    <3>1. TmpOut.at = TMP + KB64 /\ TmpOut.dictSize = KB64
      BY <1>4, <2>3 DEF TmpOut
    <3>2. /\ TMP + KB64 \in Int /\ TMP <= TMP + KB64
          /\ TMP + KB64 + maxBlockSize <= TMP + d.maxBufferSize /\ KB64 <= d.maxBufferSize
      BY <1>1, <2>1
    <3> QED
      BY <1>1, <1>4, <2>3, <3>1, <3>2
  <2>4. CASE d.dict = TMP /\ ~(d.dictSize > 2 * KB64)
    <3>1. TmpOut.at = TMP + d.dictSize /\ TmpOut.dictSize = d.dictSize
      BY <1>4, <2>4 DEF TmpOut
    <3>2. /\ TMP + d.dictSize \in Int /\ TMP <= TMP + d.dictSize
          /\ TMP + d.dictSize + maxBlockSize <= TMP + d.maxBufferSize
      BY <1>1, <2>1, <2>4
    <3> QED
      BY <1>1, <1>2, <1>4, <2>4, <3>1, <3>2
  <2> QED
    BY <2>2, <2>3, <2>4
<1> QED
  BY <1>3, <1>4

(* The context after n bytes went to the caller.                           *)
HistoryGrows(after, n, withinTmp) ==
  \E dict \in Int, size \in Nat :
    /\ d' = [after EXCEPT !.dict = dict, !.dictSize = size]
    /\ dict = TMP => size <= d.maxBufferSize
    /\ withinTmp /\ f.linked /\ dict = TMP => TMP + size = d.tmpOut + d.tmpOutStart + n

LEMMA Delivered ==
  ASSUME FrameInv, d.stage \in Built, c.ptr # NULL, stream # << >>,
         NEW s, NEW n \in Nat, Len(s) = n, n <= c.room, NEW m, NEW withinTmp \in BOOLEAN,
         withinTmp => d.stage = "flushOut" /\ d.tmpOutStart + n <= d.tmpOutSize,
         NEW after, Deliver(m, s, withinTmp, after)
  PROVE  HistoryGrows(after, n, withinTmp)
PROOF
<1>1. CASE f.linked
  <2> DEFINE history == LZ4F_updateDict(Put(m, c.ptr, s), n, withinTmp)
  <2>1. d' = [after EXCEPT !.dict = history.dict, !.dictSize = history.size]
    BY <1>1 DEF Deliver
  <2>2. /\ history.dict \in Int /\ history.size \in Nat
        /\ history.dict = TMP => history.size <= d.maxBufferSize
        /\ withinTmp /\ history.dict = TMP => TMP + history.size = d.tmpOut + d.tmpOutStart + n
    BY <1>1, HistoryFacts
  <2> HIDE DEF history
  <2> QED
    BY <2>1, <2>2 DEF HistoryGrows
<1>2. CASE ~f.linked
  <2>1. d' = [after EXCEPT !.dict = d.dict, !.dictSize = d.dictSize]
    BY <1>2 DEF Deliver
  <2>2. d.dict \in Int /\ d.dictSize \in Nat
    BY DEF FrameInv, FrameDecoderTypeOK, Context
  <2>3. d.dict = TMP => d.dictSize <= d.maxBufferSize
    BY DEF FrameInv, Buffers
  <2> QED
    BY <1>2, <2>1, <2>2, <2>3 DEF HistoryGrows
<1> QED
  BY <1>1, <1>2

(* The checksum of the text and what is left of its announced size.        *)
LEMMA UpdateFacts ==
  ASSUME FrameInv, NEW s, Len(s) \in Nat
  PROVE  Update(d.xxh, s) \in Int
PROOF
<1>1. d.xxh \in Int
  BY DEF FrameInv, FrameDecoderTypeOK, Context
<1> QED
  BY <1>1 DEF Update, Garbage

LEMMA CountedFacts ==
  ASSUME FrameInv, NEW n \in Nat
  PROVE  Counted(n) \in Int
PROOF
<1>1. d.remaining \in Int
  BY DEF FrameInv, FrameDecoderTypeOK, Context
<1> QED
  BY <1>1 DEF Counted

(* Bytes of a stored block, without a buffer none of them.                 *)
LEMMA CopyDirectStep ==
  ASSUME FrameInv, CopyDirect, UNCHANGED resets
  PROVE  FrameInv'
PROOF
<1> DEFINE n == IF c.ptr = NULL THEN 0 ELSE Lesser(d.target, Lesser(c.given, c.room))
           s == IF c.at = t.due + b.csize - d.target THEN Bytes(t.decoded, n)
                ELSE [k \in 1 .. n |-> Garbage]
           sum   == d.blockSum + n
           xxh   == Update(d.xxh, s)
           left  == d.target - n
           rest  == Counted(n)
           held  == IF n = d.target THEN << >> ELSE d.held
           stage == IF n < d.target THEN "copyDirect"
                    ELSE IF f.blockChecksum THEN "getBlockChecksum" ELSE "getBlockHeader"
           after == [d EXCEPT !.blockSum = sum, !.xxh = xxh, !.target = left, !.remaining = rest,
                              !.held = held, !.stage = stage]
           due   == IF n = d.target THEN t.due + b.csize ELSE t.due
<1>1. /\ phase = "loop" /\ d.stage = "copyDirect" /\ d \in Context /\ c \in CallState
      /\ t \in TextState /\ stream \in Seq(IntactFrame) /\ stream # << >>
      /\ t.due \in Nat /\ t.block \in Nat /\ t.block <= Len(f.blocks) /\ t.block > 0
      /\ t.decoded \in Nat /\ t.delivered \in Nat
      /\ Len(d.held) <= maxBlockSize + BFSize /\ d.held \in Seq(Int)
  BY DEF FrameInv, FrameDecoderTypeOK, FieldsFit, TargetsFit, CopyDirect, Stop, TextState, Context,
         Built, OfBlock, InBlocks
<1>2. /\ d.target \in Nat /\ 0 < d.target /\ d.target <= b.csize /\ d.blockSum = b.csize - d.target
      /\ c.at = t.due + b.csize - d.target /\ d.blockSum \in Nat
      /\ d.maxBufferSize \in Nat /\ c.given \in Nat /\ c.room \in Nat /\ c.ptr \in Int /\ c.at \in Nat
      /\ c.start \in Int
  <2>1. c.given \in Nat /\ c.room \in Nat /\ c.ptr \in Int /\ c.start \in Int /\ c.at \in Nat
    BY <1>1 DEF CallState
  <2>2. d.target \in Nat /\ d.blockSum \in Nat /\ d.maxBufferSize \in Nat
    BY <1>1 DEF Context
  <2> QED
    BY <1>1, <2>1, <2>2 DEF FrameInv, TargetsFit, InField
<1>3. b.csize \in Nat /\ b = f.blocks[t.block]
  BY <1>1, BlockFacts DEF b
<1>4. /\ n \in Nat /\ n <= d.target /\ n <= c.given /\ n <= c.room
      /\ c.ptr # NULL /\ c.given > 0 /\ c.room > 0 => n > 0
      /\ c.ptr = NULL => n = 0
  <2>1. PICK x \in Nat, y \in Nat, z \in Nat : x = d.target /\ y = c.given /\ z = c.room
    BY <1>2
  <2>2. PICK u \in Nat : u = Lesser(y, z) /\ u <= y /\ u <= z /\ (u = y \/ u = z)
    <3>1. /\ Lesser(y, z) \in Nat /\ Lesser(y, z) <= y /\ Lesser(y, z) <= z
          /\ Lesser(y, z) = y \/ Lesser(y, z) = z
      BY LesserFacts
    <3> QED
      BY <3>1
  <2>3. PICK v \in Nat : v = Lesser(x, u) /\ v <= x /\ v <= u /\ (v = x \/ v = u)
    <3>1. /\ Lesser(x, u) \in Nat /\ Lesser(x, u) <= x /\ Lesser(x, u) <= u
          /\ Lesser(x, u) = x \/ Lesser(x, u) = u
      BY LesserFacts
    <3> QED
      BY <3>1
  <2>4. n = IF c.ptr = NULL THEN 0 ELSE v
    BY <2>1, <2>2, <2>3
  <2> HIDE DEF n
  <2> QED
    BY <1>2, <2>1, <2>2, <2>3, <2>4
<1> HIDE DEF n
<1>5. Len(s) = n
  <2>1. s = Bytes(t.decoded, n)
    BY <1>2
  <2>2. t.decoded \in Int /\ n \in Nat
    BY <1>1, <1>4
  <2>3. Len(Bytes(t.decoded, n)) = n
    BY <2>2, BytesFacts
  <2> HIDE DEF s
  <2> QED
    BY <2>1, <2>3
<1>6. /\ c.ptr = NULL => d' = d
      /\ c.ptr # NULL => Deliver(mem, s, FALSE, after)
      /\ c' = [Consumed(n) EXCEPT !.ptr = IF c.ptr = NULL THEN c.ptr ELSE c.ptr + n,
                                  !.room = c.room - n]
      /\ t' = [t EXCEPT !.decoded = t.decoded + n, !.delivered = t.delivered + n, !.due = due]
      /\ phase' = IF n = d.target THEN phase ELSE "leave"
      /\ stream' = stream
  <2>1. Consumed(n).ptr = c.ptr /\ Consumed(n).room = c.room
    BY <1>1, <1>4, ConsumedFacts
  <2>2. d.stage = "copyDirect" /\ d.target - n = left /\ d.blockSum + n = sum
    BY <1>1
  <2>3. /\ c.ptr = NULL => d' = d
        /\ c.ptr # NULL => Deliver(mem, s, FALSE, after)
    BY <1>1 DEF CopyDirect, n, Context
  <2>4. c' = [Consumed(n) EXCEPT !.ptr = IF c.ptr = NULL THEN c.ptr ELSE c.ptr + n,
                                 !.room = c.room - n]
    <3>1. Consumed(n) \in CallState
      BY <1>1, <1>4, ConsumedFacts
    <3>2. c' = [Consumed(n) EXCEPT !.ptr = IF @ = NULL THEN @ ELSE @ + n, !.room = @ - n]
      BY DEF CopyDirect, n
    <3> QED
      BY <2>1, <3>1, <3>2 DEF CallState
  <2>5. t' = [t EXCEPT !.decoded = t.decoded + n, !.delivered = t.delivered + n, !.due = due]
    BY <1>1 DEF CopyDirect, n, TextState
  <2>6. phase' = (IF n = d.target THEN phase ELSE "leave") /\ stream' = stream
    BY DEF CopyDirect, n
  <2> QED
    BY <2>3, <2>4, <2>5, <2>6
<1>7. /\ sum \in Nat /\ xxh \in Int /\ left \in Nat /\ rest \in Int /\ held \in Seq(Int)
      /\ Len(held) <= maxBlockSize + BFSize /\ stage \in DecoderStages
  <2>1. sum \in Nat /\ left \in Nat
    BY <1>2, <1>4
  <2>2. xxh \in Int /\ rest \in Int
    BY <1>4, <1>5, UpdateFacts, CountedFacts
  <2>3. held \in Seq(Int) /\ Len(held) <= maxBlockSize + BFSize
    <3>1. << >> \in Seq(Int) /\ Len(<< >>) <= maxBlockSize + BFSize
      BY FormatFacts, NothingHeld
    <3> QED
      BY <1>1, <3>1
  <2>4. stage \in DecoderStages
    BY DEF DecoderStages, InBlocks
  <2> QED
    BY <2>1, <2>2, <2>3, <2>4
<1>8. due \in Nat
  BY <1>1, <1>3
<1>9. /\ t' \in TextState /\ t'.due = due /\ t'.block = t.block
  <2>1. t.decoded + n \in Nat /\ t.delivered + n \in Nat
    BY <1>1, <1>4
  <2> HIDE DEF due
  <2> QED
    BY <1>1, <1>6, <1>8, <2>1 DEF TextState
<1>10. f' = f /\ b' = b /\ crcSize' = crcSize
  BY <1>6, <1>9 DEF f, b, crcSize
<1>11. /\ c' \in CallState /\ c'.at = c.at + n /\ c'.start = c.start /\ c'.room = c.room - n
       /\ c'.asked = c.asked /\ c'.ptr = (IF c.ptr = NULL THEN c.ptr ELSE c.ptr + n)
       /\ c.moved \/ n > 0 => c'.moved
  <2> DEFINE ptr == IF c.ptr = NULL THEN c.ptr ELSE c.ptr + n
             room == c.room - n
  <2>1. ptr \in Int /\ room \in Nat
    BY <1>2, <1>4
  <2>2. /\ Consumed(n) \in CallState /\ Consumed(n).at = c.at + n
        /\ Consumed(n).start = c.start /\ Consumed(n).asked = c.asked
        /\ c.moved \/ n > 0 => Consumed(n).moved
    BY <1>1, <1>4, ConsumedFacts
  <2>3. c' = [Consumed(n) EXCEPT !.ptr = ptr, !.room = room]
    BY <1>6
  <2> HIDE DEF ptr, room
  <2>4. /\ c' \in CallState /\ c'.at = c.at + n /\ c'.start = c.start /\ c'.room = room
        /\ c'.asked = c.asked /\ c'.ptr = ptr /\ c'.moved = Consumed(n).moved
    BY <2>1, <2>2, <2>3 DEF CallState
  <2> QED
    BY <2>2, <2>4 DEF ptr, room
<1>12. /\ (c'.ptr = NULL \/ (0 <= c'.start /\ c'.start <= c'.ptr /\ c'.ptr + c'.room <= DstSize))
       /\ c'.ptr = NULL => c'.room = 0 /\ ~c'.asked /\ ~StableDst
  <2>1. CASE c.ptr = NULL
    <3>1. c.room = 0 /\ ~c.asked /\ ~StableDst /\ n = 0
      BY <1>4, <2>1 DEF FrameInv, InOutput
    <3> QED
      BY <1>11, <2>1, <3>1
  <2>2. CASE c.ptr # NULL
    <3>1. 0 <= c.start /\ c.start <= c.ptr /\ c.ptr + c.room <= DstSize
      BY <2>2 DEF FrameInv, InOutput
    <3>2. 0 <= c.start /\ c.start <= c.ptr + n /\ c.ptr + n + (c.room - n) <= DstSize
      BY <1>2, <1>4, <3>1, FormatFacts
    <3>3. c.ptr + n # NULL
      BY <1>2, <1>4, <3>1 DEF NULL
    <3> QED
      BY <1>11, <2>2, <3>2, <3>3
  <2> QED
    BY <2>1, <2>2
<1>13. InOutput'
  BY <1>12 DEF InOutput
<1>14. GetsAhead'
  <2>1. c.asked => c.moved \/ (c.given > 0 /\ c.room > 0)
    BY <1>1 DEF FrameInv, GetsAhead
  <2>2. c.asked => c.ptr # NULL
    BY DEF FrameInv, InOutput
  <2>3. c'.asked => c'.moved
    BY Zenon, <1>4, <1>11, <2>1, <2>2
  <2> QED
    BY <2>3 DEF GetsAhead
<1> HIDE DEF s, sum, xxh, left, rest, held, stage, due
<1>15. CASE c.ptr = NULL
  <2>1. d' = d /\ n = 0 /\ n # d.target /\ phase' = "leave" /\ due = t.due
    BY <1>2, <1>4, <1>6, <1>15 DEF due
  <2>2. SameBuffers
    BY <2>1 DEF SameBuffers
  <2>3. Buffers'
    BY <1>1, <1>6, <2>1, <2>2, BuffersStay DEF HeaderStages, Built, InBlocks
  <2>4. FrameDecoderTypeOK'
    BY <1>1, <1>6, <1>9, <1>11, <2>1 DEF FrameDecoderTypeOK
  <2>5. FieldsFit'
    BY <1>1, <2>1 DEF FieldsFit, Storing
  <2>6. TargetsFit'
    BY <1>1, <1>2, <1>6, <1>9, <1>10, <2>1
    DEF TargetsFit, HeaderStages, Built, InBlocks, OfBlock
  <2>7. InField'
    <3>1. c'.at = c.at
      BY <1>2, <1>11, <2>1
    <3> QED
      BY <1>1, <1>2, <1>9, <1>10, <2>1, <3>1 DEF InField, Storing, HeaderStages
  <2> QED
    BY <1>13, <1>14, <2>1, <2>3, <2>4, <2>5, <2>6, <2>7 DEF FrameInv, RefusedAtEnd
<1>16. CASE c.ptr # NULL
  <2>1. PICK dict \in Int, size \in Nat :
          /\ d' = [after EXCEPT !.dict = dict, !.dictSize = size]
          /\ dict = TMP => size <= d.maxBufferSize
    <3>1. d.stage \in Built
      BY <1>1 DEF Built, InBlocks
    <3>2. /\ Deliver(mem, s, FALSE, after) /\ stream # << >>
          /\ n \in Nat /\ Len(s) = n /\ n <= c.room
      BY <1>1, <1>4, <1>5, <1>6, <1>16
    <3> DEFINE withinTmp == FALSE
    <3>3. withinTmp \in BOOLEAN /\ ~withinTmp /\ Deliver(mem, s, withinTmp, after)
      BY <3>2
    <3> HIDE DEF after, withinTmp
    <3>4. HistoryGrows(after, n, withinTmp)
      BY <1>16, <3>1, <3>2, <3>3, Delivered
    <3> QED
      BY <3>4 DEF HistoryGrows
  <2>2. after \in Context
    BY <1>1, <1>7 DEF Context
  <2>3. /\ after.maxBufferSize = d.maxBufferSize /\ after.tmpOut = d.tmpOut
        /\ after.tmpOutSize = d.tmpOutSize /\ after.blockSum = sum /\ after.target = left
        /\ after.held = held /\ after.stage = stage
    BY <1>1 DEF Context
  <2> HIDE DEF after
  <2>4. d' \in Context /\ d'.dict = dict /\ d'.dictSize = size
    BY <2>1, <2>2 DEF Context
  <2>5. /\ d'.maxBufferSize = d.maxBufferSize /\ d'.tmpOut = d.tmpOut
        /\ d'.tmpOutSize = d.tmpOutSize /\ d'.blockSum = sum /\ d'.target = left
        /\ d'.held = held /\ d'.stage = stage
    BY <2>1, <2>2, <2>3 DEF Context
  <2>6. FrameDecoderTypeOK'
    BY <1>1, <1>6, <1>9, <1>11, <2>4 DEF FrameDecoderTypeOK
  <2>7. Buffers'
    <3>1. stage \in Built /\ stage # "flushOut" /\ stage \notin HeaderStages \cup { "init" }
      BY DEF stage, Built, InBlocks, HeaderStages
    <3>2. /\ maxBlockSize + (IF f.linked THEN 2 * KB64 ELSE 0) <= d.maxBufferSize
          /\ TMP <= d.tmpOut /\ d.tmpOut + d.tmpOutSize <= TMP + d.maxBufferSize
          /\ d.tmpOutSize <= maxBlockSize
          /\ ~f.linked => d.tmpOut = TMP
      BY <1>1 DEF FrameInv, Buffers, Built, InBlocks
    <3> QED
      BY <1>10, <2>1, <2>4, <2>5, <3>1, <3>2 DEF Buffers
  <2>8. CASE n < d.target
    <3>1. stage = "copyDirect" /\ phase' = "leave" /\ due = t.due
      BY <1>2, <1>4, <1>6, <2>8 DEF stage, due
    <3>2. /\ 0 < left /\ left <= b.csize /\ sum = b.csize - left
          /\ c'.at = due + b.csize - left
      <4>1. PICK x \in Nat, y \in Nat, z \in Nat, a \in Nat :
              x = d.target /\ y = b.csize /\ z = t.due /\ a = c.at
        BY <1>1, <1>2, <1>3
      <4>2. /\ x <= y /\ n < x /\ n \in Nat /\ a = z + y - x
            /\ left = x - n /\ sum = y - x + n /\ c'.at = a + n /\ due = z
        BY <1>2, <1>4, <1>11, <2>8, <3>1, <4>1 DEF left, sum
      <4>3. /\ 0 < x - n /\ x - n <= y /\ y - x + n = y - (x - n)
            /\ a + n = z + y - (x - n)
        BY <4>2
      <4> QED
        BY <4>1, <4>2, <4>3
    <3>3. FieldsFit'
      BY <1>7, <2>5, <3>1 DEF FieldsFit, Storing
    <3>4. TargetsFit'
      BY <1>1, <1>6, <1>9, <1>10, <2>5, <3>1, <3>2
      DEF TargetsFit, HeaderStages, Built, InBlocks, OfBlock
    <3>5. InField'
      BY <1>9, <1>10, <2>5, <3>1, <3>2 DEF InField, Storing, HeaderStages
    <3> QED
      BY <1>13, <1>14, <2>6, <2>7, <3>1, <3>3, <3>4, <3>5 DEF FrameInv, RefusedAtEnd
  <2>9. CASE ~(n < d.target)
    <3>1. n = d.target /\ phase' = "loop"
      BY <1>1, <1>2, <1>4, <1>6, <2>9
    <3>2. /\ stage \in { "getBlockChecksum", "getBlockHeader" } /\ held = << >>
          /\ due = t.due + b.csize
      BY <2>9, <3>1 DEF stage, held, due
    <3>3. sum = b.csize /\ c'.at = due + 0 /\ c'.at = due
      <4>1. PICK x \in Nat, y \in Nat, z \in Nat, a \in Nat :
              x = d.target /\ y = b.csize /\ z = t.due /\ a = c.at
        BY <1>1, <1>2, <1>3
      <4>2. /\ n = x /\ a = z + y - x /\ sum = y - x + n /\ c'.at = a + n /\ due = z + y
        BY <1>2, <1>11, <3>1, <3>2, <4>1 DEF sum
      <4> QED
        BY <4>1, <4>2
    <3>4. FieldsFit'
      <4>1. Len(d'.held) = 0 /\ d'.stage = stage
        BY <2>5, <3>2, NothingHeld
      <4>2. BFSize \in Nat /\ BFSize > 0 /\ maxBlockSize \in Nat
        BY FormatFacts
      <4> QED
        BY <3>2, <4>1, <4>2 DEF FieldsFit, FieldSize, Storing
    <3>5. TargetsFit'
      BY <1>1, <1>6, <1>9, <1>10, <2>5, <3>1, <3>2, <3>3
      DEF TargetsFit, HeaderStages, Built, InBlocks, OfBlock
    <3>6. InField'
      <4>1. Bytes(due, 0) = << >>
        BY DEF Bytes
      <4> QED
        BY <1>9, <2>5, <3>2, <3>3, <4>1, NothingHeld DEF InField, HeaderStages
    <3> QED
      BY <1>13, <1>14, <2>6, <2>7, <3>1, <3>4, <3>5, <3>6 DEF FrameInv, RefusedAtEnd
  <2> QED
    BY <2>8, <2>9
<1> QED
  BY <1>15, <1>16

LEMMA BuffersBehind ==
  ASSUME FrameInv, d.stage \in Built, d'.stage \in Built \ { "flushOut" }, stream' = stream,
         d'.maxBufferSize = d.maxBufferSize, d'.tmpOut = d.tmpOut, d'.tmpOutSize = d.tmpOutSize,
         d'.dict = TMP => d'.dictSize <= d.maxBufferSize
  PROVE  Buffers'
PROOF
<1>1. f' = f
  BY DEF f
<1>2. /\ maxBlockSize + (IF f.linked THEN 2 * KB64 ELSE 0) <= d.maxBufferSize
      /\ TMP <= d.tmpOut /\ d.tmpOut + d.tmpOutSize <= TMP + d.maxBufferSize
      /\ d.tmpOutSize <= maxBlockSize
      /\ ~f.linked => d.tmpOut = TMP
  BY DEF FrameInv, Buffers
<1>3. d'.stage \notin HeaderStages \cup { "init" }
  BY DEF Built, InBlocks, HeaderStages
<1> QED
  BY <1>1, <1>2, <1>3 DEF Buffers

LEMMA DecodedFacts ==
  ASSUME b.size \in Nat, t.decoded \in Nat, NEW m, NEW dict, NEW size, NEW to
  PROVE  Len(Decoded(m, dict, size, to)) = b.size
PROOF
<1>1. Len(Bytes(t.decoded, b.size)) = b.size
  <2> t.decoded \in Int
    OBVIOUS
  <2> QED
    BY BytesFacts
<1>2. Len([k \in 1 .. b.size |-> Garbage]) = b.size
  BY DEF Garbage
<1> QED
  BY <1>1, <1>2 DEF Decoded

LEMMA BlockRead ==
  ASSUME FrameInv, phase = "loop", d.stage \in { "getCBlock", "storeCBlock" },
         NEW bytes, IsDue(bytes), DecodeBlock(bytes), UNCHANGED resets,
         NEW fed \in CallState, c' = Produced(fed), fed.moved, fed.at = t.due + d.target,
         fed.ptr = c.ptr, fed.start = c.start, fed.room = c.room, fed.asked = c.asked
  PROVE  FrameInv'
PROOF
<1>1. /\ d \in Context /\ t \in TextState /\ stream \in Seq(IntactFrame) /\ stream # << >>
      /\ t.due \in Nat /\ t.block \in Nat /\ t.block <= Len(f.blocks) /\ t.block > 0
      /\ t.decoded \in Nat /\ t.delivered \in Nat /\ d.stage \in Built
      /\ Len(d.held) <= maxBlockSize + BFSize /\ d.target = b.csize + crcSize
  BY DEF FrameInv, FrameDecoderTypeOK, FieldsFit, TargetsFit, TextState, Built, OfBlock, InBlocks
<1>2. /\ b.csize \in Nat /\ 0 < b.csize /\ b.size \in Nat /\ b.size <= maxBlockSize
      /\ crcSize \in Nat
  BY <1>1, BlockFacts, FrameFacts DEF b
<1>3. c.room \in Nat /\ c.ptr \in Int /\ c.start \in Int /\ c \in CallState
  BY DEF FrameInv, FrameDecoderTypeOK, CallState
<1> DEFINE due == t.due + b.csize + crcSize
           decoded == t.decoded + b.size
           rest == Counted(b.size)
<1>4. due \in Nat /\ due = t.due + d.target /\ decoded \in Nat /\ t.delivered + b.size \in Nat
  <2>1. PICK x \in Nat, y \in Nat, z \in Nat, v \in Nat :
          x = t.due /\ y = b.csize /\ z = crcSize /\ v = b.size
    BY <1>1, <1>2
  <2>2. d.target = y + z /\ due = x + y + z
    BY <1>1, <2>1
  <2>3. x + y + z \in Nat /\ x + y + z = x + (y + z)
    BY <2>1
  <2>4. decoded \in Nat /\ t.delivered + b.size \in Nat
    <3> t.decoded \in Nat /\ t.delivered \in Nat /\ b.size \in Nat
      BY <1>1, <1>2
    <3> QED
      OBVIOUS
  <2> HIDE DEF due
  <2> QED
    BY <2>1, <2>2, <2>3, <2>4
<1>5. stream' = stream /\ phase' = phase /\ f' = f
  BY DEF DecodeBlock, f
<1>6. rest \in Int
  BY <1>2, CountedFacts
<1> HIDE DEF due, decoded, rest
<1>7. CASE c.room >= maxBlockSize
  <2> DEFINE s == Decoded(mem, d.dict, d.dictSize, c.ptr)
             xxh == Update(d.xxh, s)
             after == [d EXCEPT !.xxh = xxh, !.remaining = rest, !.stage = "getBlockHeader"]
             delivered == t.delivered + b.size
             ptr == c.ptr + b.size
             room == c.room - b.size
  <2>1. /\ Deliver(mem, s, FALSE, after)
        /\ t' = [t EXCEPT !.due = due, !.decoded = decoded, !.delivered = delivered]
    BY <1>1, <1>7 DEF DecodeBlock, due, decoded, rest, Context, TextState
  <2>2. Len(s) = b.size /\ b.size <= c.room
    <3>1. b.size <= c.room
      BY <1>2, <1>3, <1>7, FormatFacts
    <3> QED
      BY <1>1, <1>2, <3>1, DecodedFacts
  <2>3. c.ptr # NULL /\ 0 <= c.start /\ c.start <= c.ptr /\ c.ptr + c.room <= DstSize
    BY <1>3, <1>7, FormatFacts DEF FrameInv, InOutput
  <2>4. c' = [fed EXCEPT !.ptr = ptr, !.room = room]
    <3>1. ~(fed.room < maxBlockSize)
      BY <1>3, <1>7, FormatFacts
    <3> QED
      BY <3>1 DEF Produced, CallState
  <2>5. ptr \in Int /\ room \in Nat /\ c.start <= ptr /\ ptr + room <= DstSize /\ ptr # NULL
    BY <1>2, <1>3, <2>2, <2>3, FormatFacts DEF NULL
  <2>6. delivered \in Nat /\ xxh \in Int
    <3>1. Len(s) \in Nat
      BY <1>2, <2>2
    <3> HIDE DEF s
    <3> QED
      BY <1>4, <3>1, UpdateFacts
  <2> HIDE DEF s, xxh, delivered, ptr, room
  <2>7. t' \in TextState /\ t'.due = due /\ t'.block = t.block
    BY <1>1, <1>4, <2>1, <2>6 DEF TextState
  <2>8. /\ c' \in CallState /\ c'.at = fed.at /\ c'.start = c.start /\ c'.room = room
        /\ c'.ptr = ptr /\ c'.moved
    BY <2>4, <2>5 DEF CallState
  <2>9. PICK dict \in Int, size \in Nat :
          /\ d' = [after EXCEPT !.dict = dict, !.dictSize = size]
          /\ dict = TMP => size <= d.maxBufferSize
    <3> DEFINE withinTmp == FALSE
               n == b.size
    <3>1. withinTmp \in BOOLEAN /\ ~withinTmp /\ Deliver(mem, s, withinTmp, after)
      BY <2>1
    <3>2. n \in Nat /\ n <= c.room /\ Len(s) = n
      BY <1>2, <2>2
    <3> HIDE DEF after, withinTmp, n
    <3>3. HistoryGrows(after, n, withinTmp)
      BY <1>1, <2>3, <3>1, <3>2, Delivered
    <3> QED
      BY <3>3 DEF HistoryGrows
  <2>10. after \in Context
    BY <1>1, <1>6, <2>6 DEF Context, DecoderStages, InBlocks
  <2>11. /\ after.maxBufferSize = d.maxBufferSize /\ after.tmpOut = d.tmpOut
         /\ after.tmpOutSize = d.tmpOutSize /\ after.held = d.held
         /\ after.stage = "getBlockHeader"
    BY <1>1 DEF Context
  <2> HIDE DEF after
  <2>12. d' \in Context /\ d'.dict = dict /\ d'.dictSize = size
    BY <2>9, <2>10 DEF Context
  <2>13. /\ d'.maxBufferSize = d.maxBufferSize /\ d'.tmpOut = d.tmpOut
         /\ d'.tmpOutSize = d.tmpOutSize /\ d'.held = d.held /\ d'.stage = "getBlockHeader"
    BY <2>9, <2>10, <2>11 DEF Context
  <2>14. FrameDecoderTypeOK'
    BY <1>1, <1>5, <2>7, <2>8, <2>12 DEF FrameDecoderTypeOK
  <2>15. Buffers'
    BY <1>1, <1>5, <2>9, <2>12, <2>13, BuffersBehind DEF Built, InBlocks
  <2>16. FieldsFit'
    BY <1>1, <2>13 DEF FieldsFit, Storing
  <2>17. TargetsFit'
    BY <1>1, <1>5, <2>7, <2>13 DEF TargetsFit, HeaderStages, Built, InBlocks, OfBlock
  <2>18. InField'
    BY <1>4, <2>7, <2>8, <2>13 DEF InField, Storing, HeaderStages
  <2>19. InOutput' /\ GetsAhead'
    BY <2>3, <2>5, <2>8 DEF InOutput, GetsAhead
  <2> QED
    BY <1>5, <2>14, <2>15, <2>16, <2>17, <2>18, <2>19 DEF FrameInv, RefusedAtEnd
<1>8. CASE ~(c.room >= maxBlockSize)
  <2> DEFINE s == Decoded(TmpOut.m, d.dict, TmpOut.dictSize, TmpOut.at)
             xxh == Update(d.xxh, s)
             to == TmpOut.at
             size == TmpOut.dictSize
             wrote == b.size
             zero == 0
  <2>1. /\ d' = [d EXCEPT !.xxh = xxh, !.remaining = rest, !.dictSize = size, !.tmpOut = to,
                          !.tmpOutSize = wrote, !.tmpOutStart = zero, !.stage = "flushOut"]
        /\ t' = [t EXCEPT !.due = due, !.decoded = decoded]
    BY <1>1, <1>8 DEF DecodeBlock, due, decoded, rest, Context, TextState
  <2>2. /\ to \in Int /\ size \in Nat
        /\ TMP <= to /\ to + maxBlockSize <= TMP + d.maxBufferSize
        /\ d.dict = TMP => size <= d.maxBufferSize
        /\ ~f.linked => to = TMP
        /\ f.linked /\ d.dict = TMP => TMP + size = to
    BY <1>1, TmpOutFacts
  <2>3. xxh \in Int
    <3>1. Len(s) \in Nat
      BY <1>1, <1>2, DecodedFacts
    <3> HIDE DEF s
    <3> QED
      BY <3>1, UpdateFacts
  <2>4. c' = fed
    <3>1. fed.room < maxBlockSize
      BY <1>3, <1>8, FormatFacts
    <3> QED
      BY <3>1 DEF Produced
  <2>5. SameOutput /\ c' \in CallState /\ c'.moved /\ c'.at = fed.at
    BY <2>4 DEF SameOutput
  <2>6. wrote \in Nat /\ wrote <= maxBlockSize /\ zero \in Nat /\ zero <= wrote
    BY <1>2
  <2> HIDE DEF s, xxh, to, size, wrote, zero
  <2>7. t' \in TextState /\ t'.due = due /\ t'.block = t.block
    BY <1>1, <1>4, <2>1 DEF TextState
  <2>8. d' \in Context
    <3>1. "flushOut" \in DecoderStages
      BY DEF DecoderStages, InBlocks
    <3> QED
      BY <1>1, <1>6, <2>1, <2>2, <2>3, <2>6, <3>1 DEF Context
  <2>9. /\ d'.stage = "flushOut" /\ d'.held = d.held /\ d'.tmpOut = to /\ d'.tmpOutSize = wrote
        /\ d'.tmpOutStart = zero /\ d'.dict = d.dict /\ d'.dictSize = size
        /\ d'.maxBufferSize = d.maxBufferSize
    BY <1>1, <2>1 DEF Context
  <2>10. FrameDecoderTypeOK'
    BY <1>1, <1>5, <2>5, <2>7, <2>8 DEF FrameDecoderTypeOK
  <2>11. Buffers'
    <3>1. maxBlockSize + (IF f.linked THEN 2 * KB64 ELSE 0) <= d.maxBufferSize
      BY <1>1 DEF FrameInv, Buffers
    <3>2. TMP \in Nat /\ d.maxBufferSize \in Nat /\ maxBlockSize \in Nat
      <4>1. DstSize \in Nat /\ maxBlockSize \in Nat
        BY FormatFacts
      <4>2. d.maxBufferSize \in Nat
        BY <1>1 DEF Context
      <4> QED
        BY <4>1, <4>2 DEF TMP
    <3>3. to + wrote <= TMP + d.maxBufferSize
      BY <2>2, <2>6, <3>2
    <3>4. f.linked /\ d.dict = TMP => TMP + size = to + zero
      BY <2>2 DEF zero
    <3>5. d'.stage \notin HeaderStages \cup { "init" }
      BY <2>9 DEF HeaderStages
    <3> QED
      BY <1>5, <2>2, <2>6, <2>9, <3>1, <3>3, <3>4, <3>5 DEF Buffers
  <2>12. FieldsFit'
    BY <1>1, <2>9 DEF FieldsFit, Storing
  <2>13. TargetsFit'
    BY <1>1, <1>5, <2>7, <2>9 DEF TargetsFit, HeaderStages, Built, InBlocks, OfBlock
  <2>14. InField'
    BY <1>4, <2>5, <2>7, <2>9 DEF InField, Storing, HeaderStages
  <2>15. InOutput' /\ GetsAhead'
    BY <2>5, CallMoves
  <2> QED
    BY <1>5, <2>10, <2>11, <2>12, <2>13, <2>14, <2>15 DEF FrameInv, RefusedAtEnd
<1> QED
  BY <1>7, <1>8

LEMMA GetCBlockStep ==
  ASSUME FrameInv, GetCBlock, UNCHANGED resets
  PROVE  FrameInv'
PROOF
<1>1. /\ phase = "loop" /\ d.stage = "getCBlock" /\ d \in Context /\ c \in CallState
      /\ t \in TextState /\ stream \in Seq(IntactFrame) /\ stream # << >>
      /\ t.due \in Nat /\ t.block \in Nat /\ t.block <= Len(f.blocks) /\ t.block > 0
      /\ c.at = t.due /\ c.given \in Nat /\ d.target \in Nat /\ d.target = b.csize + crcSize
  BY DEF FrameInv, FrameDecoderTypeOK, TargetsFit, InField, GetCBlock, Stop, Context,
         CallState, TextState, Built, OfBlock, InBlocks
<1>2. /\ 0 < d.target /\ d.target <= maxBlockSize + BFSize
  <2>1. /\ b.csize \in Nat /\ 0 < b.csize /\ b.csize <= maxBlockSize /\ crcSize \in Nat
        /\ crcSize <= BFSize
    BY <1>1, BlockFacts, FrameFacts DEF b
  <2> QED
    BY <1>1, <2>1, FormatFacts
<1>3. CASE c.given < d.target
  <2>1. /\ d' = [d EXCEPT !.held = << >>, !.stage = "storeCBlock"]
        /\ UNCHANGED << stream, c, t, mem, phase >>
    BY <1>3 DEF GetCBlock
  <2>2. /\ d' \in Context /\ SameBuffers /\ d'.stage = "storeCBlock" /\ d'.held = << >>
        /\ d'.target = d.target
    BY <1>1, <2>1, NothingHeld DEF Context, SameBuffers, DecoderStages, InBlocks
  <2>3. Buffers'
    BY <1>1, <2>1, <2>2, BuffersStay DEF HeaderStages, Built, InBlocks
  <2>4. FrameDecoderTypeOK'
    BY <1>1, <2>1, <2>2 DEF FrameDecoderTypeOK
  <2>5. FieldsFit'
    <3>1. Len(d'.held) = 0
      BY <2>2, NothingHeld
    <3> QED
      BY <1>1, <1>2, <2>2, <3>1, FormatFacts DEF FieldsFit, FieldSize
  <2>6. f' = f /\ b' = b /\ crcSize' = crcSize
    BY <2>1 DEF f, b, crcSize
  <2>7. TargetsFit'
    BY <1>1, <2>1, <2>2, <2>6 DEF TargetsFit, HeaderStages, Built, InBlocks, OfBlock
  <2>8. InField'
    <3>1. Bytes(t.due, 0) = << >> /\ c.at = t.due + 0
      BY <1>1 DEF Bytes
    <3> QED
      BY <1>1, <2>1, <2>2, <3>1, NothingHeld DEF InField, HeaderStages
  <2>9. InOutput' /\ GetsAhead'
    BY <1>1, <2>1, CallStays
  <2> QED
    BY <1>1, <2>1, <2>3, <2>4, <2>5, <2>7, <2>8, <2>9 DEF FrameInv, RefusedAtEnd
<1>4. CASE ~(c.given < d.target)
  <2>1. DecodeBlock(Bytes(c.at, d.target)) /\ c' = Produced(Consumed(d.target))
    BY <1>4 DEF GetCBlock
  <2>2. IsDue(Bytes(c.at, d.target))
    BY <1>1, DueFacts
  <2>3. d.target <= c.given
    BY <1>1, <1>4
  <2>4. /\ Consumed(d.target) \in CallState /\ Consumed(d.target).moved
        /\ Consumed(d.target).at = t.due + d.target
        /\ Consumed(d.target).ptr = c.ptr /\ Consumed(d.target).start = c.start
        /\ Consumed(d.target).room = c.room /\ Consumed(d.target).asked = c.asked
    BY <1>1, <1>2, <2>3, ConsumedFacts
  <2> QED
    BY <1>1, <2>1, <2>2, <2>4, BlockRead
<1> QED
  BY <1>3, <1>4

LEMMA StoreCBlockStep ==
  ASSUME FrameInv, StoreCBlock, UNCHANGED resets
  PROVE  FrameInv'
PROOF
<1> DEFINE n == d.target
           k == Lesser(n - Len(d.held), c.given)
<1>1. phase = "loop" /\ d.stage = "storeCBlock" /\ d.stage \in Storing
  BY DEF StoreCBlock, Stop, Storing
<1>2. n \in Nat /\ n = FieldSize
  BY <1>1 DEF FieldSize, FrameInv, FrameDecoderTypeOK, Context
<1>3. CASE Len(Gathered(n)) < n
  <2>1. /\ c' = Consumed(k) /\ d' = [d EXCEPT !.held = Gathered(n)] /\ phase' = "leave"
        /\ UNCHANGED << stream, t, mem >>
    BY <1>3 DEF StoreCBlock, Gather
  <2> QED
    BY <1>1, <1>2, <1>3, <2>1, InputEnds
<1>4. CASE ~(Len(Gathered(n)) < n)
  <2>1. DecodeBlock(Gathered(n)) /\ c' = Produced(Consumed(n - Len(d.held)))
    BY <1>4 DEF StoreCBlock
  <2>2. /\ IsDue(Gathered(n)) /\ Consumed(k) \in CallState /\ Consumed(k).moved
        /\ Consumed(k).at = t.due + n /\ k = n - Len(d.held)
        /\ Consumed(k).ptr = c.ptr /\ Consumed(k).start = c.start
        /\ Consumed(k).room = c.room /\ Consumed(k).asked = c.asked
    BY <1>1, <1>2, <1>4, FieldWhole
  <2>3. c' = Produced(Consumed(k))
    BY <2>1, <2>2
  <2> QED
    BY <1>1, <2>1, <2>2, <2>3, BlockRead
<1> QED
  BY <1>3, <1>4

(* A decoded block, as much of it as the caller has room for.              *)
LEMMA FlushOutStep ==
  ASSUME FrameInv, FlushOut, UNCHANGED resets
  PROVE  FrameInv'
PROOF
<1> DEFINE n == Lesser(d.tmpOutSize - d.tmpOutStart, c.room)
           flushed == d.tmpOutStart + n = d.tmpOutSize
           sent == d.tmpOutStart + n
           stage == IF flushed THEN "getBlockHeader" ELSE "flushOut"
           after == [d EXCEPT !.tmpOutStart = sent, !.stage = stage]
           s == [k \in 1 .. n |-> mem[d.tmpOut + d.tmpOutStart + k - 1]]
           delivered == t.delivered + n
           ptr == c.ptr + n
           room == c.room - n
           moved == c.moved \/ n > 0
<1>1. /\ phase = "loop" /\ d.stage = "flushOut" /\ d.stage \in Built
      /\ d \in Context /\ c \in CallState
      /\ t \in TextState /\ stream \in Seq(IntactFrame) /\ stream # << >>
      /\ t.due \in Nat /\ t.block \in Nat /\ t.block <= Len(f.blocks) /\ t.block > 0
      /\ t.delivered \in Nat /\ Len(d.held) <= maxBlockSize + BFSize /\ c.at = t.due
  BY DEF FrameInv, FrameDecoderTypeOK, FieldsFit, TargetsFit, InField, FlushOut, Stop, TextState,
         Built, OfBlock, InBlocks
<1>2. /\ d.tmpOutSize \in Nat /\ d.tmpOutStart \in Nat /\ d.tmpOutStart <= d.tmpOutSize
      /\ c.room \in Nat /\ c.ptr \in Int /\ c.start \in Int /\ c.given \in Nat
      /\ d.tmpOut \in Int /\ d.dictSize \in Nat /\ d.dict \in Int
  <2>1. c.room \in Nat /\ c.ptr \in Int /\ c.start \in Int /\ c.given \in Nat
    BY <1>1 DEF CallState
  <2>2. /\ d.tmpOutSize \in Nat /\ d.tmpOutStart \in Nat
        /\ d.tmpOut \in Int /\ d.dictSize \in Nat /\ d.dict \in Int
    BY <1>1 DEF Context
  <2> QED
    BY <1>1, <2>1, <2>2 DEF FrameInv, Buffers
<1>3. /\ n \in Nat /\ n <= c.room /\ sent \in Nat /\ sent <= d.tmpOutSize
      /\ ~flushed => n = c.room
  <2>1. PICK x \in Nat, y \in Nat : x = d.tmpOutSize - d.tmpOutStart /\ y = c.room
    BY <1>2
  <2>2. PICK u \in Nat : u = Lesser(x, y) /\ u <= x /\ u <= y /\ (u = x \/ u = y)
    <3>1. /\ Lesser(x, y) \in Nat /\ Lesser(x, y) <= x /\ Lesser(x, y) <= y
          /\ Lesser(x, y) = x \/ Lesser(x, y) = y
      BY LesserFacts
    <3> QED
      BY <3>1
  <2>3. n = u
    BY <2>1, <2>2
  <2> HIDE DEF n
  <2> QED
    BY <1>2, <2>1, <2>2, <2>3
<1> HIDE DEF n
<1>4. /\ c.ptr = NULL => d' = after /\ c' = c
      /\ c.ptr # NULL => Deliver(mem, s, TRUE, after)
      /\ c.ptr # NULL => c' = [c EXCEPT !.ptr = ptr, !.room = room, !.moved = moved]
      /\ t' = [t EXCEPT !.delivered = delivered]
      /\ phase' = IF flushed THEN phase ELSE "leave"
      /\ stream' = stream
  <2>1. /\ c.ptr = NULL => d' = after /\ c' = c
        /\ c.ptr # NULL => Deliver(mem, s, TRUE, after)
    BY <1>1 DEF FlushOut, n, Context
  <2>2. /\ c.ptr # NULL => c' = [c EXCEPT !.ptr = ptr, !.room = room, !.moved = moved]
        /\ t' = [t EXCEPT !.delivered = delivered]
    BY <1>1 DEF FlushOut, n, CallState, TextState
  <2>3. phase' = (IF flushed THEN phase ELSE "leave") /\ stream' = stream
    BY DEF FlushOut, n
  <2> QED
    BY <2>1, <2>2, <2>3
<1>5. Len(s) = n
  BY <1>3
<1>6. f' = f
  BY <1>4 DEF f
<1>7. t' \in TextState /\ t'.due = t.due /\ t'.block = t.block
  <2>1. delivered \in Nat
    BY <1>1, <1>3
  <2> HIDE DEF delivered
  <2> QED
    BY <1>1, <1>4, <2>1 DEF TextState
<1>8. stage \in DecoderStages /\ stage \in Built /\ stage \notin HeaderStages \cup { "init" }
  BY DEF DecoderStages, Built, InBlocks, HeaderStages
<1>9. after \in Context
  <2> HIDE DEF sent, stage
  <2> QED
    BY <1>1, <1>3, <1>8 DEF Context
<1>10. /\ after.maxBufferSize = d.maxBufferSize /\ after.tmpOut = d.tmpOut
       /\ after.tmpOutSize = d.tmpOutSize /\ after.tmpOutStart = sent
       /\ after.held = d.held /\ after.stage = stage
       /\ after.dict = d.dict /\ after.dictSize = d.dictSize
  BY <1>1 DEF Context
<1>11. PICK dict \in Int, size \in Nat :
         /\ d' = [after EXCEPT !.dict = dict, !.dictSize = size]
         /\ dict = TMP => size <= d.maxBufferSize
         /\ f.linked /\ dict = TMP => TMP + size = d.tmpOut + sent
  <2>1. CASE c.ptr = NULL
    <3>1. n = 0 /\ sent = d.tmpOutStart
      <4>1. c.room = 0
        BY <2>1 DEF FrameInv, InOutput
      <4> QED
        BY <1>2, <1>3, <4>1
    <3>2. after = [after EXCEPT !.dict = d.dict, !.dictSize = d.dictSize]
      BY <1>9, <1>10 DEF Context
    <3>3. /\ d.dict = TMP => d.dictSize <= d.maxBufferSize
          /\ f.linked /\ d.dict = TMP => TMP + d.dictSize = d.tmpOut + d.tmpOutStart
      BY <1>1 DEF FrameInv, Buffers
    <3> HIDE DEF after, sent
    <3> QED
      BY <1>2, <1>4, <2>1, <3>1, <3>2, <3>3
  <2>2. CASE c.ptr # NULL
    <3> DEFINE withinTmp == TRUE
    <3>1. /\ withinTmp \in BOOLEAN /\ withinTmp /\ Deliver(mem, s, withinTmp, after)
          /\ withinTmp => d.stage = "flushOut" /\ d.tmpOutStart + n <= d.tmpOutSize
      BY <1>1, <1>3, <1>4, <2>2
    <3> HIDE DEF after, withinTmp, s
    <3>2. HistoryGrows(after, n, withinTmp)
      BY <1>1, <1>3, <1>5, <2>2, <3>1, Delivered
    <3>3. d.tmpOut + d.tmpOutStart + n = d.tmpOut + sent
      BY <1>2, <1>3
    <3> HIDE DEF sent
    <3> QED
      BY <3>1, <3>2, <3>3 DEF HistoryGrows
  <2> QED
    BY <2>1, <2>2
<1> HIDE DEF after
<1>12. d' \in Context /\ d'.dict = dict /\ d'.dictSize = size
  BY <1>9, <1>11 DEF Context
<1>13. /\ d'.maxBufferSize = d.maxBufferSize /\ d'.tmpOut = d.tmpOut
       /\ d'.tmpOutSize = d.tmpOutSize /\ d'.tmpOutStart = sent
       /\ d'.held = d.held /\ d'.stage = stage
  BY <1>9, <1>10, <1>11 DEF Context
<1>14. Buffers'
  <2>1. /\ maxBlockSize + (IF f.linked THEN 2 * KB64 ELSE 0) <= d.maxBufferSize
        /\ TMP <= d.tmpOut /\ d.tmpOut + d.tmpOutSize <= TMP + d.maxBufferSize
        /\ d.tmpOutSize <= maxBlockSize
        /\ ~f.linked => d.tmpOut = TMP
    BY <1>1 DEF FrameInv, Buffers
  <2> HIDE DEF sent, stage
  <2> QED
    BY <1>3, <1>6, <1>8, <1>11, <1>12, <1>13, <2>1 DEF Buffers
<1>15. /\ c' \in CallState /\ c'.at = c.at /\ InOutput' /\ GetsAhead'
  <2>1. /\ c.asked => c.moved \/ (c.given > 0 /\ c.room > 0)
        /\ c.ptr = NULL => c.room = 0 /\ ~c.asked /\ ~StableDst
        /\ c.ptr # NULL => 0 <= c.start /\ c.start <= c.ptr /\ c.ptr + c.room <= DstSize
    BY <1>1 DEF FrameInv, GetsAhead, InOutput
  <2>2. CASE c.ptr = NULL
    <3>1. c' = c
      BY <1>4, <2>2
    <3> QED
      BY <1>1, <2>1, <2>2, <3>1 DEF InOutput, GetsAhead
  <2>3. CASE c.ptr # NULL
    <3>1. /\ ptr \in Int /\ room \in Nat /\ moved \in BOOLEAN
      <4>1. ptr \in Int /\ room \in Nat
        BY <1>2, <1>3
      <4>2. moved \in BOOLEAN
        BY Zenon
      <4> QED
        BY <4>1, <4>2
    <3>2. 0 <= c.start /\ c.start <= ptr /\ ptr + room <= DstSize /\ ptr # NULL
      BY <1>2, <1>3, <2>1, <2>3, FormatFacts DEF NULL
    <3>3. n > 0 \/ (n = 0 /\ room = c.room)
      BY <1>2, <1>3
    <3>4. flushed \/ n = c.room
      BY <1>3
    <3> HIDE DEF ptr, room
    <3>5. /\ c' \in CallState /\ c'.at = c.at /\ c'.start = c.start /\ c'.room = room
          /\ c'.ptr = ptr /\ c'.asked = c.asked /\ c'.given = c.given
      BY <1>1, <1>4, <2>3, <3>1 DEF CallState
    <3>6. c.moved \/ n > 0 => c'.moved
      BY <1>1, <1>4, <2>3 DEF CallState
    <3>7. InOutput'
      BY <3>2, <3>5 DEF InOutput
    <3>8. GetsAhead'
      <4>1. CASE n > 0
        BY <3>6, <4>1 DEF GetsAhead
      <4>2. CASE ~(n > 0)
        <5>1. n = 0 /\ room = c.room
          BY <3>3, <4>2
        <5>2. c.asked /\ phase' = "leave" => c.moved
          <6>1. phase' = "leave" => c.room = 0
            BY <1>1, <1>4, <3>4, <5>1
          <6> QED
            BY <2>1, <6>1
        <5>3. c.asked => c.moved \/ (c'.given > 0 /\ c'.room > 0)
          BY <2>1, <3>5, <5>1
        <5>4. c'.asked /\ phase' = "leave" => c'.moved
          BY Zenon, <3>5, <3>6, <5>2
        <5>5. c'.asked => c'.moved \/ (c'.given > 0 /\ c'.room > 0)
          BY Zenon, <3>5, <3>6, <5>3
        <5> QED
          BY <5>4, <5>5 DEF GetsAhead
      <4> QED
        BY <4>1, <4>2
    <3> QED
      BY <3>5, <3>7, <3>8
  <2> QED
    BY <2>2, <2>3
<1>16. FrameDecoderTypeOK'
  BY <1>1, <1>4, <1>7, <1>12, <1>15 DEF FrameDecoderTypeOK
<1>17. stage \in { "getBlockHeader", "flushOut" } /\ phase' \in { "loop", "leave" }
  BY <1>1, <1>4
<1> HIDE DEF stage
<1>18. FieldsFit'
  BY <1>1, <1>13, <1>17 DEF FieldsFit, Storing
<1>19. TargetsFit'
  BY <1>1, <1>4, <1>6, <1>7, <1>13, <1>17 DEF TargetsFit, HeaderStages, Built, InBlocks, OfBlock
<1>20. InField'
  BY <1>1, <1>7, <1>13, <1>15, <1>17 DEF InField, Storing, HeaderStages
<1> QED
  BY <1>14, <1>15, <1>16, <1>17, <1>18, <1>19, <1>20 DEF FrameInv, RefusedAtEnd

-----------------------------------------------------------------------------
(* Returns and calls.                                                      *)
LEMMA BetweenCalls ==
  ASSUME FrameInv, phase \in { "idle", "leave" }, phase' \in { "idle", "loop" },
         phase' = "loop" => stream # << >>,
         d'.stage = d.stage, d'.held = d.held, d'.target = d.target, d'.blockSum = d.blockSum,
         c'.at = c.at, stream' = stream, t' = t
  PROVE  FieldsFit' /\ TargetsFit' /\ InField' /\ RefusedAtEnd'
PROOF
<1>1. f' = f /\ b' = b /\ crcSize' = crcSize
  BY DEF f, b, crcSize
<1>2. FieldsFit'
  BY DEF FrameInv, FieldsFit, FieldSize
<1>3. TargetsFit'
  <2> DEFINE stage == d.stage
  <2>1. /\ stage = "skipSkippable" => d.target # 0
        /\ stage # "getFrameHeader" => stream # << >>
        /\ stage \in HeaderStages \cup { "init" } => t.block = 0
        /\ stage \in Built => t.block <= Len(f.blocks)
        /\ stage \in OfBlock => t.block > 0
        /\ stage = "storeFrameHeader" =>
             d.target = minFHSize \/ (~f.skippable /\ d.target = HeaderSize(f))
        /\ stage = "storeSFrameSize" => d.target = 2 * BHSize
        /\ stage \in { "getCBlock", "storeCBlock" } => d.target = b.csize + crcSize
        /\ stage = "copyDirect" => /\ 0 < d.target /\ d.target <= b.csize
                                   /\ d.blockSum = b.csize - d.target
        /\ stage = "getBlockChecksum" => d.blockSum = b.csize
    BY DEF FrameInv, TargetsFit
  <2>2. d'.stage = stage
    OBVIOUS
  <2> HIDE DEF stage
  <2> QED
    BY <1>1, <2>1, <2>2 DEF TargetsFit, HeaderSize
<1>4. InField'
  <2>1. b' = b /\ phase # "error"
    BY <1>1
  <2> QED
    BY <2>1 DEF FrameInv, InField
<1>5. RefusedAtEnd'
  BY DEF RefusedAtEnd
<1> QED
  BY <1>2, <1>3, <1>4, <1>5

LEMMA LeaveStep ==
  ASSUME FrameInv, Leave
  PROVE  FrameInv'
PROOF
<1>1. /\ phase = "leave" /\ phase' = "idle" /\ stream' = stream /\ c' = c /\ t' = t
      /\ f' = f /\ b' = b /\ crcSize' = crcSize
  BY DEF Leave, f, b, crcSize
<1>2. d \in Context /\ c \in CallState /\ t \in TextState /\ stream \in Seq(IntactFrame)
  BY DEF FrameInv, FrameDecoderTypeOK
<1>3. /\ d.stage # "init" /\ (d.stage = "skipSkippable" => d.target # 0)
  BY <1>1 DEF FrameInv, TargetsFit
<1>4. InOutput' /\ GetsAhead'
  BY <1>1 DEF FrameInv, InOutput, GetsAhead
<1> DEFINE Same == /\ d' \in Context /\ d'.stage = d.stage /\ d'.held = d.held
                   /\ d'.target = d.target /\ d'.blockSum = d.blockSum
<1>5. ASSUME Same, Buffers' PROVE FrameInv'
  <2>1. FrameDecoderTypeOK'
    BY <1>1, <1>2, <1>5 DEF FrameDecoderTypeOK
  <2>2. FieldsFit' /\ TargetsFit' /\ InField' /\ RefusedAtEnd'
    BY <1>1, <1>5, BetweenCalls
  <2> QED
    BY <1>4, <1>5, <2>1, <2>2 DEF FrameInv
<1> DEFINE keeps == d.stage \in InBlocks /\ f.linked /\ d.dict \notin { TMP, NULL } /\ ~StableDst
<1>6. CASE ~keeps
  <2>1. d' = d
    BY <1>6 DEF Leave
  <2>2. Buffers'
    BY <1>1, <2>1 DEF FrameInv, Buffers
  <2> QED
    BY <1>2, <1>5, <2>1, <2>2
<1>7. CASE keeps
  <2>1. /\ d.stage \in Built /\ d.stage \notin HeaderStages \cup { "init" }
        /\ d.maxBufferSize \in Nat /\ d.tmpOut \in Int /\ d.tmpOutSize \in Nat
        /\ d.tmpOutStart \in Nat /\ d.dictSize \in Nat
        /\ TMP \in Nat /\ KB64 \in Nat /\ maxBlockSize \in Nat
    <3>1. d.stage \in Built /\ d.stage \notin HeaderStages \cup { "init" }
      BY <1>3, <1>7 DEF Built, InBlocks, HeaderStages
    <3>2. /\ d.maxBufferSize \in Nat /\ d.tmpOut \in Int /\ d.tmpOutSize \in Nat
          /\ d.tmpOutStart \in Nat /\ d.dictSize \in Nat
      BY <1>2 DEF Context
    <3>3. DstSize \in Nat /\ KB64 \in Nat /\ maxBlockSize \in Nat
      BY FormatFacts
    <3> QED
      BY <3>1, <3>2, <3>3 DEF TMP
  <2>2. /\ maxBlockSize + 2 * KB64 <= d.maxBufferSize
        /\ maxBlockSize + (IF f.linked THEN 2 * KB64 ELSE 0) <= d.maxBufferSize
        /\ TMP <= d.tmpOut /\ d.tmpOut + d.tmpOutSize <= TMP + d.maxBufferSize
        /\ d.tmpOutSize <= maxBlockSize /\ f.linked
    BY <1>7, <2>1 DEF FrameInv, Buffers
  <2>3. CASE d.stage = "flushOut"
    <3> DEFINE size == d.tmpOut - TMP + d.tmpOutStart
    <3>1. d' = [d EXCEPT !.dict = TMP, !.dictSize = size]
      BY <1>7, <2>3 DEF Leave
    <3>2. d.tmpOutStart <= d.tmpOutSize
      BY <2>3 DEF FrameInv, Buffers
    <3>3. size \in Nat /\ size <= d.maxBufferSize /\ TMP + size = d.tmpOut + d.tmpOutStart
      BY <2>1, <2>2, <3>2
    <3> HIDE DEF size
    <3>4. /\ Same /\ d'.dict = TMP /\ d'.dictSize = size /\ d'.maxBufferSize = d.maxBufferSize
          /\ d'.tmpOut = d.tmpOut /\ d'.tmpOutSize = d.tmpOutSize
          /\ d'.tmpOutStart = d.tmpOutStart
      <4> TMP \in Int
        BY <2>1
      <4> QED
        BY <1>2, <3>1, <3>3 DEF Context
    <3>5. Buffers'
      BY <1>1, <2>1, <2>2, <3>2, <3>3, <3>4 DEF Buffers
    <3> QED
      BY <1>5, <3>4, <3>5
  <2>4. CASE d.stage # "flushOut"
    <3>1. PICK size \in Nat : size = Lesser(d.dictSize, KB64) /\ size <= KB64
      <4>1. PICK x \in Nat, y \in Nat : x = d.dictSize /\ y = KB64
        BY <2>1
      <4>2. Lesser(x, y) \in Nat /\ Lesser(x, y) <= y
        BY LesserFacts
      <4> QED
        BY <4>1, <4>2
    <3> DEFINE to == TMP + size
    <3>2. d' = [d EXCEPT !.dict = TMP, !.dictSize = size, !.tmpOut = to]
      BY <1>7, <2>4, <3>1 DEF Leave
    <3>3. /\ to \in Int /\ TMP <= to /\ to + d.tmpOutSize <= TMP + d.maxBufferSize
          /\ size <= d.maxBufferSize
      BY <2>1, <2>2, <3>1
    <3> HIDE DEF to
    <3>4. /\ Same /\ d'.dict = TMP /\ d'.dictSize = size /\ d'.maxBufferSize = d.maxBufferSize
          /\ d'.tmpOut = to /\ d'.tmpOutSize = d.tmpOutSize
      <4> TMP \in Int
        BY <2>1
      <4> QED
        BY <1>2, <3>2, <3>3 DEF Context
    <3>5. Buffers'
      BY <1>1, <2>1, <2>2, <2>4, <3>3, <3>4 DEF Buffers
    <3> QED
      BY <1>5, <3>4, <3>5
  <2> QED
    BY <2>3, <2>4
<1> QED
  BY <1>6, <1>7

LEMMA CallStep ==
  ASSUME FrameInv, LZ4F_decompress
  PROVE  FrameInv'
PROOF
<1>1. PICK given \in 0 .. MaxGiven, room \in 0 .. MaxRoom,
           start \in IF StableDst /\ d.stage # "getFrameHeader" THEN { c.ptr, c.ptr + 1 } ELSE { 0 } :
        start + room <= DstSize /\ c' = NewCall(given, c.at, room, start)
  BY DEF LZ4F_decompress
<1>2. /\ phase = "idle" /\ phase' = "loop" /\ stream # << >> /\ stream' = stream /\ t' = t
      /\ d' = IF DictSize > 0 /\ d.stage \in { "getFrameHeader", "storeFrameHeader", "init" }
              THEN [d EXCEPT !.dict = DICT, !.dictSize = DictSize] ELSE d
  BY DEF LZ4F_decompress
<1>3. d \in Context /\ c \in CallState /\ t \in TextState /\ stream \in Seq(IntactFrame)
  BY DEF FrameInv, FrameDecoderTypeOK
<1>4. given \in Nat /\ room \in Nat
  BY FormatFacts
<1>5. start \in Nat
  <2>1. c.ptr \in Int /\ c.start \in Int
    BY <1>3 DEF CallState
  <2>2. c.ptr = NULL \/ (0 <= c.start /\ c.start <= c.ptr)
    BY DEF FrameInv, InOutput
  <2>3. c.ptr = NULL => ~StableDst
    BY DEF FrameInv, InOutput
  <2> QED
    BY <1>1, <2>1, <2>2, <2>3
<1>6. /\ c' \in CallState /\ c'.at = c.at /\ c'.ptr = start /\ c'.start = start /\ c'.room = room
      /\ c'.given = given
  <2>1. c.at \in Nat /\ start \in Int
    BY <1>3, <1>5 DEF CallState
  <2>2. (given > 0 /\ room > 0) \in BOOLEAN
    BY Zenon
  <2> QED
    BY <1>1, <1>4, <2>1, <2>2 DEF NewCall, CallState
<1>7. c'.asked => c'.given > 0 /\ c'.room > 0
  BY <1>1 DEF NewCall
<1>8. InOutput' /\ GetsAhead'
  <2>1. start # NULL /\ 0 <= start /\ start <= start
    BY <1>5 DEF NULL
  <2> QED
    BY <1>1, <1>2, <1>6, <1>7, <2>1 DEF InOutput, GetsAhead
<1>9. f' = f
  BY <1>2 DEF f
<1>10. CASE d' = d
  <2>1. Buffers'
    BY <1>9, <1>10 DEF FrameInv, Buffers
  <2>2. FrameDecoderTypeOK'
    BY <1>2, <1>3, <1>6, <1>10 DEF FrameDecoderTypeOK
  <2> QED
    BY <1>2, <1>6, <1>8, <1>10, <2>1, <2>2, BetweenCalls DEF FrameInv
<1>11. CASE d' # d
  <2>1. /\ d.stage \in { "getFrameHeader", "storeFrameHeader", "init" }
        /\ d' = [d EXCEPT !.dict = DICT, !.dictSize = DictSize]
    BY <1>2, <1>11
  <2>2. DICT \in Int /\ DICT # TMP /\ DictSize \in Nat
    <3>1. DstSize \in Nat /\ maxBlockSize \in Nat /\ KB64 \in Nat /\ DictSize \in Nat
      BY FormatFacts
    <3> QED
      BY <3>1 DEF DICT, TMP
  <2>3. /\ d' \in Context /\ d'.stage = d.stage /\ d'.held = d.held /\ d'.target = d.target
        /\ d'.blockSum = d.blockSum /\ d'.dict = DICT
    BY <1>3, <2>1, <2>2 DEF Context
  <2>4. Buffers'
    BY <2>1, <2>2, <2>3 DEF Buffers, Built, InBlocks
  <2>5. FrameDecoderTypeOK'
    BY <1>2, <1>3, <1>6, <2>3 DEF FrameDecoderTypeOK
  <2> QED
    BY <1>2, <1>6, <1>8, <2>3, <2>4, <2>5, BetweenCalls DEF FrameInv
<1> QED
  BY <1>10, <1>11

(* A call without input and without a buffer.                              *)
LEMMA WithoutBufferFacts ==
  ASSUME NEW at \in Nat, NEW zero \in Nat, NEW none \in Int, NEW x,
         x = [at |-> at, given |-> zero, ptr |-> none, start |-> none, room |-> zero,
              asked |-> FALSE, moved |-> FALSE]
  PROVE  x \in CallState /\ x.at = at /\ x.ptr = none /\ x.room = zero /\ ~x.asked
PROOF
  BY DEF CallState

LEMMA CallWithoutBuffer ==
  ASSUME NEW at \in Nat, c' = NewCall(0, at, 0, NULL), ~StableDst
  PROVE  c' \in CallState /\ c'.at = at /\ c'.ptr = NULL /\ InOutput' /\ GetsAhead'
PROOF
<1>1. c' = [at |-> at, given |-> 0, ptr |-> NULL, start |-> NULL, room |-> 0,
            asked |-> 0 > 0 /\ 0 > 0, moved |-> FALSE]
  BY DEF NewCall
<1>2. (0 > 0 /\ 0 > 0) = FALSE
  OBVIOUS
<1>3. c' = [at |-> at, given |-> 0, ptr |-> NULL, start |-> NULL, room |-> 0,
            asked |-> FALSE, moved |-> FALSE]
  BY Zenon, <1>1, <1>2
<1>4. PICK zero \in Nat, none \in Int : zero = 0 /\ none = NULL
  BY DEF NULL
<1>5. c' = [at |-> at, given |-> zero, ptr |-> none, start |-> none, room |-> zero,
            asked |-> FALSE, moved |-> FALSE]
  BY Zenon, <1>3, <1>4
<1>6. c' \in CallState /\ c'.at = at /\ c'.ptr = none /\ c'.room = zero /\ ~c'.asked
  BY <1>5, WithoutBufferFacts
<1> QED
  BY <1>4, <1>6 DEF InOutput, GetsAhead

LEMMA DecodeFrameInfoStep ==
  ASSUME FrameInv, DecodeFrameInfo
  PROVE  FrameInv'
PROOF
<1> DEFINE n == IF f.skippable THEN 2 * BHSize ELSE HeaderSize(f)
           bytes == Bytes(c.at, n)
<1>1. /\ phase = "idle" /\ stream # << >> /\ d.stage = "getFrameHeader" /\ ~StableDst
      /\ DecodeHeader(bytes, TRUE) /\ c' = NewCall(0, c.at + HeaderTaken, 0, NULL)
      /\ UNCHANGED resets
  BY DEF DecodeFrameInfo
<1>2. stream \in Seq(IntactFrame) /\ c.at = 0 /\ c.at = t.due /\ t.due \in Nat
  BY <1>1 DEF FrameInv, FrameDecoderTypeOK, InField, HeaderStages
<1>3. n \in Nat /\ HeaderTaken \in Nat /\ (f.skippable \/ n = HeaderSize(f))
  BY <1>1, <1>2, FrameFacts, FormatFacts DEF HeaderTaken
<1>4. bytes \in Seq(Int) /\ Len(bytes) = n /\ IsDue(bytes)
  <2> HIDE DEF n
  <2> QED
    BY <1>2, <1>3, DueFacts
<1>5. c' \in CallState /\ c'.at = HeaderTaken /\ InOutput' /\ GetsAhead'
  <2>1. c.at + HeaderTaken = HeaderTaken
    BY <1>2, <1>3
  <2> QED
    BY <1>1, <1>3, <2>1, CallWithoutBuffer
<1>6. f.skippable \/ HeaderSize(f) <= Len(bytes)
  BY <1>2, <1>1, <1>3, <1>4, FrameFacts
<1> HIDE DEF n, bytes
<1> QED
  BY <1>1, <1>4, <1>5, <1>6, HeaderRead

LEMMA GetFrameInfoStep ==
  ASSUME FrameInv, LZ4F_getFrameInfo
  PROVE  FrameInv'
PROOF
<1>1. /\ phase = "idle" /\ phase' = "loop" /\ stream # << >> /\ ~StableDst
      /\ UNCHANGED << stream, d, t >> /\ c' = NewCall(0, c.at, 0, NULL)
  BY DEF LZ4F_getFrameInfo
<1>2. d \in Context /\ t \in TextState /\ stream \in Seq(IntactFrame) /\ c.at \in Nat
  BY DEF FrameInv, FrameDecoderTypeOK, CallState
<1>3. c' \in CallState /\ c'.at = c.at /\ InOutput' /\ GetsAhead'
  BY <1>1, <1>2, CallWithoutBuffer
<1>4. Buffers'
  <2>1. f' = f
    BY <1>1 DEF f
  <2> QED
    BY <1>1, <2>1 DEF FrameInv, Buffers
<1>5. FrameDecoderTypeOK'
  BY <1>1, <1>2, <1>3 DEF FrameDecoderTypeOK
<1> QED
  BY <1>1, <1>3, <1>4, <1>5, BetweenCalls DEF FrameInv

(* A decoder that is to start with a frame.                                *)
LEMMA AtStart ==
  ASSUME FrameDecoderTypeOK, d.stage = "getFrameHeader", d.dict = NULL,
         Len(d.held) <= maxBlockSize + BFSize, t.due = 0, t.block = 0, phase = "idle",
         c = NewCall(0, 0, 0, 0)
  PROVE  FrameInv
PROOF
<1>1. c.at = 0 /\ c.ptr = 0 /\ c.start = 0 /\ c.room = 0
  BY DEF NewCall
<1>2. NULL # TMP /\ NULL # 0 /\ 0 + 0 <= DstSize
  BY FormatFacts DEF NULL, TMP
<1>3. FieldsFit /\ TargetsFit /\ InField
  BY <1>1 DEF FieldsFit, TargetsFit, InField, Storing, HeaderStages, Built, InBlocks, OfBlock
<1>4. InOutput /\ GetsAhead
  BY <1>1, <1>2 DEF InOutput, GetsAhead
<1>5. Buffers
  BY <1>2 DEF Buffers, HeaderStages, Built, InBlocks
<1> QED
  BY <1>3, <1>4, <1>5 DEF FrameInv, RefusedAtEnd

LEMMA FreshCall ==
  ASSUME NEW fresh, fresh = NewCall(0, 0, 0, 0), NEW text, text = NewText
  PROVE  fresh \in CallState /\ text \in TextState /\ text.due = 0 /\ text.block = 0
PROOF
  BY DEF NewCall, NewText, CallState, TextState

LEMMA FrameInvHolds ==
  FrameDecoderInit => FrameInv
PROOF
<1> SUFFICES ASSUME FrameDecoderInit PROVE FrameInv
  OBVIOUS
<1>1. stream \in Seq(IntactFrame)
  BY StreamsAssumption DEF FrameDecoderInit
<1>2. c \in CallState /\ t \in TextState /\ t.due = 0 /\ t.block = 0 /\ c = NewCall(0, 0, 0, 0)
  BY FreshCall DEF FrameDecoderInit
<1>3. d \in Context /\ d.stage = "getFrameHeader" /\ d.dict = NULL /\ d.held = << >>
  <2> DEFINE zero == 0
             nothing == << >>
  <2>1. zero \in Nat /\ zero \in Int /\ NULL \in Int /\ nothing \in Seq(Int)
        /\ "getFrameHeader" \in DecoderStages
    BY NothingHeld DEF NULL, DecoderStages, HeaderStages
  <2>2. d = [stage |-> "getFrameHeader", held |-> nothing, target |-> zero, remaining |-> zero,
             maxBufferSize |-> zero, tmpOut |-> NULL, tmpOutSize |-> zero, tmpOutStart |-> zero,
             dict |-> NULL, dictSize |-> zero, xxh |-> zero, blockSum |-> zero]
    BY DEF FrameDecoderInit
  <2> HIDE DEF zero, nothing
  <2>3. d \in Context /\ d.stage = "getFrameHeader" /\ d.dict = NULL /\ d.held = nothing
    BY <2>1, <2>2 DEF Context
  <2> QED
    BY <2>3 DEF nothing
<1>4. Len(d.held) <= maxBlockSize + BFSize
  BY <1>3, NothingHeld, FormatFacts
<1>5. FrameDecoderTypeOK /\ phase = "idle"
  BY <1>1, <1>2, <1>3 DEF FrameDecoderTypeOK, FrameDecoderInit
<1> QED
  BY <1>2, <1>3, <1>4, <1>5, AtStart

LEMMA ResetStep ==
  ASSUME FrameInv, LZ4F_resetDecompressionContext
  PROVE  FrameInv'
PROOF
<1>1. /\ phase = "idle" /\ phase' = "idle" /\ Len(stream) > 1 /\ stream' = Tail(stream)
      /\ d' = [d EXCEPT !.stage = "getFrameHeader", !.dict = NULL, !.dictSize = 0]
      /\ c' = NewCall(0, 0, 0, 0) /\ t' = NewText
  BY DEF LZ4F_resetDecompressionContext, Reset
<1>2. /\ d \in Context /\ stream \in Seq(IntactFrame) /\ Len(d.held) <= maxBlockSize + BFSize
  BY DEF FrameInv, FrameDecoderTypeOK, FieldsFit
<1>3. stream' \in Seq(IntactFrame)
  <2>1. stream # << >>
    BY <1>1, <1>2
  <2> QED
    BY <1>1, <1>2, <2>1, FrameFacts
<1>4. /\ d' \in Context /\ d'.stage = "getFrameHeader" /\ d'.held = d.held /\ d'.dict = NULL
  <2> DEFINE none == 0
  <2>1. none \in Nat /\ NULL \in Int /\ "getFrameHeader" \in DecoderStages
    BY DEF NULL, DecoderStages, HeaderStages
  <2>2. d' = [d EXCEPT !.stage = "getFrameHeader", !.dict = NULL, !.dictSize = none]
    BY <1>1
  <2> HIDE DEF none
  <2> QED
    BY <1>2, <2>1, <2>2 DEF Context
<1>5. c' \in CallState /\ t' \in TextState /\ t'.due = 0 /\ t'.block = 0
  BY <1>1, FreshCall
<1>6. FrameDecoderTypeOK'
  BY <1>1, <1>3, <1>4, <1>5 DEF FrameDecoderTypeOK
<1>7. c'.at = 0 /\ c'.ptr = 0 /\ c'.start = 0 /\ c'.room = 0
  BY <1>1 DEF NewCall
<1>8. NULL # TMP /\ NULL # 0 /\ 0 + 0 <= DstSize
  BY FormatFacts DEF NULL, TMP
<1>9. FieldsFit' /\ TargetsFit' /\ InField'
  BY <1>1, <1>2, <1>4, <1>5, <1>7
  DEF FieldsFit, TargetsFit, InField, Storing, HeaderStages, Built, InBlocks, OfBlock
<1>10. InOutput' /\ GetsAhead'
  BY <1>1, <1>7, <1>8 DEF InOutput, GetsAhead
<1>11. Buffers'
  BY <1>4, <1>8 DEF Buffers, HeaderStages, Built, InBlocks
<1> QED
  BY <1>1, <1>6, <1>9, <1>10, <1>11 DEF FrameInv, RefusedAtEnd

LEMMA FrameInvStep ==
  FrameInv /\ [FrameDecoderNext \/ AllDecoded]_frameDecoderVars => FrameInv'
PROOF
<1> SUFFICES ASSUME FrameInv, [FrameDecoderNext \/ AllDecoded]_frameDecoderVars PROVE FrameInv'
  OBVIOUS
<1>1. CASE Stages
  BY <1>1, GetFrameHeaderStep, StoreFrameHeaderStep, InitFrameStep, GetBlockHeaderStep,
     StoreBlockHeaderStep, CopyDirectStep, GetBlockChecksumStep, GetCBlockStep, StoreCBlockStep,
     FlushOutStep, GetSuffixStep, StoreSuffixStep, GetSFrameSizeStep, StoreSFrameSizeStep,
     SkipSkippableStep
  DEF Stages
<1>2. CASE Leave
  BY <1>2, LeaveStep
<1>3. CASE LZ4F_decompress
  BY <1>3, CallStep
<1>4. CASE LZ4F_getFrameInfo
  BY <1>4, GetFrameInfoStep
<1>5. CASE LZ4F_resetDecompressionContext
  BY <1>5, ResetStep
<1>6. CASE DecodeFrameInfo
  BY <1>6, DecodeFrameInfoStep
<1>7. CASE UNCHANGED frameDecoderVars
  <2>1. UNCHANGED << stream, d, c, t, phase >>
    BY <1>7 DEF frameDecoderVars
  <2>2. f' = f /\ b' = b /\ crcSize' = crcSize
    BY <2>1 DEF f, b, crcSize
  <2>3. FrameDecoderTypeOK'
    BY <2>1 DEF FrameInv, FrameDecoderTypeOK
  <2>4. FieldsFit' /\ TargetsFit'
    BY <2>1, <2>2 DEF FrameInv, FieldsFit, FieldSize, TargetsFit, HeaderSize
  <2>5. InField' /\ InOutput' /\ GetsAhead' /\ RefusedAtEnd'
    BY <2>1, <2>2 DEF FrameInv, InField, InOutput, GetsAhead, RefusedAtEnd
  <2>6. Buffers'
    BY <2>1, <2>2 DEF FrameInv, Buffers
  <2> QED
    BY <2>3, <2>4, <2>5, <2>6 DEF FrameInv
<1> QED
  BY <1>1, <1>2, <1>3, <1>4, <1>5, <1>6, <1>7 DEF FrameDecoderNext, AllDecoded

(* The invariant holds in every state of LZ4F_decompress and its caller.   *)
LEMMA FrameInvAlways ==
  FrameDecoderSpec => []FrameInv
PROOF
  BY FrameInvHolds, FrameInvStep, PTL DEF FrameDecoderSpec

-----------------------------------------------------------------------------
(* The context of LZ4F_decompress, the call and the place in the text have *)
(* their types in every state.                                             *)
THEOREM FrameDecoderTypes ==
  FrameDecoderSpec => []FrameDecoderTypeOK
PROOF
<1>1. FrameInv => FrameDecoderTypeOK
  BY DEF FrameInv
<1> QED
  BY <1>1, FrameInvAlways, PTL

(* However the caller cuts input and output into pieces, a call that has a *)
(* byte to read and room for a byte reads or hands out at least one.       *)
THEOREM FrameDecoderProgresses ==
  FrameDecoderSpec => []CallsMakeProgress
PROOF
<1>1. FrameInv => CallsMakeProgress
  BY DEF FrameInv, GetsAhead, CallsMakeProgress
<1> QED
  BY <1>1, FrameInvAlways, PTL

(* What LZ4F_decompress keeps between calls fits into tmpIn and            *)
(* tmpOutBuffer, and so does the largest block behind the history.         *)
THEOREM FrameDecoderInsideBuffers ==
  FrameDecoderSpec => []InsideOwnBuffers
PROOF
<1>1. FrameInv => InsideOwnBuffers
  <2> SUFFICES ASSUME FrameInv PROVE InsideOwnBuffers
    OBVIOUS
  <2>1. Len(d.held) <= maxBlockSize + BFSize
    BY DEF FrameInv, FieldsFit
  <2>2. ASSUME d.stage \in Built
        PROVE  /\ d.dict = TMP => d.dictSize <= d.maxBufferSize
               /\ d.tmpOut + d.tmpOutSize <= TMP + d.maxBufferSize
               /\ TmpOut.at + maxBlockSize <= TMP + d.maxBufferSize
    <3>1. TmpOut.at + maxBlockSize <= TMP + d.maxBufferSize
      BY <2>2, TmpOutFacts
    <3> QED
      BY <2>2, <3>1 DEF FrameInv, Buffers
  <2> QED
    BY <2>1, <2>2 DEF InsideOwnBuffers, Built
<1> QED
  BY <1>1, FrameInvAlways, PTL

(* LZ4F_decompress refuses no header, no size and no checksum of a block   *)
(* of an intact frame, wherever it was cut: only the text as a whole can   *)
(* be refused, at the end of the frame.                                    *)
THEOREM FieldsNeverRefused ==
  FrameDecoderSpec => []RefusedAtEnd
PROOF
<1>1. FrameInv => RefusedAtEnd
  BY DEF FrameInv
<1> QED
  BY <1>1, FrameInvAlways, PTL

-----------------------------------------------------------------------------
(***************************************************************************)
(* The text that LZ4F_decompress hands out.  What a match may still reach  *)
(* ends where the history ends, wherever that is: in front of the caller's *)
(* next byte, in tmpOutBuffer, or in the dictionary.  The lemmas on memory *)
(* say what copies and writes leave of it; those on the history, that      *)
(* LZ4F_updateDict keeps it through each of its cases; those on the steps, *)
(* that the invariant TextInv survives.                                    *)
(***************************************************************************)

(* The n bytes of memory m that end before end hold the text before last.  *)
HeldBack(m, end, last, n) == \A k \in 1 .. n : m[end - k] = last - k

LEMMA MemoryFacts ==
  /\ TMP \in Nat /\ TMP = DstSize + 1 /\ DICT \in Nat /\ TMP < DICT
  /\ TMP + maxBlockSize + 2 * KB64 < DICT
  /\ Memory = 0 .. DICT + DictSize /\ NULL \in Int /\ NULL < 0
PROOF
  BY FormatFacts DEF TMP, DICT, Memory, NULL

LEMMA HeldFewer ==
  ASSUME NEW m, NEW end, NEW last, NEW n \in Int, NEW k \in Int, k <= n, HeldBack(m, end, last, n)
  PROVE  HeldBack(m, end, last, k)
PROOF
  BY DEF HeldBack

LEMMA HeldNone ==
  ASSUME NEW m, NEW end, NEW last, NEW n \in Int, n <= 0
  PROVE  HeldBack(m, end, last, n)
PROOF
  BY DEF HeldBack

(* More text behind, and less of it.                                       *)
LEMMA HeldOn ==
  ASSUME NEW m, NEW end \in Int, NEW last \in Int, NEW n \in Int, NEW more \in Nat,
         NEW on \in Int, on = end + more, NEW next \in Int, next = last + more,
         NEW all \in Int, all <= n + more,
         HeldBack(m, end, last, n), HeldBack(m, on, next, more)
  PROVE  HeldBack(m, on, next, all)
PROOF
<1> SUFFICES ASSUME NEW k \in 1 .. all
             PROVE  m[on - k] = next - k
  BY DEF HeldBack
<1>1. CASE k <= more
  BY <1>1 DEF HeldBack
<1>2. CASE k > more
  <2>1. PICK j \in Int : j = k - more
    OBVIOUS
  <2>2. j \in 1 .. n /\ on - k = end - j /\ next - k = last - j
    BY <1>2, <2>1
  <2> QED
    BY <2>2 DEF HeldBack
<1> QED
  BY <1>1, <1>2

LEMMA HeldBefore ==
  ASSUME NEW m, NEW end \in Int, NEW last \in Int, NEW n \in Int, NEW less \in Nat,
         NEW on \in Int, on = end - less, NEW next \in Int, next = last - less,
         NEW rest \in Int, rest <= n - less,
         HeldBack(m, end, last, n)
  PROVE  HeldBack(m, on, next, rest)
PROOF
<1> SUFFICES ASSUME NEW k \in 1 .. rest
             PROVE  m[on - k] = next - k
  BY DEF HeldBack
<1>1. PICK j \in Int : j = k + less
  OBVIOUS
<1>2. j \in 1 .. n /\ on - k = end - j /\ next - k = last - j
  BY <1>1
<1> QED
  BY <1>2 DEF HeldBack

(* Writing elsewhere, writing text, and copying it.                        *)
LEMMA PutKeeps ==
  ASSUME NEW m, NEW end \in Int, NEW last \in Int, NEW n \in Int, HeldBack(m, end, last, n),
         NEW to \in Int, NEW s, NEW k \in Nat, Len(s) = k,
         n > 0 => 0 <= end - n /\ end <= DICT + DictSize + 1
                  /\ (k = 0 \/ end <= to \/ to + k <= end - n)
  PROVE  HeldBack(Put(m, to, s), end, last, n)
PROOF
<1> SUFFICES ASSUME NEW j \in 1 .. n
             PROVE  Put(m, to, s)[end - j] = last - j
  BY DEF HeldBack
<1>1. PICK a \in Int : a = end - j
  OBVIOUS
<1>2. DICT \in Nat /\ DictSize \in Nat
  BY MemoryFacts, FormatFacts
<1>3. n > 0
  OBVIOUS
<1>4. 0 <= a /\ a <= DICT + DictSize
  BY <1>1, <1>2, <1>3
<1>5. a \in Memory
  BY <1>2, <1>4, MemoryFacts
<1>6. ~(a - to \in 0 .. Len(s) - 1)
  BY <1>1, <1>3
<1>7. Put(m, to, s)[a] = m[a]
  BY <1>5, <1>6 DEF Put
<1> QED
  BY <1>1, <1>7 DEF HeldBack

LEMMA PutHolds ==
  ASSUME NEW m, NEW to \in Nat, NEW last \in Int, NEW n \in Nat, to + n <= DICT + DictSize + 1
  PROVE  HeldBack(Put(m, to, Bytes(last, n)), to + n, last + n, n)
PROOF
<1> SUFFICES ASSUME NEW j \in 1 .. n
             PROVE  Put(m, to, Bytes(last, n))[to + n - j] = last + n - j
  BY DEF HeldBack
<1>1. DICT \in Nat /\ DictSize \in Nat
  BY MemoryFacts, FormatFacts
<1>2. PICK a \in Int, i \in Int : a = to + n - j /\ i = n - j
  OBVIOUS
<1>3. a \in Memory /\ a - to = i /\ i \in 0 .. n - 1 /\ i + 1 \in 1 .. n
  BY <1>1, <1>2, MemoryFacts
<1>4. Len(Bytes(last, n)) = n
  BY BytesFacts
<1>5. Put(m, to, Bytes(last, n))[a] = Bytes(last, n)[i + 1]
  BY <1>3, <1>4 DEF Put
<1>6. Bytes(last, n)[i + 1] = last + i
  BY <1>3 DEF Bytes
<1> QED
  BY <1>2, <1>5, <1>6

LEMMA CopyKeeps ==
  ASSUME NEW m, NEW end \in Int, NEW last \in Int, NEW n \in Int, HeldBack(m, end, last, n),
         NEW to \in Int, NEW from \in Int, NEW k \in Nat,
         n > 0 => 0 <= end - n /\ end <= DICT + DictSize + 1
                  /\ (k = 0 \/ end <= to \/ to + k <= end - n)
  PROVE  HeldBack(Copy(m, to, from, k), end, last, n)
PROOF
<1> DEFINE s == [i \in 1 .. k |-> m[from + i - 1]]
<1>1. Len(s) = k
  OBVIOUS
<1>2. Copy(m, to, from, k) = Put(m, to, s)
  BY DEF Copy
<1> HIDE DEF s
<1> QED
  BY <1>1, <1>2, PutKeeps

LEMMA CopyHolds ==
  ASSUME NEW m, NEW from \in Int, NEW n \in Nat, NEW last \in Int, NEW w \in Int, w <= n,
         NEW end \in Int, end = from + n, HeldBack(m, end, last, w),
         NEW to \in Int, NEW on \in Int, on = to + n, 0 <= to, on <= DICT + DictSize + 1
  PROVE  HeldBack(Copy(m, to, from, n), on, last, w)
PROOF
<1> DEFINE s == [i \in 1 .. n |-> m[from + i - 1]]
<1> SUFFICES ASSUME NEW j \in 1 .. w
             PROVE  Copy(m, to, from, n)[on - j] = last - j
  BY DEF HeldBack
<1>1. DICT \in Nat /\ DictSize \in Nat
  BY MemoryFacts, FormatFacts
<1>2. PICK a \in Int, i \in Int : a = on - j /\ i = n - j
  OBVIOUS
<1>3. a \in Memory /\ a - to = i /\ i \in 0 .. n - 1 /\ i + 1 \in 1 .. n
  BY <1>1, <1>2, MemoryFacts
<1>4. Len(s) = n
  OBVIOUS
<1>5. Copy(m, to, from, n) = Put(m, to, s)
  BY DEF Copy
<1>6. s[i + 1] = m[from + (i + 1) - 1]
  BY <1>3
<1>7. from + (i + 1) - 1 = end - j
  BY <1>2
<1> HIDE DEF s
<1>8. Copy(m, to, from, n)[a] = s[i + 1]
  BY <1>3, <1>4, <1>5 DEF Put
<1> QED
  BY <1>2, <1>6, <1>7, <1>8 DEF HeldBack

(* How much of the history a match may still reach, when the text that was *)
(* handed out ends at last and lag more bytes of it are decoded.           *)
Reach(lag, last) == Lesser(KB64 - lag, last + DictSize)

(* Where the history may lie when the caller's buffer is filled up to ptr. *)
InPlace(dict, size, ptr) ==
  \/ size = 0
  \/ dict = TMP
  \/ dict = DICT /\ size = DictSize
  \/ 0 <= dict /\ dict + size <= ptr

SameOutside(m, now, lo, hi) == \A a \in Memory : (a < lo \/ hi <= a) => now[a] = m[a]

LEMMA ReachFacts ==
  ASSUME NEW lag \in Int, NEW last \in Int
  PROVE  /\ Reach(lag, last) \in Int
         /\ Reach(lag, last) <= KB64 - lag /\ Reach(lag, last) <= last + DictSize
         /\ Reach(lag, last) = KB64 - lag \/ Reach(lag, last) = last + DictSize
PROOF
<1>1. PICK x \in Int, y \in Int : x = KB64 - lag /\ y = last + DictSize
  BY FormatFacts
<1>2. Reach(lag, last) = Lesser(x, y)
  BY <1>1 DEF Reach
<1> QED
  BY <1>1, <1>2, LesserFacts

LEMMA CopySameOutside ==
  ASSUME NEW m, NEW to \in Int, NEW from \in Int, NEW k \in Nat,
         NEW lo \in Int, NEW hi \in Int, lo <= to, to + k <= hi
  PROVE  SameOutside(m, Copy(m, to, from, k), lo, hi)
PROOF
<1> DEFINE s == [i \in 1 .. k |-> m[from + i - 1]]
<1> SUFFICES ASSUME NEW a \in Memory, a < lo \/ hi <= a
             PROVE  Copy(m, to, from, k)[a] = m[a]
  BY DEF SameOutside
<1>1. a \in Int
  BY MemoryFacts, FormatFacts
<1>2. Len(s) = k /\ Copy(m, to, from, k) = Put(m, to, s)
  BY DEF Copy
<1> HIDE DEF s
<1>3. ~(a - to \in 0 .. Len(s) - 1)
  BY <1>1, <1>2
<1> QED
  BY <1>2, <1>3 DEF Put

LEMMA SameTwice ==
  ASSUME NEW m, NEW now, NEW then, NEW lo \in Int, NEW hi \in Int,
         SameOutside(m, now, lo, hi), SameOutside(now, then, lo, hi)
  PROVE  SameOutside(m, then, lo, hi)
PROOF
  BY DEF SameOutside

LEMMA KeptOutside ==
  ASSUME NEW m, NEW now, NEW lo \in Int, NEW hi \in Int, SameOutside(m, now, lo, hi),
         NEW end \in Int, NEW last \in Int, NEW n \in Int, HeldBack(m, end, last, n),
         n > 0 => 0 <= end - n /\ end <= DICT + DictSize + 1 /\ (end <= lo \/ hi <= end - n)
  PROVE  HeldBack(now, end, last, n)
PROOF
<1> SUFFICES ASSUME NEW j \in 1 .. n
             PROVE  now[end - j] = last - j
  BY DEF HeldBack
<1>1. PICK a \in Int : a = end - j
  OBVIOUS
<1>2. DICT \in Nat /\ DictSize \in Nat
  BY MemoryFacts, FormatFacts
<1>3. 0 <= a /\ a <= DICT + DictSize /\ (a < lo \/ hi <= a)
  BY <1>1, <1>2
<1>4. a \in Memory
  BY <1>2, <1>3, MemoryFacts
<1>5. now[a] = m[a]
  BY <1>3, <1>4 DEF SameOutside
<1> QED
  BY <1>1, <1>5 DEF HeldBack

(* The history moves in front of the block that is handed out.             *)
LEMMA HistoryInFront ==
  ASSUME FrameInv, d.stage = "flushOut", d.maxBufferSize <= maxBlockSize + 2 * KB64,
         NEW m, NEW dict \in Int, NEW size \in Nat, NEW last \in Int, NEW lag \in Nat,
         lag = d.tmpOutSize - d.tmpOutStart,
         HeldBack(m, dict + size, last, Reach(lag, last)),
         HeldBack(m, d.tmpOut + d.tmpOutSize, last + lag, d.tmpOutSize),
         Reach(d.tmpOutSize, last + lag - d.tmpOutSize) <= d.tmpOut - TMP,
         NEW n \in Nat, n <= lag,
         NEW now, now = InFrontOfTmpOut(m, dict, size)
  PROVE  /\ SameOutside(m, now, TMP, d.tmpOut)
         /\ HeldBack(now, d.tmpOut + d.tmpOutStart + n, last + n, Reach(lag - n, last + n))
         /\ Reach(lag - n, last + n) <= d.tmpOut - TMP + d.tmpOutStart + n
PROOF
<1>1. PICK out \in Int, outSize \in Nat, start \in Nat :
        out = d.tmpOut /\ outSize = d.tmpOutSize /\ start = d.tmpOutStart
  BY DEF FrameInv, FrameDecoderTypeOK, Context
<1>2. TMP <= out /\ out + outSize <= TMP + d.maxBufferSize /\ start <= outSize
  BY <1>1 DEF FrameInv, Buffers, Built, InBlocks
<1>3. KB64 \in Nat /\ TMP \in Nat /\ DICT \in Nat /\ DictSize \in Nat /\ out + outSize < DICT
  <2>1. d.maxBufferSize \in Nat
    BY DEF FrameInv, FrameDecoderTypeOK, Context
  <2> QED
    BY <1>2, <2>1, MemoryFacts, FormatFacts
<1>4. PICK begin \in Int : begin = last - start /\ begin = last + lag - outSize
  BY <1>1
<1>5. PICK w \in Int : w = Reach(outSize, begin) /\ w <= out - TMP
  <2>1. last + lag - d.tmpOutSize = begin
    BY <1>1, <1>4
  <2>2. Reach(outSize, begin) <= out - TMP
    BY <1>1, <2>1
  <2>3. outSize \in Int /\ begin \in Int
    BY <1>1
  <2>4. Reach(outSize, begin) \in Int
    BY <2>3, ReachFacts
  <2> QED
    BY <2>2, <2>4
<1>6. w <= KB64 - outSize /\ w <= begin + DictSize /\ (w = KB64 - outSize \/ w = begin + DictSize)
  BY <1>5, ReachFacts
<1>7. PICK reach \in Int : reach = Reach(lag, last)
  BY ReachFacts
<1>8. reach = w + start
  <2>1. reach <= KB64 - lag /\ reach <= last + DictSize /\ (reach = KB64 - lag \/ reach = last + DictSize)
    BY <1>7, ReachFacts
  <2> QED
    BY <1>1, <1>3, <1>4, <1>6, <2>1
<1>9. PICK preserve \in Nat : preserve = out - TMP
  BY <1>2, <1>3
<1> DEFINE copied == IF outSize > KB64 THEN 0 ELSE Lesser(KB64 - outSize, preserve)
<1>10. copied \in Nat /\ copied <= preserve /\ (w > 0 => w <= copied)
  <2>1. CASE outSize > KB64
    BY <1>3, <1>6, <2>1
  <2>2. CASE outSize <= KB64
    <3>1. PICK x \in Nat : x = KB64 - outSize
      BY <1>3, <2>2
    <3>2. copied = Lesser(x, preserve)
      BY <1>3, <2>2, <3>1
    <3>3. copied \in Nat /\ copied <= preserve /\ (copied = x \/ copied = preserve)
      BY <3>1, <3>2, LesserFacts
    <3> HIDE DEF copied
    <3> QED
      BY <1>5, <1>6, <1>9, <3>1, <3>3
  <2> QED
    BY <1>3, <2>1, <2>2
<1>11. now = Copy(m, TMP + preserve - copied, dict + size - start - copied, copied)
  BY <1>1, <1>9 DEF InFrontOfTmpOut
<1> HIDE DEF copied
<1>12. PICK to \in Int, from \in Int : to = TMP + preserve - copied /\ from = dict + size - start - copied
  BY <1>3, <1>10
<1>13. to + copied = out /\ TMP <= to /\ 0 <= to /\ out <= DICT + DictSize + 1
  BY <1>3, <1>9, <1>10, <1>12
<1>14. SameOutside(m, now, TMP, out)
  <2>1. now = Copy(m, to, from, copied)
    BY <1>11, <1>12
  <2> QED
    BY <1>3, <1>10, <1>13, <2>1, CopySameOutside
<1>15. HeldBack(now, out, begin, w)
  <2>1. CASE w <= 0
    BY <2>1, HeldNone
  <2>2. CASE w > 0
    <3>1. PICK end \in Int : end = from + copied /\ end = dict + size - start
      BY <1>10, <1>12
    <3>2. PICK whole \in Int : whole = dict + size /\ HeldBack(m, whole, last, reach)
      BY <1>7
    <3>3. HeldBack(m, end, begin, w)
      <4> end = whole - start /\ w <= reach - start
        BY <1>1, <1>8, <3>1, <3>2
      <4> QED
        BY <1>1, <1>4, <3>2, HeldBefore
    <3>4. now = Copy(m, to, from, copied) /\ w <= copied
      BY <1>10, <1>11, <1>12, <2>2
    <3>5. end \in Int /\ from \in Int /\ to \in Int /\ out \in Int /\ begin \in Int /\ w \in Int
          /\ copied \in Nat /\ out = to + copied /\ end = from + copied
      BY <1>10, <1>13, <3>1
    <3>6. HeldBack(Copy(m, to, from, copied), out, begin, w)
      <4> 0 <= to /\ out <= DICT + DictSize + 1 /\ w <= copied
        BY <1>13, <3>4
      <4> QED
        BY <3>3, <3>5, CopyHolds
    <3> QED
      BY <3>4, <3>6
  <2> QED
    BY <2>1, <2>2
<1>16. PICK more \in Nat : more = start + n
  OBVIOUS
<1>17. HeldBack(now, out + more, last + n, more)
  <2>1. PICK end \in Int, decoded \in Int : end = out + outSize /\ decoded = last + lag
    OBVIOUS
  <2>2. HeldBack(m, end, decoded, outSize)
    BY <1>1, <2>1
  <2>3. HeldBack(now, end, decoded, outSize)
    <3> 0 <= end - outSize /\ end <= DICT + DictSize + 1 /\ out <= end - outSize
      BY <1>2, <1>3, <2>1
    <3> QED
      BY <1>3, <1>14, <2>2, KeptOutside
  <2>4. PICK less \in Nat : less = lag - n
    OBVIOUS
  <2>5. out + more = end - less /\ last + n = decoded - less /\ more <= outSize - less
    <3> lag = outSize - start
      BY <1>1
    <3> QED
      BY <1>1, <1>16, <2>1, <2>4
  <2>6. PICK on \in Int, next \in Int : on = out + more /\ next = last + n
    BY <1>1, <1>16
  <2>7. on = end - less /\ next = decoded - less
    BY <2>5, <2>6
  <2>8. outSize \in Int /\ more \in Int
    BY <1>1, <1>16
  <2>9. HeldBack(now, on, next, more)
    BY <2>3, <2>4, <2>5, <2>6, <2>7, <2>8, HeldBefore
  <2> QED
    BY <2>6, <2>9
<1>18. PICK all \in Int : all = Reach(lag - n, last + n)
  <2>1. PICK l \in Int, e \in Int : l = lag - n /\ e = last + n
    OBVIOUS
  <2>2. Reach(l, e) \in Int
    BY ReachFacts
  <2> QED
    BY <2>1, <2>2
<1>19. all = w + more
  <2>1. PICK l \in Int, e \in Int : l = lag - n /\ e = last + n
    OBVIOUS
  <2>2. all = Reach(l, e)
    BY <1>18, <2>1
  <2>3. all <= KB64 - l /\ all <= e + DictSize /\ (all = KB64 - l \/ all = e + DictSize)
    BY <2>1, <2>2, ReachFacts
  <2>4. lag = outSize - start
    BY <1>1
  <2>5. w + more \in Int /\ KB64 - l = (KB64 - outSize) + more
        /\ e + DictSize = begin + DictSize + more
    BY <1>1, <1>3, <1>4, <1>5, <1>16, <2>1, <2>4
  <2> QED
    BY <1>3, <1>6, <2>3, <2>5
<1>20. HeldBack(now, out + more, last + n, all)
  <2>1. PICK on \in Int, next \in Int : on = out + more /\ next = last + n /\ next = begin + more
    BY <1>4, <1>16
  <2>2. all <= w + more
    BY <1>19
  <2> QED
    BY <1>15, <1>16, <1>17, <2>1, <2>2, HeldOn
<1>21. all <= d.tmpOut - TMP + d.tmpOutStart + n /\ d.tmpOut + d.tmpOutStart + n = out + more
  BY <1>1, <1>3, <1>5, <1>16, <1>19
<1> QED
  BY <1>1, <1>14, <1>18, <1>20, <1>21

(* What was handed out joins the history in tmpOutBuffer.                  *)
LEMMA HistoryJoined ==
  ASSUME NEW m, NEW last \in Int, NEW kept \in Nat, NEW w \in Int, w <= kept,
         NEW n \in Nat, NEW ptr \in Nat, ptr + n < TMP, TMP + kept + n < DICT,
         HeldBack(m, TMP + kept, last, w), HeldBack(m, ptr + n, last + n, n),
         NEW now, now = Copy(m, TMP + kept, ptr, n)
  PROVE  /\ SameOutside(m, now, TMP, DICT)
         /\ HeldBack(now, TMP + (kept + n), last + n, w + n)
PROOF
<1>1. TMP \in Nat /\ DICT \in Nat /\ DictSize \in Nat
  BY MemoryFacts, FormatFacts
<1>2. PICK to \in Nat, on \in Nat, next \in Int :
        to = TMP + kept /\ on = to + n /\ on = TMP + (kept + n) /\ next = last + n
  BY <1>1
<1>3. now = Copy(m, to, ptr, n)
  BY <1>2
<1>4. SameOutside(m, now, TMP, DICT)
  <2> TMP <= to /\ to + n <= DICT
    BY <1>1, <1>2
  <2> QED
    BY <1>1, <1>2, <1>3, CopySameOutside
<1>5. HeldBack(now, to, last, w)
  <2>1. HeldBack(m, to, last, w)
    BY <1>2
  <2>2. w > 0 => 0 <= to - w /\ to <= DICT + DictSize + 1 /\ (n = 0 \/ to <= to \/ to + n <= to - w)
    BY <1>1, <1>2
  <2>3. HeldBack(Copy(m, to, ptr, n), to, last, w)
    BY <1>2, <2>1, <2>2, CopyKeeps
  <2> QED
    BY <1>3, <2>3
<1>6. HeldBack(now, on, next, n)
  <2>1. PICK end \in Int : end = ptr + n
    OBVIOUS
  <2>2. HeldBack(m, end, next, n)
    BY <1>2, <2>1
  <2>3. 0 <= to /\ on <= DICT + DictSize + 1 /\ n \in Int /\ n <= n /\ ptr \in Int
    BY <1>1, <1>2
  <2>4. HeldBack(Copy(m, to, ptr, n), on, next, n)
    BY <1>2, <2>1, <2>2, <2>3, CopyHolds
  <2> QED
    BY <1>3, <2>4
<1>7. PICK all \in Int : all = w + n
  OBVIOUS
<1>8. HeldBack(now, on, next, all)
  <2> on = to + n /\ all <= w + n
    BY <1>2, <1>7
  <2> QED
    BY <1>2, <1>5, <1>6, HeldOn
<1> QED
  BY <1>2, <1>4, <1>7, <1>8

LEMMA SameItself ==
  ASSUME NEW m, NEW lo, NEW hi
  PROVE  SameOutside(m, m, lo, hi)
PROOF
  BY DEF SameOutside

(* Where the history is after n more bytes of text went to the caller, and *)
(* that it still reaches as far back as a match may.                       *)
LEMMA HistoryUpdated ==
  ASSUME FrameInv, d.stage \in Built, f.linked, c.ptr # NULL,
         d.maxBufferSize <= maxBlockSize + 2 * KB64,
         NEW n \in Nat, n <= c.room, NEW m, NEW withinTmp \in BOOLEAN,
         NEW last \in Int, NEW lag \in Nat, NEW left \in Nat,
         withinTmp => /\ d.stage = "flushOut" /\ lag = d.tmpOutSize - d.tmpOutStart
                      /\ n <= lag /\ left = lag - n
                      /\ HeldBack(m, d.tmpOut + d.tmpOutSize, last + lag, d.tmpOutSize)
                      /\ Reach(d.tmpOutSize, last + lag - d.tmpOutSize) <= d.tmpOut - TMP,
         ~withinTmp => lag = 0 /\ left = 0,
         HeldBack(m, c.ptr + n, last + n, c.ptr - c.start + n),
         Reach(lag, last) <= d.dictSize, HeldBack(m, d.dict + d.dictSize, last, Reach(lag, last)),
         InPlace(d.dict, d.dictSize, c.ptr),
         NEW history, history = LZ4F_updateDict(m, n, withinTmp)
  PROVE  /\ Reach(left, last + n) <= history.size
         /\ HeldBack(history.mem, history.dict + history.size, last + n, Reach(left, last + n))
         /\ InPlace(history.dict, history.size, c.ptr + n)
         /\ SameOutside(m, history.mem, TMP, IF withinTmp THEN d.tmpOut ELSE DICT)
PROOF
<1> DEFINE dict == IF d.dictSize = 0 THEN c.ptr ELSE d.dict
           size == d.dictSize
           inDst == c.ptr - c.start + n
           full   == size + n > d.maxBufferSize
           kept   == IF full THEN KB64 - n ELSE size
           joined == Lesser(KB64 - n, size)
           limit == IF withinTmp THEN d.tmpOut ELSE DICT
<1>1. /\ c.ptr \in Int /\ c.start \in Int /\ c.room \in Nat /\ size \in Nat /\ d.dict \in Int
      /\ d.maxBufferSize \in Nat /\ d.tmpOut \in Int /\ d.tmpOutStart \in Nat /\ d.tmpOutSize \in Nat
  BY DEF FrameInv, FrameDecoderTypeOK, CallState, Context
<1>2. /\ 0 <= c.start /\ c.start <= c.ptr /\ c.ptr + n < TMP
      /\ TMP \in Nat /\ DICT \in Nat /\ KB64 \in Nat /\ DictSize \in Nat
      /\ TMP + d.maxBufferSize < DICT /\ 2 * KB64 <= d.maxBufferSize
  <2>1. 0 <= c.start /\ c.start <= c.ptr /\ c.ptr + c.room <= DstSize
    BY DEF FrameInv, InOutput
  <2>2. maxBlockSize + 2 * KB64 <= d.maxBufferSize
    BY DEF FrameInv, Buffers
  <2>3. c.ptr \in Int /\ c.room \in Nat /\ d.maxBufferSize \in Nat
    BY <1>1
  <2>4. c.ptr + n < TMP
    BY <2>1, <2>3, MemoryFacts, FormatFacts
  <2>5. PICK x \in Nat : x = 2 * KB64
    BY FormatFacts
  <2>6. maxBlockSize \in Nat /\ x <= d.maxBufferSize /\ TMP + d.maxBufferSize < DICT
    <3> d.maxBufferSize <= maxBlockSize + x /\ TMP + maxBlockSize + x < DICT
      BY <2>5, MemoryFacts
    <3> QED
      BY <2>2, <2>3, <2>5, MemoryFacts, FormatFacts
  <2> QED
    BY <2>1, <2>4, <2>5, <2>6, MemoryFacts, FormatFacts
<1>3. PICK reach \in Int, next \in Int, all \in Int :
        reach = Reach(lag, last) /\ next = last + n /\ all = Reach(left, next)
  <2> PICK x \in Int : x = last + n
    OBVIOUS
  <2> Reach(lag, last) \in Int /\ Reach(left, x) \in Int
    BY ReachFacts
  <2> QED
    OBVIOUS
<1>4. all <= reach + n /\ all <= KB64
  <2>1. reach = KB64 - lag \/ reach = last + DictSize
    BY <1>3, ReachFacts
  <2>2. all <= KB64 - left /\ all <= next + DictSize
    BY <1>3, ReachFacts
  <2>3. (left = 0 /\ lag = 0) \/ left = lag - n
    OBVIOUS
  <2> QED
    BY <1>2, <1>3, <2>1, <2>2, <2>3
<1>5. PICK w \in Int : w = all - n /\ w <= reach /\ all = w + n
  BY <1>3, <1>4
<1>6. reach <= size /\ dict \in Int /\ (dict = TMP => d.dict = TMP)
  BY <1>1, <1>2, <1>3
<1>7. HeldBack(m, dict + size, last, reach)
  <2>1. CASE size = 0
    BY <1>3, <1>6, <2>1, HeldNone
  <2>2. CASE size # 0
    BY <1>3, <2>2
  <2> QED
    BY <2>1, <2>2
<1>8. InPlace(dict, size, c.ptr) /\ (size = 0 => dict = c.ptr)
  BY DEF InPlace
<1>9. PICK ptr \in Nat, start \in Nat : ptr = c.ptr /\ start = c.start /\ start <= ptr /\ ptr + n < TMP
  BY <1>1, <1>2
<1>10. inDst \in Nat /\ n <= inDst /\ inDst = ptr - start + n /\ HeldBack(m, ptr + n, next, inDst)
  BY <1>3, <1>9
<1>11. HeldBack(m, ptr + n, next, n)
  <2> HIDE DEF inDst
  <2> QED
    BY <1>10, HeldFewer
<1>12. HeldBack(m, dict + size, last, w)
  <2> HIDE DEF dict, size
  <2> QED
    BY <1>3, <1>5, <1>7, HeldFewer
<1>13. CASE dict + size = c.ptr
  <2>1. history.mem = m /\ history.dict = dict /\ history.size = size + n
    BY <1>13 DEF LZ4F_updateDict
  <2>2. 0 <= dict
    <3> HIDE DEF dict, size
    <3>1. size \in Nat /\ dict \in Int /\ dict + size = ptr /\ ptr < TMP /\ TMP < DICT
      BY <1>1, <1>6, <1>9, <1>13, MemoryFacts
    <3>2. dict # TMP /\ dict # DICT
      BY <1>2, <3>1
    <3> QED
      BY <1>8, <1>9, <3>1, <3>2 DEF InPlace
  <2>3. InPlace(dict, size + n, c.ptr + n)
    BY <1>1, <1>6, <1>13, <2>2 DEF InPlace
  <2>4. PICK on \in Int : on = ptr + n
    BY <1>9
  <2> HIDE DEF dict, size, limit
  <2>5. HeldBack(m, ptr, last, w)
    BY <1>9, <1>12, <1>13
  <2>6. HeldBack(m, on, next, all)
    <3> HeldBack(m, on, next, n) /\ all <= w + n /\ ptr \in Int
      BY <1>5, <1>9, <1>11, <2>4
    <3> QED
      BY <1>3, <1>5, <1>9, <2>4, <2>5, HeldOn
  <2>7. dict + (size + n) = on /\ all <= size + n
    BY <1>1, <1>4, <1>6, <1>9, <1>13, <2>4
  <2>8. SameOutside(m, m, TMP, limit)
    BY SameItself
  <2> QED
    BY <1>3, <2>1, <2>3, <2>6, <2>7, <2>8 DEF limit
<1>14. CASE dict + size # c.ptr /\ inDst >= KB64
  <2>1. history.mem = m /\ history.dict = c.start /\ history.size = inDst
    BY <1>14 DEF LZ4F_updateDict
  <2>2. c.start + inDst = ptr + n /\ all <= inDst /\ 0 <= c.start
    BY <1>2, <1>4, <1>9, <1>10, <1>14
  <2>3. InPlace(c.start, inDst, c.ptr + n)
    BY <1>9, <2>2 DEF InPlace
  <2> HIDE DEF inDst, dict, size, limit
  <2>4. HeldBack(m, ptr + n, next, all)
    BY <1>10, <2>2, HeldFewer
  <2>5. SameOutside(m, m, TMP, limit)
    BY SameItself
  <2> QED
    BY <1>3, <2>1, <2>2, <2>3, <2>4, <2>5 DEF limit
<1>15. CASE dict + size # c.ptr /\ ~(inDst >= KB64) /\ withinTmp /\ dict = TMP
  <2>1. history.mem = m /\ history.dict = TMP /\ history.size = size + n
    BY <1>15 DEF LZ4F_updateDict
  <2>2. TMP + size = d.tmpOut + d.tmpOutStart
    BY <1>6, <1>15 DEF FrameInv, Buffers
  <2>3. PICK on \in Int, end \in Int, decoded \in Int, from \in Int :
          on = TMP + (size + n) /\ end = d.tmpOut + d.tmpOutSize /\ decoded = last + lag
          /\ from = TMP + size
    BY <1>1, <1>2
  <2>4. HeldBack(m, end, decoded, d.tmpOutSize)
    BY <1>15, <2>3
  <2> HIDE DEF dict, size, limit
  <2>5. on = end - left /\ next = decoded - left /\ n <= d.tmpOutSize - left
    <3>1. left = lag - n /\ lag = d.tmpOutSize - d.tmpOutStart
      BY <1>15
    <3>2. size \in Nat /\ on = d.tmpOut + d.tmpOutStart + n
      BY <1>1, <1>2, <2>2, <2>3
    <3> QED
      BY <1>1, <1>3, <2>3, <3>1, <3>2
  <2>6. HeldBack(m, on, next, n)
    <3> d.tmpOutSize \in Int /\ n \in Int
      BY <1>1
    <3> QED
      BY <1>3, <2>3, <2>4, <2>5, HeldBefore
  <2>7. HeldBack(m, from, last, w)
    BY <1>12, <1>15, <2>3
  <2>8. HeldBack(m, on, next, all)
    <3> on = from + n /\ next = last + n /\ all <= w + n
      BY <1>1, <1>2, <1>3, <1>5, <2>3
    <3> QED
      BY <1>3, <1>5, <2>3, <2>6, <2>7, HeldOn
  <2>9. SameOutside(m, m, TMP, limit)
    BY SameItself
  <2>10. all <= size + n
    BY <1>1, <1>4, <1>6
  <2>11. InPlace(TMP, size + n, c.ptr + n)
    BY DEF InPlace
  <2> QED
    BY <1>3, <2>1, <2>3, <2>8, <2>9, <2>10, <2>11 DEF limit
<1>16. CASE dict + size # c.ptr /\ ~(inDst >= KB64) /\ withinTmp /\ dict # TMP
  <2> DEFINE now == InFrontOfTmpOut(m, dict, size)
             after == d.tmpOut - TMP + d.tmpOutStart + n
  <2>1. history.mem = now /\ history.dict = TMP /\ history.size = after
    BY <1>16 DEF LZ4F_updateDict
  <2>2. /\ d.stage = "flushOut" /\ lag = d.tmpOutSize - d.tmpOutStart
        /\ n <= lag /\ left = lag - n
        /\ HeldBack(m, d.tmpOut + d.tmpOutSize, last + lag, d.tmpOutSize)
        /\ Reach(d.tmpOutSize, last + lag - d.tmpOutSize) <= d.tmpOut - TMP
    BY <1>16
  <2>3. TMP + after = d.tmpOut + d.tmpOutStart + n
    BY <1>1, <1>2
  <2>4. HeldBack(m, dict + size, last, Reach(lag, last))
    BY <1>3, <1>7
  <2> HIDE DEF dict, size, now, after
  <2>5. /\ SameOutside(m, now, TMP, d.tmpOut)
        /\ HeldBack(now, d.tmpOut + d.tmpOutStart + n, last + n, Reach(lag - n, last + n))
        /\ Reach(lag - n, last + n) <= d.tmpOut - TMP + d.tmpOutStart + n
    <3> size \in Nat /\ dict \in Int
      BY <1>1, <1>6
    <3> QED
      BY <2>2, <2>4, HistoryInFront DEF now
  <2>6. InPlace(TMP, after, c.ptr + n)
    BY DEF InPlace
  <2> QED
    BY <1>16, <2>1, <2>2, <2>3, <2>5, <2>6 DEF after
<1>17. CASE dict + size # c.ptr /\ ~(inDst >= KB64) /\ ~withinTmp /\ dict = TMP
  <2> DEFINE m1 == IF full THEN Copy(m, TMP, TMP + size - kept, kept) ELSE m
             now == Copy(m1, TMP + kept, c.ptr, n)
  <2>1. history.mem = now /\ history.dict = TMP /\ history.size = kept + n
    BY <1>17 DEF LZ4F_updateDict
  <2>2. n < KB64 /\ all <= KB64
    BY <1>2, <1>4, <1>10, <1>17
  <2>3. size <= d.maxBufferSize
    BY <1>6, <1>17 DEF FrameInv, Buffers
  <2>4. kept \in Nat /\ w <= kept /\ TMP + kept + n < DICT
    <3>1. CASE full
      <4>1. kept = KB64 - n
        BY <3>1
      <4> HIDE DEF kept
      <4> QED
        BY <1>1, <1>2, <1>5, <2>2, <4>1
    <3>2. CASE ~full
      <4> kept = size
        BY <3>2
      <4> QED
        BY <1>1, <1>2, <1>5, <1>6, <3>2
    <3> QED
      BY <3>1, <3>2
  <2>5. HeldBack(m1, TMP + kept, last, w) /\ SameOutside(m, m1, TMP, DICT)
    <3>1. CASE full
      <4>1. PICK from \in Int, end \in Int, on \in Int :
              from = TMP + size - kept /\ end = TMP + size /\ end = from + kept /\ on = TMP + kept
        BY <1>1, <1>2, <2>4
      <4>2. m1 = Copy(m, TMP, from, kept)
        BY <3>1, <4>1
      <4>3. HeldBack(m, end, last, w)
        BY <1>12, <1>17, <4>1
      <4>4. 0 <= TMP /\ on <= DICT + DictSize + 1 /\ TMP \in Int /\ TMP <= TMP /\ TMP + kept <= DICT
        BY <1>2, <2>4, <4>1
      <4> HIDE DEF kept, m1, size, dict
      <4>5. HeldBack(Copy(m, TMP, from, kept), on, last, w)
        BY <2>4, <4>1, <4>3, <4>4, CopyHolds
      <4>6. SameOutside(m, Copy(m, TMP, from, kept), TMP, DICT)
        BY <1>2, <2>4, <4>1, <4>4, CopySameOutside
      <4> QED
        BY <4>1, <4>2, <4>5, <4>6
    <3>2. CASE ~full
      <4>1. m1 = m /\ kept = size
        BY <3>2
      <4> HIDE DEF m1, kept, size, dict
      <4>2. SameOutside(m, m, TMP, DICT)
        BY SameItself
      <4> QED
        BY <1>12, <1>17, <4>1, <4>2
    <3> QED
      BY <3>1, <3>2
  <2> HIDE DEF m1, kept, dict, size, full
  <2>6. HeldBack(m1, ptr + n, next, n)
    <3>1. PICK end \in Int : end = ptr + n /\ end < TMP /\ 0 <= end - n
      BY <1>9
    <3>2. end <= DICT + DictSize + 1 /\ end <= TMP /\ TMP \in Int /\ DICT \in Int /\ n \in Int
      BY <1>2, <3>1, MemoryFacts
    <3>3. HeldBack(m, end, next, n)
      BY <1>11, <3>1
    <3> QED
      BY <1>3, <2>5, <3>1, <3>2, <3>3, KeptOutside
  <2>7. SameOutside(m1, now, TMP, DICT) /\ HeldBack(now, TMP + (kept + n), next, w + n)
    <3> now = Copy(m1, TMP + kept, ptr, n) /\ next = last + n
      BY <1>3, <1>9
    <3> HIDE DEF now
    <3> QED
      BY <1>5, <1>9, <2>4, <2>5, <2>6, HistoryJoined
  <2>8. SameOutside(m, now, TMP, DICT)
    BY <1>2, <2>5, <2>7, SameTwice
  <2>9. InPlace(TMP, kept + n, c.ptr + n) /\ all <= kept + n
    BY <1>5, <2>4 DEF InPlace
  <2> HIDE DEF now
  <2> QED
    BY <1>3, <1>5, <1>17, <2>1, <2>7, <2>8, <2>9
<1>18. CASE dict + size # c.ptr /\ ~(inDst >= KB64) /\ ~withinTmp /\ dict # TMP
  <2> DEFINE m1 == Copy(m, TMP, dict + size - joined, joined)
             now == Copy(m1, TMP + joined, c.ptr, n)
  <2>1. history.mem = now /\ history.dict = TMP /\ history.size = joined + n
    BY <1>18 DEF LZ4F_updateDict
  <2>2. n < KB64 /\ all <= KB64
    BY <1>2, <1>4, <1>10, <1>18
  <2>3. joined \in Nat /\ joined <= KB64 - n /\ (joined = KB64 - n \/ joined = size)
    <3>1. PICK x \in Nat, y \in Nat : x = KB64 - n /\ y = size
      <4> KB64 - n \in Nat /\ size \in Nat
        BY <1>1, <1>2, <2>2
      <4> QED
        OBVIOUS
    <3>2. Lesser(x, y) \in Nat /\ Lesser(x, y) <= x /\ (Lesser(x, y) = x \/ Lesser(x, y) = y)
      <4> x \in Int /\ y \in Int
        OBVIOUS
      <4> QED
        BY LesserFacts
    <3> HIDE DEF size
    <3> QED
      BY <3>1, <3>2
  <2> HIDE DEF joined, size, dict
  <2>4. w <= joined /\ TMP + joined + n < DICT
    BY <1>1, <1>2, <1>5, <1>6, <2>2, <2>3
  <2>5. PICK from \in Int, end \in Int, on \in Int :
          from = dict + size - joined /\ end = dict + size /\ end = from + joined /\ on = TMP + joined
    BY <1>1, <1>2, <1>6, <2>3
  <2>6. m1 = Copy(m, TMP, from, joined)
    BY <2>5
  <2>7. HeldBack(m, end, last, w)
    BY <1>12, <2>5
  <2>8. 0 <= TMP /\ on <= DICT + DictSize + 1 /\ TMP \in Int /\ TMP <= TMP /\ TMP + joined <= DICT
    BY <1>2, <2>3, <2>4, <2>5
  <2> HIDE DEF m1
  <2>9. HeldBack(m1, on, last, w)
    BY <2>3, <2>4, <2>5, <2>6, <2>7, <2>8, CopyHolds
  <2>10. SameOutside(m, m1, TMP, DICT)
    BY <1>2, <2>3, <2>5, <2>6, <2>8, CopySameOutside
  <2>11. HeldBack(m1, ptr + n, next, n)
    <3>1. PICK last1 \in Int : last1 = ptr + n /\ last1 < TMP /\ 0 <= last1 - n
      BY <1>9
    <3>2. last1 <= DICT + DictSize + 1 /\ last1 <= TMP /\ TMP \in Int /\ DICT \in Int /\ n \in Int
      BY <1>2, <3>1, MemoryFacts
    <3>3. HeldBack(m, last1, next, n)
      BY <1>11, <3>1
    <3> QED
      BY <1>3, <2>10, <3>1, <3>2, <3>3, KeptOutside
  <2>12. SameOutside(m1, now, TMP, DICT) /\ HeldBack(now, TMP + (joined + n), next, w + n)
    <3> now = Copy(m1, TMP + joined, ptr, n) /\ next = last + n /\ HeldBack(m1, TMP + joined, last, w)
      BY <1>3, <1>9, <2>5, <2>9
    <3> HIDE DEF now
    <3>1. joined \in Nat /\ w <= joined /\ TMP + joined + n < DICT /\ ptr + n < TMP
      BY <1>9, <2>3, <2>4
    <3>2. HeldBack(m1, ptr + n, last + n, n)
      BY <2>11
    <3>3. SameOutside(m1, now, TMP, DICT) /\ HeldBack(now, TMP + (joined + n), last + n, w + n)
      BY <1>5, <1>9, <3>1, <3>2, HistoryJoined
    <3> QED
      BY <3>3
  <2>13. SameOutside(m, now, TMP, DICT)
    BY <1>2, <2>10, <2>12, SameTwice
  <2>14. InPlace(TMP, joined + n, c.ptr + n) /\ all <= joined + n
    BY <1>5, <2>3, <2>4 DEF InPlace
  <2> HIDE DEF now
  <2> QED
    BY <1>3, <1>5, <1>18, <2>1, <2>12, <2>13, <2>14
<1> HIDE DEF dict, size, inDst
<1> QED
  BY <1>13, <1>14, <1>15, <1>16, <1>17, <1>18

-----------------------------------------------------------------------------
(* How much of a frame's text the first k blocks hold.                     *)
TextUpTo == CHOOSE at \in [0 .. Len(f.blocks) -> 0 .. f.size] : InBlocksUpTo(f, at)

(* Text that is decoded and not handed out yet.                            *)
Lag == IF d.stage = "flushOut" THEN d.tmpOutSize - d.tmpOutStart ELSE 0

Counting == Built \cup { "init", "getSuffix", "storeSuffix" }

(* What is counted along a frame: the text so far is the one of the blocks *)
(* so far, and what is left of the announced size is right.                *)
CountsRight ==
  /\ d.stage \in HeaderStages => d.remaining = 0 /\ t.decoded = 0 /\ t.delivered = 0
  /\ d.stage \in Counting =>
       /\ ~f.skippable
       /\ d.remaining = (IF f.sized THEN f.size - t.decoded ELSE 0)
       /\ t.decoded = t.delivered + Lag
       /\ d.stage # "init" => d.xxh = t.decoded

CountsBlocks ==
  /\ d.stage \in { "init", "getBlockHeader", "storeBlockHeader", "getBlockChecksum", "flushOut" }
       => t.decoded = TextUpTo[t.block]
  /\ d.stage \in { "getCBlock", "storeCBlock" } => t.decoded = TextUpTo[t.block - 1]
  /\ d.stage = "copyDirect" =>
       b.raw /\ t.decoded = TextUpTo[t.block - 1] + (b.csize - d.target)
  /\ d.stage \in { "getSuffix", "storeSuffix" } =>
       t.block = Len(f.blocks) + 1 /\ t.decoded = f.size

(* The dictionary stays where it is; a frame begins with no other history, *)
(* and one whose blocks are not linked keeps it.                           *)
DictionaryKept == HeldBack(mem, DICT + DictSize, 0, DictSize)
AtDictionary ==
  /\ DictSize = 0 => d.dictSize = 0
  /\ DictSize > 0 => d.dict = DICT /\ d.dictSize = DictSize
HistoryBegins ==
  d.stage \in { "getFrameHeader", "storeFrameHeader", "init" } =>
    /\ DictSize = 0 => d.dictSize = 0
    /\ phase = "loop" => AtDictionary

(* Between calls nothing is kept in a buffer that the caller may overwrite. *)
Filled == IF phase = "idle" /\ ~StableDst THEN NULL ELSE c.ptr
HistoryKept ==
  /\ d.stage \in Built /\ f.linked =>
       /\ Reach(Lag, t.delivered) <= d.dictSize
       /\ HeldBack(mem, d.dict + d.dictSize, t.delivered, Reach(Lag, t.delivered))
       /\ InPlace(d.dict, d.dictSize, Filled)
  /\ d.stage \in Built /\ ~f.linked => AtDictionary

(* A block that is handed out in parts, and room for the history before it. *)
BlockInTmpOut ==
  d.stage = "flushOut" =>
    /\ HeldBack(mem, d.tmpOut + d.tmpOutSize, t.decoded, d.tmpOutSize)
    /\ f.linked => Reach(d.tmpOutSize, t.decoded - d.tmpOutSize) <= d.tmpOut - TMP

HandedOut ==
  (phase = "loop" \/ (phase = "leave" /\ d.stage # "getFrameHeader")) /\ c.ptr # NULL =>
    HeldBack(mem, c.ptr, t.delivered, c.ptr - c.start)

(* Of a frame that may be given up no announced size is left behind.       *)
ResetsLeaveNothing ==
  /\ resets \in Nat
  /\ MaxResets = 0 \/ \A i \in 1 .. Len(stream) - 1 : ~stream[i].sized

TextInv ==
  /\ phase # "error"
  /\ d.maxBufferSize <= maxBlockSize + 2 * KB64
  /\ CountsRight /\ CountsBlocks
  /\ DictionaryKept /\ HistoryBegins /\ HistoryKept
  /\ BlockInTmpOut /\ HandedOut
  /\ ResetsLeaveNothing

(* What holds after n more bytes of the text went to the caller and left   *)
(* are decoded and not handed out.                                         *)
TextGrows(n, left) ==
    /\ f.linked =>
         /\ Reach(left, t.delivered + n) <= d'.dictSize
         /\ HeldBack(mem', d'.dict + d'.dictSize, t.delivered + n, Reach(left, t.delivered + n))
         /\ InPlace(d'.dict, d'.dictSize, c.ptr + n)
    /\ ~f.linked => d'.dict = d.dict /\ d'.dictSize = d.dictSize
    /\ c.ptr # NULL => HeldBack(mem', c.ptr + n, t.delivered + n, c.ptr + n - c.start)
    /\ DictionaryKept'
    /\ d.stage = "flushOut" => HeldBack(mem', d.tmpOut + d.tmpOutSize, t.decoded, d.tmpOutSize)

(* Where the history lies, for a call with a buffer.                       *)
LEMMA HistoryApart ==
  ASSUME FrameInv, NEW dict \in Int, NEW size \in Nat, NEW ptr \in Int, ptr < TMP,
         d.maxBufferSize <= maxBlockSize + 2 * KB64, dict = TMP => size <= d.maxBufferSize,
         InPlace(dict, size, ptr), NEW reach \in Int, reach <= size, reach > 0
  PROVE  /\ 0 <= dict + size - reach /\ dict + size < DICT + DictSize + 1
         /\ dict + size <= ptr \/ TMP <= dict + size - reach
         /\ dict # TMP => dict + size <= ptr \/ DICT <= dict + size - reach
PROOF
<1>1. /\ TMP \in Nat /\ DICT \in Nat /\ TMP < DICT /\ DictSize \in Nat
      /\ TMP + maxBlockSize + 2 * KB64 < DICT /\ maxBlockSize \in Nat /\ KB64 \in Nat
  BY MemoryFacts, FormatFacts
<1>2. d.maxBufferSize \in Nat
  BY DEF FrameInv, FrameDecoderTypeOK, Context
<1>3. CASE dict = TMP
  <2>1. TMP + size < DICT
    BY <1>1, <1>2, <1>3
  <2> QED
    BY <1>1, <1>3, <2>1
<1>4. CASE dict = DICT /\ size = DictSize
  BY <1>1, <1>4
<1>5. CASE 0 <= dict /\ dict + size <= ptr
  BY <1>1, <1>5
<1> QED
  BY <1>3, <1>4, <1>5 DEF InPlace

LEMMA BufferBelow ==
  ASSUME FrameInv, d.maxBufferSize <= maxBlockSize + 2 * KB64
  PROVE  d.maxBufferSize \in Nat /\ TMP \in Nat /\ DICT \in Nat /\ TMP + d.maxBufferSize < DICT
PROOF
<1>1. PICK size \in Nat, x \in Nat, y \in Nat : size = d.maxBufferSize /\ x = maxBlockSize /\ y = 2 * KB64
  BY FormatFacts DEF FrameInv, FrameDecoderTypeOK, Context
<1>2. size <= x + y /\ TMP + x + y < DICT /\ TMP \in Nat /\ DICT \in Nat
  BY <1>1, MemoryFacts
<1> QED
  BY <1>1, <1>2

LEMMA TextDelivered ==
  ASSUME FrameInv, TextInv, phase = "loop", d.stage \in Built, c.ptr # NULL,
         NEW n \in Nat, n <= c.room, NEW left \in Nat, NEW withinTmp \in BOOLEAN,
         withinTmp => d.stage = "flushOut" /\ n <= Lag /\ left = Lag - n,
         ~withinTmp => d.stage # "flushOut" /\ left = 0,
         NEW s, s = Bytes(t.delivered, n), NEW after \in Context, Deliver(mem, s, withinTmp, after)
  PROVE  TextGrows(n, left)
PROOF
<1> DEFINE written == Put(mem, c.ptr, s)
<1>1. PICK ptr \in Nat, start \in Nat, last \in Nat, dict \in Int, size \in Nat :
        /\ ptr = c.ptr /\ start = c.start /\ last = t.delivered /\ start <= ptr /\ ptr + n < TMP
        /\ dict = d.dict /\ size = d.dictSize
  <2>1. /\ c.ptr \in Int /\ c.start \in Int /\ c.room \in Nat /\ t.delivered \in Nat
        /\ d.dict \in Int /\ d.dictSize \in Nat
    BY DEF FrameInv, FrameDecoderTypeOK, CallState, Context, TextState
  <2>2. 0 <= c.start /\ c.start <= c.ptr /\ c.ptr + c.room <= DstSize
    BY DEF FrameInv, InOutput
  <2>3. DstSize \in Nat /\ TMP = DstSize + 1
    BY MemoryFacts, FormatFacts
  <2>4. c.ptr + n < TMP /\ c.ptr \in Nat /\ c.start \in Nat
    BY <2>1, <2>2, <2>3
  <2> QED
    BY <2>1, <2>2, <2>4
<1>2. PICK out \in Int, outSize \in Nat, lag \in Nat, reach \in Int :
        /\ out = d.tmpOut /\ outSize = d.tmpOutSize /\ lag = Lag
        /\ TMP <= out /\ out + outSize < DICT
        /\ reach = Reach(lag, last)
        /\ d.stage = "flushOut" => lag = d.tmpOutSize - d.tmpOutStart
        /\ d.stage # "flushOut" => lag = 0
        /\ d.dict = TMP => size <= d.maxBufferSize
        /\ d.maxBufferSize <= maxBlockSize + 2 * KB64
  <2>1. d.tmpOut \in Int /\ d.tmpOutSize \in Nat /\ d.tmpOutStart \in Nat /\ d.maxBufferSize \in Nat
    BY DEF FrameInv, FrameDecoderTypeOK, Context
  <2>2. /\ TMP <= d.tmpOut /\ d.tmpOut + d.tmpOutSize <= TMP + d.maxBufferSize
        /\ d.stage = "flushOut" => d.tmpOutStart <= d.tmpOutSize
        /\ d.dict = TMP => d.dictSize <= d.maxBufferSize
    BY DEF FrameInv, Buffers
  <2>3. d.maxBufferSize <= maxBlockSize + 2 * KB64
    BY DEF TextInv
  <2>4. d.tmpOut + d.tmpOutSize < DICT
    BY <2>1, <2>2, <2>3, BufferBelow
  <2>5. Lag \in Nat
    BY <2>1, <2>2 DEF Lag
  <2>6. PICK l \in Nat : l = Lag
    BY <2>5
  <2>7. Reach(l, last) \in Int
    <3> l \in Int /\ last \in Int
      OBVIOUS
    <3> QED
      BY ReachFacts
  <2> QED
    BY <1>1, <2>1, <2>2, <2>3, <2>4, <2>6, <2>7 DEF Lag
<1>3. TMP \in Nat /\ DICT \in Nat /\ TMP < DICT /\ DictSize \in Nat
  BY MemoryFacts, FormatFacts
<1>4. PICK on \in Int, next \in Int, all \in Int, sent \in Nat :
        on = ptr + n /\ next = last + n /\ sent = ptr - start /\ all = ptr + n - start
        /\ all = sent + n
  BY <1>1
<1>5. Len(s) = n /\ written = Put(mem, ptr, Bytes(last, n))
  <2>1. s = Bytes(last, n) /\ last \in Int
    BY <1>1
  <2>2. Len(s) = n
    BY <2>1, BytesFacts
  <2> QED
    BY <1>1, <2>1, <2>2
<1> HIDE DEF written
<1>6. HeldBack(written, on, next, n)
  <2> ptr + n <= DICT + DictSize + 1
    BY <1>1, <1>3
  <2>1. HeldBack(Put(mem, ptr, Bytes(last, n)), ptr + n, last + n, n)
    BY PutHolds
  <2> QED
    BY <1>4, <1>5, <2>1
<1>7. \A end \in Int, l \in Int, k \in Int :
        /\ HeldBack(mem, end, l, k)
        /\ k > 0 => 0 <= end - k /\ end <= DICT + DictSize + 1 /\ (end <= ptr \/ TMP <= end - k)
        => HeldBack(written, end, l, k)
  <2> SUFFICES ASSUME NEW end \in Int, NEW l \in Int, NEW k \in Int, HeldBack(mem, end, l, k),
                      k > 0 => 0 <= end - k /\ end <= DICT + DictSize + 1
                               /\ (end <= ptr \/ TMP <= end - k)
               PROVE  HeldBack(written, end, l, k)
    OBVIOUS
  <2>1. k > 0 => 0 <= end - k /\ end <= DICT + DictSize + 1
                 /\ (n = 0 \/ end <= ptr \/ ptr + n <= end - k)
    BY <1>1, <1>3
  <2>2. Len(Bytes(last, n)) = n /\ ptr \in Int
    BY BytesFacts
  <2>3. HeldBack(Put(mem, ptr, Bytes(last, n)), end, l, k)
    BY <2>1, <2>2, PutKeeps
  <2> QED
    BY <1>5, <2>3
<1>8. HeldBack(written, on, next, all)
  <2>1. HeldBack(mem, ptr, last, sent)
    BY <1>1, <1>4 DEF TextInv, HandedOut
  <2>2. HeldBack(written, ptr, last, sent)
    <3>1. ptr \in Int /\ last \in Int /\ sent \in Int /\ 0 <= ptr - sent /\ ptr <= DICT + DictSize + 1
      BY <1>1, <1>3, <1>4
    <3> QED
      BY <1>7, <2>1, <3>1
  <2>3. ptr \in Int /\ last \in Int /\ sent \in Int /\ all <= sent + n
    BY <1>4
  <2> QED
    BY <1>4, <1>6, <2>2, <2>3, HeldOn
<1>9. HeldBack(written, DICT + DictSize, 0, DictSize)
  <2>1. PICK end \in Int, zero \in Int : end = DICT + DictSize /\ zero = 0
    BY <1>3
  <2>2. HeldBack(mem, end, zero, DictSize)
    BY <2>1 DEF TextInv, DictionaryKept
  <2>3. 0 <= end - DictSize /\ end <= DICT + DictSize + 1 /\ TMP <= end - DictSize /\ DictSize \in Int
    BY <1>3, <2>1
  <2>4. HeldBack(written, end, zero, DictSize)
    BY <1>7, <2>2, <2>3
  <2> QED
    BY <2>1, <2>4
<1>10. PICK end \in Int, decoded \in Int : end = out + outSize /\ decoded = t.decoded /\ decoded = last + lag
  <2>1. t.decoded \in Nat
    BY DEF FrameInv, FrameDecoderTypeOK, TextState
  <2>2. t.decoded = t.delivered + Lag
    BY DEF TextInv, CountsRight, Counting
  <2>3. PICK x \in Int : x = out + outSize
    OBVIOUS
  <2> QED
    BY <1>1, <1>2, <2>1, <2>2, <2>3
<1>11. d.stage = "flushOut" => HeldBack(written, end, decoded, outSize)
  <2> SUFFICES ASSUME d.stage = "flushOut"
               PROVE  HeldBack(written, end, decoded, outSize)
    OBVIOUS
  <2>1. HeldBack(mem, end, decoded, outSize)
    BY <1>2, <1>10 DEF TextInv, BlockInTmpOut
  <2>2. 0 <= end - outSize /\ end <= DICT + DictSize + 1 /\ TMP <= end - outSize /\ outSize \in Int
    BY <1>2, <1>3, <1>10
  <2> QED
    BY <1>7, <2>1, <2>2
<1>12. CASE ~f.linked
  <2>1. mem' = written /\ d'.dict = dict /\ d'.dictSize = size
    BY <1>1, <1>12 DEF Deliver, written, Context
  <2>2. DictionaryKept'
    BY <1>9, <2>1 DEF DictionaryKept
  <2>3. HeldBack(mem', c.ptr + n, t.delivered + n, c.ptr + n - c.start)
    BY <1>1, <1>4, <1>8, <2>1
  <2>4. d.stage = "flushOut" => HeldBack(mem', d.tmpOut + d.tmpOutSize, t.decoded, d.tmpOutSize)
    BY <1>2, <1>10, <1>11, <2>1
  <2> QED
    BY <1>1, <1>12, <2>1, <2>2, <2>3, <2>4 DEF TextGrows
<1>13. CASE f.linked
  <2> DEFINE history == LZ4F_updateDict(written, n, withinTmp)
  <2>1. mem' = history.mem /\ d'.dict = history.dict /\ d'.dictSize = history.size
    BY <1>5, <1>13 DEF Deliver, written, Context
  <2>2. history.dict \in Int /\ history.size \in Nat
    <3> withinTmp => d.tmpOutStart + n <= d.tmpOutSize
      <4>1. d.tmpOutSize \in Nat /\ d.tmpOutStart \in Nat
        BY DEF FrameInv, FrameDecoderTypeOK, Context
      <4> QED
        BY <1>2, <4>1
    <3> QED
      BY <1>13, HistoryFacts
  <2>3. reach <= size /\ HeldBack(mem, dict + size, last, reach) /\ InPlace(dict, size, ptr)
    <3>1. /\ Reach(Lag, t.delivered) <= d.dictSize
          /\ HeldBack(mem, d.dict + d.dictSize, t.delivered, Reach(Lag, t.delivered))
          /\ InPlace(d.dict, d.dictSize, Filled)
      BY <1>13 DEF TextInv, HistoryKept
    <3>2. Filled = c.ptr
      BY DEF Filled
    <3> QED
      BY <1>1, <1>2, <3>1, <3>2
  <2>4. HeldBack(written, dict + size, last, reach)
    <3>1. PICK e \in Int : e = dict + size
      OBVIOUS
    <3>2. reach > 0 => 0 <= e - reach /\ e <= DICT + DictSize + 1 /\ (e <= ptr \/ TMP <= e - reach)
      <4> SUFFICES ASSUME reach > 0
                   PROVE  0 <= e - reach /\ e <= DICT + DictSize + 1 /\ (e <= ptr \/ TMP <= e - reach)
        OBVIOUS
      <4>1. ptr \in Int /\ ptr < TMP /\ (dict = TMP => size <= d.maxBufferSize)
        BY <1>1, <1>2, <1>3
      <4>2. 0 <= dict + size - reach /\ dict + size < DICT + DictSize + 1
            /\ (dict + size <= ptr \/ TMP <= dict + size - reach)
        BY <1>2, <2>3, <4>1, HistoryApart
      <4> QED
        BY <1>3, <3>1, <4>2
    <3>3. HeldBack(mem, e, last, reach) /\ last \in Int
      BY <2>3, <3>1
    <3> QED
      BY <1>7, <3>1, <3>2, <3>3
  <2>5. /\ Reach(left, last + n) <= history.size
        /\ HeldBack(history.mem, history.dict + history.size, last + n, Reach(left, last + n))
        /\ InPlace(history.dict, history.size, c.ptr + n)
        /\ SameOutside(written, history.mem, TMP, IF withinTmp THEN d.tmpOut ELSE DICT)
    <3>1. withinTmp => /\ d.stage = "flushOut" /\ lag = d.tmpOutSize - d.tmpOutStart
                       /\ n <= lag /\ left = lag - n
      BY <1>2
    <3>2. withinTmp => HeldBack(written, d.tmpOut + d.tmpOutSize, last + lag, d.tmpOutSize)
      BY <1>2, <1>10, <1>11
    <3>3. withinTmp => Reach(d.tmpOutSize, last + lag - d.tmpOutSize) <= d.tmpOut - TMP
      <4>1. d.stage = "flushOut" => Reach(d.tmpOutSize, t.decoded - d.tmpOutSize) <= d.tmpOut - TMP
        BY <1>13 DEF TextInv, BlockInTmpOut
      <4>2. last + lag - d.tmpOutSize = t.decoded - d.tmpOutSize
        BY <1>2, <1>10
      <4> QED
        BY <4>1, <4>2
    <3>4. ~withinTmp => lag = 0 /\ left = 0
      BY <1>2
    <3>5. HeldBack(written, c.ptr + n, last + n, c.ptr - c.start + n)
      <4> c.ptr - c.start + n = all /\ c.ptr + n = on /\ last + n = next
        BY <1>1, <1>4
      <4> QED
        BY <1>8
    <3>6. /\ Reach(lag, last) <= d.dictSize
          /\ HeldBack(written, d.dict + d.dictSize, last, Reach(lag, last))
          /\ InPlace(d.dict, d.dictSize, c.ptr)
      BY <1>1, <1>2, <2>3, <2>4
    <3>7. last \in Int /\ d.maxBufferSize <= maxBlockSize + 2 * KB64
      BY <1>2
    <3> QED
      BY <1>13, <3>1, <3>2, <3>3, <3>4, <3>5, <3>6, <3>7, HistoryUpdated
  <2> HIDE DEF history
  <2>6. PICK limit \in Int : limit = (IF withinTmp THEN d.tmpOut ELSE DICT) /\ limit <= DICT
                             /\ (withinTmp => limit = out)
    BY <1>2, <1>3
  <2>7. SameOutside(written, mem', TMP, limit)
    BY <2>1, <2>5, <2>6
  <2>8. DictionaryKept'
    <3>1. PICK e \in Int, zero \in Int : e = DICT + DictSize /\ zero = 0
      BY <1>3
    <3>2. 0 <= e - DictSize /\ e <= DICT + DictSize + 1 /\ limit <= e - DictSize /\ DictSize \in Int
          /\ TMP \in Int
      BY <1>3, <2>6, <3>1
    <3>3. HeldBack(written, e, zero, DictSize)
      BY <1>9, <3>1
    <3>4. HeldBack(mem', e, zero, DictSize)
      BY <2>7, <3>2, <3>3, KeptOutside
    <3> QED
      BY <3>1, <3>4 DEF DictionaryKept
  <2>9. HeldBack(mem', on, next, all)
    <3>1. 0 <= on - all /\ on <= DICT + DictSize + 1 /\ on <= TMP /\ TMP \in Int
      BY <1>1, <1>3, <1>4
    <3> QED
      BY <1>4, <1>8, <2>6, <2>7, <3>1, KeptOutside
  <2>10. d.stage = "flushOut" => HeldBack(mem', end, decoded, outSize)
    <3> SUFFICES ASSUME d.stage = "flushOut"
                 PROVE  HeldBack(mem', end, decoded, outSize)
      OBVIOUS
    <3>1. limit = out
      BY <2>6
    <3>2. 0 <= end - outSize /\ end <= DICT + DictSize + 1 /\ limit <= end - outSize /\ outSize \in Int
          /\ TMP \in Int
      BY <1>2, <1>3, <1>10, <3>1
    <3> QED
      BY <1>11, <2>7, <3>2, KeptOutside
  <2>12. /\ Reach(left, t.delivered + n) <= d'.dictSize
         /\ HeldBack(mem', d'.dict + d'.dictSize, t.delivered + n, Reach(left, t.delivered + n))
         /\ InPlace(d'.dict, d'.dictSize, c.ptr + n)
    BY <1>1, <2>1, <2>5
  <2>13. HeldBack(mem', c.ptr + n, t.delivered + n, c.ptr + n - c.start)
    BY <1>1, <1>4, <2>9
  <2>14. d.stage = "flushOut" => HeldBack(mem', d.tmpOut + d.tmpOutSize, t.decoded, d.tmpOutSize)
    BY <1>2, <1>10, <2>10
  <2> QED
    BY <1>13, <2>8, <2>12, <2>13, <2>14 DEF TextGrows
<1> QED
  BY <1>12, <1>13

-----------------------------------------------------------------------------
(* A block is decoded with the history it needs.                           *)
LEMMA HistoryHeld ==
  ASSUME NEW m, NEW dict \in Int, NEW size \in Nat, NEW to \in Int, NEW first \in Int, b.size \in Nat,
         f.linked => first = t.decoded, ~f.linked => first = 0, first + DictSize \in Nat,
         NEW need \in Int, need = Reach(0, first), need <= size, HeldBack(m, dict + size, first, need),
         need > 0 => dict + size <= to \/ to + b.size <= dict + size - need
  PROVE  Decoded(m, dict, size, to) = Bytes(t.decoded, b.size)
PROOF
<1>1. KB64 \in Nat /\ DictSize \in Nat
  BY FormatFacts
<1>2. need = Lesser(KB64, first + DictSize) /\ need \in Nat
  <2>1. KB64 - 0 = KB64
    BY <1>1
  <2>2. need = Lesser(KB64, first + DictSize)
    BY <2>1 DEF Reach
  <2>3. PICK x \in Nat, y \in Nat : x = KB64 /\ y = first + DictSize
    BY <1>1
  <2>4. x \in Int /\ y \in Int
    OBVIOUS
  <2>5. Lesser(x, y) \in Nat
    BY <2>4, LesserFacts
  <2> QED
    BY <2>2, <2>3, <2>5
<1>3. (IF f.linked THEN t.decoded ELSE 0) = first
  OBVIOUS
<1>4. PICK from \in Int : from = dict + size - need
  BY <1>2
<1>5. \A k \in 0 .. need - 1 : m[from + k] = first - need + k
  <2> SUFFICES ASSUME NEW k \in 0 .. need - 1
               PROVE  m[from + k] = first - need + k
    OBVIOUS
  <2>1. PICK j \in Int : j = need - k
    BY <1>2
  <2>2. j \in 1 .. need /\ dict + size - j = from + k /\ first - j = first - need + k
    BY <1>2, <1>4, <2>1
  <2> QED
    BY <2>2 DEF HeldBack
<1>6. need = 0 \/ from + need <= to \/ to + b.size <= from
  BY <1>2, <1>4
<1>7. HistoryAt(m, dict, size, to)
  BY <1>2, <1>3, <1>4, <1>5, <1>6 DEF HistoryAt
<1> QED
  BY <1>7 DEF Decoded

OfBlocks == { "getCBlock", "storeCBlock" }

LEMMA HistoryReady ==
  ASSUME FrameInv, TextInv, phase = "loop", d.stage \in OfBlocks
  PROVE  \E first \in Int :
           /\ f.linked => first = t.decoded
           /\ ~f.linked => first = 0
           /\ first + DictSize \in Nat
           /\ Reach(0, first) <= d.dictSize
           /\ HeldBack(mem, d.dict + d.dictSize, first, Reach(0, first))
           /\ InPlace(d.dict, d.dictSize, c.ptr)
PROOF
<1>1. d.stage \in Built /\ d.stage # "flushOut" /\ Filled = c.ptr
  BY DEF OfBlocks, Built, InBlocks, Filled
<1>2. t.decoded \in Nat /\ t.delivered \in Nat /\ DictSize \in Nat /\ KB64 \in Nat
  BY FormatFacts DEF FrameInv, FrameDecoderTypeOK, TextState
<1>3. Lag = 0 /\ t.decoded = t.delivered
  <2>1. Lag = 0
    BY <1>1 DEF Lag
  <2>2. t.decoded = t.delivered + Lag
    BY <1>1 DEF TextInv, CountsRight, Counting
  <2> QED
    BY <1>2, <2>1, <2>2
<1>4. CASE f.linked
  <2>1. /\ Reach(Lag, t.delivered) <= d.dictSize
        /\ HeldBack(mem, d.dict + d.dictSize, t.delivered, Reach(Lag, t.delivered))
        /\ InPlace(d.dict, d.dictSize, Filled)
    BY <1>1, <1>4 DEF TextInv, HistoryKept
  <2>2. Reach(0, t.decoded) <= d.dictSize /\ HeldBack(mem, d.dict + d.dictSize, t.decoded, Reach(0, t.decoded))
    BY <1>3, <2>1
  <2> QED
    BY <1>1, <1>2, <1>4, <2>1, <2>2
<1>5. CASE ~f.linked
  <2>1. PICK zero \in Int, need \in Int : zero = 0 /\ need = Reach(0, zero) /\ need <= DictSize
    <3>1. PICK z \in Int : z = 0
      OBVIOUS
    <3>2. Reach(z, z) \in Int /\ Reach(z, z) <= z + DictSize
      BY ReachFacts
    <3> QED
      BY <1>2, <3>1, <3>2
  <2>2. AtDictionary /\ DictionaryKept
    BY <1>1, <1>5 DEF TextInv, HistoryKept
  <2>3. HeldBack(mem, DICT + DictSize, zero, need)
    <3> HeldBack(mem, DICT + DictSize, zero, DictSize)
      BY <2>1, <2>2 DEF DictionaryKept
    <3> QED
      BY <1>2, <2>1, HeldFewer
  <2>4. need <= d.dictSize /\ HeldBack(mem, d.dict + d.dictSize, zero, need) /\ InPlace(d.dict, d.dictSize, c.ptr)
    <3>1. CASE DictSize = 0
      <4>1. d.dictSize = 0 /\ need <= 0
        BY <2>1, <2>2, <3>1 DEF AtDictionary
      <4> QED
        BY <2>1, <4>1, HeldNone DEF InPlace
    <3>2. CASE DictSize > 0
      <4>1. d.dict = DICT /\ d.dictSize = DictSize
        BY <2>2, <3>2 DEF AtDictionary
      <4> QED
        BY <2>1, <2>3, <4>1 DEF InPlace
    <3> QED
      BY <1>2, <3>1, <3>2
  <2>5. zero + DictSize \in Nat
    BY <1>2, <2>1
  <2> QED
    BY <1>5, <2>1, <2>4, <2>5
<1> QED
  BY <1>4, <1>5

LEMMA BlockInHand ==
  ASSUME FrameInv, d.stage \in OfBlocks
  PROVE  /\ b.size \in Nat /\ b.size <= maxBlockSize /\ b.csize \in Nat /\ t.decoded \in Nat
         /\ t.delivered \in Nat /\ t.block \in Nat /\ t.block > 0 /\ t.block <= Len(f.blocks)
PROOF
<1>1. /\ stream \in Seq(IntactFrame) /\ t \in TextState
  BY DEF FrameInv, FrameDecoderTypeOK
<1>2. stream # << >> /\ t.block > 0 /\ t.block <= Len(f.blocks)
  BY DEF FrameInv, TargetsFit, OfBlocks, OfBlock, Built, InBlocks
<1>3. t.block \in Nat /\ t.decoded \in Nat /\ t.delivered \in Nat
  BY <1>1 DEF TextState
<1> QED
  BY <1>1, <1>2, <1>3, BlockFacts DEF b

LEMMA DecodedDirect ==
  ASSUME FrameInv, TextInv, phase = "loop", d.stage \in OfBlocks, c.room >= maxBlockSize
  PROVE  Decoded(mem, d.dict, d.dictSize, c.ptr) = Bytes(t.decoded, b.size)
PROOF
<1>1. PICK first \in Int :
         /\ f.linked => first = t.decoded
         /\ ~f.linked => first = 0
         /\ first + DictSize \in Nat
         /\ Reach(0, first) <= d.dictSize
         /\ HeldBack(mem, d.dict + d.dictSize, first, Reach(0, first))
         /\ InPlace(d.dict, d.dictSize, c.ptr)
  BY HistoryReady
<1>2. b.size \in Nat /\ b.size <= maxBlockSize
  BY BlockInHand
<1>3. PICK need \in Int : need = Reach(0, first)
  <2>1. PICK zero \in Int : zero = 0
    OBVIOUS
  <2>2. Reach(zero, first) \in Int
    BY ReachFacts
  <2> QED
    BY <2>1, <2>2
<1>4. d.dict \in Int /\ d.dictSize \in Nat /\ c.ptr \in Int /\ c.room \in Nat
  BY DEF FrameInv, FrameDecoderTypeOK, CallState, Context
<1>5. c.ptr + b.size < TMP /\ c.ptr < TMP /\ TMP \in Nat
  <2>1. c.ptr + c.room <= DstSize
    <3> c.ptr # NULL
      <4> c.room > 0 /\ maxBlockSize \in Nat
        BY <1>4, FormatFacts
      <4> QED
        BY DEF FrameInv, InOutput
    <3> QED
      BY DEF FrameInv, InOutput
  <2>2. DstSize \in Nat /\ TMP = DstSize + 1 /\ maxBlockSize \in Nat
    BY MemoryFacts, FormatFacts
  <2> QED
    BY <1>2, <1>4, <2>1, <2>2
<1>6. need > 0 => d.dict + d.dictSize <= c.ptr \/ c.ptr + b.size <= d.dict + d.dictSize - need
  <2> SUFFICES ASSUME need > 0
               PROVE  d.dict + d.dictSize <= c.ptr \/ c.ptr + b.size <= d.dict + d.dictSize - need
    OBVIOUS
  <2>1. d.maxBufferSize <= maxBlockSize + 2 * KB64 /\ (d.dict = TMP => d.dictSize <= d.maxBufferSize)
    BY DEF TextInv, FrameInv, Buffers
  <2>2. need <= d.dictSize
    BY <1>1, <1>3
  <2>3. d.dict + d.dictSize <= c.ptr \/ TMP <= d.dict + d.dictSize - need
    BY <1>1, <1>4, <1>5, <2>1, <2>2, HistoryApart
  <2> QED
    BY <1>2, <1>4, <1>5, <2>3
<1> QED
  BY <1>1, <1>2, <1>3, <1>4, <1>6, HistoryHeld

(* Where a block goes that the caller has no room for, the history before  *)
(* it is not overwritten.                                                  *)
LEMMA TmpOutBehindHistory ==
  ASSUME FrameInv, TextInv, phase = "loop", d.stage \in OfBlocks, c.ptr < TMP,
         NEW first \in Int, NEW need \in Int, need = Reach(0, first), need <= d.dictSize,
         HeldBack(mem, d.dict + d.dictSize, first, need), InPlace(d.dict, d.dictSize, c.ptr)
  PROVE  /\ SameOutside(mem, TmpOut.m, TMP, DICT)
         /\ need <= TmpOut.dictSize
         /\ HeldBack(TmpOut.m, d.dict + TmpOut.dictSize, first, need)
         /\ InPlace(d.dict, TmpOut.dictSize, c.ptr)
         /\ f.linked => need <= TmpOut.at - TMP
         /\ need > 0 => d.dict + TmpOut.dictSize <= TmpOut.at
                        \/ TmpOut.at + maxBlockSize <= d.dict + TmpOut.dictSize - need
PROOF
<1>1. /\ d.dict \in Int /\ d.dictSize \in Nat /\ c.ptr \in Int /\ d.stage \in Built
  BY DEF FrameInv, FrameDecoderTypeOK, CallState, Context, OfBlocks, Built, InBlocks
<1>2. /\ TMP \in Nat /\ DICT \in Nat /\ TMP < DICT /\ KB64 \in Nat /\ maxBlockSize \in Nat /\ DictSize \in Nat
      /\ TMP + d.maxBufferSize < DICT /\ d.maxBufferSize \in Nat
      /\ d.maxBufferSize <= maxBlockSize + 2 * KB64
      /\ d.dict = TMP => d.dictSize <= d.maxBufferSize
  <2>1. d.maxBufferSize <= maxBlockSize + 2 * KB64 /\ (d.dict = TMP => d.dictSize <= d.maxBufferSize)
    BY DEF TextInv, FrameInv, Buffers
  <2> QED
    BY <2>1, BufferBelow, MemoryFacts, FormatFacts
<1>3. need <= KB64
  <2>1. PICK zero \in Int : zero = 0
    OBVIOUS
  <2>2. Reach(zero, first) <= KB64 - zero
    BY ReachFacts
  <2> QED
    BY <1>2, <2>1, <2>2
<1>4. /\ TmpOut.at \in Int /\ TmpOut.dictSize \in Nat
      /\ TMP <= TmpOut.at /\ TmpOut.at + maxBlockSize <= TMP + d.maxBufferSize
      /\ ~f.linked => TmpOut.at = TMP
  BY <1>1, TmpOutFacts
<1>5. SameOutside(mem, mem, TMP, DICT)
  BY SameItself
<1>6. need > 0 /\ d.dict # TMP =>
        d.dict + d.dictSize <= TmpOut.at \/ TmpOut.at + maxBlockSize <= d.dict + d.dictSize - need
  <2> SUFFICES ASSUME need > 0, d.dict # TMP
               PROVE  d.dict + d.dictSize <= TmpOut.at
                      \/ TmpOut.at + maxBlockSize <= d.dict + d.dictSize - need
    OBVIOUS
  <2>1. d.dict + d.dictSize <= c.ptr \/ DICT <= d.dict + d.dictSize - need
    BY <1>1, <1>2, HistoryApart
  <2> QED
    BY <1>1, <1>2, <1>4, <2>1
<1>7. CASE ~f.linked
  <2>1. TmpOut.m = mem /\ TmpOut.dictSize = d.dictSize
    BY <1>7 DEF TmpOut
  <2>2. need > 0 => d.dict # TMP
    <3>1. AtDictionary
      BY <1>1, <1>7 DEF TextInv, HistoryKept
    <3> QED
      BY <1>1, <1>2, <3>1 DEF AtDictionary
  <2> QED
    BY <1>5, <1>6, <1>7, <2>1, <2>2
<1>8. CASE f.linked /\ d.dict # TMP
  <2>1. PICK k \in Int : k = Lesser(d.dictSize, KB64) /\ (k = d.dictSize \/ k = KB64)
    <3>1. PICK x \in Int, y \in Int : x = d.dictSize /\ y = KB64
      BY <1>1, <1>2
    <3> QED
      BY <3>1, LesserFacts
  <2>2. TmpOut.m = mem /\ TmpOut.dictSize = d.dictSize /\ TmpOut.at = TMP + k
    BY <1>8, <2>1 DEF TmpOut
  <2>3. need <= TmpOut.at - TMP
    BY <1>1, <1>2, <1>3, <2>1, <2>2
  <2>4. need > 0 => d.dict + TmpOut.dictSize <= TmpOut.at
                    \/ TmpOut.at + maxBlockSize <= d.dict + TmpOut.dictSize - need
    BY <1>6, <1>8, <2>2
  <2> QED
    BY Zenon, <1>5, <1>8, <2>2, <2>3, <2>4
<1>9. CASE f.linked /\ d.dict = TMP /\ d.dictSize > 2 * KB64
  <2>1. /\ TmpOut.m = Copy(mem, TMP, TMP + d.dictSize - KB64, KB64)
        /\ TmpOut.dictSize = KB64 /\ TmpOut.at = TMP + KB64
    BY <1>9 DEF TmpOut
  <2>2. PICK from \in Int, end \in Int, on \in Int :
          from = TMP + d.dictSize - KB64 /\ end = TMP + d.dictSize /\ end = from + KB64 /\ on = TMP + KB64
    BY <1>1, <1>2
  <2>3. 0 <= TMP /\ on <= DICT + DictSize + 1 /\ TMP <= TMP /\ TMP + KB64 <= DICT /\ TMP \in Int
    BY <1>2, <1>4, <2>1, <2>2
  <2>4. HeldBack(mem, end, first, need)
    BY <1>9, <2>2
  <2>5. HeldBack(Copy(mem, TMP, from, KB64), on, first, need)
    BY <1>2, <1>3, <2>2, <2>3, <2>4, CopyHolds
  <2>6. SameOutside(mem, Copy(mem, TMP, from, KB64), TMP, DICT)
    BY <1>2, <2>2, <2>3, CopySameOutside
  <2>7. InPlace(d.dict, KB64, c.ptr)
    BY <1>9 DEF InPlace
  <2>8. need <= TmpOut.at - TMP /\ d.dict + TmpOut.dictSize <= TmpOut.at
    BY <1>2, <1>3, <1>9, <2>1
  <2>9. HeldBack(TmpOut.m, d.dict + TmpOut.dictSize, first, need)
    BY <1>9, <2>1, <2>2, <2>5
  <2>10. SameOutside(mem, TmpOut.m, TMP, DICT) /\ need <= TmpOut.dictSize
         /\ InPlace(d.dict, TmpOut.dictSize, c.ptr)
    BY <1>3, <2>1, <2>2, <2>6, <2>7
  <2> QED
    BY Zenon, <2>8, <2>9, <2>10
<1>10. CASE f.linked /\ d.dict = TMP /\ ~(d.dictSize > 2 * KB64)
  <2>1. TmpOut.m = mem /\ TmpOut.dictSize = d.dictSize /\ TmpOut.at = TMP + d.dictSize
    BY <1>10 DEF TmpOut
  <2>2. need <= TmpOut.at - TMP /\ d.dict + TmpOut.dictSize <= TmpOut.at
    BY <1>1, <1>2, <1>10, <2>1
  <2> QED
    BY Zenon, <1>5, <1>10, <2>1, <2>2
<1> QED
  BY <1>7, <1>8, <1>9, <1>10

(* What holds once a block is decoded to tmpOut.                           *)
LEMMA DecodedToTmpOut ==
  ASSUME FrameInv, TextInv, phase = "loop", d.stage \in OfBlocks, NEW s,
         s = Decoded(TmpOut.m, d.dict, TmpOut.dictSize, TmpOut.at), NEW now, now = Put(TmpOut.m, TmpOut.at, s)
  PROVE  /\ s = Bytes(t.decoded, b.size)
         /\ HeldBack(now, DICT + DictSize, 0, DictSize)
         /\ c.ptr # NULL => HeldBack(now, c.ptr, t.delivered, c.ptr - c.start)
         /\ HeldBack(now, TmpOut.at + b.size, t.decoded + b.size, b.size)
         /\ f.linked =>
              /\ Reach(b.size, t.delivered) <= TmpOut.dictSize
              /\ HeldBack(now, d.dict + TmpOut.dictSize, t.delivered, Reach(b.size, t.delivered))
              /\ InPlace(d.dict, TmpOut.dictSize, c.ptr)
              /\ Reach(b.size, t.decoded) <= TmpOut.at - TMP
PROOF
<1>1. PICK first \in Int :
         /\ f.linked => first = t.decoded
         /\ ~f.linked => first = 0
         /\ first + DictSize \in Nat
         /\ Reach(0, first) <= d.dictSize
         /\ HeldBack(mem, d.dict + d.dictSize, first, Reach(0, first))
         /\ InPlace(d.dict, d.dictSize, c.ptr)
  BY HistoryReady
<1>2. PICK need \in Int, n \in Nat, less \in Int :
        need = Reach(0, first) /\ n = b.size /\ n <= maxBlockSize /\ less = Reach(n, first) /\ less <= need
  <2>1. PICK zero \in Int, k \in Nat : zero = 0 /\ k = b.size /\ k <= maxBlockSize
    BY BlockInHand
  <2>2. k \in Int
    OBVIOUS
  <2>3. /\ Reach(zero, first) \in Int
        /\ Reach(zero, first) = KB64 - zero \/ Reach(zero, first) = first + DictSize
    BY ReachFacts
  <2>4. Reach(k, first) \in Int /\ Reach(k, first) <= KB64 - k /\ Reach(k, first) <= first + DictSize
    BY <2>2, ReachFacts
  <2>5. Reach(k, first) <= Reach(zero, first)
    BY <2>1, <2>3, <2>4, FormatFacts
  <2> QED
    BY <2>1, <2>3, <2>4, <2>5
<1>3. /\ c.ptr \in Int /\ c.start \in Int /\ d.dict \in Int /\ t.decoded \in Nat /\ t.delivered \in Nat
      /\ d.stage \in Built /\ d.stage # "flushOut"
  BY DEF FrameInv, FrameDecoderTypeOK, CallState, Context, TextState, OfBlocks, Built, InBlocks
<1>4. c.ptr < TMP /\ (c.ptr # NULL => 0 <= c.start /\ c.start <= c.ptr)
  <2>1. DstSize \in Nat /\ TMP = DstSize + 1 /\ NULL < 0 /\ c.room \in Nat
    BY MemoryFacts, FormatFacts DEF FrameInv, FrameDecoderTypeOK, CallState
  <2>2. c.ptr = NULL \/ (0 <= c.start /\ c.start <= c.ptr /\ c.ptr + c.room <= DstSize)
    BY DEF FrameInv, InOutput
  <2> QED
    BY <1>3, <2>1, <2>2
<1> DEFINE m == TmpOut.m
<1>5. PICK size \in Nat, to \in Int :
        /\ m = TmpOut.m /\ size = TmpOut.dictSize /\ to = TmpOut.at
        /\ TMP <= to /\ to + maxBlockSize <= TMP + d.maxBufferSize
  <2> /\ TmpOut.at \in Int /\ TmpOut.dictSize \in Nat
      /\ TMP <= TmpOut.at /\ TmpOut.at + maxBlockSize <= TMP + d.maxBufferSize
    BY <1>3, TmpOutFacts
  <2> QED
    OBVIOUS
<1> HIDE DEF m
<1>6. /\ TMP \in Nat /\ DICT \in Nat /\ TMP < DICT /\ DictSize \in Nat /\ maxBlockSize \in Nat
      /\ TMP + d.maxBufferSize < DICT /\ d.maxBufferSize \in Nat
      /\ d.maxBufferSize <= maxBlockSize + 2 * KB64
      /\ d.dict = TMP => d.dictSize <= d.maxBufferSize
  <2>1. d.maxBufferSize <= maxBlockSize + 2 * KB64 /\ (d.dict = TMP => d.dictSize <= d.maxBufferSize)
    BY DEF TextInv, FrameInv, Buffers
  <2> QED
    BY <2>1, BufferBelow, MemoryFacts, FormatFacts
<1>7. /\ SameOutside(mem, m, TMP, DICT)
      /\ need <= size
      /\ HeldBack(m, d.dict + size, first, need)
      /\ InPlace(d.dict, size, c.ptr)
      /\ f.linked => need <= to - TMP
      /\ need > 0 => d.dict + size <= to \/ to + maxBlockSize <= d.dict + size - need
  <2>1. need <= d.dictSize /\ HeldBack(mem, d.dict + d.dictSize, first, need)
    BY <1>1, <1>2
  <2>2. /\ SameOutside(mem, TmpOut.m, TMP, DICT)
        /\ need <= TmpOut.dictSize
        /\ HeldBack(TmpOut.m, d.dict + TmpOut.dictSize, first, need)
        /\ InPlace(d.dict, TmpOut.dictSize, c.ptr)
        /\ f.linked => need <= TmpOut.at - TMP
        /\ need > 0 => d.dict + TmpOut.dictSize <= TmpOut.at
                       \/ TmpOut.at + maxBlockSize <= d.dict + TmpOut.dictSize - need
    BY <1>1, <1>2, <1>4, <2>1, TmpOutBehindHistory
  <2> QED
    BY <1>5, <2>2
<1>8. s = Bytes(t.decoded, n)
  <2>1. s = Decoded(m, d.dict, size, to)
    BY <1>5
  <2>2. need > 0 => d.dict + size <= to \/ to + b.size <= d.dict + size - need
    BY <1>2, <1>3, <1>5, <1>6, <1>7
  <2>3. b.size \in Nat /\ need = Reach(0, first)
    BY <1>2
  <2> HIDE <1>7
  <2>4. Decoded(m, d.dict, size, to) = Bytes(t.decoded, b.size)
    BY <1>1, <1>3, <1>7, <2>2, <2>3, HistoryHeld
  <2> QED
    BY <1>2, <2>1, <2>4
<1>9. Len(s) = n /\ now = Put(m, to, s)
  <2>1. t.decoded \in Int
    BY <1>3
  <2> QED
    BY <1>5, <1>8, <2>1, BytesFacts
<1>10. PICK next \in Int, on \in Int : next = t.decoded + n /\ on = to + n
  BY <1>3
<1>11. HeldBack(now, on, next, n)
  <2>1. PICK last \in Int, at \in Nat : last = t.decoded /\ at = to
    BY <1>3, <1>5, <1>6
  <2>2. at + n <= DICT + DictSize + 1
    BY <1>2, <1>5, <1>6, <2>1
  <2>3. HeldBack(Put(m, at, Bytes(last, n)), at + n, last + n, n)
    BY <2>2, PutHolds
  <2> QED
    BY <1>8, <1>9, <1>10, <2>1, <2>3
<1>12. HeldBack(now, DICT + DictSize, 0, DictSize)
  <2>1. PICK end \in Int, zero \in Int : end = DICT + DictSize /\ zero = 0
    BY <1>6
  <2>2. HeldBack(mem, end, zero, DictSize)
    BY <2>1 DEF TextInv, DictionaryKept
  <2>3. /\ 0 <= end - DictSize /\ end <= DICT + DictSize + 1 /\ DICT <= end - DictSize
        /\ to + n <= end - DictSize /\ DictSize \in Int /\ TMP \in Int /\ DICT \in Int
    BY <1>2, <1>5, <1>6, <2>1
  <2>4. HeldBack(m, end, zero, DictSize)
    BY <1>7, <2>2, <2>3, KeptOutside
  <2>5. HeldBack(now, end, zero, DictSize)
    BY <1>9, <2>3, <2>4, PutKeeps
  <2> QED
    BY <2>1, <2>5
<1>13. c.ptr # NULL => HeldBack(now, c.ptr, t.delivered, c.ptr - c.start)
  <2> SUFFICES ASSUME c.ptr # NULL
               PROVE  HeldBack(now, c.ptr, t.delivered, c.ptr - c.start)
    OBVIOUS
  <2>1. PICK end \in Int, last \in Int, sent \in Int :
          end = c.ptr /\ last = t.delivered /\ sent = c.ptr - c.start
    BY <1>3
  <2>2. HeldBack(mem, end, last, sent)
    BY <2>1 DEF TextInv, HandedOut
  <2>3. /\ 0 <= end - sent /\ end <= DICT + DictSize + 1 /\ end <= TMP /\ end <= to
        /\ TMP \in Int /\ DICT \in Int
    BY <1>3, <1>4, <1>5, <1>6, <2>1
  <2>4. HeldBack(m, end, last, sent)
    BY <1>7, <2>2, <2>3, KeptOutside
  <2>5. HeldBack(now, end, last, sent)
    BY <1>9, <2>3, <2>4, PutKeeps
  <2> QED
    BY <2>1, <2>5
<1>14. f.linked => HeldBack(now, d.dict + size, first, less)
  <2>1. PICK end \in Int : end = d.dict + size
    BY <1>3
  <2>2. need > 0 => /\ 0 <= end - need /\ end <= DICT + DictSize + 1
                    /\ n = 0 \/ end <= to \/ to + n <= end - need
    <3> SUFFICES ASSUME need > 0
                 PROVE  /\ 0 <= end - need /\ end <= DICT + DictSize + 1
                        /\ n = 0 \/ end <= to \/ to + n <= end - need
      OBVIOUS
    <3>1. d.dict = TMP => size <= d.maxBufferSize
      <4>1. d.dict = TMP => TmpOut.dictSize <= d.maxBufferSize
        BY <1>3, TmpOutFacts
      <4> QED
        BY <1>5, <4>1
    <3>2. d.maxBufferSize <= maxBlockSize + 2 * KB64
      BY <1>6
    <3>4. c.ptr \in Int /\ c.ptr < TMP /\ d.dict \in Int
      BY <1>3, <1>4
    <3>5. InPlace(d.dict, size, c.ptr) /\ need <= size
      BY Zenon, <1>7
    <3>3. 0 <= d.dict + size - need /\ d.dict + size < DICT + DictSize + 1
      BY <3>1, <3>2, <3>4, <3>5, HistoryApart
    <3> QED
      BY <1>2, <1>3, <1>5, <1>6, <1>7, <2>1, <3>3
  <2>3. HeldBack(m, end, first, need)
    BY <1>7, <2>1
  <2>4. HeldBack(now, end, first, need)
    BY <1>9, <2>2, <2>3, PutKeeps
  <2> QED
    BY <1>2, <2>1, <2>4, HeldFewer
<1>15. t.delivered = t.decoded
  <2>1. Lag = 0
    BY <1>3 DEF Lag
  <2>2. t.decoded = t.delivered + Lag
    BY <1>3 DEF TextInv, CountsRight, Counting
  <2> QED
    BY <1>3, <2>1, <2>2
<1>16. f.linked => /\ Reach(n, t.delivered) <= size /\ Reach(n, t.decoded) <= to - TMP
                   /\ HeldBack(now, d.dict + size, t.delivered, Reach(n, t.delivered))
  <2> SUFFICES ASSUME f.linked
               PROVE  /\ less <= size /\ less <= to - TMP
                      /\ HeldBack(now, d.dict + size, first, less)
    BY <1>1, <1>2, <1>15
  <2> QED
    BY <1>2, <1>5, <1>6, <1>7, <1>14
<1> QED
  BY <1>2, <1>5, <1>7, <1>8, <1>10, <1>11, <1>12, <1>13, <1>16

-----------------------------------------------------------------------------
LEMMA TextUpToFacts ==
  ASSUME stream \in Seq(IntactFrame), stream # << >>, ~f.skippable
  PROVE  /\ TextUpTo[0] = 0 /\ TextUpTo[Len(f.blocks)] = f.size
         /\ \A k \in 1 .. Len(f.blocks) : TextUpTo[k] = TextUpTo[k - 1] + f.blocks[k].size
         /\ \A k \in 0 .. Len(f.blocks) : TextUpTo[k] \in Nat /\ TextUpTo[k] <= f.size
PROOF
<1>1. f \in IntactFrame /\ f.size \in Nat /\ Len(f.blocks) \in Nat
  BY FrameFacts DEF f
<1>2. \E at \in [0 .. Len(f.blocks) -> 0 .. f.size] : InBlocksUpTo(f, at)
  BY <1>1 DEF IntactFrame
<1>3. TextUpTo \in [0 .. Len(f.blocks) -> 0 .. f.size] /\ InBlocksUpTo(f, TextUpTo)
  BY Zenon, <1>2 DEF TextUpTo
<1>4. \A k \in 0 .. Len(f.blocks) : TextUpTo[k] \in Nat /\ TextUpTo[k] <= f.size
  <2> DEFINE at == TextUpTo
             len == Len(f.blocks)
             size == f.size
  <2>1. at \in [0 .. len -> 0 .. size] /\ len \in Nat /\ size \in Nat
    BY <1>1, <1>3
  <2> HIDE DEF at, len, size
  <2>2. \A k \in 0 .. len : at[k] \in Nat /\ at[k] <= size
    BY <2>1
  <2> QED
    BY <2>2 DEF at, len, size
<1> QED
  BY Zenon, <1>3, <1>4 DEF InBlocksUpTo

Beginning == { "getFrameHeader", "storeFrameHeader", "init" }
Ending == { "getSuffix", "storeSuffix" }

(* Steps before the first block of a frame and after the last one.         *)
LEMMA TextUntouched ==
  ASSUME FrameInv, TextInv, phase = "loop", phase' \in { "loop", "leave" },
         stream' = stream, mem' = mem, resets' = resets, SameBuffers,
         c'.ptr = c.ptr, c'.start = c.start, t'.delivered = t.delivered,
         d'.stage \notin Built, d'.stage \in Beginning => d.stage \in Beginning,
         d.stage # "getFrameHeader" \/ phase' = "loop",
         CountsRight', CountsBlocks'
  PROVE  TextInv'
PROOF
<1>1. phase' # "error" /\ d'.maxBufferSize <= maxBlockSize + 2 * KB64
  <2>1. d.maxBufferSize <= maxBlockSize + 2 * KB64 /\ d'.maxBufferSize = d.maxBufferSize
    BY DEF TextInv, SameBuffers
  <2>2. phase' # "error"
    OBVIOUS
  <2> QED
    BY Zenon, <2>1, <2>2
<1>2. DictionaryKept'
  BY DEF TextInv, DictionaryKept
<1>3. HistoryBegins'
  BY DEF TextInv, HistoryBegins, AtDictionary, SameBuffers, Beginning
<1>4. HistoryKept' /\ BlockInTmpOut'
  BY DEF HistoryKept, BlockInTmpOut, Built, InBlocks
<1>5. HandedOut'
  BY DEF TextInv, HandedOut
<1>6. ResetsLeaveNothing'
  BY DEF TextInv, ResetsLeaveNothing
<1> QED
  BY Zenon, <1>1, <1>2, <1>3, <1>4, <1>5, <1>6 DEF TextInv

(* Steps between two blocks of a frame, or inside one.                     *)
LEMMA TextGrown ==
  ASSUME FrameInv, TextInv, FrameInv', phase = "loop", phase' \in { "loop", "leave" },
         stream' = stream, resets' = resets, d.stage \in Built, d'.stage \in Built,
         NEW n \in Nat, NEW left \in Nat, TextGrows(n, left), left = Lag',
         c'.ptr = c.ptr + n, c'.start = c.start, c.ptr = NULL => n = 0,
         t'.delivered = t.delivered + n, d'.maxBufferSize = d.maxBufferSize,
         CountsRight', CountsBlocks', BlockInTmpOut'
  PROVE  TextInv'
PROOF
<1>1. phase' # "error" /\ d'.maxBufferSize <= maxBlockSize + 2 * KB64
  <2>1. d.maxBufferSize <= maxBlockSize + 2 * KB64
    BY DEF TextInv
  <2>2. phase' # "error"
    OBVIOUS
  <2> QED
    BY Zenon, <2>1, <2>2
<1>2. DictionaryKept'
  BY DEF TextGrows
<1>3. HistoryBegins'
  BY DEF HistoryBegins, Built, InBlocks
<1>4. HistoryKept'
  <2>1. f' = f
    BY DEF f
  <2>2. Filled' = c.ptr + n
    BY DEF Filled
  <2>3. f.linked => /\ Reach(Lag', t'.delivered) <= d'.dictSize
                    /\ HeldBack(mem', d'.dict + d'.dictSize, t'.delivered, Reach(Lag', t'.delivered))
                    /\ InPlace(d'.dict, d'.dictSize, Filled')
    BY <2>2 DEF TextGrows
  <2>4. ~f.linked => AtDictionary'
    BY DEF TextGrows, TextInv, HistoryKept, AtDictionary
  <2> QED
    BY <2>1, <2>3, <2>4 DEF HistoryKept, Reach, InPlace, HeldBack
<1>5. HandedOut'
  <2> SUFFICES ASSUME c'.ptr # NULL
               PROVE  HeldBack(mem', c'.ptr, t'.delivered, c'.ptr - c'.start)
    BY DEF HandedOut
  <2>1. c.ptr \in Int /\ c.start \in Int
    BY DEF FrameInv, FrameDecoderTypeOK, CallState
  <2>2. c.ptr # NULL /\ c'.ptr - c'.start = c.ptr + n - c.start
    BY <2>1
  <2>3. HeldBack(mem', c.ptr + n, t.delivered + n, c.ptr + n - c.start)
    BY <2>2 DEF TextGrows
  <2> QED
    BY <2>2, <2>3
<1>6. ResetsLeaveNothing'
  BY DEF TextInv, ResetsLeaveNothing
<1> QED
  BY Zenon, <1>1, <1>2, <1>3, <1>4, <1>5, <1>6, BlockInTmpOut', CountsRight', CountsBlocks' DEF TextInv

LEMMA NothingDelivered ==
  ASSUME FrameInv, TextInv, phase = "loop", d.stage \in Built,
         mem' = mem, d'.dict = d.dict, d'.dictSize = d.dictSize,
         NEW none \in Nat, none = 0, NEW left \in Nat, left = Lag
  PROVE  TextGrows(none, left)
PROOF
<1>1. /\ c.ptr \in Int /\ c.start \in Int /\ t.delivered \in Nat
      /\ c.ptr + none = c.ptr /\ t.delivered + none = t.delivered
      /\ c.ptr + none - c.start = c.ptr - c.start
  BY DEF FrameInv, FrameDecoderTypeOK, CallState, TextState
<1>2. Filled = c.ptr
  BY DEF Filled
<1>3. f.linked =>
         /\ Reach(left, t.delivered) <= d.dictSize
         /\ HeldBack(mem, d.dict + d.dictSize, t.delivered, Reach(left, t.delivered))
         /\ InPlace(d.dict, d.dictSize, c.ptr)
  BY <1>2 DEF TextInv, HistoryKept
<1>4. c.ptr # NULL => HeldBack(mem, c.ptr, t.delivered, c.ptr - c.start)
  BY DEF TextInv, HandedOut
<1>5. DictionaryKept' /\ (d.stage = "flushOut" => HeldBack(mem', d.tmpOut + d.tmpOutSize, t.decoded, d.tmpOutSize))
  BY DEF TextInv, DictionaryKept, BlockInTmpOut
<1> QED
  BY Zenon, <1>1, <1>3, <1>4, <1>5 DEF TextGrows

-----------------------------------------------------------------------------
(* The end of a frame, and a reset before it.                              *)
LEMMA NextFrame ==
  ASSUME stream \in Seq(IntactFrame), stream # << >>, ResetsLeaveNothing,
         stream' = Tail(stream), resets' \in Nat
  PROVE  ResetsLeaveNothing'
PROOF
<1>1. Len(stream) \in Nat /\ Len(stream') = Len(stream) - 1
      /\ \A i \in 1 .. Len(stream) - 1 : stream'[i] = stream[i + 1]
  OBVIOUS
<1>2. CASE MaxResets = 0
  BY <1>2 DEF ResetsLeaveNothing
<1>3. CASE \A i \in 1 .. Len(stream) - 1 : ~stream[i].sized
  <2>1. \A i \in 1 .. Len(stream') - 1 : ~stream'[i].sized
    <3> SUFFICES ASSUME NEW i \in 1 .. Len(stream') - 1
                 PROVE  ~stream'[i].sized
      OBVIOUS
    <3>1. i \in 1 .. Len(stream) - 1 /\ i + 1 \in 1 .. Len(stream) - 1
      BY <1>1
    <3>2. stream'[i] = stream[i + 1]
      BY <1>1, <3>1
    <3> QED
      BY <1>3, <3>1, <3>2
  <2> QED
    BY Zenon, <2>1 DEF ResetsLeaveNothing
<1> QED
  BY <1>2, <1>3 DEF ResetsLeaveNothing

LEMMA TextBegins ==
  ASSUME FrameInv, TextInv, stream # << >>, d.remaining = 0, d' = Reset(d), stream' = Tail(stream),
         t' = NewText, mem' = mem, resets' \in Nat, phase' \in { "idle", "leave" }
  PROVE  TextInv'
PROOF
<1>1. d \in Context /\ stream \in Seq(IntactFrame)
  BY DEF FrameInv, FrameDecoderTypeOK
<1>2. /\ d'.stage = "getFrameHeader" /\ d'.dictSize = 0 /\ d'.remaining = 0
      /\ d'.maxBufferSize = d.maxBufferSize
  BY <1>1 DEF Reset, Context
<1>3. t'.decoded = 0 /\ t'.delivered = 0
  BY DEF NewText
<1>4. CountsRight' /\ CountsBlocks'
  BY <1>2, <1>3 DEF CountsRight, CountsBlocks, Counting, Built, InBlocks
<1>5. DictionaryKept'
  BY DEF TextInv, DictionaryKept
<1>6. HistoryBegins' /\ HistoryKept' /\ BlockInTmpOut' /\ HandedOut'
  BY <1>2 DEF HistoryBegins, HistoryKept, BlockInTmpOut, HandedOut, Built, InBlocks
<1>7. ResetsLeaveNothing'
  <2>1. ResetsLeaveNothing
    BY DEF TextInv
  <2> QED
    BY <1>1, <2>1, NextFrame
<1>8. phase' # "error" /\ d'.maxBufferSize <= maxBlockSize + 2 * KB64
  <2>1. d.maxBufferSize <= maxBlockSize + 2 * KB64
    BY DEF TextInv
  <2>2. phase' # "error"
    OBVIOUS
  <2> QED
    BY Zenon, <1>2, <2>1, <2>2
<1> QED
  BY Zenon, <1>4, <1>5, <1>6, <1>7, <1>8 DEF TextInv

-----------------------------------------------------------------------------
(* Fields that are read without a word of the text.                        *)
LEMMA InputEndsText ==
  ASSUME FrameInv, TextInv, FrameInv', phase = "loop", d.stage \in Storing, NEW n \in Nat, n = FieldSize,
         c' = Consumed(Lesser(n - Len(d.held), c.given)),
         d' = [d EXCEPT !.held = Gathered(n)], phase' = "leave", UNCHANGED << stream, t, mem >>,
         UNCHANGED resets
  PROVE  TextInv'
PROOF
<1>1. /\ d \in Context /\ c \in CallState /\ f' = f /\ b' = b /\ TextUpTo' = TextUpTo
  BY DEF FrameInv, FrameDecoderTypeOK, f, b, TextUpTo
<1>2. /\ d'.stage = d.stage /\ SameBuffers /\ d'.remaining = d.remaining /\ d'.xxh = d.xxh
      /\ d'.target = d.target
  BY <1>1 DEF Context, SameBuffers
<1>3. c'.ptr = c.ptr /\ c'.start = c.start /\ c.ptr \in Int /\ t.delivered \in Nat
  BY <1>1 DEF Consumed, CallState, FrameInv, FrameDecoderTypeOK, TextState
<1>4. d.stage # "flushOut" /\ d.stage # "getFrameHeader"
  BY DEF Storing
<1>5. CountsRight'
  <2> Lag' = Lag
    BY <1>2, <1>4 DEF Lag
  <2> QED
    BY <1>1, <1>2 DEF TextInv, CountsRight
<1>6. CountsBlocks'
  BY <1>1, <1>2 DEF TextInv, CountsBlocks
<1>7. CASE d.stage \notin Built
  BY <1>2, <1>3, <1>4, <1>5, <1>6, <1>7, TextUntouched
<1>8. CASE d.stage \in Built
  <2>1. PICK none \in Nat : none = 0 /\ Lag = none /\ Lag' = none
    BY <1>2, <1>4 DEF Lag
  <2>2. TextGrows(none, none)
    BY <1>2, <1>8, <2>1, NothingDelivered DEF SameBuffers
  <2>3. BlockInTmpOut'
    BY <1>2, <1>4 DEF BlockInTmpOut
  <2>4. /\ c'.ptr = c.ptr + none /\ t'.delivered = t.delivered + none /\ d'.maxBufferSize = d.maxBufferSize
    BY <1>2, <1>3, <2>1 DEF SameBuffers
  <2> QED
    BY <1>2, <1>3, <1>5, <1>6, <1>8, <2>1, <2>2, <2>3, <2>4, TextGrown
<1> QED
  BY <1>7, <1>8

(* What a header says is counted from, and nothing else changes.           *)
LEMMA HeaderCounts ==
  ASSUME FrameInv, TextInv, stream # << >>, d.stage \in { "getFrameHeader", "storeFrameHeader" },
         NEW bytes \in Seq(Int), IsDue(bytes), NEW direct \in BOOLEAN, DecodeHeader(bytes, direct)
  PROVE  /\ CountsRight' /\ CountsBlocks' /\ SameBuffers
         /\ d'.stage \notin Built /\ d'.stage # "getFrameHeader" /\ t'.delivered = t.delivered
         /\ stream' = stream /\ mem' = mem /\ phase' = phase
PROOF
<1>1. /\ d \in Context /\ t \in TextState /\ stream \in Seq(IntactFrame)
      /\ t.block = 0 /\ d.remaining = 0 /\ t.decoded = 0 /\ t.delivered = 0
  BY DEF FrameInv, FrameDecoderTypeOK, TargetsFit, HeaderStages, TextInv, CountsRight
<1>2. /\ stream' = stream /\ mem' = mem /\ phase' = phase /\ f' = f /\ TextUpTo' = TextUpTo
      /\ f.skippable \in BOOLEAN /\ f.sized \in BOOLEAN /\ f.size \in Nat
  BY <1>1, FrameFacts DEF DecodeHeader, f, TextUpTo
<1>3. t'.decoded = 0 /\ t'.delivered = 0 /\ t'.block = 0
  BY <1>1 DEF DecodeHeader, TextState
<1>4. CASE f.skippable \/ Len(bytes) < HeaderSize(f)
  <2>1. /\ SameBuffers /\ d'.remaining = 0
        /\ d'.stage \in { "getSFrameSize", "storeSFrameSize", "storeFrameHeader" }
    BY <1>1, <1>4 DEF DecodeHeader, Context, SameBuffers
  <2>2. d'.stage \notin Built /\ d'.stage # "getFrameHeader"
    BY <2>1 DEF Built, InBlocks
  <2>3. CountsRight' /\ CountsBlocks'
    BY <1>3, <2>1 DEF CountsRight, CountsBlocks, Counting, Built, InBlocks
  <2> QED
    BY <1>1, <1>2, <1>3, <2>1, <2>2, <2>3
<1>5. CASE ~f.skippable /\ ~(Len(bytes) < HeaderSize(f))
  <2>1. d' = [d EXCEPT !.stage = "init", !.remaining = IF f.sized THEN f.size ELSE d.remaining]
    BY <1>1, <1>5 DEF DecodeHeader, Context
  <2>2. /\ SameBuffers /\ d'.remaining = (IF f.sized THEN f.size ELSE 0) /\ d'.stage = "init"
    BY <1>1, <2>1 DEF Context, SameBuffers
  <2>3. d'.stage \notin Built /\ d'.stage # "getFrameHeader"
    BY <2>2 DEF Built, InBlocks
  <2>4. CountsRight'
    <3>1. Lag' = 0
      BY <2>2 DEF Lag
    <3>2. d'.remaining = (IF f'.sized THEN f'.size - t'.decoded ELSE 0)
      BY <1>2, <1>3, <2>2
    <3>3. t'.decoded = t'.delivered + Lag'
      BY <1>3, <3>1
    <3> QED
      BY <1>2, <1>5, <2>2, <3>2, <3>3 DEF CountsRight, HeaderStages
  <2>5. CountsBlocks'
    <3>1. TextUpTo[0] = 0
      BY <1>1, <1>5, TextUpToFacts
    <3>2. t'.decoded = TextUpTo'[t'.block]
      BY <1>2, <1>3, <3>1
    <3> QED
      BY <2>2, <3>2 DEF CountsBlocks
  <2> QED
    BY <1>1, <1>2, <1>3, <2>2, <2>3, <2>4, <2>5
<1> QED
  BY <1>4, <1>5

LEMMA HeaderReadText ==
  ASSUME FrameInv, TextInv, FrameInv', phase = "loop", d.stage \in { "getFrameHeader", "storeFrameHeader" },
         NEW bytes \in Seq(Int), IsDue(bytes), NEW direct \in BOOLEAN, DecodeHeader(bytes, direct),
         SameOutput, UNCHANGED resets
  PROVE  TextInv'
PROOF
<1>1. stream # << >>
  BY DEF FrameInv, TargetsFit
<1>2. /\ CountsRight' /\ CountsBlocks' /\ SameBuffers /\ d'.stage \notin Built
      /\ t'.delivered = t.delivered /\ stream' = stream /\ mem' = mem /\ phase' = "loop"
  BY <1>1, HeaderCounts
<1>3. d.stage \in Beginning /\ c'.ptr = c.ptr /\ c'.start = c.start
  BY DEF Beginning, SameOutput
<1> QED
  BY <1>2, <1>3, TextUntouched

LEMMA GetFrameHeaderText ==
  ASSUME FrameInv, TextInv, FrameInv', GetFrameHeader, UNCHANGED resets
  PROVE  TextInv'
PROOF
<1>1. /\ phase = "loop" /\ d.stage = "getFrameHeader" /\ d \in Context /\ c \in CallState
      /\ t \in TextState /\ c.given \in Nat /\ c.at = t.due /\ t.due \in Nat
      /\ d.remaining = 0 /\ t.decoded = 0 /\ t.delivered = 0
  BY DEF FrameInv, FrameDecoderTypeOK, InField, HeaderStages, GetFrameHeader, Stop, Context, CallState,
         TextState, TextInv, CountsRight
<1>2. CASE c.given >= maxFHSize
  <2> DEFINE bytes == Bytes(c.at, c.given)
  <2>1. DecodeHeader(bytes, TRUE) /\ c' = Consumed(HeaderTaken)
    BY <1>2 DEF GetFrameHeader
  <2>2. bytes \in Seq(Int) /\ IsDue(bytes)
    BY <1>1, DueFacts
  <2>3. SameOutput
    BY <1>1, <2>1 DEF SameOutput, Consumed, CallState
  <2> HIDE DEF bytes
  <2> QED
    BY <1>1, <2>1, <2>2, <2>3, HeaderReadText
<1>3. CASE ~(c.given >= maxFHSize) /\ c.given = 0
  <2>1. phase' = "idle" /\ d' = [d EXCEPT !.held = << >>] /\ UNCHANGED << stream, c, t, mem >>
    BY <1>3 DEF GetFrameHeader
  <2>2. SameBuffers /\ d'.stage = "getFrameHeader" /\ d'.remaining = 0
    BY <1>1, <2>1 DEF Context, SameBuffers
  <2>3. CountsRight' /\ CountsBlocks'
    BY <1>1, <2>1, <2>2 DEF CountsRight, CountsBlocks, Counting, Built, InBlocks
  <2>4. DictionaryKept' /\ ResetsLeaveNothing'
    BY <2>1 DEF TextInv, DictionaryKept, ResetsLeaveNothing
  <2>5. HistoryBegins' /\ HistoryKept' /\ BlockInTmpOut' /\ HandedOut'
    BY <1>1, <2>1, <2>2 DEF TextInv, HistoryBegins, HistoryKept, BlockInTmpOut, HandedOut, Built, InBlocks,
                            SameBuffers
  <2>6. d'.maxBufferSize <= maxBlockSize + 2 * KB64
    BY <2>2 DEF TextInv, SameBuffers
  <2>7. phase' # "error"
    BY <2>1
  <2> QED
    BY Zenon, <2>3, <2>4, <2>5, <2>6, <2>7 DEF TextInv
<1>4. CASE ~(c.given >= maxFHSize) /\ c.given # 0
  <2>1. /\ d' = [d EXCEPT !.held = << >>, !.target = minFHSize, !.stage = "storeFrameHeader"]
        /\ UNCHANGED << stream, c, t, mem, phase >>
    BY <1>4 DEF GetFrameHeader
  <2>2. SameBuffers /\ d'.stage = "storeFrameHeader" /\ d'.remaining = 0
    BY <1>1, <2>1 DEF Context, SameBuffers
  <2>3. CountsRight' /\ CountsBlocks'
    BY <1>1, <2>1, <2>2 DEF CountsRight, CountsBlocks, Counting, Built, InBlocks
  <2>4. d'.stage \notin Built /\ (d'.stage \in Beginning => d.stage \in Beginning)
    BY <1>1, <2>2 DEF Built, InBlocks, Beginning
  <2> QED
    BY <1>1, <2>1, <2>2, <2>3, <2>4, TextUntouched
<1> QED
  BY <1>2, <1>3, <1>4

LEMMA StoreFrameHeaderText ==
  ASSUME FrameInv, TextInv, FrameInv', StoreFrameHeader, UNCHANGED resets
  PROVE  TextInv'
PROOF
<1> DEFINE k == Lesser(d.target - Len(d.held), c.given)
<1>1. phase = "loop" /\ d.stage = "storeFrameHeader" /\ d.stage \in Storing
  BY DEF StoreFrameHeader, Stop, Storing
<1>2. d.target \in Nat /\ d.target = FieldSize
  BY <1>1 DEF FrameInv, FrameDecoderTypeOK, Context, FieldSize
<1>3. /\ c' = Consumed(k)
      /\ Len(Gathered(d.target)) < d.target =>
           /\ d' = [d EXCEPT !.held = Gathered(d.target)] /\ phase' = "leave"
           /\ UNCHANGED << stream, t, mem >>
      /\ ~(Len(Gathered(d.target)) < d.target) => DecodeHeader(Gathered(d.target), FALSE)
  BY DEF StoreFrameHeader, Gather
<1>4. CASE Len(Gathered(d.target)) < d.target
  BY <1>1, <1>2, <1>3, <1>4, InputEndsText
<1>5. CASE ~(Len(Gathered(d.target)) < d.target)
  <2>1. Gathered(d.target) \in Seq(Int) /\ IsDue(Gathered(d.target)) /\ SameOutput
    BY <1>1, <1>2, <1>3, <1>5, FieldWhole DEF SameOutput
  <2> QED
    BY <1>1, <1>3, <1>5, <2>1, HeaderReadText
<1> QED
  BY <1>4, <1>5

LEMMA HeaderStaysText ==
  ASSUME FrameInv, TextInv, FrameInv', phase = "loop", phase' \in { "loop", "leave" },
         d.stage \in HeaderStages \ { "getFrameHeader" },
         d'.stage \in { "getSFrameSize", "storeSFrameSize", "skipSkippable" },
         UNCHANGED << stream, t, mem, resets >>, SameBuffers, d'.remaining = d.remaining,
         c'.ptr = c.ptr, c'.start = c.start
  PROVE  TextInv'
PROOF
<1>1. d'.remaining = 0 /\ t'.decoded = 0 /\ t'.delivered = 0
  BY DEF TextInv, CountsRight
<1>2. CountsRight' /\ CountsBlocks'
  BY <1>1 DEF CountsRight, CountsBlocks, Counting, Built, InBlocks
<1>3. d'.stage \notin Built /\ (d'.stage \in Beginning => d.stage \in Beginning)
      /\ d.stage # "getFrameHeader"
  BY DEF Built, InBlocks, Beginning
<1> QED
  BY <1>2, <1>3, TextUntouched

LEMMA GetSFrameSizeText ==
  ASSUME FrameInv, TextInv, FrameInv', GetSFrameSize, UNCHANGED resets
  PROVE  TextInv'
PROOF
<1>1. /\ phase = "loop" /\ d.stage = "getSFrameSize" /\ d \in Context /\ c \in CallState
      /\ c.at = BHSize /\ d.stage \in HeaderStages \ { "getFrameHeader" }
  BY DEF FrameInv, FrameDecoderTypeOK, InField, GetSFrameSize, Stop, HeaderStages
<1>2. CASE c.given >= BHSize
  <2>1. Len(Bytes(BHSize, BHSize)) = BHSize
    BY FormatFacts, BytesFacts
  <2>2. /\ d' = [d EXCEPT !.target = f.size, !.stage = "skipSkippable"]
        /\ UNCHANGED << stream, t, mem, phase >> /\ c' = Consumed(BHSize)
    BY <1>1, <1>2, <2>1 DEF GetSFrameSize, SFrameSize
  <2>3. /\ SameBuffers /\ d'.remaining = d.remaining /\ d'.stage = "skipSkippable"
        /\ c'.ptr = c.ptr /\ c'.start = c.start
    BY <1>1, <2>2 DEF Context, SameBuffers, Consumed, CallState
  <2> QED
    BY <1>1, <2>2, <2>3, HeaderStaysText
<1>3. CASE ~(c.given >= BHSize)
  <2>1. /\ d' = [d EXCEPT !.held = Bytes(0, BHSize), !.target = 2 * BHSize, !.stage = "storeSFrameSize"]
        /\ UNCHANGED << stream, c, t, mem, phase >>
    BY <1>3 DEF GetSFrameSize
  <2>2. SameBuffers /\ d'.remaining = d.remaining /\ d'.stage = "storeSFrameSize"
    BY <1>1, <2>1 DEF Context, SameBuffers
  <2> QED
    BY <1>1, <2>1, <2>2, HeaderStaysText
<1> QED
  BY <1>2, <1>3

LEMMA StoreSFrameSizeText ==
  ASSUME FrameInv, TextInv, FrameInv', StoreSFrameSize, UNCHANGED resets
  PROVE  TextInv'
PROOF
<1> DEFINE n == 2 * BHSize
           k == Lesser(n - Len(d.held), c.given)
           size == SubSeq(Gathered(n), BHSize + 1, Len(Gathered(n)))
<1>1. /\ phase = "loop" /\ d.stage = "storeSFrameSize" /\ d.stage \in Storing
      /\ d.target = n /\ d.stage \in HeaderStages \ { "getFrameHeader" } /\ d \in Context
  BY DEF StoreSFrameSize, Stop, Storing, FrameInv, TargetsFit, HeaderStages, FrameDecoderTypeOK
<1>2. n \in Nat /\ n = FieldSize
  BY <1>1, FormatFacts DEF FieldSize
<1>3. /\ c' = Consumed(k)
      /\ Len(Gathered(n)) < n =>
           /\ d' = [d EXCEPT !.held = Gathered(n)] /\ phase' = "leave"
           /\ UNCHANGED << stream, t, mem >>
      /\ ~(Len(Gathered(n)) < n) => SFrameSize(size)
  BY <1>1 DEF StoreSFrameSize, Gather
<1> HIDE DEF n
<1>4. CASE Len(Gathered(n)) < n
  BY <1>1, <1>2, <1>3, <1>4, InputEndsText
<1>5. CASE ~(Len(Gathered(n)) < n)
  <2>1. c'.ptr = c.ptr /\ c'.start = c.start
    BY <1>1, <1>2, <1>3, <1>5, FieldWhole
  <2>2. SFrameSize(size)
    BY <1>3, <1>5
  <2> HIDE DEF size
  <2>3. d'.stage # "storeSFrameSize" \/ phase' # "error"
    BY DEF FrameInv, RefusedAtEnd
  <2>4. /\ d' = [d EXCEPT !.target = f.size, !.stage = "skipSkippable"]
        /\ UNCHANGED << stream, t, mem, phase >>
    BY <1>1, <2>2, <2>3 DEF SFrameSize, Refuse
  <2>5. SameBuffers /\ d'.remaining = d.remaining /\ d'.stage = "skipSkippable"
    BY <1>1, <2>4 DEF Context, SameBuffers
  <2> QED
    BY <1>1, <2>1, <2>4, <2>5, HeaderStaysText
<1> QED
  BY <1>4, <1>5

LEMMA SkipSkippableText ==
  ASSUME FrameInv, TextInv, FrameInv', SkipSkippable, UNCHANGED resets
  PROVE  TextInv'
PROOF
<1> DEFINE n == Lesser(d.target, c.given)
<1>1. /\ phase = "loop" /\ d.stage = "skipSkippable" /\ d \in Context /\ c \in CallState
      /\ stream # << >> /\ d.stage \in HeaderStages \ { "getFrameHeader" } /\ resets \in Nat
  BY DEF FrameInv, FrameDecoderTypeOK, TargetsFit, SkipSkippable, Stop, HeaderStages, TextInv,
         ResetsLeaveNothing
<1>2. d.remaining = 0
  BY <1>1 DEF TextInv, CountsRight
<1>3. CASE n = d.target
  <2>1. FrameDone
    BY <1>3 DEF SkipSkippable
  <2>2. d' = Reset(d) /\ stream' = Tail(stream) /\ t' = NewText /\ mem' = mem /\ phase' \in { "idle", "leave" }
    BY <2>1 DEF FrameDone
  <2>3. resets' \in Nat
    BY <1>1
  <2> QED
    BY <1>1, <1>2, <2>2, <2>3, TextBegins
<1>4. CASE n # d.target
  <2>1. /\ c' = Consumed(n) /\ d' = [d EXCEPT !.target = d.target - n] /\ phase' = "leave"
        /\ UNCHANGED << stream, t, mem >>
    BY <1>1, <1>4 DEF SkipSkippable, Context
  <2>2. /\ SameBuffers /\ d'.remaining = d.remaining /\ d'.stage = "skipSkippable"
        /\ c'.ptr = c.ptr /\ c'.start = c.start
    BY <1>1, <2>1 DEF Context, SameBuffers, Consumed, CallState
  <2> QED
    BY <1>1, <2>1, <2>2, HeaderStaysText
<1> QED
  BY <1>3, <1>4

LEMMA InitFrameText ==
  ASSUME FrameInv, TextInv, FrameInv', InitFrame, UNCHANGED resets
  PROVE  TextInv'
PROOF
<1> DEFINE needed == maxBlockSize + IF f.linked THEN 2 * KB64 ELSE 0
<1>1. /\ phase = "loop" /\ d.stage = "init" /\ d \in Context /\ t \in TextState
      /\ stream \in Seq(IntactFrame) /\ stream # << >> /\ t.block = 0
      /\ c.ptr \in Int /\ c.start \in Int /\ t.delivered \in Nat
  BY DEF FrameInv, FrameDecoderTypeOK, TargetsFit, InitFrame, Stop, CallState, TextState
<1>2. /\ stream' = stream /\ c' = c /\ t' = t /\ phase' = phase /\ f' = f /\ TextUpTo' = TextUpTo
  BY DEF InitFrame, f, TextUpTo
<1>3. KB64 \in Nat /\ maxBlockSize \in Nat /\ DictSize \in Nat /\ TMP \in Nat /\ DICT \in Nat /\ TMP < DICT
      /\ TMP = DstSize + 1 /\ DstSize \in Nat
  BY FormatFacts, MemoryFacts
<1>4. /\ d'.stage = "getBlockHeader" /\ d'.xxh = 0 /\ d'.remaining = d.remaining
      /\ d'.dict = d.dict /\ d'.dictSize = d.dictSize
      /\ d'.maxBufferSize = (IF needed > d.maxBufferSize THEN needed ELSE d.maxBufferSize)
  BY <1>1 DEF InitFrame, Context
<1>5. SameOutside(mem, mem', TMP, DICT)
  <2>1. CASE mem' = mem
    BY <2>1 DEF SameOutside
  <2>2. CASE mem' = [a \in Memory |-> IF a \in TMP .. DICT - 1 THEN Garbage ELSE mem[a]]
    BY <1>3, <2>2, MemoryFacts DEF SameOutside
  <2> QED
    BY <2>1, <2>2 DEF InitFrame
<1>6. /\ ~f.skippable /\ d.remaining = (IF f.sized THEN f.size - t.decoded ELSE 0)
      /\ t.decoded = t.delivered + Lag /\ t.decoded = TextUpTo[t.block]
  BY <1>1 DEF TextInv, CountsRight, CountsBlocks, Counting
<1>7. t.decoded = 0 /\ t.delivered = 0 /\ Lag = 0 /\ Lag' = 0
  <2>1. TextUpTo[0] = 0
    BY <1>1, <1>6, TextUpToFacts
  <2>2. Lag = 0 /\ Lag' = 0
    BY <1>1, <1>4 DEF Lag
  <2> QED
    BY <1>1, <1>6, <2>1, <2>2
<1>8. CountsRight'
  <2>1. t'.decoded = t'.delivered + Lag'
    BY <1>2, <1>7
  <2> QED
    BY <1>2, <1>4, <1>6, <1>7, <2>1 DEF CountsRight, HeaderStages
<1>9. CountsBlocks'
  BY <1>2, <1>4, <1>6 DEF CountsBlocks
<1>10. PICK end \in Int, zero \in Int : end = DICT + DictSize /\ zero = 0
  BY <1>3
<1>11. HeldBack(mem', end, zero, DictSize)
  <2>1. HeldBack(mem, end, zero, DictSize)
    BY <1>10 DEF TextInv, DictionaryKept
  <2>2. 0 <= end - DictSize /\ end <= DICT + DictSize + 1 /\ DICT <= end - DictSize
    BY <1>3, <1>10
  <2> QED
    BY <1>3, <1>5, <2>1, <2>2, KeptOutside
<1>12. DictionaryKept'
  BY <1>10, <1>11 DEF DictionaryKept
<1>13. AtDictionary
  BY <1>1 DEF TextInv, HistoryBegins
<1>14. HistoryKept'
  <2>1. AtDictionary'
    BY <1>4, <1>13 DEF AtDictionary
  <2>2. PICK reach \in Int : reach = Reach(zero, zero) /\ reach <= DictSize
    <3>1. Reach(zero, zero) \in Int /\ Reach(zero, zero) <= zero + DictSize
      BY ReachFacts
    <3> QED
      BY <1>3, <1>10, <3>1
  <2>3. reach <= d'.dictSize /\ HeldBack(mem', d'.dict + d'.dictSize, zero, reach)
        /\ InPlace(d'.dict, d'.dictSize, Filled')
    <3>1. CASE DictSize = 0
      <4>1. d'.dictSize = 0 /\ reach <= 0
        BY <2>1, <2>2, <3>1 DEF AtDictionary
      <4> QED
        BY <4>1, HeldNone DEF InPlace
    <3>2. CASE DictSize > 0
      <4>1. d'.dict = DICT /\ d'.dictSize = DictSize
        BY <1>4, <1>13, <3>2 DEF AtDictionary
      <4>2. HeldBack(mem', end, zero, reach)
        BY <1>3, <1>11, <2>2, HeldFewer
      <4> QED
        BY <1>10, <2>2, <4>1, <4>2 DEF InPlace
    <3> QED
      BY <1>3, <3>1, <3>2
  <2>4. Lag' = zero /\ t'.delivered = zero
    BY <1>2, <1>7, <1>10
  <2> QED
    BY <2>1, <2>2, <2>3, <2>4 DEF HistoryKept
<1>15. HandedOut'
  <2> SUFFICES ASSUME c.ptr # NULL
               PROVE  HeldBack(mem', c.ptr, t.delivered, c.ptr - c.start)
    BY <1>2 DEF HandedOut
  <2>1. PICK sent \in Int, ptr \in Int, last \in Int : sent = c.ptr - c.start /\ ptr = c.ptr /\ last = t.delivered
    BY <1>1
  <2>2. HeldBack(mem, ptr, last, sent)
    BY <1>1, <2>1 DEF TextInv, HandedOut
  <2>3. 0 <= c.start /\ c.start <= c.ptr /\ c.ptr + c.room <= DstSize /\ c.room \in Nat
    BY DEF FrameInv, InOutput, FrameDecoderTypeOK, CallState
  <2>4. c.ptr \in Int /\ c.start \in Int
    BY <1>1
  <2>5. 0 <= ptr - sent /\ ptr <= DICT + DictSize + 1 /\ ptr <= TMP
    BY <1>3, <2>1, <2>3, <2>4
  <2> QED
    BY <1>3, <1>5, <2>1, <2>2, <2>5, KeptOutside
<1>16. HistoryBegins' /\ BlockInTmpOut'
  BY <1>4 DEF HistoryBegins, BlockInTmpOut
<1>17. ResetsLeaveNothing'
  BY <1>2 DEF TextInv, ResetsLeaveNothing
<1>18. d'.maxBufferSize <= maxBlockSize + 2 * KB64
  <2>1. d.maxBufferSize <= maxBlockSize + 2 * KB64
    BY DEF TextInv
  <2>2. needed <= maxBlockSize + 2 * KB64
    BY <1>3
  <2> HIDE DEF needed
  <2> QED
    BY <1>4, <2>1, <2>2
<1>19. phase' # "error"
  BY <1>1, <1>2
<1> QED
  BY Zenon, <1>8, <1>9, <1>12, <1>14, <1>15, <1>16, <1>17, <1>18, <1>19 DEF TextInv

LEMMA BlocksStayText ==
  ASSUME FrameInv, TextInv, FrameInv', phase = "loop", phase' \in { "loop", "leave" },
         UNCHANGED << stream, mem, resets >>, SameBuffers,
         d.stage \in Built \ { "flushOut" }, d'.stage \in Built \ { "flushOut" },
         d'.remaining = d.remaining, d'.xxh = d.xxh, t'.decoded = t.decoded, t'.delivered = t.delivered,
         c'.ptr = c.ptr, c'.start = c.start, CountsBlocks'
  PROVE  TextInv'
PROOF
<1>1. PICK none \in Nat : none = 0 /\ Lag = none /\ Lag' = none
  BY DEF Lag
<1>2. TextGrows(none, none)
  BY <1>1, NothingDelivered DEF SameBuffers
<1>3. c.ptr \in Int /\ t.delivered \in Nat
  BY DEF FrameInv, FrameDecoderTypeOK, CallState, TextState
<1>4. c'.ptr = c.ptr + none /\ t'.delivered = t.delivered + none /\ d'.maxBufferSize = d.maxBufferSize
  BY <1>1, <1>3 DEF SameBuffers
<1>5. BlockInTmpOut'
  BY DEF BlockInTmpOut
<1>6. CountsRight'
  <2>1. f' = f
    BY DEF f
  <2>2. Lag' = Lag
    BY <1>1
  <2>3. d.stage \in Counting /\ d.stage # "init" /\ d'.stage \notin HeaderStages
    BY DEF Counting, Built, InBlocks, HeaderStages
  <2> QED
    BY <2>1, <2>2, <2>3 DEF TextInv, CountsRight
<1> QED
  BY <1>1, <1>2, <1>4, <1>5, <1>6, TextGrown

LEMMA BlockHeaderReadText ==
  ASSUME FrameInv, TextInv, FrameInv', phase = "loop", d.stage \in { "getBlockHeader", "storeBlockHeader" },
         NEW bytes, IsDue(bytes), DecodeBlockHeader(bytes), SameOutput, UNCHANGED resets
  PROVE  TextInv'
PROOF
<1>1. /\ d \in Context /\ t \in TextState /\ stream \in Seq(IntactFrame) /\ stream # << >>
      /\ t.block \in Nat /\ t.block <= Len(f.blocks)
      /\ d.stage \in Built \ { "flushOut" }
  BY DEF FrameInv, FrameDecoderTypeOK, TargetsFit, TextState, Built, InBlocks
<1>2. /\ t.block \in Nat /\ t.block <= Len(f.blocks) /\ Len(f.blocks) \in Nat
  BY <1>1, FrameFacts
<1>3. /\ stream' = stream /\ mem' = mem /\ f' = f /\ TextUpTo' = TextUpTo
      /\ t'.block = t.block + 1 /\ t'.decoded = t.decoded /\ t'.delivered = t.delivered
      /\ c'.ptr = c.ptr /\ c'.start = c.start
  BY <1>1 DEF DecodeBlockHeader, TextState, f, TextUpTo, SameOutput
<1>4. /\ ~f.skippable /\ t.decoded = t.delivered + Lag /\ t.decoded = TextUpTo[t.block]
      /\ d.remaining = (IF f.sized THEN f.size - t.decoded ELSE 0) /\ d.xxh = t.decoded
      /\ t.decoded \in Nat
  BY <1>1 DEF TextInv, CountsRight, CountsBlocks, Counting, Built, InBlocks, TextState
<1>5. CASE t.block = Len(f.blocks)
  <2>1. d' = [d EXCEPT !.stage = "getSuffix"] /\ phase' = phase
    BY <1>5 DEF DecodeBlockHeader
  <2>2. /\ SameBuffers /\ d'.stage = "getSuffix" /\ d'.remaining = d.remaining /\ d'.xxh = d.xxh
    BY <1>1, <2>1 DEF Context, SameBuffers
  <2>3. Lag' = Lag
    BY <1>1, <2>2 DEF Lag
  <2>4. CountsRight'
    BY <1>3, <1>4, <2>2, <2>3 DEF CountsRight, HeaderStages
  <2>5. t.decoded = f.size
    BY <1>1, <1>4, <1>5, TextUpToFacts
  <2>6. CountsBlocks'
    BY <1>3, <1>5, <2>2, <2>5 DEF CountsBlocks
  <2>7. d'.stage \notin Built /\ d'.stage \notin Beginning /\ d.stage # "getFrameHeader"
    BY <1>1, <2>2 DEF Built, InBlocks, Beginning
  <2> QED
    BY <1>1, <1>3, <2>1, <2>2, <2>4, <2>6, <2>7, TextUntouched
<1>6. CASE t.block # Len(f.blocks)
  <2> DEFINE next == f.blocks[t.block + 1]
  <2>1. b' = next
    BY <1>3 DEF b
  <2>2. PICK now \in Nat : now = t.block + 1 /\ now - 1 = t.block /\ 0 < now /\ now <= Len(f.blocks)
    BY <1>2, <1>6
  <2>3. next.csize \in Nat /\ next.csize - next.csize = 0
    <3>1. next.csize \in Nat
      BY <1>1, <2>2, BlockFacts
    <3> HIDE DEF next
    <3> QED
      BY <3>1
  <2>4. TextUpTo'[t'.block - 1] = t.decoded
    BY <1>3, <1>4, <2>2
  <2> HIDE DEF next
  <2>5. CASE next.raw
    <3>1. /\ d' = [d EXCEPT !.target = next.csize, !.blockSum = 0, !.stage = "copyDirect"]
          /\ phase' = phase
      BY <1>6, <2>5 DEF DecodeBlockHeader, next
    <3>2. /\ SameBuffers /\ d'.stage = "copyDirect" /\ d'.remaining = d.remaining /\ d'.xxh = d.xxh
          /\ d'.target = next.csize
      BY <1>1, <3>1 DEF Context, SameBuffers
    <3>3. CountsBlocks'
      <4>1. t.decoded = TextUpTo'[t'.block - 1] + (next.csize - next.csize)
        BY <1>4, <2>3, <2>4
      <4>2. b'.raw /\ t'.decoded = TextUpTo'[t'.block - 1] + (b'.csize - d'.target)
        BY <1>3, <2>1, <2>5, <3>2, <4>1
      <4> QED
        BY <3>2, <4>2 DEF CountsBlocks
    <3>4. d'.stage \in Built \ { "flushOut" }
      BY <3>2 DEF Built, InBlocks
    <3> QED
      BY <1>1, <1>3, <3>1, <3>2, <3>3, <3>4, BlocksStayText
  <2>6. CASE ~next.raw
    <3>1. /\ d' = [d EXCEPT !.target = next.csize + crcSize, !.stage = "getCBlock"]
          /\ phase' \in { "loop", "leave" }
      BY <1>6, <2>6 DEF DecodeBlockHeader, next
    <3>2. /\ SameBuffers /\ d'.stage = "getCBlock" /\ d'.remaining = d.remaining /\ d'.xxh = d.xxh
      BY <1>1, <3>1 DEF Context, SameBuffers
    <3>3. CountsBlocks'
      BY <1>3, <2>4, <3>2 DEF CountsBlocks
    <3>4. d'.stage \in Built \ { "flushOut" }
      BY <3>2 DEF Built, InBlocks
    <3> QED
      BY <1>1, <1>3, <3>1, <3>2, <3>3, <3>4, BlocksStayText
  <2> QED
    BY <2>5, <2>6
<1> QED
  BY <1>5, <1>6

LEMMA GetBlockHeaderText ==
  ASSUME FrameInv, TextInv, FrameInv', GetBlockHeader, UNCHANGED resets
  PROVE  TextInv'
PROOF
<1>1. /\ phase = "loop" /\ d.stage = "getBlockHeader" /\ d \in Context /\ c \in CallState
      /\ t.due \in Nat /\ c.at = t.due /\ d.stage \in Built \ { "flushOut" }
  BY DEF FrameInv, FrameDecoderTypeOK, InField, GetBlockHeader, Stop, TextState, Built, InBlocks
<1>2. CASE c.given >= BHSize
  <2>1. DecodeBlockHeader(Bytes(c.at, BHSize)) /\ c' = Consumed(BHSize)
    BY <1>2 DEF GetBlockHeader
  <2>2. IsDue(Bytes(c.at, BHSize))
    BY <1>1, FormatFacts, DueFacts
  <2>3. SameOutput
    BY <1>1, <2>1 DEF SameOutput, Consumed, CallState
  <2> QED
    BY <1>1, <2>1, <2>2, <2>3, BlockHeaderReadText
<1>3. CASE ~(c.given >= BHSize)
  <2>1. /\ d' = [d EXCEPT !.held = << >>, !.stage = "storeBlockHeader"]
        /\ UNCHANGED << stream, c, t, mem, phase >>
    BY <1>3 DEF GetBlockHeader
  <2>2. /\ SameBuffers /\ d'.stage = "storeBlockHeader" /\ d'.remaining = d.remaining /\ d'.xxh = d.xxh
        /\ d'.stage \in Built \ { "flushOut" }
    BY <1>1, <2>1 DEF Context, SameBuffers, Built, InBlocks
  <2>3. CountsBlocks'
    <3>1. TextUpTo' = TextUpTo
      BY <2>1 DEF TextUpTo, f
    <3> QED
      BY <1>1, <2>1, <2>2, <3>1 DEF TextInv, CountsBlocks
  <2> QED
    BY <1>1, <2>1, <2>2, <2>3, BlocksStayText
<1> QED
  BY <1>2, <1>3

LEMMA StoreBlockHeaderText ==
  ASSUME FrameInv, TextInv, FrameInv', StoreBlockHeader, UNCHANGED resets
  PROVE  TextInv'
PROOF
<1> DEFINE k == Lesser(BHSize - Len(d.held), c.given)
<1>1. phase = "loop" /\ d.stage = "storeBlockHeader" /\ d.stage \in Storing
  BY DEF StoreBlockHeader, Stop, Storing
<1>2. BHSize \in Nat /\ BHSize = FieldSize
  BY <1>1, FormatFacts DEF FieldSize
<1>3. /\ c' = Consumed(k)
      /\ Len(Gathered(BHSize)) < BHSize =>
           /\ d' = [d EXCEPT !.held = Gathered(BHSize)] /\ phase' = "leave"
           /\ UNCHANGED << stream, t, mem >>
      /\ ~(Len(Gathered(BHSize)) < BHSize) => DecodeBlockHeader(Gathered(BHSize))
  BY DEF StoreBlockHeader, Gather
<1>4. CASE Len(Gathered(BHSize)) < BHSize
  BY <1>1, <1>2, <1>3, <1>4, InputEndsText
<1>5. CASE ~(Len(Gathered(BHSize)) < BHSize)
  <2>1. IsDue(Gathered(BHSize)) /\ SameOutput
    BY <1>1, <1>2, <1>3, <1>5, FieldWhole DEF SameOutput
  <2> QED
    BY <1>1, <1>3, <1>5, <2>1, BlockHeaderReadText
<1> QED
  BY <1>4, <1>5

LEMMA BlockCheckedText ==
  ASSUME FrameInv, TextInv, FrameInv', phase = "loop", d.stage = "getBlockChecksum",
         NEW bytes, IsDue(bytes), CheckBlock(bytes), SameOutput, UNCHANGED resets
  PROVE  TextInv'
PROOF
<1>1. /\ d \in Context /\ t \in TextState /\ d.blockSum = b.csize /\ d.stage \in Built \ { "flushOut" }
  BY DEF FrameInv, FrameDecoderTypeOK, TargetsFit, Built, InBlocks
<1>2. /\ d' = [d EXCEPT !.stage = "getBlockHeader"] /\ t' = [t EXCEPT !.due = t.due + BFSize]
      /\ UNCHANGED << stream, mem, phase >>
  BY <1>1 DEF CheckBlock, TextState
<1>3. t'.block = t.block /\ t'.decoded = t.decoded /\ t'.delivered = t.delivered /\ TextUpTo' = TextUpTo
  BY <1>1, <1>2 DEF TextState, TextUpTo, f
<1>4. /\ SameBuffers /\ d'.stage = "getBlockHeader" /\ d'.remaining = d.remaining /\ d'.xxh = d.xxh
      /\ d'.stage \in Built \ { "flushOut" }
  BY <1>1, <1>2 DEF Context, SameBuffers, Built, InBlocks
<1>5. CountsBlocks'
  BY <1>3, <1>4 DEF TextInv, CountsBlocks
<1> QED
  BY <1>1, <1>2, <1>3, <1>4, <1>5, BlocksStayText DEF SameOutput

LEMMA GetBlockChecksumText ==
  ASSUME FrameInv, TextInv, FrameInv', GetBlockChecksum, UNCHANGED resets
  PROVE  TextInv'
PROOF
<1> DEFINE k == Lesser(BFSize - Len(d.held), c.given)
<1>1. /\ phase = "loop" /\ d.stage = "getBlockChecksum" /\ d.stage \in Storing
      /\ c \in CallState /\ t.due \in Nat /\ c.at = t.due + Len(d.held)
  BY DEF GetBlockChecksum, Stop, Storing, FrameInv, FrameDecoderTypeOK, TextState, InField
<1>2. BFSize \in Nat /\ BFSize = FieldSize
  BY <1>1, FormatFacts DEF FieldSize
<1>3. CASE c.given >= BFSize /\ d.held = << >>
  <2>1. CheckBlock(Bytes(c.at, BFSize)) /\ c' = Consumed(BFSize)
    BY <1>3 DEF GetBlockChecksum
  <2>2. c.at = t.due
    BY <1>1, <1>3
  <2>3. IsDue(Bytes(c.at, BFSize))
    BY <1>1, <1>2, <2>2, DueFacts
  <2>4. SameOutput
    BY <1>1, <2>1 DEF SameOutput, Consumed, CallState
  <2> QED
    BY <1>1, <2>1, <2>3, <2>4, BlockCheckedText
<1>4. CASE ~(c.given >= BFSize /\ d.held = << >>)
  <2>1. /\ c' = Consumed(k)
        /\ Len(Gathered(BFSize)) < BFSize =>
             /\ d' = [d EXCEPT !.held = Gathered(BFSize)] /\ phase' = "leave"
             /\ UNCHANGED << stream, t, mem >>
        /\ ~(Len(Gathered(BFSize)) < BFSize) => CheckBlock(Gathered(BFSize))
    BY <1>4 DEF GetBlockChecksum, Gather
  <2>2. CASE Len(Gathered(BFSize)) < BFSize
    BY <1>1, <1>2, <2>1, <2>2, InputEndsText
  <2>3. CASE ~(Len(Gathered(BFSize)) < BFSize)
    <3>1. IsDue(Gathered(BFSize)) /\ SameOutput
      BY <1>1, <1>2, <2>1, <2>3, FieldWhole DEF SameOutput
    <3> QED
      BY <1>1, <2>1, <2>3, <3>1, BlockCheckedText
  <2> QED
    BY <2>2, <2>3
<1> QED
  BY <1>3, <1>4

-----------------------------------------------------------------------------
(* Blocks, and what they add to the text.                                  *)
LEMMA CountsAppended ==
  ASSUME FrameInv, TextInv, d.stage \in Built, d'.stage \in Built, stream' = stream, NEW n \in Nat,
         t'.decoded = t.decoded + n, d'.remaining = Counted(n),
         d'.xxh = Update(d.xxh, Bytes(t.decoded, n)), t'.decoded = t'.delivered + Lag'
  PROVE  CountsRight'
PROOF
<1>1. f' = f
  BY DEF f
<1>2. /\ ~f.skippable /\ d.remaining = (IF f.sized THEN f.size - t.decoded ELSE 0)
      /\ d.xxh = t.decoded
  BY DEF TextInv, CountsRight, Counting, Built, InBlocks
<1>3. t.decoded \in Nat /\ f.size \in Nat
  <2> stream \in Seq(IntactFrame) /\ stream # << >>
    BY DEF FrameInv, FrameDecoderTypeOK, TargetsFit, Built, InBlocks
  <2> QED
    BY FrameFacts DEF FrameInv, FrameDecoderTypeOK, TextState
<1>4. d'.remaining = (IF f.sized THEN f.size - t'.decoded ELSE 0)
  <2>1. CASE f.sized
    <3>1. d'.remaining = f.size - t.decoded - n
      BY <1>2, <2>1 DEF Counted
    <3> QED
      BY <1>3, <2>1, <3>1
  <2>2. CASE ~f.sized
    BY <1>2, <2>2 DEF Counted
  <2> QED
    BY <2>1, <2>2
<1>5. d'.xxh = t'.decoded
  <2>1. PICK from \in Int : from = t.decoded
    BY <1>3
  <2>2. Len(Bytes(from, n)) = n
    BY BytesFacts
  <2>3. Update(from, Bytes(from, n)) = from + n
    BY <2>2 DEF Update
  <2> QED
    BY <1>2, <2>1, <2>3
<1>6. d'.stage \notin HeaderStages /\ d'.stage # "init"
  BY DEF Built, InBlocks, HeaderStages
<1> QED
  BY <1>1, <1>2, <1>4, <1>5, <1>6 DEF CountsRight

LEMMA DeliverKeeps ==
  ASSUME NEW m, NEW s, NEW withinTmp, NEW after \in Context, Deliver(m, s, withinTmp, after)
  PROVE  /\ d'.stage = after.stage /\ d'.target = after.target /\ d'.xxh = after.xxh
         /\ d'.remaining = after.remaining /\ d'.maxBufferSize = after.maxBufferSize
         /\ d'.tmpOut = after.tmpOut /\ d'.tmpOutSize = after.tmpOutSize
         /\ d'.tmpOutStart = after.tmpOutStart
PROOF
<1>1. PICK dict, size : d' = [after EXCEPT !.dict = dict, !.dictSize = size]
  BY Zenon DEF Deliver
<1> QED
  BY <1>1 DEF Context

LEMMA CopyDirectText ==
  ASSUME FrameInv, TextInv, FrameInv', CopyDirect, UNCHANGED resets
  PROVE  TextInv'
PROOF
<1> DEFINE n == IF c.ptr = NULL THEN 0 ELSE Lesser(d.target, Lesser(c.given, c.room))
           s == IF c.at = t.due + b.csize - d.target THEN Bytes(t.decoded, n)
                ELSE [k \in 1 .. n |-> Garbage]
           sum   == d.blockSum + n
           xxh   == Update(d.xxh, s)
           left  == d.target - n
           rest  == Counted(n)
           held  == IF n = d.target THEN << >> ELSE d.held
           stage == IF n < d.target THEN "copyDirect"
                    ELSE IF f.blockChecksum THEN "getBlockChecksum" ELSE "getBlockHeader"
           after == [d EXCEPT !.blockSum = sum, !.xxh = xxh, !.target = left, !.remaining = rest,
                              !.held = held, !.stage = stage]
<1>1. /\ phase = "loop" /\ d.stage = "copyDirect" /\ d \in Context /\ c \in CallState
      /\ t \in TextState /\ stream \in Seq(IntactFrame) /\ stream # << >>
      /\ t.block \in Nat /\ t.block <= Len(f.blocks) /\ t.block > 0
      /\ d.held \in Seq(Int) /\ d.stage \in Built
  BY DEF FrameInv, FrameDecoderTypeOK, TargetsFit, CopyDirect, Stop, TextState, Context,
         Built, OfBlock, InBlocks
<1>2. /\ t.decoded \in Nat /\ t.delivered \in Nat
      /\ d.target \in Nat /\ 0 < d.target /\ d.blockSum \in Nat
      /\ c.given \in Nat /\ c.room \in Nat /\ c.ptr \in Int
  <2>1. c.given \in Nat /\ c.room \in Nat /\ c.ptr \in Int
    BY <1>1 DEF CallState
  <2>2. d.target \in Nat /\ d.blockSum \in Nat /\ t.decoded \in Nat /\ t.delivered \in Nat
    BY <1>1 DEF Context, TextState
  <2>3. 0 < d.target
    BY <1>1 DEF FrameInv, TargetsFit
  <2> QED
    BY <2>1, <2>2, <2>3
<1>3. c.at = t.due + b.csize - d.target
  BY <1>1 DEF FrameInv, InField
<1>4. /\ ~f.skippable /\ b.raw /\ t.decoded = TextUpTo[t.block - 1] + (b.csize - d.target)
      /\ t.decoded = t.delivered + Lag
  BY <1>1 DEF TextInv, CountsRight, CountsBlocks, Counting
<1>5. b.csize \in Nat /\ b.size = b.csize
  BY <1>1, <1>4, BlockFacts DEF b
<1>6. Lag = 0 /\ t.delivered = t.decoded
  <2>1. Lag = 0
    BY <1>1 DEF Lag
  <2> QED
    BY <1>2, <1>4, <2>1
<1>7. /\ TextUpTo[t.block] = TextUpTo[t.block - 1] + b.size /\ TextUpTo[t.block - 1] \in Nat
  <2>1. /\ \A k \in 1 .. Len(f.blocks) : TextUpTo[k] = TextUpTo[k - 1] + f.blocks[k].size
        /\ \A k \in 0 .. Len(f.blocks) : TextUpTo[k] \in Nat
    BY <1>1, <1>4, TextUpToFacts
  <2>2. PICK k \in Nat, len \in Nat : k = t.block /\ len = Len(f.blocks) /\ 0 < k /\ k <= len
    BY <1>1, FrameFacts
  <2>3. k \in 1 .. len /\ k - 1 \in 0 .. len
    BY <2>2
  <2> QED
    BY <2>1, <2>2, <2>3 DEF b
<1>8. /\ n \in Nat /\ n <= d.target /\ n <= c.room /\ (c.ptr = NULL => n = 0)
  <2>1. PICK x \in Nat, y \in Nat, z \in Nat : x = d.target /\ y = c.given /\ z = c.room
    BY <1>2
  <2>2. PICK u \in Nat : u = Lesser(y, z) /\ u <= z
    <3>1. Lesser(y, z) \in Nat /\ Lesser(y, z) <= z
      BY LesserFacts
    <3> QED
      BY <3>1
  <2>3. PICK v \in Nat : v = Lesser(x, u) /\ v <= x /\ v <= u
    <3>1. Lesser(x, u) \in Nat /\ Lesser(x, u) <= x /\ Lesser(x, u) <= u
      BY LesserFacts
    <3> QED
      BY <3>1
  <2>4. n = IF c.ptr = NULL THEN 0 ELSE v
    BY <2>1, <2>2, <2>3
  <2> HIDE DEF n
  <2> QED
    BY <1>2, <2>1, <2>2, <2>3, <2>4
<1> HIDE DEF n
<1>9. s = Bytes(t.decoded, n) /\ s = Bytes(t.delivered, n) /\ Len(s) = n
  <2>1. s = Bytes(t.decoded, n)
    BY <1>3
  <2>2. Len(Bytes(t.decoded, n)) = n
    <3> t.decoded \in Int /\ n \in Nat
      BY <1>2, <1>8
    <3> QED
      BY BytesFacts
  <2> HIDE DEF s
  <2> QED
    BY <1>6, <2>1, <2>2
<1>10. /\ c.ptr = NULL => d' = d /\ mem' = mem
       /\ c.ptr # NULL => Deliver(mem, s, FALSE, after)
       /\ t'.decoded = t.decoded + n /\ t'.delivered = t.delivered + n /\ t'.block = t.block
       /\ c'.start = c.start /\ c'.ptr = (IF c.ptr = NULL THEN c.ptr ELSE c.ptr + n)
       /\ phase' = (IF n = d.target THEN phase ELSE "leave")
       /\ stream' = stream
  <2>1. /\ c.ptr = NULL => d' = d /\ mem' = mem
        /\ c.ptr # NULL => Deliver(mem, s, FALSE, after)
    BY <1>1 DEF CopyDirect, n, Context
  <2>2. t'.decoded = t.decoded + n /\ t'.delivered = t.delivered + n /\ t'.block = t.block
    BY <1>1 DEF CopyDirect, n, TextState
  <2>3. c'.start = c.start /\ c'.ptr = (IF c.ptr = NULL THEN c.ptr ELSE c.ptr + n)
    BY <1>1 DEF CopyDirect, n, CallState, Consumed
  <2>4. phase' = (IF n = d.target THEN phase ELSE "leave") /\ stream' = stream
    BY DEF CopyDirect, n
  <2> QED
    BY <2>1, <2>2, <2>3, <2>4
<1>11. f' = f /\ b' = b /\ TextUpTo' = TextUpTo /\ phase' \in { "loop", "leave" }
  BY <1>1, <1>10 DEF f, b, TextUpTo
<1>12. /\ sum \in Nat /\ xxh \in Int /\ left \in Nat /\ rest \in Int /\ held \in Seq(Int)
       /\ stage \in DecoderStages /\ stage \in Built /\ stage # "flushOut"
  <2>1. sum \in Nat /\ left \in Nat
    BY <1>2, <1>8
  <2>2. xxh \in Int /\ rest \in Int
    <3> Len(s) \in Nat
      BY <1>8, <1>9
    <3> HIDE DEF s
    <3> QED
      BY <1>8, UpdateFacts, CountedFacts
  <2>3. held \in Seq(Int)
    BY <1>1, NothingHeld
  <2>4. stage \in DecoderStages /\ stage \in Built /\ stage # "flushOut"
    BY DEF DecoderStages, InBlocks, Built
  <2> QED
    BY <2>1, <2>2, <2>3, <2>4
<1>13. CASE c.ptr = NULL
  <2>1. d' = d /\ mem' = mem /\ n = 0 /\ c'.ptr = c.ptr
    BY <1>8, <1>10, <1>13
  <2>2. t'.decoded = t.decoded /\ t'.delivered = t.delivered
    BY <1>2, <1>10, <2>1
  <2>3. SameBuffers /\ d.stage \in Built \ { "flushOut" }
    BY <1>1, <2>1 DEF SameBuffers
  <2>4. CountsBlocks'
    BY <1>10, <1>11, <2>1, <2>2 DEF TextInv, CountsBlocks
  <2> QED
    BY <1>1, <1>10, <1>11, <2>1, <2>2, <2>3, <2>4, BlocksStayText
<1>14. CASE c.ptr # NULL
  <2> HIDE DEF s, sum, xxh, left, rest, held, stage
  <2>1. after \in Context
    BY <1>1, <1>12 DEF Context
  <2>2. /\ after.stage = stage /\ after.xxh = xxh /\ after.remaining = rest /\ after.target = left
        /\ after.maxBufferSize = d.maxBufferSize
    BY <1>1 DEF Context
  <2>3. PICK withinTmp \in BOOLEAN : ~withinTmp
    OBVIOUS
  <2>4. Deliver(mem, s, withinTmp, after)
    <3> withinTmp = FALSE
      BY <2>3
    <3> QED
      BY <1>10, <1>14
  <2> HIDE DEF after
  <2>5. /\ d'.stage = stage /\ d'.xxh = xxh /\ d'.remaining = rest /\ d'.target = left
        /\ d'.maxBufferSize = d.maxBufferSize
    BY <2>1, <2>2, <2>4, DeliverKeeps
  <2>6. PICK none \in Nat : none = 0
    OBVIOUS
  <2>7. TextGrows(n, none)
    <3>1. d.stage \in Built /\ d.stage # "flushOut" /\ phase = "loop"
      BY <1>1
    <3>2. s = Bytes(t.delivered, n) /\ n \in Nat /\ n <= c.room
      BY <1>8, <1>9
    <3> QED
      BY <1>14, <2>1, <2>3, <2>4, <2>6, <3>1, <3>2, TextDelivered
  <2>8. Lag' = none
    BY <1>12, <2>5, <2>6 DEF Lag
  <2>9. CountsRight'
    <3>1. t'.decoded = t'.delivered + Lag'
      BY <1>2, <1>6, <1>8, <1>10, <2>6, <2>8
    <3>2. d'.xxh = Update(d.xxh, Bytes(t.decoded, n)) /\ d'.remaining = Counted(n)
      BY <1>9, <2>5 DEF xxh, rest
    <3> QED
      BY <1>1, <1>8, <1>10, <1>12, <2>5, <3>1, <3>2, CountsAppended
  <2>10. CountsBlocks'
    <3>1. CASE n < d.target
      <4>1. d'.stage = "copyDirect" /\ d'.target = d.target - n
        BY <2>5, <3>1 DEF stage, left
      <4>2. t.decoded + n = TextUpTo[t.block - 1] + (b.csize - (d.target - n))
        <5>1. PICK x \in Nat, y \in Nat, z \in Nat, w \in Nat :
                x = TextUpTo[t.block - 1] /\ y = b.csize /\ z = d.target /\ w = t.decoded /\ w = x + (y - z)
          BY <1>2, <1>4, <1>5, <1>7
        <5>2. w + n = x + (y - (z - n))
          BY <1>8, <5>1
        <5> QED
          BY <5>1, <5>2
      <4> QED
        BY <1>4, <1>10, <1>11, <4>1, <4>2 DEF CountsBlocks
    <3>2. CASE ~(n < d.target)
      <4>1. n = d.target
        BY <1>2, <1>8, <3>2
      <4>2. t.decoded + n = TextUpTo[t.block]
        BY <1>2, <1>4, <1>5, <1>7, <4>1
      <4>3. d'.stage \in { "getBlockChecksum", "getBlockHeader" }
        BY <2>5, <3>2 DEF stage
      <4> QED
        BY <1>10, <1>11, <4>2, <4>3 DEF CountsBlocks
    <3> QED
      BY <3>1, <3>2
  <2>11. BlockInTmpOut'
    BY <1>12, <2>5 DEF BlockInTmpOut
  <2>12. c'.ptr = c.ptr + n /\ c'.start = c.start
    BY <1>10, <1>14
  <2> QED
    BY <1>1, <1>8, <1>10, <1>11, <1>12, <1>14, <2>5, <2>6, <2>7, <2>8, <2>9, <2>10, <2>11, <2>12, TextGrown
<1> QED
  BY <1>13, <1>14

LEMMA BlockReadText ==
  ASSUME FrameInv, TextInv, FrameInv', phase = "loop", d.stage \in OfBlocks,
         NEW bytes, IsDue(bytes), DecodeBlock(bytes), UNCHANGED resets,
         NEW fed \in CallState, c' = Produced(fed),
         fed.ptr = c.ptr, fed.start = c.start, fed.room = c.room
  PROVE  TextInv'
PROOF
<1> DEFINE rest == Counted(b.size)
<1>1. /\ d \in Context /\ t \in TextState /\ stream \in Seq(IntactFrame) /\ stream # << >>
      /\ d.stage \in Built
  BY DEF FrameInv, FrameDecoderTypeOK, TargetsFit, Built, InBlocks, OfBlocks
<1>2. d.stage # "flushOut" /\ d.stage \in { "getCBlock", "storeCBlock" }
  BY DEF OfBlocks
<1>3. /\ b.size \in Nat /\ b.size <= maxBlockSize /\ t.decoded \in Nat /\ t.delivered \in Nat
      /\ t.block \in Nat /\ t.block > 0
  BY BlockInHand
<1>4. c.room \in Nat /\ c.ptr \in Int /\ c.start \in Int /\ maxBlockSize \in Nat
  BY FormatFacts DEF FrameInv, FrameDecoderTypeOK, CallState
<1>5. /\ ~f.skippable /\ t.decoded = TextUpTo[t.block - 1] /\ t.decoded = t.delivered + Lag
  BY <1>1, <1>2 DEF TextInv, CountsRight, CountsBlocks, Counting
<1>6. t.delivered = t.decoded
  <2>1. Lag = 0
    BY <1>2 DEF Lag
  <2> QED
    BY <1>3, <1>5, <2>1
<1>7. TextUpTo[t.block] = t.decoded + b.size
  <2>1. \A k \in 1 .. Len(f.blocks) : TextUpTo[k] = TextUpTo[k - 1] + f.blocks[k].size
    BY <1>1, <1>5, TextUpToFacts
  <2>2. PICK k \in Nat, len \in Nat : k = t.block /\ len = Len(f.blocks) /\ 0 < k /\ k <= len
    BY <1>1, BlockInHand, FrameFacts
  <2>3. k \in 1 .. len
    BY <2>2
  <2> QED
    BY <1>5, <2>1, <2>2, <2>3 DEF b
<1>8. stream' = stream /\ phase' = phase /\ f' = f /\ TextUpTo' = TextUpTo
  BY DEF DecodeBlock, f, TextUpTo
<1>9. rest \in Int
  BY <1>3, CountedFacts
<1> HIDE DEF rest
<1>10. CASE c.room >= maxBlockSize
  <2> DEFINE s == Decoded(mem, d.dict, d.dictSize, c.ptr)
             xxh == Update(d.xxh, s)
             after == [d EXCEPT !.xxh = xxh, !.remaining = rest, !.stage = "getBlockHeader"]
             n == b.size
  <2>1. /\ Deliver(mem, s, FALSE, after)
        /\ t'.decoded = t.decoded + n /\ t'.delivered = t.delivered + n /\ t'.block = t.block
    <3>1. Deliver(mem, s, FALSE, after)
      BY <1>1, <1>10 DEF DecodeBlock, rest, Context
    <3>2. t'.decoded = t.decoded + n /\ t'.delivered = t.delivered + n /\ t'.block = t.block
      BY <1>1, <1>10 DEF DecodeBlock, TextState
    <3> QED
      BY <3>1, <3>2
  <2>2. s = Bytes(t.decoded, n) /\ s = Bytes(t.delivered, n)
    <3>1. s = Bytes(t.decoded, n)
      BY <1>10, DecodedDirect
    <3> QED
      BY <1>6, <3>1
  <2>3. c'.ptr = c.ptr + n /\ c'.start = c.start
    <3>1. ~(fed.room < maxBlockSize)
      BY <1>4, <1>10
    <3> QED
      BY <3>1 DEF Produced, CallState
  <2>4. n \in Nat /\ n <= c.room /\ c.ptr # NULL
    <3>1. c.room > 0
      BY <1>4, <1>10, FormatFacts
    <3>2. c.ptr # NULL
      BY <3>1 DEF FrameInv, InOutput
    <3> QED
      BY <1>3, <1>4, <1>10, <3>2
  <2>5. Len(s) \in Nat
    <3> t.decoded \in Int
      BY <1>3
    <3>1. Len(Bytes(t.decoded, n)) = n
      BY <2>4, BytesFacts
    <3> HIDE DEF s
    <3> QED
      BY <2>2, <2>4, <3>1
  <2> HIDE DEF s, n
  <2>6. xxh \in Int
    BY <2>5, UpdateFacts
  <2> HIDE DEF xxh
  <2>7. after \in Context
    BY <1>1, <1>9, <2>6 DEF Context, DecoderStages, InBlocks
  <2>8. /\ after.stage = "getBlockHeader" /\ after.xxh = xxh /\ after.remaining = rest
        /\ after.maxBufferSize = d.maxBufferSize
    BY <1>1 DEF Context
  <2>9. PICK withinTmp \in BOOLEAN : ~withinTmp
    OBVIOUS
  <2>10. Deliver(mem, s, withinTmp, after)
    <3> withinTmp = FALSE
      BY <2>9
    <3> QED
      BY <2>1
  <2> HIDE DEF after
  <2>11. /\ d'.stage = "getBlockHeader" /\ d'.xxh = xxh /\ d'.remaining = rest
         /\ d'.maxBufferSize = d.maxBufferSize
    BY <2>7, <2>8, <2>10, DeliverKeeps
  <2>12. PICK none \in Nat : none = 0
    OBVIOUS
  <2>13. TextGrows(n, none)
    BY <1>1, <1>2, <2>2, <2>4, <2>7, <2>9, <2>10, <2>12, TextDelivered
  <2>14. Lag' = none /\ d'.stage \in Built
    BY <2>11, <2>12 DEF Lag, Built, InBlocks
  <2>15. CountsRight'
    <3>1. t'.decoded = t'.delivered + Lag'
      BY <1>3, <1>6, <2>1, <2>4, <2>12, <2>14
    <3>2. d'.xxh = Update(d.xxh, Bytes(t.decoded, n)) /\ d'.remaining = Counted(n)
      BY <2>2, <2>11 DEF xxh, rest, n
    <3> QED
      BY <1>1, <1>8, <2>1, <2>4, <2>14, <3>1, <3>2, CountsAppended
  <2>16. CountsBlocks'
    <3>1. t'.decoded = TextUpTo'[t'.block]
      BY <1>7, <1>8, <2>1 DEF n
    <3> QED
      BY <2>11, <3>1 DEF CountsBlocks
  <2>17. BlockInTmpOut'
    BY <2>11 DEF BlockInTmpOut
  <2> QED
    BY <1>1, <1>8, <2>1, <2>3, <2>4, <2>11, <2>12, <2>13, <2>14, <2>15, <2>16, <2>17, TextGrown
<1>11. CASE ~(c.room >= maxBlockSize)
  <2> DEFINE s == Decoded(TmpOut.m, d.dict, TmpOut.dictSize, TmpOut.at)
             xxh == Update(d.xxh, s)
             to == TmpOut.at
             size == TmpOut.dictSize
             wrote == b.size
             zero == 0
  <2>1. /\ d' = [d EXCEPT !.xxh = xxh, !.remaining = rest, !.dictSize = size, !.tmpOut = to,
                          !.tmpOutSize = wrote, !.tmpOutStart = zero, !.stage = "flushOut"]
        /\ mem' = Put(TmpOut.m, TmpOut.at, s)
        /\ t'.decoded = t.decoded + wrote /\ t'.delivered = t.delivered /\ t'.block = t.block
    <3>1. /\ d' = [d EXCEPT !.xxh = xxh, !.remaining = rest, !.dictSize = size, !.tmpOut = to,
                            !.tmpOutSize = wrote, !.tmpOutStart = zero, !.stage = "flushOut"]
          /\ mem' = Put(TmpOut.m, TmpOut.at, s)
      BY <1>1, <1>11 DEF DecodeBlock, rest, Context
    <3>2. t'.decoded = t.decoded + wrote /\ t'.delivered = t.delivered /\ t'.block = t.block
      BY <1>1, <1>11 DEF DecodeBlock, TextState
    <3> QED
      BY <3>1, <3>2
  <2>2. /\ s = Bytes(t.decoded, wrote)
        /\ HeldBack(mem', DICT + DictSize, 0, DictSize)
        /\ c.ptr # NULL => HeldBack(mem', c.ptr, t.delivered, c.ptr - c.start)
        /\ HeldBack(mem', to + wrote, t.decoded + wrote, wrote)
        /\ f.linked =>
              /\ Reach(wrote, t.delivered) <= size
              /\ HeldBack(mem', d.dict + size, t.delivered, Reach(wrote, t.delivered))
              /\ InPlace(d.dict, size, c.ptr)
              /\ Reach(wrote, t.decoded) <= to - TMP
    BY <2>1, DecodedToTmpOut
  <2>3. ~f.linked => size = d.dictSize
    BY DEF TmpOut
  <2>4. c' = fed
    <3>1. fed.room < maxBlockSize
      BY <1>4, <1>11
    <3> QED
      BY <3>1 DEF Produced
  <2>5. wrote \in Nat /\ zero \in Nat /\ wrote - zero = wrote
    BY <1>3
  <2> HIDE DEF s, xxh, to, size, wrote, zero
  <2>6. /\ d'.stage = "flushOut" /\ d'.tmpOut = to /\ d'.tmpOutSize = wrote
        /\ d'.tmpOutStart = zero /\ d'.dict = d.dict /\ d'.dictSize = size
        /\ d'.maxBufferSize = d.maxBufferSize /\ d'.remaining = rest /\ d'.xxh = xxh
    BY <1>1, <2>1 DEF Context
  <2>7. d'.stage \in Built /\ Lag' = wrote /\ Filled' = c.ptr
    BY <1>8, <2>4, <2>5, <2>6 DEF Built, InBlocks, Lag, Filled
  <2>8. CountsRight'
    <3>1. t'.decoded = t'.delivered + Lag'
      BY <1>6, <2>1, <2>7
    <3>2. d'.xxh = Update(d.xxh, Bytes(t.decoded, wrote)) /\ d'.remaining = Counted(wrote)
      BY <2>2, <2>6 DEF xxh, rest, wrote
    <3> QED
      BY <1>1, <1>8, <2>1, <2>5, <2>7, <3>1, <3>2, CountsAppended
  <2>9. CountsBlocks'
    <3>1. t'.decoded = TextUpTo'[t'.block]
      BY <1>7, <1>8, <2>1 DEF wrote
    <3> QED
      BY <2>6, <3>1 DEF CountsBlocks
  <2>10. DictionaryKept'
    BY <2>2 DEF DictionaryKept
  <2>11. HistoryBegins'
    BY <2>6 DEF HistoryBegins
  <2>12. HistoryKept'
    <3>1. f.linked => /\ Reach(Lag', t'.delivered) <= d'.dictSize
                      /\ HeldBack(mem', d'.dict + d'.dictSize, t'.delivered, Reach(Lag', t'.delivered))
                      /\ InPlace(d'.dict, d'.dictSize, Filled')
      BY <2>1, <2>2, <2>6, <2>7
    <3>2. ~f.linked => AtDictionary'
      BY <1>1, <2>3, <2>6 DEF TextInv, HistoryKept, AtDictionary
    <3> QED
      BY <1>8, <3>1, <3>2 DEF HistoryKept
  <2>13. BlockInTmpOut'
    <3>1. HeldBack(mem', d'.tmpOut + d'.tmpOutSize, t'.decoded, d'.tmpOutSize)
      BY <2>1, <2>2, <2>6
    <3>2. t'.decoded - d'.tmpOutSize = t.decoded
      BY <1>3, <2>1, <2>5, <2>6
    <3>3. f.linked => Reach(d'.tmpOutSize, t'.decoded - d'.tmpOutSize) <= d'.tmpOut - TMP
      BY <2>2, <2>6, <3>2
    <3> QED
      BY <1>8, <3>1, <3>3 DEF BlockInTmpOut
  <2>14. HandedOut'
    BY <2>1, <2>2, <2>4 DEF HandedOut
  <2>15. ResetsLeaveNothing'
    BY <1>8 DEF TextInv, ResetsLeaveNothing
  <2>16. d'.maxBufferSize <= maxBlockSize + 2 * KB64
    BY <2>6 DEF TextInv
  <2>17. phase' # "error"
    BY <1>8
  <2> QED
    BY Zenon, <2>8, <2>9, <2>10, <2>11, <2>12, <2>13, <2>14, <2>15, <2>16, <2>17 DEF TextInv
<1> QED
  BY <1>10, <1>11

LEMMA GetCBlockText ==
  ASSUME FrameInv, TextInv, FrameInv', GetCBlock, UNCHANGED resets
  PROVE  TextInv'
PROOF
<1>1. /\ phase = "loop" /\ d.stage = "getCBlock" /\ d \in Context /\ c \in CallState
      /\ t.due \in Nat /\ c.at = t.due /\ c.given \in Nat /\ d.target \in Nat
      /\ d.stage \in Built \ { "flushOut" } /\ d.stage \in OfBlocks
  BY DEF FrameInv, FrameDecoderTypeOK, InField, GetCBlock, Stop, Context, CallState, TextState,
         Built, InBlocks, OfBlocks
<1>2. CASE c.given < d.target
  <2>1. /\ d' = [d EXCEPT !.held = << >>, !.stage = "storeCBlock"]
        /\ UNCHANGED << stream, c, t, mem, phase >>
    BY <1>2 DEF GetCBlock
  <2>2. /\ SameBuffers /\ d'.stage = "storeCBlock" /\ d'.remaining = d.remaining /\ d'.xxh = d.xxh
        /\ d'.stage \in Built \ { "flushOut" }
    BY <1>1, <2>1 DEF Context, SameBuffers, Built, InBlocks
  <2>3. CountsBlocks'
    <3>1. TextUpTo' = TextUpTo
      BY <2>1 DEF TextUpTo, f
    <3> QED
      BY <1>1, <2>1, <2>2, <3>1 DEF TextInv, CountsBlocks
  <2> QED
    BY <1>1, <2>1, <2>2, <2>3, BlocksStayText
<1>3. CASE ~(c.given < d.target)
  <2>1. DecodeBlock(Bytes(c.at, d.target)) /\ c' = Produced(Consumed(d.target))
    BY <1>3 DEF GetCBlock
  <2>2. IsDue(Bytes(c.at, d.target)) /\ d.target <= c.given
    BY <1>1, <1>3, DueFacts
  <2>3. /\ Consumed(d.target) \in CallState
        /\ Consumed(d.target).ptr = c.ptr /\ Consumed(d.target).start = c.start
        /\ Consumed(d.target).room = c.room
    BY <1>1, <2>2, ConsumedFacts
  <2> QED
    BY <1>1, <2>1, <2>2, <2>3, BlockReadText
<1> QED
  BY <1>2, <1>3

LEMMA StoreCBlockText ==
  ASSUME FrameInv, TextInv, FrameInv', StoreCBlock, UNCHANGED resets
  PROVE  TextInv'
PROOF
<1> DEFINE n == d.target
           k == Lesser(n - Len(d.held), c.given)
<1>1. phase = "loop" /\ d.stage = "storeCBlock" /\ d.stage \in Storing /\ d.stage \in OfBlocks
  BY DEF StoreCBlock, Stop, Storing, OfBlocks
<1>2. n \in Nat /\ n = FieldSize
  BY <1>1 DEF FieldSize, FrameInv, FrameDecoderTypeOK, Context
<1>3. CASE Len(Gathered(n)) < n
  <2>1. /\ c' = Consumed(k) /\ d' = [d EXCEPT !.held = Gathered(n)] /\ phase' = "leave"
        /\ UNCHANGED << stream, t, mem >>
    BY <1>3 DEF StoreCBlock, Gather
  <2> QED
    BY <1>1, <1>2, <1>3, <2>1, InputEndsText
<1>4. CASE ~(Len(Gathered(n)) < n)
  <2>1. DecodeBlock(Gathered(n)) /\ c' = Produced(Consumed(n - Len(d.held)))
    BY <1>4 DEF StoreCBlock
  <2>2. /\ IsDue(Gathered(n)) /\ Consumed(k) \in CallState /\ k = n - Len(d.held)
        /\ Consumed(k).ptr = c.ptr /\ Consumed(k).start = c.start
        /\ Consumed(k).room = c.room
    BY <1>1, <1>2, <1>4, FieldWhole
  <2>3. c' = Produced(Consumed(k))
    BY <2>1, <2>2
  <2> QED
    BY <1>1, <2>1, <2>2, <2>3, BlockReadText
<1> QED
  BY <1>3, <1>4

(* A decoded block goes to the caller in parts.                            *)
LEMMA FlushedText ==
  ASSUME FrameInv, TextInv, d.stage = "flushOut", NEW n \in Nat
  PROVE  n <= Lag =>
           [k \in 1 .. n |-> mem[d.tmpOut + d.tmpOutStart + k - 1]] = Bytes(t.delivered, n)
PROOF
<1>1. PICK out \in Int, outSize \in Nat, start \in Nat, last \in Nat, decoded \in Nat :
        /\ out = d.tmpOut /\ outSize = d.tmpOutSize /\ start = d.tmpOutStart
        /\ last = t.delivered /\ decoded = t.decoded
  BY DEF FrameInv, FrameDecoderTypeOK, Context, TextState
<1>2. Lag = outSize - start /\ decoded = last + (outSize - start)
  BY <1>1 DEF Lag, TextInv, CountsRight, Counting, Built, InBlocks
<1>3. HeldBack(mem, out + outSize, decoded, outSize)
  BY <1>1 DEF TextInv, BlockInTmpOut
<1>4. ASSUME n <= outSize - start, NEW k \in 1 .. n
      PROVE  mem[d.tmpOut + d.tmpOutStart + k - 1] = t.delivered + k - 1
  <2>1. PICK j \in Int, end \in Int, at \in Int, next \in Int :
          /\ j = outSize - (start + (k - 1)) /\ end = out + outSize
          /\ at = out + (start + (k - 1)) /\ next = last + (k - 1)
    <3>1. PICK off \in Int, next \in Int : off = start + (k - 1) /\ next = last + (k - 1)
      BY <1>1
    <3>2. PICK j \in Int, end \in Int, at \in Int : j = outSize - off /\ end = out + outSize /\ at = out + off
      BY <1>1, <3>1
    <3> QED
      BY <3>1, <3>2
  <2>2. j \in 1 .. outSize /\ end - j = at /\ decoded - j = next
    BY <1>1, <1>2, <1>4, <2>1
  <2>3. HeldBack(mem, end, decoded, outSize)
    BY <1>3, <2>1
  <2>4. mem[end - j] = decoded - j
    BY <2>2, <2>3 DEF HeldBack
  <2>5. mem[at] = next
    BY <2>2, <2>4
  <2>6. d.tmpOut + d.tmpOutStart + k - 1 = at /\ t.delivered + k - 1 = next
    BY <1>1, <2>1
  <2> QED
    BY <2>5, <2>6
<1>5. n <= outSize - start =>
        [k \in 1 .. n |-> mem[d.tmpOut + d.tmpOutStart + k - 1]]
          = [k \in 1 .. n |-> t.delivered + k - 1]
  BY <1>4
<1> QED
  BY <1>2, <1>5 DEF Bytes

LEMMA FlushOutText ==
  ASSUME FrameInv, TextInv, FrameInv', FlushOut, UNCHANGED resets
  PROVE  TextInv'
PROOF
<1> DEFINE n == Lesser(d.tmpOutSize - d.tmpOutStart, c.room)
           flushed == d.tmpOutStart + n = d.tmpOutSize
           sent == d.tmpOutStart + n
           stage == IF flushed THEN "getBlockHeader" ELSE "flushOut"
           after == [d EXCEPT !.tmpOutStart = sent, !.stage = stage]
           s == [k \in 1 .. n |-> mem[d.tmpOut + d.tmpOutStart + k - 1]]
<1>1. /\ phase = "loop" /\ d.stage = "flushOut" /\ d.stage \in Built
      /\ d \in Context /\ c \in CallState /\ t \in TextState
  BY DEF FrameInv, FrameDecoderTypeOK, FlushOut, Stop, Built, InBlocks
<1>2. /\ d.tmpOutSize \in Nat /\ d.tmpOutStart \in Nat /\ d.tmpOutStart <= d.tmpOutSize
      /\ c.room \in Nat /\ c.ptr \in Int /\ t.delivered \in Nat /\ t.decoded \in Nat
  <2>1. c.room \in Nat /\ c.ptr \in Int /\ t.delivered \in Nat /\ t.decoded \in Nat
    BY <1>1 DEF CallState, TextState
  <2>2. d.tmpOutSize \in Nat /\ d.tmpOutStart \in Nat
    BY <1>1 DEF Context
  <2> QED
    BY <1>1, <2>1, <2>2 DEF FrameInv, Buffers
<1>3. PICK lag \in Nat : lag = Lag /\ lag = d.tmpOutSize - d.tmpOutStart
  BY <1>1, <1>2 DEF Lag
<1>4. n \in Nat /\ n <= c.room /\ n <= lag
  <2>1. PICK x \in Nat, y \in Nat : x = lag /\ y = c.room
    BY <1>2
  <2>2. Lesser(x, y) \in Nat /\ Lesser(x, y) <= x /\ Lesser(x, y) <= y
    BY LesserFacts
  <2>3. n = Lesser(x, y)
    BY <1>3, <2>1
  <2> HIDE DEF n
  <2> QED
    BY <2>1, <2>2, <2>3
<1> HIDE DEF n
<1>5. c.ptr = NULL => n = 0
  <2>1. c.ptr = NULL => c.room = 0
    BY DEF FrameInv, InOutput
  <2> QED
    BY <1>2, <1>4, <2>1
<1>6. PICK left \in Nat : left = lag - n
  BY <1>4
<1>7. /\ c.ptr = NULL => d' = after /\ c' = c /\ mem' = mem
      /\ c.ptr # NULL => Deliver(mem, s, TRUE, after)
      /\ c.ptr # NULL => c'.ptr = c.ptr + n /\ c'.start = c.start
      /\ t'.delivered = t.delivered + n /\ t'.decoded = t.decoded /\ t'.block = t.block
      /\ phase' = IF flushed THEN phase ELSE "leave"
      /\ stream' = stream
  <2>1. /\ c.ptr = NULL => d' = after /\ c' = c /\ mem' = mem
        /\ c.ptr # NULL => Deliver(mem, s, TRUE, after)
    BY <1>1 DEF FlushOut, n, Context
  <2>2. /\ c.ptr # NULL => c'.ptr = c.ptr + n /\ c'.start = c.start
        /\ t'.delivered = t.delivered + n /\ t'.decoded = t.decoded /\ t'.block = t.block
    BY <1>1 DEF FlushOut, n, CallState, TextState
  <2>3. phase' = (IF flushed THEN phase ELSE "leave") /\ stream' = stream
    BY DEF FlushOut, n
  <2> QED
    BY <2>1, <2>2, <2>3
<1>8. phase' \in { "loop", "leave" } /\ f' = f /\ TextUpTo' = TextUpTo
  BY <1>1, <1>7 DEF f, TextUpTo
<1>9. stage \in { "getBlockHeader", "flushOut" } /\ (stage = "flushOut" => ~flushed)
      /\ (stage = "getBlockHeader" => flushed)
  OBVIOUS
<1>10. after \in Context
  <2>1. stage \in DecoderStages
    BY DEF DecoderStages, InBlocks
  <2>2. sent \in Nat
    BY <1>2, <1>4
  <2> HIDE DEF sent, stage
  <2> QED
    BY <1>1, <2>1, <2>2 DEF Context
<1>11. /\ after.maxBufferSize = d.maxBufferSize /\ after.tmpOut = d.tmpOut
       /\ after.tmpOutSize = d.tmpOutSize /\ after.tmpOutStart = sent
       /\ after.stage = stage /\ after.xxh = d.xxh /\ after.remaining = d.remaining
       /\ after.dict = d.dict /\ after.dictSize = d.dictSize
  BY <1>1 DEF Context
<1>12. /\ d'.stage = stage /\ d'.xxh = d.xxh /\ d'.remaining = d.remaining
       /\ d'.maxBufferSize = d.maxBufferSize /\ d'.tmpOut = d.tmpOut
       /\ d'.tmpOutSize = d.tmpOutSize /\ d'.tmpOutStart = sent
       /\ TextGrows(n, left) /\ c'.ptr = c.ptr + n /\ c'.start = c.start
  <2>1. CASE c.ptr = NULL
    <3>1. d' = after /\ c' = c /\ mem' = mem /\ n = 0 /\ left = Lag
      BY <1>3, <1>5, <1>6, <1>7, <2>1
    <3>2. d'.dict = d.dict /\ d'.dictSize = d.dictSize
      BY <1>11, <3>1
    <3>3. TextGrows(n, left)
      BY <1>1, <1>4, <3>1, <3>2, NothingDelivered
    <3>4. c'.ptr = c.ptr + n /\ c'.start = c.start
      BY <1>2, <3>1
    <3> HIDE DEF after, stage, sent
    <3> QED
      BY <1>11, <3>1, <3>3, <3>4
  <2>2. CASE c.ptr # NULL
    <3>1. PICK withinTmp \in BOOLEAN : withinTmp
      OBVIOUS
    <3>2. Deliver(mem, s, withinTmp, after)
      <4> withinTmp = TRUE
        BY <3>1
      <4> QED
        BY <1>7, <2>2
    <3>3. s = Bytes(t.delivered, n)
      <4> n <= Lag
        BY <1>3, <1>4
      <4> QED
        BY <1>1, <1>4, FlushedText
    <3> HIDE DEF s, after, stage, sent
    <3>4. TextGrows(n, left)
      <4>1. n <= Lag /\ left = Lag - n
        BY <1>3, <1>4, <1>6
      <4> QED
        BY <1>1, <1>4, <1>10, <2>2, <3>1, <3>2, <3>3, <4>1, TextDelivered
    <3>5. /\ d'.stage = after.stage /\ d'.xxh = after.xxh
          /\ d'.remaining = after.remaining /\ d'.maxBufferSize = after.maxBufferSize
          /\ d'.tmpOut = after.tmpOut /\ d'.tmpOutSize = after.tmpOutSize
          /\ d'.tmpOutStart = after.tmpOutStart
      BY <1>10, <3>2, DeliverKeeps
    <3> QED
      BY <1>7, <1>11, <2>2, <3>4, <3>5
  <2> QED
    BY <2>1, <2>2
<1> HIDE DEF after, s
<1>13. d'.stage \in Built /\ d'.stage \in { "getBlockHeader", "flushOut" }
  BY <1>9, <1>12 DEF Built, InBlocks
<1>14. Lag' = left
  <2>1. CASE flushed
    <3>1. d'.stage = "getBlockHeader"
      BY <1>12, <2>1
    <3>2. left = 0
      BY <1>2, <1>3, <1>4, <1>6, <2>1
    <3> QED
      BY <3>1, <3>2 DEF Lag
  <2>2. CASE ~flushed
    <3>1. d'.stage = "flushOut"
      BY <1>12, <2>2
    <3>2. d'.tmpOutSize - d'.tmpOutStart = left
      BY <1>2, <1>3, <1>4, <1>6, <1>12
    <3> QED
      BY <3>1, <3>2 DEF Lag
  <2> QED
    BY <2>1, <2>2
<1> HIDE DEF stage, sent, flushed
<1>15. /\ ~f.skippable /\ d.remaining = (IF f.sized THEN f.size - t.decoded ELSE 0)
       /\ t.decoded = t.delivered + lag /\ d.xxh = t.decoded /\ t.decoded = TextUpTo[t.block]
  BY <1>1, <1>3 DEF TextInv, CountsRight, CountsBlocks, Counting
<1>16. CountsRight'
  <2>1. t'.decoded = t'.delivered + Lag'
    BY <1>2, <1>4, <1>6, <1>7, <1>14, <1>15
  <2> QED
    BY <1>7, <1>8, <1>12, <1>13, <1>15, <2>1 DEF CountsRight, HeaderStages
<1>17. CountsBlocks'
  BY <1>7, <1>8, <1>13, <1>15 DEF CountsBlocks
<1>18. BlockInTmpOut'
  <2>1. HeldBack(mem', d.tmpOut + d.tmpOutSize, t.decoded, d.tmpOutSize)
    BY <1>1, <1>12 DEF TextGrows
  <2>2. f.linked => Reach(d.tmpOutSize, t.decoded - d.tmpOutSize) <= d.tmpOut - TMP
    BY <1>1 DEF TextInv, BlockInTmpOut
  <2> QED
    BY <1>7, <1>8, <1>12, <2>1, <2>2 DEF BlockInTmpOut
<1> QED
  BY <1>1, <1>4, <1>5, <1>7, <1>8, <1>12, <1>13, <1>14, <1>16, <1>17, <1>18, TextGrown

-----------------------------------------------------------------------------
(* The end of a frame: all of its text has been decoded and handed out.    *)
LEMMA AllOfText ==
  ASSUME FrameInv, TextInv, phase = "loop", d.stage \in Ending
  PROVE  d.remaining = 0 /\ d.xxh = f.size /\ stream # << >>
PROOF
<1>1. stream \in Seq(IntactFrame) /\ stream # << >>
  BY DEF FrameInv, FrameDecoderTypeOK, TargetsFit
<1>2. f.size \in Nat
  BY <1>1, FrameFacts DEF f
<1>3. /\ d.remaining = (IF f.sized THEN f.size - t.decoded ELSE 0)
      /\ d.xxh = t.decoded /\ t.decoded = f.size
  BY DEF TextInv, CountsRight, CountsBlocks, Counting, Ending
<1> QED
  BY <1>1, <1>2, <1>3

LEMMA SuffixReadText ==
  ASSUME FrameInv, TextInv, phase = "loop", d.stage \in Ending, FrameDone, UNCHANGED resets
  PROVE  TextInv'
PROOF
<1>1. d.remaining = 0 /\ stream # << >>
  BY AllOfText
<1>2. d' = Reset(d) /\ stream' = Tail(stream) /\ t' = NewText /\ mem' = mem /\ phase' \in { "idle", "leave" }
  BY DEF FrameDone
<1>3. resets' \in Nat
  BY DEF TextInv, ResetsLeaveNothing
<1> QED
  BY <1>1, <1>2, <1>3, TextBegins

LEMMA GetSuffixText ==
  ASSUME FrameInv, TextInv, FrameInv', GetSuffix, UNCHANGED resets
  PROVE  TextInv'
PROOF
<1>1. /\ phase = "loop" /\ d.stage = "getSuffix" /\ d.stage \in Ending /\ d \in Context
      /\ t.due \in Nat /\ c.at = t.due
  BY DEF GetSuffix, Stop, Ending, FrameInv, FrameDecoderTypeOK, InField, TextState
<1>2. d.remaining = 0 /\ d.xxh = f.size
  BY <1>1, AllOfText
<1>3. CASE ~f.checksum
  <2>1. FrameDone
    BY <1>2, <1>3 DEF GetSuffix
  <2> QED
    BY <1>1, <2>1, SuffixReadText
<1>4. CASE f.checksum /\ c.given < BFSize
  <2>1. d' = [d EXCEPT !.held = << >>, !.stage = "storeSuffix"] /\ UNCHANGED << stream, c, t, mem, phase >>
    BY <1>2, <1>4 DEF GetSuffix
  <2>2. /\ SameBuffers /\ d'.stage = "storeSuffix" /\ d'.remaining = d.remaining /\ d'.xxh = d.xxh
    BY <1>1, <2>1 DEF Context, SameBuffers
  <2>3. d'.stage \notin Built /\ d'.stage \notin Beginning
    BY <2>2 DEF Built, InBlocks, Beginning
  <2>4. f' = f /\ Lag' = Lag
    BY <1>1, <2>1, <2>2 DEF f, Lag
  <2>5. CountsRight' /\ CountsBlocks'
    <3>1. /\ ~f.skippable /\ d.remaining = (IF f.sized THEN f.size - t.decoded ELSE 0)
          /\ t.decoded = t.delivered + Lag /\ d.xxh = t.decoded
          /\ t.block = Len(f.blocks) + 1 /\ t.decoded = f.size
      BY <1>1 DEF TextInv, CountsRight, CountsBlocks, Counting
    <3>2. CountsRight'
      BY <2>1, <2>2, <2>4, <3>1 DEF CountsRight, HeaderStages
    <3>3. CountsBlocks'
      BY <2>1, <2>2, <2>4, <3>1 DEF CountsBlocks
    <3> QED
      BY <3>2, <3>3
  <2> QED
    BY <1>1, <2>1, <2>2, <2>3, <2>5, TextUntouched
<1>5. CASE f.checksum /\ ~(c.given < BFSize)
  <2>1. CheckSuffix(Bytes(c.at, BFSize))
    BY <1>2, <1>5 DEF GetSuffix
  <2>2. BFSize \in Nat
    BY FormatFacts
  <2>3. IsDue(Bytes(c.at, BFSize))
    BY <1>1, <2>2, DueFacts
  <2>4. FrameDone
    BY <1>2, <2>1, <2>3 DEF CheckSuffix
  <2> QED
    BY <1>1, <2>4, SuffixReadText
<1> QED
  BY <1>3, <1>4, <1>5

LEMMA StoreSuffixText ==
  ASSUME FrameInv, TextInv, FrameInv', StoreSuffix, UNCHANGED resets
  PROVE  TextInv'
PROOF
<1> DEFINE k == Lesser(BFSize - Len(d.held), c.given)
<1>1. phase = "loop" /\ d.stage = "storeSuffix" /\ d.stage \in Storing /\ d.stage \in Ending
  BY DEF StoreSuffix, Stop, Storing, Ending
<1>2. BFSize \in Nat /\ BFSize = FieldSize
  BY <1>1, FormatFacts DEF FieldSize
<1>3. CASE Len(Gathered(BFSize)) < BFSize
  <2>1. /\ c' = Consumed(k) /\ d' = [d EXCEPT !.held = Gathered(BFSize)] /\ phase' = "leave"
        /\ UNCHANGED << stream, t, mem >>
    BY <1>3 DEF StoreSuffix, Gather
  <2> QED
    BY <1>1, <1>2, <2>1, InputEndsText
<1>4. CASE ~(Len(Gathered(BFSize)) < BFSize)
  <2>1. CheckSuffix(Gathered(BFSize))
    BY <1>4 DEF StoreSuffix
  <2>2. IsDue(Gathered(BFSize))
    BY <1>1, <1>2, <1>4, FieldWhole
  <2>3. d.xxh = f.size
    BY <1>1, AllOfText
  <2>4. FrameDone
    BY <2>1, <2>2, <2>3 DEF CheckSuffix
  <2> QED
    BY <1>1, <2>4, SuffixReadText
<1> QED
  BY <1>3, <1>4

-----------------------------------------------------------------------------
(* Between calls what is counted stays as it is.                           *)
LEMMA TextWaits ==
  ASSUME FrameInv, TextInv, phase \in { "idle", "leave" }, phase' \in { "idle", "loop" },
         stream' = stream, t' = t, resets' = resets,
         d'.stage = d.stage, d'.maxBufferSize = d.maxBufferSize, d'.remaining = d.remaining,
         d'.xxh = d.xxh, d'.target = d.target, d'.tmpOutSize = d.tmpOutSize,
         d'.tmpOutStart = d.tmpOutStart,
         DictionaryKept', HistoryBegins', HistoryKept', BlockInTmpOut', HandedOut'
  PROVE  TextInv'
PROOF
<1>1. phase' # "error" /\ d'.maxBufferSize <= maxBlockSize + 2 * KB64
  <2>1. d.maxBufferSize <= maxBlockSize + 2 * KB64
    BY DEF TextInv
  <2>2. phase' # "error"
    OBVIOUS
  <2> QED
    BY Zenon, <2>1, <2>2
<1>2. f' = f /\ b' = b /\ TextUpTo' = TextUpTo /\ Lag' = Lag
  BY DEF f, b, TextUpTo, Lag
<1>3. CountsRight'
  BY <1>2 DEF TextInv, CountsRight
<1>4. CountsBlocks'
  BY <1>2 DEF TextInv, CountsBlocks
<1>5. ResetsLeaveNothing'
  BY DEF TextInv, ResetsLeaveNothing
<1> QED
  BY Zenon, <1>1, <1>3, <1>4, <1>5, DictionaryKept', HistoryBegins', HistoryKept', BlockInTmpOut',
     HandedOut' DEF TextInv

(* The history that a call saves.                                          *)
LEMMA DictionaryBehind ==
  ASSUME FrameInv, TextInv, NEW now, NEW lo \in Int, NEW hi \in Int, hi <= DICT,
         SameOutside(mem, now, lo, hi)
  PROVE  HeldBack(now, DICT + DictSize, 0, DictSize)
PROOF
<1>1. PICK end \in Int, none \in Int, size \in Nat :
        end = DICT + DictSize /\ none = 0 /\ size = DictSize
  BY MemoryFacts, FormatFacts
<1>2. HeldBack(mem, end, none, size)
  BY <1>1 DEF TextInv, DictionaryKept
<1>3. 0 <= end - size /\ end <= DICT + DictSize + 1 /\ hi <= end - size
  <2>1. DICT \in Nat /\ DictSize \in Nat
    BY MemoryFacts, FormatFacts
  <2> QED
    BY <1>1, <2>1
<1>4. HeldBack(now, end, none, size)
  BY <1>2, <1>3, KeptOutside
<1> QED
  BY <1>1, <1>4

LEMMA LeaveText ==
  ASSUME FrameInv, TextInv, FrameInv', Leave
  PROVE  TextInv'
PROOF
<1> DEFINE keeps == d.stage \in InBlocks /\ f.linked /\ d.dict \notin { TMP, NULL } /\ ~StableDst
<1>1. /\ phase = "leave" /\ phase' = "idle" /\ stream' = stream /\ c' = c /\ t' = t
      /\ resets' = resets /\ f' = f
  BY DEF Leave, f
<1>2. /\ d \in Context /\ c \in CallState /\ t \in TextState /\ d.stage # "init"
      /\ t.delivered \in Nat /\ t.decoded \in Nat /\ c.ptr \in Int /\ d.dict \in Int
      /\ d.dictSize \in Nat /\ d.tmpOut \in Int /\ d.tmpOutSize \in Nat /\ d.tmpOutStart \in Nat
  BY <1>1 DEF FrameInv, FrameDecoderTypeOK, TargetsFit, Context, CallState, TextState
<1>3. HandedOut' /\ (d'.dictSize = d.dictSize \/ d'.stage \in Built => HistoryBegins')
  <2>1. HandedOut'
    BY <1>1 DEF HandedOut
  <2>2. d'.stage \in Built => HistoryBegins'
    BY DEF HistoryBegins, Built, InBlocks
  <2>3. d.stage = d'.stage /\ d'.dictSize = d.dictSize => HistoryBegins'
    BY <1>1 DEF TextInv, HistoryBegins
  <2>4. d'.stage = d.stage
    BY <1>2 DEF Leave, Context
  <2> QED
    BY <2>1, <2>2, <2>3, <2>4
<1>4. CASE ~keeps
  <2>1. d' = d /\ mem' = mem
    BY <1>4 DEF Leave
  <2>2. DictionaryKept' /\ BlockInTmpOut'
    BY <1>1, <2>1 DEF TextInv, DictionaryKept, BlockInTmpOut
  <2>3. HistoryKept'
    <3>1. f.linked /\ d.stage \in Built => InPlace(d.dict, d.dictSize, Filled')
      <4> SUFFICES ASSUME f.linked, d.stage \in Built PROVE InPlace(d.dict, d.dictSize, Filled')
        OBVIOUS
      <4>1. InPlace(d.dict, d.dictSize, c.ptr)
        BY <1>1 DEF TextInv, HistoryKept, Filled
      <4>2. CASE StableDst
        BY <1>1, <4>1, <4>2 DEF Filled
      <4>3. CASE d.dict = TMP
        BY <4>3 DEF InPlace
      <4>4. CASE d.dict = NULL
        <5>1. NULL # TMP /\ NULL # DICT /\ ~(0 <= NULL)
          BY MemoryFacts
        <5> QED
          BY <4>1, <4>4, <5>1 DEF InPlace
      <4> QED
        BY <1>4, <4>2, <4>3, <4>4 DEF Built
    <3>2. Lag' = Lag
      BY <2>1 DEF Lag
    <3> QED
      BY <1>1, <2>1, <3>1, <3>2 DEF TextInv, HistoryKept, AtDictionary
  <2> QED
    BY <1>1, <1>3, <2>1, <2>2, <2>3, TextWaits
<1>5. CASE keeps
  <2>1. d.stage \in Built /\ f.linked
    BY <1>2, <1>5 DEF Built
  <2>2. /\ Reach(Lag, t.delivered) <= d.dictSize
        /\ HeldBack(mem, d.dict + d.dictSize, t.delivered, Reach(Lag, t.delivered))
    BY <2>1 DEF TextInv, HistoryKept
  <2>3. /\ d.maxBufferSize <= maxBlockSize + 2 * KB64 /\ d.maxBufferSize \in Nat /\ TMP \in Nat
        /\ DICT \in Nat /\ TMP + d.maxBufferSize < DICT
    <3>1. d.maxBufferSize <= maxBlockSize + 2 * KB64
      BY DEF TextInv
    <3> QED
      BY <3>1, BufferBelow
  <2>4. TMP <= d.tmpOut /\ d.tmpOut + d.tmpOutSize <= TMP + d.maxBufferSize
    BY <2>1 DEF FrameInv, Buffers
  <2>5. CASE d.stage = "flushOut"
    <3> DEFINE size == d.tmpOut - TMP + d.tmpOutStart
    <3>1. mem' = InFrontOfTmpOut(mem, d.dict, d.dictSize)
          /\ d' = [d EXCEPT !.dict = TMP, !.dictSize = size]
      BY <1>5, <2>5 DEF Leave
    <3>2. d.tmpOutStart <= d.tmpOutSize
      BY <2>5 DEF FrameInv, Buffers
    <3>3. PICK lag \in Nat, none \in Nat :
            lag = d.tmpOutSize - d.tmpOutStart /\ lag = Lag /\ none = 0
      BY <1>2, <2>5, <3>2 DEF Lag
    <3>4. t.decoded = t.delivered + lag
      BY <2>5, <3>3 DEF TextInv, CountsRight, Counting, Built, InBlocks
    <3>5. /\ HeldBack(mem, d.tmpOut + d.tmpOutSize, t.decoded, d.tmpOutSize)
          /\ Reach(d.tmpOutSize, t.decoded - d.tmpOutSize) <= d.tmpOut - TMP
      BY <2>1, <2>5 DEF TextInv, BlockInTmpOut
    <3>6. /\ HeldBack(mem, d.tmpOut + d.tmpOutSize, t.delivered + lag, d.tmpOutSize)
          /\ Reach(d.tmpOutSize, t.delivered + lag - d.tmpOutSize) <= d.tmpOut - TMP
      <4> t.decoded - d.tmpOutSize = t.delivered + lag - d.tmpOutSize
        BY <1>2, <3>3, <3>4
      <4> QED
        BY <3>4, <3>5
    <3>7. none <= lag
      BY <3>3
    <3>8. HeldBack(mem, d.dict + d.dictSize, t.delivered, Reach(lag, t.delivered))
      BY <2>2, <3>3
    <3>9. /\ SameOutside(mem, mem', TMP, d.tmpOut)
          /\ HeldBack(mem', d.tmpOut + d.tmpOutStart + none, t.delivered + none,
                      Reach(lag - none, t.delivered + none))
          /\ Reach(lag - none, t.delivered + none) <= d.tmpOut - TMP + d.tmpOutStart + none
      <4>1. PICK dict \in Int, length \in Nat, last \in Int :
              dict = d.dict /\ length = d.dictSize /\ last = t.delivered
        BY <1>2
      <4>2. mem' = InFrontOfTmpOut(mem, dict, length)
        BY <3>1, <4>1
      <4>3. HeldBack(mem, dict + length, last, Reach(lag, last))
        BY <3>8, <4>1
      <4>4. /\ HeldBack(mem, d.tmpOut + d.tmpOutSize, last + lag, d.tmpOutSize)
            /\ Reach(d.tmpOutSize, last + lag - d.tmpOutSize) <= d.tmpOut - TMP
        BY <3>6, <4>1
      <4>5. lag = d.tmpOutSize - d.tmpOutStart /\ d.maxBufferSize <= maxBlockSize + 2 * KB64
        BY <2>3, <3>3
      <4>6. /\ SameOutside(mem, mem', TMP, d.tmpOut)
            /\ HeldBack(mem', d.tmpOut + d.tmpOutStart + none, last + none,
                        Reach(lag - none, last + none))
            /\ Reach(lag - none, last + none) <= d.tmpOut - TMP + d.tmpOutStart + none
        BY <2>5, <3>3, <3>7, <4>1, <4>2, <4>3, <4>4, <4>5, HistoryInFront
      <4> QED
        BY <4>1, <4>6
    <3>10. /\ size \in Nat /\ d.tmpOut + d.tmpOutStart + none = TMP + size
           /\ t.delivered + none = t.delivered /\ lag - none = lag
           /\ d.tmpOut - TMP + d.tmpOutStart + none = size
      BY <1>2, <2>3, <2>4, <3>3
    <3>11. HeldBack(mem', TMP + size, t.delivered, Reach(lag, t.delivered))
           /\ Reach(lag, t.delivered) <= size
      BY <3>9, <3>10
    <3> HIDE DEF size
    <3>12. /\ d'.stage = d.stage /\ d'.maxBufferSize = d.maxBufferSize /\ d'.remaining = d.remaining
           /\ d'.xxh = d.xxh /\ d'.target = d.target /\ d'.tmpOutSize = d.tmpOutSize
           /\ d'.tmpOutStart = d.tmpOutStart /\ d'.tmpOut = d.tmpOut
           /\ d'.dict = TMP /\ d'.dictSize = size
      BY <1>2, <3>1 DEF Context
    <3>13. DictionaryKept'
      <4>1. d.tmpOut <= DICT
        BY <1>2, <2>3, <2>4
      <4>2. TMP \in Int
        BY <2>3
      <4> QED
        BY <1>2, <3>9, <4>1, <4>2, DictionaryBehind DEF DictionaryKept
    <3>14. BlockInTmpOut'
      <4>1. PICK end \in Int : end = d.tmpOut + d.tmpOutSize
        BY <1>2
      <4>2. 0 <= end - d.tmpOutSize /\ end <= DICT + DictSize + 1 /\ d.tmpOut <= end - d.tmpOutSize
        <5>1. DictSize \in Nat
          BY FormatFacts
        <5> QED
          BY <1>2, <2>3, <2>4, <4>1, <5>1
      <4>3. HeldBack(mem, end, t.decoded, d.tmpOutSize)
        BY <3>5, <4>1
      <4>4. TMP \in Int
        BY <2>3
      <4>5. HeldBack(mem', end, t.decoded, d.tmpOutSize)
        BY <1>2, <3>9, <4>2, <4>3, <4>4, KeptOutside
      <4> QED
        BY <1>1, <3>5, <3>12, <4>1, <4>5 DEF BlockInTmpOut
    <3>15. HistoryKept'
      <4>1. Lag' = lag
        BY <3>3, <3>12 DEF Lag
      <4>2. InPlace(d'.dict, d'.dictSize, Filled')
        BY <3>12 DEF InPlace
      <4> QED
        BY <1>1, <2>1, <3>11, <3>12, <4>1, <4>2 DEF HistoryKept
    <3> QED
      BY <1>1, <1>3, <2>1, <3>12, <3>13, <3>14, <3>15, TextWaits
  <2>6. CASE d.stage # "flushOut"
    <3>1. PICK size \in Nat, half \in Nat :
            /\ half = KB64 /\ size = Lesser(d.dictSize, KB64)
            /\ size <= half /\ size <= d.dictSize /\ (size = half \/ size = d.dictSize)
      <4>1. PICK x \in Nat, y \in Nat : x = d.dictSize /\ y = KB64
        BY <1>2, FormatFacts
      <4>2. Lesser(x, y) \in Nat /\ Lesser(x, y) <= x /\ Lesser(x, y) <= y /\ Lesser(x, y) \in { x, y }
        BY LesserFacts DEF Lesser
      <4> QED
        BY <4>1, <4>2
    <3>2. PICK to \in Int, from \in Int, end \in Int :
            /\ to = TMP + size /\ from = d.dict + d.dictSize - size /\ end = d.dict + d.dictSize
      BY <1>2, <2>3, <3>1
    <3>3. mem' = Copy(mem, TMP, from, size) /\ d' = [d EXCEPT !.dict = TMP, !.dictSize = size, !.tmpOut = to]
      BY <1>5, <2>6, <3>1, <3>2 DEF Leave
    <3>4. /\ d'.stage = d.stage /\ d'.maxBufferSize = d.maxBufferSize /\ d'.remaining = d.remaining
          /\ d'.xxh = d.xxh /\ d'.target = d.target /\ d'.tmpOutSize = d.tmpOutSize
          /\ d'.tmpOutStart = d.tmpOutStart /\ d'.dict = TMP /\ d'.dictSize = size
      BY <1>2, <3>3 DEF Context
    <3>5. PICK zero \in Int : zero = 0 /\ Lag = zero /\ Lag' = zero
      BY <2>6, <3>4 DEF Lag
    <3>6. PICK w \in Int : w = Reach(zero, t.delivered) /\ w <= size
      <4>1. PICK w \in Int : w = Reach(zero, t.delivered) /\ w <= KB64 - zero
        <5>1. PICK last \in Int : last = t.delivered
          BY <1>2
        <5>2. Reach(zero, last) \in Int /\ Reach(zero, last) <= KB64 - zero
          BY <3>5, ReachFacts
        <5> QED
          BY <5>1, <5>2
      <4>2. w <= d.dictSize
        BY <2>2, <3>5, <4>1
      <4>3. w <= half
        BY <3>1, <3>5, <4>1
      <4> QED
        BY <3>1, <4>1, <4>2, <4>3
    <3>7. to <= DICT /\ 0 <= TMP /\ to <= DICT + DictSize + 1 /\ end = from + size
      <4>1. size <= d.maxBufferSize
        <5>1. PICK x \in Nat, y \in Nat : x = maxBlockSize + (IF f.linked THEN 2 * KB64 ELSE 0)
                                          /\ x = y + 2 * half
          BY <2>1, <3>1, FormatFacts
        <5>2. x <= d.maxBufferSize
          BY <2>1, <5>1 DEF FrameInv, Buffers
        <5> QED
          BY <2>3, <3>1, <5>1, <5>2
      <4>2. DictSize \in Nat
        BY FormatFacts
      <4> QED
        BY <1>2, <2>3, <3>2, <4>1, <4>2
    <3>8. HeldBack(mem', to, t.delivered, w)
      <4>1. HeldBack(mem, end, t.delivered, w)
        BY <2>2, <3>2, <3>5, <3>6
      <4>2. TMP \in Int
        BY <2>3
      <4> QED
        BY <1>2, <3>2, <3>3, <3>6, <3>7, <4>1, <4>2, CopyHolds
    <3>9. DictionaryKept'
      <4>1. TMP \in Int /\ TMP <= TMP /\ TMP + size <= to
        BY <2>3, <3>2
      <4>2. SameOutside(mem, mem', TMP, to)
        BY <3>2, <3>3, <4>1, CopySameOutside
      <4> QED
        BY <3>7, <4>1, <4>2, DictionaryBehind DEF DictionaryKept
    <3>10. BlockInTmpOut'
      BY <2>6, <3>4 DEF BlockInTmpOut
    <3>11. HistoryKept'
      <4>1. InPlace(d'.dict, d'.dictSize, Filled')
        BY <3>4 DEF InPlace
      <4>2. /\ Reach(Lag', t'.delivered) = w /\ d'.dict + d'.dictSize = to
        BY <1>1, <3>2, <3>4, <3>5, <3>6
      <4> QED
        BY <1>1, <2>1, <3>4, <3>6, <3>8, <4>1, <4>2 DEF HistoryKept
    <3> QED
      BY <1>1, <1>3, <2>1, <3>4, <3>9, <3>10, <3>11, TextWaits
  <2> QED
    BY <2>5, <2>6
<1> QED
  BY <1>4, <1>5

(* What lies above the caller's buffer does not change when the caller     *)
(* overwrites its buffer between two calls.                                *)
LEMMA KeptAbove ==
  ASSUME NEW now, SameOutside(mem, now, 0, TMP), NEW end \in Int, NEW last \in Int, NEW n \in Int,
         n > 0 => TMP <= end - n /\ end <= DICT + DictSize + 1, HeldBack(mem, end, last, n)
  PROVE  HeldBack(now, end, last, n)
PROOF
<1>1. PICK lo \in Int, hi \in Int : lo = 0 /\ hi = TMP /\ lo <= hi
  BY MemoryFacts
<1>2. SameOutside(mem, now, lo, hi)
  BY <1>1
<1>3. n > 0 => 0 <= end - n /\ end <= DICT + DictSize + 1 /\ (end <= lo \/ hi <= end - n)
  <2>1. n > 0 => hi <= end - n
    BY <1>1
  <2>2. n > 0 => 0 <= end - n
    BY <1>1, <2>1
  <2> QED
    BY <2>1, <2>2
<1> QED
  BY <1>2, <1>3, KeptOutside

LEMMA CallText ==
  ASSUME FrameInv, TextInv, FrameInv', LZ4F_decompress
  PROVE  TextInv'
PROOF
<1>1. PICK given \in 0 .. MaxGiven, room \in 0 .. MaxRoom,
           start \in IF StableDst /\ d.stage # "getFrameHeader" THEN { c.ptr, c.ptr + 1 } ELSE { 0 } :
        start + room <= DstSize /\ c' = NewCall(given, c.at, room, start)
        /\ mem' = IF StableDst THEN mem ELSE [a \in Memory |-> IF a < TMP THEN Garbage ELSE mem[a]]
  BY DEF LZ4F_decompress
<1>2. /\ phase = "idle" /\ phase' = "loop" /\ stream' = stream /\ t' = t /\ resets' = resets
      /\ d' = IF DictSize > 0 /\ d.stage \in { "getFrameHeader", "storeFrameHeader", "init" }
              THEN [d EXCEPT !.dict = DICT, !.dictSize = DictSize] ELSE d
      /\ f' = f
  BY DEF LZ4F_decompress, f
<1>3. /\ d \in Context /\ c \in CallState /\ t.delivered \in Nat /\ t.decoded \in Nat
      /\ c.ptr \in Int /\ d.dict \in Int /\ d.dictSize \in Nat
      /\ d.tmpOut \in Int /\ d.tmpOutSize \in Nat
  BY DEF FrameInv, FrameDecoderTypeOK, Context, CallState, TextState
<1>4. c'.ptr = start /\ c'.start = start
  BY <1>1 DEF NewCall
<1>5. start \in Int
  BY <1>1, <1>3
<1>6. SameOutside(mem, mem', 0, TMP)
  <2>1. CASE StableDst
    BY <1>1, <2>1, SameItself
  <2>2. CASE ~StableDst
    <3> SUFFICES ASSUME NEW a \in Memory, a < 0 \/ TMP <= a
                 PROVE  mem'[a] = mem[a]
      BY DEF SameOutside
    <3>1. ~(a < TMP)
      BY MemoryFacts
    <3> QED
      BY <1>1, <2>2, <3>1
  <2> QED
    BY <2>1, <2>2
<1>7. TMP \in Nat /\ DICT \in Nat /\ DictSize \in Nat /\ TMP <= DICT /\ d.maxBufferSize \in Nat
      /\ TMP + d.maxBufferSize < DICT /\ d.maxBufferSize <= maxBlockSize + 2 * KB64
  <2>1. d.maxBufferSize <= maxBlockSize + 2 * KB64
    BY DEF TextInv
  <2>2. TMP < DICT /\ DictSize \in Nat
    BY MemoryFacts, FormatFacts
  <2> QED
    BY <2>1, <2>2, BufferBelow
<1>8. DictionaryKept'
  <2>1. PICK zero \in Int : zero = 0 /\ SameOutside(mem, mem', zero, TMP)
    BY <1>6
  <2>2. TMP \in Int /\ TMP <= DICT
    BY <1>7
  <2> QED
    BY <2>1, <2>2, DictionaryBehind DEF DictionaryKept
<1>9. /\ d'.stage = d.stage /\ d'.maxBufferSize = d.maxBufferSize /\ d'.remaining = d.remaining
      /\ d'.xxh = d.xxh /\ d'.target = d.target /\ d'.tmpOutSize = d.tmpOutSize
      /\ d'.tmpOutStart = d.tmpOutStart /\ d'.tmpOut = d.tmpOut
      /\ d.stage \in Built => d'.dict = d.dict /\ d'.dictSize = d.dictSize
  BY <1>2, <1>3 DEF Context, Built, InBlocks
<1>10. HistoryBegins'
  <2> SUFFICES ASSUME d.stage \in { "getFrameHeader", "storeFrameHeader", "init" }
               PROVE  AtDictionary'
    BY <1>9 DEF HistoryBegins, AtDictionary
  <2>1. CASE DictSize > 0
    <3>1. d' = [d EXCEPT !.dict = DICT, !.dictSize = DictSize]
      BY <1>2, <2>1
    <3>2. d'.dict = DICT /\ d'.dictSize = DictSize /\ DictSize # 0
      BY <1>3, <2>1, <3>1 DEF Context
    <3> QED
      BY <3>2 DEF AtDictionary
  <2>2. CASE ~(DictSize > 0)
    <3>1. d' = d /\ DictSize = 0
      BY <1>2, <1>7, <2>2
    <3>2. d.dictSize = 0
      BY <3>1 DEF TextInv, HistoryBegins
    <3> QED
      BY <2>2, <3>1, <3>2 DEF AtDictionary
  <2> QED
    BY <2>1, <2>2
<1>11. BlockInTmpOut'
  <2> SUFFICES ASSUME d.stage = "flushOut"
               PROVE  HeldBack(mem', d.tmpOut + d.tmpOutSize, t.decoded, d.tmpOutSize)
    BY <1>2, <1>9 DEF TextInv, BlockInTmpOut
  <2>1. TMP <= d.tmpOut /\ d.tmpOut + d.tmpOutSize <= TMP + d.maxBufferSize
    BY DEF FrameInv, Buffers, Built, InBlocks
  <2>2. PICK end \in Int : end = d.tmpOut + d.tmpOutSize
    BY <1>3
  <2>3. TMP <= end - d.tmpOutSize /\ end <= DICT + DictSize + 1
    BY <1>3, <1>7, <2>1, <2>2
  <2>4. HeldBack(mem, end, t.decoded, d.tmpOutSize)
    BY <2>2 DEF TextInv, BlockInTmpOut
  <2>5. HeldBack(mem', end, t.decoded, d.tmpOutSize)
    BY <1>3, <1>6, <2>3, <2>4, KeptAbove
  <2> QED
    BY <2>2, <2>5
<1>12. HistoryKept'
  <2>1. CASE d.stage \in Built /\ f.linked
    <3>1. PICK reach \in Int : reach = Reach(Lag, t.delivered) /\ reach <= d.dictSize
      <4>1. Lag \in Int
        <5>1. d.tmpOutStart \in Nat
          BY <1>3 DEF Context
        <5> QED
          BY <1>3, <5>1 DEF Lag
      <4>2. PICK lag \in Int, last \in Int : lag = Lag /\ last = t.delivered
        BY <1>3, <4>1
      <4>3. Reach(lag, last) \in Int
        BY ReachFacts
      <4>4. Reach(Lag, t.delivered) <= d.dictSize
        BY <2>1 DEF TextInv, HistoryKept
      <4> QED
        BY <4>2, <4>3, <4>4
    <3>2. PICK end \in Int : end = d.dict + d.dictSize
      BY <1>3
    <3>3. HeldBack(mem, end, t.delivered, reach) /\ InPlace(d.dict, d.dictSize, Filled)
      BY <2>1, <3>1, <3>2 DEF TextInv, HistoryKept
    <3>4. HeldBack(mem', end, t.delivered, reach)
      <4>1. CASE StableDst
        BY <1>1, <3>3, <4>1
      <4>2. CASE ~StableDst
        <5>1. PICK ptr \in Int : ptr = NULL /\ ptr < TMP /\ ptr < 0
          BY <1>7 DEF NULL
        <5>2. InPlace(d.dict, d.dictSize, ptr)
          BY <1>2, <3>3, <4>2, <5>1 DEF Filled
        <5>3. d.dict = TMP => d.dictSize <= d.maxBufferSize
          BY DEF FrameInv, Buffers
        <5>4. reach > 0 =>
                /\ 0 <= d.dict + d.dictSize - reach /\ d.dict + d.dictSize < DICT + DictSize + 1
                /\ d.dict + d.dictSize <= ptr \/ TMP <= d.dict + d.dictSize - reach
          BY <1>3, <1>7, <3>1, <5>1, <5>2, <5>3, HistoryApart
        <5>5. reach > 0 => TMP <= end - reach /\ end <= DICT + DictSize + 1
          BY <1>3, <1>7, <3>2, <5>1, <5>4
        <5> QED
          BY <1>3, <1>6, <3>3, <5>5, KeptAbove
      <4> QED
        BY <4>1, <4>2
    <3>5. InPlace(d.dict, d.dictSize, Filled')
      <4>1. Filled' = start
        BY <1>2, <1>4 DEF Filled
      <4>2. CASE StableDst
        <5>1. Filled = c.ptr /\ d.stage # "getFrameHeader"
          BY <2>1, <4>2 DEF Filled, Built, InBlocks
        <5>2. c.ptr <= start
          BY <1>1, <1>3, <4>2, <5>1
        <5>3. InPlace(d.dict, d.dictSize, c.ptr)
          BY <3>3, <5>1
        <5>4. d.dict + d.dictSize <= c.ptr => d.dict + d.dictSize <= start
          BY <1>3, <1>5, <5>2
        <5> QED
          BY <4>1, <5>3, <5>4 DEF InPlace
      <4>3. CASE ~StableDst
        <5>1. InPlace(d.dict, d.dictSize, NULL)
          BY <1>2, <3>3, <4>3 DEF Filled
        <5>2. ~(0 <= d.dict /\ d.dict + d.dictSize <= NULL)
          BY <1>3 DEF NULL
        <5> QED
          BY <5>1, <5>2 DEF InPlace
      <4> QED
        BY <4>2, <4>3
    <3>6. Lag' = Lag /\ d'.dict = d.dict /\ d'.dictSize = d.dictSize
      BY <1>9, <2>1 DEF Lag
    <3> QED
      BY <1>2, <2>1, <3>1, <3>2, <3>4, <3>5, <3>6 DEF HistoryKept
  <2>2. CASE d.stage \in Built /\ ~f.linked
    BY <1>2, <1>9, <2>2 DEF TextInv, HistoryKept, AtDictionary
  <2>3. CASE d.stage \notin Built
    BY <1>9, <2>3 DEF HistoryKept
  <2> QED
    BY <2>1, <2>2, <2>3
<1>13. HandedOut'
  <2>1. PICK n \in Int : n = c'.ptr - c'.start /\ n <= 0
    BY <1>4, <1>5
  <2>2. HeldBack(mem', c'.ptr, t'.delivered, n)
    BY <2>1, HeldNone
  <2> QED
    BY <2>1, <2>2 DEF HandedOut
<1> QED
  BY <1>2, <1>8, <1>9, <1>10, <1>11, <1>12, <1>13, TextWaits

LEMMA DecodeFrameInfoText ==
  ASSUME FrameInv, TextInv, FrameInv', DecodeFrameInfo
  PROVE  TextInv'
PROOF
<1> DEFINE bytes == Bytes(c.at, IF f.skippable THEN 2 * BHSize ELSE HeaderSize(f))
<1>1. /\ phase = "idle" /\ stream # << >> /\ d.stage = "getFrameHeader"
      /\ DecodeHeader(bytes, TRUE) /\ c' = NewCall(0, c.at + HeaderTaken, 0, NULL)
      /\ UNCHANGED resets
  BY DEF DecodeFrameInfo
<1>2. bytes \in Seq(Int) /\ IsDue(bytes)
  <2>1. stream \in Seq(IntactFrame) /\ c.at = t.due /\ t.due \in Nat
    BY <1>1 DEF FrameInv, FrameDecoderTypeOK, InField, TextState
  <2>2. PICK n \in Nat : n = (IF f.skippable THEN 2 * BHSize ELSE HeaderSize(f))
    BY <1>1, <2>1, FrameFacts, FormatFacts
  <2> QED
    BY <2>1, <2>2, DueFacts
<1> HIDE DEF bytes
<1>3. /\ CountsRight' /\ CountsBlocks' /\ SameBuffers
      /\ d'.stage \notin Built /\ d'.stage # "getFrameHeader"
      /\ stream' = stream /\ mem' = mem /\ phase' = "idle"
  BY <1>1, <1>2, HeaderCounts
<1>4. d'.maxBufferSize <= maxBlockSize + 2 * KB64
  BY <1>3 DEF TextInv, SameBuffers
<1>5. DictionaryKept' /\ ResetsLeaveNothing'
  BY <1>1, <1>3 DEF TextInv, DictionaryKept, ResetsLeaveNothing
<1>6. HistoryBegins' /\ HandedOut'
  BY <1>1, <1>3 DEF TextInv, HistoryBegins, HandedOut, SameBuffers
<1>7. HistoryKept' /\ BlockInTmpOut'
  BY <1>3 DEF HistoryKept, BlockInTmpOut, Built, InBlocks
<1>8. phase' # "error"
  BY <1>3
<1> QED
  BY Zenon, <1>3, <1>4, <1>5, <1>6, <1>7, <1>8 DEF TextInv

LEMMA GetFrameInfoText ==
  ASSUME FrameInv, TextInv, FrameInv', LZ4F_getFrameInfo
  PROVE  TextInv'
PROOF
<1>1. /\ phase = "idle" /\ phase' = "loop" /\ ~StableDst /\ UNCHANGED << stream, d, t, mem, resets >>
      /\ d.stage \notin { "getFrameHeader", "storeFrameHeader" } /\ c'.ptr = NULL
      /\ d.stage = "init" => DictSize = 0
  BY DEF LZ4F_getFrameInfo, NewCall
<1>2. f' = f /\ Lag' = Lag /\ Filled' = Filled
  BY <1>1 DEF f, Lag, Filled
<1>3. DictionaryKept' /\ BlockInTmpOut'
  BY <1>1, <1>2 DEF TextInv, DictionaryKept, BlockInTmpOut
<1>4. HistoryBegins'
  <2>1. d.stage = "init" => DictSize = 0 /\ d.dictSize = 0
    BY <1>1 DEF TextInv, HistoryBegins
  <2> QED
    BY <1>1, <2>1 DEF HistoryBegins, AtDictionary
<1>5. HistoryKept'
  BY <1>1, <1>2 DEF TextInv, HistoryKept, AtDictionary
<1>6. HandedOut'
  BY <1>1 DEF HandedOut
<1> QED
  BY <1>1, <1>3, <1>4, <1>5, <1>6, TextWaits

LEMMA ResetText ==
  ASSUME FrameInv, TextInv, FrameInv', LZ4F_resetDecompressionContext
  PROVE  TextInv'
PROOF
<1>1. /\ phase' = "idle" /\ Len(stream) > 1 /\ resets < MaxResets /\ d' = Reset(d)
      /\ stream' = Tail(stream) /\ t' = NewText /\ mem' = mem /\ resets' = resets + 1
  BY DEF LZ4F_resetDecompressionContext
<1>2. d \in Context /\ stream \in Seq(IntactFrame)
  BY DEF FrameInv, FrameDecoderTypeOK
<1>3. stream # << >>
  BY <1>1, <1>2
<1>4. resets \in Nat /\ resets' \in Nat /\ MaxResets # 0
  <2>1. resets \in Nat
    BY DEF TextInv, ResetsLeaveNothing
  <2>2. MaxResets \in Nat
    BY FormatAssumption
  <2> QED
    BY <1>1, <2>1, <2>2
<1>5. ~f.sized
  <2>1. 1 \in 1 .. Len(stream) - 1 /\ f = stream[1]
    BY <1>1, <1>2 DEF f
  <2>2. \A i \in 1 .. Len(stream) - 1 : ~stream[i].sized
    BY <1>4 DEF TextInv, ResetsLeaveNothing
  <2> QED
    BY <2>1, <2>2
<1>6. d.remaining = 0
  <2>1. d.stage \in HeaderStages \/ d.stage \in Counting
    BY <1>2 DEF Context, DecoderStages, Counting, Built
  <2> QED
    BY <1>5, <2>1 DEF TextInv, CountsRight
<1> QED
  BY <1>1, <1>3, <1>4, <1>6, TextBegins

-----------------------------------------------------------------------------
LEMMA TextInvHolds ==
  GivenUpUnsized /\ FrameDecoderInit => TextInv
PROOF
<1> SUFFICES ASSUME GivenUpUnsized, FrameDecoderInit PROVE TextInv
  OBVIOUS
<1>1. phase = "idle" /\ d.stage = "getFrameHeader" /\ d.dictSize = 0 /\ d.remaining = 0
      /\ d.maxBufferSize = 0 /\ t.decoded = 0 /\ t.delivered = 0 /\ resets = 0 /\ stream \in Streams
  BY DEF FrameDecoderInit, NewText
<1>2. phase # "error" /\ d.maxBufferSize <= maxBlockSize + 2 * KB64
  <2>1. 0 <= maxBlockSize + 2 * KB64
    BY FormatFacts
  <2> QED
    BY <1>1, <2>1
<1>3. CountsRight /\ CountsBlocks
  BY <1>1 DEF CountsRight, CountsBlocks, Counting, Built, InBlocks
<1>4. DictionaryKept
  <2> SUFFICES ASSUME NEW k \in 1 .. DictSize
               PROVE  mem[(DICT + DictSize) - k] = 0 - k
    BY DEF DictionaryKept, HeldBack
  <2>1. DICT \in Nat /\ DictSize \in Nat
    BY MemoryFacts, FormatFacts
  <2>2. PICK a \in Int : a = (DICT + DictSize) - k
    BY <2>1
  <2>3. a \in Memory /\ a >= DICT /\ a - DICT - DictSize = 0 - k
    <3>1. a \in 0 .. DICT + DictSize
      BY <2>1, <2>2
    <3>2. a >= DICT /\ a - DICT - DictSize = 0 - k
      BY <2>1, <2>2
    <3> QED
      BY <3>1, <3>2 DEF Memory
  <2>4. mem = [x \in Memory |-> IF x >= DICT THEN x - DICT - DictSize ELSE Garbage]
    BY DEF FrameDecoderInit
  <2>5. mem[a] = a - DICT - DictSize
    BY <2>3, <2>4
  <2> QED
    BY <2>2, <2>3, <2>5
<1>5. HistoryBegins /\ HistoryKept /\ BlockInTmpOut /\ HandedOut
  BY <1>1 DEF HistoryBegins, HistoryKept, BlockInTmpOut, HandedOut, Built, InBlocks
<1>6. ResetsLeaveNothing
  BY <1>1 DEF ResetsLeaveNothing, GivenUpUnsized
<1> QED
  BY Zenon, <1>2, <1>3, <1>4, <1>5, <1>6 DEF TextInv

LEMMA TextInvStep ==
  FrameInv /\ TextInv /\ FrameInv' /\ [FrameDecoderNext \/ AllDecoded]_frameDecoderVars => TextInv'
PROOF
<1> SUFFICES ASSUME FrameInv, TextInv, FrameInv', [FrameDecoderNext \/ AllDecoded]_frameDecoderVars
             PROVE  TextInv'
  OBVIOUS
<1>1. CASE Stages
  BY <1>1, GetFrameHeaderText, StoreFrameHeaderText, InitFrameText, GetBlockHeaderText,
     StoreBlockHeaderText, CopyDirectText, GetBlockChecksumText, GetCBlockText, StoreCBlockText,
     FlushOutText, GetSuffixText, StoreSuffixText, GetSFrameSizeText, StoreSFrameSizeText,
     SkipSkippableText
  DEF Stages
<1>2. CASE Leave
  BY <1>2, LeaveText
<1>3. CASE LZ4F_decompress
  BY <1>3, CallText
<1>4. CASE LZ4F_getFrameInfo
  BY <1>4, GetFrameInfoText
<1>5. CASE LZ4F_resetDecompressionContext
  BY <1>5, ResetText
<1>6. CASE DecodeFrameInfo
  BY <1>6, DecodeFrameInfoText
<1>7. CASE UNCHANGED frameDecoderVars
  <2>1. UNCHANGED << stream, d, c, t, mem, phase, resets >>
    BY <1>7 DEF frameDecoderVars
  <2>2. f' = f /\ b' = b /\ TextUpTo' = TextUpTo /\ Lag' = Lag /\ Filled' = Filled
    BY <2>1 DEF f, b, TextUpTo, Lag, Filled
  <2>3. CountsRight' /\ CountsBlocks'
    BY <2>1, <2>2 DEF TextInv, CountsRight, CountsBlocks
  <2>4. DictionaryKept' /\ HistoryBegins'
    BY <2>1 DEF TextInv, DictionaryKept, HistoryBegins, AtDictionary
  <2>5. HistoryKept' /\ BlockInTmpOut' /\ HandedOut' /\ ResetsLeaveNothing'
    BY <2>1, <2>2
    DEF TextInv, HistoryKept, AtDictionary, BlockInTmpOut, HandedOut, ResetsLeaveNothing
  <2>6. phase' # "error" /\ d'.maxBufferSize <= maxBlockSize + 2 * KB64
    BY <2>1 DEF TextInv
  <2> QED
    BY Zenon, <2>3, <2>4, <2>5, <2>6 DEF TextInv
<1> QED
  BY <1>1, <1>2, <1>3, <1>4, <1>5, <1>6, <1>7 DEF FrameDecoderNext, AllDecoded

LEMMA TextInvAlways ==
  ASSUME GivenUpUnsized
  PROVE  FrameDecoderSpec => []TextInv
PROOF
<1>1. FrameDecoderInit => TextInv
  BY TextInvHolds
<1> QED
  BY <1>1, TextInvStep, FrameInvAlways, PTL DEF FrameDecoderSpec

(* An intact frame is never refused: whatever pieces its input and its     *)
(* output are cut into, every header is read whole, every block is decoded *)
(* with the history that it refers to, and the checksum of the text comes  *)
(* out right.                                                              *)
THEOREM FrameNeverRefused ==
  ASSUME GivenUpUnsized
  PROVE  FrameDecoderSpec => []NeverRefused
PROOF
<1>1. TextInv => NeverRefused
  BY DEF TextInv, NeverRefused
<1> QED
  BY <1>1, TextInvAlways, PTL

(* LZ4F_decompress puts the text of a frame into the caller's buffers in   *)
(* its order, byte for byte, with nothing lost between two calls, and a    *)
(* frame does not end before its whole text has been handed out.           *)
THEOREM FrameHandsOutText ==
  ASSUME GivenUpUnsized
  PROVE  FrameDecoderSpec => []TextHandedOut
PROOF
<1>1. FrameInv /\ TextInv => TextHandedOut
  <2> SUFFICES ASSUME FrameInv, TextInv PROVE TextInOrder /\ WholeText
    BY DEF TextHandedOut
  <2>1. c.ptr \in Int /\ c.start \in Int /\ t.delivered \in Nat
    BY DEF FrameInv, FrameDecoderTypeOK, CallState, TextState
  <2>2. ASSUME phase \in { "loop", "leave" }, c.ptr # NULL, d.stage # "getFrameHeader",
               NEW a \in c.start .. c.ptr - 1
        PROVE  mem[a] = t.delivered - (c.ptr - a)
    <3>1. PICK k \in Int : k = c.ptr - a
      BY <2>1
    <3>2. k \in 1 .. c.ptr - c.start /\ c.ptr - k = a
      BY <2>1, <3>1
    <3>3. HeldBack(mem, c.ptr, t.delivered, c.ptr - c.start)
      BY <2>2 DEF TextInv, HandedOut
    <3>4. mem[c.ptr - k] = t.delivered - k
      BY <3>2, <3>3 DEF HeldBack
    <3> QED
      BY <3>1, <3>2, <3>4
  <2>3. ASSUME d.stage \in Ending
        PROVE  t.delivered = f.size /\ t.block = Len(f.blocks) + 1
    <3>1. t.block = Len(f.blocks) + 1 /\ t.decoded = f.size
      BY <2>3 DEF TextInv, CountsBlocks, Ending
    <3>2. Lag = 0 /\ t.decoded = t.delivered + Lag
      BY <2>3 DEF TextInv, CountsRight, Counting, Lag, Ending
    <3> QED
      BY <2>1, <3>1, <3>2
  <2> QED
    BY <2>2, <2>3 DEF TextInOrder, WholeText, Ending
<1> QED
  BY <1>1, FrameInvAlways, TextInvAlways, PTL

-----------------------------------------------------------------------------
(***************************************************************************)
(* LZ4_decompress_safe_continue with a ring buffer of                      *)
(* LZ4_decoderRingBufferSize, for any window, any largest block and any    *)
(* sequences, with the careful loop: LZ4_FAST_DEC_LOOP is off on the       *)
(* controller, and the fast loop's copies run over further than the margin.*)
(***************************************************************************)
CONSTANTS Window, MaxBlock, RingBlocks, RingLiterals, RingMatches, RingText
VARIABLES ring, segmentSize, segmentEnd, olderSize, older, ringText, ringPc, ringDest, blockSize, blockDone

Ring ==
  INSTANCE Lz4DecodeStream WITH
    KB64 <- Window, LZ4_FAST_DEC_LOOP <- FALSE, Blocks <- RingBlocks, LitLengths <- RingLiterals,
    MatchLengths <- RingMatches, MaxText <- RingText,
    prefixSize <- segmentSize, prefixEnd <- segmentEnd, extDictSize <- olderSize,
    externalDict <- older, text <- ringText, pc <- ringPc, dest <- ringDest, size <- blockSize,
    k <- blockDone

(* The sizes a caller may choose; a match is at least MINMATCH bytes long.  *)
RingSizes ==
  /\ Window \in Nat /\ MaxBlock \in Nat /\ RingBlocks \subseteq 0 .. MaxBlock
  /\ RingLiterals \subseteq Nat /\ RingMatches \subseteq Nat \ 0 .. 3

(* How far the copies may have run over.                                   *)
RunOver == IF ringPc = "match" THEN 16 ELSE 14

(* The segment decoded last starts the ring; the one before it ended below *)
(* RingSize; a block goes behind the segment and fits.                     *)
RingTypeOK ==
  /\ segmentSize \in Nat /\ olderSize \in Nat /\ ringText \in Nat /\ blockDone \in Nat
  /\ ringPc \in { "idle", "literals", "match", "end" }
  /\ segmentEnd = segmentSize /\ older = 0
  /\ ringPc # "idle" => /\ blockSize \in 0 .. MaxBlock /\ ringDest = segmentSize
                        /\ ringDest + MaxBlock <= Ring!RingSize /\ blockDone <= blockSize
  /\ ringPc = "idle" => blockDone = 0
  /\ ringPc = "end" => blockDone = blockSize
  /\ segmentSize <= Ring!RingSize /\ olderSize <= Ring!RingSize

(* The segment before this one, if there is one, ended so far up that the  *)
(* window reaches no lower than what may have been overwritten.            *)
SegmentsApart ==
  \/ olderSize = 0 /\ ringText = segmentSize
  \/ olderSize >= Window + 15 /\ ringText >= segmentSize + olderSize

(* The segment decoded last is whole, and of the segment before it what    *)
(* lies above the copies.                                                  *)
RingHolds ==
  /\ \A cell \in 0 .. segmentSize + blockDone - 1 : ring[cell] = ringText - segmentSize + cell
  /\ \A cell \in segmentSize + blockDone + RunOver .. olderSize - 1 :
       ring[cell] = ringText - (segmentSize + olderSize) + cell

RingInv == RingTypeOK /\ SegmentsApart /\ RingHolds

LEMMA RingSizeFacts ==
  ASSUME RingSizes
  PROVE  /\ Ring!RingSize \in Nat /\ Ring!RingSize >= MaxBlock /\ Ring!RingSize >= Window + 14 + MaxBlock
PROOF
  BY DEF RingSizes, Ring!RingSize

LEMMA WildCopyFacts ==
  ASSUME NEW n \in Nat
  PROVE  Ring!WildCopy8(n) \in Nat /\ n <= Ring!WildCopy8(n) /\ Ring!WildCopy8(n) <= n + 8
PROOF
<1>1. CASE n = 0
  <2>1. Ring!WildCopy8(n) = 8
    BY <1>1 DEF Ring!WildCopy8, Ring!Most
  <2> QED
    BY <1>1, <2>1
<1>2. CASE n > 0
  BY <1>2 DEF Ring!WildCopy8, Ring!Most
<1> QED
  BY <1>1, <1>2

LEMMA RingInvHolds ==
  ASSUME RingSizes, Ring!DecodeStreamInit
  PROVE  RingInv
PROOF
<1>1. /\ segmentSize = 0 /\ segmentEnd = 0 /\ olderSize = 0 /\ older = 0 /\ ringText = 0
      /\ ringPc = "idle" /\ blockDone = 0
  BY DEF Ring!DecodeStreamInit
<1>2. RingTypeOK
  BY <1>1, RingSizeFacts DEF RingTypeOK
<1>3. SegmentsApart /\ RingHolds
  BY <1>1 DEF SegmentsApart, RingHolds, RunOver
<1> QED
  BY <1>2, <1>3 DEF RingInv

LEMMA StartBlockKeeps ==
  ASSUME RingSizes, RingInv, Ring!StartBlock
  PROVE  RingInv'
PROOF
<1>1. /\ ringPc = "idle" /\ ringPc' = "literals" /\ blockDone = 0 /\ blockDone' = 0
      /\ ringDest' = Ring!nextDest /\ segmentEnd' = Ring!nextDest
      /\ ring' = ring /\ ringText' = ringText
      /\ segmentSize \in Nat /\ olderSize \in Nat /\ ringText \in Nat /\ segmentEnd = segmentSize
      /\ older = 0 /\ segmentSize <= Ring!RingSize /\ olderSize <= Ring!RingSize
  BY DEF Ring!StartBlock, RingInv, RingTypeOK
<1>2. blockSize' \in 0 .. MaxBlock
  BY DEF Ring!StartBlock, RingSizes
<1>3. /\ Ring!RingSize \in Nat /\ Window \in Nat /\ MaxBlock \in Nat
      /\ Ring!RingSize >= MaxBlock /\ Ring!RingSize >= Window + 14 + MaxBlock
  BY RingSizeFacts DEF RingSizes
<1>4. Ring!nextDest = (IF Ring!RingSize - segmentSize < MaxBlock THEN 0 ELSE segmentSize)
  BY <1>1 DEF Ring!nextDest
<1>5. \/ segmentSize = Ring!nextDest /\ UNCHANGED << olderSize, older, segmentSize >>
      \/ /\ segmentSize # 0 /\ Ring!nextDest = 0 /\ segmentSize >= Window + 15
         /\ olderSize' = segmentSize /\ older' = segmentEnd - segmentSize /\ segmentSize' = 0
  <2>1. CASE segmentSize = 0 \/ segmentEnd = Ring!nextDest
    <3>1. UNCHANGED << olderSize, older, segmentSize >>
      BY <2>1 DEF Ring!StartBlock, Ring!SameSegmentKept
    <3>2. segmentSize = Ring!nextDest
      BY <1>1, <1>3, <1>4, <2>1
    <3> QED
      BY <3>1, <3>2
  <2>2. CASE ~(segmentSize = 0 \/ segmentEnd = Ring!nextDest)
    <3>1. olderSize' = segmentSize /\ older' = segmentEnd - segmentSize /\ segmentSize' = 0
      BY <2>2 DEF Ring!StartBlock, Ring!NewSegment
    <3>2. segmentSize # 0 /\ Ring!nextDest = 0 /\ segmentSize >= Window + 15
      BY <1>1, <1>3, <1>4, <2>2
    <3> QED
      BY <3>1, <3>2
  <2> QED
    BY <2>1, <2>2
<1>6. CASE segmentSize = Ring!nextDest /\ UNCHANGED << olderSize, older, segmentSize >>
  <2>1. RingTypeOK'
    BY <1>1, <1>2, <1>3, <1>4, <1>6 DEF RingTypeOK, Ring!RingSize
  <2>2. SegmentsApart'
    BY <1>1, <1>6 DEF RingInv, SegmentsApart
  <2>3. RingHolds'
    BY <1>1, <1>6 DEF RingInv, RingHolds, RunOver
  <2> QED
    BY <2>1, <2>2, <2>3 DEF RingInv
<1>7. CASE /\ segmentSize # 0 /\ Ring!nextDest = 0 /\ segmentSize >= Window + 15
           /\ olderSize' = segmentSize /\ older' = segmentEnd - segmentSize /\ segmentSize' = 0
  <2>1. RingTypeOK'
    BY <1>1, <1>2, <1>3, <1>7 DEF RingTypeOK, Ring!RingSize
  <2>2. ringText >= segmentSize
    BY <1>1 DEF RingInv, SegmentsApart
  <2>3. SegmentsApart'
    BY <1>1, <1>7, <2>2 DEF SegmentsApart
  <2>4. RingHolds'
    BY <1>1, <1>7 DEF RingInv, RingHolds, RunOver
  <2> QED
    BY <2>1, <2>3, <2>4 DEF RingInv
<1> QED
  BY <1>5, <1>6, <1>7

LEMMA RangeBounds ==
  ASSUME NEW start \in Nat, NEW done \in Nat, NEW len \in Nat, NEW over \in Nat, NEW last \in Nat
  PROVE  \A cell \in start + (done + len) + over .. last - 1 :
           cell \in Int /\ cell >= ((start + done) + len) + over /\ cell < last
PROOF
  OBVIOUS

LEMMA RunsOverNoFurther ==
  ASSUME NEW cell \in Int, NEW start \in Nat, NEW done \in Nat, NEW len \in Nat, NEW wide \in Nat,
         NEW over \in Nat, NEW overNext \in Nat, cell >= ((start + done) + len) + overNext,
         wide <= len + overNext, over <= len + overNext
  PROVE  cell >= (start + done) + over /\ cell >= start + (done + wide) /\ cell >= 0
PROOF
  OBVIOUS

(* A copy that runs over no further than 16 bytes, or 14 behind a match.   *)
LEMMA DecodeKeeps ==
  ASSUME RingSizes, RingInv, ringPc \in { "literals", "match" },
         NEW len \in Nat, NEW wide \in Nat, len <= wide, Ring!Decode(len, wide),
         blockDone + len <= blockSize,
         ringPc' \in { "literals", "match", "end" }, ringPc' = "end" => blockDone + len = blockSize,
         NEW over \in Nat, NEW overNext \in Nat, over = RunOver /\ overNext = RunOver',
         wide <= len + overNext, over <= len + overNext,
         UNCHANGED << segmentSize, segmentEnd, olderSize, older, ringText, ringDest, blockSize >>
  PROVE  RingInv'
PROOF
<1>1. /\ segmentSize \in Nat /\ olderSize \in Nat /\ ringText \in Nat /\ blockDone \in Nat
      /\ segmentEnd = segmentSize /\ older = 0 /\ blockSize \in 0 .. MaxBlock
      /\ ringDest = segmentSize /\ ringDest + MaxBlock <= Ring!RingSize
      /\ segmentSize <= Ring!RingSize /\ olderSize <= Ring!RingSize
      /\ MaxBlock \in Nat /\ Ring!RingSize \in Nat
  BY RingSizeFacts DEF RingInv, RingTypeOK, RingSizes
<1>2. blockDone' = blockDone + len /\ Ring!RingSize' = Ring!RingSize
  BY DEF Ring!Decode, Ring!RingSize
<1>3. RunOver \in { 14, 16 } /\ RunOver' \in { 14, 16 }
  BY DEF RunOver
<1>4. RingTypeOK'
  BY <1>1, <1>2 DEF RingTypeOK, Ring!RingSize
<1>5. SegmentsApart'
  BY DEF RingInv, SegmentsApart
<1>6. ASSUME NEW cell \in 0 .. Ring!RingSize - 1
      PROVE  /\ cell - segmentSize \in blockDone .. blockDone + len - 1 => ring'[cell] = ringText + (cell - segmentSize)
             /\ cell - segmentSize \notin blockDone .. blockDone + wide - 1 => ring'[cell] = ring[cell]
  <2>1. ring' = [a \in 0 .. Ring!RingSize - 1 |->
                  CASE a - ringDest \in blockDone .. blockDone + len - 1 -> ringText + a - ringDest
                    [] a - ringDest \in blockDone + len .. blockDone + wide - 1 -> Ring!Garbage
                    [] OTHER -> ring[a]]
    BY DEF Ring!Decode
  <2>2. ring'[cell] = CASE cell - segmentSize \in blockDone .. blockDone + len - 1 -> ringText + cell - segmentSize
                     [] cell - segmentSize \in blockDone + len .. blockDone + wide - 1 -> Ring!Garbage
                     [] OTHER -> ring[cell]
    BY <1>1, <2>1
  <2>3. CASE cell - segmentSize \in blockDone .. blockDone + len - 1
    BY <1>1, <2>2, <2>3
  <2>4. CASE cell - segmentSize \notin blockDone .. blockDone + wide - 1
    BY <1>1, <2>2, <2>4
  <2> QED
    BY <2>3, <2>4
<1>7. RingHolds'
  <2>1. ASSUME NEW cell \in 0 .. segmentSize + (blockDone + len) - 1
        PROVE  ring'[cell] = ringText - segmentSize + cell
    <3>1. cell \in 0 .. Ring!RingSize - 1
      BY <1>1
    <3>2. CASE cell < segmentSize + blockDone
      <4>1. ring[cell] = ringText - segmentSize + cell
        BY <1>1, <3>2 DEF RingInv, RingHolds
      <4>2. ring'[cell] = ring[cell]
        BY <1>1, <1>6, <3>1, <3>2
      <4> QED
        BY <4>1, <4>2
    <3>3. CASE ~(cell < segmentSize + blockDone)
      BY <1>1, <1>6, <3>1, <3>3
    <3> QED
      BY <3>2, <3>3
  <2>2. ASSUME NEW cell \in Int, cell >= ((segmentSize + blockDone) + len) + overNext, cell < olderSize
        PROVE  ring'[cell] = ringText - (segmentSize + olderSize) + cell
    <3>1. /\ cell >= (segmentSize + blockDone) + over /\ cell >= segmentSize + (blockDone + wide)
          /\ cell >= 0
      BY <1>1, <1>3, <2>2, RunsOverNoFurther
    <3>2. cell \in 0 .. Ring!RingSize - 1 /\ cell - segmentSize \notin blockDone .. blockDone + wide - 1
      BY <1>1, <2>2, <3>1
    <3>3. cell \in segmentSize + blockDone + RunOver .. olderSize - 1
      BY <1>1, <2>2, <3>1
    <3>4. ring[cell] = ringText - (segmentSize + olderSize) + cell
      BY <3>3 DEF RingInv, RingHolds
    <3>5. ring'[cell] = ring[cell]
      BY <1>6, <3>2
    <3> QED
      BY <3>4, <3>5
  <2>3. \A cell \in 0 .. segmentSize' + blockDone' - 1 : ring'[cell] = ringText' - segmentSize' + cell
    BY <1>2, <2>1
  <2>4. \A cell \in segmentSize + (blockDone + len) + overNext .. olderSize - 1 :
          ring'[cell] = ringText - (segmentSize + olderSize) + cell
    <3>1. \A cell \in segmentSize + (blockDone + len) + overNext .. olderSize - 1 :
            cell \in Int /\ cell >= ((segmentSize + blockDone) + len) + overNext /\ cell < olderSize
      BY <1>1, RangeBounds
    <3> QED
      BY <2>2, <3>1
  <2>5. /\ segmentSize' = segmentSize /\ olderSize' = olderSize /\ ringText' = ringText
        /\ blockDone' = blockDone + len /\ RunOver' = overNext
    BY <1>2
  <2>6. \A cell \in segmentSize' + blockDone' + RunOver' .. olderSize' - 1 :
          ring'[cell] = ringText' - (segmentSize' + olderSize') + cell
    BY <2>4, <2>5
  <2> QED
    BY <2>3, <2>6 DEF RingHolds
<1> QED
  BY <1>4, <1>5, <1>7 DEF RingInv

LEMMA RingLiteralsKeep ==
  ASSUME RingSizes, RingInv, Ring!Literals
  PROVE  RingInv'
PROOF
<1>1. /\ ringPc = "literals" /\ blockDone \in Nat /\ blockSize \in Nat /\ blockDone <= blockSize
      /\ MaxBlock \in Nat
  BY DEF Ring!Literals, RingInv, RingTypeOK, RingSizes
<1>2. PICK len \in { n \in RingLiterals : blockDone + n <= blockSize - 12 } \union { blockSize - blockDone } :
        /\ \E wide \in Ring!LiteralCopy(len) : Ring!Decode(len, wide)
        /\ ringPc' = IF blockDone + len = blockSize THEN "end" ELSE "match"
  BY DEF Ring!Literals
<1>3. len \in Nat /\ blockDone + len <= blockSize
  BY <1>1, <1>2 DEF RingSizes
<1>4. PICK wide \in Ring!LiteralCopy(len) : Ring!Decode(len, wide)
  BY <1>2
<1>5. UNCHANGED << segmentSize, segmentEnd, olderSize, older, ringText, ringDest, blockSize >>
  BY DEF Ring!Literals, Ring!context
<1>6. RunOver = 14 /\ RunOver' = IF blockDone + len = blockSize THEN 14 ELSE 16
  BY <1>1, <1>2 DEF RunOver
<1>7. \/ wide \in Nat /\ len <= wide /\ wide <= len + 14
      \/ wide = 16 /\ len <= 14 /\ blockDone + len # blockSize
  <2>1. CASE blockDone + len = blockSize
    <3>1. wide = len
      BY <1>4, <2>1 DEF Ring!LiteralCopy
    <3> QED
      BY <1>3, <3>1
  <2>2. CASE blockDone + len # blockSize
    <3>1. (wide = 16 /\ len <= 14) \/ wide = Ring!WildCopy8(len)
      BY <1>4, <2>2 DEF Ring!LiteralCopy
    <3> QED
      BY <1>3, <2>2, <3>1, WildCopyFacts
  <2> QED
    BY <2>1, <2>2
<1>8. /\ wide \in Nat /\ len <= wide
  BY <1>3, <1>7
<1>10. PICK over \in Nat, overNext \in Nat :
         over = RunOver /\ overNext = RunOver' /\ wide <= len + overNext /\ over <= len + overNext
  BY <1>1, <1>3, <1>6, <1>7
<1>9. ringPc' \in { "literals", "match", "end" } /\ (ringPc' = "end" => blockDone + len = blockSize)
  BY <1>2
<1> QED
  BY <1>1, <1>3, <1>4, <1>5, <1>8, <1>9, <1>10, DecodeKeeps

LEMMA RingMatchKeeps ==
  ASSUME RingSizes, RingInv, Ring!Match
  PROVE  RingInv'
PROOF
<1>1. /\ ringPc = "match" /\ ringPc' = "literals" /\ blockDone \in Nat /\ blockSize \in 0 .. MaxBlock
      /\ blockDone <= blockSize /\ MaxBlock \in Nat
  BY DEF Ring!Match, RingInv, RingTypeOK, RingSizes
<1>2. PICK len \in { n \in RingMatches : blockDone + n <= blockSize - 5 } :
        \E wide \in Ring!MatchCopy(len) : Ring!Decode(len, wide)
  BY DEF Ring!Match
<1>3. len \in Nat /\ len >= 4 /\ blockDone + len <= blockSize
  BY <1>1, <1>2 DEF RingSizes
<1>4. PICK wide \in Ring!MatchCopy(len) : Ring!Decode(len, wide)
  BY <1>2
<1>5. UNCHANGED << segmentSize, segmentEnd, olderSize, older, ringText, ringDest, blockSize >>
  BY DEF Ring!Match, Ring!context
<1>6. RunOver = 16 /\ RunOver' = 14
  BY <1>1 DEF RunOver
<1>7. wide \in Nat /\ len <= wide /\ wide <= len + 14
  <2>1. \/ wide = len
        \/ wide = 18 /\ len <= 18
        \/ wide = Ring!Least(MaxBlock - blockDone, Ring!Most(16, Ring!WildCopy8(len)))
    BY <1>4 DEF Ring!MatchCopy
  <2>2. CASE wide = Ring!Least(MaxBlock - blockDone, Ring!Most(16, Ring!WildCopy8(len)))
    <3>1. PICK steps \in Int : steps = Ring!WildCopy8(len) /\ len <= steps /\ steps <= len + 8
      BY <1>3, WildCopyFacts
    <3>2. Ring!Most(16, Ring!WildCopy8(len)) = IF 16 > steps THEN 16 ELSE steps
      BY <3>1 DEF Ring!Most
    <3>3. wide = IF MaxBlock - blockDone < (IF 16 > steps THEN 16 ELSE steps)
                 THEN MaxBlock - blockDone ELSE IF 16 > steps THEN 16 ELSE steps
      BY <2>2, <3>2 DEF Ring!Least
    <3> QED
      BY <1>1, <1>3, <3>1, <3>3
  <2> QED
    BY <1>3, <2>1, <2>2
<1>8. PICK over \in Nat, overNext \in Nat :
        over = RunOver /\ overNext = RunOver' /\ wide <= len + overNext /\ over <= len + overNext
  BY <1>3, <1>6, <1>7
<1> QED
  BY <1>1, <1>3, <1>4, <1>5, <1>7, <1>8, DecodeKeeps

LEMMA EndBlockKeeps ==
  ASSUME RingSizes, RingInv, Ring!EndBlock
  PROVE  RingInv'
PROOF
<1>1. /\ segmentSize \in Nat /\ olderSize \in Nat /\ ringText \in Nat /\ blockDone \in Nat
      /\ segmentEnd = segmentSize /\ older = 0 /\ blockSize \in 0 .. MaxBlock
      /\ ringDest = segmentSize /\ ringDest + MaxBlock <= Ring!RingSize
      /\ olderSize <= Ring!RingSize /\ MaxBlock \in Nat /\ Ring!RingSize \in Nat
      /\ blockDone = blockSize /\ ringPc = "end"
  BY RingSizeFacts DEF Ring!EndBlock, RingInv, RingTypeOK, RingSizes
<1>2. /\ segmentSize' = segmentSize + blockSize /\ segmentEnd' = segmentEnd + blockSize
      /\ ringText' = ringText + blockSize /\ ringPc' = "idle" /\ blockDone' = 0
      /\ ring' = ring /\ olderSize' = olderSize /\ older' = older
  BY DEF Ring!EndBlock
<1>3. Ring!RingSize' = Ring!RingSize
  BY DEF Ring!RingSize
<1>4. RingTypeOK'
  BY <1>1, <1>2, <1>3 DEF RingTypeOK
<1>5. SegmentsApart'
  BY <1>1, <1>2 DEF RingInv, SegmentsApart
<1>6. RunOver = 14 /\ RunOver' = 14
  BY <1>1, <1>2 DEF RunOver
<1>7. RingHolds'
  BY <1>1, <1>2, <1>6 DEF RingInv, RingHolds
<1> QED
  BY <1>4, <1>5, <1>7 DEF RingInv

(* From the invariant, what a match may refer to is in the window and has  *)
(* not been overwritten.                                                   *)
LEMMA WindowIsThere ==
  ASSUME RingSizes, RingInv
  PROVE  Ring!RingBufferSuffices
PROOF
<1> SUFFICES ASSUME ringPc = "match",
                    NEW offset \in 1 .. Ring!Least(Ring!LZ4_DISTANCE_MAX, ringText + blockDone)
             PROVE  /\ offset <= blockDone + segmentSize + olderSize
                    /\ Ring!ByteAt(offset) = ringText + blockDone - offset
  BY DEF Ring!RingBufferSuffices
<1>1. /\ segmentSize \in Nat /\ olderSize \in Nat /\ ringText \in Nat /\ blockDone \in Nat
      /\ older = 0 /\ ringDest = segmentSize /\ Window \in Nat
  BY DEF RingInv, RingTypeOK, RingSizes
<1>2. offset \in Int /\ offset >= 1 /\ offset <= Window - 1 /\ offset <= ringText + blockDone
  BY <1>1 DEF Ring!Least, Ring!LZ4_DISTANCE_MAX
<1>3. CASE offset <= blockDone + segmentSize
  <2>1. PICK cell \in 0 .. segmentSize + blockDone - 1 : cell = (segmentSize + blockDone) - offset
    BY <1>1, <1>2, <1>3
  <2>2. ring[cell] = ringText - segmentSize + cell
    BY DEF RingInv, RingHolds
  <2>3. Ring!ByteAt(offset) = ring[cell]
    <3>1. ringDest + blockDone - offset = cell
      BY <1>1, <1>2, <2>1
    <3> QED
      BY <1>3, <3>1 DEF Ring!ByteAt
  <2> QED
    BY <1>1, <1>2, <1>3, <2>1, <2>2, <2>3
<1>4. CASE ~(offset <= blockDone + segmentSize)
  <2>1. olderSize >= Window + 15
    BY <1>1, <1>2, <1>4 DEF RingInv, SegmentsApart
  <2>2. PICK cell \in segmentSize + blockDone + 16 .. olderSize - 1 :
          cell = (olderSize + (segmentSize + blockDone)) - offset
    BY <1>1, <1>2, <1>4, <2>1
  <2>3. ring[cell] = ringText - (segmentSize + olderSize) + cell
    BY DEF RingInv, RingHolds, RunOver
  <2>4. Ring!ByteAt(offset) = ring[cell]
    <3>1. older + olderSize - (offset - blockDone - segmentSize) = cell
      BY <1>1, <1>2, <2>2
    <3> QED
      BY <1>4, <3>1 DEF Ring!ByteAt
  <2> QED
    BY <1>1, <1>2, <1>4, <2>1, <2>2, <2>3, <2>4
<1> QED
  BY <1>3, <1>4

(* A ring buffer of LZ4_decoderRingBufferSize holds everything a match of  *)
(* the next block may refer to, for any window, any largest block and any  *)
(* sequences, with the careful loop of LZ4_decompress_generic.             *)
THEOREM RingKeepsWindow ==
  ASSUME RingSizes
  PROVE  Ring!DecodeStreamSpec => []Ring!RingBufferSuffices
PROOF
<1>1. Ring!DecodeStreamInit => RingInv
  BY RingInvHolds
<1>2. RingInv /\ [Ring!DecodeStreamNext]_Ring!streamVars => RingInv'
  <2> SUFFICES ASSUME RingInv, [Ring!DecodeStreamNext]_Ring!streamVars
               PROVE  RingInv'
    OBVIOUS
  <2>1. CASE Ring!StartBlock
    BY <2>1, StartBlockKeeps
  <2>2. CASE Ring!Literals
    BY <2>2, RingLiteralsKeep
  <2>3. CASE Ring!Match
    BY <2>3, RingMatchKeeps
  <2>4. CASE Ring!EndBlock
    BY <2>4, EndBlockKeeps
  <2>5. CASE UNCHANGED Ring!streamVars
    BY <2>5 DEF Ring!streamVars, RingInv, RingTypeOK, SegmentsApart, RingHolds, RunOver, Ring!RingSize
  <2> QED
    BY <2>1, <2>2, <2>3, <2>4, <2>5 DEF Ring!DecodeStreamNext
<1>3. RingInv => Ring!RingBufferSuffices
  BY WindowIsThere
<1> QED
  BY <1>1, <1>2, <1>3, PTL DEF Ring!DecodeStreamSpec
=============================================================================
