----------------------------- MODULE Lz4Stream ------------------------------
(***************************************************************************)
(* How LZ4_compress_generic finds matches, and the context it keeps from   *)
(* one block to the next: a hash table of indexes and the dictionary, the  *)
(* bytes before the block that matches may lie in.  An index counts the    *)
(* bytes a context has seen; the bytes of the dictionary end where those   *)
(* of the block start, wherever both are in memory.  The decoder, which    *)
(* has only decoded text to copy from, is part of the model.               *)
(*                                                                         *)
(* The sizes of the format are scaled down.  What is written for the       *)
(* lengths, and how much room it takes, is in module Lz4Output.            *)
(***************************************************************************)
EXTENDS Integers, Sequences

CONSTANTS
  MinMatch, LastLiteralBytes,       \* MINMATCH 4, LASTLITERALS 5
  MatchMargin,                      \* MFLIMIT 12
  KB64, KB4, GB1, GB2,              \* 64 KB, 4 KB, 1 GB, 0x80000000
  HASH_UNIT,                        \* sizeof(reg_t)
  Hash(_), HashSize,                \* the hash of MinMatch bytes
  StepSizes,                        \* how far a search goes on after a miss
  StreamRing, MaxBlock,             \* the caller's ring buffer, its largest block
  Blocks, Dictionaries,             \* contents of blocks and of dictionaries
  MaxCalls                          \* bound on the calls

VARIABLES
  mem,       \* the caller's buffers: a ring, one to save a dictionary, one for a
             \* dictionary that another context has loaded
  ctx,       \* LZ4_stream_t
  pc,
  blk,       \* the block that is compressed
  ip, anchor,
  past,      \* the text before the block, as the decoder has it
  decoded,   \* what the decoder makes of the block so far
  next,      \* where the caller puts the next block
  calls

streamVars == << mem, ctx, pc, blk, ip, anchor, past, decoded, next, calls >>

LZ4_DISTANCE_MAX == KB64 - 1
SAFE    == StreamRing + 1           \* the second buffer
OTHERS  == SAFE + KB64 + 1        \* the third buffer
Memory  == 0 .. OTHERS + KB64
NULL    == -1
Outside == -1                     \* a byte that is not of the dictionary or the block
Wrong   == -2                     \* a byte the decoder cannot have

Least(a, b)  == IF a < b THEN a ELSE b
Last(s, n)   == SubSeq(s, Len(s) - n + 1, Len(s))
Window(s)    == Last(s, Least(Len(s), KB64))
Store(at, s) == mem' = [a \in Memory |-> IF a - at \in 0 .. Len(s) - 1 THEN s[a - at + 1] ELSE mem[a]]

-----------------------------------------------------------------------------
(* The context.                                                            *)
LZ4_initStream ==
  [table |-> [h \in 0 .. HashSize - 1 |-> 0], currentOffset |-> 0,
   dictionary |-> NULL, dictSize |-> 0, dictCtx |-> {}, tableType |-> "cleared"]

dictEnd(c) == c.dictionary + c.dictSize

(* A table is kept when its indexes stay valid; with a gap of 64 KB all of *)
(* them are too far away.                                                  *)
U16Full(c, n) == c.currentOffset + n >= KB64 - 1

LZ4_prepareTable(c, n, type) ==
  LET stale == /\ c.tableType # "cleared"
               /\ \/ c.tableType # type
                  \/ type = "byU16" /\ U16Full(c, n)
                  \/ type = "byU32" /\ c.currentOffset > GB1
                  \/ n >= KB4
      kept  == IF stale THEN LZ4_initStream ELSE c
      gap   == IF kept.currentOffset # 0 /\ type = "byU32" THEN KB64 ELSE 0
  IN  [kept EXCEPT !.currentOffset = @ + gap, !.dictCtx = {},
                   !.dictionary = NULL, !.dictSize = 0]

(* Every third position of the dictionary, at address at, is in the table. *)
LZ4_loadDict(dict, at) ==
  LET d == Window(dict)
      seen(h) == { i \in 0 .. Len(d) - HASH_UNIT :
                     i % 3 = 0 /\ Hash(SubSeq(d, i + 1, i + MinMatch)) = h }
      reset == [LZ4_initStream EXCEPT !.currentOffset = KB64]
  IN  IF Len(d) < HASH_UNIT THEN reset
      ELSE [reset EXCEPT !.dictionary = at, !.dictSize = Len(d), !.tableType = "byU32",
              !.table = [h \in DOMAIN @ |->
                IF seen(h) = {} THEN 0
                ELSE KB64 - Len(d) + CHOOSE i \in seen(h) : \A j \in seen(h) : j <= i]]

(* The indexes stay below 2 GB.                                            *)
LZ4_renormDictT(c, n) ==
  LET delta == c.currentOffset - KB64
      size  == Least(c.dictSize, KB64)
  IN  IF c.currentOffset + n <= GB2 THEN c
      ELSE [c EXCEPT !.table = [h \in DOMAIN @ |-> IF @[h] < delta THEN 0 ELSE @[h] - delta],
                     !.currentOffset = KB64, !.dictSize = size,
                     !.dictionary = dictEnd(c) - size]

WithoutTinyDictionary(c, src) ==
  IF c.dictSize \in 1 .. MinMatch - 1 /\ dictEnd(c) # src
  THEN [c EXCEPT !.dictSize = 0, !.dictionary = src] ELSE c

(* The block was written over the beginning of the dictionary.             *)
WithoutOverlapKept(c, src, n) == c
WithoutOverlap(c, src, n) ==
  LET left == Least(dictEnd(c) - (src + n), KB64)
      size == IF left < MinMatch THEN 0 ELSE left
  IN  IF src + n > c.dictionary /\ src + n < dictEnd(c)
      THEN [c EXCEPT !.dictSize = size, !.dictionary = dictEnd(c) - size] ELSE c

-----------------------------------------------------------------------------
(* The bytes at an index, in the dictionary or in the block.               *)
Byte(i) ==
  IF i >= blk.start THEN mem[blk.src + i - blk.start]
  ELSE IF i < blk.low THEN Outside
  ELSE mem[blk.dictEnd - (blk.start - i)]
Bytes(from, to) == [k \in 1 .. to - from |-> Byte(from + k - 1)]
HashAt(i) == Hash(Bytes(i, i + MinMatch))

iend           == blk.start + blk.size
mflimitPlusOne == iend - MatchMargin + 1
matchlimit     == iend - LastLiteralBytes

(* Where table t has seen the hash; where it has nothing from the block,   *)
(* an attached dictionary is asked, whose indexes are shifted.             *)
MatchIndex(t, h) ==
  IF t[h] >= blk.start \/ blk.attached = {} THEN t[h]
  ELSE LET dictCtx == CHOOSE c \in blk.attached : TRUE
       IN  dictCtx.table[h] + blk.start - dictCtx.currentOffset

(* What is known of a match before its bytes are looked at.                *)
TooFar(m, current) == blk.type # "byU16" /\ m + LZ4_DISTANCE_MAX < current
BelowDictionary(m) == blk.dictSmall /\ m < blk.low
Candidate(m, current) == ~BelowDictionary(m) /\ ~TooFar(m, current)

Matches(m, current) ==
  Candidate(m, current) /\ \A k \in 0 .. MinMatch - 1 : Byte(m + k) = Byte(current + k)

(* How far a match goes back and, from there, how long it is.  A match in  *)
(* a block that is apart from its dictionary does not go back into it.     *)
lowLimit(m) == IF blk.extMem /\ m >= blk.start THEN blk.start ELSE blk.low
CatchUp(m, current) ==
  CHOOSE b \in 0 .. current - anchor :
    /\ m - b >= lowLimit(m)
    /\ \A k \in 1 .. b : Byte(m - k) = Byte(current - k)
    /\ b = current - anchor \/ m - b = lowLimit(m) \/ Byte(m - b - 1) # Byte(current - b - 1)
LZ4_count(m, current) ==
  CHOOSE n \in 0 .. matchlimit - current :
    /\ \A k \in 0 .. n - 1 : Byte(m + k) = Byte(current + k)
    /\ n = matchlimit - current \/ Byte(m + n) # Byte(current + n)

(* The decoder copies a match from the text it has; the two bytes of the   *)
(* offset hold no more than 64 KB.                                         *)
Copied(text, offset, n) ==
  [k \in 1 .. n |->
     IF offset = 0 \/ offset > Len(text) THEN Wrong
     ELSE text[Len(text) - offset + 1 + ((k - 1) % offset)]]

(* A sequence: the literals from the anchor on, and the match.             *)
Encode(m, current) ==
  LET from == current - CatchUp(m, current)
      n    == LZ4_count(m - (current - from), from)
      text == decoded \o Bytes(anchor, from)
  IN  /\ decoded' = text \o Copied(past \o text, (current - m) % KB64, n)
      /\ anchor' = from + n
      /\ ip' = from + n
      /\ pc' = IF from + n >= mflimitPlusOne THEN "last" ELSE "next"

-----------------------------------------------------------------------------
StreamInit ==
  /\ mem = [a \in Memory |-> Outside]
  /\ ctx = LZ4_initStream
  /\ pc = "idle"
  /\ blk = [src |-> 0, size |-> 0, start |-> 0, low |-> 0, dictEnd |-> 0, attached |-> {},
            extMem |-> FALSE, type |-> "byU32", dictSmall |-> FALSE]
  /\ ip = 0 /\ anchor = 0
  /\ past = << >> /\ decoded = << >>
  /\ next = 0 /\ calls = 0

Call == calls < MaxCalls /\ calls' = calls + 1

(* A call that leaves a context c and a decoder that has text.             *)
Prepare(c, text) ==
  /\ Call
  /\ ctx' = c /\ past' = text
  /\ pc' = "idle" /\ decoded' = << >>
  /\ UNCHANGED << blk, ip, anchor, next >>

LZ4_resetStream_fast ==
  /\ pc \in { "idle", "failed", "used" }
  /\ Prepare(LZ4_prepareTable(ctx, 0, "byU32"), << >>)
  /\ UNCHANGED mem

LoadDict ==
  /\ pc \in { "idle", "failed", "used" }
  /\ \E d \in Dictionaries : Store(SAFE, Window(d)) /\ Prepare(LZ4_loadDict(d, SAFE), Window(d))

(* To a stream that was just reset.                                        *)
LZ4_attach_dictionary ==
  /\ pc = "idle" /\ past = << >> /\ ctx.dictSize = 0
  /\ \E d \in Dictionaries :
       LET dictCtx == LZ4_loadDict(d, OTHERS)
       IN  /\ Store(OTHERS, Window(d))
           /\ Prepare([ctx EXCEPT !.currentOffset = IF @ = 0 THEN KB64 ELSE @,
                                  !.dictCtx = IF dictCtx.dictSize = 0 THEN {} ELSE { dictCtx }],
                      Window(d))

LZ4_saveDict ==
  /\ pc = "idle" /\ ctx.dictCtx = {}
  /\ \E size \in 0 .. Least(KB64, ctx.dictSize) :
       /\ Store(SAFE, [k \in 1 .. size |-> mem[dictEnd(ctx) - size + k - 1]])
       /\ Prepare([ctx EXCEPT !.dictionary = SAFE, !.dictSize = size], past)

(* What a table keeps of a position.                                       *)
InTable(type, i) == IF type = "byU16" THEN i % KB64 ELSE i

(* The first position of the block goes into the table, the search starts  *)
(* at the second.                                                          *)
StartBlock(c, b, s) ==
  /\ Call
  /\ Store(b.src, s)
  /\ blk' = b
  /\ anchor' = b.start /\ decoded' = << >>
  /\ IF b.size < MatchMargin + 1
     THEN pc' = "last" /\ ip' = b.start /\ ctx' = c
     ELSE /\ pc' = "search" /\ ip' = b.start + 1
          /\ ctx' = [c EXCEPT !.table[Hash(SubSeq(s, 1, MinMatch))] = InTable(b.type, b.start)]
  /\ next' = b.src + b.size

(* The caller writes the block into the ring, after the last one or at the *)
(* beginning, and compresses it.  A small block asks the tables of an      *)
(* attached dictionary, for a large one they are copied.                   *)
LZ4_compress_fast_continue ==
  /\ pc = "idle"
  /\ \E s \in Blocks :
       LET src    == IF StreamRing - next < MaxBlock THEN 0 ELSE next
           n      == Len(s)
           known  == WithoutOverlap(WithoutTinyDictionary(LZ4_renormDictT(ctx, n), src), src, n)
           prefix == dictEnd(known) = src
           asked  == IF prefix \/ n > KB4 THEN {} ELSE known.dictCtx
           c      == IF prefix \/ n <= KB4 \/ known.dictCtx = {} THEN known
                     ELSE CHOOSE d \in known.dictCtx : TRUE
           dict   == IF asked = {} THEN c ELSE CHOOSE d \in asked : TRUE
           small  == /\ prefix \/ known.dictCtx = {}
                     /\ c.dictSize < KB64 /\ c.dictSize < c.currentOffset
       IN  StartBlock([c EXCEPT !.currentOffset = @ + n, !.tableType = "byU32",
                                !.dictCtx = IF asked = {} THEN @ ELSE {},
                                !.dictionary = IF prefix THEN @ ELSE src,
                                !.dictSize = IF prefix THEN @ + n ELSE n],
                      [src |-> src, size |-> n, start |-> c.currentOffset,
                       low |-> c.currentOffset - dict.dictSize, dictEnd |-> dictEnd(dict),
                       attached |-> asked, extMem |-> ~prefix, type |-> "byU32",
                       dictSmall |-> small], s)
  /\ UNCHANGED past

(* One block alone, with the tables of a context that is not cleared.      *)
LZ4_compress_fast_extState_fastReset ==
  /\ pc \in { "idle", "used" }
  /\ \E s \in Blocks :
       LET c == LZ4_prepareTable(ctx, Len(s), "byU16")
       IN  StartBlock([c EXCEPT !.currentOffset = @ + Len(s), !.tableType = "byU16",
                                !.dictSize = Len(s)],
                      [src |-> 0, size |-> Len(s), start |-> c.currentOffset,
                       low |-> c.currentOffset, dictEnd |-> NULL, attached |-> {},
                       extMem |-> FALSE, type |-> "byU16",
                       dictSmall |-> c.currentOffset # 0], s)
  /\ past' = << >>

(* A position of the search; only while another one follows is it looked   *)
(* at.                                                                     *)
Put(t, i) == [t EXCEPT ![HashAt(i)] = InTable(blk.type, i)]

Search ==
  /\ pc = "search"
  /\ \E step \in StepSizes :
       IF ip + step > mflimitPlusOne
       THEN pc' = "last" /\ UNCHANGED << ctx, ip, anchor, decoded >>
       ELSE /\ ctx' = [ctx EXCEPT !.table = Put(@, ip)]
            /\ LET m == MatchIndex(ctx.table, HashAt(ip))
               IN  IF Matches(m, ip) THEN Encode(m, ip)
                   ELSE ip' = ip + step /\ UNCHANGED << pc, anchor, decoded >>
  /\ UNCHANGED << mem, blk, past, next, calls >>

(* Right after a match.                                                    *)
NextPosition ==
  /\ pc = "next"
  /\ LET t == Put(ctx.table, ip - 2)
         m == MatchIndex(t, HashAt(ip))
     IN  /\ ctx' = [ctx EXCEPT !.table = Put(t, ip)]
         /\ IF Matches(m, ip) THEN Encode(m, ip)
            ELSE ip' = ip + 1 /\ pc' = "search" /\ UNCHANGED << anchor, decoded >>
  /\ UNCHANGED << mem, blk, past, next, calls >>

LastLiterals ==
  /\ pc = "last"
  /\ decoded' = decoded \o Bytes(anchor, iend)
  /\ past' = Window(past \o decoded')
  /\ pc' = IF blk.type = "byU16" THEN "used" ELSE "idle"
  /\ UNCHANGED << mem, ctx, blk, ip, anchor, next, calls >>

(* The output is full.  After that a context is not to be used without a   *)
(* reset; but LZ4F_makeBlock stores the block as it is and uses it on.     *)
GiveUp ==
  /\ pc \in { "search", "next", "last" }
  /\ pc' = "failed"
  /\ UNCHANGED << mem, ctx, blk, ip, anchor, past, decoded, next, calls >>

StoreUncompressed ==
  /\ pc \in { "search", "next", "last" }
  /\ decoded' = Bytes(blk.start, iend)
  /\ past' = Window(past \o decoded')
  /\ pc' = IF blk.type = "byU16" THEN "used" ELSE "idle"
  /\ UNCHANGED << mem, ctx, blk, ip, anchor, next, calls >>

StreamNext ==
  \/ LZ4_resetStream_fast \/ LoadDict \/ LZ4_attach_dictionary \/ LZ4_saveDict
  \/ LZ4_compress_fast_continue \/ LZ4_compress_fast_extState_fastReset
  \/ Search \/ NextPosition \/ LastLiterals \/ GiveUp \/ StoreUncompressed

StreamSpec == StreamInit /\ [][StreamNext]_streamVars

-----------------------------------------------------------------------------
(* What the decoder makes of the sequences is the input, whatever the      *)
(* context went through before: blocks of other streams whose indexes are  *)
(* still in the table, a dictionary that was overwritten, cut or moved,    *)
(* a table that was shifted, a block that was given up or stored as it is. *)
DecodesBack ==
  pc \in { "search", "next", "last" } => decoded = Bytes(blk.start, anchor)

(* The bytes that a match is compared with lie inside the dictionary or    *)
(* the block, before the current position.                                 *)
ComparedInside ==
  /\ pc = "search" /\ ip < mflimitPlusOne =>
       LET m == MatchIndex(ctx.table, HashAt(ip))
       IN  Candidate(m, ip) => m >= blk.low /\ m < ip
  /\ pc = "next" =>
       LET m == MatchIndex(Put(ctx.table, ip - 2), HashAt(ip))
       IN  Candidate(m, ip) => m >= blk.low /\ m < ip
=============================================================================
