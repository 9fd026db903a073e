----------------------------- MODULE Lz4Format ------------------------------
(* What both compressors know of the block format.                         *)
EXTENDS Integers

MINMATCH      == 4
LASTLITERALS  == 5
MFLIMIT       == 12
LZ4_minLength == MFLIMIT + 1
RUN_MASK      == 15
ML_MASK       == 15

LZ4_compressBound(n) == n + n \div 255 + 16

(* Bytes that follow the token for a length of n.                          *)
LengthBytes(n) == IF n < 15 THEN 0 ELSE (n - 15) \div 255 + 1

Most(a, b)  == IF a > b THEN a ELSE b
Least(a, b) == IF a < b THEN a ELSE b

(* LZ4_wildCopy8: how many bytes a copy of n bytes writes.                 *)
WildCopy8(n) == 8 * ((Most(n, 1) + 7) \div 8)
=============================================================================
