------------------------------ MODULE Lz4Copy -------------------------------
(***************************************************************************)
(* How the decoder copies a match: the bytes at distance offset before the *)
(* output, which overlap with what is written when the offset is smaller   *)
(* than the length, in steps of 8, 16 or 32 bytes that may run past the    *)
(* end.  A copy is the sequence of its memcpy calls, << to, from, size >>. *)
(* Every byte before the output has a value of its own, its position.      *)
(***************************************************************************)
EXTENDS Integers, Sequences

CONSTANTS Offsets, Lengths, Rooms   \* Rooms: bytes from the end of the match to oend

VARIABLES
  way,                 \* which of the copies is made
  offset, length, room,
  mem,                 \* the output, and two scratch places below it
  todo                 \* the calls of memcpy that are left

copyVars == << way, offset, length, room, mem, todo >>

V    == -8             \* the eight bytes of v, a local variable
Zero == -12            \* four bytes of zero
OP   == 64             \* where the match goes
Blank == -1
Memory == Zero .. OP + 120

inc32table == [o \in 0 .. 7 |-> << 0, 1, 2, 1, 0, 4, 4, 4 >>[o + 1]]
dec64table == [o \in 0 .. 7 |-> << 0, 0, 0, -1, -4, 1, 2, 3 >>[o + 1]]

Bytes(to, from, n) == [k \in 1 .. n |-> << to + k - 1, from + k - 1, 1 >>]
Repeated(to, from, n, size) == [k \in 1 .. n |-> << to + size * (k - 1), from, size >>]

(* do copy while d < e: at least once.                                     *)
Steps(d, e, size) == IF e <= d THEN 1 ELSE (e - d + size - 1) \div size

LZ4_wildCopy8(d, s, e) ==
  [k \in 1 .. Steps(d, e, 8) |-> << d + 8 * (k - 1), s + 8 * (k - 1), 8 >>]

LZ4_wildCopy32(d, s, e) ==
  [k \in 1 .. 2 * Steps(d, e, 32) |-> << d + 16 * (k - 1), s + 16 * (k - 1), 16 >>]

(* The first eight bytes of a match that may overlap, and from where the   *)
(* copy goes on: at a multiple of the offset, at least eight bytes back.   *)
First8(d, s, o) ==
  IF o < 8 THEN Bytes(d, Zero, 4) \o Bytes(d, s, 4) \o << << d + 4, s + inc32table[o], 4 >> >>
  ELSE << << d, s, 8 >> >>
Source8(s, o) == IF o < 8 THEN s + inc32table[o] - dec64table[o] ELSE s + 8

LZ4_memcpy_using_offset_base(d, s, e, o) ==
  First8(d, s, o) \o LZ4_wildCopy8(d + 8, Source8(s, o), e)

LZ4_memcpy_using_offset(d, s, e, o) ==
  LET v == CASE o = 1 -> Repeated(V, s, 8, 1)
             [] o = 2 -> << << V, s, 2 >>, << V + 2, s, 2 >>, << V + 4, V, 4 >> >>
             [] o = 4 -> << << V, s, 4 >>, << V + 4, s, 4 >> >>
             [] OTHER -> << >>
  IN  IF v = << >> THEN LZ4_memcpy_using_offset_base(d, s, e, o)
      ELSE v \o Repeated(d, V, Steps(d, e, 8), 8)

(* The end of the decoder's main loop: near the end of the output no step  *)
(* of eight starts in its last seven bytes, single bytes follow.           *)
CopyLimit(oend) == oend - (8 - 1)

MainLoopCopy(d, s, e, o, oend) ==
  LET oCopyLimit == CopyLimit(oend)
      wide == IF d + 8 < oCopyLimit THEN LZ4_wildCopy8(d + 8, Source8(s, o), oCopyLimit) ELSE << >>
      rest == IF d + 8 < oCopyLimit THEN oCopyLimit ELSE d + 8
  IN  First8(d, s, o) \o
      IF e > oend - 12
      THEN wide \o Bytes(rest, Source8(s, o) + rest - (d + 8), IF e > rest THEN e - rest ELSE 0)
      ELSE << << d + 8, Source8(s, o), 8 >> >> \o
           IF e - d > 16 THEN LZ4_wildCopy8(d + 16, Source8(s, o) + 8, e) ELSE << >>

(* The calls, and what the decoder has checked before each of them.        *)
Ways ==
  { [name |-> "main", fits |-> room >= 5],
    [name |-> "using_offset", fits |-> offset < 16 /\ room >= 64],
    [name |-> "wild32", fits |-> offset >= 16 /\ room >= 64],
    [name |-> "short", fits |-> offset >= 8 /\ length <= 18 /\ room >= 32 - 18] }

Calls(name) ==
  LET s == OP - offset
      e == OP + length
  IN  CASE name = "main"         -> MainLoopCopy(OP, s, e, offset, e + room)
        [] name = "using_offset" -> LZ4_memcpy_using_offset(OP, s, e, offset)
        [] name = "wild32"       -> LZ4_wildCopy32(OP, s, e)
        [] name = "short"        -> << << OP, s, 8 >>, << OP + 8, s + 8, 8 >>, << OP + 16, s + 16, 2 >> >>

CopyInit ==
  /\ way = "none"
  /\ offset \in Offsets /\ length \in Lengths /\ room \in Rooms
  /\ mem = [i \in Memory |-> IF i \in Zero .. Zero + 3 THEN 0 ELSE IF i < OP THEN i ELSE Blank]
  /\ todo = << >>

Start ==
  /\ way = "none"
  /\ \E w \in Ways : w.fits /\ way' = w.name /\ todo' = Calls(w.name)
  /\ UNCHANGED << offset, length, room, mem >>

MemCpy ==
  /\ todo # << >>
  /\ LET to == Head(todo)[1]  from == Head(todo)[2]  size == Head(todo)[3]
     IN  mem' = [i \in Memory |-> IF i \in to .. to + size - 1 THEN mem[from + i - to] ELSE mem[i]]
  /\ todo' = Tail(todo)
  /\ UNCHANGED << way, offset, length, room >>

CopyNext == Start \/ MemCpy

CopySpec == CopyInit /\ [][CopyNext]_copyVars

-----------------------------------------------------------------------------
(* The match repeats the bytes before the output with the offset as its    *)
(* period, whichever way it was copied; an offset of zero, which only a    *)
(* damaged block has, gives zeros and never bytes nobody wrote.            *)
CopiedPeriodically ==
  way # "none" /\ todo = << >> =>
    \A k \in 0 .. length - 1 :
      mem[OP + k] = IF offset = 0 THEN 0 ELSE OP - offset + (k % offset)

(* No memcpy gets regions that overlap, which C leaves undefined; the      *)
(* tables see to it that the copy is eight bytes behind after the first    *)
(* step, and what it reads has been written.                               *)
NoOverlap ==
  todo # << >> =>
    LET to == Head(todo)[1]  from == Head(todo)[2]  size == Head(todo)[3]
    IN  /\ to + size <= from \/ from + size <= to \/ size = 1
        /\ \A i \in from .. from + size - 1 : mem[i] # Blank

(* The bytes beyond the end of the output stay as they are, and so does    *)
(* what was decoded before.                                                *)
OnlyTheOutput ==
  \A i \in Memory : i >= 0 /\ i \notin OP .. OP + length + room - 1 =>
    mem[i] = IF i < OP THEN i ELSE Blank
=============================================================================
