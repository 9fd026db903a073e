---------------------------- MODULE Lz4HighMatches ----------------------------
(***************************************************************************)
(* How LZ4HC_compress_hashChain chooses among matches that overlap.  It    *)
(* holds up to three matches, the first at ip, and shortens, moves, drops  *)
(* or restores them before it encodes any.  What the match finder returns  *)
(* is left open within its contract, and so is whether the output has room *)
(* for a sequence, which module Lz4HighOutput says.                        *)
(***************************************************************************)
EXTENDS Lz4Format, Sequences

CONSTANTS
  InputSizes, Distances,
  OptimalML             \* the longest match whose length is in the token, 18

VARIABLES
  inputSize, pc, anchor,
  one,            \* ip, ref, ml
  two,            \* start2, ref2, ml2
  zero,           \* start0, ref0, ml0: the first match, in case it is skipped
  encoded         \* history: the sequences the last step encoded

matchVars == << inputSize, pc, anchor, one, two, zero, encoded >>

iend       == inputSize
mflimit    == iend - MFLIMIT
matchlimit == iend - LASTLITERALS

End(m) == m.start + m.ml

(* A match; what was found of it stays with it as history.                 *)
Match(start, end, distance) ==
  [start |-> start, ref |-> start - distance, ml |-> end - start,
   found |-> [start |-> start, end |-> end, distance |-> distance]]

Nothing(ip) == Match(ip, ip, 0)

(* LZ4HC_InsertAndGetWiderMatch: matches of the bytes at position at,      *)
(* extended backwards as far as low, that are longer than longest.         *)
Spans(at, low, longest) ==
  { s \in (low .. at) \X (at + MINMATCH .. matchlimit) : s[2] - s[1] > longest }
Wider(at, low, longest) ==
  { Match(s[1], s[2], d) : s \in Spans(at, low, longest), d \in Distances }

MatchesInit ==
  /\ inputSize \in InputSizes
  /\ pc = IF inputSize < LZ4_minLength THEN "last" ELSE "main"
  /\ anchor = 0
  /\ one = Nothing(0) /\ two = Nothing(0) /\ zero = Nothing(0)
  /\ encoded = << >>

-----------------------------------------------------------------------------
Sequence(from, m) == [literals |-> from, match |-> m]

Encode(m) ==
  /\ anchor' = End(m)
  /\ encoded' = << Sequence(anchor, m) >>

(* No room: ip, ref, ml and anchor are left as those of the sequence.      *)
Overflow(m) ==
  /\ pc' = "overflow" /\ one' = m
  /\ UNCHANGED << inputSize, two, zero >>

NoRoomFor(m) ==
  /\ Overflow(m)
  /\ encoded' = << >> /\ UNCHANGED anchor

(* The first match, or a step onward.                                      *)
MainLoop ==
  /\ pc = "main"
  /\ \/ /\ one.start <= mflimit
        /\ \E m \in Wider(one.start, one.start, MINMATCH - 1) :
             one' = m /\ zero' = m /\ pc' = "search2"
     \/ /\ one.start <= mflimit
        /\ one' = Nothing(one.start + 1) /\ UNCHANGED << pc, zero >>
     \/ /\ one.start > mflimit
        /\ pc' = "last" /\ UNCHANGED << one, zero >>
  /\ encoded' = << >>
  /\ UNCHANGED << inputSize, anchor, two >>

(* From here on the matches held are forgotten.                            *)
BackToMain(ip) ==
  /\ pc' = "main"
  /\ one' = Nothing(ip) /\ two' = Nothing(0) /\ zero' = Nothing(0)
  /\ UNCHANGED inputSize

EncodeFirst ==
  /\ pc = "search2"
  /\ \/ Encode(one) /\ BackToMain(End(one))
     \/ NoRoomFor(one)

(* The first match was skipped, and there is room for it before the next.  *)
Restored(m) ==
  IF zero.start < one.start /\ m.start < one.start + zero.ml THEN zero ELSE one

(* A longer match that starts within the first.                            *)
SecondMatch ==
  /\ pc = "search2"
  /\ End(one) <= mflimit
  /\ \E m \in Wider(End(one) - 2, one.start, one.ml) :
       LET first == Restored(m)
       IN  \/ /\ m.start - first.start < 3       \* first match too small: removed
              /\ one' = m
              /\ UNCHANGED << pc, two, zero >>
           \/ /\ m.start - first.start >= 3
              /\ one' = first /\ two' = m /\ zero' = Nothing(0)
              /\ pc' = "search3"
  /\ encoded' = << >>
  /\ UNCHANGED << inputSize, anchor >>

(* A match without its first n bytes.                                      *)
Behind(m, n) ==
  IF n > 0 THEN [m EXCEPT !.start = @ + n, !.ref = @ + n, !.ml = @ - n] ELSE m

(* How long the first match should be before the second.                   *)
newMl == Least(Least(one.ml, OptimalML), End(two) - MINMATCH - one.start)

(* The second match makes way for the first.                               *)
Second ==
  IF two.start - one.start < OptimalML
  THEN Behind(two, newMl - (two.start - one.start)) ELSE two

(* The first ends where the second starts, or before.                      *)
FirstBefore(m) == [one EXCEPT !.ml = Least(@, m.start - one.start)]

EncodeBoth ==
  /\ pc = "search3"
  /\ LET first == FirstBefore(Second)
     IN  \/ /\ anchor' = End(Second)
            /\ encoded' = << Sequence(anchor, first), Sequence(End(first), Second) >>
            /\ BackToMain(End(Second))
         \/ NoRoomFor(first)
         \/ /\ Encode(first)
            /\ Overflow(Second)

(* What the search for a third match, longer than the second, may give.    *)
Third ==
  IF End(Second) <= mflimit THEN Wider(End(Second) - 3, Second.start, Second.ml) ELSE {}

(* No space for the second match: it is removed, ...                       *)
DropSecond ==
  /\ pc = "search3"
  /\ \E m \in Third :
       /\ m.start < End(one)
       /\ two' = m
  /\ encoded' = << >>
  /\ UNCHANGED << inputSize, pc, anchor, one, zero >>

(* ... or the first is encoded and the second may be restored later.       *)
SkipSecond ==
  /\ pc = "search3"
  /\ \E m \in Third :
       /\ m.start >= End(one) /\ m.start < End(one) + 3
       /\ \/ /\ Encode(one)
             /\ one' = m
             /\ LET rest == Behind(Second, End(one) - Second.start)
                IN  zero' = IF rest.ml < MINMATCH THEN m ELSE rest
             /\ pc' = "search2" /\ two' = Nothing(0)
             /\ UNCHANGED inputSize
          \/ NoRoomFor(one)

(* Three matches in ascending order: the first is encoded.  Its length is  *)
(* decided once more, the second ends where it did.                        *)
EncodeAscending ==
  /\ pc = "search3"
  /\ \E m \in Third :
       /\ m.start >= End(one) + 3
       /\ LET close == Second.start < End(one) /\ Second.start - one.start < OptimalML
              first == IF close THEN [one EXCEPT !.ml = newMl] ELSE FirstBefore(Second)
              next  == IF close THEN Behind(Second, newMl - (Second.start - one.start))
                       ELSE Second
          IN  \/ /\ Encode(first)
                 /\ one' = next /\ two' = m
                 /\ UNCHANGED << inputSize, pc, zero >>
              \/ NoRoomFor(first)

(* LZ4_compress_HC_destSize fills up with the sequence that has no room, a *)
(* shorter match of it perhaps; what follows are literals.                 *)
DestOverflow ==
  /\ pc = "overflow"
  /\ \/ \E ml \in OptimalML .. one.ml \cup { one.ml } :
          LET last == [one EXCEPT !.ml = ml]
          IN  Encode(last) /\ one' = Nothing(End(last))
     \/ encoded' = << >> /\ UNCHANGED << anchor, one >>
  /\ pc' = "last"
  /\ UNCHANGED << inputSize, two, zero >>

MatchesNext ==
  \/ MainLoop \/ EncodeFirst \/ SecondMatch \/ EncodeBoth
  \/ DropSecond \/ SkipSecond \/ EncodeAscending \/ DestOverflow

Compressed == pc \in { "last", "overflow" } /\ UNCHANGED matchVars

MatchesSpec == MatchesInit /\ [][MatchesNext \/ Compressed]_matchVars

-----------------------------------------------------------------------------
(* What is left of a match is part of what was found, at the distance it   *)
(* was found.                                                              *)
PartOfFound(m) ==
  /\ m.start - m.ref = m.found.distance
  /\ m.found.start <= m.start /\ End(m) <= m.found.end

(* However matches were shortened, moved, dropped and restored: sequences  *)
(* follow each other, no match is shorter than the format can say, none    *)
(* reaches beyond what the finder compared, and the margins at the end of  *)
(* the block are kept.                                                     *)
SequencesLegal ==
  \A i \in DOMAIN encoded :
    LET m == encoded[i].match
    IN  /\ encoded[i].literals <= m.start
        /\ m.ml >= MINMATCH
        /\ PartOfFound(m)
        /\ m.start <= mflimit /\ End(m) <= matchlimit

(* No step searches in vain: it encodes, moves on, or holds a match that   *)
(* ends later than all before.                                             *)
Reach == IF pc = "search3" THEN End(two) ELSE End(one)
Progress ==
  [][\/ pc' \in { "last", "overflow" }
     \/ anchor' > anchor
     \/ Reach' > Reach
     \/ pc = "search2" /\ pc' = "search3"]_matchVars
=============================================================================
