------------------------ MODULE Lz4HighMatchesProofs ------------------------
(***************************************************************************)
(* Every sequence that LZ4HC_compress_hashChain encodes is legal, for      *)
(* every size of the input and every choice of the match finder.           *)
(***************************************************************************)
EXTENDS Lz4HighMatches, TLAPS

Spot == [start : Nat, end : Nat, distance : Nat]
MatchType == [start : Nat, ref : Int, ml : Nat, found : Spot]

MatchSizes ==
  /\ InputSizes \subseteq Nat /\ Distances \subseteq Nat
  /\ OptimalML \in Nat /\ OptimalML >= MINMATCH

MatchesTypeOK ==
  /\ inputSize \in Nat /\ anchor \in Nat
  /\ pc \in { "main", "search2", "search3", "overflow", "last" }
  /\ one \in MatchType /\ two \in MatchType /\ zero \in MatchType

(* A match that could be encoded.                                          *)
Usable(m) ==
  /\ m.ml >= MINMATCH /\ PartOfFound(m)
  /\ m.start <= mflimit /\ End(m) <= matchlimit

(* The match that was skipped starts at most two bytes before the one that *)
(* replaced it and is shorter, so that it need not be restored twice.      *)
OneHeld ==
  pc = "search2" =>
    /\ Usable(one) /\ Usable(zero)
    /\ anchor <= zero.start
    /\ zero.start <= one.start /\ one.start <= zero.start + 2
    /\ zero.ml <= one.ml
    /\ zero.start < one.start => zero.ml < one.ml

(* Two matches: between them is room for the first, although it may be     *)
(* only two bytes after a match was restored; then the second is longer.   *)
TwoHeld ==
  pc = "search3" =>
    /\ Usable(one) /\ Usable(two)
    /\ anchor <= one.start
    /\ End(one) <= mflimit
    /\ two.ml > MINMATCH
    /\ one.start + 2 <= two.start /\ two.start <= End(one) + 1
    /\ one.start + 2 = two.start => two.ml > MINMATCH + 1

NoneHeld ==
  /\ pc = "main" => anchor <= one.start /\ one.ml = 0
  /\ pc = "overflow" => Usable(one) /\ anchor <= one.start

MatchesInv == MatchesTypeOK /\ NoneHeld /\ OneHeld /\ TwoHeld /\ SequencesLegal

-----------------------------------------------------------------------------
LEMMA NothingType ==
  ASSUME NEW ip \in Nat
  PROVE  Nothing(ip) \in MatchType /\ Nothing(ip).start = ip /\ Nothing(ip).ml = 0
BY DEF Nothing, Match, MatchType, Spot

(* The contract of the match finder.                                       *)
LEMMA WiderContract ==
  ASSUME MatchSizes, inputSize \in Nat, NEW at \in Int, NEW low \in Nat, NEW longest \in Nat,
         NEW m \in Wider(at, low, longest)
  PROVE  /\ m \in MatchType /\ PartOfFound(m)
         /\ low <= m.start /\ m.start <= at
         /\ at + MINMATCH <= End(m) /\ End(m) <= matchlimit
         /\ m.ml > longest
<1>1. PICK s \in Spans(at, low, longest), d \in Distances : m = Match(s[1], s[2], d)
      BY DEF Wider
<1>2. /\ s[1] \in low .. at /\ s[2] \in at + MINMATCH .. matchlimit /\ s[2] - s[1] > longest
      /\ d \in Nat
      BY DEF Spans, MatchSizes
<1>3. s[1] \in Nat /\ s[2] \in Nat /\ s[2] - s[1] \in Nat /\ s[1] - d \in Int
      BY <1>2 DEF MINMATCH, matchlimit, iend, LASTLITERALS
<1>4. /\ m.start = s[1] /\ m.ref = s[1] - d /\ m.ml = s[2] - s[1]
      /\ m.found.start = s[1] /\ m.found.end = s[2] /\ m.found.distance = d
      BY <1>1 DEF Match
<1>5. m \in MatchType
      BY <1>1, <1>2, <1>3 DEF Match, MatchType, Spot
<1> QED
    BY <1>2, <1>3, <1>4, <1>5 DEF PartOfFound, End

(* A match without some of its first bytes ends where it did.              *)
LEMMA BehindFacts ==
  ASSUME NEW m \in MatchType, NEW n \in Int, n <= m.ml, PartOfFound(m)
  PROVE  /\ Behind(m, n) \in MatchType /\ PartOfFound(Behind(m, n))
         /\ End(Behind(m, n)) = End(m)
         /\ n > 0 => Behind(m, n).start = m.start + n /\ Behind(m, n).ml = m.ml - n
         /\ n <= 0 => Behind(m, n) = m
<1>1. /\ m.start \in Nat /\ m.ref \in Int /\ m.ml \in Nat /\ m.found \in Spot
      /\ m = [start |-> m.start, ref |-> m.ref, ml |-> m.ml, found |-> m.found]
      BY DEF MatchType
<1>2. CASE n <= 0
      BY <1>2 DEF Behind
<1>3. CASE n > 0
  <2>1. Behind(m, n) = [start |-> m.start + n, ref |-> m.ref + n, ml |-> m.ml - n,
                        found |-> m.found]
        BY <1>1, <1>3 DEF Behind
  <2>2. /\ m.start + n \in Nat /\ m.ref + n \in Int /\ m.ml - n \in Nat
        BY <1>1, <1>3
  <2>3. Behind(m, n) \in MatchType
        BY <1>1, <2>1, <2>2 DEF MatchType
  <2>4. /\ m.found.start \in Nat /\ m.found.end \in Nat /\ m.found.distance \in Nat
        BY <1>1 DEF Spot
  <2>5. /\ Behind(m, n).start = m.start + n /\ Behind(m, n).ref = m.ref + n
        /\ Behind(m, n).ml = m.ml - n /\ Behind(m, n).found = m.found
        BY <2>1
  <2>6. /\ m.start - m.ref = m.found.distance
        /\ m.found.start <= m.start /\ m.start + m.ml <= m.found.end
        BY DEF PartOfFound, End
  <2>7. End(Behind(m, n)) = End(m)
        BY <1>1, <1>3, <2>5 DEF End
  <2>8. PartOfFound(Behind(m, n))
        BY <1>1, <1>3, <2>4, <2>5, <2>6 DEF PartOfFound, End
  <2> QED
      BY <1>3, <2>3, <2>5, <2>7, <2>8
<1> QED
    BY <1>1, <1>2, <1>3

(* A match cut short is part of what was found.                            *)
LEMMA CutFacts ==
  ASSUME NEW m \in MatchType, NEW n \in Nat, n <= m.ml, PartOfFound(m)
  PROVE  /\ [m EXCEPT !.ml = n] \in MatchType /\ PartOfFound([m EXCEPT !.ml = n])
         /\ [m EXCEPT !.ml = n].start = m.start /\ [m EXCEPT !.ml = n].ml = n
BY DEF MatchType, Spot, PartOfFound, End

(* The second match once it made way for the first.                        *)
LEMMA SecondFacts ==
  ASSUME MatchSizes, MatchesInv, pc = "search3"
  PROVE  /\ newMl \in Nat /\ newMl >= MINMATCH
         /\ newMl <= one.ml /\ newMl <= OptimalML
         /\ newMl <= End(two) - MINMATCH - one.start
         /\ Second \in MatchType /\ Usable(Second)
         /\ End(Second) = End(two)
         /\ Second.ml <= two.ml
         /\ one.start + MINMATCH <= Second.start
         /\ Second.start <= End(one) + 1
         /\ Second.start = End(one) + 1 => Second.ml > MINMATCH
         /\ Second.start - one.start < OptimalML => one.start + newMl <= Second.start
<1>1. /\ one \in MatchType /\ two \in MatchType /\ Usable(one) /\ Usable(two)
      /\ End(one) <= mflimit /\ two.ml > MINMATCH
      /\ one.start + 2 <= two.start /\ two.start <= End(one) + 1
      /\ one.start + 2 = two.start => two.ml > MINMATCH + 1
      /\ inputSize \in Nat
      BY DEF MatchesInv, MatchesTypeOK, TwoHeld
<1>2. /\ one.start \in Nat /\ one.ml \in Nat /\ two.start \in Nat /\ two.ml \in Nat
      /\ End(one) = one.start + one.ml /\ End(two) = two.start + two.ml
      /\ one.ml >= MINMATCH /\ End(two) <= matchlimit /\ two.start <= mflimit
      /\ PartOfFound(two)
      BY <1>1 DEF MatchType, End, Usable
<1>3. /\ newMl \in Nat /\ newMl >= MINMATCH
      /\ newMl <= one.ml /\ newMl <= OptimalML
      /\ newMl <= End(two) - MINMATCH - one.start
      BY <1>1, <1>2 DEF MatchSizes, newMl, Least, MINMATCH
<1>4. CASE ~(two.start - one.start < OptimalML)
  <2>1. Second = two
        BY <1>4 DEF Second
  <2> QED
      BY <1>1, <1>2, <1>3, <1>4, <2>1 DEF MatchSizes, MINMATCH
<1>5. CASE two.start - one.start < OptimalML
  <2> DEFINE n == newMl - (two.start - one.start)
  <2>1. n \in Int /\ n <= two.ml
        BY <1>2, <1>3 DEF MINMATCH
  <2>2. Second = Behind(two, n)
        BY <1>5 DEF Second
  <2>3. /\ Second \in MatchType /\ PartOfFound(Second) /\ End(Second) = End(two)
        /\ n > 0 => Second.start = two.start + n /\ Second.ml = two.ml - n
        /\ n <= 0 => Second = two
        BY <1>1, <1>2, <2>1, <2>2, BehindFacts
  <2>4. CASE n > 0
    <3>1. Second.start = one.start + newMl /\ Second.ml = End(two) - one.start - newMl
          BY <1>2, <1>3, <2>3, <2>4
    <3>2. Usable(Second)
          BY <1>1, <1>2, <1>3, <2>3, <3>1 DEF Usable, MINMATCH, mflimit, matchlimit, iend,
             MFLIMIT, LASTLITERALS
    <3> QED
        BY <1>2, <1>3, <2>1, <2>3, <2>4, <3>1, <3>2 DEF MINMATCH
  <2>5. CASE n <= 0
        BY <1>1, <1>2, <1>3, <2>3, <2>5 DEF MINMATCH
  <2> QED
      BY <2>1, <2>4, <2>5
<1> QED
    BY <1>4, <1>5

LEMMA ThirdFacts ==
  ASSUME MatchSizes, MatchesInv, pc = "search3", NEW m \in Third
  PROVE  /\ m \in MatchType /\ Usable(m)
         /\ End(Second) <= mflimit
         /\ Second.start <= m.start /\ m.start + 3 <= End(Second)
         /\ m.ml > Second.ml /\ End(m) > End(Second)
<1>1. /\ Second \in MatchType /\ Usable(Second) /\ inputSize \in Nat
      BY SecondFacts DEF MatchesInv, MatchesTypeOK
<1>2. /\ Second.start \in Nat /\ Second.ml \in Nat /\ End(Second) \in Nat
      /\ End(Second) = Second.start + Second.ml /\ Second.ml >= MINMATCH
      BY <1>1 DEF MatchType, End, Usable
<1>3. End(Second) <= mflimit /\ m \in Wider(End(Second) - 3, Second.start, Second.ml)
      BY DEF Third
<1>4. /\ m \in MatchType /\ PartOfFound(m)
      /\ Second.start <= m.start /\ m.start <= End(Second) - 3
      /\ End(m) <= matchlimit /\ m.ml > Second.ml /\ End(Second) - 3 + 4 <= End(m)
  <2>1. End(Second) - 3 \in Int
        BY <1>2
  <2> QED
      BY <1>1, <1>2, <1>3, <2>1, WiderContract DEF MINMATCH
<1>5. m.start \in Nat /\ m.ml \in Nat /\ End(m) \in Nat
      BY <1>4 DEF MatchType, End
<1> QED
    BY <1>1, <1>2, <1>3, <1>4, <1>5 DEF Usable, MINMATCH, mflimit, iend, MFLIMIT

LEMMA UsableStays ==
  ASSUME UNCHANGED inputSize
  PROVE  mflimit' = mflimit /\ matchlimit' = matchlimit
BY DEF mflimit, matchlimit, iend

(* What is legal of the sequences of a step.                               *)
LEMMA NothingEncoded ==
  ASSUME encoded' = << >>
  PROVE  SequencesLegal'
BY DEF SequencesLegal

LEMMA OneEncoded ==
  ASSUME NEW a, NEW m, encoded' = << Sequence(a, m) >>,
         a <= m.start, Usable(m), UNCHANGED inputSize
  PROVE  SequencesLegal'
BY UsableStays DEF SequencesLegal, Sequence, Usable

LEMMA TwoEncoded ==
  ASSUME NEW a, NEW m, NEW b, NEW n, encoded' = << Sequence(a, m), Sequence(b, n) >>,
         a <= m.start, Usable(m), b <= n.start, Usable(n), UNCHANGED inputSize
  PROVE  SequencesLegal'
<1>1. mflimit' = mflimit /\ matchlimit' = matchlimit
      BY UsableStays
<1> SUFFICES ASSUME NEW i \in { 1, 2 }
             PROVE  LET s == encoded'[i].match
                    IN  /\ encoded'[i].literals <= s.start
                        /\ s.ml >= MINMATCH /\ PartOfFound(s)
                        /\ s.start <= mflimit /\ End(s) <= matchlimit
    BY <1>1 DEF SequencesLegal
<1>2. CASE i = 1
      BY <1>2 DEF Sequence, Usable
<1>3. CASE i = 2
      BY <1>3 DEF Sequence, Usable
<1> QED
    BY <1>2, <1>3

-----------------------------------------------------------------------------
LEMMA MatchesInitInv ==
  ASSUME MatchSizes, MatchesInit
  PROVE  MatchesInv
<1>1. MatchesTypeOK
      BY NothingType DEF MatchSizes, MatchesInit, MatchesTypeOK
<1>2. NoneHeld
      BY NothingType DEF MatchesInit, NoneHeld
<1>3. OneHeld /\ TwoHeld /\ SequencesLegal
      BY DEF MatchesInit, OneHeld, TwoHeld, SequencesLegal
<1> QED
    BY <1>1, <1>2, <1>3 DEF MatchesInv

(* The invariant says nothing of the matches when the search is over or    *)
(* starts anew.                                                            *)
LEMMA BackToMainInv ==
  ASSUME NEW ip \in Nat, inputSize \in Nat, BackToMain(ip), anchor' = ip
  PROVE  MatchesTypeOK' /\ NoneHeld' /\ OneHeld' /\ TwoHeld'
<1>1. /\ one' = Nothing(ip) /\ two' = Nothing(0) /\ zero' = Nothing(0)
      /\ pc' = "main" /\ inputSize' = inputSize
      BY DEF BackToMain
<1>2. MatchesTypeOK'
      BY <1>1, NothingType DEF MatchesTypeOK
<1> QED
    BY <1>1, <1>2, NothingType DEF NoneHeld, OneHeld, TwoHeld

LEMMA OverflowInv ==
  ASSUME MatchesTypeOK, NEW m \in MatchType, Overflow(m), Usable(m),
         anchor' \in Nat, anchor' <= m.start
  PROVE  MatchesTypeOK' /\ NoneHeld' /\ OneHeld' /\ TwoHeld'
<1>1. /\ pc' = "overflow" /\ one' = m
      /\ inputSize' = inputSize /\ two' = two /\ zero' = zero
      BY DEF Overflow
<1>2. MatchesTypeOK'
      BY <1>1 DEF MatchesTypeOK
<1>3. NoneHeld'
      BY <1>1, UsableStays DEF NoneHeld, Usable
<1> QED
    BY <1>1, <1>2, <1>3 DEF OneHeld, TwoHeld

LEMMA NoRoomForInv ==
  ASSUME MatchesTypeOK, NEW m \in MatchType, NoRoomFor(m), Usable(m), anchor <= m.start
  PROVE  MatchesInv'
<1>1. Overflow(m) /\ encoded' = << >> /\ anchor' = anchor
      BY DEF NoRoomFor
<1>2. MatchesTypeOK' /\ NoneHeld' /\ OneHeld' /\ TwoHeld'
      BY <1>1, OverflowInv DEF MatchesTypeOK
<1> QED
    BY <1>1, <1>2, NothingEncoded DEF MatchesInv

LEMMA MainLoopInv ==
  ASSUME MatchSizes, MatchesInv, MainLoop
  PROVE  MatchesInv'
<1>1. /\ inputSize \in Nat /\ anchor \in Nat /\ pc = "main" /\ anchor <= one.start
      /\ one \in MatchType /\ two \in MatchType /\ zero \in MatchType
      /\ inputSize' = inputSize /\ anchor' = anchor /\ two' = two /\ encoded' = << >>
      BY DEF MatchesInv, MatchesTypeOK, NoneHeld, MainLoop
<1>2. one.start \in Nat
      BY <1>1 DEF MatchType
<1>3. SequencesLegal'
      BY <1>1, NothingEncoded
<1>4. CASE /\ one.start <= mflimit
           /\ \E m \in Wider(one.start, one.start, MINMATCH - 1) :
                one' = m /\ zero' = m /\ pc' = "search2"
  <2>1. PICK m \in Wider(one.start, one.start, MINMATCH - 1) :
             one' = m /\ zero' = m /\ pc' = "search2"
        BY <1>4
  <2>2. MINMATCH - 1 \in Nat
        BY DEF MINMATCH
  <2>3. /\ m \in MatchType /\ PartOfFound(m)
        /\ m.start = one.start /\ End(m) <= matchlimit /\ m.ml >= MINMATCH
    <3>1. /\ m \in MatchType /\ PartOfFound(m)
          /\ one.start <= m.start /\ m.start <= one.start
          /\ End(m) <= matchlimit /\ m.ml > MINMATCH - 1
          BY <1>1, <1>2, <2>2, WiderContract
    <3> QED
        BY <1>2, <3>1 DEF MatchType, MINMATCH
  <2>4. MatchesTypeOK'
        BY <1>1, <2>1, <2>3 DEF MatchesTypeOK
  <2>5. Usable(m)
        BY <1>4, <2>3 DEF Usable
  <2>6. OneHeld'
    <3>1. m.start \in Nat /\ m.ml \in Nat
          BY <2>3 DEF MatchType
    <3> QED
        BY <1>1, <2>1, <2>3, <2>5, <3>1, UsableStays DEF OneHeld, Usable
  <2> QED
      BY <1>3, <2>1, <2>4, <2>6 DEF MatchesInv, NoneHeld, TwoHeld
<1>5. CASE one' = Nothing(one.start + 1) /\ UNCHANGED << pc, zero >>
  <2>1. one' \in MatchType /\ one'.start = one.start + 1 /\ one'.ml = 0
        BY <1>2, <1>5, NothingType
  <2> QED
      BY <1>1, <1>2, <1>3, <1>5, <2>1 DEF MatchesInv, MatchesTypeOK, NoneHeld, OneHeld, TwoHeld
<1>6. CASE pc' = "last" /\ UNCHANGED << one, zero >>
      BY <1>1, <1>3, <1>6 DEF MatchesInv, MatchesTypeOK, NoneHeld, OneHeld, TwoHeld
<1> QED
    BY <1>4, <1>5, <1>6 DEF MainLoop

LEMMA EncodeFirstInv ==
  ASSUME MatchesInv, EncodeFirst
  PROVE  MatchesInv'
<1>1. /\ MatchesTypeOK /\ inputSize \in Nat /\ one \in MatchType /\ Usable(one)
      /\ anchor <= zero.start /\ zero.start <= one.start
      /\ anchor \in Nat /\ zero \in MatchType
      BY DEF MatchesInv, MatchesTypeOK, OneHeld, EncodeFirst
<1>2. anchor <= one.start /\ End(one) \in Nat
      BY <1>1 DEF MatchType, End
<1>3. CASE Encode(one) /\ BackToMain(End(one))
  <2>1. MatchesTypeOK' /\ NoneHeld' /\ OneHeld' /\ TwoHeld'
        BY <1>1, <1>2, <1>3, BackToMainInv DEF Encode
  <2>2. SequencesLegal'
        BY <1>1, <1>2, <1>3, OneEncoded DEF Encode, BackToMain
  <2> QED
      BY <2>1, <2>2 DEF MatchesInv
<1>4. CASE NoRoomFor(one)
      BY <1>1, <1>2, <1>4, NoRoomForInv
<1> QED
    BY <1>3, <1>4 DEF EncodeFirst

(* A match that was skipped is restored before it is out of reach.         *)
LEMMA SecondMatchInv ==
  ASSUME MatchSizes, MatchesInv, SecondMatch
  PROVE  MatchesInv'
<1>1. /\ inputSize \in Nat /\ anchor \in Nat /\ pc = "search2"
      /\ one \in MatchType /\ two \in MatchType /\ zero \in MatchType
      /\ Usable(one) /\ Usable(zero) /\ anchor <= zero.start
      /\ zero.start <= one.start /\ one.start <= zero.start + 2 /\ zero.ml <= one.ml
      /\ zero.start < one.start => zero.ml < one.ml
      /\ inputSize' = inputSize /\ anchor' = anchor /\ encoded' = << >>
      /\ End(one) <= mflimit
      BY DEF MatchesInv, MatchesTypeOK, OneHeld, SecondMatch
<1>2. PICK m \in Wider(End(one) - 2, one.start, one.ml) :
        LET first == Restored(m)
        IN  \/ /\ m.start - first.start < 3
               /\ one' = m /\ UNCHANGED << pc, two, zero >>
            \/ /\ m.start - first.start >= 3
               /\ one' = first /\ two' = m /\ zero' = Nothing(0)
               /\ pc' = "search3"
      BY DEF SecondMatch
<1>3. /\ one.start \in Nat /\ one.ml \in Nat /\ zero.start \in Nat /\ zero.ml \in Nat
      /\ End(one) = one.start + one.ml /\ End(zero) = zero.start + zero.ml
      /\ one.ml >= 4 /\ zero.ml >= 4
      /\ zero.start <= one.start /\ one.start <= zero.start + 2
      /\ zero.ml <= one.ml
      BY <1>1 DEF MatchType, End, Usable, MINMATCH
<1>4. /\ m \in MatchType /\ PartOfFound(m)
      /\ one.start <= m.start /\ m.start <= End(one) - 2
      /\ End(m) <= matchlimit /\ m.ml > one.ml
  <2>1. End(one) - 2 \in Int
        BY <1>3
  <2> QED
      BY <1>1, <1>3, <2>1, WiderContract
<1>5. m.start \in Nat /\ m.ml \in Nat
      BY <1>4 DEF MatchType
<1>6. Usable(m)
  <2>1. mflimit \in Int
        BY <1>1 DEF mflimit, iend, MFLIMIT
  <2>2. PICK e \in Nat : e = End(one) /\ e <= mflimit /\ m.start <= e - 2
        BY <1>1, <1>3, <1>4
  <2>3. m.start <= mflimit
        BY <1>5, <2>1, <2>2
  <2>4. m.ml >= 4
        BY <1>3, <1>4, <1>5
  <2> QED
      BY <1>4, <2>3, <2>4 DEF Usable, MINMATCH
<1>7. /\ Restored(m) \in { one, zero }
      /\ Restored(m) = zero =>
           \/ zero = one
           \/ zero.start < one.start /\ m.start < one.start + zero.ml
      /\ Restored(m) = one =>
           \/ zero.start >= one.start \/ m.start >= one.start + zero.ml
  <2>1. CASE zero.start < one.start /\ m.start < one.start + zero.ml
    <3>1. Restored(m) = zero
          BY <2>1 DEF Restored
    <3>2. zero # one
          BY <1>3, <2>1
    <3> QED
        BY <2>1, <3>1, <3>2
  <2>2. CASE zero.start >= one.start \/ m.start >= one.start + zero.ml
    <3>1. Restored(m) = one
          BY <1>3, <1>5, <2>2 DEF Restored
    <3> QED
        BY <2>2, <3>1
  <2> QED
      BY <1>3, <1>5, <2>1, <2>2
<1>8. SequencesLegal'
      BY <1>1, NothingEncoded
<1>9. CASE /\ m.start - Restored(m).start < 3
           /\ one' = m /\ UNCHANGED << pc, two, zero >>
  <2>1. m.start <= zero.start + 2
        BY <1>1, <1>3, <1>5, <1>7, <1>9
  <2>2. MatchesTypeOK'
        BY <1>1, <1>4, <1>9 DEF MatchesTypeOK
  <2>3. OneHeld'
    <3>1. one' = m /\ zero' = zero /\ anchor' = anchor /\ mflimit' = mflimit
          /\ matchlimit' = matchlimit
          BY <1>1, <1>9 DEF mflimit, matchlimit, iend
    <3>2. Usable(one)' /\ Usable(zero)'
          BY <1>1, <1>6, <3>1 DEF Usable, PartOfFound, End
    <3>3. zero.ml < m.ml /\ zero.ml <= m.ml /\ zero.start <= m.start
          BY <1>3, <1>4, <1>5
    <3> QED
        BY <1>1, <2>1, <3>1, <3>2, <3>3 DEF OneHeld
  <2> QED
      BY <1>1, <1>8, <1>9, <2>2, <2>3 DEF MatchesInv, NoneHeld, TwoHeld
<1>10. CASE /\ m.start - Restored(m).start >= 3
            /\ one' = Restored(m) /\ two' = m /\ zero' = Nothing(0)
            /\ pc' = "search3"
  <2> DEFINE f == Restored(m)
  <2>1. f \in MatchType /\ Usable(f) /\ anchor <= f.start
        BY <1>1, <1>3, <1>7
  <2>2. /\ f.start \in Nat /\ f.ml \in Nat /\ End(f) = f.start + f.ml
        BY <2>1 DEF MatchType, End
  <2>3. End(f) <= mflimit /\ m.start <= End(f) + 1
    <3>1. CASE f = one
          BY <1>1, <1>3, <1>4, <1>5, <3>1
    <3>2. CASE f = zero
      <4>1. CASE zero = one
            BY <1>1, <1>3, <1>4, <1>5, <3>2, <4>1
      <4>2. CASE zero.start < one.start /\ m.start < one.start + zero.ml
        <5>1. mflimit \in Int
              BY <1>1 DEF mflimit, iend, MFLIMIT
        <5>2. End(zero) <= mflimit /\ m.start <= End(zero) + 1
          <6>1. zero.ml < one.ml /\ End(one) <= mflimit
                BY <1>1, <4>2
          <6> QED
              BY <1>3, <1>5, <4>2, <5>1, <6>1
        <5> QED
            BY <3>2, <5>2
      <4> QED
          BY <1>7, <3>2, <4>1, <4>2
    <3> QED
        BY <1>7, <3>1, <3>2
  <2>4. MatchesTypeOK'
        BY <1>1, <1>4, <1>10, <2>1, NothingType DEF MatchesTypeOK
  <2>5. TwoHeld'
    <3>1. Usable(one)' /\ Usable(two)'
          BY <1>1, <1>6, <1>10, <2>1, UsableStays DEF Usable
    <3> HIDE DEF f
    <3>2. /\ one' = f /\ two' = m /\ anchor' = anchor /\ mflimit' = mflimit
          /\ m.start - f.start >= 3
          BY <1>1, <1>10, UsableStays DEF f
    <3>3. m.ml > 4 /\ f.start + 3 <= m.start
          BY <1>3, <1>4, <1>5, <2>2, <3>2
    <3> QED
        BY <1>5, <2>1, <2>2, <2>3, <3>1, <3>2, <3>3 DEF TwoHeld, End, MINMATCH
  <2> QED
      BY <1>8, <1>10, <2>4, <2>5 DEF MatchesInv, NoneHeld, OneHeld
<1> QED
    BY <1>2, <1>9, <1>10

(* The first match, cut where the second starts.                           *)
LEMMA FirstBeforeFacts ==
  ASSUME MatchSizes, MatchesInv, pc = "search3"
  PROVE  /\ FirstBefore(Second) \in MatchType /\ Usable(FirstBefore(Second))
         /\ FirstBefore(Second).start = one.start
         /\ End(FirstBefore(Second)) \in Nat
         /\ End(FirstBefore(Second)) <= Second.start
<1> DEFINE n == Least(one.ml, Second.start - one.start)
<1>1. /\ one \in MatchType /\ Usable(one)
      /\ Second \in MatchType /\ one.start + MINMATCH <= Second.start
      BY SecondFacts DEF MatchesInv, MatchesTypeOK, TwoHeld
<1>2. /\ one.start \in Nat /\ one.ml \in Nat /\ Second.start \in Nat
      /\ one.ml >= 4 /\ one.start + 4 <= Second.start /\ PartOfFound(one)
      /\ one.start <= mflimit /\ End(one) <= matchlimit /\ End(one) = one.start + one.ml
      BY <1>1 DEF MatchType, Usable, End, MINMATCH
<1>3. n \in Nat /\ n <= one.ml /\ n >= 4 /\ n <= Second.start - one.start
      BY <1>2 DEF Least
<1>4. FirstBefore(Second) = [one EXCEPT !.ml = n]
      BY DEF FirstBefore
<1> HIDE DEF n
<1>5. /\ FirstBefore(Second) \in MatchType /\ PartOfFound(FirstBefore(Second))
      /\ FirstBefore(Second).start = one.start /\ FirstBefore(Second).ml = n
      BY <1>1, <1>2, <1>3, <1>4, CutFacts
<1>6. inputSize \in Nat
      BY DEF MatchesInv, MatchesTypeOK
<1> QED
    BY <1>2, <1>3, <1>5, <1>6 DEF Usable, End, MINMATCH, matchlimit, iend, LASTLITERALS

LEMMA EncodeBothInv ==
  ASSUME MatchSizes, MatchesInv, EncodeBoth
  PROVE  MatchesInv'
<1>1. /\ MatchesTypeOK /\ inputSize \in Nat /\ anchor \in Nat /\ pc = "search3"
      /\ one \in MatchType /\ Usable(one) /\ anchor <= one.start
      BY DEF MatchesInv, MatchesTypeOK, TwoHeld, EncodeBoth
<1>2. /\ FirstBefore(Second) \in MatchType /\ Usable(FirstBefore(Second))
      /\ FirstBefore(Second).start = one.start
      /\ End(FirstBefore(Second)) \in Nat
      /\ End(FirstBefore(Second)) <= Second.start
      /\ Second \in MatchType /\ Usable(Second)
      BY <1>1, FirstBeforeFacts, SecondFacts
<1>3. End(Second) \in Nat
      BY <1>2 DEF MatchType, End
<1>4. CASE /\ anchor' = End(Second)
           /\ encoded' = << Sequence(anchor, FirstBefore(Second)),
                            Sequence(End(FirstBefore(Second)), Second) >>
           /\ BackToMain(End(Second))
  <2>1. MatchesTypeOK' /\ NoneHeld' /\ OneHeld' /\ TwoHeld'
        BY <1>1, <1>3, <1>4, BackToMainInv
  <2>2. SequencesLegal'
        BY <1>1, <1>2, <1>4, TwoEncoded DEF BackToMain
  <2> QED
      BY <2>1, <2>2 DEF MatchesInv
<1>5. CASE NoRoomFor(FirstBefore(Second))
      BY <1>1, <1>2, <1>5, NoRoomForInv
<1>6. CASE Encode(FirstBefore(Second)) /\ Overflow(Second)
  <2>1. MatchesTypeOK' /\ NoneHeld' /\ OneHeld' /\ TwoHeld'
        BY <1>1, <1>2, <1>6, OverflowInv DEF Encode
  <2>2. SequencesLegal'
        BY <1>1, <1>2, <1>6, OneEncoded DEF Encode, Overflow
  <2> QED
      BY <2>1, <2>2 DEF MatchesInv
<1> QED
    BY <1>4, <1>5, <1>6 DEF EncodeBoth

LEMMA DropSecondInv ==
  ASSUME MatchSizes, MatchesInv, DropSecond
  PROVE  MatchesInv'
<1>1. /\ MatchesTypeOK /\ inputSize \in Nat /\ pc = "search3"
      /\ one \in MatchType /\ Usable(one) /\ anchor <= one.start /\ End(one) <= mflimit
      /\ inputSize' = inputSize /\ pc' = pc /\ anchor' = anchor
      /\ one' = one /\ zero' = zero /\ encoded' = << >>
      BY DEF MatchesInv, MatchesTypeOK, TwoHeld, DropSecond
<1>2. PICK m \in Third : m.start < End(one) /\ two' = m
      BY DEF DropSecond
<1>3. /\ m \in MatchType /\ Usable(m)
      /\ Second.start <= m.start /\ m.ml > Second.ml
      /\ one.start + MINMATCH <= Second.start
      /\ Second \in MatchType /\ Usable(Second)
      BY <1>1, SecondFacts, ThirdFacts
<1>4. /\ m.start \in Nat /\ m.ml \in Nat /\ one.start \in Nat /\ End(one) \in Nat
      /\ Second.start \in Nat /\ Second.ml \in Nat /\ Second.ml >= 4
      BY <1>1, <1>3 DEF MatchType, End, Usable, MINMATCH
<1>5. MatchesTypeOK'
      BY <1>1, <1>2, <1>3 DEF MatchesTypeOK
<1>6. TwoHeld'
  <2>1. Usable(one)' /\ Usable(two)'
        BY <1>1, <1>2, <1>3, UsableStays DEF Usable
  <2>2. mflimit' = mflimit /\ one' = one /\ two' = m /\ anchor' = anchor
        BY <1>1, <1>2, UsableStays
  <2>3. m.ml > 4 /\ one.start + 4 <= m.start /\ m.start < End(one)
        BY <1>2, <1>3, <1>4 DEF MINMATCH
  <2> QED
      BY <1>1, <1>4, <2>1, <2>2, <2>3 DEF TwoHeld, End, MINMATCH
<1> QED
    BY <1>1, <1>5, <1>6, NothingEncoded DEF MatchesInv, NoneHeld, OneHeld

(* The facts the next two steps have in common.                            *)
LEMMA AscendingFacts ==
  ASSUME MatchSizes, MatchesInv, pc = "search3", NEW m \in Third
  PROVE  /\ MatchesTypeOK /\ inputSize \in Nat /\ anchor \in Nat
         /\ one \in MatchType /\ two \in MatchType /\ zero \in MatchType
         /\ Usable(one) /\ anchor <= one.start
         /\ m \in MatchType /\ Usable(m)
         /\ Second \in MatchType /\ Usable(Second)
         /\ one.start \in Nat /\ one.ml \in Nat /\ m.start \in Nat /\ m.ml \in Nat
         /\ Second.start \in Nat /\ Second.ml \in Nat
         /\ End(one) = one.start + one.ml /\ End(one) <= mflimit
         /\ End(Second) = Second.start + Second.ml /\ End(Second) <= mflimit
         /\ one.ml >= 4 /\ Second.ml >= 4 /\ m.ml > Second.ml
         /\ Second.start <= m.start /\ m.start + 3 <= End(Second)
         /\ one.start + 4 <= Second.start /\ Second.start <= End(one) + 1
         /\ Second.start = End(one) + 1 => Second.ml > 4
<1>1. /\ MatchesTypeOK /\ inputSize \in Nat /\ anchor \in Nat
      /\ one \in MatchType /\ two \in MatchType /\ zero \in MatchType
      /\ Usable(one) /\ anchor <= one.start /\ End(one) <= mflimit
      BY DEF MatchesInv, MatchesTypeOK, TwoHeld
<1>2. /\ m \in MatchType /\ Usable(m) /\ End(Second) <= mflimit
      /\ Second.start <= m.start /\ m.start + 3 <= End(Second) /\ m.ml > Second.ml
      BY ThirdFacts
<1>3. /\ Second \in MatchType /\ Usable(Second)
      /\ one.start + 4 <= Second.start /\ Second.start <= End(one) + 1
      /\ Second.start = End(one) + 1 => Second.ml > 4
      BY SecondFacts DEF MINMATCH
<1>4. one.ml >= 4 /\ Second.ml >= 4
      BY <1>1, <1>3 DEF Usable, MINMATCH
<1>5. /\ one.start \in Nat /\ one.ml \in Nat /\ m.start \in Nat /\ m.ml \in Nat
      /\ Second.start \in Nat /\ Second.ml \in Nat
      BY <1>1, <1>2, <1>3 DEF MatchType
<1>6. End(one) = one.start + one.ml /\ End(Second) = Second.start + Second.ml
      BY DEF End
<1> QED
    BY <1>1, <1>2, <1>3, <1>4, <1>5, <1>6

(* The second match that was skipped starts where the first ended, and the *)
(* third at most two bytes later.                                          *)
LEMMA SkipSecondInv ==
  ASSUME MatchSizes, MatchesInv, SkipSecond
  PROVE  MatchesInv'
<1>1. PICK m \in Third :
        /\ m.start >= End(one) /\ m.start < End(one) + 3
        /\ \/ /\ Encode(one)
              /\ one' = m
              /\ LET rest == Behind(Second, End(one) - Second.start)
                 IN  zero' = IF rest.ml < MINMATCH THEN m ELSE rest
              /\ pc' = "search2" /\ two' = Nothing(0)
              /\ UNCHANGED inputSize
           \/ NoRoomFor(one)
      BY DEF SkipSecond
<1>2. pc = "search3"
      BY DEF SkipSecond
<1>3. /\ MatchesTypeOK /\ inputSize \in Nat /\ anchor \in Nat
      /\ one \in MatchType /\ Usable(one) /\ anchor <= one.start
      /\ m \in MatchType /\ Usable(m)
      /\ Second \in MatchType /\ Usable(Second)
      BY <1>2, AscendingFacts
<1>4. /\ one.start \in Nat /\ one.ml \in Nat /\ m.start \in Nat /\ m.ml \in Nat
      /\ Second.start \in Nat /\ Second.ml \in Nat
      /\ End(one) = one.start + one.ml /\ End(Second) = Second.start + Second.ml
      /\ one.ml >= 4 /\ Second.ml >= 4 /\ m.ml > Second.ml
      /\ Second.start <= m.start /\ m.start + 3 <= End(Second)
      /\ Second.start <= End(one) + 1
      BY <1>2, AscendingFacts
<1>5. CASE NoRoomFor(one)
      BY <1>3, <1>5, NoRoomForInv
<1>6. CASE ~NoRoomFor(one)
  <2> DEFINE n == End(one) - Second.start
             rest == Behind(Second, n)
  <2>1. /\ anchor' = End(one) /\ encoded' = << Sequence(anchor, one) >>
        /\ one' = m /\ zero' = (IF rest.ml < MINMATCH THEN m ELSE rest)
        /\ pc' = "search2" /\ two' = Nothing(0) /\ inputSize' = inputSize
        BY <1>1, <1>6 DEF Encode
  <2>2. n \in Int /\ n <= Second.ml
        BY <1>1, <1>4
  <2>3. PartOfFound(Second)
        BY <1>3 DEF Usable
  <2>4. /\ rest \in MatchType /\ PartOfFound(rest) /\ End(rest) = End(Second)
        /\ n > 0 => rest.start = Second.start + n /\ rest.ml = Second.ml - n
        /\ n <= 0 => rest = Second
        BY <1>3, <2>2, <2>3, BehindFacts
  <2>5. /\ rest.ml <= Second.ml /\ End(one) <= rest.start
        /\ rest.start <= m.start /\ m.start <= rest.start + 2
        BY <1>1, <1>4, <2>2, <2>4
  <2>6. rest.start \in Nat /\ rest.ml \in Nat
        BY <2>4 DEF MatchType
  <2> HIDE DEF rest, n
  <2>7. End(rest) <= matchlimit /\ rest.start <= mflimit
    <3>1. End(Second) <= matchlimit /\ m.start <= mflimit
          BY <1>3 DEF Usable
    <3> QED
        BY <1>3, <1>4, <2>4, <2>5, <2>6, <3>1 DEF mflimit, iend, MFLIMIT
  <2>8. CASE rest.ml < MINMATCH
    <3>1. one' = m /\ zero' = m /\ anchor' = End(one)
          BY <2>1, <2>8
    <3>2. MatchesTypeOK'
          BY <1>3, <1>4, <2>1, <3>1, NothingType DEF MatchesTypeOK
    <3>3. Usable(one)' /\ Usable(zero)'
          BY <1>3, <2>1, <3>1, UsableStays DEF Usable
    <3>4. OneHeld'
          BY <1>1, <1>4, <3>1, <3>3 DEF OneHeld
    <3> QED
        BY <1>3, <2>1, <3>2, <3>4, OneEncoded DEF MatchesInv, NoneHeld, TwoHeld
  <2>9. CASE ~(rest.ml < MINMATCH)
    <3>1. one' = m /\ zero' = rest /\ anchor' = End(one)
          BY <2>1, <2>9
    <3>2. MatchesTypeOK'
          BY <1>3, <1>4, <2>1, <2>4, <3>1, NothingType DEF MatchesTypeOK
    <3>3. Usable(rest)
          BY <2>4, <2>6, <2>7, <2>9 DEF Usable, MINMATCH
    <3>4. Usable(one)' /\ Usable(zero)'
          BY <1>3, <2>1, <3>1, <3>3, UsableStays DEF Usable
    <3>5. rest.ml < m.ml
          BY <1>4, <2>5, <2>6
    <3>6. OneHeld'
          BY <1>4, <2>5, <2>6, <3>1, <3>4, <3>5 DEF OneHeld
    <3> QED
        BY <1>3, <2>1, <3>2, <3>6, OneEncoded DEF MatchesInv, NoneHeld, TwoHeld
  <2> QED
      BY <2>8, <2>9
<1> QED
    BY <1>5, <1>6

LEMMA EncodeAscendingInv ==
  ASSUME MatchSizes, MatchesInv, EncodeAscending
  PROVE  MatchesInv'
<1> DEFINE close == Second.start < End(one) /\ Second.start - one.start < OptimalML
           first == IF close THEN [one EXCEPT !.ml = newMl] ELSE FirstBefore(Second)
           n     == newMl - (Second.start - one.start)
           next  == IF close THEN Behind(Second, n) ELSE Second
<1>1. PICK m \in Third :
        /\ m.start >= End(one) + 3
        /\ \/ /\ Encode(first)
              /\ one' = next /\ two' = m
              /\ UNCHANGED << inputSize, pc, zero >>
           \/ NoRoomFor(first)
      BY DEF EncodeAscending
<1>2. pc = "search3"
      BY DEF EncodeAscending
<1>3. /\ MatchesTypeOK /\ inputSize \in Nat /\ anchor \in Nat /\ zero \in MatchType
      /\ one \in MatchType /\ Usable(one) /\ anchor <= one.start
      /\ m \in MatchType /\ Usable(m)
      /\ Second \in MatchType /\ Usable(Second)
      BY <1>2, AscendingFacts
<1>4. /\ one.start \in Nat /\ one.ml \in Nat /\ m.start \in Nat /\ m.ml \in Nat
      /\ Second.start \in Nat /\ Second.ml \in Nat
      /\ End(one) = one.start + one.ml /\ End(Second) = Second.start + Second.ml
      /\ one.ml >= 4 /\ Second.ml >= 4 /\ m.ml > Second.ml
      /\ Second.start <= m.start /\ m.start + 3 <= End(Second)
      /\ one.start + 4 <= Second.start /\ Second.start <= End(one) + 1
      /\ Second.start = End(one) + 1 => Second.ml > 4
      /\ End(Second) <= mflimit
      BY <1>2, AscendingFacts
<1>5. /\ newMl \in Nat /\ newMl >= 4 /\ newMl <= one.ml
      /\ Second.start - one.start < OptimalML => one.start + newMl <= Second.start
      BY <1>2, SecondFacts DEF MINMATCH
<1>6. close => n \in Int /\ n <= 0
      BY <1>4, <1>5
<1>7. next = Second
  <2>1. CASE close
        BY <1>6, <2>1 DEF Behind
  <2>2. CASE ~close
        BY <2>2
  <2> QED
      BY <2>1, <2>2
<1>8. /\ first \in MatchType /\ Usable(first) /\ first.start = one.start
      /\ End(first) \in Nat /\ End(first) <= Second.start
  <2>1. CASE close
    <3>1. first = [one EXCEPT !.ml = newMl] /\ PartOfFound(one)
          BY <1>3, <2>1 DEF Usable
    <3>2. /\ first \in MatchType /\ PartOfFound(first)
          /\ first.start = one.start /\ first.ml = newMl
      <4>1. /\ [one EXCEPT !.ml = newMl] \in MatchType
            /\ PartOfFound([one EXCEPT !.ml = newMl])
            /\ [one EXCEPT !.ml = newMl].start = one.start
            /\ [one EXCEPT !.ml = newMl].ml = newMl
            BY <1>3, <1>5, <3>1, CutFacts
      <4> HIDE DEF first
      <4> QED
          BY <3>1, <4>1
    <3>3. one.start <= mflimit /\ End(one) <= matchlimit
          BY <1>3 DEF Usable
    <3> HIDE DEF first
    <3>4. Usable(first)
          BY <1>3, <1>4, <1>5, <3>2, <3>3 DEF Usable, End, MINMATCH, matchlimit, iend,
             LASTLITERALS
    <3> QED
        BY <1>4, <1>5, <2>1, <3>2, <3>4 DEF End
  <2>2. CASE ~close
        BY <1>2, <2>2, FirstBeforeFacts
  <2> QED
      BY <2>1, <2>2
<1> HIDE DEF first, next, n, close
<1>9. CASE NoRoomFor(first)
      BY <1>3, <1>8, <1>9, NoRoomForInv
<1>10. CASE ~NoRoomFor(first)
  <2>1. /\ anchor' = End(first) /\ encoded' = << Sequence(anchor, first) >>
        /\ one' = Second /\ two' = m /\ inputSize' = inputSize /\ pc' = pc /\ zero' = zero
        BY <1>1, <1>7, <1>10 DEF Encode
  <2>2. MatchesTypeOK'
        BY <1>2, <1>3, <1>8, <2>1 DEF MatchesTypeOK
  <2>3. SequencesLegal'
        BY <1>3, <1>8, <2>1, OneEncoded
  <2>4. TwoHeld'
    <3>1. Usable(one)' /\ Usable(two)'
          BY <1>3, <2>1, UsableStays DEF Usable
    <3>2. mflimit' = mflimit
          BY <2>1, UsableStays
    <3>3. /\ Second.start + 2 <= m.start /\ m.start <= End(Second) + 1
          /\ m.ml > 4 /\ (Second.start + 2 = m.start => m.ml > 5)
          BY <1>1, <1>4
    <3> QED
        BY <1>4, <1>8, <2>1, <3>1, <3>2, <3>3 DEF TwoHeld, End, MINMATCH
  <2> QED
      BY <1>2, <2>1, <2>2, <2>3, <2>4 DEF MatchesInv, NoneHeld, OneHeld
<1> QED
    BY <1>9, <1>10

LEMMA DestOverflowInv ==
  ASSUME MatchSizes, MatchesInv, DestOverflow
  PROVE  MatchesInv'
<1>1. /\ MatchesTypeOK /\ inputSize \in Nat /\ anchor \in Nat
      /\ one \in MatchType /\ Usable(one) /\ anchor <= one.start
      /\ pc' = "last" /\ inputSize' = inputSize /\ two' = two /\ zero' = zero
      BY DEF MatchesInv, MatchesTypeOK, NoneHeld, DestOverflow
<1>2. /\ one.start \in Nat /\ one.ml \in Nat /\ one.ml >= 4 /\ PartOfFound(one)
      /\ one.start <= mflimit /\ End(one) <= matchlimit /\ End(one) = one.start + one.ml
      BY <1>1 DEF MatchType, Usable, End, MINMATCH
<1>3. CASE \E ml \in OptimalML .. one.ml \cup { one.ml } :
             LET last == [one EXCEPT !.ml = ml]
             IN  Encode(last) /\ one' = Nothing(End(last))
  <2>1. PICK ml \in OptimalML .. one.ml \cup { one.ml } :
               /\ Encode([one EXCEPT !.ml = ml])
               /\ one' = Nothing(End([one EXCEPT !.ml = ml]))
        BY <1>3
  <2> DEFINE last == [one EXCEPT !.ml = ml]
  <2>2. ml \in Nat /\ ml >= 4 /\ ml <= one.ml
        BY <1>2 DEF MatchSizes, MINMATCH
  <2>3. /\ last \in MatchType /\ PartOfFound(last)
        /\ last.start = one.start /\ last.ml = ml
        BY <1>1, <1>2, <2>2, CutFacts
  <2>4. /\ anchor' = End(last) /\ one' = Nothing(End(last))
        /\ encoded' = << Sequence(anchor, last) >>
        BY <2>1 DEF Encode
  <2> HIDE DEF last
  <2>5. Usable(last)
        BY <1>1, <1>2, <2>2, <2>3 DEF Usable, End, MINMATCH, matchlimit, iend, LASTLITERALS
  <2>6. End(last) \in Nat
        BY <1>2, <2>2, <2>3 DEF End
  <2>7. MatchesTypeOK'
        BY <1>1, <2>4, <2>6, NothingType DEF MatchesTypeOK
  <2> QED
      BY <1>1, <2>3, <2>4, <2>5, <2>7, OneEncoded DEF MatchesInv, NoneHeld, OneHeld, TwoHeld
<1>4. CASE encoded' = << >> /\ UNCHANGED << anchor, one >>
      BY <1>1, <1>4, NothingEncoded
         DEF MatchesInv, MatchesTypeOK, NoneHeld, OneHeld, TwoHeld
<1> QED
    BY <1>3, <1>4 DEF DestOverflow

-----------------------------------------------------------------------------
LEMMA MatchesNextInv ==
  ASSUME MatchSizes, MatchesInv, [MatchesNext \/ Compressed]_matchVars
  PROVE  MatchesInv'
<1>1. CASE MatchesNext
      BY <1>1, MainLoopInv, EncodeFirstInv, SecondMatchInv, EncodeBothInv, DropSecondInv,
         SkipSecondInv, EncodeAscendingInv, DestOverflowInv DEF MatchesNext
<1>2. CASE UNCHANGED matchVars
      BY <1>2 DEF matchVars, MatchesInv, MatchesTypeOK, NoneHeld, OneHeld, TwoHeld,
                  SequencesLegal, Usable, PartOfFound, End, mflimit, matchlimit, iend
<1> QED
    BY <1>1, <1>2 DEF Compressed

LEMMA MatchesInvariant ==
  ASSUME MatchSizes
  PROVE  MatchesSpec => []MatchesInv
<1>1. MatchesInit => MatchesInv
      BY MatchesInitInv
<1>2. MatchesInv /\ [MatchesNext \/ Compressed]_matchVars => MatchesInv'
      BY MatchesNextInv
<1> QED
    BY <1>1, <1>2, PTL DEF MatchesSpec

(* However LZ4HC_compress_hashChain shortens, moves, drops and restores    *)
(* overlapping matches, it encodes sequences that follow each other, with  *)
(* matches the format can express and that are part of what was found.     *)
THEOREM SequencesAreLegal ==
  ASSUME MatchSizes
  PROVE  MatchesSpec => []SequencesLegal
BY MatchesInvariant, PTL DEF MatchesInv

(* Every step gets ahead, so that the search ends.                         *)
Ahead ==
  \/ pc' \in { "last", "overflow" }
  \/ anchor' > anchor
  \/ Reach' > Reach
  \/ pc = "search2" /\ pc' = "search3"

LEMMA StepAhead ==
  ASSUME MatchSizes, MatchesInv, MatchesNext
  PROVE  Ahead
<1>1. /\ inputSize \in Nat /\ anchor \in Nat /\ one \in MatchType
      /\ one.start \in Nat /\ one.ml \in Nat /\ two.start \in Nat /\ two.ml \in Nat
      /\ End(one) = one.start + one.ml /\ End(two) = two.start + two.ml
      BY DEF MatchesInv, MatchesTypeOK, MatchType, End
<1>2. \A m : NoRoomFor(m) => Ahead
      BY DEF NoRoomFor, Overflow, Ahead
<1>3. CASE MainLoop
  <2>1. pc = "main" /\ one.ml = 0
        BY <1>3 DEF MainLoop, MatchesInv, NoneHeld
  <2>2. CASE \E m \in Wider(one.start, one.start, MINMATCH - 1) :
               one' = m /\ zero' = m /\ pc' = "search2"
    <3>1. PICK m \in Wider(one.start, one.start, MINMATCH - 1) :
               one' = m /\ zero' = m /\ pc' = "search2"
          BY <2>2
    <3>2. one.start + 4 <= End(m) /\ m \in MatchType
          BY <1>1, WiderContract DEF MINMATCH
    <3>3. Reach' = End(m) /\ Reach = one.start /\ End(m) \in Nat
          BY <1>1, <2>1, <3>1, <3>2 DEF Reach, End, MatchType
    <3> QED
        BY <1>1, <3>2, <3>3 DEF Ahead
  <2>3. CASE one' = Nothing(one.start + 1) /\ UNCHANGED << pc, zero >>
    <3>1. one'.start = one.start + 1 /\ one'.ml = 0
          BY <1>1, <2>3, NothingType
    <3> QED
        BY <1>1, <2>1, <2>3, <3>1 DEF Ahead, Reach, End
  <2>4. CASE pc' = "last"
        BY <2>4 DEF Ahead
  <2> QED
      BY <1>3, <2>2, <2>3, <2>4 DEF MainLoop
<1>4. CASE EncodeFirst
  <2>1. CASE Encode(one) /\ BackToMain(End(one))
    <3>1. Usable(one) /\ anchor <= zero.start /\ zero.start <= one.start
          BY <1>4 DEF EncodeFirst, MatchesInv, OneHeld
    <3>2. zero.start \in Nat
          BY DEF MatchesInv, MatchesTypeOK, MatchType
    <3> QED
        BY <1>1, <2>1, <3>1, <3>2 DEF Encode, Ahead, Usable, MINMATCH
  <2> QED
      BY <1>2, <1>4, <2>1 DEF EncodeFirst
<1>5. CASE SecondMatch
  <2>1. PICK m \in Wider(End(one) - 2, one.start, one.ml) :
             \/ one' = m /\ UNCHANGED << pc, two, zero >>
             \/ pc' = "search3"
        BY <1>5 DEF SecondMatch
  <2>2. m \in MatchType /\ End(one) - 2 + 4 <= End(m)
    <3>1. End(one) - 2 \in Int
          BY <1>1
    <3> QED
        BY <1>1, <3>1, WiderContract DEF MINMATCH
  <2>3. pc = "search2"
        BY <1>5 DEF SecondMatch
  <2>4. CASE pc' = "search3"
        BY <2>3, <2>4 DEF Ahead
  <2>5. CASE one' = m /\ UNCHANGED << pc, two, zero >>
    <3>1. Reach' = End(m) /\ Reach = End(one) /\ End(m) \in Nat
          BY <2>2, <2>3, <2>5 DEF Reach, End, MatchType
    <3> QED
        BY <1>1, <2>2, <3>1 DEF Ahead
  <2> QED
      BY <2>1, <2>4, <2>5
<1>6. CASE EncodeBoth
  <2>1. pc = "search3" /\ anchor <= one.start
        BY <1>6 DEF EncodeBoth, MatchesInv, TwoHeld
  <2>2. /\ Second \in MatchType /\ Usable(Second) /\ one.start + MINMATCH <= Second.start
        BY <2>1, SecondFacts
  <2>3. Second.start \in Nat /\ Second.ml \in Nat
        BY <2>2 DEF MatchType
  <2>4. anchor' = End(Second) => Ahead
        BY <1>1, <2>1, <2>2, <2>3 DEF Ahead, End, MINMATCH
  <2> QED
      BY <1>2, <1>6, <2>4 DEF EncodeBoth, Overflow, Ahead
<1>7. CASE DropSecond
  <2>1. pc = "search3"
        BY <1>7 DEF DropSecond
  <2>2. PICK m \in Third : two' = m /\ pc' = pc
        BY <1>7 DEF DropSecond
  <2>3. m \in MatchType /\ End(m) > End(Second) /\ End(Second) = End(two)
        BY <2>1, SecondFacts, ThirdFacts
  <2> QED
      BY <2>1, <2>2, <2>3 DEF Ahead, Reach, End
<1>8. CASE SkipSecond
  <2>1. pc = "search3" /\ anchor <= one.start /\ Usable(one)
        BY <1>8 DEF SkipSecond, MatchesInv, TwoHeld
  <2>2. Encode(one) => Ahead
        BY <1>1, <2>1 DEF Encode, Ahead, Usable, MINMATCH
  <2> QED
      BY <1>2, <1>8, <2>2 DEF SkipSecond
<1>9. CASE EncodeAscending
  <2>1. pc = "search3" /\ anchor <= one.start /\ Usable(one)
        BY <1>9 DEF EncodeAscending, MatchesInv, TwoHeld
  <2>2. Encode(FirstBefore(Second)) => Ahead
    <3>1. /\ FirstBefore(Second) \in MatchType /\ Usable(FirstBefore(Second))
          /\ FirstBefore(Second).start = one.start
          BY <2>1, FirstBeforeFacts
    <3> QED
        BY <1>1, <2>1, <3>1 DEF Encode, Ahead, Usable, MINMATCH, End, MatchType
  <2>3. Encode([one EXCEPT !.ml = newMl]) => Ahead
    <3>1. newMl \in Nat /\ newMl >= 4
          BY <2>1, SecondFacts DEF MINMATCH
    <3>2. End([one EXCEPT !.ml = newMl]) = one.start + newMl
          BY <1>1 DEF End, MatchType
    <3> QED
        BY <1>1, <2>1, <3>1, <3>2 DEF Encode, Ahead
  <2> QED
      BY <1>2, <1>9, <2>2, <2>3 DEF EncodeAscending
<1>10. CASE DestOverflow
      BY <1>10 DEF DestOverflow, Ahead
<1> QED
    BY <1>3, <1>4, <1>5, <1>6, <1>7, <1>8, <1>9, <1>10 DEF MatchesNext

(* No step of the search is in vain: it encodes a sequence, goes on to     *)
(* other bytes, or ends later than what was held before.                   *)
THEOREM SearchGetsAhead ==
  ASSUME MatchSizes
  PROVE  MatchesSpec => Progress
<1>1. MatchesInv /\ [MatchesNext \/ Compressed]_matchVars => [Ahead]_matchVars
      BY StepAhead DEF Compressed
<1> QED
    BY <1>1, MatchesInvariant, PTL DEF MatchesSpec, Progress, Ahead
=============================================================================
