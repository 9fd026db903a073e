------------------------- MODULE MCLz4FrameDecoder --------------------------
(* Frames of a few blocks; a block of up to four bytes, a match that       *)
(* reaches three bytes back.                                               *)
EXTENDS Lz4FrameDecoder

Compressed(csize, size) == [raw |-> FALSE, csize |-> csize, size |-> size]
Stored(size)            == [raw |-> TRUE, csize |-> size, size |-> size]

Frame(linked, sized, checked, blocks, size) ==
  [skippable |-> FALSE, linked |-> linked, sized |-> sized, checksum |-> checked,
   blockChecksum |-> checked, blocks |-> blocks, size |-> size]

Skippable(size) ==
  [skippable |-> TRUE, linked |-> TRUE, sized |-> FALSE, checksum |-> FALSE,
   blockChecksum |-> FALSE, blocks |-> << >>, size |-> size]

MixedStreams ==
  { << Frame(TRUE, FALSE, FALSE, << Compressed(2, 4), Compressed(1, 2), Compressed(2, 4), Stored(3) >>, 13) >>,
    << Frame(TRUE, TRUE, TRUE, << Compressed(3, 4), Stored(2), Compressed(1, 1) >>, 7), Skippable(3),
       Frame(FALSE, TRUE, FALSE, << Compressed(2, 3), Stored(4), Compressed(1, 4) >>, 11) >> }

(* The first one may be given up.                                          *)
ResetStreams ==
  { << Frame(TRUE, FALSE, TRUE, << Compressed(2, 4), Stored(3) >>, 7),
       Frame(TRUE, FALSE, FALSE, << Compressed(2, 3), Compressed(2, 4) >>, 7) >> }

SizedResetStreams ==
  { << Frame(TRUE, TRUE, FALSE, << Compressed(2, 4), Stored(3) >>, 7),
       Frame(TRUE, FALSE, FALSE, << Compressed(2, 3), Compressed(2, 4) >>, 7) >> }

StableStreams ==
  { << Frame(TRUE, FALSE, FALSE, << Compressed(2, 4), Compressed(1, 2), Compressed(1, 4) >>, 10) >> }
=============================================================================
