------------------------------ MODULE RawColors ------------------------------
(***************************************************************************)
(* Pictures: RawPacket writes the colours of the LEDs into a packet,       *)
(* RawColorComponent draws the packet on both strips.  There are two       *)
(* layouts: colour after colour, and the three planes one after the other, *)
(* compressed.  LZ4 is modelled by its result for a well-formed block, the *)
(* bytes or, when they do not fit, an error; its own modules say why.      *)
(***************************************************************************)
EXTENDS LedStrip, Sequences

CONSTANTS
  Color,       \* the colours pictures are made of
  MaxPicture   \* bound on the colours of a picture (the server sends 1 or 121)

(* A strip, and colours of three bytes.                                    *)
PictureSizes == NumLed \in Nat /\ MaxPicture \in Nat /\ Color \subseteq [1 .. 3 -> Nat]

VARIABLES
  rawLedLeft,    \* one LED longer than the right strip, its first never set
  rawLedRight,
  picture,       \* history: the colours of the last packet
  reads          \* history: the positions of the content it made the drawing read

colorVars == << rawLedLeft, rawLedRight, picture, reads >>

Black == << 0, 0, 0 >>

Pictures == UNION { [1 .. n -> Color] : n \in 1 .. MaxPicture }

ColorInit ==
  /\ rawLedLeft = [i \in 0 .. NumLed |-> Black]
  /\ rawLedRight = [i \in Leds |-> Black]
  /\ picture = << >> /\ reads = {}

-----------------------------------------------------------------------------
(* RawPacket: a flag byte and the colours.                                 *)
Interleaved(pic) == [i \in 1 .. 3 * Len(pic) |-> pic[1 + ((i - 1) \div 3)][1 + ((i - 1) % 3)]]

(* Mutant: the planes are one colour too short.                            *)
PlanarShort(pic) ==
  LET n == Len(pic) IN [i \in 1 .. 3 * n |-> pic[1 + ((i - 1) % n)][1 + ((i - 1) \div (n + 1))]]

Planar(pic) ==
  LET n == Len(pic) IN [i \in 1 .. 3 * n |-> pic[1 + ((i - 1) % n)][1 + ((i - 1) \div n)]]

PacketLength(bytes) == Len(bytes) + 1

(* setBoth for every LED that colour[i] is defined for.                    *)
SetBoth(colour) ==
  /\ rawLedLeft'  = [i \in 0 .. NumLed |->
                       IF i - 1 \in DOMAIN colour THEN colour[i - 1] ELSE rawLedLeft[i]]
  /\ rawLedRight' = [i \in Leds |-> IF i \in DOMAIN colour THEN colour[i] ELSE rawLedRight[i]]

(* The byte read at a position of the content; any, here 0, behind it.     *)
ByteAt(bytes, i) == IF i \in DOMAIN bytes THEN bytes[i] ELSE 0

(* start() of an uncompressed packet: the last colour fills the strip.     *)
DrawInterleaved(bytes) ==
  LET given == IF PacketLength(bytes) \div 3 < NumLed THEN PacketLength(bytes) \div 3 ELSE NumLed
      at(i) == [c \in 1 .. 3 |-> ByteAt(bytes, 3 * i + c)]
  IN  /\ SetBoth([i \in Leds |-> IF i < given THEN at(i) ELSE at(given - 1)])
      /\ reads' = 1 .. 3 * given

(* ... and of a compressed one: the rest of the strip is dark, and what    *)
(* does not fit the buffer of 3 * NUM_LED + 1 bytes is not drawn at all.   *)
DrawPlanar(bytes) ==
  LET len == Len(bytes)
      n   == len \div 3
  IN  IF len > 3 * NumLed + 1
        THEN UNCHANGED << rawLedLeft, rawLedRight >> /\ reads' = {}
        ELSE /\ SetBoth([i \in Leds |-> IF i < n THEN [c \in 1 .. 3 |-> bytes[1 + i + (c - 1) * n]]
                                        ELSE Black])
             /\ reads' = 1 .. 3 * n

SendColors(pic) == picture' = pic /\ DrawInterleaved(Interleaved(pic))

SendCompressed(pic) == picture' = pic /\ DrawPlanar(Planar(pic))

ColorNext == \E pic \in Pictures : SendColors(pic) \/ SendCompressed(pic)

ColorSpec == ColorInit /\ [][ColorNext]_colorVars

(***************************************************************************)
(* Properties.                                                             *)
(***************************************************************************)
(* A picture arrives in its colours whatever way it was sent: every LED    *)
(* within it shows its own.  The only pictures not drawn are compressed    *)
(* ones that are too long, and these leave the old one as it was.          *)
PictureArrives ==
  [][picture' # picture =>
       \/ \A i \in Leds : i < Len(picture') => rawLedRight'[i] = picture'[i + 1]
       \/ Len(picture') > NumLed /\ UNCHANGED << rawLedLeft, rawLedRight >>]_colorVars

(* A single colour, which is what FullColorHelper sends, leaves nothing of *)
(* the old picture: the rest of the strip takes it too or, after a         *)
(* compressed packet, is dark.                                             *)
OneColorFills ==
  [][Len(picture') = 1 /\ picture' # picture =>
       \A i \in 1 .. NumLed - 1 : rawLedRight'[i] \in { picture'[1], Black }]_colorVars

(* Drawing reads no byte behind the content, though the number of LEDs is  *)
(* computed from a length that includes the flags.                         *)
ReadsInContent == reads \subseteq 1 .. 3 * Len(picture)
=============================================================================
