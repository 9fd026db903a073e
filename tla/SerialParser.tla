---------------------------- MODULE SerialParser ----------------------------
(***************************************************************************)
(* SerialUtil, the byte-wise frame parser of the LED controller.           *)
(*                                                                         *)
(* netData holds the bytes stored so far, so the code's dataOffset is      *)
(* Len(netData); packetOffset is the code's counter, which also counts the *)
(* magic bytes matched.  Once a frame is complete the parser stays in the  *)
(* done state, and keeps the packet readable, until the next byte.         *)
(***************************************************************************)
EXTENDS SerialFrame

VARIABLES
  netData,        \* the header and content bytes stored so far
  packetOffset,   \* bytes of the current frame accepted so far
  isInDoneState   \* a complete packet is in netData

parserVars == << netData, packetOffset, isInDoneState >>

NetDataSize == MaxNetworkLength + 16

ParserInit ==
  /\ netData = <<>>
  /\ packetOffset = 0
  /\ isInDoneState = FALSE

(***************************************************************************)
(* Readings of a buffer.  LengthField is what getDataLength returns, PkLen *)
(* the same two bytes as processByte's short.                              *)
(***************************************************************************)
LengthField(buf) == buf[1] + buf[2] * Base
PkLen(buf)       == ToShort(LengthField(buf))
PkType(buf)      == buf[3]
Checksum(buf)    == SubSeq(buf, 4, HeaderLen)
Content(buf)     == SubSeq(buf, HeaderLen + 1, Len(buf))

(* Mutant: a length is checked for its sign only.                          *)
HeaderSaneAnyLength(buf) ==
  /\ PkLen(buf) >= 0
  /\ PkType(buf) \in 1 .. MaxType

HeaderSane(buf) ==
  /\ PkLen(buf) \in 0 .. MaxNetworkLength
  /\ PkType(buf) \in 1 .. MaxType

(* getPacketType, getDataPointer and getDataLength of a completed packet.  *)
CurrentPacket == [type |-> PkType(netData), content |-> Content(netData)]

-----------------------------------------------------------------------------
(***************************************************************************)
(* processByte.  A byte that follows a completed packet first clears both  *)
(* offsets, so each step below is stated on the offset and the buffer the  *)
(* byte meets after that.                                                  *)
(***************************************************************************)
OffsetMetStale == packetOffset   \* Mutant: packetOffset is not cleared

OffsetMet == IF isInDoneState THEN 0 ELSE packetOffset
DataMet   == IF isInDoneState THEN <<>> ELSE netData

InMagic   == OffsetMet < Len(Magic)
InHeader  == ~InMagic /\ Len(DataMet) < HeaderLen
InBody    == ~InMagic /\ Len(DataMet) >= HeaderLen
BodyShort == Len(DataMet) < PkLen(DataMet) + HeaderLen

Store(b) ==
  /\ netData' = Append(DataMet, b)
  /\ packetOffset' = OffsetMet + 1
  /\ isInDoneState' = FALSE

(* Mutant: a rejected frame's bytes are not dropped.                       *)
RestartKeepsData ==
  /\ netData' = DataMet
  /\ packetOffset' = 0
  /\ isInDoneState' = FALSE

Restart ==
  /\ netData' = <<>>
  /\ packetOffset' = 0
  /\ isInDoneState' = FALSE

(* A byte of the magic; any other byte restarts the hunt, and is not tried *)
(* again as the first byte of a magic.                                     *)
MagicByte(b) ==
  /\ InMagic
  /\ packetOffset' = IF b = Magic[OffsetMet + 1] THEN OffsetMet + 1 ELSE 0
  /\ netData' = DataMet
  /\ isInDoneState' = FALSE

HeaderByte(b) ==
  /\ InHeader
  /\ Store(b)

(* The header is judged when the byte after it arrives; that byte is lost. *)
RejectHeader(b) ==
  /\ InBody
  /\ ~HeaderSane(DataMet)
  /\ Restart

ContentByte(b) ==
  /\ InBody
  /\ HeaderSane(DataMet)
  /\ BodyShort
  /\ Store(b)

(* The byte after the content (the sender's pad) triggers the checksum.    *)
RejectChecksum(b) ==
  /\ InBody
  /\ HeaderSane(DataMet)
  /\ ~BodyShort
  /\ Adler32(Content(DataMet)) # Checksum(DataMet)
  /\ Restart

(* Mutant: the checksum is not compared.                                   *)
CompleteUnchecked(b) ==
  /\ InBody
  /\ HeaderSane(DataMet)
  /\ ~BodyShort
  /\ isInDoneState' = TRUE
  /\ netData' = DataMet
  /\ packetOffset' = OffsetMet

Complete(b) ==
  /\ InBody
  /\ HeaderSane(DataMet)
  /\ ~BodyShort
  /\ Adler32(Content(DataMet)) = Checksum(DataMet)
  /\ isInDoneState' = TRUE
  /\ netData' = DataMet
  /\ packetOffset' = OffsetMet

ProcessByte(b) ==
  \/ MagicByte(b)
  \/ HeaderByte(b)
  \/ RejectHeader(b)
  \/ ContentByte(b)
  \/ RejectChecksum(b)
  \/ Complete(b)

-----------------------------------------------------------------------------
(* The parser alone, fed with any bytes at all.                            *)
ParserNext == \E b \in Byte : ProcessByte(b)

ParserSpec == ParserInit /\ [][ParserNext]_parserVars
-----------------------------------------------------------------------------
(***************************************************************************)
(* Properties, for every stream of bytes.                                  *)
(***************************************************************************)

(* Types: a sequence of bytes, a natural counter, a flag.                  *)
ParserTypeOK ==
  /\ netData \in Seq(Byte)
  /\ packetOffset \in Nat
  /\ isInDoneState \in BOOLEAN

(* The two counters of processByte stay in step: nothing is stored before  *)
(* the magic is complete, and afterwards packetOffset runs exactly the     *)
(* magic ahead of dataOffset, whatever was rejected in between.            *)
OffsetsInStep ==
  \/ packetOffset < Len(Magic) /\ netData = <<>>
  \/ packetOffset = Len(Magic) + Len(netData)

(* No length field, however it reads as a signed short, makes processByte  *)
(* store more than the largest legal frame, so netData[MAX + 16] suffices. *)
BufferBound == Len(netData) <= MaxNetworkLength + HeaderLen

(* Once the header is stored and sane, no more content is stored than it   *)
(* announces; without this a completed packet could outgrow its length.    *)
ContentWithinLength ==
  Len(netData) >= HeaderLen /\ HeaderSane(netData)
    => Len(netData) <= PkLen(netData) + HeaderLen

(* A packet announced as complete is one the server could have framed: its *)
(* own encoding gives back every byte received, so the length main.cpp     *)
(* reads as an int, the type and the checksum all agree with the content.  *)
DoneMeansFramed ==
  isInDoneState => netData = Header(CurrentPacket) \o CurrentPacket.content

(* The five together are inductive.                                        *)
ParserInv ==
  /\ ParserTypeOK
  /\ OffsetsInStep
  /\ BufferBound
  /\ ContentWithinLength
  /\ DoneMeansFramed
=============================================================================
