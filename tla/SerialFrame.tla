---------------------------- MODULE SerialFrame ----------------------------
(***************************************************************************)
(* The wire format between KellerLightServer and ESPLightController: what  *)
(* ArdPacket.encode writes and SerialUtil.processByte reads.               *)
(*                                                                         *)
(*   magic (4) | length (2, little endian) | type (1) | Adler-32 (4) |     *)
(*   content (length bytes) | one pad byte                                 *)
(*                                                                         *)
(* The pad is not part of the documented layout: ArdPacket allocates       *)
(* contentSize + 12 bytes and fills contentSize + 11 of them, and data()   *)
(* returns the whole array.                                                *)
(*                                                                         *)
(* Bytes are numbers below Base (256 in the program), so that a small Base *)
(* gives an exhaustively checkable instance of the same arithmetic: a      *)
(* length is two base-Base digits read back as a signed short, a checksum  *)
(* two sums below AdlerMod written as two digits each.                     *)
(***************************************************************************)
EXTENDS Integers, Sequences

CONSTANTS
  Base,              \* the number of values of a byte (256)
  Magic,             \* magicVal, the bytes every frame starts with
  AdlerMod,          \* 65521, the modulus of both sums of Adler-32
  MaxNetworkLength,  \* MAX_NETWORK_LENGTH, the longest content accepted
  MaxType            \* 20, the largest packet type accepted

Byte == 0 .. (Base - 1)

(***************************************************************************)
(* A packet before it is framed: the ordinal of ArdPacket.PacketType and   *)
(* the bytes encodeContent puts into contentBuffer.                        *)
(***************************************************************************)
Packet == [type : 1 .. MaxType, content : Seq(Byte)]

ASSUME FrameAssumption ==
  /\ Base \in Nat \ {0, 1}
  /\ Magic \in Seq(Byte) /\ Magic # <<>>
  /\ AdlerMod \in Nat \ {0} /\ AdlerMod <= Base * Base  \* a sum fits two bytes
  /\ MaxNetworkLength \in Nat
  /\ 2 * MaxNetworkLength < Base * Base     \* 1024 is a positive short
  /\ MaxType \in Nat \ {0} /\ MaxType < Base

LenBytes  == 2
TypeBytes == 1
SumBytes  == 4
HeaderLen == LenBytes + TypeBytes + SumBytes

(* An unsigned two-byte value stored into a signed short.                  *)
ToShort(v) == IF 2 * v < Base * Base THEN v ELSE v - Base * Base

(***************************************************************************)
(* Adler-32: a runs over 1 plus the bytes, b over the values of a.  The    *)
(* result (b << 16) | a is kept as the four bytes that are sent, least     *)
(* significant first.                                                      *)
(***************************************************************************)
RunningSum(start, data) ==
  LET sum[n \in 0 .. Len(data)] ==
        IF n = 0 THEN start ELSE (sum[n - 1] + data[n]) % AdlerMod
  IN  sum

Adler32(data) ==
  LET a    == RunningSum(1, data)
      b    == RunningSum(0, [n \in 1 .. Len(data) |-> a[n]])
      low  == a[Len(data)]
      high == b[Len(data)]
  IN  << low % Base, low \div Base, high % Base, high \div Base >>

(* insertContent: length, type and checksum in front of the content.       *)
Header(p) ==
  << Len(p.content) % Base, Len(p.content) \div Base, p.type >>
    \o Adler32(p.content)

(* Mutant: a buffer of contentSize + 11 bytes, without the pad.            *)
FrameWithoutPad(p) == Magic \o Header(p) \o p.content

(* data(): the whole buffer, whose last byte is never written and stays 0. *)
Frame(p) == Magic \o Header(p) \o p.content \o << 0 >>

FrameLen(p) == Len(Frame(p))
=============================================================================
