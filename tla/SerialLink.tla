----------------------------- MODULE SerialLink -----------------------------
(***************************************************************************)
(* LEDCommunicator.sendPacket at one end of the serial line and the parser *)
(* at the other.                                                           *)
(*                                                                         *)
(* sendPacket is synchronized and hands a whole encoded frame to           *)
(* writeBytes, so frames never interleave on the line and the line is a    *)
(* first-in first-out queue of bytes: all frames sent, with a cursor to    *)
(* the next byte that has not reached the controller.  A byte is lost when *)
(* the controller's receive buffer is full while loop() is busy, and any   *)
(* number are when the controller restarts.                                *)
(***************************************************************************)
EXTENDS SerialParser, SequencesExt

CONSTANTS
  Packets,   \* the packets the server sends
  MaxSent,   \* bound: packets sent in a behaviour
  MaxLost    \* bound: losses in a behaviour

ASSUME LinkAssumption ==
  /\ Packets \subseteq Packet
  /\ \A p \in Packets : Len(p.content) <= MaxNetworkLength
  /\ MaxSent \in Nat
  /\ MaxLost \in Nat

(* The pad is no byte of the magic (0 against 4A AC A3 57), so a hunt that  *)
(* reaches a frame's end stands at the start of a magic again.             *)
ASSUME PadAssumption ==
  \A i \in 1 .. Len(Magic) : Magic[i] # 0

VARIABLES
  sent,        \* packets written to the port, oldest first
  frameNo,     \* the frame the next byte on the line belongs to
  byteNo,      \* bytes of that frame that are off the line
  delivered,   \* packets for which processByte returned true
  lost         \* how often bytes were lost

lineVars == << sent, frameNo, byteNo, delivered, lost >>
linkVars == << parserVars, lineVars >>

LinkInit ==
  /\ ParserInit
  /\ sent = <<>>
  /\ frameNo = 1
  /\ byteNo = 0
  /\ delivered = <<>>
  /\ lost = 0

OnTheLine == frameNo <= Len(sent)
NextByte  == Frame(sent[frameNo])[byteNo + 1]

(* The cursor moves past one byte.                                         *)
TakeByte ==
  /\ OnTheLine
  /\ IF byteNo + 1 = FrameLen(sent[frameNo])
       THEN frameNo' = frameNo + 1 /\ byteNo' = 0
       ELSE frameNo' = frameNo /\ byteNo' = byteNo + 1
  /\ UNCHANGED sent

Send(p) ==
  /\ Len(sent) < MaxSent
  /\ sent' = Append(sent, p)
  /\ UNCHANGED << parserVars, frameNo, byteNo, delivered, lost >>

(* One round of tick(): a byte is read and processed.                      *)
Receive ==
  /\ TakeByte
  /\ ProcessByte(NextByte)
  /\ delivered' = IF isInDoneState'
                    THEN Append(delivered, CurrentPacket')
                    ELSE delivered
  /\ UNCHANGED lost

(* The receive buffer has no room for the byte.                            *)
Drop ==
  /\ lost < MaxLost
  /\ TakeByte
  /\ lost' = lost + 1
  /\ UNCHANGED << parserVars, delivered >>

(* The controller restarts with the server running on: a new SerialUtil.   *)
Reboot ==
  /\ lost < MaxLost
  /\ netData' = <<>> /\ packetOffset' = 0 /\ isInDoneState' = FALSE
  /\ lost' = lost + 1
  /\ UNCHANGED << sent, frameNo, byteNo, delivered >>

LinkNext ==
  \/ \E p \in Packets : Send(p)
  \/ Receive
  \/ Drop
  \/ Reboot

(* loop() runs for ever and calls tick() every time around.                *)
LinkSpec == LinkInit /\ [][LinkNext]_linkVars /\ WF_linkVars(Receive)
-----------------------------------------------------------------------------
(***************************************************************************)
(* Properties.                                                             *)
(***************************************************************************)
LinkTypeOK ==
  /\ ParserTypeOK
  /\ sent \in Seq(Packets)
  /\ frameNo \in 1 .. Len(sent) + 1
  /\ byteNo \in Nat
  /\ OnTheLine => byteNo < FrameLen(sent[frameNo])
  /\ ~OnTheLine => byteNo = 0
  /\ delivered \in Seq(Packet)
  /\ lost \in 0 .. MaxLost

Channel == INSTANCE PacketChannel

(* With bytes lost anywhere, what the controller acts on is still a        *)
(* thinned-out copy of what was sent: a damaged frame never turns into     *)
(* another packet, and a retained packet is never delivered twice.  (Up to *)
(* collisions of the checksum: the run's packets have none.)               *)
LinkIsLossyChannel == Channel!LossyChannel

(* As long as no byte is lost, the packets delivered are exactly those     *)
(* whose last byte, the pad, is off the line.                              *)
LosslessInOrder ==
  lost = 0 => delivered = SubSeq(sent, 1, frameNo - 1)

(* ... and once the server pauses, the controller catches up with it: a    *)
(* packet is complete without a byte of the next one.                      *)
LosslessArrives == [](lost = 0) => []<>(delivered = sent)

(* The magic appears nowhere after the start of a packet's frame.          *)
MagicFree(p) ==
  LET rest == Tail(Frame(p))
  IN  \A i \in 0 .. Len(rest) - Len(Magic) : SubSeq(rest, i + 1, i + Len(Magic)) # Magic

(***************************************************************************)
(* A loss damages the frame it hits and, when the parser is thrown off the *)
(* framing, the frames it swallows until it stands at a magic again.  A    *)
(* bogus length costs at most the frames that fit into the longest content *)
(* and the two it cuts, so the line recovers as long as frames keep        *)
(* coming.  Only without packets that contain the magic is there a bound:  *)
(* with the magic in its content, every frame can start the parser in the  *)
(* wrong place once more.                                                  *)
(***************************************************************************)
DamageLimit == 2 + MaxNetworkLength \div (Len(Magic) + HeaderLen + 1)

DamageBounded ==
  (\A i \in 1 .. Len(sent) : MagicFree(sent[i]))
    => (frameNo - 1) - Len(delivered) <= DamageLimit * lost
=============================================================================
