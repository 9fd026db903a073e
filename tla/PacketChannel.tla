--------------------------- MODULE PacketChannel ---------------------------
(***************************************************************************)
(* What the serial connection promises, with no bytes in sight: packets    *)
(* leave in the order they were sent, each at most once, and nothing is    *)
(* invented.  A lossy channel may leave packets out, a reliable one none.  *)
(***************************************************************************)
EXTENDS Integers, Sequences, SequencesExt

CONSTANT Packets   \* the packets that are ever sent

VARIABLES
  sent,       \* every packet handed to the channel, oldest first
  delivered   \* every packet that came out, oldest first

channelVars == << sent, delivered >>

(* s can be obtained from t by leaving elements out.                       *)
IsThinnedFrom(s, t) ==
  \E at \in [1 .. Len(s) -> 1 .. Len(t)] :
    /\ \A i \in 1 .. Len(s) : s[i] = t[at[i]]
    /\ \A i, j \in 1 .. Len(s) : i < j => at[i] < at[j]

ChannelInit == sent = <<>> /\ delivered = <<>>

Accept(p) ==
  /\ sent' = Append(sent, p)
  /\ UNCHANGED delivered

Deliver(p) ==
  /\ delivered' = Append(delivered, p)
  /\ UNCHANGED sent

AcceptOrDeliver == \E p \in Packets : Accept(p) \/ Deliver(p)

LossyNext    == AcceptOrDeliver /\ IsThinnedFrom(delivered', sent')
ReliableNext == AcceptOrDeliver /\ IsPrefix(delivered', sent')

(* Later packets overtake nothing; any packet may be left out.             *)
LossyChannel == ChannelInit /\ [][LossyNext]_channelVars

(* Nothing is left out.                                                    *)
ReliableChannel == ChannelInit /\ [][ReliableNext]_channelVars
=============================================================================
