---------------------------- MODULE MCSerialLink ----------------------------
(* A line of three packets: an empty one, one with a content that starts   *)
(* like the magic, and one whose content is the magic itself, so that a    *)
(* parser that lost its place can find a false start in it.                *)
EXTENDS SerialLink

MCMagic   == << 4, 5 >>
MCPackets == { [type |-> 3, content |-> << >>],
               [type |-> 1, content |-> << 4, 0 >>],
               [type |-> 2, content |-> << 4, 5 >>] }
=============================================================================
