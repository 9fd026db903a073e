------------------------------ MODULE S2LFlags ------------------------------
(***************************************************************************)
(* The two flags of an S2LHelper: API threads set them in plain fields,    *)
(* the audio thread reads them for every packet and takes the hit back     *)
(* (S2LHelper.makeFlags).                                                  *)
(***************************************************************************)
EXTENDS Integers

CONSTANT MaxAsks   \* bound: hits asked for

VARIABLES
  doForceHit, doForceStrobe,
  audioPc,   \* where the audio thread is
  flags,     \* the flags of the packet it builds
  asks,      \* history: hits asked for so far
  covered,   \* history: as many are answered by the packet being built ...
  answered,  \* history: ... and by the packets given to sendPacket
  hits       \* history: packets with FORCE_HIT

fields == << doForceHit, doForceStrobe >>
hitVars == << asks, covered, answered, hits >>
flagVars == << fields, audioPc, flags, hitVars >>

FlagsInit ==
  /\ doForceHit = FALSE /\ doForceStrobe = FALSE
  /\ audioPc = "process" /\ flags = {}
  /\ asks = 0 /\ covered = 0 /\ answered = 0 /\ hits = 0

(* set?key=force_hit and set?key=strobe.                                   *)
ForceHit ==
  /\ asks < MaxAsks
  /\ doForceHit' = TRUE /\ asks' = asks + 1
  /\ UNCHANGED << doForceStrobe, audioPc, flags, covered, answered, hits >>

ForceStrobe(on) ==
  /\ doForceStrobe' = on
  /\ UNCHANGED << doForceHit, audioPc, flags, hitVars >>

(* process() up to makeFlags, or the thread ends.                          *)
Process ==
  /\ audioPc = "process"
  /\ audioPc' \in { "testHit", "done" }
  /\ flags' = {}
  /\ UNCHANGED << fields, hitVars >>

TestHit ==
  /\ audioPc = "testHit"
  /\ audioPc' = IF doForceHit THEN "resetHit" ELSE "testStrobe"
  /\ UNCHANGED << fields, flags, hitVars >>

ResetHit ==
  /\ audioPc = "resetHit"
  /\ doForceHit' = FALSE
  /\ flags' = { "FORCE_HIT" } /\ covered' = asks
  /\ audioPc' = "testStrobe"
  /\ UNCHANGED << doForceStrobe, asks, answered, hits >>

TestStrobe ==
  /\ audioPc = "testStrobe"
  /\ flags' = IF doForceStrobe THEN flags \cup { "FORCE_STROBE" } ELSE flags
  /\ audioPc' = "send"
  /\ UNCHANGED << fields, hitVars >>

(* Mutant: the hit is taken back once the packet is sent.                  *)
SendThenReset ==
  /\ audioPc = "send"
  /\ audioPc' = "process"
  /\ answered' = covered
  /\ hits' = IF "FORCE_HIT" \in flags THEN hits + 1 ELSE hits
  /\ doForceHit' = (doForceHit /\ "FORCE_HIT" \notin flags)
  /\ UNCHANGED << doForceStrobe, flags, asks, covered >>

Send ==
  /\ audioPc = "send"
  /\ audioPc' = "process"
  /\ answered' = covered
  /\ hits' = IF "FORCE_HIT" \in flags THEN hits + 1 ELSE hits
  /\ UNCHANGED << fields, flags, asks, covered >>

Audio == Process \/ TestHit \/ ResetHit \/ TestStrobe \/ Send

FlagsNext == ForceHit \/ (\E on \in BOOLEAN : ForceStrobe(on)) \/ Audio

FlagsSpec == FlagsInit /\ [][FlagsNext]_flagVars

(***************************************************************************)
(* Properties.                                                             *)
(***************************************************************************)

(* A hit asked for between the test, the reset and the sending of a packet *)
(* is never forgotten: it is in the field, or in a packet.                 *)
HitNotForgotten == answered < asks => doForceHit \/ covered = asks

(* No packet forces a hit that nobody asked for anew.                      *)
HitsAskedFor == hits <= asks
=============================================================================
