----------------------- MODULE LightControllerProofs -----------------------
(* Proofs about the loop of the LED controller, for all brightness levels, *)
(* timeouts, delays and periods of the clock.                              *)
EXTENDS LightController, TLAPS

-----------------------------------------------------------------------------
(* A packet that has not been handled yet is about to be.                  *)
UnhandledIsNext == unhandled => pc = "handle"

HandlingAPacket == pc = "handle" => held # NoPacket

(* The order a held packet carries is the last one of its sort, so that    *)
(* handling the packet again can do no harm.                               *)
SetsLevel == held # NoPacket /\ held.type = "SET_BRIGHTNESS" /\ held.content # Unusable
SetsMode  == held # NoPacket /\ held.type \in Modes

HeldIsLastOrder ==
  /\ SetsLevel => ordered = held.content
  /\ SetsMode => wanted = held.type

(* Only the packet being handled may set the two brightnesses apart.       *)
LevelsAgree ==
  /\ pc = "setup" \/ fastLedBrightness = brightness
  /\ (pc = "handle" /\ SetsLevel) \/ brightness = ordered

(* millis() - lastPacket never exceeds the real silence, which is why a    *)
(* clock that wraps can delay a timeout but never hurry it.                *)
AgeIsSilence == pc = "handle" \/ age <= silence \/ silence = SilenceCap

LullCoversSilence == silence <= lull

(* The component is the one ordered, or a timeout after real silence chose *)
(* it, or the packet being handled will choose it.                         *)
ComponentJustified ==
  \/ pc = "handle" /\ SetsMode
  \/ component = wanted
  \/ component = "AMBIENT" /\ lull > AmbientTimeout
  \/ component = None /\ wanted = "STROBE" /\ lull > StrobeTimeout

(* A strobe has painted by the time it can be frozen.                      *)
StrobePainted == component \in { "STROBE", None } => painted = "STROBE"

LightInv ==
  /\ LightTypeOK
  /\ UnhandledIsNext
  /\ HandlingAPacket
  /\ HeldIsLastOrder
  /\ LevelsAgree
  /\ AgeIsSilence
  /\ LullCoversSilence
  /\ ComponentJustified
  /\ StrobePainted

-----------------------------------------------------------------------------
LEMMA LaterBounds ==
  ASSUME NEW t \in Nat, NEW d \in Nat
  PROVE  Later(t, d) \in 0 .. Wrap - 1 /\ Later(t, d) <= t + d
PROOF
  BY LightAssumption DEF Later

(* A longer silence keeps pace with the age, up to the cap.                *)
LEMMA LengthenKeeps ==
  ASSUME LightTypeOK, LullCoversSilence, NEW d \in Nat, Lengthen(d)
  PROVE  /\ silence' \in 0 .. SilenceCap /\ lull' \in 0 .. SilenceCap
         /\ silence' = silence + d \/ silence' = SilenceCap
         /\ silence' <= lull' /\ lull <= lull'
PROOF
  BY LightAssumption DEF LightTypeOK, LullCoversSilence, Lengthen, SilenceCap

LEMMA PowerUpInv ==
  LightInit => LightInv
PROOF
<1> SUFFICES ASSUME LightInit
             PROVE  LightInv
  OBVIOUS
<1>1. unhandled \in BOOLEAN
  BY DEF LightInit
<1> USE LightAssumption DEF LightInit
<1>2. LightTypeOK
  BY <1>1 DEF LightTypeOK, SilenceCap, Modes
<1>3. /\ UnhandledIsNext /\ HandlingAPacket /\ HeldIsLastOrder /\ LevelsAgree
      /\ AgeIsSilence /\ LullCoversSilence /\ ComponentJustified /\ StrobePainted
  BY DEF UnhandledIsNext, HandlingAPacket, HeldIsLastOrder, SetsLevel, SetsMode,
         LevelsAgree, AgeIsSilence, LullCoversSilence, ComponentJustified, StrobePainted, None
<1> QED
  BY <1>2, <1>3 DEF LightInv

LEMMA TimeoutsInv ==
  ASSUME LightInv, Timeouts
  PROVE  LightInv'
PROOF
<1> USE DEF LightInv
<1>1. PICK stall \in 0 .. MaxStall :
        /\ age' = Later(age, stall)
        /\ Lengthen(stall)
        /\ component' = IF AmbientDue(age') THEN "AMBIENT"
                        ELSE IF StrobeDue(age') THEN None
                        ELSE component
  BY DEF Timeouts
<1>2. /\ pc = "top" /\ pc' = "animate"
      /\ UNCHANGED << brightness, fastLedBrightness, painted, held, history >>
  BY DEF Timeouts
<1>3. /\ age \in Nat /\ stall \in Nat
      /\ silence \in 0 .. SilenceCap
  BY LightAssumption DEF LightTypeOK
<1>4. /\ age' \in 0 .. Wrap - 1
      /\ age' <= age + stall
  BY <1>1, <1>3, LaterBounds
<1>5. /\ silence' \in 0 .. SilenceCap /\ lull' \in 0 .. SilenceCap
      /\ silence' = silence + stall \/ silence' = SilenceCap
      /\ silence' <= lull' /\ lull <= lull'
  BY <1>1, <1>3, LengthenKeeps
<1>6. AgeIsSilence'
  BY <1>2, <1>3, <1>4, <1>5 DEF AgeIsSilence, SilenceCap
<1>7. LightTypeOK'
  BY <1>1, <1>2, <1>4, <1>5 DEF LightTypeOK, history, Modes, None
<1>8. /\ UnhandledIsNext' /\ HandlingAPacket' /\ HeldIsLastOrder' /\ LevelsAgree'
  BY <1>2
  DEF UnhandledIsNext, HandlingAPacket, HeldIsLastOrder, LevelsAgree, SetsLevel, SetsMode,
      history
<1>9. ComponentJustified'
  <2>1. AmbientDue(age') => lull' > AmbientTimeout
    BY <1>2, <1>4, <1>5, <1>6, LightAssumption DEF AmbientDue, AgeIsSilence, SilenceCap
  <2>2. StrobeDue(age') => lull' > StrobeTimeout /\ component = "STROBE"
    BY <1>2, <1>4, <1>5, <1>6, LightAssumption DEF StrobeDue, AgeIsSilence, SilenceCap
  <2>3. \/ component = wanted
        \/ component = "AMBIENT" /\ lull' > AmbientTimeout
        \/ component = None /\ wanted = "STROBE" /\ lull' > StrobeTimeout
    BY <1>2, <1>5, LightAssumption DEF ComponentJustified, LightTypeOK, SilenceCap
  <2> QED
    BY <1>1, <1>2, <2>1, <2>2, <2>3 DEF ComponentJustified, history, None
<1>10. StrobePainted'
  BY <1>1, <1>2 DEF StrobePainted, StrobeDue, None
<1> QED
  BY <1>5, <1>6, <1>7, <1>8, <1>9, <1>10 DEF LullCoversSilence

(* The setup, an animation and a restart: no packet moves.                 *)
LEMMA SetupInv ==
  ASSUME LightInv, FinishSetup
  PROVE  LightInv'
PROOF
<1> USE LightAssumption DEF LightInv, FinishSetup, history
<1>1. LightTypeOK'
  BY DEF LightTypeOK
<1>2. /\ UnhandledIsNext' /\ HandlingAPacket' /\ HeldIsLastOrder' /\ LevelsAgree'
      /\ ComponentJustified' /\ LullCoversSilence' /\ StrobePainted'
  BY DEF UnhandledIsNext, HandlingAPacket, HeldIsLastOrder, SetsLevel, SetsMode,
         LevelsAgree, ComponentJustified, LullCoversSilence, StrobePainted
<1>3. AgeIsSilence'
  BY DEF AgeIsSilence, LightTypeOK
<1> QED
  BY <1>1, <1>2, <1>3

LEMMA AnimateInv ==
  ASSUME LightInv, Animate
  PROVE  LightInv'
PROOF
<1> USE DEF LightInv, Animate, history
<1>1. LightTypeOK'
  BY DEF LightTypeOK, None, Modes
<1>2. /\ UnhandledIsNext' /\ HandlingAPacket' /\ HeldIsLastOrder' /\ LevelsAgree'
      /\ ComponentJustified' /\ LullCoversSilence' /\ AgeIsSilence'
  BY DEF UnhandledIsNext, HandlingAPacket, HeldIsLastOrder, SetsLevel, SetsMode,
         LevelsAgree, ComponentJustified, LullCoversSilence, AgeIsSilence
<1>3. StrobePainted'
  BY DEF StrobePainted, None
<1> QED
  BY <1>1, <1>2, <1>3

LEMMA RestartInv ==
  ASSUME OtaRestart
  PROVE  LightInv'
PROOF
<1>1. LightInit'
  BY DEF OtaRestart, LightInit
<1> QED
  BY <1>1, PowerUpInv, PTL

(* The end of a pass, with the packet unchanged or overwritten.            *)
LEMMA EndPassInv ==
  ASSUME LightInv, pc = "tick", EndPass, held' \in { held, NoPacket },
         UNCHANGED << component, brightness, fastLedBrightness, painted, history >>
  PROVE  LightInv'
PROOF
<1> USE DEF LightInv, history
<1>1. /\ age \in Nat /\ LoopDelay \in Nat /\ silence \in 0 .. SilenceCap
  BY LightAssumption DEF LightTypeOK
<1>2. /\ pc' = "top"
      /\ age' \in 0 .. Wrap - 1
      /\ age' <= age + LoopDelay
  BY <1>1, LaterBounds DEF EndPass
<1>3. /\ silence' \in 0 .. SilenceCap /\ lull' \in 0 .. SilenceCap
      /\ silence' = silence + LoopDelay \/ silence' = SilenceCap
      /\ silence' <= lull' /\ lull <= lull'
  BY <1>1, LengthenKeeps DEF EndPass
<1>4. LightTypeOK'
  BY <1>2, <1>3 DEF LightTypeOK
<1>5. AgeIsSilence'
  BY <1>1, <1>2, <1>3 DEF AgeIsSilence, SilenceCap
<1>6. ComponentJustified'
  BY <1>2, <1>3, LightAssumption DEF ComponentJustified, LightTypeOK, SilenceCap
<1>7. /\ UnhandledIsNext' /\ HandlingAPacket' /\ HeldIsLastOrder' /\ LevelsAgree'
      /\ LullCoversSilence' /\ StrobePainted'
  BY <1>2, <1>3
  DEF UnhandledIsNext, HandlingAPacket, HeldIsLastOrder, SetsLevel, SetsMode, LevelsAgree,
      LullCoversSilence, StrobePainted
<1> QED
  BY <1>4, <1>5, <1>6, <1>7

(* A packet already handled is found again.                                *)
LEMMA TickInv ==
  ASSUME LightInv, TickIdle \/ TickPartial
  PROVE  LightInv'
PROOF
<1>1. CASE TickPartial \/ (TickIdle /\ held = NoPacket)
  BY <1>1, EndPassInv DEF TickPartial, TickIdle
<1>2. CASE TickIdle /\ held # NoPacket
  <2> USE DEF LightInv, history
  <2>1. /\ pc = "tick" /\ pc' = "handle"
        /\ UNCHANGED << component, brightness, fastLedBrightness, painted, age, held,
                        silence, lull, history >>
    BY <1>2 DEF TickIdle
  <2>2. LightTypeOK'
    BY <2>1 DEF LightTypeOK
  <2>3. /\ UnhandledIsNext' /\ HandlingAPacket' /\ HeldIsLastOrder' /\ LevelsAgree'
        /\ LullCoversSilence' /\ AgeIsSilence' /\ ComponentJustified' /\ StrobePainted'
    BY <1>2, <2>1
    DEF UnhandledIsNext, HandlingAPacket, HeldIsLastOrder, SetsLevel, SetsMode,
        LevelsAgree, LullCoversSilence, AgeIsSilence, ComponentJustified, StrobePainted
  <2> QED
    BY <2>2, <2>3
<1> QED
  BY <1>1, <1>2

(* A packet is completed: it alone now says what was last ordered.         *)
LEMMA TickCompleteInv ==
  ASSUME LightInv, NEW p \in Packet, TickComplete(p)
  PROVE  LightInv'
PROOF
<1> USE LightAssumption DEF LightInv
<1>1. /\ pc = "tick" /\ pc' = "handle" /\ held' = p /\ p # NoPacket
      /\ UNCHANGED << component, brightness, fastLedBrightness, painted, age >>
      /\ silence' = 0
      /\ lull' = IF p.type \in Modes THEN 0 ELSE lull
      /\ wanted' = IF p.type \in Modes THEN p.type ELSE wanted
      /\ ordered' = IF p.type = "SET_BRIGHTNESS" /\ p.content # Unusable
                      THEN p.content ELSE ordered
  BY DEF TickComplete
<1>2. unhandled' \in BOOLEAN
  BY DEF TickComplete
<1>3. ordered' \in Levels
  BY <1>1 DEF Packet, Modes, Other, LightTypeOK
<1>4. LightTypeOK'
  BY <1>1, <1>2, <1>3 DEF LightTypeOK, SilenceCap
<1>5. UnhandledIsNext' /\ HandlingAPacket' /\ AgeIsSilence' /\ StrobePainted'
  BY <1>1 DEF UnhandledIsNext, HandlingAPacket, AgeIsSilence, StrobePainted
<1>6. HeldIsLastOrder' /\ LevelsAgree'
  BY <1>1 DEF HeldIsLastOrder, LevelsAgree, SetsLevel, SetsMode
<1>7. LullCoversSilence'
  BY <1>1 DEF LullCoversSilence, LightTypeOK, SilenceCap
<1>8. ComponentJustified'
  BY <1>1 DEF ComponentJustified, SetsMode
<1> QED
  BY <1>4, <1>5, <1>6, <1>7, <1>8

(* A packet is handled, for the first time or again.                       *)
LEMMA HandleInv ==
  ASSUME LightInv, Handle
  PROVE  LightInv'
PROOF
<1> USE LightAssumption DEF LightInv
<1>1. /\ pc = "handle" /\ pc' = "top" /\ held' = held /\ held \in Packet
      /\ held # NoPacket
      /\ wanted' = wanted /\ ordered' = ordered /\ ~unhandled'
      /\ component' = IF held.type \in Modes THEN held.type ELSE component
      /\ ProcessSetBrightness
      /\ painted' = IF StartPaints THEN held.type ELSE painted
  BY DEF Handle, LightTypeOK, HandlingAPacket
<1>2. PICK spent \in Nat : age' = Later(0, spent) /\ Lengthen(spent)
  BY DEF Handle
<1>3. /\ age' \in 0 .. Wrap - 1
      /\ age' <= spent
  BY <1>2, LaterBounds
<1>4. /\ silence' \in 0 .. SilenceCap /\ lull' \in 0 .. SilenceCap
      /\ silence' = silence + spent \/ silence' = SilenceCap
      /\ silence' <= lull' /\ lull <= lull'
  BY <1>2, LengthenKeeps
<1>5. unhandled' \in BOOLEAN
  BY DEF Handle
<1>6. /\ brightness' = fastLedBrightness' /\ brightness' = ordered
      /\ brightness' \in Levels
  BY <1>1
  DEF ProcessSetBrightness, LevelsAgree, HeldIsLastOrder, SetsLevel, LightTypeOK
<1>7. /\ component' \in Modes \cup { None }
      /\ painted' \in Modes \cup { "setup" }
  BY <1>1 DEF StartPaints, LightTypeOK
<1>8. LightTypeOK'
  BY <1>1, <1>3, <1>4, <1>5, <1>6, <1>7 DEF LightTypeOK
<1>9. UnhandledIsNext' /\ HandlingAPacket' /\ HeldIsLastOrder' /\ LevelsAgree'
  BY <1>1, <1>6
  DEF UnhandledIsNext, HandlingAPacket, HeldIsLastOrder, LevelsAgree, SetsLevel, SetsMode
<1>10. AgeIsSilence' /\ LullCoversSilence'
  BY <1>3, <1>4 DEF AgeIsSilence, LullCoversSilence, LightTypeOK
<1>11. ComponentJustified'
  <2>1. CASE held.type \in Modes
    BY <1>1, <2>1 DEF ComponentJustified, HeldIsLastOrder, SetsMode
  <2>2. CASE held.type \notin Modes
    BY <1>1, <1>4, <2>2 DEF ComponentJustified, SetsMode, LightTypeOK, SilenceCap
  <2> QED
    BY <2>1, <2>2
<1>12. StrobePainted'
  <2>1. held.type = "STROBE" => held.content # Unusable
    BY <1>1 DEF Packet, Modes, Other
  <2> QED
    BY <1>1, <2>1 DEF StrobePainted, StartPaints, Modes, None
<1> QED
  BY <1>8, <1>9, <1>10, <1>11, <1>12

LEMMA LightStepKeepsInv ==
  ASSUME LightInv, [LightNext]_lightVars
  PROVE  LightInv'
PROOF
<1>1. CASE LightNext
  BY <1>1, SetupInv, TimeoutsInv, AnimateInv, TickInv, TickCompleteInv, HandleInv, RestartInv
  DEF LightNext, Pass
<1>2. CASE UNCHANGED lightVars
  BY <1>2
  DEF lightVars, LightInv, LightTypeOK, UnhandledIsNext, HandlingAPacket, HeldIsLastOrder,
      SetsLevel, SetsMode, LevelsAgree, AgeIsSilence, LullCoversSilence,
      ComponentJustified, StrobePainted
<1> QED
  BY <1>1, <1>2

-----------------------------------------------------------------------------
(* The inductive invariant of the loop.                                    *)
THEOREM LightInvariant == LightSpec => []LightInv
PROOF
<1>1. LightInv /\ [LightNext]_lightVars => LightInv'
  BY LightStepKeepsInv
<1> QED
  BY <1>1, PowerUpInv, PTL DEF LightSpec

(* The controller's state is always well-typed.                            *)
THEOREM LightTypeCorrect == LightSpec => []LightTypeOK
PROOF
  BY LightInvariant, PTL DEF LightInv

(* No byte is read between a completed packet and its handling, so the one *)
(* packet SerialUtil has room for is never overwritten unseen.             *)
THEOREM EveryPacketIsHandled == LightSpec => []NoPacketSkipped
PROOF
<1>1. LightInv => NoPacketSkipped
  BY DEF LightInv, UnhandledIsNext, NoPacketSkipped
<1> QED
  BY <1>1, LightInvariant, PTL

(* The brightness in use is the one last ordered.                          *)
THEOREM OrderedBrightnessInUse == LightSpec => []BrightnessFollowsOrders
PROOF
<1>1. LightInv => BrightnessFollowsOrders
  BY DEF LightInv, LevelsAgree, BrightnessFollowsOrders
<1> QED
  BY <1>1, LightInvariant, PTL

(* The mode shown is the one last ordered, or a timeout after real silence *)
(* chose it: for every timeout and period of the clock, wrapped or not.    *)
THEOREM OrderedModeShown == LightSpec => []ModeFollowsOrders
PROOF
<1>1. LightInv => ModeFollowsOrders
  BY DEF LightInv, ComponentJustified, ModeFollowsOrders
<1> QED
  BY <1>1, LightInvariant, PTL

(* The picture is frozen on a flash of the strobe only.                    *)
THEOREM FrozenPictureIsStrobe == LightSpec => []OnlyStrobeFreezes
PROOF
<1>1. LightInv => OnlyStrobeFreezes
  BY DEF LightInv, StrobePainted, OnlyStrobeFreezes, None
<1> QED
  BY <1>1, LightInvariant, PTL
=============================================================================
