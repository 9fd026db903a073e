------------------------------- MODULE Strobe -------------------------------
(***************************************************************************)
(* StrobeComponent: a flash lasts OnTime, the dark between two OffTime,    *)
(* both measured at the passes of the main loop.  The component runs by    *)
(* itself in strobe mode and inside S2LComponent when a strobe is forced.  *)
(***************************************************************************)
EXTENDS Integers

CONSTANTS
  OnTime,    \* 10 ms
  OffTime    \* 60 ms

VARIABLES
  strobeState,   \* the strobe is lit
  strobeAge      \* micros() - lastUpdate, saturating

strobeVars == << strobeState, strobeAge >>

AgeCap == 1 + IF OnTime < OffTime THEN OffTime ELSE OnTime

AgeAfter(d) == IF strobeAge + d < AgeCap THEN strobeAge + d ELSE AgeCap

(* lastUpdate is 0 at first, long ago for micros().                        *)
StrobeInit == strobeState = FALSE /\ strobeAge = AgeCap

(* Mutant: every call restarts the clock.                                  *)
StrobeLoopRestless(d) ==
  LET a   == AgeAfter(d)
      due == IF strobeState THEN a > OnTime ELSE a > OffTime
  IN  /\ strobeState' = (strobeState # due)
      /\ strobeAge' = 0

(* loop(), d after the last call.                                          *)
StrobeLoop(d) ==
  LET a   == AgeAfter(d)
      due == IF strobeState THEN a > OnTime ELSE a > OffTime
  IN  /\ strobeState' = (strobeState # due)
      /\ strobeAge' = IF due THEN 0 ELSE a

(* The component is not called.                                            *)
StrobeRests(d) == strobeAge' = AgeAfter(d) /\ UNCHANGED strobeState
=============================================================================
