--------------------------- MODULE MCKellerSystem ---------------------------
(* One client, what it may ask for, and a controller with short timeouts.  *)
EXTENDS KellerSystem

ModeRequests ==
  { [act |-> "mode", kind |-> "S2L"], [act |-> "mode", kind |-> "STROBE"],
    [act |-> "color"] }

LevelRequests ==
  { [act |-> "brightness", level |-> 1, low |-> 1], [act |-> "relative", change |-> 1],
    [act |-> "freeze"] }

BriefRequests ==
  { [act |-> "mode", kind |-> "STROBE"], [act |-> "color"] }

AllRequests == ModeRequests \cup LevelRequests
=============================================================================
