---------------------------- MODULE MCLedServer ----------------------------
(* The server with two clients, and what they may ask for.                 *)
EXTENDS LedServer, TLC

ModeRequests ==
  { [act |-> "mode", kind |-> "S2L"], [act |-> "mode", kind |-> "STROBE"],
    [act |-> "color"], [act |-> "game"], [act |-> "freeze"] }

BrightnessRequests ==
  { [act |-> "brightness", level |-> 0, low |-> 1],
    [act |-> "brightness", level |-> 4, low |-> 0],
    [act |-> "relative", change |-> -1], [act |-> "freeze"] }

BusyRequests ==
  { [act |-> "mode", kind |-> "S2L"], [act |-> "game"], [act |-> "freeze"] }

FreezeRequests == { [act |-> "freeze"] }

AllRequests == ModeRequests \cup BrightnessRequests

Symmetry == Permutations(Clients)

(* The steps of the server when nobody sets the brightness: what is fair   *)
(* is checked for these requests, where a thread waits for others.         *)
BusyNext ==
  \/ \E c \in Clients :
       \/ \E r \in BusyRequests : Call(c, r)
       \/ Enter(c) \/ Cast(c) \/ Write(c)
       \/ Terminate(c) \/ Join(c) \/ JoinTimeout(c) \/ Install(c) \/ Start(c)
  \/ \E h \in Helpers : Dispatch(h)
  \/ Drain \/ Unplug \/ Replug

BusySpec == ServerInit /\ [][BusyNext]_serverVars /\ ServerFairness
=============================================================================
