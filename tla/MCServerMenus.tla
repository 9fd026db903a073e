--------------------------- MODULE MCServerMenus ----------------------------
(* What the clients ask for in a behaviour is one of two menus: requests   *)
(* that concern modes, or requests that concern brightness.                *)
EXTENDS MCLedServer

VARIABLE menu

Served == IF menu = "modes" THEN ModeRequests ELSE BrightnessRequests

MenuInit == ServerInit /\ menu \in { "modes", "brightness" }

(* The cable is pulled only when the menu is brightness.                   *)
MenuNext ==
  /\ \/ \E c \in Clients : (\E r \in Served : Call(c, r)) \/ Enter(c) \/ Proceed(c)
     \/ \E h \in Helpers : Dispatch(h)
     \/ Drain
     \/ menu = "brightness" /\ (Unplug \/ Replug)
  /\ UNCHANGED menu

MenuSpec == MenuInit /\ [][MenuNext]_<< serverVars, menu >>
=============================================================================
