--------------------------- MODULE MCKellerMenus ----------------------------
(* What the client asks for in a behaviour is one of two menus: modes, or  *)
(* brightness, the latter with a cable that may be pulled.                 *)
EXTENDS MCKellerSystem

VARIABLE menu

Served == IF menu = "modes" THEN ModeRequests ELSE LevelRequests

MenuInit == SystemInit /\ menu \in { "modes", "brightness" }

MenuNext ==
  /\ \/ ServerStep(Served) \/ Drain \/ LightStep \/ Restart
     \/ menu = "brightness" /\ Unplug
  /\ UNCHANGED menu

MenuSpec == MenuInit /\ [][MenuNext]_<< systemVars, menu >>
=============================================================================
