------------------------- MODULE MCLightController -------------------------
(* The controller with seconds for a clock; every loop() takes one.        *)
EXTENDS LightController
=============================================================================
