------------------------------ MODULE LedStrip ------------------------------
(* The strips all components draw on.                                      *)
EXTENDS Integers

CONSTANT NumLed  \* 121

Leds == 0 .. NumLed - 1
=============================================================================
