---------------------------- MODULE MCSoftTimer ----------------------------
(* A periodic and a one-shot timer on two kernel timers. *)
EXTENDS SoftTimer

CONSTANTS p1, o1, h1, h2
=============================================================================
