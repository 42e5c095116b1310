---------------------------- MODULE MCAudioRing ----------------------------
(* A ring of an odd length, so that both ends meet its end at every phase. *)
EXTENDS AudioRing

MCCounts == {1, 3, 20}
=============================================================================
