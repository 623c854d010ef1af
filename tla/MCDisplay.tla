----------------------------- MODULE MCDisplay -----------------------------
(* Frames of three bytes, with blanking in the middle of the third. *)
EXTENDS Display
=============================================================================
