---------------------------- MODULE MCFlashSave ----------------------------
(* Presses and holds of both buttons around a save.  The knobs stay put:   *)
(* nothing they do is saved.                                               *)
EXTENDS FlashSave
=============================================================================
