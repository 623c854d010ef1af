----------------------------- MODULE MCMidiOut -----------------------------
(* A queue of five slots, which the longest message nearly fills, and      *)
(* messages of every length with bytes of their own.                       *)
EXTENDS MidiOut

CONSTANTS s, d, e   \* a status byte and two data bytes

MCMessage == { <<s, d, e>>, <<s, e>>, <<e>> }
=============================================================================
