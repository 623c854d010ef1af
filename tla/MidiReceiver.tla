---------------------------- MODULE MidiReceiver ----------------------------
(***************************************************************************)
(* What the two receivers on a wire have alike: midi.c and recall.c each   *)
(* hold the statics of a parser (MidiParser) and a buffer for a sysex, of  *)
(* 4096 bytes in midi.c and of 20 in recall.c.                             *)
(***************************************************************************)
EXTENDS MidiWire, SequencesExt

CONSTANT kMaxSysex   \* size of the sysex buffer

\* It holds the command a native sysex carries.
ASSUME SysexAssumption == kMaxSysex \in Nat /\ kMaxSysex > 7

VARIABLE parser      \* the statics of the parser
=============================================================================
