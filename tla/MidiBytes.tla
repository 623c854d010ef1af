----------------------------- MODULE MidiBytes -----------------------------
(***************************************************************************)
(* How both MIDI parsers of the firmware (midi.c and recall.c) read a byte,*)
(* and the parser states they share.  A byte is a number below 256.        *)
(***************************************************************************)
EXTENDS Integers, Sequences

IsStatus(b) == b >= \h80       \* b & 0x80
HighNibble(b) == b - (b % 16)   \* b & 0xf0
LowNibble(b) == b % 16         \* b & 0x0f
IsRealTime(b) == b >= \hF8

TwoByteStatus == {\h80, \h90, \hA0, \hB0, \hE0}
OneByteStatus == {\hC0, \hD0}

SysExStart == \hF0
SysExEnd == \hF7
ClockByte == \hF8
StartByte == \hFA

sysExIDES == << \hF0, \h00, \h21, \h27 >>

\* A call of midiMessageHandler.
Call(status, channel, message) ==
  [status |-> status, channel |-> channel, message |-> message]

(***************************************************************************)
(* ProcessNativeSysEx: the calls that get past its checks of the hardware  *)
(* and module ids reach the command switch, whose cases are empty.         *)
(***************************************************************************)
NativeCommand(sx) ==
  IF Len(sx) > 7 /\ sx[5] = \h5D /\ sx[6] \in {\h7F, 0}
  THEN << Call(\hF0, 0, <<sx[7]>>) >>
  ELSE << >>

\* The test for an Expert Sleepers sysex, on what has been kept of it.
IsNative(sx) == Len(sx) > 4 /\ SubSeq(sx, 1, 4) = sysExIDES
=============================================================================
