------------------------------ MODULE MCMidiIn ------------------------------
(* A note, a second note on another channel, a program change, a system    *)
(* common message, and sysex of every kind the parser tells apart.         *)
EXTENDS MidiIn

Note == <<\h90, 1, 2>>
Bend == <<\hE5, 3, 4>>
Program == <<\hC0, 5>>
SongPosition == <<\hF2, 6, 7>>
NativeSysex == <<\hF0, 0, \h21, \h27, \h5D, 0, \h22, \hF7>>
LongSysex == <<\hF0, 0, \h21, \h27, \h5D, \h7F, \h33, 8, 9, \hF7>>
CutSysex == <<\hF0, \h7D>>

MCMessage ==
  {Note, Bend, Program, SongPosition, NativeSysex, LongSysex, CutSysex}

MCVoice == {Note, Bend, Program, <<\hF0, 1, \hF7>>}

\* A busy line that loses nothing, and a quiet one that loses bytes.
MCSession ==
  { [message |-> MCMessage, realTime |-> {\hF8, \hFA, \hFE},
     sends |-> 3, ticks |-> 4, loses |-> 0],
    [message |-> MCVoice, realTime |-> {},
     sends |-> 5, ticks |-> 0, loses |-> 2] }
=============================================================================
