----------------------------- MODULE MidiParser -----------------------------
(***************************************************************************)
(* The state machine midi.c and recall.c both hold a copy of.  A parser is *)
(* a record of the file's statics, and each function of the C code an      *)
(* operator from a parser and a byte to the parser it leaves; "done" has   *)
(* the calls the byte led to.  The two files differ in what they make of a *)
(* status, which is the parameter Enter, and in what they do with a        *)
(* message once they have it, which is theirs.                             *)
(***************************************************************************)
EXTENDS MidiBytes

CONSTANTS
  kMaxSysex,     \* size of the sysex buffer
  Enter(_, _)    \* the switch on the remembered status, met with a byte

Reset == [state |-> "idle", sStatus |-> 0, sChannel |-> 0,
          sMessage |-> <<0, 0>>, sysex |-> << >>, done |-> << >>]

\* Mutant of StatusByte: forgets the channel.
StatusByteNoChannel(p, b) == Enter([p EXCEPT !.sStatus = HighNibble(b)], b)

StatusByte(p, b) ==
  Enter([p EXCEPT !.sStatus = HighNibble(b), !.sChannel = LowNibble(b)], b)

\* The end of a sysex the parser acts on.
EndOfSysex(p) ==
  IF IsNative(p.sysex) THEN [p EXCEPT !.done = NativeCommand(p.sysex)] ELSE p

Keep(p, b) ==
  [p EXCEPT !.sysex = IF Len(@) < kMaxSysex THEN Append(@, b) ELSE @]

\* Mutant of Deliver: does not go back to idle.
DeliverAndStay(p) ==
  [p EXCEPT !.done = <<Call(p.sStatus, p.sChannel, p.sMessage)>>]

Deliver(p) ==
  [p EXCEPT !.state = "idle",
            !.done = <<Call(p.sStatus, p.sChannel, p.sMessage)>>]

\* ProcessMIDI in a state other than idle.
Collect(p, b) ==
  CASE p.state = "want1of1" -> Deliver([p EXCEPT !.sMessage[1] = b])
    [] p.state = "want1of2" -> [p EXCEPT !.sMessage[1] = b, !.state = "want2"]
    [] p.state = "want2"    -> Deliver([p EXCEPT !.sMessage[2] = b])
    [] p.state = "sysex" ->
         LET kept == Keep(p, b)
             over == [kept EXCEPT !.state = "idle"] IN
         IF ~IsStatus(b) THEN kept
         ELSE IF b = SysExEnd THEN EndOfSysex(over)
         ELSE StatusByte(over, b)

\* Mutant of RunOn: no running status.
RunOnNothing(p, b) == p

\* A data byte met in idle runs on the remembered status, if that wants any.
RunOn(p, b) ==
  LET entered == Enter(p, b) IN
  IF entered.state = "idle" THEN entered ELSE Collect(entered, b)

ProcessStatus(p, b) == IF IsStatus(b) THEN StatusByte(p, b) ELSE RunOn(p, b)

\* ProcessMIDI for a byte that is not a real-time byte.
ProcessMIDI(p, b) ==
  IF p.state = "idle" THEN ProcessStatus(p, b) ELSE Collect(p, b)
=============================================================================
