------------------------------ MODULE MidiIn ------------------------------
(***************************************************************************)
(* The MIDI input parser (midi.c, ProcessMIDI) fed by a wire.  A byte is   *)
(* one step, as the main loop runs the parser to completion for each byte  *)
(* it takes.  Calls of the message handler are kept, in order, in "calls". *)
(***************************************************************************)
EXTENDS MidiReceiver

CONSTANT ClockPeriod   \* clocks in the master counter's cycle, 96 * 4

ASSUME MidiInAssumption == ClockPeriod \in Nat \ {0}

VARIABLES
  calls,        \* history: the calls of midiMessageHandler by messages
  firstMidiClock,
  masterMIDIClockCounter

clock == <<firstMidiClock, masterMIDIClockCounter>>
vars == <<wireVars, parser, calls, clock>>
-----------------------------------------------------------------------------
(***************************************************************************)
(* The switch of ProcessStatus: what the remembered status makes of byte b.*)
(***************************************************************************)
Wanted(p) ==
  IF p.sStatus \in TwoByteStatus THEN "want1of2"
  ELSE IF p.sStatus \in OneByteStatus THEN "want1of1"
  ELSE IF p.sStatus = \hF0 /\ p.sChannel = 0 THEN "sysex"
  ELSE "idle"

Enter(p, b) ==
  [p EXCEPT !.state = Wanted(p),
            !.sysex = IF Wanted(p) = "sysex" THEN <<b>> ELSE @]

Parser == INSTANCE MidiParser

\* Mutant of RealTimeHandler: the first clock after Start counts as one.
RealTimeHandlerFirstCounts(b) ==
  IF b = ClockByte /\ firstMidiClock
  THEN firstMidiClock' = FALSE /\ masterMIDIClockCounter' = 1
  ELSE IF b = ClockByte
  THEN /\ masterMIDIClockCounter' = (masterMIDIClockCounter + 1) % ClockPeriod
       /\ UNCHANGED firstMidiClock
  ELSE firstMidiClock' = (b = StartByte) /\ UNCHANGED masterMIDIClockCounter

\* DefaultProcessRealTime.
RealTimeHandler(b) ==
  CASE b = StartByte ->
         firstMidiClock' = TRUE /\ UNCHANGED masterMIDIClockCounter
    [] b = ClockByte /\ firstMidiClock ->
         firstMidiClock' = FALSE /\ masterMIDIClockCounter' = 0
    [] b = ClockByte /\ ~firstMidiClock ->
         /\ masterMIDIClockCounter' = (masterMIDIClockCounter + 1) % ClockPeriod
         /\ UNCHANGED firstMidiClock
    [] OTHER -> UNCHANGED clock
-----------------------------------------------------------------------------
Init ==
  /\ WireInit
  /\ parser = Parser!Reset
  /\ calls = << >>
  /\ firstMidiClock = FALSE
  /\ masterMIDIClockCounter = 0

Receive ==
  /\ ByteSent
  /\ LET after == Parser!ProcessMIDI(parser, Head(todo)) IN
     /\ parser' = [after EXCEPT !.done = << >>]
     /\ calls' = calls \o after.done
  /\ UNCHANGED clock

\* A real-time byte goes to the handler at once, whatever else is going on.
ReceiveRealTime(b) ==
  /\ RealTimeSent(b)
  /\ RealTimeHandler(b)
  /\ UNCHANGED <<parser, calls>>

Next ==
  \/ \E m \in session.message : Begin(m) /\ UNCHANGED <<parser, calls, clock>>
  \/ ByteLost /\ UNCHANGED <<parser, calls, clock>>
  \/ Receive
  \/ \E b \in session.realTime : ReceiveRealTime(b)

Spec == Init /\ [][Next]_vars
-----------------------------------------------------------------------------
\* The calls a message ought to make.  The unused second data byte of a
\* one-byte message is whatever was there.
Expected(m) ==
  IF Voice(m) THEN << <<m[1], Tail(m)>> >>
  ELSE IF /\ m[1] = SysExStart /\ m[Len(m)] = SysExEnd
          /\ IsNative(m) /\ NativeCommand(m) # << >>
       THEN << <<\hF0, NativeCommand(m)[1].message>> >>
  ELSE << >>

AsSent(c) ==
  << c.status + c.channel,
     IF c.status \in OneByteStatus THEN SubSeq(c.message, 1, 1) ELSE c.message >>

ExpectedCalls == FlattenSeq([i \in 1 .. Len(sent) |-> Expected(sent[i])])
MadeCalls == [i \in 1 .. Len(calls) |-> AsSent(calls[i])]

(***************************************************************************)
(* On a line that loses nothing, the handler is called for the messages    *)
(* the sender sent, each once, in order, with their own status, channel    *)
(* and data, whichever mixture of running status, sysex cut short by       *)
(* another status and real-time bytes in mid-message carried them.         *)
(***************************************************************************)
DeliveredAsSent ==
  lost = 0 => /\ IsPrefix(MadeCalls, ExpectedCalls)
              /\ todo = << >> => MadeCalls = ExpectedCalls

(***************************************************************************)
(* The parser takes a status byte for data when it is owed data bytes, so  *)
(* a lost byte can put it out of step.  If every message carries its       *)
(* status, two messages of two data bytes received whole are always enough *)
(* to bring it back in step: the third is delivered as it was sent.        *)
(***************************************************************************)
DeliversAgain ==
  /\ ~ranOn /\ steadied >= 3 /\ todo = << >>
  /\ sent # << >> /\ TwoData(sent[Len(sent)])
  => Last(MadeCalls) = <<Last(sent)[1], Tail(Last(sent))>>

(***************************************************************************)
(* The master clock counts the sender's clocks, modulo its cycle, from the *)
(* first one after the last Start: no message it interrupts, and no lost   *)
(* byte of one, disturbs it.                                               *)
(***************************************************************************)
ClocksSince(i) ==
  Cardinality({j \in i .. Len(realTime) : realTime[j] = ClockByte})

ClockInStep ==
  LET starts == {i \in 1 .. Len(realTime) : realTime[i] = StartByte} IN
  IF starts = {} THEN masterMIDIClockCounter = ClocksSince(1) % ClockPeriod
  ELSE LET n == ClocksSince(Max(starts)) IN
       n > 0 => masterMIDIClockCounter = (n - 1) % ClockPeriod
=============================================================================
