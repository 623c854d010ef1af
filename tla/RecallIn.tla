------------------------------ MODULE RecallIn ------------------------------
(***************************************************************************)
(* The Select Bus parser (recall.c, Recall_ProcessMIDI) fed by a wire.  It *)
(* is MIDI with two additions: a controller that arms "save" for program   *)
(* changes, and the status F4, which saves.  What the parser does with a   *)
(* message is kept, in order, in "deeds".                                  *)
(***************************************************************************)
EXTENDS MidiReceiver

\* What is sent with the status F4 has one data byte, the slot.
SavesNameASlot ==
  \A x \in Session : \A m \in x.message : m[1] = \hF4 => Len(m) = 2

ASSUME RecallAssumption == SavesNameASlot

VARIABLES
  saveMode,    \* whether a program change saves
  deeds        \* history: saves, loads and calls of midiMessageHandler

recallVars == <<wireVars, parser, saveMode, deeds>>

SelectSave == \hF4         \* select bus save
SaveModeController == 16

Saved(slot) == [kind |-> "save", slot |-> slot % 64]
Loaded(slot) == [kind |-> "load", slot |-> slot % 64]
Handled(c) == [kind |-> "handle", call |-> c]
-----------------------------------------------------------------------------
(***************************************************************************)
(* The switch of Recall_ProcessStatus.  The last case hands the status to  *)
(* the message handler there and then, and leaves the state as it is.      *)
(***************************************************************************)
RecallWanted(p) ==
  IF p.sStatus \in TwoByteStatus THEN "want1of2"
  ELSE IF p.sStatus \in OneByteStatus THEN "want1of1"
  ELSE IF p.sStatus # \hF0 THEN "idle"
  ELSE IF p.sChannel = 4 THEN "want1of1"
  ELSE IF p.sChannel = 0 THEN "sysex"
  ELSE "idle"

RecallEnter(p, b) ==
  [p EXCEPT
     !.state = RecallWanted(p),
     !.sysex = IF RecallWanted(p) = "sysex" THEN <<b>> ELSE @,
     !.done = IF RecallWanted(p) = "idle" /\ p.sStatus = \hF0
              THEN <<Call(p.sStatus, p.sChannel, p.sMessage)>> ELSE @]

RecallParser == INSTANCE MidiParser WITH Enter <- RecallEnter

(***************************************************************************)
(* Recall_ProcessMessage, for a message that is complete.  What it does    *)
(* not handle itself goes to the message handler.                          *)
(***************************************************************************)
ArmsSave(c) ==
  c.status = \hB0 /\ c.channel = 0 /\ c.message[1] = SaveModeController
IsProgram(c) == c.status = \hC0 /\ c.channel = 0
IsSelectSave(c) == c.status + c.channel = SelectSave

\* Mutant of ProcessMessage: "save all" is taken for a slot.
ProcessMessageSaveAll(c) ==
  CASE ArmsSave(c)     -> << >>
    [] IsProgram(c)    -> << IF saveMode THEN Saved(c.message[1])
                                         ELSE Loaded(c.message[1]) >>
    [] IsSelectSave(c) -> <<Saved(c.message[1])>>
    [] OTHER           -> <<Handled(c)>>

ProcessMessage(c) ==
  CASE ArmsSave(c)     -> << >>
    [] IsProgram(c)    -> << IF saveMode THEN Saved(c.message[1])
                                         ELSE Loaded(c.message[1]) >>
    [] IsSelectSave(c) -> IF c.message[1] < \h40
                          THEN <<Saved(c.message[1])>> ELSE << >>
    [] OTHER           -> <<Handled(c)>>

\* A status handed on, a native sysex, or a message that is complete.
Complete(c) == Len(c.message) = 2 /\ (c.status = \hF0 => c.channel = 4)

Do(c) == IF Complete(c) THEN ProcessMessage(c) ELSE <<Handled(c)>>

Recall_ProcessMIDI(b) ==
  LET after == RecallParser!ProcessMIDI(parser, b) IN
  /\ parser' = [after EXCEPT !.done = << >>]
  /\ deeds' = deeds \o FlattenSeq([i \in 1 .. Len(after.done) |-> Do(after.done[i])])
  /\ saveMode' = IF \E i \in 1 .. Len(after.done) : ArmsSave(after.done[i])
                 THEN after.done[1].message[2] = 127 ELSE saveMode
-----------------------------------------------------------------------------
RecallInit ==
  /\ WireInit
  /\ parser = RecallParser!Reset
  /\ saveMode = FALSE
  /\ deeds = << >>

\* The parser has no case of its own for real-time bytes.
RecallNext ==
  \/ \E m \in session.message : Begin(m) /\ UNCHANGED <<parser, saveMode, deeds>>
  \/ ByteLost /\ UNCHANGED <<parser, saveMode, deeds>>
  \/ ByteSent /\ Recall_ProcessMIDI(Head(todo))
  \/ \E b \in session.realTime : RealTimeSent(b) /\ Recall_ProcessMIDI(b)

RecallSpec == RecallInit /\ [][RecallNext]_recallVars
-----------------------------------------------------------------------------
\* The save mode the sender has asked for before its i-th message.
Armed(i) ==
  LET arming == {j \in 1 .. i - 1 : Len(sent[j]) = 3 /\ sent[j][1] = \hB0
                                    /\ sent[j][2] = SaveModeController} IN
  arming # {} /\ sent[Max(arming)][3] = 127

\* The saves and loads the i-th message asks for.
Asked(i) ==
  LET m == sent[i] IN
  CASE m[1] = \hC0 -> << IF Armed(i) THEN Saved(m[2]) ELSE Loaded(m[2]) >>
    [] m[1] = SelectSave /\ m[2] < \h40 -> <<Saved(m[2])>>
    [] OTHER -> << >>

AskedFor == FlattenSeq([i \in 1 .. Len(sent) |-> Asked(i)])
SavesAndLoads ==
  FlattenSeq([i \in 1 .. Len(deeds) |->
                IF deeds[i].kind = "handle" THEN << >> ELSE <<deeds[i]>>])

(***************************************************************************)
(* Presets are saved and loaded as the sender's messages ask, in order: a  *)
(* program change saves exactly when the last save-mode controller before  *)
(* it said so, and nothing else on the bus saves or loads anything.  It    *)
(* takes a line that loses nothing, and a sender that puts no real-time    *)
(* byte inside a message nor between a status and data running on it.      *)
(***************************************************************************)
Undisturbed == lost = 0 /\ ~cutIn /\ (ranOn => realTime = << >>)

SavesAsAsked ==
  Undisturbed => /\ IsPrefix(SavesAndLoads, AskedFor)
                 /\ todo = << >> => SavesAndLoads = AskedFor

(***************************************************************************)
(* A lost byte can leave the parser owed data, so that it takes a status   *)
(* byte for data.  Two messages of two data bytes received whole, each     *)
(* with its status, bring it back in step.                                 *)
(***************************************************************************)
BackInStep ==
  ~ranOn /\ realTime = << >> /\ steadied >= 2 /\ todo = << >>
    => parser.state \in {"idle", "sysex"}

(***************************************************************************)
(* "System Real-Time Messages need to be dealt with immediately"           *)
(* (midi.c:327): each one sent has been handed on, none added.             *)
(***************************************************************************)
RealTimeHandled ==
  LET ticks == SelectSeq(deeds, LAMBDA d : d.kind = "handle"
                                 /\ d.call.status = \hF0 /\ d.call.channel >= 8)
  IN  [i \in 1 .. Len(ticks) |-> \hF0 + ticks[i].call.channel] = realTime
=============================================================================
