----------------------------- MODULE Algorithm -----------------------------
(***************************************************************************)
(* The example algorithm's front panel (algorithm.cc): two encoders with   *)
(* buttons and two pots edit the settings of two Peaks processors.  The    *)
(* audio service samples the panel SLOW_RATE times a second and passes     *)
(* what it reads to algorithm_UI, which is one action here; who calls it,  *)
(* and when, is the business of the module that extends this one.          *)
(***************************************************************************)
EXTENDS Integers, Sequences

CONSTANTS
  SLOW_RATE,      \* panel samples after which a press becomes a hold
  MaxHold,        \* bound: the longest a button is held, in samples
  EncoderTurn,    \* what a sample may read from an encoder
  PotReading,     \* what a sample may read from a pot
  kEncoderScale,  \* how far one click moves a parameter
  PotThreshold,   \* how far a pot must move to count
  MaxParam        \* the largest parameter, 65535

ASSUME AlgorithmAssumption ==
  /\ SLOW_RATE \in Nat \ {0} /\ MaxHold \in Nat /\ MaxHold > SLOW_RATE
  /\ EncoderTurn \subseteq {-1, 0, 1} /\ 0 \in EncoderTurn
  /\ kEncoderScale \in Nat /\ PotThreshold \in Nat \ {0} /\ MaxParam \in Nat
  /\ PotReading \subseteq 0 .. MaxParam

VARIABLES
  editMode,         \* settings.edit_mode
  function,         \* settings.function
  processor,        \* what each Peaks processor was last told to be
  lastEncSw,        \* whether each button was up at the last sample
  holdCounter,      \* how long each has been down
  writeToFlash,     \* whether the settings are to be saved
  encoderValue, potValue,
  processorParams   \* the parameters each processor was last given

settings == <<editMode, function, processor>>
buttons == <<lastEncSw, holdCounter>>
knobs == <<encoderValue, potValue, processorParams>>
algorithmData == <<settings, buttons, writeToFlash, knobs>>

TWIN == 0
SPLIT == 1
FIRST == 2
SECOND == 3

Side == {0, 1}            \* left and right; also the two processors
Param == 0 .. 3

function_table_ ==
  << <<"envelope", "envelope">>, <<"lfo", "lfo">>, <<"tap_lfo", "tap_lfo">>,
     <<"bass_drum", "snare_drum">>, <<"sequencer", "sequencer">>,
     <<"shaper", "shaper">>, <<"randomizer", "randomizer">>,
     <<"fm_drum", "fm_drum">> >>
Runs(f, i) == function_table_[f + 1][i + 1]

Shared(mode) == mode \in {TWIN, SPLIT}
Edited(mode) == mode - FIRST
Clamp(v) == IF v < 0 THEN 0 ELSE IF v > MaxParam THEN MaxParam ELSE v
Distance(a, b) == IF a < b THEN b - a ELSE a - b

\* Mutant of SetFunction: in a shared mode only the settings are changed.
SetFunctionUntold(mode, i, f) ==
  /\ function' = [k \in Side |-> IF Shared(mode) \/ k = i THEN f ELSE function[k]]
  /\ processor' = [k \in Side |-> IF k = i THEN Runs(f, k) ELSE processor[k]]

\* SetFunction, under the edit mode it is called in.
SetFunction(mode, i, f) ==
  LET told == IF Shared(mode) THEN Side ELSE {i} IN
  /\ function' = [k \in Side |-> IF k \in told THEN f ELSE function[k]]
  /\ processor' = [k \in Side |-> IF k \in told THEN Runs(f, k) ELSE processor[k]]
-----------------------------------------------------------------------------
(***************************************************************************)
(* The buttons.  "up" is the sample, TRUE for a button that is not down.   *)
(* A press counts when it is let go before SLOW_RATE samples; held that    *)
(* long it counts there and then, and letting go no more.                  *)
(***************************************************************************)
\* Mutant of ShortPress: letting go of a hold counts again.
ShortPressAlways(i, up) == up /\ ~lastEncSw[i]

ShortPress(i, up) == up /\ ~lastEncSw[i] /\ holdCounter[i] < SLOW_RATE

HeldFor(i, up) ==
  IF up THEN holdCounter[i]
  ELSE IF lastEncSw[i] THEN 1 ELSE holdCounter[i] + 1

LongPress(i, up) == ~up /\ HeldFor(i, up) = SLOW_RATE

Pressed(i, up) == ShortPress(i, up) \/ LongPress(i, up)

OtherOfPair(mode) == IF mode % 2 = 0 THEN mode + 1 ELSE mode - 1   \* ^= 1

ModeAfter(up) ==
  IF ShortPress(0, up) THEN OtherOfPair(editMode)
  ELSE IF LongPress(0, up) THEN (IF Shared(editMode) THEN FIRST ELSE TWIN)
  ELSE editMode

NextOfFour(f) == IF f % 4 = 3 THEN f - 3 ELSE f + 1
OtherBank(f) == IF f < 4 THEN f + 4 ELSE f - 4                     \* ^ 4

LeftButton(up) == editMode' = ModeAfter(up)

RightButton(mode, up) ==
  LET f == IF mode = SECOND THEN function[1] ELSE function[0] IN
  \/ ShortPress(1, up) /\ SetFunction(mode, Edited(mode), NextOfFour(f))
  \/ LongPress(1, up) /\ SetFunction(mode, Edited(mode), OtherBank(f))
  \/ ~Pressed(1, up) /\ UNCHANGED <<function, processor>>
-----------------------------------------------------------------------------
(***************************************************************************)
(* The encoders turn parameters 0 and 1, the pots 2 and 3; in split mode   *)
(* the encoders have the first processor's 0 and 1, the pots the second's. *)
(***************************************************************************)
EncoderAfter(i, turn) == Clamp(encoderValue[i] + kEncoderScale * turn[i])

PotMoved(i, pot) == Distance(pot[i], potValue[i]) >= PotThreshold

\* Mutant of EncoderHas: in the focused modes the encoders have both.
EncoderHasBoth(mode, p, k) == k < 2 /\ (mode # SPLIT \/ p = 0)

EncoderHas(mode, p, k) ==
  k < 2 /\ (mode = TWIN \/ (mode = SPLIT /\ p = 0) \/ p = Edited(mode))

PotHas(mode, p, k) ==
  IF mode = SPLIT THEN p = 1 /\ k < 2
                  ELSE k >= 2 /\ (mode = TWIN \/ p = Edited(mode))

\* Mutant of Turned: the encoder's own position in every mode.
TurnedAbsolute(mode, p, k, turn) == EncoderAfter(k, turn)

\* Where a turned encoder leaves a parameter it has.
Turned(mode, p, k, turn) ==
  IF Shared(mode) THEN EncoderAfter(k, turn)
  ELSE Clamp(processorParams[p][k] + kEncoderScale * turn[k])

Knobs(mode, turn, pot) ==
  /\ encoderValue' = [i \in Side |-> EncoderAfter(i, turn)]
  /\ potValue' = [i \in Side |-> IF PotMoved(i, pot) THEN pot[i] ELSE potValue[i]]
  /\ processorParams' = [p \in Side |-> [k \in Param |->
       IF EncoderHas(mode, p, k) /\ turn[k] # 0
       THEN Turned(mode, p, k, turn)
       ELSE IF PotHas(mode, p, k) /\ PotMoved(k % 2, pot) THEN pot[k % 2]
       ELSE processorParams[p][k]]]

\* The whole of algorithm_UI, for one sample of the panel.
algorithm_UI(up, turn, pot) ==
  LET mode == ModeAfter(up[0]) IN
  /\ \A i \in Side : HeldFor(i, up[i]) <= MaxHold
  /\ LeftButton(up[0])
  /\ RightButton(mode, up[1])
  /\ holdCounter' = [i \in Side |-> HeldFor(i, up[i])]
  /\ lastEncSw' = up
  /\ writeToFlash' = (writeToFlash \/ \E i \in Side : Pressed(i, up[i]))
  /\ Knobs(mode, turn, pot)

\* algorithm_init's memset, and the two buttons up.
Zero == [i \in Side |-> 0]
AllUp == [i \in Side |-> TRUE]
NoParams == [p \in Side |-> [k \in Param |-> 0]]

Cleared ==
  /\ lastEncSw = AllUp /\ holdCounter = Zero /\ writeToFlash = FALSE
  /\ encoderValue = Zero /\ potValue = Zero /\ processorParams = NoParams

ClearedAgain ==
  /\ lastEncSw' = AllUp /\ holdCounter' = Zero /\ writeToFlash' = FALSE
  /\ encoderValue' = Zero /\ potValue' = Zero /\ processorParams' = NoParams
-----------------------------------------------------------------------------
(***************************************************************************)
(* What the processors run is what the settings say they run, whatever     *)
(* sequence of modes and functions led there, and after a restore.         *)
(***************************************************************************)
ProcessorsFollow == \A i \in Side : processor[i] = Runs(function[i], i)

\* A step that leaves one processor in focus has left the other one alone.
OtherLeftAlone ==
  \A p \in Side :
    ~Shared(editMode') /\ p # Edited(editMode') =>
      UNCHANGED <<processorParams[p], function[p], processor[p]>>
=============================================================================
