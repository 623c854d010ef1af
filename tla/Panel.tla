------------------------------- MODULE Panel -------------------------------
(***************************************************************************)
(* The front panel as the audio service sees it (app.c).  Every service    *)
(* takes the pots' conversions into a sum of the last kNumZsamples of      *)
(* them; every kSlowTimeRatio-th also reads the pins, makes clicks of the  *)
(* encoders' two contacts and calls algorithm_UI with what it has.         *)
(***************************************************************************)
EXTENDS Algorithm, Functions

CONSTANTS
  Hands,           \* what hands do between two samples: a set of records of
                   \* buttons up, quarter turns of the encoders
  Conversion,      \* what a conversion of the pots may give: twelve bits, so
                   \* that twice the sum of eight stays below 65536
  kNumZsamples,    \* conversions in the sum
  kSlowTimeRatio   \* services from one sample of the panel to the next

ASSUME PanelAssumption ==
  /\ Hands \subseteq [up : [Side -> BOOLEAN], quarter : [Side -> {-1, 0, 1}]]
  /\ kNumZsamples \in Nat \ {0} /\ kSlowTimeRatio \in Nat \ {0}
  /\ Conversion \subseteq [Side -> 0 .. MaxParam \div (2 * kNumZsamples)]

VARIABLES
  phase,               \* where each encoder stands between two detents
  lastEncA,
  drift,               \* history: four times the clicks less the quarters
  samples, pos, value, \* adcs.Z: the conversions, the oldest, their sum
  slowTimeCountdown

encoders == <<phase, lastEncA, drift>>
adcs == <<samples, pos, value>>
vars == <<algorithmData, encoders, adcs, slowTimeCountdown>>

\* The contacts at the four quarters from a detent, clockwise: A follows B.
EncA(p) == p \in {0, 1}
EncB(p) == p \in {0, 3}

\* Encoders left alone rest on a detent; APP_Initialize assumes that they do.
Init ==
  /\ Cleared
  /\ editMode = TWIN
  /\ function = Zero
  /\ processor = [i \in Side |-> "envelope"]
  /\ phase = Zero
  /\ drift = Zero
  /\ lastEncA = [i \in Side |-> TRUE]
  /\ samples = [i \in Side |-> [k \in 0 .. kNumZsamples - 1 |-> 0]]
  /\ pos = Zero
  /\ value = Zero
  /\ slowTimeCountdown = kSlowTimeRatio
-----------------------------------------------------------------------------
\* Mutant of ProcessADCZs: the oldest conversion stays in the sum.
ProcessADCZsAdding(raw) ==
  /\ value' = [i \in Side |-> value[i] + raw[i]]
  /\ samples' = [i \in Side |-> [samples[i] EXCEPT ![pos[i]] = raw[i]]]
  /\ pos' = [i \in Side |-> (pos[i] + 1) % kNumZsamples]

ProcessADCZs(raw) ==
  /\ value' = [i \in Side |-> value[i] - samples[i][pos[i]] + raw[i]]
  /\ samples' = [i \in Side |-> [samples[i] EXCEPT ![pos[i]] = raw[i]]]
  /\ pos' = [i \in Side |-> (pos[i] + 1) % kNumZsamples]

\* Nothing is taken from a conversion that is not finished (ARDY39).
ReadAndTriggerADCs ==
  \/ \E raw \in Conversion : ProcessADCZs(raw)
  \/ UNCHANGED adcs

\* Mutant of Click: an edge of A counts whatever B is.
ClickAnyB(p, last) == IF ~EncA(p) /\ last THEN 1 ELSE IF EncA(p) /\ ~last THEN -1 ELSE 0

\* What a sample of an encoder standing at p counts for.
Click(p, last) ==
  IF EncB(p) THEN 0
  ELSE IF ~EncA(p) /\ last THEN 1
  ELSE IF EncA(p) /\ ~last THEN -1
  ELSE 0

(***************************************************************************)
(* A sample of the panel, with at most a quarter turn since the last one:  *)
(* 600 samples a second are 37 detents a second.                           *)
(***************************************************************************)
SamplePanel(h) ==
  LET stands == [i \in Side |-> (phase[i] + h.quarter[i]) % 4]
      enc == [i \in Side |-> Click(stands[i], lastEncA[i])]
      pot == [i \in Side |-> 2 * value'[i]] IN
  /\ phase' = stands
  /\ lastEncA' = [i \in Side |-> EncA(stands[i])]
  /\ drift' = [i \in Side |-> drift[i] + 4 * enc[i] - h.quarter[i]]
  /\ algorithm_UI(h.up, enc, pot)

\* serviceAudioInternalSingle, as far as the panel goes.
Service ==
  /\ ReadAndTriggerADCs
  /\ IF slowTimeCountdown > 1
     THEN /\ slowTimeCountdown' = slowTimeCountdown - 1
          /\ UNCHANGED <<algorithmData, encoders>>
     ELSE /\ slowTimeCountdown' = kSlowTimeRatio
          /\ \E h \in Hands : SamplePanel(h)

Next == Service

Spec == Init /\ [][Next]_vars
-----------------------------------------------------------------------------
(***************************************************************************)
(* An encoder is never a click ahead of the hand that turns it or a click  *)
(* behind, however it is rocked to and fro between detents.                *)
(***************************************************************************)
ClicksFollowHand == \A i \in Side : drift[i] \in -1 .. 2

(***************************************************************************)
(* A pot that creeps is not lost: however slowly it moves, what a sample   *)
(* leaves as taken from it is within the threshold of the conversions it   *)
(* has last given.                                                         *)
(***************************************************************************)
PotTracked ==
  slowTimeCountdown = kSlowTimeRatio =>
    \A i \in Side :
      Distance(2 * SumFunction(samples[i]), potValue[i]) < PotThreshold

(***************************************************************************)
(* With one processor in focus no knob reaches the other, not even in the  *)
(* sample whose button press moves the focus.                              *)
(***************************************************************************)
FocusOnly == [][OtherLeftAlone]_vars

(***************************************************************************)
(* The focused processor's parameter moves by clicks from where it was: an *)
(* encoder whose own position has wandered in other modes makes no jump.   *)
(***************************************************************************)
NoJumpInFocus ==
  [][~Shared(editMode') =>
       \A k \in {0, 1} :
         Distance(processorParams[Edited(editMode')][k],
                  processorParams'[Edited(editMode')][k]) <= kEncoderScale]_vars
=============================================================================
