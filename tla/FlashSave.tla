----------------------------- MODULE FlashSave -----------------------------
(***************************************************************************)
(* How the settings reach flash and come back: the audio service, whose    *)
(* panel samples ask for a save, algorithm_idle, which erases a page and   *)
(* programs a row, and algorithm_init, which reads it back at power up.    *)
(*                                                                         *)
(* serviceAudioSingle serves an audio block and then calls algorithm_idle. *)
(* While algorithm_idle waits for the flash controller it serves audio     *)
(* blocks itself (NVMOpWithAudioService), so the settings, writeToFlash    *)
(* and the scratch byte of pageBuffer can change under its hands; it is    *)
(* not itself called again.                                                *)
(***************************************************************************)
EXTENDS Algorithm, FiniteSets

CONSTANTS
  EarlyFetch,   \* whether the controller has read the row from pageBuffer
                \* before the processor serves another audio block
  MaxActs,      \* bound: button actions after a power up
  MaxBoots      \* bound: times the power fails

ASSUME FlashAssumption ==
  EarlyFetch \in BOOLEAN /\ MaxActs \in Nat /\ MaxBoots \in Nat

VARIABLES
  pc,          \* "loop", "idle" (block served, algorithm_idle to be called),
               \* "erase" and "write" (waiting for the controller)
  pageBuffer,  \* the row to be programmed, in RAM
  row,         \* what the controller has fetched of it
  flash,       \* the page at PEAKS_NVM_BASE
  acts,        \* history: button actions since power up
  balance,     \* history: actions less releases since power up, by side
  saves,       \* history: erases begun since power up
  boots        \* history: times the power failed

history == <<acts, balance, saves, boots>>
vars == <<algorithmData, pc, pageBuffer, row, flash, history>>

\* The words a row is told by: the first as a code, the others as they are.
kPeaksMagic == 1
Scratch == 2         \* the magic word with a byte of the load loop's in it
Erased == -1         \* every bit set
Nothing == -2

Image(magic, mode, f) ==
  [magic |-> magic, mode |-> mode, f0 |-> f[0], f1 |-> f[1]]
Settings == Image(kPeaksMagic, editMode, function)
Blank == Image(Erased, Erased, [i \in Side |-> Erased])
NotFetched == Image(Nothing, Nothing, [i \in Side |-> Nothing])

Valid(image) == image.magic = kPeaksMagic

(***************************************************************************)
(* What algorithm_init makes of the page: the edit mode, and the functions *)
(* after SetFunction(0, ptr[2]) and then SetFunction(1, ptr[3]); without   *)
(* the magic word, twin mode and two envelopes (what Peaks starts as).     *)
(***************************************************************************)
BootMode(image) == IF Valid(image) THEN image.mode ELSE TWIN

BootFunction(image) ==
  IF ~Valid(image) THEN Zero
  ELSE [i \in Side |-> IF i = 0 /\ ~Shared(image.mode) THEN image.f0 ELSE image.f1]

BootProcessor(image) ==
  IF ~Valid(image) THEN [i \in Side |-> "envelope"]
  ELSE [i \in Side |-> Runs(BootFunction(image)[i], i)]

Init ==
  /\ Cleared
  /\ flash = Blank
  /\ editMode = BootMode(Blank)
  /\ function = BootFunction(Blank)
  /\ processor = BootProcessor(Blank)
  /\ pc = "loop"
  /\ pageBuffer = Blank
  /\ row = NotFetched
  /\ acts = 0 /\ balance = Zero /\ saves = 0
  /\ boots = 0
-----------------------------------------------------------------------------
(***************************************************************************)
(* serviceAudioInternalSingle.  algorithm_step, when it is done early,     *)
(* spins and leaves a value in the first byte of pageBuffer; some blocks   *)
(* also sample the panel.                                                  *)
(***************************************************************************)
algorithm_step ==
  \/ UNCHANGED pageBuffer
  \/ pageBuffer' = [pageBuffer EXCEPT !.magic = Scratch]

Counted(up) ==
  /\ acts' = acts + Cardinality({i \in Side : Pressed(i, up[i])})
  /\ acts' <= MaxActs
  /\ balance' = [i \in Side |->
                   balance[i] + (IF Pressed(i, up[i]) THEN 1 ELSE 0)
                              - (IF up[i] /\ ~lastEncSw[i] THEN 1 ELSE 0)]
  /\ UNCHANGED <<saves, boots>>

SamplePanel ==
  \E up \in [Side -> BOOLEAN], turn \in [Side -> EncoderTurn],
     pot \in [Side -> PotReading] :
    algorithm_UI(up, turn, pot) /\ Counted(up)

InternalService ==
  /\ algorithm_step
  /\ SamplePanel \/ UNCHANGED <<algorithmData, history>>
  /\ UNCHANGED <<row, flash>>

\* serviceAudioSingle, up to its call of algorithm_idle.
ServeBlock == pc = "loop" /\ pc' = "idle" /\ InternalService

\* A block served from within NVMOpWithAudioService.
ServeWhileWaiting ==
  /\ pc \in {"erase", "write"}
  /\ EarlyFetch /\ pc = "write" => row # NotFetched
  /\ InternalService
  /\ UNCHANGED pc
-----------------------------------------------------------------------------
(***************************************************************************)
(* algorithm_idle, from one wait to the next.                              *)
(***************************************************************************)
NothingToSave ==
  /\ pc = "idle" /\ ~writeToFlash
  /\ pc' = "loop"
  /\ UNCHANGED <<algorithmData, pageBuffer, row, flash, history>>

\* Mutant of StartErase: the request is not taken back.
StartEraseAgain ==
  /\ pc = "idle" /\ writeToFlash
  /\ pc' = "erase"
  /\ saves' = saves + 1
  /\ UNCHANGED <<algorithmData, pageBuffer, row, flash, acts, balance, boots>>

StartErase ==
  /\ pc = "idle" /\ writeToFlash
  /\ writeToFlash' = FALSE
  /\ pc' = "erase"
  /\ saves' = saves + 1
  /\ UNCHANGED <<settings, buttons, knobs, pageBuffer, row, flash>>
  /\ UNCHANGED <<acts, balance, boots>>

\* The page is erased; the row is prepared and its programming started.
StartWrite ==
  /\ pc = "erase"
  /\ flash' = Blank
  /\ pageBuffer' = Settings
  /\ row' = NotFetched
  /\ pc' = "write"
  /\ UNCHANGED <<algorithmData, history>>

\* The controller reads the row from RAM.
Fetch ==
  /\ pc = "write" /\ row = NotFetched
  /\ row' = pageBuffer
  /\ UNCHANGED <<algorithmData, pc, pageBuffer, flash, history>>

\* Mutant of EndWrite: the request is taken back when the save is done.
EndWriteClearing ==
  /\ pc = "write" /\ row # NotFetched
  /\ flash' = row
  /\ row' = NotFetched
  /\ pc' = "loop"
  /\ writeToFlash' = FALSE
  /\ UNCHANGED <<settings, buttons, knobs, pageBuffer, history>>

EndWrite ==
  /\ pc = "write" /\ row # NotFetched
  /\ flash' = row
  /\ row' = NotFetched
  /\ pc' = "loop"
  /\ UNCHANGED <<algorithmData, pageBuffer, history>>

(***************************************************************************)
(* The power fails and comes back.  An interrupted erase leaves the old    *)
(* words or none, an interrupted write none or the new ones: the four are  *)
(* one quad word of the flash, programmed at once.                         *)
(***************************************************************************)
Interrupted ==
  CASE pc = "erase" -> {flash, Blank}
    [] pc = "write" /\ row # NotFetched -> {flash, row}
    [] OTHER -> {flash}

PowerFails ==
  /\ boots < MaxBoots
  /\ boots' = boots + 1
  /\ flash' \in Interrupted
  /\ ClearedAgain
  /\ editMode' = BootMode(flash')
  /\ function' = BootFunction(flash')
  /\ processor' = BootProcessor(flash')
  /\ pc' = "loop"
  /\ pageBuffer' = Blank
  /\ row' = NotFetched
  /\ acts' = 0 /\ balance' = Zero /\ saves' = 0

Next ==
  \/ ServeBlock
  \/ ServeWhileWaiting
  \/ NothingToSave
  \/ StartErase
  \/ StartWrite
  \/ Fetch
  \/ EndWrite
  \/ PowerFails

Spec == Init /\ [][Next]_vars

(***************************************************************************)
(* Audio blocks keep coming, the loop keeps serving them, and the flash    *)
(* controller ends what it was told to do.  Nobody need press a button.    *)
(***************************************************************************)
FairSpec ==
  /\ Spec
  /\ WF_vars(ServeBlock) /\ WF_vars(NothingToSave) /\ WF_vars(StartErase)
  /\ WF_vars(StartWrite) /\ WF_vars(Fetch) /\ WF_vars(EndWrite)
-----------------------------------------------------------------------------
Quiet == pc = "loop" /\ ~writeToFlash

(***************************************************************************)
(* However button presses fall between the steps of a save, once none is   *)
(* pending or in progress the flash holds the settings there are now.      *)
(***************************************************************************)
SavedWhenQuiet ==
  Quiet /\ acts > 0 => flash = Settings

\* A press, short or held, counts exactly once: when it is let go, or when
\* it has been held long enough.
OneActPerPress ==
  \A i \in Side :
    balance[i] = IF ~lastEncSw[i] /\ holdCounter[i] >= SLOW_RATE THEN 1 ELSE 0

\* The page wears out by erasing: it is never erased without a button action
\* to save since the last time.
EraseJustified == saves + (IF writeToFlash THEN 1 ELSE 0) <= acts

(***************************************************************************)
(* Every change is written in the end, unless the power fails first; also  *)
(* when the changes come faster than the page can be saved.                *)
(***************************************************************************)
Written ==
  /\ ~writeToFlash
  /\ flash.mode = editMode /\ flash.f0 = function[0] /\ flash.f1 = function[1]

EveryChangeWritten ==
  \A n \in 0 .. MaxBoots :
    writeToFlash /\ boots = n ~> boots # n \/ Written

(***************************************************************************)
(* "attempt to load state from flash" (algorithm.cc:67): a power up once   *)
(* the settings are saved brings back the settings.                        *)
(***************************************************************************)
RestoresSettings ==
  Quiet /\ acts > 0 /\ Valid(flash) =>
    editMode = BootMode(flash) /\ function = BootFunction(flash)
=============================================================================
