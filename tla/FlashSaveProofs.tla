-------------------------- MODULE FlashSaveProofs --------------------------
(***************************************************************************)
(* Proofs about FlashSave, for every hold time and every number of button  *)
(* actions and power failures.  What is saved rests on one assumption,     *)
(* EarlyFetch: without it the load loop can scribble on a row the flash    *)
(* controller is yet to read.                                              *)
(***************************************************************************)
EXTENDS FlashSave, FiniteSetTheorems, TLAPS

\* A row that looks valid holds a mode and two functions.
Row == {image \in [magic : Int, mode : Int, f0 : Int, f1 : Int] :
          Valid(image) =>
            image.mode \in 0 .. 3 /\ image.f0 \in 0 .. 7 /\ image.f1 \in 0 .. 7}

SettingsOK == editMode \in 0 .. 3 /\ function \in [Side -> 0 .. 7]

ButtonsOK ==
  /\ lastEncSw \in [Side -> BOOLEAN] /\ holdCounter \in [Side -> Nat]
  /\ writeToFlash \in BOOLEAN

HistoryOK ==
  /\ acts \in Nat /\ saves \in Nat /\ boots \in Nat
  /\ balance \in [Side -> Int]

TypeOK ==
  /\ SettingsOK /\ ButtonsOK /\ HistoryOK
  /\ pc \in {"loop", "idle", "erase", "write"}
  /\ pageBuffer \in Row /\ row \in Row /\ flash \in Row

\* The inductive invariant but for what is being saved.
PanelInv ==
  /\ TypeOK
  /\ ProcessorsFollow
  /\ OneActPerPress
  /\ EraseJustified

\* Where the settings are while nobody asks for a save: in the flash, to be
\* put into the row, in the row, or in what the controller has of it.
UpToDate ==
  acts > 0 /\ ~writeToFlash =>
    /\ pc \in {"loop", "idle"} => flash = Settings
    /\ pc = "write" =>
         IF row = NotFetched THEN pageBuffer = Settings ELSE row = Settings

IInv == PanelInv /\ (EarlyFetch => UpToDate)

USE AlgorithmAssumption, FlashAssumption
-----------------------------------------------------------------------------
(* Sampling the panel. *)

\* SetFunction tells every processor whose function it sets.
LEMMA SetFunctionFollows ==
  ASSUME NEW mode, NEW i, NEW f \in 0 .. 7, SetFunction(mode, i, f),
         function \in [Side -> 0 .. 7], ProcessorsFollow
  PROVE  function' \in [Side -> 0 .. 7] /\ ProcessorsFollow'
BY DEF SetFunction, ProcessorsFollow

\* The buttons lead from modes to modes and from functions to functions.
LEMMA SettingsStep ==
  ASSUME SettingsOK, ProcessorsFollow, NEW up, LeftButton(up[0]),
         RightButton(ModeAfter(up[0]), up[1])
  PROVE  SettingsOK' /\ ProcessorsFollow'
<1>1. editMode' \in 0 .. 3
  <2>1. editMode \in {0, 1, 2, 3}
    BY DEF SettingsOK
  <2>2. OtherOfPair(editMode) \in 0 .. 3
    BY <2>1 DEF OtherOfPair
  <2> QED
    BY <2>1, <2>2 DEF LeftButton, ModeAfter, FIRST, TWIN
<1> DEFINE mode == ModeAfter(up[0])
           f == IF mode = SECOND THEN function[1] ELSE function[0]
<1>2. f \in 0 .. 7
  BY DEF SettingsOK, Side
<1>3. NextOfFour(f) \in 0 .. 7 /\ OtherBank(f) \in 0 .. 7
  <2>1. f \in {0, 1, 2, 3, 4, 5, 6, 7}
    BY <1>2
  <2> HIDE DEF f
  <2> QED
    BY <2>1 DEF NextOfFour, OtherBank
<1>4. function' \in [Side -> 0 .. 7] /\ ProcessorsFollow'
  <2>1. \/ SetFunction(mode, Edited(mode), NextOfFour(f))
        \/ SetFunction(mode, Edited(mode), OtherBank(f))
        \/ UNCHANGED <<function, processor>>
    BY DEF RightButton
  <2> HIDE DEF f, mode
  <2>2. CASE UNCHANGED <<function, processor>>
    BY <2>2 DEF ProcessorsFollow, SettingsOK
  <2> QED
    BY <1>3, <2>1, <2>2, SetFunctionFollows DEF SettingsOK
<1> QED
  BY <1>1, <1>4 DEF SettingsOK

\* Nothing pressed, nothing changed.
LEMMA SettingsKept ==
  ASSUME NEW up, LeftButton(up[0]), RightButton(ModeAfter(up[0]), up[1]),
         ~Pressed(0, up[0]), ~Pressed(1, up[1])
  PROVE  UNCHANGED settings
BY DEF LeftButton, RightButton, ModeAfter, Pressed, settings

\* How many buttons act in a sample.
LEMMA ActsCounted ==
  ASSUME NEW up
  PROVE  LET n == Cardinality({i \in Side : Pressed(i, up[i])}) IN
         /\ n \in Nat
         /\ (\E i \in Side : Pressed(i, up[i])) => n >= 1
         /\ ~(\E i \in Side : Pressed(i, up[i])) => n = 0
<1> DEFINE P == {i \in Side : Pressed(i, up[i])}
<1>1. IsFiniteSet(Side)
  <2>1. IsFiniteSet(0 .. 1)
    BY 0 \in Int, 1 \in Int, FS_Interval, Zenon
  <2>2. Side = 0 .. 1
    BY DEF Side
  <2> QED
    BY <2>1, <2>2
<1>2. P \subseteq Side
  OBVIOUS
<1>3. IsFiniteSet(P)
  BY <1>1, <1>2, FS_Subset
<1>4. (\E i \in Side : Pressed(i, up[i])) <=> P # {}
  OBVIOUS
<1> HIDE DEF P
<1>5. Cardinality(P) \in Nat /\ (Cardinality(P) = 0 <=> P = {})
  BY <1>3, FS_CardinalityType, FS_EmptySet
<1> QED
  BY <1>4, <1>5 DEF P

\* What a sample does to one button's count.
LEMMA OneButton ==
  ASSUME NEW i, NEW up \in BOOLEAN, lastEncSw[i] \in BOOLEAN,
         holdCounter[i] \in Nat, balance[i] \in Int,
         balance[i] = IF ~lastEncSw[i] /\ holdCounter[i] >= SLOW_RATE THEN 1 ELSE 0
  PROVE  /\ HeldFor(i, up) \in Nat
         /\ balance[i] + (IF Pressed(i, up) THEN 1 ELSE 0)
                       - (IF up /\ ~lastEncSw[i] THEN 1 ELSE 0)
              = IF ~up /\ HeldFor(i, up) >= SLOW_RATE THEN 1 ELSE 0
<1> DEFINE h == holdCounter[i]
           b == balance[i]
<1>0. h \in Nat /\ SLOW_RATE \in Nat /\ SLOW_RATE > 0
  OBVIOUS
<1>1. CASE up = TRUE /\ lastEncSw[i] = TRUE
  <2>1. ~Pressed(i, up) /\ HeldFor(i, up) = h
    BY <1>1 DEF Pressed, ShortPress, LongPress, HeldFor
  <2> QED
    BY <1>0, <1>1, <2>1
<1>2. CASE up = TRUE /\ lastEncSw[i] = FALSE
  <2>1. (Pressed(i, up) <=> h < SLOW_RATE) /\ HeldFor(i, up) = h
    BY <1>2 DEF Pressed, ShortPress, LongPress, HeldFor
  <2>2. b = IF h >= SLOW_RATE THEN 1 ELSE 0
    BY <1>2
  <2>3. (IF up /\ ~lastEncSw[i] THEN 1 ELSE 0) = 1
    BY <1>2
  <2>4. (IF ~up /\ HeldFor(i, up) >= SLOW_RATE THEN 1 ELSE 0) = 0
    BY <1>2
  <2>5. b + (IF Pressed(i, up) THEN 1 ELSE 0) = 1
    BY <1>0, <2>1, <2>2
  <2> QED
    BY <1>0, <2>1, <2>3, <2>4, <2>5
<1>3. CASE up = FALSE /\ lastEncSw[i] = TRUE
  <2>1. HeldFor(i, up) = 1 /\ (Pressed(i, up) <=> 1 = SLOW_RATE)
    BY <1>3 DEF Pressed, ShortPress, LongPress, HeldFor
  <2>2. b = 0
    BY <1>3
  <2> QED
    BY <1>0, <1>3, <2>1, <2>2
<1>4. CASE up = FALSE /\ lastEncSw[i] = FALSE
  <2>1. HeldFor(i, up) = h + 1 /\ (Pressed(i, up) <=> h + 1 = SLOW_RATE)
    BY <1>4 DEF Pressed, ShortPress, LongPress, HeldFor
  <2>2. b = IF h >= SLOW_RATE THEN 1 ELSE 0
    BY <1>4
  <2> QED
    BY <1>0, <1>4, <2>1, <2>2
<1> QED
  BY <1>1, <1>2, <1>3, <1>4

\* Sampling the panel keeps the types and every button's count.
LEMMA ButtonsStep ==
  ASSUME ButtonsOK, HistoryOK, OneActPerPress,
         NEW up \in [Side -> BOOLEAN], NEW turn, NEW pot,
         algorithm_UI(up, turn, pot), Counted(up)
  PROVE  ButtonsOK' /\ HistoryOK' /\ OneActPerPress'
<1>1. ASSUME NEW i \in Side
      PROVE  /\ HeldFor(i, up[i]) \in Nat
             /\ balance[i] + (IF Pressed(i, up[i]) THEN 1 ELSE 0)
                           - (IF up[i] /\ ~lastEncSw[i] THEN 1 ELSE 0)
                  = IF ~up[i] /\ HeldFor(i, up[i]) >= SLOW_RATE THEN 1 ELSE 0
  <2>1. /\ up[i] \in BOOLEAN /\ lastEncSw[i] \in BOOLEAN
        /\ holdCounter[i] \in Nat /\ balance[i] \in Int
    BY DEF ButtonsOK, HistoryOK
  <2> QED
    BY <2>1, OneButton DEF OneActPerPress
<1>2. /\ lastEncSw' = up
      /\ holdCounter' = [i \in Side |-> HeldFor(i, up[i])]
      /\ writeToFlash' = (writeToFlash \/ \E i \in Side : Pressed(i, up[i]))
  BY DEF algorithm_UI
<1>3. balance' = [i \in Side |->
                    balance[i] + (IF Pressed(i, up[i]) THEN 1 ELSE 0)
                               - (IF up[i] /\ ~lastEncSw[i] THEN 1 ELSE 0)]
  BY DEF Counted
<1>4. ButtonsOK'
  <2>1. writeToFlash' \in BOOLEAN
    BY <1>2
  <2>2. holdCounter' \in [Side -> Nat]
    BY <1>1, <1>2
  <2> QED
    BY <1>2, <2>1, <2>2 DEF ButtonsOK
<1>5. \A i \in Side : balance'[i] =
        IF ~lastEncSw'[i] /\ holdCounter'[i] >= SLOW_RATE THEN 1 ELSE 0
  BY <1>1, <1>2, <1>3, Zenon
<1>6. HistoryOK'
  <2>1. balance' \in [Side -> Int]
    <3>1. \A i \in Side : balance'[i] \in Int
      BY <1>5
    <3> QED
      BY <1>3, <3>1
  <2>2. acts' \in Nat
    BY ActsCounted DEF Counted, HistoryOK
  <2> QED
    BY <2>1, <2>2 DEF HistoryOK, Counted
<1> QED
  BY <1>4, <1>5, <1>6 DEF OneActPerPress

\* Every request for a save is some button's action.
LEMMA EraseStep ==
  ASSUME ButtonsOK, HistoryOK, EraseJustified, NEW up, NEW turn, NEW pot,
         algorithm_UI(up, turn, pot), Counted(up)
  PROVE  EraseJustified'
<1> DEFINE n == Cardinality({i \in Side : Pressed(i, up[i])})
           p == \E i \in Side : Pressed(i, up[i])
<1>1. n \in Nat /\ (p => n >= 1)
  BY ActsCounted
<1>2. acts' = acts + n /\ saves' = saves /\ writeToFlash' = (writeToFlash \/ p)
  BY DEF algorithm_UI, Counted
<1> HIDE DEF n, p
<1>3. acts \in Nat /\ saves \in Nat /\ writeToFlash \in BOOLEAN
  BY DEF ButtonsOK, HistoryOK
<1>4. CASE p
  <2>1. saves <= acts
    BY <1>3 DEF EraseJustified
  <2> QED
    BY <1>1, <1>2, <1>3, <1>4, <2>1 DEF EraseJustified
<1>5. CASE ~p
  <2>1. writeToFlash' = writeToFlash
    BY <1>2, <1>3, <1>5
  <2> QED
    BY <1>1, <1>2, <1>3, <2>1 DEF EraseJustified
<1> QED
  BY <1>4, <1>5
-----------------------------------------------------------------------------
(* The rows. *)

LEMMA BlankIsRow == Blank \in Row /\ NotFetched \in Row
BY DEF Blank, NotFetched, Row, Image, Valid, kPeaksMagic, Erased, Nothing, Side

LEMMA SettingsIsRow == ASSUME SettingsOK PROVE Settings \in Row
<1>1. function[0] \in 0 .. 7 /\ function[1] \in 0 .. 7 /\ editMode \in 0 .. 3
  BY DEF SettingsOK, Side
<1> QED
  BY <1>1 DEF Settings, Row, Image, Valid, kPeaksMagic

\* What the load loop leaves in pageBuffer does not look valid.
LEMMA StepRow == ASSUME pageBuffer \in Row, algorithm_step PROVE pageBuffer' \in Row
BY DEF algorithm_step, Row, Valid, kPeaksMagic, Scratch

\* Booting from any row there can be gives settings in range, and processors
\* that follow them.
LEMMA BootRow ==
  ASSUME NEW image \in Row
  PROVE  /\ BootMode(image) \in 0 .. 3
         /\ BootFunction(image) \in [Side -> 0 .. 7]
         /\ \A i \in Side :
              BootProcessor(image)[i] = Runs(BootFunction(image)[i], i)
<1>1. BootMode(image) \in 0 .. 3
  BY DEF BootMode, Row, TWIN
<1>2. BootFunction(image) \in [Side -> 0 .. 7]
  BY DEF BootFunction, Row, Zero
<1>3. ASSUME NEW i \in Side
      PROVE  BootProcessor(image)[i] = Runs(BootFunction(image)[i], i)
  <2>1. CASE Valid(image)
    BY <2>1 DEF BootProcessor
  <2>2. CASE ~Valid(image)
    <3>1. Runs(0, i) = "envelope"
      BY DEF Runs, function_table_, Side
    <3>2. BootFunction(image)[i] = 0
      BY <2>2 DEF BootFunction, Zero
    <3>3. BootProcessor(image)[i] = "envelope"
      BY <2>2 DEF BootProcessor
    <3> QED
      BY <3>1, <3>2, <3>3
  <2> QED
    BY <2>1, <2>2
<1> QED
  BY <1>1, <1>2, <1>3
-----------------------------------------------------------------------------
(* The invariant, action by action. *)

LEMMA InvInit == Init => IInv
<1> SUFFICES ASSUME Init PROVE IInv
  OBVIOUS
<1>1. SettingsOK /\ ProcessorsFollow
  BY BlankIsRow, BootRow DEF Init, SettingsOK, ProcessorsFollow
<1>2. ButtonsOK
  BY DEF Init, Cleared, ButtonsOK, AllUp, Zero
<1>3. HistoryOK
  BY DEF Init, HistoryOK, Zero
<1>4. OneActPerPress
  BY DEF Init, Cleared, OneActPerPress, AllUp, Zero
<1>5. EraseJustified
  BY DEF Init, Cleared, EraseJustified
<1>6. TypeOK
  BY <1>1, <1>2, <1>3, BlankIsRow DEF Init, TypeOK
<1>7. UpToDate
  BY DEF Init, UpToDate
<1> QED
  BY <1>1, <1>4, <1>5, <1>6, <1>7 DEF IInv, PanelInv

\* An audio block served, whoever serves it: the settings change only with a
\* request to save them.
LEMMA ServiceStep ==
  ASSUME PanelInv, InternalService
  PROVE  /\ SettingsOK' /\ ButtonsOK' /\ HistoryOK' /\ pageBuffer' \in Row
         /\ ProcessorsFollow' /\ OneActPerPress' /\ EraseJustified'
         /\ UNCHANGED <<row, flash>>
         /\ ~writeToFlash' => UNCHANGED <<settings, acts>> /\ ~writeToFlash
<1> USE DEF PanelInv, TypeOK
<1>1. pageBuffer' \in Row /\ UNCHANGED <<row, flash>>
  BY StepRow DEF InternalService
<1>2. CASE UNCHANGED <<algorithmData, history>>
  <2>1. UNCHANGED <<settings, buttons, writeToFlash, acts, balance, saves, boots>>
    BY <1>2 DEF algorithmData, history
  <2>2. /\ UNCHANGED <<editMode, function, processor, lastEncSw, holdCounter>>
        /\ UNCHANGED <<writeToFlash, acts, balance, saves, boots>>
    BY <2>1 DEF settings, buttons
  <2> QED
    BY <1>1, <2>1, <2>2 DEF SettingsOK, ButtonsOK, HistoryOK, ProcessorsFollow,
                            OneActPerPress, EraseJustified
<1>3. CASE SamplePanel
  <2>1. PICK up \in [Side -> BOOLEAN], turn \in [Side -> EncoderTurn],
             pot \in [Side -> PotReading] :
          algorithm_UI(up, turn, pot) /\ Counted(up)
    BY <1>3 DEF SamplePanel
  <2>2. LeftButton(up[0]) /\ RightButton(ModeAfter(up[0]), up[1])
    BY <2>1 DEF algorithm_UI
  <2>3. SettingsOK' /\ ProcessorsFollow'
    BY <2>2, SettingsStep
  <2>4. ButtonsOK' /\ HistoryOK' /\ OneActPerPress'
    BY <2>1, ButtonsStep
  <2>5. EraseJustified'
    BY <2>1, EraseStep
  <2>6. ASSUME ~writeToFlash'
        PROVE  UNCHANGED <<settings, acts>> /\ ~writeToFlash
    <3>1. ~writeToFlash /\ \A i \in Side : ~Pressed(i, up[i])
      BY <2>1, <2>6 DEF algorithm_UI
    <3>2. ~Pressed(0, up[0]) /\ ~Pressed(1, up[1])
      BY <3>1 DEF Side
    <3>3. UNCHANGED settings
      BY <2>2, <3>2, SettingsKept
    <3>4. acts' = acts
      BY <2>1, <3>1, ActsCounted DEF Counted, HistoryOK
    <3> QED
      BY <3>1, <3>3, <3>4
  <2> QED
    BY <1>1, <2>3, <2>4, <2>5, <2>6
<1> QED
  BY <1>2, <1>3 DEF InternalService

\* Settings depend on the settings alone.
LEMMA SettingsSame == ASSUME UNCHANGED settings PROVE Settings' = Settings
BY DEF settings, Settings, Image

LEMMA InvServeBlock == ASSUME IInv, ServeBlock PROVE IInv'
<1>1. PanelInv /\ InternalService /\ pc = "loop" /\ pc' = "idle"
  BY DEF IInv, ServeBlock
<1>2. PanelInv'
  BY <1>1, ServiceStep DEF PanelInv, TypeOK
<1>3. ASSUME UpToDate PROVE UpToDate'
  <2> SUFFICES ASSUME acts' > 0, ~writeToFlash'
               PROVE  flash' = Settings'
    BY <1>1 DEF UpToDate
  <2>1. UNCHANGED <<settings, acts, flash>> /\ ~writeToFlash
    BY <1>1, ServiceStep
  <2> QED
    BY <1>1, <1>3, <2>1, SettingsSame DEF UpToDate
<1> QED
  BY <1>2, <1>3 DEF IInv

\* A change while a save is under way leaves its row behind the settings, and
\* a request to do it again.
LEMMA InvServeWhileWaiting == ASSUME IInv, ServeWhileWaiting PROVE IInv'
<1>1. /\ PanelInv /\ InternalService /\ pc \in {"erase", "write"} /\ pc' = pc
      /\ EarlyFetch /\ pc = "write" => row # NotFetched
  BY DEF IInv, ServeWhileWaiting
<1>2. PanelInv'
  BY <1>1, ServiceStep DEF PanelInv, TypeOK
<1>3. ASSUME EarlyFetch, UpToDate PROVE UpToDate'
  <2> SUFFICES ASSUME acts' > 0, ~writeToFlash', pc = "write"
               PROVE  row' # NotFetched /\ row' = Settings'
    BY <1>1 DEF UpToDate, NotFetched
  <2>1. UNCHANGED <<settings, acts, row>> /\ ~writeToFlash
    BY <1>1, ServiceStep
  <2> QED
    BY <1>1, <1>3, <2>1, SettingsSame DEF UpToDate
<1> QED
  BY <1>2, <1>3 DEF IInv

\* What the steps of algorithm_idle leave alone.
LEMMA PanelKept ==
  ASSUME PanelInv, UNCHANGED <<algorithmData, history>>,
         pc' \in {"loop", "idle", "erase", "write"},
         pageBuffer' \in Row, row' \in Row, flash' \in Row
  PROVE  PanelInv'
<1>1. /\ UNCHANGED <<editMode, function, processor, lastEncSw, holdCounter>>
      /\ UNCHANGED <<writeToFlash, acts, balance, saves, boots>>
  BY DEF algorithmData, settings, buttons, history
<1> QED
  BY <1>1 DEF PanelInv, TypeOK, SettingsOK, ButtonsOK, HistoryOK,
              ProcessorsFollow, OneActPerPress, EraseJustified

LEMMA InvNothingToSave == ASSUME IInv, NothingToSave PROVE IInv'
<1>1. PanelInv'
  BY PanelKept DEF IInv, PanelInv, TypeOK, NothingToSave
<1>2. UpToDate => UpToDate'
  BY SettingsSame DEF NothingToSave, UpToDate, algorithmData, history
<1> QED
  BY <1>1, <1>2 DEF IInv

LEMMA InvStartErase == ASSUME IInv, StartErase PROVE IInv'
<1>1. PanelInv
  BY DEF IInv
<1>2. /\ UNCHANGED <<editMode, function, processor, lastEncSw, holdCounter>>
      /\ UNCHANGED <<pageBuffer, row, flash, acts, balance, boots>>
      /\ writeToFlash = TRUE /\ writeToFlash' = FALSE /\ saves' = saves + 1
      /\ pc' = "erase"
  BY <1>1 DEF StartErase, settings, buttons, PanelInv, TypeOK, ButtonsOK
<1>3. TypeOK'
  <2>1. saves' \in Nat
    BY <1>1, <1>2 DEF PanelInv, TypeOK, HistoryOK
  <2>2. SettingsOK' /\ ButtonsOK' /\ HistoryOK'
    BY <1>1, <1>2, <2>1 DEF PanelInv, TypeOK, SettingsOK, ButtonsOK, HistoryOK
  <2> QED
    BY <1>1, <1>2, <2>2 DEF PanelInv, TypeOK
<1>4. ProcessorsFollow' /\ OneActPerPress'
  BY <1>1, <1>2 DEF PanelInv, ProcessorsFollow, OneActPerPress
<1>5. EraseJustified'
  BY <1>1, <1>2 DEF PanelInv, TypeOK, HistoryOK, EraseJustified
<1>6. UpToDate'
  BY <1>2 DEF UpToDate
<1> QED
  BY <1>3, <1>4, <1>5, <1>6 DEF IInv, PanelInv

LEMMA InvStartWrite == ASSUME IInv, StartWrite PROVE IInv'
<1>1. PanelInv
  BY DEF IInv
<1>2. PanelInv'
  BY <1>1, PanelKept, BlankIsRow, SettingsIsRow DEF PanelInv, TypeOK, StartWrite
<1>3. UpToDate'
  <2>1. Settings' = Settings
    BY SettingsSame DEF StartWrite, algorithmData
  <2> QED
    BY <2>1 DEF StartWrite, UpToDate
<1> QED
  BY <1>2, <1>3 DEF IInv

LEMMA InvFetch == ASSUME IInv, Fetch PROVE IInv'
<1>1. PanelInv
  BY DEF IInv
<1>2. PanelInv'
  BY <1>1, PanelKept DEF PanelInv, TypeOK, Fetch
<1>3. Settings' = Settings /\ UNCHANGED <<acts, writeToFlash>>
  BY SettingsSame DEF Fetch, algorithmData, history
<1>4. UpToDate => UpToDate'
  BY <1>3 DEF Fetch, UpToDate
<1> QED
  BY <1>2, <1>4 DEF IInv

LEMMA InvEndWrite == ASSUME IInv, EndWrite PROVE IInv'
<1>1. PanelInv
  BY DEF IInv
<1>2. PanelInv'
  BY <1>1, PanelKept, BlankIsRow DEF PanelInv, TypeOK, EndWrite
<1>3. Settings' = Settings /\ UNCHANGED <<acts, writeToFlash>>
  BY SettingsSame DEF EndWrite, algorithmData, history
<1>4. UpToDate => UpToDate'
  BY <1>3 DEF EndWrite, UpToDate
<1> QED
  BY <1>2, <1>4 DEF IInv

\* What an interrupted save leaves is a row as well.
LEMMA InvPowerFails == ASSUME IInv, PowerFails PROVE IInv'
<1>1. PanelInv
  BY DEF IInv
<1>2. flash' \in Row
  BY <1>1, BlankIsRow DEF PowerFails, Interrupted, PanelInv, TypeOK
<1>3. SettingsOK' /\ ProcessorsFollow'
  <2>1. /\ editMode' = BootMode(flash') /\ function' = BootFunction(flash')
        /\ processor' = BootProcessor(flash')
    BY DEF PowerFails
  <2> QED
    BY <1>2, <2>1, BootRow DEF SettingsOK, ProcessorsFollow
<1>4. ButtonsOK'
  BY DEF PowerFails, ClearedAgain, ButtonsOK, AllUp, Zero
<1>5. HistoryOK'
  BY <1>1 DEF PowerFails, HistoryOK, Zero, PanelInv, TypeOK
<1>6. OneActPerPress'
  BY DEF PowerFails, ClearedAgain, OneActPerPress, AllUp, Zero
<1>7. EraseJustified'
  BY DEF PowerFails, ClearedAgain, EraseJustified
<1>8. TypeOK'
  BY <1>2, <1>3, <1>4, <1>5, BlankIsRow DEF PowerFails, TypeOK
<1>9. UpToDate'
  BY DEF PowerFails, UpToDate
<1> QED
  BY <1>3, <1>6, <1>7, <1>8, <1>9 DEF IInv, PanelInv

LEMMA InvNext == ASSUME IInv, [Next]_vars PROVE IInv'
<1>1. CASE UNCHANGED vars
  <2>1. PanelInv'
    BY <1>1, PanelKept DEF IInv, PanelInv, TypeOK, vars
  <2>2. UpToDate => UpToDate'
    BY <1>1, SettingsSame DEF UpToDate, vars, algorithmData, history
  <2> QED
    BY <2>1, <2>2 DEF IInv
<1> QED
  BY <1>1, InvServeBlock, InvServeWhileWaiting, InvNothingToSave, InvStartErase,
     InvStartWrite, InvFetch, InvEndWrite, InvPowerFails DEF Next

LEMMA Invariant == Spec => []IInv
<1>1. IInv /\ [Next]_vars => IInv'
  BY InvNext
<1> QED
  BY InvInit, <1>1, PTL DEF Spec
-----------------------------------------------------------------------------
(* The results. *)

\* Modes, functions and the words of every row that looks valid stay in their
\* ranges, so that function_table_ is never read beyond its end, whatever is
\* pressed and whenever the power fails.
THEOREM TypeCorrect == Spec => []TypeOK
<1>1. IInv => TypeOK
  BY DEF IInv, PanelInv
<1> QED
  BY Invariant, <1>1, PTL

\* The processors run what the settings say they run, after any presses,
\* saves and restores.
THEOREM AlwaysFollow == Spec => []ProcessorsFollow
<1>1. IInv => ProcessorsFollow
  BY DEF IInv, PanelInv
<1> QED
  BY Invariant, <1>1, PTL

\* Every press acts exactly once, short or held, for every hold time.
THEOREM PressesCounted == Spec => []OneActPerPress
<1>1. IInv => OneActPerPress
  BY DEF IInv, PanelInv
<1> QED
  BY Invariant, <1>1, PTL

\* The page is never erased more often than buttons act.
THEOREM ErasesJustified == Spec => []EraseJustified
<1>1. IInv => EraseJustified
  BY DEF IInv, PanelInv
<1> QED
  BY Invariant, <1>1, PTL

\* When no save is pending or under way the flash holds the settings, however
\* the presses fell between the steps of the saves.
THEOREM AllSaved == ASSUME EarlyFetch PROVE Spec => []SavedWhenQuiet
<1>1. IInv => SavedWhenQuiet
  BY DEF IInv, UpToDate, SavedWhenQuiet, Quiet
<1> QED
  BY Invariant, <1>1, PTL

\* A power failure when the settings are saved brings back the edit mode and
\* the second function in every mode, and in the focused modes the first one
\* as well (in the shared modes SetFunction makes it the second's).
PowerUpRestores ==
  [][PowerFails /\ Quiet /\ acts > 0 =>
       /\ editMode' = editMode /\ function'[1] = function[1]
       /\ ~Shared(editMode) => function' = function]_vars

THEOREM PowerUpRestored == ASSUME EarlyFetch PROVE Spec => PowerUpRestores
<1>1. ASSUME IInv, PowerFails, Quiet, acts > 0
      PROVE  /\ editMode' = editMode /\ function'[1] = function[1]
             /\ ~Shared(editMode) => function' = function
  <2>1. flash' = Settings
    BY <1>1 DEF PowerFails, Interrupted, Quiet, IInv, UpToDate
  <2>2. Valid(Settings)
    BY DEF Settings, Image, Valid
  <2>3. editMode' = editMode
    BY <1>1, <2>1, <2>2 DEF PowerFails, BootMode, Settings, Image
  <2>4. function' = [i \in Side |-> IF i = 0 /\ ~Shared(editMode)
                                    THEN function[0] ELSE function[1]]
    BY <1>1, <2>1, <2>2 DEF PowerFails, BootFunction, Settings, Image
  <2>5. function \in [Side -> 0 .. 7]
    BY <1>1 DEF IInv, PanelInv, TypeOK, SettingsOK
  <2>6. 1 \in Side /\ \A i \in Side : i = 0 \/ i = 1
    BY DEF Side
  <2>7. ASSUME ~Shared(editMode) PROVE function' = function
    BY <2>4, <2>5, <2>6, <2>7
  <2>8. function'[1] = function[1]
    BY <2>4, <2>6
  <2> QED
    BY <2>3, <2>7, <2>8
<1>2. IInv /\ [Next]_vars =>
        [PowerFails /\ Quiet /\ acts > 0 =>
           /\ editMode' = editMode /\ function'[1] = function[1]
           /\ ~Shared(editMode) => function' = function]_vars
  BY <1>1
<1> QED
  BY Invariant, <1>2, PTL DEF Spec, PowerUpRestores
=============================================================================
