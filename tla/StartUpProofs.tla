--------------------------- MODULE StartUpProofs ---------------------------
(***************************************************************************)
(* Proofs about StartUp, for displays with a memory of any size, whatever  *)
(* the page of settings holds, and a PLL that locks at any moment.         *)
(***************************************************************************)
EXTENDS StartUp, WellFoundedInduction, TLAPS
-----------------------------------------------------------------------------
LEMMA FunctionIsSeq ==
  ASSUME NEW S, NEW n \in Nat, NEW f \in [1 .. n -> S]
  PROVE  f \in Seq(S) /\ Len(f) = n
OBVIOUS

LEMMA Joined ==
  ASSUME NEW S, NEW s \in Seq(S), NEW u \in Seq(S)
  PROVE  /\ s \o u \in Seq(S) /\ Len(s \o u) = Len(s) + Len(u)
         /\ \A k \in 1 .. Len(s) : (s \o u)[k] = s[k]
         /\ \A k \in 1 .. Len(u) : (s \o u)[Len(s) + k] = u[k]
         /\ Len(s) \in Nat /\ Len(u) \in Nat
         /\ << >> \o s = s /\ s \o << >> = s
OBVIOUS

(* Induction.  The theorem of the library takes the formula to be proved   *)
(* as a parameter; this takes the set of the numbers it holds for.         *)

LEMMA LeastOf ==
  ASSUME NEW H \in SUBSET Nat, H # {}
  PROVE  \E n \in H : \A k \in H : n <= k
<1> DEFINE R == OpToRel(<, Nat)
<1>1. IsWellFoundedOn(R, Nat)
  BY NatLessThanWellFounded
<1>2. R = {ss \in Nat \X Nat : ss[1] < ss[2]}
  BY DEF OpToRel
<1> HIDE DEF R
<1>3. PICK n \in H : \A k \in H : <<k, n>> \notin R
  BY <1>1, WFMin
<1>4. ASSUME NEW k \in H PROVE ~(k < n)
  <2>1. <<k, n>> \in Nat \X Nat /\ <<k, n>> \notin R
    BY <1>3
  <2> QED
    BY <1>2, <2>1
<1>5. ASSUME NEW k \in H PROVE n <= k
  BY <1>4
<1> QED
  BY <1>5

LEMMA InductionOnNat ==
  ASSUME NEW H \in SUBSET Nat, 0 \in H, \A n \in H : n + 1 \in H
  PROVE  H = Nat
<1> SUFFICES ASSUME Nat \ H # {} PROVE FALSE
  OBVIOUS
<1>1. PICK n \in Nat \ H : \A k \in Nat \ H : n <= k
  BY LeastOf
<1>2. n - 1 \in Nat /\ n - 1 \notin Nat \ H
  BY <1>1
<1>3. (n - 1) + 1 \in H
  BY <1>2
<1> QED
  BY <1>1, <1>3

-----------------------------------------------------------------------------
(* Sequences joined one after the other, which the library defines by      *)
(* recursion on how many of them there are.                                *)

Joint(f, s, i) == IF i = 1 THEN s[i] ELSE f[i - 1] \o s[i]
AreJoints(f, s, n) == f = [i \in 1 .. n |-> Joint(f, s, i)]
Joints(s, n) == CHOOSE f : AreJoints(f, s, n)

LEMMA FlattenIsLast ==
  ASSUME NEW s, Len(s) # 0
  PROVE  FlattenSeq(s) = Joints(s, Len(s))[Len(s)]
BY Zenon DEF FlattenSeq, Joints, AreJoints, Joint

LEMMA JointsExist ==
  ASSUME NEW s, NEW k \in Nat
  PROVE  \E f : AreJoints(f, s, k)
<1> DEFINE H == {n \in Nat : \E f : AreJoints(f, s, n)}
<1>1. 0 \in H
  <2> DEFINE f == [i \in 1 .. 0 |-> s]
  <2>1. f = [i \in 1 .. 0 |-> Joint(f, s, i)]
    OBVIOUS
  <2> HIDE DEF f
  <2> QED
    BY <2>1 DEF AreJoints
<1>2. ASSUME NEW n \in H PROVE n + 1 \in H
  <2>1. PICK f : f = [i \in 1 .. n |-> Joint(f, s, i)]
    BY DEF AreJoints
  <2>0. n \in Nat
    OBVIOUS
  <2> DEFINE next == [i \in 1 .. n + 1 |-> Joint(f, s, i)]
  <2>2. ASSUME NEW i \in 1 .. n PROVE next[i] = f[i]
    <3>1. i \in 1 .. n + 1
      BY <2>0
    <3>2. f[i] = Joint(f, s, i)
      BY <2>1, Zenon
    <3> QED
      BY <3>1, <3>2, Zenon
  <2>3. ASSUME NEW i \in 1 .. n + 1 PROVE Joint(next, s, i) = Joint(f, s, i)
    <3> HIDE DEF next
    <3>1. CASE i = 1
      BY <3>1 DEF Joint
    <3>2. CASE i # 1
      <4>1. i - 1 \in 1 .. n
        BY <2>0, <3>2
      <4> QED
        BY <2>2, <4>1, Zenon DEF Joint
    <3> QED
      BY <3>1, <3>2
  <2>4. next = [i \in 1 .. n + 1 |-> Joint(next, s, i)]
    BY <2>3, Zenon
  <2> HIDE DEF next
  <2>5. \E g : AreJoints(g, s, n + 1)
    BY <2>4, Zenon DEF AreJoints
  <2> QED
    BY <2>0, <2>5
<1>3. H = Nat
  <2> HIDE DEF H
  <2>1. H \in SUBSET Nat
    BY DEF H
  <2> QED
    BY <1>1, <1>2, <2>1, InductionOnNat
<1> QED
  BY <1>3

LEMMA JointsUnfold ==
  ASSUME NEW s, NEW n \in Nat, NEW i \in 1 .. n
  PROVE  Joints(s, n)[i] = IF i = 1 THEN s[i] ELSE Joints(s, n)[i - 1] \o s[i]
<1>1. AreJoints(Joints(s, n), s, n)
  BY JointsExist, Zenon DEF Joints
<1>2. Joints(s, n) = [j \in 1 .. n |-> Joint(Joints(s, n), s, j)]
  BY <1>1, Zenon DEF AreJoints
<1> QED
  BY <1>2, Zenon DEF Joint

\* They are sequences, and the same for all that begin alike.
BeginAlike(S, n, s, t) == \A i \in 1 .. n : s[i] \in Seq(S) /\ t[i] = s[i]

LEMMA JointsAgree ==
  ASSUME NEW S, NEW n \in Nat, NEW m \in Nat, n <= m, NEW s, NEW t,
         BeginAlike(S, n, s, t), NEW k \in 1 .. n
  PROVE  Joints(s, n)[k] \in Seq(S) /\ Joints(t, m)[k] = Joints(s, n)[k]
<1> DEFINE Good(i) == /\ Joints(s, n)[i] \in Seq(S)
                      /\ Joints(t, m)[i] = Joints(s, n)[i]
           H == {i \in Nat : i + 1 \in 1 .. n => Good(i + 1)}
<1>1. 0 \in H
  <2> SUFFICES ASSUME 1 \in 1 .. n PROVE Good(1)
    OBVIOUS
  <2>1. 1 \in 1 .. m
    OBVIOUS
  <2> QED
    BY <2>1, JointsUnfold DEF BeginAlike
<1>2. ASSUME NEW i \in H PROVE i + 1 \in H
  <2> SUFFICES ASSUME i + 2 \in 1 .. n PROVE Good(i + 2)
    OBVIOUS
  <2>1. i \in Nat /\ i + 1 \in 1 .. n /\ i + 2 \in 1 .. m /\ i + 2 # 1
        /\ (i + 2) - 1 = i + 1
    OBVIOUS
  <2>2. Good(i + 1)
    BY <2>1
  <2>3. /\ Joints(s, n)[i + 2] = Joints(s, n)[i + 1] \o s[i + 2]
        /\ Joints(t, m)[i + 2] = Joints(t, m)[i + 1] \o t[i + 2]
    <3>1. PICK j \in 1 .. n : j = i + 2 /\ j \in 1 .. m
      BY <2>1
    <3>2. /\ Joints(s, n)[j] = IF j = 1 THEN s[j] ELSE Joints(s, n)[j - 1] \o s[j]
          /\ Joints(t, m)[j] = IF j = 1 THEN t[j] ELSE Joints(t, m)[j - 1] \o t[j]
      BY <3>1, JointsUnfold
    <3> QED
      BY <2>1, <3>1, <3>2
  <2>4. s[i + 2] \in Seq(S) /\ t[i + 2] = s[i + 2]
    BY DEF BeginAlike
  <2> QED
    BY <2>2, <2>3, <2>4, Joined
<1>3. H = Nat
  <2> HIDE DEF H
  <2>1. H \in SUBSET Nat
    BY DEF H
  <2> QED
    BY <1>1, <1>2, <2>1, InductionOnNat
<1>4. PICK i \in Nat : k = i + 1
  <2>1. k - 1 \in Nat /\ k = (k - 1) + 1
    OBVIOUS
  <2> QED
    BY <2>1
<1>5. i \in H
  BY <1>3
<1> QED
  BY <1>4, <1>5

LEMMA NothingJoined == FlattenSeq(<< >>) = << >>
BY DEF FlattenSeq

LEMMA FlattenIs ==
  ASSUME NEW S, NEW n \in Nat, NEW s \in [1 .. n -> Seq(S)]
  PROVE  /\ n = 0 => FlattenSeq(s) = << >>
         /\ n > 0 => FlattenSeq(s) = Joints(s, n)[n]
         /\ FlattenSeq(s) \in Seq(S)
         /\ \A k \in 1 .. n : Joints(s, n)[k] \in Seq(S)
<1>1. s \in Seq(Seq(S)) /\ Len(s) = n
  BY FunctionIsSeq
<1>2. \A k \in 1 .. n : Joints(s, n)[k] \in Seq(S)
  <2>1. BeginAlike(S, n, s, s) /\ n <= n
    BY DEF BeginAlike
  <2> QED
    BY <2>1, JointsAgree
<1>3. n = 0 => FlattenSeq(s) = << >>
  <2>1. n = 0 => s = << >>
    BY <1>1
  <2> QED
    BY <2>1, NothingJoined
<1>4. n > 0 => FlattenSeq(s) = Joints(s, n)[n]
  BY <1>1, FlattenIsLast
<1>5. FlattenSeq(s) \in Seq(S)
  <2>1. << >> \in Seq(S)
    OBVIOUS
  <2>2. n > 0 => n \in 1 .. n
    OBVIOUS
  <2> QED
    BY <1>2, <1>3, <1>4, <2>1, <2>2
<1> QED
  BY <1>2, <1>3, <1>4, <1>5

LEMMA JointsNext ==
  ASSUME NEW S, NEW n \in Nat, NEW s \in [1 .. n -> Seq(S)], NEW k \in 1 .. n
  PROVE  /\ k = 1 => Joints(s, n)[k] = s[k]
         /\ \A i \in 1 .. n : k = i + 1 => Joints(s, n)[k] = Joints(s, n)[i] \o s[k]
<1>1. Joints(s, n)[k] = IF k = 1 THEN s[k] ELSE Joints(s, n)[k - 1] \o s[k]
  BY JointsUnfold
<1>2. ASSUME NEW i \in 1 .. n, k = i + 1 PROVE k # 1 /\ k - 1 = i
  BY <1>2
<1> QED
  BY <1>1, <1>2

-----------------------------------------------------------------------------
(***************************************************************************)
(* The calibration.  Whatever a word was, what is made of it is in range.  *)
(***************************************************************************)
LEMMA DefaultsInRange ==
  zeroDefault \in ZeroRange /\ threeVoltDefault \in ThreeVoltRange
  /\ halfOutDefault \in HalfOutRange
<1>1. /\ zeroDefault \in Int /\ maxZero \in Int /\ -maxZero \in Int
      /\ -maxZero <= zeroDefault /\ zeroDefault <= maxZero
  BY SMT DEF zeroDefault, maxZero
<1>2. /\ threeVoltDefault \in Int /\ minThreeVolt \in Int /\ maxThreeVolt \in Int
      /\ minThreeVolt <= threeVoltDefault /\ threeVoltDefault <= maxThreeVolt
  BY SMT DEF threeVoltDefault, minThreeVolt, maxThreeVolt
<1>3. /\ halfOutDefault \in Int /\ minHalfOut \in Int /\ maxHalfOut \in Int
      /\ minHalfOut <= halfOutDefault /\ halfOutDefault <= maxHalfOut
  BY SMT DEF halfOutDefault, minHalfOut, maxHalfOut
<1> QED
  BY <1>1, <1>2, <1>3, SMT DEF ZeroRange, ThreeVoltRange, HalfOutRange

LEMMA MendedInRange ==
  ASSUME NEW range, NEW default \in range, NEW v
  PROVE  Mended(v, range, default) \in range
BY DEF Mended

\* Settings of which every word is in range.
InRange(s) ==
  /\ \A i \in Input : s.inData[i].zeroIn \in ZeroRange
                      /\ s.inData[i].threeVolt \in ThreeVoltRange
  /\ \A i \in Output : s.outData[i].zeroOut \in ZeroRange
                       /\ s.outData[i].halfOut \in HalfOutRange

LEMMA CheckedInRange ==
  ASSUME NEW s
  PROVE  InRange(CheckValidCalibration(s))
<1> DEFINE c == CheckValidCalibration(s)
<1>1. ASSUME NEW i \in Input
      PROVE  c.inData[i].zeroIn \in ZeroRange /\ c.inData[i].threeVolt \in ThreeVoltRange
  <2>1. c.inData[i] =
          [zeroIn |-> Mended(s.inData[i].zeroIn, ZeroRange, zeroDefault),
           threeVolt |->
             Mended(s.inData[i].threeVolt, ThreeVoltRange, threeVoltDefault)]
    BY DEF CheckValidCalibration
  <2> QED
    BY <2>1, DefaultsInRange, MendedInRange
<1>2. ASSUME NEW i \in Output
      PROVE  c.outData[i].zeroOut \in ZeroRange /\ c.outData[i].halfOut \in HalfOutRange
  <2>1. c.outData[i] =
          [zeroOut |-> Mended(s.outData[i].zeroOut, ZeroRange, zeroDefault),
           halfOut |-> Mended(s.outData[i].halfOut, HalfOutRange, halfOutDefault)]
    BY DEF CheckValidCalibration
  <2> QED
    BY <2>1, DefaultsInRange, MendedInRange
<1>3. InRange(c)
  <2> HIDE DEF c
  <2> QED
    BY <1>1, <1>2 DEF InRange
<1> QED
  BY <1>3

LEMMA DefaultInRange == InRange(Defaults)
BY DefaultsInRange DEF InRange, Defaults

\* No divisor is zero.
LEMMA DivisorsNotZero ==
  ASSUME NEW s, NEW d, NEW i
  PROVE  Divisor(s, d, i) # 0 /\ OutputDivisor(s, d, i) # 0
BY SMT DEF Divisor, OutputDivisor

\* Each jack is some half's input, and no other jack is.
LEMMA JackPlaced ==
  ASSUME NEW w \in Input
  PROVE  /\ GainOf(w) \in Half \X (0 .. 2)
         /\ inputMap[GainOf(w)[1]][GainOf(w)[2]] = w
BY DEF GainOf, inputMap, Input, Half

LEMMA JackOnlyThere ==
  ASSUME NEW w \in Input, NEW d \in Half, NEW i \in 0 .. 2, inputMap[d][i] = w
  PROVE  <<d, i>> = GainOf(w)
BY DEF GainOf, inputMap, Input, Half

LEMMA JacksNotMixedUp ==
  ASSUME NEW w \in Input
  PROVE  GainOf(w) = OffsetOf(w)
<1> DEFINE There(di) == inputMap[di[1]][di[2]] = w
<1>1. GainOf(w) \in Half \X (0 .. 2) /\ There(GainOf(w))
  BY JackPlaced
<1>2. ASSUME NEW di \in Half \X (0 .. 2), There(di) PROVE di = GainOf(w)
  <2>1. di[1] \in Half /\ di[2] \in 0 .. 2 /\ di = <<di[1], di[2]>>
    OBVIOUS
  <2> QED
    BY <1>2, <2>1, JackOnlyThere
<1>3. OffsetOf(w) = CHOOSE di \in Half \X (0 .. 2) : There(di)
  BY Zenon DEF OffsetOf
<1> HIDE DEF There
<1> QED
  BY <1>1, <1>2, <1>3

LEMMA SettingsSound == InRange(settings) => CalibrationSound
BY DivisorsNotZero, JacksNotMixedUp, Zenon DEF CalibrationSound, InRange

LEMMA SettingsKept == InRange(settings) /\ [Next]_vars => InRange(settings)'
<1> SUFFICES ASSUME InRange(settings), [Next]_vars PROVE InRange(settings')
  BY DEF InRange
<1>1. CASE ReadCalibrationFromSettings
  BY <1>1, CheckedInRange DEF ReadCalibrationFromSettings, Settings
<1>2. CASE UNCHANGED settings
  BY <1>2
<1>3. CASE UNCHANGED vars
  BY <1>2, <1>3 DEF vars, calibration
<1> QED
  BY <1>1, <1>2, <1>3
     DEF Next, Step, Wait, Switch, Oscillator, PerformanceConfig, Ports, ConfigureTimer,
         DelayMs, Send, StartTransfer, TransmitOneByte, StopTransfer, QuickSRAMtest,
         PLLLocks, calibration

(***************************************************************************)
(* Whatever the flash holds, the calibration the firmware goes on with is  *)
(* in range, divides by no zero, and takes a jack's gain and its offset    *)
(* from the same input (ReadCalibrationFromSettings).                      *)
(***************************************************************************)
THEOREM CalibrationUsable == Spec => []CalibrationSound
<1>1. Init => InRange(settings)
  BY DefaultInRange DEF Init
<1> QED
  BY <1>1, SettingsKept, SettingsSound, PTL DEF Spec
-----------------------------------------------------------------------------
(***************************************************************************)
(* The program, function by function: its instructions, and where the      *)
(* ones that matter below are in it.                                       *)
(***************************************************************************)
Names ==
  {"DCH0", "DMA", "channels", "silence", "SPI1", "SPI3", "SPI4", "SPI5", "SPI6",
   "EBI", "UART2", "UART4", "ADC", "I2C2", "I2C4", "algorithm", "service"}
DisplayPins == {"cs1", "cs2", "dc1", "dc2", "reset1", "reset2"}

\* What a display is told before the panel is lit, and in all.
BytesInDark == {PanelSettings[i] : i \in 1 .. 16} \cup {Zero}
BytesSent ==
  BytesInDark \cup {ExternalSettings[i] : i \in 1 .. 18}
  \cup {<<"on", TRUE>>, <<"contrast", 128>>}

Clocking ==
  [op : {"lock", "unlock"}, arg : {0}] \cup [op : {"divide"}, arg : {PBClockDivisor}]
  \cup [op : {"source"}, arg : {"Posc", "SPLL"}]
  \cup [op : {"multiply"}, arg : {SysPLLMultiplier}]
  \cup [op : {"waitStates"}, arg : {SYS_CLK_FREQ}]
Porting == [op : {"latch", "drive"}, arg : {"A", "G", "H", "J"}]
Switching == [op : {"await", "on", "off"}, arg : Names]
Timing == [op : {"timer3"}, arg : {<<Timer3Prescale, Timer3Period>>}]
Delaying == [op : {"delay"}, arg : Nat]
Moving(P) == [op : {"set", "clear"}, arg : P]
Telling(B) == [op : {"send"}, arg : (SUBSET Display) \X B]
Packing == [op : {"start", "stop"}, arg : {0}] \cup [op : {"byte"}, arg : Nat \cup {"address"}]
Testing == [op : {"readCalibration", "sramTest"}, arg : {0}]

Instruction ==
  Clocking \cup Porting \cup Switching \cup Timing \cup Delaying \cup Moving(Pin)
  \cup Telling(BytesSent) \cup Packing \cup Testing

\* The instructions until the panel gets its supply, and from when it is lit
\* until the codec is taken out of reset.
InDark == Moving(DisplayPins) \cup Telling(BytesInDark)
InLight ==
  Moving(DisplayPins) \cup Telling(BytesSent) \cup Delaying
  \cup [op : {"readCalibration"}, arg : {0}] \cup [op : {"off"}, arg : {"SPI1"}]

LEMMA InstructionsAre == InDark \subseteq Instruction /\ InLight \subseteq Instruction
<1>1. BytesInDark \subseteq BytesSent
  BY DEF BytesSent
<1>2. DisplayPins \subseteq Pin
  BY DEF DisplayPins, Pin
<1>3. Telling(BytesInDark) \subseteq Telling(BytesSent)
  <2>1. (SUBSET Display) \X BytesInDark \subseteq (SUBSET Display) \X BytesSent
    BY <1>1
  <2> HIDE DEF BytesInDark
  <2> QED
    BY <2>1 DEF Telling
<1>4. Moving(DisplayPins) \subseteq Moving(Pin)
  BY <1>2 DEF Moving
<1>5. [op : {"readCalibration"}, arg : {0}] \subseteq Testing
  BY DEF Testing
<1>6. [op : {"off"}, arg : {"SPI1"}] \subseteq Switching
  BY DEF Switching, Names
<1> QED
  BY <1>3, <1>4, <1>5, <1>6 DEF InDark, InLight, Instruction

LEMMA DoIs ==
  ASSUME NEW S, NEW op, NEW arg, [op |-> op, arg |-> arg] \in S
  PROVE  /\ Do(op, arg) \in Seq(S) /\ Len(Do(op, arg)) = 1
         /\ Do(op, arg)[1] = [op |-> op, arg |-> arg]
BY DEF Do

LEMMA DarkInstructions ==
  /\ \A p \in DisplayPins : Do("set", p) \in Seq(InDark) /\ Do("clear", p) \in Seq(InDark)
  /\ \A ds \in SUBSET Display, b \in BytesInDark : Do("send", <<ds, b>>) \in Seq(InDark)
<1>1. ASSUME NEW p \in DisplayPins
      PROVE  Do("set", p) \in Seq(InDark) /\ Do("clear", p) \in Seq(InDark)
  BY DoIs DEF InDark, Moving
<1>2. ASSUME NEW ds \in SUBSET Display, NEW b \in BytesInDark
      PROVE  Do("send", <<ds, b>>) \in Seq(InDark)
  BY DoIs DEF InDark, Telling
<1> QED
  BY <1>1, <1>2

LEMMA LightInstructions ==
  /\ \A p \in DisplayPins : Do("set", p) \in Seq(InLight) /\ Do("clear", p) \in Seq(InLight)
  /\ \A ds \in SUBSET Display, b \in BytesSent : Do("send", <<ds, b>>) \in Seq(InLight)
  /\ \A ms \in Nat : Do("delay", ms) \in Seq(InLight)
  /\ Do("readCalibration", 0) \in Seq(InLight) /\ Do("off", "SPI1") \in Seq(InLight)
<1>1. ASSUME NEW p \in DisplayPins
      PROVE  Do("set", p) \in Seq(InLight) /\ Do("clear", p) \in Seq(InLight)
  BY DoIs DEF InLight, Moving
<1>2. ASSUME NEW ds \in SUBSET Display, NEW b \in BytesSent
      PROVE  Do("send", <<ds, b>>) \in Seq(InLight)
  BY DoIs DEF InLight, Telling
<1>3. ASSUME NEW ms \in Nat PROVE Do("delay", ms) \in Seq(InLight)
  BY DoIs DEF InLight, Delaying
<1>4. Do("readCalibration", 0) \in Seq(InLight) /\ Do("off", "SPI1") \in Seq(InLight)
  BY DoIs DEF InLight
<1> QED
  BY <1>1, <1>2, <1>3, <1>4

LEMMA JoinedIn ==
  ASSUME NEW S, NEW s \in Seq(S), NEW u \in Seq(S)
  PROVE  s \o u \in Seq(S)
OBVIOUS

LEMMA DisplayPinsAre ==
  /\ \A d \in Display : CS[d] \in DisplayPins /\ DC[d] \in DisplayPins
                        /\ Reset[d] \in DisplayPins
  /\ 1 \in Display /\ 2 \in Display
BY DEF Display, CS, DC, Reset, DisplayPins

\* A byte to a display, and a list of them.
LEMMA ByteCode ==
  ASSUME NEW d \in Display, NEW b
  PROVE  /\ b \in BytesInDark => sendDisplayByte(d, b) \in Seq(InDark)
         /\ b \in BytesSent => sendDisplayByte(d, b) \in Seq(InLight)
<1>1. {d} \in SUBSET Display
  OBVIOUS
<1>2. ASSUME b \in BytesInDark PROVE sendDisplayByte(d, b) \in Seq(InDark)
  <2>1. /\ Do("clear", CS[d]) \in Seq(InDark) /\ Do("send", <<{d}, b>>) \in Seq(InDark)
        /\ Do("set", CS[d]) \in Seq(InDark)
    BY <1>1, <1>2, DisplayPinsAre, DarkInstructions
  <2> QED
    BY <2>1, JoinedIn DEF sendDisplayByte
<1>3. ASSUME b \in BytesSent PROVE sendDisplayByte(d, b) \in Seq(InLight)
  <2>1. /\ Do("clear", CS[d]) \in Seq(InLight) /\ Do("send", <<{d}, b>>) \in Seq(InLight)
        /\ Do("set", CS[d]) \in Seq(InLight)
    BY <1>1, <1>3, DisplayPinsAre, LightInstructions
  <2> QED
    BY <2>1, JoinedIn DEF sendDisplayByte
<1> QED
  BY <1>2, <1>3

\* Each, of any function of the elements, is in what each of them is in.
LEMMA EachIn ==
  ASSUME NEW S, NEW n \in Nat, NEW f, DOMAIN f = 1 .. n,
         f = [i \in DOMAIN f |-> f[i]], \A i \in 1 .. n : f[i] \in Seq(S)
  PROVE  FlattenSeq(f) \in Seq(S)
<1>1. f \in [1 .. n -> Seq(S)]
  OBVIOUS
<1> QED
  BY <1>1, FlattenIs

LEMMA ListCode ==
  ASSUME NEW d \in Display, NEW n \in Nat, NEW s \in [1 .. n -> BytesSent]
  PROVE  /\ Instructions(d, s) \in Seq(InLight)
         /\ (\A i \in 1 .. n : s[i] \in BytesInDark) => Instructions(d, s) \in Seq(InDark)
<1> DEFINE f == [i \in DOMAIN s |-> sendDisplayByte(d, s[i])]
<1>1. DOMAIN s = 1 .. n /\ DOMAIN f = 1 .. n /\ f = [i \in DOMAIN f |-> f[i]]
  OBVIOUS
<1>2. \A i \in 1 .. n : f[i] = sendDisplayByte(d, s[i]) /\ s[i] \in BytesSent
  BY <1>1
<1>3. Instructions(d, s) = Do("clear", DC[d]) \o FlattenSeq(f)
  BY DEF Instructions, Each
<1> HIDE DEF f
<1>4. FlattenSeq(f) \in Seq(InLight)
  BY <1>1, <1>2, ByteCode, EachIn
<1>5. Do("clear", DC[d]) \in Seq(InLight) /\ Do("clear", DC[d]) \in Seq(InDark)
  BY DisplayPinsAre, DarkInstructions, LightInstructions
<1>6. ASSUME \A i \in 1 .. n : s[i] \in BytesInDark
      PROVE  FlattenSeq(f) \in Seq(InDark)
  BY <1>1, <1>2, <1>6, ByteCode, EachIn
<1> QED
  BY <1>3, <1>4, <1>5, <1>6, JoinedIn

\* A frame, to the panel or to both displays.
LEMMA FrameCode ==
  /\ Frame(LAMBDA b : sendDisplayByte(1, b)) \in Seq(InDark)
  /\ Frame(LAMBDA b : Do("send", <<Display, b>>)) \in Seq(InLight)
<1> DEFINE z == [i \in 1 .. FrameBytes |-> Zero]
           f == [i \in DOMAIN z |-> sendDisplayByte(1, z[i])]
           g == [i \in DOMAIN z |-> Do("send", <<Display, z[i]>>)]
<1>1. FrameBytes \in Nat
  BY StartUpAssumption
<1>2. /\ DOMAIN f = 1 .. FrameBytes /\ f = [i \in DOMAIN f |-> f[i]]
      /\ DOMAIN g = 1 .. FrameBytes /\ g = [i \in DOMAIN g |-> g[i]]
  OBVIOUS
<1>3. \A i \in 1 .. FrameBytes : f[i] = sendDisplayByte(1, Zero)
                                 /\ g[i] = Do("send", <<Display, Zero>>)
  OBVIOUS
<1>4. /\ Frame(LAMBDA b : sendDisplayByte(1, b)) = FlattenSeq(f)
      /\ Frame(LAMBDA b : Do("send", <<Display, b>>)) = FlattenSeq(g)
  BY DEF Frame, Each
<1>5. Zero \in BytesInDark /\ Zero \in BytesSent
  BY DEF BytesInDark, BytesSent
<1> HIDE DEF f, g
<1>6. sendDisplayByte(1, Zero) \in Seq(InDark)
  BY <1>5, DisplayPinsAre, ByteCode
<1>7. Do("send", <<Display, Zero>>) \in Seq(InLight)
  <2>1. Display \in SUBSET Display
    OBVIOUS
  <2> QED
    BY <1>5, <2>1, LightInstructions
<1>8. FlattenSeq(f) \in Seq(InDark)
  BY <1>1, <1>2, <1>3, <1>6, EachIn
<1>9. FlattenSeq(g) \in Seq(InLight)
  BY <1>1, <1>2, <1>3, <1>7, EachIn
<1> QED
  BY <1>4, <1>8, <1>9

\* The settings of the panel up to where its supply is turned on.
Blanking ==
  Instructions(1, PanelSettings)
  \o Do("set", DC[1]) \o Frame(LAMBDA b : sendDisplayByte(1, b))
  \o Do("clear", DC[1])

LEMMA SettingsAre ==
  /\ PanelSettings \in [1 .. 16 -> BytesInDark] /\ PanelSettings \in [1 .. 16 -> BytesSent]
  /\ ExternalSettings \in [1 .. 18 -> BytesSent]
<1>1. DOMAIN PanelSettings = 1 .. 16
      /\ PanelSettings = [i \in 1 .. 16 |-> PanelSettings[i]]
  BY DEF PanelSettings
<1>2. DOMAIN ExternalSettings = 1 .. 18
      /\ ExternalSettings = [i \in 1 .. 18 |-> ExternalSettings[i]]
  BY DEF ExternalSettings
<1>3. \A i \in 1 .. 16 : PanelSettings[i] \in BytesInDark /\ PanelSettings[i] \in BytesSent
  BY DEF BytesInDark, BytesSent
<1>4. \A i \in 1 .. 18 : ExternalSettings[i] \in BytesSent
  BY DEF BytesSent
<1> QED
  BY <1>1, <1>2, <1>3, <1>4

LEMMA BlankingCode == Blanking \in Seq(InDark)
<1>1. Instructions(1, PanelSettings) \in Seq(InDark)
  <2>1. \A i \in 1 .. 16 : PanelSettings[i] \in BytesInDark
    BY SettingsAre
  <2>2. 16 \in Nat
    OBVIOUS
  <2> QED
    BY <2>1, <2>2, SettingsAre, DisplayPinsAre, ListCode
<1>2. Do("set", DC[1]) \in Seq(InDark) /\ Do("clear", DC[1]) \in Seq(InDark)
  BY DisplayPinsAre, DarkInstructions
<1> QED
  BY <1>1, <1>2, FrameCode, JoinedIn DEF Blanking

\* What follows it until the codec is taken out of reset, part by part.
LEMMA DisplayCode ==
  /\ configureDisplay2 \in Seq(InLight) /\ startupSequence \in Seq(InLight)
  /\ setDisplayContrast(128) \in Seq(InLight) /\ setDisplayFlip(FALSE) \in Seq(InLight)
  /\ Do("readCalibration", 0) \in Seq(InLight) /\ Do("off", "SPI1") \in Seq(InLight)
<1>1. \A d \in Display : /\ Do("set", DC[d]) \in Seq(InLight)
                         /\ Do("clear", DC[d]) \in Seq(InLight)
                         /\ Do("set", CS[d]) \in Seq(InLight)
                         /\ Do("clear", CS[d]) \in Seq(InLight)
  BY DisplayPinsAre, LightInstructions
<1>2. \A ms \in Nat : delayMs(ms) \in Seq(InLight)
  BY LightInstructions DEF delayMs
<1>3. configureDisplay2 \in Seq(InLight)
  <2>1. 18 \in Nat
    OBVIOUS
  <2>2. Instructions(2, ExternalSettings) \in Seq(InLight)
    BY <2>1, SettingsAre, DisplayPinsAre, ListCode
  <2> QED
    BY <1>1, <2>2, DisplayPinsAre, JoinedIn DEF configureDisplay2
<1>4. startupSequence \in Seq(InLight)
  <2>1. copyToDisplay \in Seq(InLight)
    BY <1>1, FrameCode, DisplayPinsAre, JoinedIn DEF copyToDisplay
  <2>2. delayMs(17) \in Seq(InLight)
    BY <1>2
  <2> QED
    BY <2>1, <2>2, JoinedIn DEF startupSequence
<1>5. setDisplayContrast(128) \in Seq(InLight)
  <2>1. <<"contrast", 128>> \in BytesSent
    BY DEF BytesSent
  <2>2. << <<"contrast", 128>> >> \in [1 .. 1 -> BytesSent] /\ 1 \in Nat
    BY <2>1
  <2>3. Instructions(1, << <<"contrast", 128>> >>) \in Seq(InLight)
    BY <2>2, DisplayPinsAre, ListCode
  <2>4. sendDisplayByte(2, <<"contrast", 128>>) \in Seq(InLight)
    BY <2>1, DisplayPinsAre, ByteCode
  <2>5. delayMs(1) \in Seq(InLight)
    BY <1>2
  <2> QED
    BY <1>1, <2>3, <2>4, <2>5, DisplayPinsAre, JoinedIn DEF setDisplayContrast
<1>6. setDisplayFlip(FALSE) \in Seq(InLight)
  <2>1. <<"remap", 1>> \in BytesSent /\ <<"scan", 8>> \in BytesSent
    <3>1. PanelSettings[11] = <<"remap", 1>> /\ PanelSettings[12] = <<"scan", 8>>
      BY DEF PanelSettings
    <3>2. PanelSettings[11] \in BytesSent /\ PanelSettings[12] \in BytesSent
      BY SettingsAre
    <3> QED
      BY <3>1, <3>2
  <2>2. << <<"remap", 1>>, <<"scan", 8>> >> \in [1 .. 2 -> BytesSent] /\ 2 \in Nat
    BY <2>1
  <2>3. Instructions(1, << <<"remap", 1>>, <<"scan", 8>> >>) \in Seq(InLight)
    BY <2>2, DisplayPinsAre, ListCode
  <2> QED
    BY <1>1, <2>3, DisplayPinsAre, JoinedIn DEF setDisplayFlip
<1> QED
  BY <1>3, <1>4, <1>5, <1>6, LightInstructions

\* Instructions by their places in s, after its first o.
Is(s, k, op, arg) == k \in 1 .. Len(s) /\ s[k] = [op |-> op, arg |-> arg]

LEMMA MainCode ==
  /\ main \in Seq(Instruction) /\ Len(main) = 2
  /\ Is(main, 1, "await", "DCH0") /\ Is(main, 2, "off", "DMA")
<1>1. /\ [op |-> "await", arg |-> "DCH0"] \in Instruction
      /\ [op |-> "off", arg |-> "DMA"] \in Instruction
  BY DEF Instruction, Switching, Names
<1>2. main \in Seq(Instruction)
  BY <1>1, DoIs, JoinedIn DEF main
<1> QED
  BY <1>2 DEF main, Do, Is

LEMMA ClockCode ==
  LET s == SYS_CLK_Initialize IN
  /\ s \in Seq(Instruction) /\ Len(s) = 12
  /\ Is(s, 1, "unlock", 0) /\ Is(s, 2, "divide", PBClockDivisor) /\ Is(s, 3, "lock", 0)
  /\ Is(s, 4, "unlock", 0) /\ Is(s, 5, "source", "Posc") /\ Is(s, 6, "lock", 0)
  /\ Is(s, 7, "unlock", 0) /\ Is(s, 8, "multiply", SysPLLMultiplier)
  /\ Is(s, 9, "lock", 0)
  /\ Is(s, 10, "unlock", 0) /\ Is(s, 11, "source", "SPLL") /\ Is(s, 12, "lock", 0)
<1>1. /\ [op |-> "unlock", arg |-> 0] \in Instruction
      /\ [op |-> "lock", arg |-> 0] \in Instruction
      /\ [op |-> "divide", arg |-> PBClockDivisor] \in Instruction
      /\ [op |-> "source", arg |-> "Posc"] \in Instruction
      /\ [op |-> "source", arg |-> "SPLL"] \in Instruction
      /\ [op |-> "multiply", arg |-> SysPLLMultiplier] \in Instruction
  BY DEF Instruction, Clocking
<1>2. SYS_CLK_Initialize \in Seq(Instruction)
  <2>1. /\ Do("unlock", 0) \in Seq(Instruction) /\ Do("lock", 0) \in Seq(Instruction)
        /\ Do("divide", PBClockDivisor) \in Seq(Instruction)
        /\ Do("source", "Posc") \in Seq(Instruction)
        /\ Do("source", "SPLL") \in Seq(Instruction)
        /\ Do("multiply", SysPLLMultiplier) \in Seq(Instruction)
    BY <1>1, DoIs
  <2> QED
    BY <2>1, JoinedIn DEF SYS_CLK_Initialize
<1> QED
  BY <1>2 DEF SYS_CLK_Initialize, Do, Is

LEMMA PerformanceCode ==
  LET s == SYS_DEVCON_PerformanceConfig IN
  s \in Seq(Instruction) /\ Len(s) = 1 /\ Is(s, 1, "waitStates", SYS_CLK_FREQ)
<1>1. [op |-> "waitStates", arg |-> SYS_CLK_FREQ] \in Instruction
  BY DEF Instruction, Clocking
<1> QED
  BY <1>1, DoIs DEF SYS_DEVCON_PerformanceConfig, Is

\* Four lists joined, and six.
LEMMA FlattenFirst ==
  ASSUME NEW S, NEW n \in Nat, NEW f \in [1 .. n -> Seq(S)]
  PROVE  /\ n = 4 => FlattenSeq(f) = f[1] \o f[2] \o f[3] \o f[4]
         /\ n = 6 => FlattenSeq(f) = f[1] \o f[2] \o f[3] \o f[4] \o f[5] \o f[6]
<1> DEFINE J == Joints(f, n)
<1>1. ASSUME NEW k \in 1 .. n, NEW i \in 1 .. n, k = i + 1
      PROVE  J[k] = J[i] \o f[k]
  BY <1>1, JointsNext
<1>2. n > 0 => FlattenSeq(f) = J[n]
  BY FlattenIs
<1>5. n > 0 => J[1] = f[1]
  <2>1. n > 0 => 1 \in 1 .. n
    OBVIOUS
  <2> QED
    BY <2>1, JointsNext
<1> HIDE DEF J
<1>3. ASSUME n >= 4
      PROVE  J[4] = f[1] \o f[2] \o f[3] \o f[4]
  <2>1. /\ 1 \in 1 .. n /\ 2 \in 1 .. n /\ 3 \in 1 .. n /\ 4 \in 1 .. n /\ n > 0
        /\ 2 = 1 + 1 /\ 3 = 2 + 1 /\ 4 = 3 + 1
    BY <1>3
  <2>3. J[2] = J[1] \o f[2] /\ J[3] = J[2] \o f[3] /\ J[4] = J[3] \o f[4]
    BY <1>1, <2>1, Zenon
  <2> QED
    BY <1>5, <2>1, <2>3, Zenon
<1>4. ASSUME n = 6
      PROVE  J[6] = J[4] \o f[5] \o f[6]
  <2>1. 4 \in 1 .. n /\ 5 \in 1 .. n /\ 6 \in 1 .. n /\ 5 = 4 + 1 /\ 6 = 5 + 1
    BY <1>4
  <2>3. J[5] = J[4] \o f[5] /\ J[6] = J[5] \o f[6]
    BY <1>1, <2>1, Zenon
  <2> QED
    BY <2>3, Zenon
<1>6. ASSUME n = 4 PROVE FlattenSeq(f) = f[1] \o f[2] \o f[3] \o f[4]
  <2>1. n > 0 /\ n >= 4 /\ J[n] = J[4]
    BY <1>6
  <2> QED
    BY <1>2, <1>3, <2>1, Zenon
<1>7. ASSUME n = 6 PROVE FlattenSeq(f) = f[1] \o f[2] \o f[3] \o f[4] \o f[5] \o f[6]
  <2>1. n > 0 /\ n >= 4 /\ J[n] = J[6]
    BY <1>7
  <2> QED
    BY <1>2, <1>3, <1>4, <1>7, <2>1, Zenon
<1> QED
  BY <1>6, <1>7

LEMMA PortsCode ==
  LET s == SYS_PORTS_Initialize IN
  /\ s \in Seq(Instruction) /\ Len(s) = 8
  /\ Is(s, 1, "latch", "A") /\ Is(s, 2, "drive", "A")
  /\ Is(s, 3, "latch", "G") /\ Is(s, 4, "drive", "G")
  /\ Is(s, 5, "latch", "H") /\ Is(s, 6, "drive", "H")
  /\ Is(s, 7, "latch", "J") /\ Is(s, 8, "drive", "J")
<1> DEFINE p == <<"A", "G", "H", "J">>
           Both(x) == Do("latch", x) \o Do("drive", x)
           f == [i \in DOMAIN p |-> Both(p[i])]
<1>1. SYS_PORTS_Initialize = FlattenSeq(f)
  BY DEF SYS_PORTS_Initialize, Each
<1>2. \A x \in {"A", "G", "H", "J"} : Both(x) \in Seq(Instruction)
  <2> SUFFICES ASSUME NEW x \in {"A", "G", "H", "J"} PROVE Both(x) \in Seq(Instruction)
    OBVIOUS
  <2>1. [op |-> "latch", arg |-> x] \in Instruction /\ [op |-> "drive", arg |-> x] \in Instruction
    BY DEF Instruction, Porting
  <2> QED
    BY <2>1, DoIs, JoinedIn
<1>3. /\ f \in [1 .. 4 -> Seq(Instruction)]
      /\ f[1] = Both("A") /\ f[2] = Both("G") /\ f[3] = Both("H") /\ f[4] = Both("J")
  <2>1. DOMAIN p = 1 .. 4 /\ \A i \in 1 .. 4 : p[i] \in {"A", "G", "H", "J"}
    OBVIOUS
  <2> HIDE DEF Both
  <2> QED
    BY <1>2, <2>1
<1>4. SYS_PORTS_Initialize = Both("A") \o Both("G") \o Both("H") \o Both("J")
  <2> HIDE DEF f, Both
  <2>1. 4 \in Nat
    OBVIOUS
  <2>2. FlattenSeq(f) = f[1] \o f[2] \o f[3] \o f[4]
    BY <1>3, <2>1, FlattenFirst
  <2> QED
    BY <1>1, <1>3, <2>2
<1>5. SYS_PORTS_Initialize \in Seq(Instruction)
  <2> HIDE DEF Both
  <2> QED
    BY <1>2, <1>4, JoinedIn
<1> QED
  BY <1>4, <1>5 DEF Do, Is

\* APP_Initialize up to the displays' settings.
BeforeDisplays ==
  ExternalMemory \o DisplaySPIs \o AudioSPIs \o setupAudioDMAs \o UARTs
  \o Timers \o configureADC \o DisplaysOutOfReset

LEMMA BeforeCode ==
  LET s == BeforeDisplays IN
  /\ s \in Seq(Instruction) /\ Len(s) = 29
  /\ Is(s, 1, "on", "EBI") /\ Is(s, 2, "on", "DMA")
  /\ Is(s, 3, "on", "SPI1") /\ Is(s, 4, "set", "reset2") /\ Is(s, 5, "set", "cs2")
  /\ Is(s, 6, "off", "SPI1") /\ Is(s, 7, "on", "SPI1") /\ Is(s, 8, "on", "SPI5")
  /\ Is(s, 9, "on", "SPI3") /\ Is(s, 10, "on", "SPI4") /\ Is(s, 11, "on", "SPI6")
  /\ Is(s, 12, "off", "channels") /\ Is(s, 13, "await", "channels")
  /\ Is(s, 14, "on", "silence") /\ Is(s, 15, "off", "SPI6")
  /\ Is(s, 16, "on", "channels") /\ Is(s, 17, "on", "SPI6")
  /\ Is(s, 18, "on", "UART2") /\ Is(s, 19, "on", "UART4")
  /\ Is(s, 20, "timer3", <<Timer3Prescale, Timer3Period>>)
  /\ Is(s, 21, "on", "ADC") /\ Is(s, 22, "await", "ADC") /\ Is(s, 23, "delay", 1)
  /\ Is(s, 24, "delay", 10) /\ Is(s, 25, "set", "reset1")
  /\ Is(s, 26, "delay", 10) /\ Is(s, 27, "clear", "reset2")
  /\ Is(s, 28, "delay", 10) /\ Is(s, 29, "set", "reset2")
<1>1. /\ \A x \in Names : /\ Do("on", x) \in Seq(Instruction)
                          /\ Do("off", x) \in Seq(Instruction)
                          /\ Do("await", x) \in Seq(Instruction)
      /\ \A x \in Pin : Do("set", x) \in Seq(Instruction) /\ Do("clear", x) \in Seq(Instruction)
      /\ \A x \in Nat : delayMs(x) \in Seq(Instruction)
      /\ Do("timer3", <<Timer3Prescale, Timer3Period>>) \in Seq(Instruction)
  BY DoIs DEF Instruction, Switching, Moving, Delaying, Timing, delayMs
<1>2. /\ ExternalMemory \in Seq(Instruction) /\ DisplaySPIs \in Seq(Instruction)
      /\ AudioSPIs \in Seq(Instruction) /\ setupAudioDMAs \in Seq(Instruction)
      /\ UARTs \in Seq(Instruction) /\ Timers \in Seq(Instruction)
      /\ configureADC \in Seq(Instruction) /\ DisplaysOutOfReset \in Seq(Instruction)
  BY <1>1, JoinedIn DEF ExternalMemory, DisplaySPIs, AudioSPIs, setupAudioDMAs, UARTs,
       Timers, configureADC, DisplaysOutOfReset, Names, Pin
<1>3. BeforeDisplays \in Seq(Instruction)
  BY <1>2, JoinedIn DEF BeforeDisplays
<1>4. Len(BeforeDisplays) = 29
  BY DEF BeforeDisplays, ExternalMemory, DisplaySPIs, AudioSPIs, setupAudioDMAs, UARTs,
       Timers, configureADC, DisplaysOutOfReset, Do, delayMs
<1> QED
  BY <1>3, <1>4 DEF BeforeDisplays, ExternalMemory, DisplaySPIs, AudioSPIs, setupAudioDMAs,
       UARTs, Timers, configureADC, DisplaysOutOfReset, Do, delayMs, Is

\* The instructions of a packet to the codec, the n-th, after the first o.
Packet(s, o, n) ==
  /\ Is(s, o + 1, "start", 0) /\ Is(s, o + 2, "byte", "address")
  /\ Is(s, o + 3, "byte", CodecSettings[n][1])
  /\ Is(s, o + 4, "byte", CodecSettings[n][2]) /\ Is(s, o + 5, "stop", 0)

LEMMA CodecSettingsAre ==
  /\ DOMAIN CodecSettings = 1 .. 6
  /\ \A n \in 1 .. 6 : CodecSettings[n][1] \in Nat /\ CodecSettings[n][2] \in Nat
BY DEF CodecSettings

LEMMA JoinedLength ==
  ASSUME NEW S, NEW s \in Seq(S), NEW u \in Seq(S)
  PROVE  s \o u \in Seq(S) /\ Len(s \o u) = Len(s) + Len(u)
OBVIOUS

LEMMA SendPacketCode ==
  ASSUME NEW reg \in Nat, NEW val \in Nat
  PROVE  /\ SendPacket(reg, val) \in Seq(Instruction) /\ Len(SendPacket(reg, val)) = 5
         /\ Is(SendPacket(reg, val), 1, "start", 0)
         /\ Is(SendPacket(reg, val), 2, "byte", "address")
         /\ Is(SendPacket(reg, val), 3, "byte", reg)
         /\ Is(SendPacket(reg, val), 4, "byte", val)
         /\ Is(SendPacket(reg, val), 5, "stop", 0)
<1>1. /\ [op |-> "start", arg |-> 0] \in Instruction
      /\ [op |-> "stop", arg |-> 0] \in Instruction
      /\ \A b \in Nat \cup {"address"} : [op |-> "byte", arg |-> b] \in Instruction
  BY DEF Instruction, Packing
<1>2. SendPacket(reg, val) \in Seq(Instruction)
  BY <1>1, DoIs, JoinedIn DEF SendPacket
<1> QED
  BY <1>2 DEF SendPacket, Do, Is

LEMMA IsLeft ==
  ASSUME NEW S, NEW s \in Seq(S), NEW u \in Seq(S), NEW k, NEW op, NEW arg,
         Is(s, k, op, arg)
  PROVE  Is(s \o u, k, op, arg)
BY Joined DEF Is

LEMMA IsRight ==
  ASSUME NEW S, NEW s \in Seq(S), NEW u \in Seq(S), NEW k, NEW op, NEW arg,
         Is(u, k, op, arg)
  PROVE  Is(s \o u, Len(s) + k, op, arg)
<1>1. /\ Len(s \o u) = Len(s) + Len(u) /\ Len(s) \in Nat /\ Len(u) \in Nat
      /\ k \in 1 .. Len(u) /\ u[k] = [op |-> op, arg |-> arg]
      /\ (s \o u)[Len(s) + k] = u[k]
  BY Joined DEF Is
<1>2. Len(s) + k \in 1 .. Len(s \o u)
  BY <1>1
<1> QED
  BY <1>1, <1>2 DEF Is

\* The packets one after the other.
LEMMA PacketLeft ==
  ASSUME NEW S, NEW s \in Seq(S), NEW u \in Seq(S), NEW o, NEW n, Packet(s, o, n)
  PROVE  Packet(s \o u, o, n)
BY IsLeft DEF Packet

LEMMA PacketRight ==
  ASSUME NEW S, NEW s \in Seq(S), NEW u \in Seq(S), NEW o \in Nat, NEW n, Packet(u, o, n)
  PROVE  Packet(s \o u, Len(s) + o, n)
<1>1. /\ Is(s \o u, Len(s) + (o + 1), "start", 0)
      /\ Is(s \o u, Len(s) + (o + 2), "byte", "address")
      /\ Is(s \o u, Len(s) + (o + 3), "byte", CodecSettings[n][1])
      /\ Is(s \o u, Len(s) + (o + 4), "byte", CodecSettings[n][2])
      /\ Is(s \o u, Len(s) + (o + 5), "stop", 0)
  BY IsRight DEF Packet
<1>2. /\ Len(s) \in Nat
      /\ Len(s) + (o + 1) = (Len(s) + o) + 1 /\ Len(s) + (o + 2) = (Len(s) + o) + 2
      /\ Len(s) + (o + 3) = (Len(s) + o) + 3 /\ Len(s) + (o + 4) = (Len(s) + o) + 4
      /\ Len(s) + (o + 5) = (Len(s) + o) + 5
  OBVIOUS
<1> QED
  BY <1>1, <1>2 DEF Packet

LEMMA PacketsCode ==
  ASSUME NEW f \in [1 .. 6 -> Seq(Instruction)],
         \A n \in 1 .. 6 : f[n] = SendPacket(CodecSettings[n][1], CodecSettings[n][2])
  PROVE  /\ FlattenSeq(f) \in Seq(Instruction) /\ Len(FlattenSeq(f)) = 30
         /\ \A n \in 1 .. 6 : Packet(FlattenSeq(f), 5 * n - 5, n)
<1>1. ASSUME NEW n \in 1 .. 6
      PROVE  f[n] \in Seq(Instruction) /\ Len(f[n]) = 5 /\ Packet(f[n], 0, n)
  <2>1. PICK reg \in Nat, val \in Nat :
          reg = CodecSettings[n][1] /\ val = CodecSettings[n][2]
    BY CodecSettingsAre
  <2>2. f[n] = SendPacket(reg, val)
    BY <2>1
  <2>3. 0 + 1 = 1 /\ 0 + 2 = 2 /\ 0 + 3 = 3 /\ 0 + 4 = 4 /\ 0 + 5 = 5
    OBVIOUS
  <2>4. Packet(SendPacket(reg, val), 0, n)
    BY <2>1, <2>3, SendPacketCode DEF Packet
  <2> QED
    BY <2>2, <2>4, SendPacketCode
<1>2. FlattenSeq(f) = f[1] \o f[2] \o f[3] \o f[4] \o f[5] \o f[6]
  <2>1. 6 \in Nat
    OBVIOUS
  <2> QED
    BY <2>1, FlattenFirst
<1> DEFINE Whole(s, m) == /\ s \in Seq(Instruction) /\ Len(s) = 5 * m
                          /\ \A n \in 1 .. m : Packet(s, 5 * n - 5, n)
<1>3. Whole(f[1], 1)
  <2>1. \A n \in 1 .. 1 : n = 1 /\ 5 * n - 5 = 0
    OBVIOUS
  <2>2. 1 \in 1 .. 6 /\ 5 * 1 = 5
    OBVIOUS
  <2> QED
    BY <1>1, <2>1, <2>2
<1>4. ASSUME NEW s, NEW m \in 1 .. 5, Whole(s, m)
      PROVE  Whole(s \o f[m + 1], m + 1)
  <2>1. m + 1 \in 1 .. 6 /\ 0 \in Nat /\ 5 * (m + 1) = 5 * m + 5
    OBVIOUS
  <2>2. PICK u \in Seq(Instruction) : u = f[m + 1] /\ Len(u) = 5 /\ Packet(u, 0, m + 1)
    BY <1>1, <2>1
  <2>3. s \o u \in Seq(Instruction) /\ Len(s \o u) = 5 * (m + 1)
    <3>1. s \in Seq(Instruction) /\ Len(s) = 5 * m
      BY <1>4
    <3>2. s \o u \in Seq(Instruction) /\ Len(s \o u) = Len(s) + Len(u)
      BY <3>1, JoinedLength
    <3> HIDE DEF Whole
    <3> QED
      BY <2>1, <2>2, <3>1, <3>2
  <2>4. ASSUME NEW n \in 1 .. m PROVE Packet(s \o u, 5 * n - 5, n)
    BY <1>4, <2>2, PacketLeft
  <2>5. Packet(s \o u, 5 * (m + 1) - 5, m + 1)
    <3>1. Packet(s \o u, Len(s) + 0, m + 1)
      BY <1>4, <2>1, <2>2, PacketRight
    <3>2. Len(s) + 0 = 5 * (m + 1) - 5
      BY <1>4
    <3> QED
      BY <3>1, <3>2
  <2>6. \A n \in 1 .. m + 1 : n \in 1 .. m \/ n = m + 1
    OBVIOUS
  <2> QED
    BY <2>2, <2>3, <2>4, <2>5, <2>6
<1> HIDE DEF Whole
<1>5. Whole(f[1] \o f[2], 2)
  BY <1>3, <1>4
<1>6. Whole(f[1] \o f[2] \o f[3], 3)
  BY <1>5, <1>4
<1>7. Whole(f[1] \o f[2] \o f[3] \o f[4], 4)
  BY <1>6, <1>4
<1>8. Whole(f[1] \o f[2] \o f[3] \o f[4] \o f[5], 5)
  BY <1>7, <1>4
<1>9. Whole(f[1] \o f[2] \o f[3] \o f[4] \o f[5] \o f[6], 6)
  BY <1>8, <1>4
<1> QED
  BY <1>2, <1>9 DEF Whole

LEMMA CodecCode ==
  LET s == ConfigureCodec IN
  /\ s \in Seq(Instruction) /\ Len(s) = 32
  /\ Is(s, 1, "on", "I2C2") /\ Is(s, 32, "off", "I2C2")
  /\ \A n \in 1 .. 6 : Packet(s, 1 + (5 * n - 5), n)
<1> DEFINE f == [i \in DOMAIN CodecSettings |->
                   SendPacket(CodecSettings[i][1], CodecSettings[i][2])]
           on1 == Do("on", "I2C2")
           off1 == Do("off", "I2C2")
<1>1. ConfigureCodec = on1 \o FlattenSeq(f) \o off1
  BY DEF ConfigureCodec, Each
<1>2. /\ f \in [1 .. 6 -> Seq(Instruction)]
      /\ \A n \in 1 .. 6 : f[n] = SendPacket(CodecSettings[n][1], CodecSettings[n][2])
  BY CodecSettingsAre, SendPacketCode
<1> HIDE DEF f
<1>3. PICK p \in Seq(Instruction) :
        /\ p = FlattenSeq(f) /\ Len(p) = 30
        /\ \A n \in 1 .. 6 : Packet(p, 5 * n - 5, n)
  BY <1>2, PacketsCode
<1>4. /\ on1 \in Seq(Instruction) /\ Len(on1) = 1 /\ Is(on1, 1, "on", "I2C2")
      /\ off1 \in Seq(Instruction) /\ Len(off1) = 1 /\ Is(off1, 1, "off", "I2C2")
  <2>1. /\ [op |-> "on", arg |-> "I2C2"] \in Instruction
        /\ [op |-> "off", arg |-> "I2C2"] \in Instruction
    BY DEF Instruction, Switching, Names
  <2> QED
    BY <2>1, DoIs DEF Is
<1> HIDE DEF on1, off1
<1>5. /\ on1 \o p \in Seq(Instruction) /\ Len(on1 \o p) = 31
      /\ (on1 \o p) \o off1 \in Seq(Instruction) /\ Len((on1 \o p) \o off1) = 32
  <2>1. on1 \o p \in Seq(Instruction) /\ Len(on1 \o p) = Len(on1) + Len(p)
    BY <1>4, JoinedLength
  <2>2. /\ (on1 \o p) \o off1 \in Seq(Instruction)
        /\ Len((on1 \o p) \o off1) = Len(on1 \o p) + Len(off1)
    BY <1>4, <2>1, JoinedLength
  <2> QED
    BY <1>3, <1>4, <2>1, <2>2
<1>6. Is((on1 \o p) \o off1, 1, "on", "I2C2")
  BY <1>3, <1>4, <1>5, IsLeft
<1>7. Is((on1 \o p) \o off1, 32, "off", "I2C2")
  <2>1. Is((on1 \o p) \o off1, Len(on1 \o p) + 1, "off", "I2C2")
    BY <1>4, <1>5, IsRight
  <2> QED
    BY <1>5, <2>1
<1>8. ASSUME NEW n \in 1 .. 6
      PROVE  Packet((on1 \o p) \o off1, 1 + (5 * n - 5), n)
  <2>1. 5 * n - 5 \in Nat
    OBVIOUS
  <2>2. Packet(on1 \o p, Len(on1) + (5 * n - 5), n)
    BY <1>3, <1>4, <2>1, PacketRight
  <2> QED
    BY <1>4, <1>5, <2>2, PacketLeft
<1> QED
  BY <1>1, <1>3, <1>5, <1>6, <1>7, <1>8

\* Lighting the panel, after the first k instructions of s.
Lighting(s, k) ==
  /\ Is(s, k + 1, "clear", "power") /\ Is(s, k + 2, "delay", 100)
  /\ Is(s, k + 3, "clear", "cs1") /\ Is(s, k + 4, "send", <<{1}, <<"on", TRUE>>>>)
  /\ Is(s, k + 5, "set", "cs1") /\ Is(s, k + 6, "set", "dc1")

\* One instruction more.
LEMMA DoNext ==
  ASSUME NEW s \in Seq(Instruction), NEW k \in Nat, Len(s) = k,
         NEW op, NEW arg, [op |-> op, arg |-> arg] \in Instruction
  PROVE  /\ s \o Do(op, arg) \in Seq(Instruction) /\ Len(s \o Do(op, arg)) = k + 1
         /\ Is(s \o Do(op, arg), k + 1, op, arg)
         /\ \A i \in 1 .. k : (s \o Do(op, arg))[i] = s[i]
<1>1. PICK u \in Seq(Instruction) :
        u = Do(op, arg) /\ Len(u) = 1 /\ u[1] = [op |-> op, arg |-> arg]
  BY DoIs
<1>2. s \o u \in Seq(Instruction) /\ Len(s \o u) = Len(s) + Len(u)
  BY JoinedLength
<1>3. Len(s \o u) = k + 1
  BY <1>1, <1>2
<1>4. \A i \in 1 .. Len(s) : (s \o u)[i] = s[i]
  BY Joined
<1>5. (s \o u)[Len(s) + 1] = u[1]
  <2>1. 1 \in 1 .. Len(u)
    BY <1>1
  <2> QED
    BY <2>1, Joined
<1>6. k + 1 \in 1 .. k + 1
  OBVIOUS
<1>7. Is(s \o u, k + 1, op, arg)
  BY <1>1, <1>3, <1>5, <1>6 DEF Is
<1> QED
  BY <1>1, <1>2, <1>3, <1>4, <1>7

\* What stays where it is.
Extends(u, s) ==
  Len(s) <= Len(u) /\ \A i \in 1 .. Len(s) : u[i] = s[i]

LEMMA IsKept ==
  ASSUME NEW S, NEW s \in Seq(S), NEW u \in Seq(S), Extends(u, s),
         NEW k, NEW op, NEW arg, Is(s, k, op, arg)
  PROVE  Is(u, k, op, arg)
<1>1. k \in 1 .. Len(s) /\ s[k] = [op |-> op, arg |-> arg]
      /\ Len(s) \in Nat /\ Len(u) \in Nat /\ Len(s) <= Len(u)
  BY DEF Is, Extends
<1>2. k \in 1 .. Len(u) /\ u[k] = s[k]
  BY <1>1 DEF Extends
<1> QED
  BY <1>1, <1>2 DEF Is

LEMMA JoinedExtends ==
  ASSUME NEW S, NEW s \in Seq(S), NEW u \in Seq(S)
  PROVE  Extends(s \o u, s)
<1>1. Len(s \o u) = Len(s) + Len(u) /\ Len(s) \in Nat /\ Len(u) \in Nat
      /\ \A i \in 1 .. Len(s) : (s \o u)[i] = s[i]
  BY Joined
<1> QED
  BY <1>1 DEF Extends

LEMMA LitCode ==
  LET s == sendDisplayByte(1, <<"on", TRUE>>) IN
  /\ s \in Seq(Instruction) /\ Len(s) = 3
  /\ Is(s, 1, "clear", "cs1") /\ Is(s, 2, "send", <<{1}, <<"on", TRUE>>>>)
  /\ Is(s, 3, "set", "cs1")
<1>1. sendDisplayByte(1, <<"on", TRUE>>) \in Seq(InLight)
  <2>1. <<"on", TRUE>> \in BytesSent
    BY DEF BytesSent
  <2> QED
    BY <2>1, DisplayPinsAre, ByteCode
<1>2. sendDisplayByte(1, <<"on", TRUE>>) \in Seq(Instruction)
  BY <1>1, InstructionsAre
<1> DEFINE b == <<{1}, <<"on", TRUE>>>>
<1>3. sendDisplayByte(1, <<"on", TRUE>>)
        = Do("clear", "cs1") \o Do("send", b) \o Do("set", "cs1")
  BY DEF sendDisplayByte, CS
<1> HIDE DEF b
<1>4. LET s == Do("clear", "cs1") \o Do("send", b) \o Do("set", "cs1") IN
      /\ Len(s) = 3 /\ Is(s, 1, "clear", "cs1") /\ Is(s, 2, "send", b)
      /\ Is(s, 3, "set", "cs1")
  BY DEF Do, Is
<1> QED
  BY <1>2, <1>3, <1>4 DEF b

LEMMA LightingCode ==
  \E k \in Nat : /\ configureDisplay \in Seq(Instruction)
                 /\ Len(configureDisplay) = k + 6
                 /\ \A i \in 1 .. k : configureDisplay[i] \in InDark
                 /\ Lighting(configureDisplay, k)
<1>1. /\ [op |-> "clear", arg |-> "power"] \in Instruction
      /\ [op |-> "delay", arg |-> 100] \in Instruction
      /\ [op |-> "set", arg |-> "dc1"] \in Instruction
  BY DEF Instruction, Moving, Delaying, Pin
<1>2. PICK s0 \in Seq(Instruction), k \in Nat :
        s0 = Blanking /\ Len(s0) = k /\ \A i \in 1 .. k : s0[i] \in InDark
  <2>1. Blanking \in Seq(Instruction) /\ Blanking \in Seq(InDark)
    BY BlankingCode, InstructionsAre
  <2>2. Len(Blanking) \in Nat /\ \A i \in 1 .. Len(Blanking) : Blanking[i] \in InDark
    BY <2>1
  <2> QED
    BY <2>1, <2>2
<1>3. PICK s1 \in Seq(Instruction) :
        /\ s1 = s0 \o Do("clear", "power") /\ Len(s1) = k + 1
        /\ Is(s1, k + 1, "clear", "power") /\ \A i \in 1 .. k : s1[i] = s0[i]
  <2> DEFINE u == s0 \o Do("clear", "power")
  <2>1. /\ u \in Seq(Instruction) /\ Len(u) = k + 1
        /\ Is(u, k + 1, "clear", "power") /\ \A i \in 1 .. k : u[i] = s0[i]
    BY <1>1, <1>2, DoNext
  <2> QED
    BY <2>1
<1>4. PICK s2 \in Seq(Instruction) :
        /\ s2 = s1 \o Do("delay", 100) /\ Len(s2) = (k + 1) + 1
        /\ Is(s2, (k + 1) + 1, "delay", 100) /\ \A i \in 1 .. k + 1 : s2[i] = s1[i]
  <2> DEFINE u == s1 \o Do("delay", 100)
  <2>1. k + 1 \in Nat
    OBVIOUS
  <2>2. /\ u \in Seq(Instruction) /\ Len(u) = (k + 1) + 1
        /\ Is(u, (k + 1) + 1, "delay", 100) /\ \A i \in 1 .. k + 1 : u[i] = s1[i]
    <3>1. PICK m \in Nat : m = k + 1
      BY <2>1
    <3>2. /\ u \in Seq(Instruction) /\ Len(u) = m + 1
          /\ Is(u, m + 1, "delay", 100) /\ \A i \in 1 .. m : u[i] = s1[i]
      <4>1. Len(s1) = m /\ [op |-> "delay", arg |-> 100] \in Instruction
        BY <1>1, <1>3, <3>1
      <4> QED
        BY <4>1, DoNext
    <3> QED
      BY <3>1, <3>2
  <2> QED
    BY <2>2
<1>5. PICK t \in Seq(Instruction) :
        /\ t = sendDisplayByte(1, <<"on", TRUE>>) /\ Len(t) = 3
        /\ Is(t, 1, "clear", "cs1") /\ Is(t, 2, "send", <<{1}, <<"on", TRUE>>>>)
        /\ Is(t, 3, "set", "cs1")
  BY LitCode
<1>6. PICK s3 \in Seq(Instruction) :
        /\ s3 = s2 \o t /\ Len(s3) = k + 5
        /\ Is(s3, k + 3, "clear", "cs1") /\ Is(s3, k + 4, "send", <<{1}, <<"on", TRUE>>>>)
        /\ Is(s3, k + 5, "set", "cs1") /\ Extends(s3, s2)
  <2>1. s2 \o t \in Seq(Instruction) /\ Len(s2 \o t) = Len(s2) + Len(t)
    BY JoinedLength
  <2>2. /\ Is(s2 \o t, Len(s2) + 1, "clear", "cs1")
        /\ Is(s2 \o t, Len(s2) + 2, "send", <<{1}, <<"on", TRUE>>>>)
        /\ Is(s2 \o t, Len(s2) + 3, "set", "cs1")
    BY <1>5, IsRight
  <2>3. Len(s2) + 1 = k + 3 /\ Len(s2) + 2 = k + 4 /\ Len(s2) + 3 = k + 5
    BY <1>4
  <2>4. Extends(s2 \o t, s2)
    BY JoinedExtends
  <2> QED
    BY <1>5, <2>1, <2>2, <2>3, <2>4
<1>7. PICK s4 \in Seq(Instruction) :
        /\ s4 = s3 \o Do("set", "dc1") /\ Len(s4) = (k + 5) + 1
        /\ Is(s4, (k + 5) + 1, "set", "dc1") /\ \A i \in 1 .. k + 5 : s4[i] = s3[i]
  <2> DEFINE u == s3 \o Do("set", "dc1")
  <2>1. k + 5 \in Nat
    OBVIOUS
  <2>2. /\ u \in Seq(Instruction) /\ Len(u) = (k + 5) + 1
        /\ Is(u, (k + 5) + 1, "set", "dc1") /\ \A i \in 1 .. k + 5 : u[i] = s3[i]
    <3>1. PICK m \in Nat : m = k + 5
      BY <2>1
    <3>2. /\ u \in Seq(Instruction) /\ Len(u) = m + 1
          /\ Is(u, m + 1, "set", "dc1") /\ \A i \in 1 .. m : u[i] = s3[i]
      <4>1. Len(s3) = m /\ [op |-> "set", arg |-> "dc1"] \in Instruction
        BY <1>1, <1>6, <3>1
      <4> QED
        BY <4>1, DoNext
    <3> QED
      BY <3>1, <3>2
  <2> QED
    BY <2>2
<1>8. configureDisplay = s4
  <2>1. configureDisplay =
          (((Blanking \o Do("clear", "power")) \o Do("delay", 100))
           \o sendDisplayByte(1, <<"on", TRUE>>)) \o Do("set", "dc1")
    BY DEF configureDisplay, Blanking, delayMs, DC
  <2> QED
    BY <1>2, <1>3, <1>4, <1>5, <1>6, <1>7, <2>1
<1>9. /\ (k + 1) + 1 = k + 2 /\ (k + 5) + 1 = k + 6
      /\ k <= k + 1 /\ k + 1 <= k + 2 /\ k + 2 <= k + 5 /\ k + 5 <= k + 6
  OBVIOUS
<1>10. Extends(s2, s1) /\ Extends(s4, s3)
  BY <1>3, <1>4, <1>6, <1>7, <1>9 DEF Extends
<1>11. Is(s4, k + 1, "clear", "power") /\ Is(s4, k + 2, "delay", 100)
  <2>1. Is(s3, k + 1, "clear", "power") /\ Is(s3, k + 2, "delay", 100)
    <3>1. Is(s2, k + 1, "clear", "power")
      BY <1>3, <1>10, IsKept
    <3>2. Is(s2, k + 2, "delay", 100)
      BY <1>4, <1>9
    <3>3. Extends(s3, s2)
      BY <1>6
    <3> QED
      BY <3>1, <3>2, <3>3, IsKept
  <2> QED
    BY <1>10, <2>1, IsKept
<1>12. /\ Is(s4, k + 3, "clear", "cs1") /\ Is(s4, k + 4, "send", <<{1}, <<"on", TRUE>>>>)
       /\ Is(s4, k + 5, "set", "cs1") /\ Is(s4, k + 6, "set", "dc1")
  <2>1. Is(s4, k + 6, "set", "dc1")
    BY <1>7, <1>9
  <2>2. /\ Is(s3, k + 3, "clear", "cs1") /\ Is(s3, k + 5, "set", "cs1")
        /\ Is(s3, k + 4, "send", <<{1}, <<"on", TRUE>>>>)
    BY <1>6
  <2> QED
    BY <1>10, <2>1, <2>2, IsKept
<1>13. ASSUME NEW i \in 1 .. k PROVE s4[i] \in InDark
  <2>1. i \in 1 .. k + 1 /\ i \in 1 .. k + 2 /\ i \in 1 .. k + 5
    OBVIOUS
  <2>2. s1[i] = s0[i] /\ s2[i] = s1[i] /\ s4[i] = s3[i] /\ s0[i] \in InDark
    BY <1>2, <1>3, <1>4, <1>7, <2>1
  <2>3. s3[i] = s2[i]
    BY <1>4, <1>6, <1>9, <2>1 DEF Extends
  <2> QED
    BY <2>2, <2>3
<1> QED
  BY <1>7, <1>8, <1>9, <1>11, <1>12, <1>13 DEF Lighting

LEMMA LightingKept ==
  ASSUME NEW S, NEW s \in Seq(S), NEW u \in Seq(S), Extends(u, s), NEW k, Lighting(s, k)
  PROVE  Lighting(u, k)
BY IsKept DEF Lighting

LEMMA LightingRight ==
  ASSUME NEW S, NEW s \in Seq(S), NEW u \in Seq(S), NEW k \in Nat, Lighting(u, k)
  PROVE  Lighting(s \o u, Len(s) + k)
<1>1. /\ Is(s \o u, Len(s) + (k + 1), "clear", "power")
      /\ Is(s \o u, Len(s) + (k + 2), "delay", 100)
      /\ Is(s \o u, Len(s) + (k + 3), "clear", "cs1")
      /\ Is(s \o u, Len(s) + (k + 4), "send", <<{1}, <<"on", TRUE>>>>)
      /\ Is(s \o u, Len(s) + (k + 5), "set", "cs1")
      /\ Is(s \o u, Len(s) + (k + 6), "set", "dc1")
  BY IsRight DEF Lighting
<1>2. /\ Len(s) + (k + 1) = (Len(s) + k) + 1 /\ Len(s) + (k + 2) = (Len(s) + k) + 2
      /\ Len(s) + (k + 3) = (Len(s) + k) + 3 /\ Len(s) + (k + 4) = (Len(s) + k) + 4
      /\ Len(s) + (k + 5) = (Len(s) + k) + 5 /\ Len(s) + (k + 6) = (Len(s) + k) + 6
  OBVIOUS
<1> QED
  BY <1>1, <1>2 DEF Lighting

LEMMA PacketKept ==
  ASSUME NEW S, NEW s \in Seq(S), NEW u \in Seq(S), Extends(u, s), NEW o, NEW n,
         Packet(s, o, n)
  PROVE  Packet(u, o, n)
BY IsKept DEF Packet

LEMMA ExtendsAgain ==
  ASSUME NEW S, NEW s \in Seq(S), NEW u \in Seq(S), NEW v \in Seq(S),
         Extends(u, s), Extends(v, u)
  PROVE  Extends(v, s)
<1>1. Len(s) \in Nat /\ Len(u) \in Nat /\ Len(v) \in Nat
  OBVIOUS
<1> QED
  BY <1>1 DEF Extends

\* After p, instructions that neither disturb the panel's supply nor the codec.
LitSince(s, p) ==
  /\ s \in Seq(Instruction) /\ Extends(s, p)
  /\ \A i \in 1 .. Len(s) : i > Len(p) => s[i] \in InLight

LEMMA LitOn ==
  ASSUME NEW p \in Seq(Instruction), NEW s, LitSince(s, p), NEW x \in Seq(InLight)
  PROVE  LitSince(s \o x, p)
<1>1. s \in Seq(Instruction) /\ x \in Seq(Instruction)
  BY InstructionsAre DEF LitSince
<1>2. s \o x \in Seq(Instruction) /\ Extends(s \o x, s)
  BY <1>1, JoinedExtends, JoinedLength
<1>3. Extends(s \o x, p)
  BY <1>1, <1>2, ExtendsAgain DEF LitSince
<1>4. ASSUME NEW i \in 1 .. Len(s \o x), i > Len(p)
      PROVE  (s \o x)[i] \in InLight
  <2>0. PICK l \in Nat, n \in Nat : l = Len(s) /\ n = Len(x) /\ Len(s \o x) = l + n
    BY <1>1, JoinedLength
  <2>1. CASE i \in 1 .. l
    BY <1>1, <1>4, <2>0, <2>1, Joined DEF LitSince
  <2>2. CASE i > l
    <3>1. PICK j \in 1 .. n : i = l + j
      <4>1. i - l \in 1 .. n /\ i = l + (i - l)
        BY <2>0, <2>2
      <4> QED
        BY <4>1
    <3>2. (s \o x)[l + j] = x[j]
      BY <1>1, <2>0, Joined
    <3>3. x[j] \in InLight
      BY <2>0
    <3> QED
      BY <3>1, <3>2, <3>3
  <2> QED
    BY <2>0, <2>1, <2>2
<1> QED
  BY <1>2, <1>3, <1>4 DEF LitSince

-----------------------------------------------------------------------------
(***************************************************************************)
(* The displays' side of the program.  A scene is what the instructions    *)
(* for the displays have made of the pins and of the bytes so far; Goes    *)
(* says what one of them makes of it, and that it is heard as it is meant: *)
(* by a display that is selected, has its transmitter on, and takes for a  *)
(* command what is one, and the panel lit only with its memory clear.      *)
(***************************************************************************)
Lines == {"cs1", "cs2", "dc1", "dc2"}
Ready == Lines \cup {"SPI1", "settings"}
Scene == [up : SUBSET Ready, pos : [Display -> Nat], zeros : Nat]

Raise(x, l) == [up |-> x.up \cup {l}, pos |-> x.pos, zeros |-> x.zeros]
Lower(x, l) == [up |-> x.up \ {l}, pos |-> x.pos, zeros |-> x.zeros]
Filled(x, ds) ==
  [up |-> x.up,
   pos |-> [d \in Display |-> IF d \in ds THEN (x.pos[d] + 1) % FrameBytes ELSE x.pos[d]],
   zeros |-> IF 1 \in ds /\ x.zeros < FrameBytes THEN x.zeros + 1 ELSE x.zeros]

Listens(x, d) == CS[d] \notin x.up /\ (d = 2 => "SPI1" \in x.up)
Lights(arg) == 1 \in arg[1] /\ arg[2] = <<"on", TRUE>>

Goes(x, op, arg, y) ==
  \/ op = "set" /\ arg \in Lines /\ y = Raise(x, arg)
  \/ op = "clear" /\ arg \in Lines \cup {"power"} /\ y = Lower(x, arg)
  \/ op = "off" /\ arg = "SPI1" /\ y = Lower(x, arg)
  \/ op = "readCalibration" /\ "settings" \notin x.up /\ y = Raise(x, "settings")
  \/ op = "delay" /\ y = x
  \/ /\ op = "send" /\ \A d \in arg[1] : Listens(x, d)
     /\ Lights(arg) => x.zeros = FrameBytes
     /\ \/ arg[2] = Zero /\ (\A d \in arg[1] : DC[d] \in x.up) /\ y = Filled(x, arg[1])
        \/ arg[2] # Zero /\ (\A d \in arg[1] : DC[d] \notin x.up) /\ y = x

\* f is how s goes on from its first a instructions to its first b.
Story(s, f, a, b) ==
  /\ f \in [a .. b -> Scene]
  /\ \A i \in a + 1 .. b : Goes(f[i - 1], s[i].op, s[i].arg, f[i])

Runs(s, a, x, y) ==
  /\ s \in Seq(Instruction) /\ a \in 0 .. Len(s)
  /\ \E f : Story(s, f, a, Len(s)) /\ f[a] = x /\ f[Len(s)] = y

LEMMA RunsOfNothing ==
  ASSUME NEW s \in Seq(Instruction), NEW x \in Scene
  PROVE  Runs(s, Len(s), x, x)
<1>1. PICK n \in Nat : n = Len(s)
  OBVIOUS
<1> DEFINE f == [i \in n .. n |-> x]
<1>2. f \in [n .. n -> Scene] /\ f[n] = x /\ n + 1 .. n = {} /\ n \in 0 .. n
  OBVIOUS
<1>3. Story(s, f, n, n)
  BY <1>2 DEF Story
<1> QED
  BY <1>1, <1>2, <1>3 DEF Runs

LEMMA RunsOn ==
  ASSUME NEW s, NEW u, NEW a, NEW x, NEW y, NEW z, Runs(s, a, x, y), Runs(u, 0, y, z)
  PROVE  Runs(s \o u, a, x, z)
<1>1. s \in Seq(Instruction) /\ u \in Seq(Instruction)
  BY DEF Runs
<1>2. PICK n \in Nat, m \in Nat : n = Len(s) /\ m = Len(u) /\ a \in 0 .. n
  BY <1>1 DEF Runs
<1>3. PICK f : Story(s, f, a, n) /\ f[a] = x /\ f[n] = y
  BY <1>2 DEF Runs
<1>4. PICK g : Story(u, g, 0, m) /\ g[0] = y /\ g[m] = z
  BY <1>2 DEF Runs
<1>5. PICK v \in Seq(Instruction) :
        /\ v = s \o u /\ Len(v) = n + m
        /\ \A i \in 1 .. n : v[i] = s[i]
        /\ \A i \in 1 .. m : v[n + i] = u[i]
  <2>1. s \o u \in Seq(Instruction) /\ Len(s \o u) = Len(s) + Len(u)
    BY <1>1, JoinedLength
  <2>2. /\ \A i \in 1 .. Len(s) : (s \o u)[i] = s[i]
        /\ \A i \in 1 .. Len(u) : (s \o u)[Len(s) + i] = u[i]
    BY <1>1, Joined
  <2> QED
    BY <1>2, <2>1, <2>2
<1> DEFINE h == [i \in a .. n + m |-> IF i <= n THEN f[i] ELSE g[i - n]]
<1>6. ASSUME NEW i \in a .. n + m PROVE h[i] \in Scene
  <2>1. CASE i <= n
    <3>1. i \in a .. n
      BY <1>2, <2>1
    <3> QED
      BY <1>3, <2>1, <3>1 DEF Story
  <2>2. CASE ~(i <= n)
    <3>1. i - n \in 0 .. m
      BY <1>2, <2>2
    <3> QED
      BY <1>4, <2>2, <3>1 DEF Story
  <2> QED
    BY <2>1, <2>2
<1>7. ASSUME NEW i \in a + 1 .. n + m
      PROVE  Goes(h[i - 1], v[i].op, v[i].arg, h[i])
  <2>0. i \in a .. n + m /\ i - 1 \in a .. n + m /\ a \in Nat
    BY <1>2
  <2>1. CASE i <= n
    <3>1. i \in a + 1 .. n /\ i \in 1 .. n /\ i - 1 <= n
      BY <1>2, <2>1
    <3>2. Goes(f[i - 1], s[i].op, s[i].arg, f[i])
      BY <1>3, <3>1 DEF Story
    <3> QED
      BY <1>5, <2>0, <2>1, <3>1, <3>2
  <2>2. CASE ~(i <= n)
    <3>1. PICK j \in 1 .. m : i = n + j /\ j = i - n
      <4>1. i - n \in 1 .. m /\ i = n + (i - n)
        BY <1>2, <2>2
      <4> QED
        BY <4>1
    <3>2. j \in 0 + 1 .. m
      OBVIOUS
    <3>3. Goes(g[j - 1], u[j].op, u[j].arg, g[j])
      BY <1>4, <3>2 DEF Story
    <3>4. v[i] = u[j] /\ h[i] = g[j]
      BY <1>5, <2>0, <2>2, <3>1
    <3>5. h[i - 1] = g[j - 1]
      <4>1. CASE j = 1
        <5>1. i - 1 = n /\ j - 1 = 0
          BY <1>2, <3>1, <4>1
        <5> QED
          BY <1>3, <1>4, <2>0, <5>1
      <4>2. CASE j # 1
        <5>1. ~(i - 1 <= n) /\ (i - 1) - n = j - 1
          BY <1>2, <3>1, <4>2
        <5> QED
          BY <2>0, <5>1
      <4> QED
        BY <4>1, <4>2
    <3> QED
      BY <3>3, <3>4, <3>5
  <2> QED
    BY <2>1, <2>2
<1>8. a \in a .. n + m /\ n + m \in a .. n + m /\ a \in 0 .. n + m
  BY <1>2
<1>9. h[a] = x /\ h[n + m] = z
  <2>1. h[a] = f[a]
    BY <1>2, <1>8
  <2>2. CASE m = 0
    BY <1>2, <1>3, <1>4, <1>8, <2>2
  <2>3. CASE m # 0
    <3>1. ~(n + m <= n) /\ (n + m) - n = m
      BY <1>2, <2>3
    <3> QED
      BY <1>3, <1>4, <1>8, <2>1, <3>1
  <2> QED
    BY <1>3, <2>1, <2>2, <2>3
<1>10. h \in [a .. n + m -> Scene]
  BY <1>6
<1> HIDE DEF h
<1>11. Story(v, h, a, n + m)
  BY <1>7, <1>10 DEF Story
<1> QED
  BY <1>5, <1>8, <1>9, <1>11 DEF Runs

LEMMA RunsOnce ==
  ASSUME NEW x \in Scene, NEW y \in Scene, NEW op, NEW arg,
         [op |-> op, arg |-> arg] \in Instruction, Goes(x, op, arg, y)
  PROVE  Runs(Do(op, arg), 0, x, y)
<1>1. PICK s \in Seq(Instruction) :
        s = Do(op, arg) /\ Len(s) = 1 /\ s[1] = [op |-> op, arg |-> arg]
  BY DoIs
<1> DEFINE f == [i \in 0 .. 1 |-> IF i = 0 THEN x ELSE y]
<1>2. f \in [0 .. 1 -> Scene] /\ f[0] = x /\ f[1] = y
  OBVIOUS
<1>3. s[1].op = op /\ s[1].arg = arg
  BY <1>1
<1> HIDE DEF f
<1>4. ASSUME NEW i \in 0 + 1 .. 1 PROVE Goes(f[i - 1], s[i].op, s[i].arg, f[i])
  <2>1. i = 1 /\ i - 1 = 0
    OBVIOUS
  <2> QED
    BY <1>2, <1>3, <2>1
<1>5. Story(s, f, 0, 1)
  BY <1>2, <1>4 DEF Story
<1> QED
  BY <1>1, <1>2, <1>5 DEF Runs

\* Sequences that run one after the other, from one scene of g to the next.
LEMMA RunsEach ==
  ASSUME NEW n \in Nat, NEW s, DOMAIN s = 1 .. n, s = [i \in DOMAIN s |-> s[i]],
         NEW g, g[0] \in Scene,
         \A i \in 1 .. n : Runs(s[i], 0, g[i - 1], g[i])
  PROVE  Runs(FlattenSeq(s), 0, g[0], g[n])
<1>1. s \in [1 .. n -> Seq(Instruction)]
  BY DEF Runs
<1> DEFINE H == {k \in Nat : k + 1 \in 1 .. n =>
                               Runs(Joints(s, n)[k + 1], 0, g[0], g[k + 1])}
<1>2. 0 \in H
  <2> SUFFICES ASSUME 1 \in 1 .. n PROVE Runs(Joints(s, n)[1], 0, g[0], g[1])
    OBVIOUS
  <2>1. Joints(s, n)[1] = s[1]
    BY <1>1, JointsNext
  <2>2. Runs(s[1], 0, g[1 - 1], g[1]) /\ 1 - 1 = 0
    OBVIOUS
  <2> QED
    BY <2>1, <2>2
<1>3. ASSUME NEW k \in H PROVE k + 1 \in H
  <2> SUFFICES ASSUME (k + 1) + 1 \in 1 .. n
               PROVE  Runs(Joints(s, n)[(k + 1) + 1], 0, g[0], g[(k + 1) + 1])
    OBVIOUS
  <2>1. PICK i \in 1 .. n, j \in 1 .. n : i = k + 1 /\ j = (k + 1) + 1 /\ j = i + 1 /\ j - 1 = i
    <3>1. /\ k \in Nat /\ k + 1 \in 1 .. n /\ (k + 1) + 1 \in 1 .. n
          /\ ((k + 1) + 1) - 1 = k + 1
      OBVIOUS
    <3> QED
      BY <3>1
  <2>2. Runs(Joints(s, n)[i], 0, g[0], g[i])
    BY <2>1
  <2>3. Joints(s, n)[j] = Joints(s, n)[i] \o s[j]
    BY <1>1, <2>1, JointsNext
  <2>4. Runs(s[j], 0, g[i], g[j])
    BY <2>1
  <2> QED
    BY <2>1, <2>2, <2>3, <2>4, RunsOn
<1>4. H = Nat
  <2> HIDE DEF H
  <2>1. H \in SUBSET Nat
    BY DEF H
  <2> QED
    BY <1>2, <1>3, <2>1, InductionOnNat
<1>5. CASE n = 0
  <2>1. FlattenSeq(s) = << >> /\ << >> \in Seq(Instruction) /\ Len(<< >>) = 0
    BY <1>1, <1>5, FlattenIs
  <2>2. Runs(<< >>, Len(<< >>), g[0], g[0])
    BY <2>1, RunsOfNothing
  <2> QED
    BY <1>5, <2>1, <2>2
<1>6. CASE n # 0
  <2>1. PICK k \in Nat : n = k + 1
    <3>1. n - 1 \in Nat /\ n = (n - 1) + 1
      BY <1>6
    <3> QED
      BY <3>1
  <2>2. k \in H /\ n \in 1 .. n /\ n > 0
    BY <1>4, <1>6
  <2>3. Runs(Joints(s, n)[n], 0, g[0], g[n])
    BY <2>1, <2>2
  <2> QED
    BY <1>1, <2>2, <2>3, FlattenIs
<1> QED
  BY <1>5, <1>6

\* What each instruction makes of a scene.
LEMMA SceneIs ==
  ASSUME NEW x \in Scene
  PROVE  /\ x.up \in SUBSET Ready /\ x.pos \in [Display -> Nat] /\ x.zeros \in Nat
         /\ \A l \in Ready : Raise(x, l) \in Scene
         /\ \A l : Lower(x, l) \in Scene
         /\ \A ds \in SUBSET Display : Filled(x, ds) \in Scene
<1>1. x.up \in SUBSET Ready /\ x.pos \in [Display -> Nat] /\ x.zeros \in Nat
  BY DEF Scene
<1>2. ASSUME NEW l \in Ready PROVE Raise(x, l) \in Scene
  <2>1. x.up \cup {l} \in SUBSET Ready
    BY <1>1
  <2> QED
    BY <1>1, <2>1 DEF Scene, Raise
<1>3. ASSUME NEW l PROVE Lower(x, l) \in Scene
  <2>1. x.up \ {l} \in SUBSET Ready
    BY <1>1
  <2> QED
    BY <1>1, <2>1 DEF Scene, Lower
<1>4. ASSUME NEW ds \in SUBSET Display PROVE Filled(x, ds) \in Scene
  <2>1. ASSUME NEW d \in Display PROVE (x.pos[d] + 1) % FrameBytes \in Nat
    BY <1>1, StartUpAssumption
  <2>2. [d \in Display |-> IF d \in ds THEN (x.pos[d] + 1) % FrameBytes ELSE x.pos[d]]
          \in [Display -> Nat]
    BY <1>1, <2>1
  <2>3. (IF 1 \in ds /\ x.zeros < FrameBytes THEN x.zeros + 1 ELSE x.zeros) \in Nat
    BY <1>1
  <2> HIDE DEF Display
  <2> QED
    BY <1>1, <2>2, <2>3 DEF Scene, Filled
<1> QED
  BY <1>1, <1>2, <1>3, <1>4

LEMMA BackUp ==
  ASSUME NEW x \in Scene, NEW l \in x.up
  PROVE  Raise(Lower(x, l), l) = x
<1>1. x = [up |-> x.up, pos |-> x.pos, zeros |-> x.zeros]
  BY DEF Scene
<1>2. (x.up \ {l}) \cup {l} = x.up
  OBVIOUS
<1>3. Lower(x, l).up = x.up \ {l} /\ Lower(x, l).pos = x.pos /\ Lower(x, l).zeros = x.zeros
  BY DEF Lower
<1> QED
  BY <1>1, <1>2, <1>3 DEF Raise

LEMMA PinsRun ==
  ASSUME NEW x \in Scene
  PROVE  /\ \A l \in Lines : Runs(Do("set", l), 0, x, Raise(x, l))
         /\ \A l \in Lines \cup {"power"} : Runs(Do("clear", l), 0, x, Lower(x, l))
         /\ \A ms \in Nat : Runs(delayMs(ms), 0, x, x)
         /\ Runs(Do("off", "SPI1"), 0, x, Lower(x, "SPI1"))
         /\ "settings" \notin x.up =>
              Runs(Do("readCalibration", 0), 0, x, Raise(x, "settings"))
<1>1. Lines \subseteq Ready /\ "settings" \in Ready
  BY DEF Ready
<1>2. Lines \cup {"power"} \subseteq Pin
  BY DEF Lines, Pin
<1>3. ASSUME NEW l \in Lines PROVE Runs(Do("set", l), 0, x, Raise(x, l))
  <2>1. [op |-> "set", arg |-> l] \in Instruction
    BY <1>2 DEF Instruction, Moving
  <2> QED
    BY <1>1, <2>1, SceneIs, RunsOnce DEF Goes
<1>4. ASSUME NEW l \in Lines \cup {"power"} PROVE Runs(Do("clear", l), 0, x, Lower(x, l))
  <2>1. [op |-> "clear", arg |-> l] \in Instruction
    BY <1>2 DEF Instruction, Moving
  <2> QED
    BY <2>1, SceneIs, RunsOnce DEF Goes
<1>5. ASSUME NEW ms \in Nat PROVE Runs(delayMs(ms), 0, x, x)
  <2>1. [op |-> "delay", arg |-> ms] \in Instruction
    BY DEF Instruction, Delaying
  <2> QED
    BY <2>1, RunsOnce DEF Goes, delayMs
<1>6. Runs(Do("off", "SPI1"), 0, x, Lower(x, "SPI1"))
  <2>1. [op |-> "off", arg |-> "SPI1"] \in Instruction
    BY DEF Instruction, Switching, Names
  <2> QED
    BY <2>1, SceneIs, RunsOnce DEF Goes
<1>7. ASSUME "settings" \notin x.up
      PROVE  Runs(Do("readCalibration", 0), 0, x, Raise(x, "settings"))
  <2>1. [op |-> "readCalibration", arg |-> 0] \in Instruction
    BY DEF Instruction, Testing
  <2> QED
    BY <1>1, <1>7, <2>1, SceneIs, RunsOnce DEF Goes
<1> QED
  BY <1>3, <1>4, <1>5, <1>6, <1>7

\* A command, and a byte of data, to displays that are selected.
LEMMA CommandRuns ==
  ASSUME NEW x \in Scene, NEW ds \in SUBSET Display, NEW b \in BytesSent, b # Zero,
         \A d \in ds : Listens(x, d) /\ DC[d] \notin x.up,
         1 \in ds /\ b = <<"on", TRUE>> => x.zeros = FrameBytes
  PROVE  Runs(Do("send", <<ds, b>>), 0, x, x)
<1> DEFINE arg == <<ds, b>>
<1>1. arg[1] = ds /\ arg[2] = b
  OBVIOUS
<1>2. arg \in (SUBSET Display) \X BytesSent
  OBVIOUS
<1> HIDE DEF arg
<1>3. [op |-> "send", arg |-> arg] \in Instruction
  BY <1>2 DEF Instruction, Telling
<1>4. Goes(x, "send", arg, x)
  BY <1>1 DEF Goes, Lights
<1>5. Runs(Do("send", arg), 0, x, x)
  BY <1>3, <1>4, RunsOnce
<1> QED
  BY <1>5 DEF arg

LEMMA DataRuns ==
  ASSUME NEW x \in Scene, NEW ds \in SUBSET Display,
         \A d \in ds : Listens(x, d) /\ DC[d] \in x.up
  PROVE  Runs(Do("send", <<ds, Zero>>), 0, x, Filled(x, ds))
<1> DEFINE arg == <<ds, Zero>>
<1>1. arg[1] = ds /\ arg[2] = Zero
  OBVIOUS
<1>2. arg \in (SUBSET Display) \X BytesSent
  BY DEF BytesSent, BytesInDark
<1> HIDE DEF arg
<1>3. [op |-> "send", arg |-> arg] \in Instruction
  BY <1>2 DEF Instruction, Telling
<1>4. ~Lights(arg)
  BY <1>1 DEF Lights, Zero
<1>5. Goes(x, "send", arg, Filled(x, ds))
  BY <1>1, <1>4 DEF Goes
<1>6. Runs(Do("send", arg), 0, x, Filled(x, ds))
  BY <1>3, <1>5, SceneIs, RunsOnce
<1> QED
  BY <1>6 DEF arg

LEMMA PinNames ==
  /\ CS[1] = "cs1" /\ CS[2] = "cs2" /\ DC[1] = "dc1" /\ DC[2] = "dc2"
  /\ \A d \in Display : CS[d] \in Lines /\ DC[d] \in Lines /\ CS[d] # DC[d]
                        /\ CS[d] # "SPI1" /\ DC[d] # "SPI1"
BY DEF CS, DC, Lines, Display

\* With the chip selected around it.
LEMMA ByteRuns ==
  ASSUME NEW x \in Scene, NEW d \in Display, NEW b \in BytesSent, b # Zero,
         CS[d] \in x.up, DC[d] \notin x.up, d = 2 => "SPI1" \in x.up,
         d = 1 /\ b = <<"on", TRUE>> => x.zeros = FrameBytes
  PROVE  Runs(sendDisplayByte(d, b), 0, x, x)
<1> DEFINE y == Lower(x, CS[d])
<1>1. y \in Scene /\ y.zeros = x.zeros /\ y.up = x.up \ {CS[d]}
  BY SceneIs DEF Lower
<1>2. Runs(Do("clear", CS[d]), 0, x, y)
  BY PinsRun, PinNames
<1> HIDE DEF y
<1>3. Runs(Do("send", <<{d}, b>>), 0, y, y)
  <2>1. {d} \in SUBSET Display
    OBVIOUS
  <2>2. \A e \in {d} : Listens(y, e) /\ DC[e] \notin y.up
    BY <1>1, PinNames DEF Listens
  <2>3. 1 \in {d} /\ b = <<"on", TRUE>> => y.zeros = FrameBytes
    BY <1>1
  <2> QED
    BY <1>1, <2>1, <2>2, <2>3, CommandRuns
<1>4. Runs(Do("set", CS[d]), 0, y, x)
  <2>1. Runs(Do("set", CS[d]), 0, y, Raise(y, CS[d]))
    BY <1>1, PinsRun, PinNames
  <2>2. Raise(y, CS[d]) = x
    BY BackUp DEF y
  <2> QED
    BY <2>1, <2>2
<1> QED
  BY <1>2, <1>3, <1>4, RunsOn DEF sendDisplayByte

LEMMA PanelDataRuns ==
  ASSUME NEW x \in Scene, "cs1" \in x.up, "dc1" \in x.up
  PROVE  Runs(sendDisplayByte(1, Zero), 0, x, Filled(x, {1}))
<1> DEFINE y == Lower(x, "cs1")
<1>1. y \in Scene /\ y.zeros = x.zeros /\ y.pos = x.pos /\ y.up = x.up \ {"cs1"}
  BY SceneIs DEF Lower
<1>2. Runs(Do("clear", CS[1]), 0, x, y)
  BY PinsRun, PinNames DEF Lines
<1> HIDE DEF y
<1>3. Runs(Do("send", <<{1}, Zero>>), 0, y, Filled(y, {1}))
  <2>1. {1} \in SUBSET Display
    BY DEF Display
  <2>2. \A e \in {1} : Listens(y, e) /\ DC[e] \in y.up
    BY <1>1, PinNames DEF Listens
  <2> QED
    BY <1>1, <2>1, <2>2, DataRuns
<1>4. Filled(y, {1}) \in Scene /\ Raise(Filled(y, {1}), "cs1") = Filled(x, {1})
  <2>1. Filled(y, {1}) \in Scene
    <3>1. {1} \in SUBSET Display
      BY DEF Display
    <3> QED
      BY <1>1, <3>1, SceneIs
  <2>2. y.up \cup {"cs1"} = x.up
    BY <1>1
  <2> QED
    BY <1>1, <2>1, <2>2 DEF Filled, Raise
<1>5. Runs(Do("set", CS[1]), 0, Filled(y, {1}), Filled(x, {1}))
  BY <1>4, PinsRun, PinNames DEF Lines
<1> QED
  BY <1>2, <1>3, <1>5, RunsOn DEF sendDisplayByte

\* A list of commands, with the data/command pin low from its beginning.
LEMMA ListRuns ==
  ASSUME NEW x \in Scene, NEW d \in Display, NEW n \in Nat, NEW s \in [1 .. n -> BytesSent],
         CS[d] \in x.up, d = 2 => "SPI1" \in x.up,
         \A i \in 1 .. n : s[i] # Zero /\ (d = 1 => s[i] # <<"on", TRUE>>)
  PROVE  Runs(Instructions(d, s), 0, x, Lower(x, DC[d]))
<1> DEFINE f == [i \in DOMAIN s |-> sendDisplayByte(d, s[i])]
           y == Lower(x, DC[d])
           g == [i \in 0 .. n |-> y]
<1>1. DOMAIN s = 1 .. n /\ DOMAIN f = 1 .. n /\ f = [i \in DOMAIN f |-> f[i]]
  OBVIOUS
<1>2. \A i \in 1 .. n : f[i] = sendDisplayByte(d, s[i]) /\ s[i] \in BytesSent
  BY <1>1
<1>3. Instructions(d, s) = Do("clear", DC[d]) \o FlattenSeq(f)
  BY DEF Instructions, Each
<1> HIDE DEF f
<1>4. y \in Scene /\ y.zeros = x.zeros /\ y.up = x.up \ {DC[d]}
  BY SceneIs DEF Lower
<1>5. Runs(Do("clear", DC[d]), 0, x, y)
  BY PinsRun, PinNames
<1>6. CS[d] \in y.up /\ DC[d] \notin y.up /\ (d = 2 => "SPI1" \in y.up)
  BY <1>4, PinNames
<1> HIDE DEF y
<1>7. \A i \in 0 .. n : g[i] = y
  OBVIOUS
<1> HIDE DEF g
<1>8. ASSUME NEW i \in 1 .. n PROVE Runs(f[i], 0, g[i - 1], g[i])
  <2>1. i - 1 \in 0 .. n /\ i \in 0 .. n
    OBVIOUS
  <2>2. Runs(sendDisplayByte(d, s[i]), 0, y, y)
    <3>1. ~(d = 1 /\ s[i] = <<"on", TRUE>>)
      OBVIOUS
    <3> QED
      BY <1>2, <1>4, <1>6, <3>1, ByteRuns
  <2> QED
    BY <1>2, <1>7, <2>1, <2>2
<1>9. g[0] = y /\ g[n] = y
  BY <1>7
<1>10. Runs(FlattenSeq(f), 0, y, y)
  <2>1. Runs(FlattenSeq(f), 0, g[0], g[n])
    BY <1>1, <1>4, <1>8, <1>9, RunsEach
  <2> QED
    BY <1>9, <2>1
<1> QED
  BY <1>3, <1>5, <1>10, RunsOn DEF y

LEMMA OneMoreOf ==
  ASSUME NEW n \in Nat \ {0}, NEW j \in 1 .. n
  PROVE  j % n = IF j = n THEN 0 ELSE j
<1>1. CASE j = n
  BY <1>1
<1>2. CASE j # n
  BY <1>2
<1> QED
  BY <1>1, <1>2

\* After j bytes of a frame to the panel, or to both displays.
Filling(x, ds, j) ==
  [up |-> x.up,
   pos |-> [d \in Display |-> IF d \in ds THEN (IF j = FrameBytes THEN 0 ELSE j) ELSE x.pos[d]],
   zeros |-> IF x.zeros = 0 THEN j ELSE x.zeros]

LEMMA FillingOn ==
  ASSUME NEW x \in Scene, NEW ds \in SUBSET Display, 1 \in ds, x.zeros \in {0, FrameBytes},
         NEW j \in 1 .. FrameBytes
  PROVE  /\ Filling(x, ds, j - 1) \in Scene
         /\ Filled(Filling(x, ds, j - 1), ds) = Filling(x, ds, j)
<1>1. FrameBytes \in Nat \ {0} /\ j \in Nat /\ j - 1 \in Nat /\ j - 1 # FrameBytes
      /\ j - 1 < FrameBytes /\ (j - 1) + 1 = j
  BY StartUpAssumption
<1>2. j % FrameBytes = IF j = FrameBytes THEN 0 ELSE j
  BY <1>1, OneMoreOf
<1> DEFINE y == Filling(x, ds, j - 1)
<1>3. /\ y.up = x.up /\ y.zeros = IF x.zeros = 0 THEN j - 1 ELSE x.zeros
      /\ y.pos = [d \in Display |-> IF d \in ds THEN j - 1 ELSE x.pos[d]]
  BY <1>1 DEF Filling
<1>4. y \in Scene
  <2>1. [d \in Display |-> IF d \in ds THEN j - 1 ELSE x.pos[d]] \in [Display -> Nat]
    BY <1>1, SceneIs
  <2>2. (IF x.zeros = 0 THEN j - 1 ELSE x.zeros) \in Nat
    BY <1>1, SceneIs
  <2>3. y = [up |-> x.up, pos |-> [d \in Display |-> IF d \in ds THEN j - 1 ELSE x.pos[d]],
             zeros |-> IF x.zeros = 0 THEN j - 1 ELSE x.zeros]
    BY <1>1 DEF Filling
  <2> QED
    BY <2>1, <2>2, <2>3, SceneIs DEF Scene
<1> HIDE DEF y
<1>5. [d \in Display |-> IF d \in ds THEN (y.pos[d] + 1) % FrameBytes ELSE y.pos[d]]
        = [d \in Display |-> IF d \in ds THEN (IF j = FrameBytes THEN 0 ELSE j) ELSE x.pos[d]]
  <2>1. ASSUME NEW d \in Display
        PROVE  (IF d \in ds THEN (y.pos[d] + 1) % FrameBytes ELSE y.pos[d])
                 = IF d \in ds THEN (IF j = FrameBytes THEN 0 ELSE j) ELSE x.pos[d]
    <3>1. CASE d \in ds
      <4>1. y.pos[d] + 1 = j
        BY <1>1, <1>3, <3>1
      <4> QED
        BY <1>2, <3>1, <4>1
    <3>2. CASE d \notin ds
      BY <1>3, <3>2
    <3> QED
      BY <3>1, <3>2
  <2> QED
    BY <2>1, Zenon
<1>6. (IF 1 \in ds /\ y.zeros < FrameBytes THEN y.zeros + 1 ELSE y.zeros)
        = IF x.zeros = 0 THEN j ELSE x.zeros
  BY <1>1, <1>3
<1>7. Filled(y, ds) = Filling(x, ds, j)
  BY <1>3, <1>5, <1>6, Zenon DEF Filled, Filling
<1> QED
  BY <1>4, <1>7 DEF y

LEMMA FillingEnds ==
  ASSUME NEW x \in Scene, NEW ds \in SUBSET Display, \A d \in ds : x.pos[d] = 0,
         x.zeros \in {0, FrameBytes}
  PROVE  /\ Filling(x, ds, 0) = x
         /\ Filling(x, ds, FrameBytes) = [up |-> x.up, pos |-> x.pos, zeros |-> FrameBytes]
<1>1. FrameBytes \in Nat \ {0}
  BY StartUpAssumption
<1>2. x = [up |-> x.up, pos |-> x.pos, zeros |-> x.zeros]
  BY DEF Scene
<1>3. [d \in Display |-> IF d \in ds THEN 0 ELSE x.pos[d]] = x.pos
  <2>1. x.pos \in [Display -> Nat]
    BY SceneIs
  <2>2. ASSUME NEW d \in Display PROVE (IF d \in ds THEN 0 ELSE x.pos[d]) = x.pos[d]
    OBVIOUS
  <2> QED
    BY <2>1, <2>2
<1>4. Filling(x, ds, 0) = [up |-> x.up,
        pos |-> [d \in Display |-> IF d \in ds THEN 0 ELSE x.pos[d]], zeros |-> x.zeros]
  BY <1>1 DEF Filling
<1>5. Filling(x, ds, FrameBytes) = [up |-> x.up,
        pos |-> [d \in Display |-> IF d \in ds THEN 0 ELSE x.pos[d]], zeros |-> FrameBytes]
  BY <1>1 DEF Filling
<1> QED
  BY <1>2, <1>3, <1>4, <1>5

Clear(x) == [up |-> x.up, pos |-> x.pos, zeros |-> FrameBytes]

\* A whole frame leaves the displays where it found them, and the panel clear.
LEMMA FrameRuns ==
  ASSUME NEW x \in Scene, NEW ds \in SUBSET Display, 1 \in ds, \A d \in ds : x.pos[d] = 0,
         x.zeros \in {0, FrameBytes}, NEW f, DOMAIN f = 1 .. FrameBytes,
         f = [i \in DOMAIN f |-> f[i]],
         \A y \in Scene, i \in 1 .. FrameBytes :
           y.up = x.up => Runs(f[i], 0, y, Filled(y, ds))
  PROVE  Runs(FlattenSeq(f), 0, x, Clear(x))
<1> DEFINE g == [j \in 0 .. FrameBytes |-> Filling(x, ds, j)]
<1>1. FrameBytes \in Nat \ {0}
  BY StartUpAssumption
<1>2. \A j \in 0 .. FrameBytes : g[j] = Filling(x, ds, j)
  OBVIOUS
<1> HIDE DEF g
<1>3. g[0] = x /\ g[FrameBytes] = Clear(x)
  BY <1>1, <1>2, FillingEnds DEF Clear
<1>4. ASSUME NEW i \in 1 .. FrameBytes PROVE Runs(f[i], 0, g[i - 1], g[i])
  <2>1. i - 1 \in 0 .. FrameBytes /\ i \in 0 .. FrameBytes
    BY <1>1
  <2>2. g[i - 1] \in Scene /\ Filled(g[i - 1], ds) = g[i]
    BY <1>2, <2>1, FillingOn
  <2>3. g[i - 1].up = x.up
    <3>1. Filling(x, ds, i - 1).up = x.up
      BY DEF Filling
    <3> QED
      BY <1>2, <2>1, <3>1
  <2> QED
    BY <2>2, <2>3
<1>5. Runs(FlattenSeq(f), 0, g[0], g[FrameBytes])
  BY <1>1, <1>3, <1>4, RunsEach
<1> QED
  BY <1>3, <1>5

LEMMA PanelFrameRuns ==
  ASSUME NEW x \in Scene, x.pos[1] = 0, x.zeros \in {0, FrameBytes},
         "cs1" \in x.up, "dc1" \in x.up
  PROVE  Runs(Frame(LAMBDA b : sendDisplayByte(1, b)), 0, x, Clear(x))
<1> DEFINE z == [i \in 1 .. FrameBytes |-> Zero]
           f == [i \in DOMAIN z |-> sendDisplayByte(1, z[i])]
<1>1. DOMAIN f = 1 .. FrameBytes /\ f = [i \in DOMAIN f |-> f[i]]
  OBVIOUS
<1>2. \A i \in 1 .. FrameBytes : f[i] = sendDisplayByte(1, Zero)
  OBVIOUS
<1>3. Frame(LAMBDA b : sendDisplayByte(1, b)) = FlattenSeq(f)
  BY DEF Frame, Each
<1> HIDE DEF f
<1>4. {1} \in SUBSET Display /\ 1 \in {1} /\ \A d \in {1} : x.pos[d] = 0
  BY DEF Display
<1>5. ASSUME NEW y \in Scene, NEW i \in 1 .. FrameBytes, y.up = x.up
      PROVE  Runs(f[i], 0, y, Filled(y, {1}))
  BY <1>2, <1>5, PanelDataRuns
<1>6. Runs(FlattenSeq(f), 0, x, Clear(x))
  BY <1>1, <1>4, <1>5, FrameRuns
<1> QED
  BY <1>3, <1>6

LEMMA BothFrameRuns ==
  ASSUME NEW x \in Scene, \A d \in Display : x.pos[d] = 0 /\ Listens(x, d) /\ DC[d] \in x.up,
         x.zeros \in {0, FrameBytes}
  PROVE  Runs(Frame(LAMBDA b : Do("send", <<Display, b>>)), 0, x, Clear(x))
<1> DEFINE z == [i \in 1 .. FrameBytes |-> Zero]
           f == [i \in DOMAIN z |-> Do("send", <<Display, z[i]>>)]
<1>1. DOMAIN f = 1 .. FrameBytes /\ f = [i \in DOMAIN f |-> f[i]]
  OBVIOUS
<1>2. \A i \in 1 .. FrameBytes : f[i] = Do("send", <<Display, Zero>>)
  OBVIOUS
<1>3. Frame(LAMBDA b : Do("send", <<Display, b>>)) = FlattenSeq(f)
  BY DEF Frame, Each
<1> HIDE DEF f
<1>4. Display \in SUBSET Display /\ 1 \in Display
  BY DEF Display
<1>5. ASSUME NEW y \in Scene, NEW i \in 1 .. FrameBytes, y.up = x.up
      PROVE  Runs(f[i], 0, y, Filled(y, Display))
  <2>1. \A d \in Display : Listens(y, d) /\ DC[d] \in y.up
    BY <1>5 DEF Listens
  <2> QED
    BY <1>2, <1>4, <2>1, DataRuns
<1>6. Runs(FlattenSeq(f), 0, x, Clear(x))
  BY <1>1, <1>4, <1>5, FrameRuns
<1> QED
  BY <1>3, <1>6

-----------------------------------------------------------------------------
\* The scenes between the functions: at the beginning of a frame, with these
\* high or done and so many bytes of the panel clear.
At(up, zeros) == [up |-> up, pos |-> [d \in Display |-> 0], zeros |-> zeros]

Begun == {"cs1", "cs2", "SPI1"}
PanelSet == {"cs1", "cs2", "SPI1", "dc1"}
BothSet == {"cs1", "cs2", "SPI1", "dc1", "dc2"}
Ended == {"cs1", "cs2", "dc1", "dc2", "settings"}

LEMMA AtIs ==
  ASSUME NEW u \in SUBSET Ready, NEW z \in Nat
  PROVE  /\ At(u, z) \in Scene /\ At(u, z).up = u /\ At(u, z).zeros = z
         /\ \A d \in Display : At(u, z).pos[d] = 0
         /\ \A l : Raise(At(u, z), l) = At(u \cup {l}, z)
         /\ \A l : Lower(At(u, z), l) = At(u \ {l}, z)
         /\ Clear(At(u, z)) = At(u, FrameBytes)
<1>1. [d \in Display |-> 0] \in [Display -> Nat]
  OBVIOUS
<1> HIDE DEF Display
<1>2. At(u, z) \in Scene
  BY <1>1 DEF At, Scene
<1>3. At(u, z).up = u /\ At(u, z).zeros = z /\ At(u, z).pos = [d \in Display |-> 0]
  BY DEF At
<1>4. \A d \in Display : At(u, z).pos[d] = 0
  BY <1>3
<1>5. /\ \A l : Raise(At(u, z), l) = At(u \cup {l}, z)
      /\ \A l : Lower(At(u, z), l) = At(u \ {l}, z)
      /\ Clear(At(u, z)) = At(u, FrameBytes)
  BY <1>3 DEF Raise, Lower, Clear, At
<1> QED
  BY <1>2, <1>3, <1>4, <1>5

LEMMA BytesMeant ==
  /\ \A i \in 1 .. 16 : PanelSettings[i] # Zero /\ PanelSettings[i] # <<"on", TRUE>>
  /\ \A i \in 1 .. 18 : ExternalSettings[i] # Zero
  /\ <<"on", TRUE>> \in BytesSent /\ <<"on", TRUE>> # Zero
  /\ <<"contrast", 128>> \in BytesSent /\ <<"contrast", 128>> # Zero
  /\ <<"contrast", 128>> # <<"on", TRUE>>
  /\ <<"remap", 1>> \in BytesSent /\ <<"remap", 1>> # Zero /\ <<"remap", 1>> # <<"on", TRUE>>
  /\ <<"scan", 8>> \in BytesSent /\ <<"scan", 8>> # Zero /\ <<"scan", 8>> # <<"on", TRUE>>
<1>1. ASSUME NEW i \in 1 .. 16
      PROVE  PanelSettings[i][1] # "data" /\ (i # 1 => PanelSettings[i][1] # "on")
  <2>1. \/ i = 1 \/ i = 2 \/ i = 3 \/ i = 4 \/ i = 5 \/ i = 6
        \/ i = 7 \/ i = 8 \/ i = 9 \/ i = 10 \/ i = 11 \/ i = 12
        \/ i = 13 \/ i = 14 \/ i = 15 \/ i = 16
    OBVIOUS
  <2>2. /\ PanelSettings[1][1] = "on" /\ PanelSettings[2][1] = "clock"
        /\ PanelSettings[3][1] = "duty" /\ PanelSettings[4][1] = "offset"
        /\ PanelSettings[5][1] = "addressing" /\ PanelSettings[6][1] = "pages"
        /\ PanelSettings[7][1] = "pump" /\ PanelSettings[8][1] = "line"
        /\ PanelSettings[9][1] = "inverse" /\ PanelSettings[10][1] = "all"
        /\ PanelSettings[11][1] = "remap" /\ PanelSettings[12][1] = "scan"
        /\ PanelSettings[13][1] = "pins" /\ PanelSettings[14][1] = "contrast"
        /\ PanelSettings[15][1] = "precharge" /\ PanelSettings[16][1] = "vcomh"
    BY DEF PanelSettings
  <2> QED
    BY <2>1, <2>2
<1>2. PanelSettings[1][2] = FALSE
  BY DEF PanelSettings
<1>3. ASSUME NEW i \in 1 .. 18 PROVE ExternalSettings[i][1] # "data"
  <2>1. \/ i = 1 \/ i = 2 \/ i = 3 \/ i = 4 \/ i = 5 \/ i = 6
        \/ i = 7 \/ i = 8 \/ i = 9 \/ i = 10 \/ i = 11 \/ i = 12
        \/ i = 13 \/ i = 14 \/ i = 15 \/ i = 16 \/ i = 17 \/ i = 18
    OBVIOUS
  <2>2. /\ ExternalSettings[1][1] = "on" /\ ExternalSettings[2][1] = "clock"
        /\ ExternalSettings[3][1] = "duty" /\ ExternalSettings[4][1] = "offset"
        /\ ExternalSettings[5][1] = "addressing" /\ ExternalSettings[6][1] = "columns"
        /\ ExternalSettings[7][1] = "pages" /\ ExternalSettings[8][1] = "supply"
        /\ ExternalSettings[9][1] = "line" /\ ExternalSettings[10][1] = "inverse"
        /\ ExternalSettings[11][1] = "all" /\ ExternalSettings[12][1] = "remap"
        /\ ExternalSettings[13][1] = "scan" /\ ExternalSettings[14][1] = "pins"
        /\ ExternalSettings[15][1] = "contrast" /\ ExternalSettings[16][1] = "precharge"
        /\ ExternalSettings[17][1] = "vcomh" /\ ExternalSettings[18][1] = "on"
    BY DEF ExternalSettings
  <2> QED
    BY <2>1, <2>2
<1>4. Zero[1] = "data"
  BY DEF Zero
<1>5. ASSUME NEW x, x # "data", NEW v PROVE <<x, v>> # Zero
  BY <1>5 DEF Zero
<1>6. /\ <<"contrast", 128>> # <<"on", TRUE>> /\ <<"remap", 1>> # <<"on", TRUE>>
      /\ <<"scan", 8>> # <<"on", TRUE>>
  OBVIOUS
<1>7. /\ <<"on", TRUE>> \in BytesSent /\ <<"contrast", 128>> \in BytesSent
  BY DEF BytesSent
<1>8. <<"remap", 1>> \in BytesSent /\ <<"scan", 8>> \in BytesSent
  <2>1. PanelSettings[11] = <<"remap", 1>> /\ PanelSettings[12] = <<"scan", 8>>
    BY DEF PanelSettings
  <2>2. PanelSettings[11] \in BytesSent /\ PanelSettings[12] \in BytesSent
    BY SettingsAre
  <2> QED
    BY <2>1, <2>2
<1>9. ASSUME NEW i \in 1 .. 16 PROVE PanelSettings[i] # <<"on", TRUE>>
  <2> DEFINE lit == <<"on", TRUE>>
  <2>1. lit[1] = "on" /\ lit[2] = TRUE
    OBVIOUS
  <2> HIDE DEF lit
  <2>2. CASE i = 1
    <3>1. lit[2] = TRUE /\ PanelSettings[i][2] = FALSE
      BY <1>2, <2>1, <2>2
    <3>2. PanelSettings[i] # lit
      BY <3>1, Zenon
    <3> QED
      BY <3>2 DEF lit
  <2>3. CASE i # 1
    <3>1. PanelSettings[i][1] # "on"
      BY <1>1, <2>3
    <3>2. PanelSettings[i] # lit
      BY <2>1, <3>1, Zenon
    <3> QED
      BY <3>2 DEF lit
  <2> QED
    BY <2>2, <2>3
<1>10. ASSUME NEW i \in 1 .. 16 PROVE PanelSettings[i] # Zero
  BY <1>1, <1>4
<1>11. ASSUME NEW i \in 1 .. 18 PROVE ExternalSettings[i] # Zero
  BY <1>3, <1>4
<1>12. /\ <<"on", TRUE>> # Zero /\ <<"contrast", 128>> # Zero
       /\ <<"remap", 1>> # Zero /\ <<"scan", 8>> # Zero
  BY <1>5
<1> QED
  BY <1>6, <1>7, <1>8, <1>9, <1>10, <1>11, <1>12

LEMMA ScenesAre ==
  /\ Begun \in SUBSET Ready /\ PanelSet \in SUBSET Ready /\ BothSet \in SUBSET Ready
  /\ Ended \in SUBSET Ready /\ 0 \in Nat /\ FrameBytes \in Nat
  /\ Begun \ {"dc1"} = Begun /\ Begun \cup {"dc1"} = PanelSet /\ PanelSet \ {"dc1"} = Begun
  /\ Begun \ {"power"} = Begun
  /\ PanelSet \ {"dc2"} = PanelSet /\ PanelSet \cup {"dc2"} = BothSet
  /\ (BothSet \cup {"settings"}) \ {"SPI1"} = Ended
  /\ BothSet \cup {"settings"} \in SUBSET Ready
BY StartUpAssumption DEF Begun, PanelSet, BothSet, Ended, Ready, Lines

LEMMA PanelRuns == Runs(configureDisplay, 0, At(Begun, 0), At(PanelSet, FrameBytes))
<1> DEFINE a == At(Begun, 0)
           b == At(PanelSet, 0)
           c == At(PanelSet, FrameBytes)
           e == At(Begun, FrameBytes)
<1>1. /\ a \in Scene /\ a.up = Begun /\ a.zeros = 0
      /\ b \in Scene /\ b.up = PanelSet /\ b.zeros = 0 /\ b.pos[1] = 0
      /\ c \in Scene /\ c.up = PanelSet /\ c.zeros = FrameBytes
      /\ e \in Scene /\ e.up = Begun /\ e.zeros = FrameBytes
  BY AtIs, ScenesAre, DisplayPinsAre
<1>2. /\ Lower(a, "dc1") = a /\ Raise(a, "dc1") = b /\ Clear(b) = c /\ Lower(c, "dc1") = e
      /\ Lower(e, "power") = e /\ Raise(e, "dc1") = c
  BY AtIs, ScenesAre
<1> HIDE DEF a, b, c, e
<1>3. /\ "cs1" \in Begun /\ "dc1" \notin Begun /\ "cs1" \in PanelSet /\ "dc1" \in PanelSet
      /\ "dc1" \in Lines /\ CS[1] = "cs1" /\ DC[1] = "dc1"
  BY DEF Begun, PanelSet, Lines, CS, DC
<1>4. Runs(Instructions(1, PanelSettings), 0, a, a)
  <2>1. 16 \in Nat /\ 1 # 2 /\ 1 \in Display
    BY DEF Display
  <2>2. Runs(Instructions(1, PanelSettings), 0, a, Lower(a, DC[1]))
    BY <1>1, <1>3, <2>1, SettingsAre, BytesMeant, ListRuns
  <2> QED
    BY <1>2, <1>3, <2>2
<1>5. Runs(Do("set", DC[1]), 0, a, b)
  BY <1>1, <1>2, <1>3, PinsRun
<1>6. Runs(Frame(LAMBDA x : sendDisplayByte(1, x)), 0, b, c)
  <2>1. Runs(Frame(LAMBDA x : sendDisplayByte(1, x)), 0, b, Clear(b))
    BY <1>1, <1>3, PanelFrameRuns
  <2> QED
    BY <1>2, <2>1
<1>7. Runs(Do("clear", DC[1]), 0, c, e)
  BY <1>1, <1>2, <1>3, PinsRun
<1>8. Runs(Do("clear", "power"), 0, e, e)
  BY <1>1, <1>2, PinsRun
<1>9. Runs(delayMs(100), 0, e, e)
  BY <1>1, PinsRun
<1>10. Runs(sendDisplayByte(1, <<"on", TRUE>>), 0, e, e)
  <2>1. 1 \in Display /\ 1 # 2
    BY DEF Display
  <2> QED
    BY <1>1, <1>3, <2>1, BytesMeant, ByteRuns
<1>11. Runs(Do("set", DC[1]), 0, e, c)
  BY <1>1, <1>2, <1>3, PinsRun
<1> DEFINE s1 == Instructions(1, PanelSettings) \o Do("set", DC[1])
           s2 == s1 \o Frame(LAMBDA x : sendDisplayByte(1, x))
           s3 == s2 \o Do("clear", DC[1])
           s4 == s3 \o Do("clear", "power")
           s5 == s4 \o delayMs(100)
           s6 == s5 \o sendDisplayByte(1, <<"on", TRUE>>)
           s7 == s6 \o Do("set", DC[1])
<1>12. configureDisplay = s7
  BY DEF configureDisplay
<1>13. Runs(s1, 0, a, b)
  BY <1>4, <1>5, RunsOn
<1> HIDE DEF s1
<1>14. Runs(s2, 0, a, c)
  BY <1>6, <1>13, RunsOn
<1> HIDE DEF s2
<1>15. Runs(s3, 0, a, e)
  BY <1>7, <1>14, RunsOn
<1> HIDE DEF s3
<1>16. Runs(s4, 0, a, e)
  BY <1>8, <1>15, RunsOn
<1> HIDE DEF s4
<1>17. Runs(s5, 0, a, e)
  BY <1>9, <1>16, RunsOn
<1> HIDE DEF s5
<1>18. Runs(s6, 0, a, e)
  BY <1>10, <1>17, RunsOn
<1> HIDE DEF s6
<1>19. Runs(s7, 0, a, c)
  BY <1>11, <1>18, RunsOn
<1> QED
  BY <1>12, <1>19 DEF a, c

\* The functions after it.
LEMMA ExternalRuns ==
  Runs(configureDisplay2, 0, At(PanelSet, FrameBytes), At(BothSet, FrameBytes))
<1> DEFINE a == At(PanelSet, FrameBytes)
           b == At(BothSet, FrameBytes)
<1>1. /\ a \in Scene /\ a.up = PanelSet /\ Lower(a, "dc2") = a /\ Raise(a, "dc2") = b
  BY AtIs, ScenesAre
<1> HIDE DEF a, b
<1>2. /\ CS[2] \in PanelSet /\ "SPI1" \in PanelSet /\ "dc2" \in Lines /\ DC[2] = "dc2"
      /\ 2 \in Display /\ 2 # 1 /\ 18 \in Nat
  BY DEF PanelSet, Lines, CS, DC, Display
<1>3. Runs(Instructions(2, ExternalSettings), 0, a, Lower(a, DC[2]))
  BY <1>1, <1>2, SettingsAre, BytesMeant, ListRuns
<1>4. Runs(Do("set", DC[2]), 0, a, b)
  BY <1>1, <1>2, PinsRun
<1>5. Runs(Instructions(2, ExternalSettings) \o Do("set", DC[2]), 0, a, b)
  BY <1>1, <1>2, <1>3, <1>4, RunsOn
<1> QED
  BY <1>5 DEF configureDisplay2, a, b

LEMMA CopyRuns ==
  Runs(startupSequence, 0, At(BothSet, FrameBytes), At(BothSet, FrameBytes))
<1> DEFINE a == At(BothSet, FrameBytes)
           b == At({"cs2", "SPI1", "dc1", "dc2"}, FrameBytes)
           c == At({"SPI1", "dc1", "dc2"}, FrameBytes)
<1>1. /\ {"cs2", "SPI1", "dc1", "dc2"} \in SUBSET Ready
      /\ {"SPI1", "dc1", "dc2"} \in SUBSET Ready
      /\ BothSet \ {"cs1"} = {"cs2", "SPI1", "dc1", "dc2"}
      /\ {"cs2", "SPI1", "dc1", "dc2"} \ {"cs2"} = {"SPI1", "dc1", "dc2"}
      /\ {"SPI1", "dc1", "dc2"} \cup {"cs1"} = {"cs1", "SPI1", "dc1", "dc2"}
      /\ {"cs1", "SPI1", "dc1", "dc2"} \in SUBSET Ready
      /\ {"cs1", "SPI1", "dc1", "dc2"} \cup {"cs2"} = BothSet
  BY DEF BothSet, Ready, Lines
<1> DEFINE e == At({"cs1", "SPI1", "dc1", "dc2"}, FrameBytes)
<1>2. /\ a \in Scene /\ b \in Scene /\ c \in Scene /\ e \in Scene
      /\ c.up = {"SPI1", "dc1", "dc2"} /\ c.zeros = FrameBytes
      /\ \A d \in Display : c.pos[d] = 0
  BY <1>1, AtIs, ScenesAre
<1>3. /\ Lower(a, "cs1") = b /\ Lower(b, "cs2") = c /\ Clear(c) = c
      /\ Raise(c, "cs1") = e /\ Raise(e, "cs2") = a
  BY <1>1, AtIs, ScenesAre
<1> HIDE DEF a, b, c, e
<1>4. CS[1] = "cs1" /\ CS[2] = "cs2" /\ "cs1" \in Lines /\ "cs2" \in Lines
  BY DEF CS, Lines
<1>5. Runs(Do("clear", CS[1]), 0, a, b)
  BY <1>2, <1>3, <1>4, PinsRun
<1>6. Runs(Do("clear", CS[2]), 0, b, c)
  BY <1>2, <1>3, <1>4, PinsRun
<1>7. Runs(Frame(LAMBDA x : Do("send", <<Display, x>>)), 0, c, c)
  <2>1. \A d \in Display : Listens(c, d) /\ DC[d] \in c.up
    BY <1>2 DEF Listens, Display, CS, DC
  <2>2. Runs(Frame(LAMBDA x : Do("send", <<Display, x>>)), 0, c, Clear(c))
    BY <1>2, <2>1, BothFrameRuns
  <2> QED
    BY <1>3, <2>2
<1>8. Runs(Do("set", CS[1]), 0, c, e)
  BY <1>2, <1>3, <1>4, PinsRun
<1>9. Runs(Do("set", CS[2]), 0, e, a)
  BY <1>2, <1>3, <1>4, PinsRun
<1>10. Runs(delayMs(17), 0, a, a)
  BY <1>2, PinsRun
<1> DEFINE s1 == Do("clear", CS[1]) \o Do("clear", CS[2])
           s2 == s1 \o Frame(LAMBDA x : Do("send", <<Display, x>>))
           s3 == s2 \o Do("set", CS[1])
           s4 == s3 \o Do("set", CS[2])
           s5 == s4 \o delayMs(17)
<1>11. startupSequence = s5
  BY DEF startupSequence, copyToDisplay
<1>12. Runs(s1, 0, a, c)
  BY <1>5, <1>6, RunsOn
<1> HIDE DEF s1
<1>13. Runs(s2, 0, a, c)
  BY <1>7, <1>12, RunsOn
<1> HIDE DEF s2
<1>14. Runs(s3, 0, a, e)
  BY <1>8, <1>13, RunsOn
<1> HIDE DEF s3
<1>15. Runs(s4, 0, a, a)
  BY <1>9, <1>14, RunsOn
<1> HIDE DEF s4
<1>16. Runs(s5, 0, a, a)
  BY <1>10, <1>15, RunsOn
<1> QED
  BY <1>11, <1>16 DEF a

LEMMA ContrastRuns ==
  Runs(setDisplayContrast(128), 0, At(BothSet, FrameBytes), At(BothSet, FrameBytes))
<1> DEFINE a == At(BothSet, FrameBytes)
           b == At(PanelSet, FrameBytes)
           c == At(Begun, FrameBytes)
           list == << <<"contrast", 128>> >>
<1>1. BothSet \ {"dc2"} = PanelSet
  BY DEF BothSet, PanelSet
<1>2. /\ a \in Scene /\ b \in Scene /\ b.up = PanelSet /\ b.zeros = FrameBytes
      /\ c \in Scene /\ c.up = Begun /\ c.zeros = FrameBytes
      /\ Lower(a, "dc2") = b /\ Lower(b, "dc1") = c /\ Raise(c, "dc1") = b
      /\ Raise(b, "dc2") = a
  BY <1>1, AtIs, ScenesAre
<1> HIDE DEF a, b, c
<1>3. /\ "cs1" \in PanelSet /\ "cs2" \in Begun /\ "dc2" \notin Begun /\ "SPI1" \in Begun
      /\ "dc1" \in Lines /\ "dc2" \in Lines /\ 1 \in Display /\ 2 \in Display /\ 1 # 2
      /\ CS[1] = "cs1" /\ CS[2] = "cs2" /\ DC[1] = "dc1" /\ DC[2] = "dc2"
  BY DEF Begun, PanelSet, Lines, Display, CS, DC
<1>4. Runs(Do("clear", DC[2]), 0, a, b)
  BY <1>2, <1>3, PinsRun
<1>5. Runs(Instructions(1, list), 0, b, c)
  <2>1. /\ list \in [1 .. 1 -> BytesSent] /\ 1 \in Nat
        /\ \A i \in 1 .. 1 : list[i] = <<"contrast", 128>>
    BY BytesMeant
  <2> HIDE DEF list
  <2>2. \A i \in 1 .. 1 : list[i] # Zero /\ list[i] # <<"on", TRUE>>
    BY <2>1, BytesMeant
  <2>3. Runs(Instructions(1, list), 0, b, Lower(b, DC[1]))
    BY <1>2, <1>3, <2>1, <2>2, ListRuns
  <2> QED
    BY <1>2, <1>3, <2>3
<1>6. Runs(delayMs(1), 0, c, c)
  BY <1>2, PinsRun
<1>7. Runs(sendDisplayByte(2, <<"contrast", 128>>), 0, c, c)
  BY <1>2, <1>3, BytesMeant, ByteRuns
<1>8. Runs(Do("set", DC[1]), 0, c, b)
  BY <1>2, <1>3, PinsRun
<1>9. Runs(Do("set", DC[2]), 0, b, a)
  BY <1>2, <1>3, PinsRun
<1> DEFINE s1 == Do("clear", DC[2]) \o Instructions(1, list)
           s2 == s1 \o delayMs(1)
           s3 == s2 \o sendDisplayByte(2, <<"contrast", 128>>)
           s4 == s3 \o delayMs(1)
           s5 == s4 \o Do("set", DC[1])
           s6 == s5 \o Do("set", DC[2])
<1>10. setDisplayContrast(128) = s6
  BY DEF setDisplayContrast
<1>11. Runs(s1, 0, a, c)
  BY <1>4, <1>5, RunsOn
<1> HIDE DEF s1
<1>12. Runs(s2, 0, a, c)
  BY <1>6, <1>11, RunsOn
<1> HIDE DEF s2
<1>13. Runs(s3, 0, a, c)
  BY <1>7, <1>12, RunsOn
<1> HIDE DEF s3
<1>14. Runs(s4, 0, a, c)
  BY <1>6, <1>13, RunsOn
<1> HIDE DEF s4
<1>15. Runs(s5, 0, a, b)
  BY <1>8, <1>14, RunsOn
<1> HIDE DEF s5
<1>16. Runs(s6, 0, a, a)
  BY <1>9, <1>15, RunsOn
<1> QED
  BY <1>10, <1>16 DEF a

LEMMA FlipRuns ==
  Runs(setDisplayFlip(FALSE), 0, At(BothSet, FrameBytes), At(BothSet, FrameBytes))
<1> DEFINE a == At(BothSet, FrameBytes)
           b == At(BothSet \ {"dc1"}, FrameBytes)
           list == << <<"remap", 1>>, <<"scan", 8>> >>
<1>1. BothSet \ {"dc1"} \in SUBSET Ready /\ (BothSet \ {"dc1"}) \cup {"dc1"} = BothSet
  BY DEF BothSet, Ready, Lines
<1>2. /\ a \in Scene /\ a.up = BothSet /\ a.zeros = FrameBytes /\ b \in Scene
      /\ Lower(a, "dc1") = b /\ Raise(b, "dc1") = a
  BY <1>1, AtIs, ScenesAre
<1> HIDE DEF a, b
<1>3. /\ "cs1" \in BothSet /\ "dc1" \in Lines /\ 1 \in Display /\ 1 # 2
      /\ CS[1] = "cs1" /\ DC[1] = "dc1"
  BY DEF BothSet, Lines, Display, CS, DC
<1>4. Runs(Instructions(1, list), 0, a, b)
  <2>1. list \in [1 .. 2 -> BytesSent] /\ 2 \in Nat
    BY BytesMeant
  <2>2. \A i \in 1 .. 2 : list[i] = <<"remap", 1>> \/ list[i] = <<"scan", 8>>
    OBVIOUS
  <2> HIDE DEF list
  <2>3. \A i \in 1 .. 2 : list[i] # Zero /\ list[i] # <<"on", TRUE>>
    BY <2>2, BytesMeant
  <2>4. Runs(Instructions(1, list), 0, a, Lower(a, DC[1]))
    BY <1>2, <1>3, <2>1, <2>3, ListRuns
  <2> QED
    BY <1>2, <1>3, <2>4
<1>5. Runs(Do("set", DC[1]), 0, b, a)
  BY <1>2, <1>3, PinsRun
<1>6. setDisplayFlip(FALSE) = Instructions(1, list) \o Do("set", DC[1])
  BY DEF setDisplayFlip
<1>7. Runs(Instructions(1, list) \o Do("set", DC[1]), 0, a, a)
  BY <1>4, <1>5, RunsOn
<1> QED
  BY <1>6, <1>7 DEF a

LEMMA SettingsRun ==
  /\ Runs(Do("readCalibration", 0), 0, At(BothSet, FrameBytes),
          At(BothSet \cup {"settings"}, FrameBytes))
  /\ Runs(Do("off", "SPI1"), 0, At(BothSet \cup {"settings"}, FrameBytes),
          At(Ended, FrameBytes))
<1> DEFINE a == At(BothSet, FrameBytes)
           b == At(BothSet \cup {"settings"}, FrameBytes)
           c == At(Ended, FrameBytes)
<1>1. /\ a \in Scene /\ a.up = BothSet /\ b \in Scene
      /\ Raise(a, "settings") = b /\ Lower(b, "SPI1") = c
  BY AtIs, ScenesAre
<1> HIDE DEF a, b, c
<1>2. "settings" \notin BothSet
  BY DEF BothSet
<1>3. Runs(Do("readCalibration", 0), 0, a, b) /\ Runs(Do("off", "SPI1"), 0, b, c)
  BY <1>1, <1>2, PinsRun
<1> QED
  BY <1>3 DEF a, b, c

\* All that is done for the displays, after what comes before it.
DisplaysRun(s, a, b) ==
  \E f : Story(s, f, a, b) /\ f[a] = At(Begun, 0) /\ f[b] = At(Ended, FrameBytes)

LEMMA DisplaysCode ==
  Runs(BeforeDisplays \o configureDisplay \o configureDisplay2 \o startupSequence
       \o setDisplayContrast(128) \o setDisplayFlip(FALSE) \o Do("readCalibration", 0)
       \o Do("off", "SPI1"),
       29, At(Begun, 0), At(Ended, FrameBytes))
<1> DEFINE a == At(Begun, 0)
           b == At(PanelSet, FrameBytes)
           c == At(BothSet, FrameBytes)
           e == At(BothSet \cup {"settings"}, FrameBytes)
           g == At(Ended, FrameBytes)
           s1 == BeforeDisplays \o configureDisplay
           s2 == s1 \o configureDisplay2
           s3 == s2 \o startupSequence
           s4 == s3 \o setDisplayContrast(128)
           s5 == s4 \o setDisplayFlip(FALSE)
           s6 == s5 \o Do("readCalibration", 0)
           s7 == s6 \o Do("off", "SPI1")
<1>1. a \in Scene
  BY AtIs, ScenesAre
<1>2. /\ Runs(configureDisplay, 0, a, b) /\ Runs(configureDisplay2, 0, b, c)
      /\ Runs(startupSequence, 0, c, c) /\ Runs(setDisplayContrast(128), 0, c, c)
      /\ Runs(setDisplayFlip(FALSE), 0, c, c) /\ Runs(Do("readCalibration", 0), 0, c, e)
      /\ Runs(Do("off", "SPI1"), 0, e, g)
  BY PanelRuns, ExternalRuns, CopyRuns, ContrastRuns, FlipRuns, SettingsRun
<1> HIDE DEF a, b, c, e, g
<1>3. Runs(BeforeDisplays, 29, a, a)
  <2>1. BeforeDisplays \in Seq(Instruction) /\ Len(BeforeDisplays) = 29
    BY BeforeCode
  <2> QED
    BY <1>1, <2>1, RunsOfNothing
<1>4. Runs(s1, 29, a, b)
  BY <1>2, <1>3, RunsOn
<1> HIDE DEF s1
<1>5. Runs(s2, 29, a, c)
  BY <1>2, <1>4, RunsOn
<1> HIDE DEF s2
<1>6. Runs(s3, 29, a, c)
  BY <1>2, <1>5, RunsOn
<1> HIDE DEF s3
<1>7. Runs(s4, 29, a, c)
  BY <1>2, <1>6, RunsOn
<1> HIDE DEF s4
<1>8. Runs(s5, 29, a, c)
  BY <1>2, <1>7, RunsOn
<1> HIDE DEF s5
<1>9. Runs(s6, 29, a, e)
  BY <1>2, <1>8, RunsOn
<1> HIDE DEF s6
<1>10. Runs(s7, 29, a, g)
  BY <1>2, <1>9, RunsOn
<1> QED
  BY <1>10 DEF s1, s2, s3, s4, s5, s6, a, g

LEMMA StoryKept ==
  ASSUME NEW s \in Seq(Instruction), NEW u \in Seq(Instruction), Extends(u, s),
         NEW a \in Nat, NEW x, NEW y, Runs(s, a, x, y)
  PROVE  \E f : Story(u, f, a, Len(s)) /\ f[a] = x /\ f[Len(s)] = y
<1>1. PICK n \in Nat : n = Len(s)
  OBVIOUS
<1>2. PICK f : Story(s, f, a, n) /\ f[a] = x /\ f[n] = y
  BY <1>1 DEF Runs
<1>3. ASSUME NEW i \in a + 1 .. n PROVE u[i] = s[i]
  <2>1. i \in 1 .. Len(s)
    BY <1>1
  <2> QED
    BY <2>1 DEF Extends
<1>4. Story(u, f, a, n)
  BY <1>2, <1>3 DEF Story
<1> QED
  BY <1>1, <1>2, <1>4

\* The same further on in a longer program.
LEMMA StoryMoved ==
  ASSUME NEW s, NEW u, NEW o \in Nat, NEW a \in Nat, NEW b \in Nat, a <= b,
         DisplaysRun(s, a, b),
         \A i \in a + 1 .. b : u[o + i] = s[i]
  PROVE  DisplaysRun(u, o + a, o + b)
<1>1. PICK f : Story(s, f, a, b) /\ f[a] = At(Begun, 0) /\ f[b] = At(Ended, FrameBytes)
  BY DEF DisplaysRun
<1> DEFINE g == [i \in o + a .. o + b |-> f[i - o]]
<1>2. ASSUME NEW i \in o + a .. o + b PROVE g[i] \in Scene
  <2>1. i - o \in a .. b
    OBVIOUS
  <2> QED
    BY <1>1, <2>1 DEF Story
<1>3. /\ o + a \in o + a .. o + b /\ o + b \in o + a .. o + b
      /\ (o + a) - o = a /\ (o + b) - o = b
  OBVIOUS
<1>4. g[o + a] = f[a] /\ g[o + b] = f[b]
  BY <1>3
<1>5. ASSUME NEW i \in (o + a) + 1 .. o + b
      PROVE  Goes(g[i - 1], u[i].op, u[i].arg, g[i])
  <2>1. PICK j \in a + 1 .. b : i = o + j
    <3>1. i - o \in a + 1 .. b /\ i = o + (i - o)
      OBVIOUS
    <3> QED
      BY <3>1
  <2>2. /\ i \in o + a .. o + b /\ i - 1 \in o + a .. o + b
        /\ i - o = j /\ (i - 1) - o = j - 1
    BY <2>1
  <2>3. g[i] = f[j] /\ g[i - 1] = f[j - 1]
    BY <2>2
  <2>4. u[i] = s[j]
    BY <2>1
  <2>5. Goes(f[j - 1], s[j].op, s[j].arg, f[j])
    BY <1>1 DEF Story
  <2> QED
    BY <2>3, <2>4, <2>5
<1>6. g \in [o + a .. o + b -> Scene]
  BY <1>2
<1> HIDE DEF g
<1>7. Story(u, g, o + a, o + b)
  BY <1>5, <1>6 DEF Story
<1> QED
  BY <1>1, <1>4, <1>7 DEF DisplaysRun


-----------------------------------------------------------------------------
\* APP_Initialize: after k instructions the panel gets its supply, after m the
\* codec is taken out of reset.
AppShape(s, k, m) ==
  /\ s \in Seq(Instruction) /\ Len(s) = m + 35 /\ 29 <= k /\ k + 6 <= m
  /\ Extends(s, BeforeDisplays)
  /\ \A i \in 30 .. k : s[i] \in InDark
  /\ Lighting(s, k)
  /\ \A i \in k + 7 .. m : s[i] \in InLight
  /\ DisplaysRun(s, 29, m)
  /\ Is(s, m + 1, "set", "codec") /\ Is(s, m + 2, "delay", 1)
  /\ Is(s, m + 3, "on", "I2C2") /\ Is(s, m + 34, "off", "I2C2")
  /\ \A n \in 1 .. 6 : Packet(s, (m + 3) + (5 * n - 5), n)
  /\ Is(s, m + 35, "on", "I2C4")

LEMMA JoinedAt ==
  ASSUME NEW S, NEW s \in Seq(S), NEW u \in Seq(S), NEW j \in 1 .. Len(u)
  PROVE  (s \o u)[Len(s) + j] = u[j]
BY Joined

LEMMA ToLightCode ==
  \E k \in Nat : LET s == BeforeDisplays \o configureDisplay IN
    /\ s \in Seq(Instruction) /\ Len(s) = k + 6 /\ 29 <= k
    /\ Extends(s, BeforeDisplays) /\ Lighting(s, k)
    /\ \A i \in 30 .. k : s[i] \in InDark
<1>1. PICK b \in Nat : /\ configureDisplay \in Seq(Instruction)
                       /\ Len(configureDisplay) = b + 6
                       /\ \A i \in 1 .. b : configureDisplay[i] \in InDark
                       /\ Lighting(configureDisplay, b)
  BY LightingCode
<1>2. BeforeDisplays \in Seq(Instruction) /\ Len(BeforeDisplays) = 29
  BY BeforeCode
<1> DEFINE s == BeforeDisplays \o configureDisplay
<1>3. PICK k \in Nat : k = 29 + b
  OBVIOUS
<1>4. s \in Seq(Instruction) /\ Len(s) = Len(BeforeDisplays) + Len(configureDisplay)
  BY <1>1, <1>2, JoinedLength
<1>5. Extends(s, BeforeDisplays)
  BY <1>1, <1>2, JoinedExtends
<1>6. Lighting(s, Len(BeforeDisplays) + b)
  BY <1>1, <1>2, LightingRight
<1>7. ASSUME NEW i \in 30 .. k PROVE s[i] \in InDark
  <2>1. PICK j \in 1 .. b : i = 29 + j
    <3>1. i - 29 \in 1 .. b /\ i = 29 + (i - 29)
      BY <1>3
    <3> QED
      BY <3>1
  <2>2. j \in 1 .. Len(configureDisplay)
    BY <1>1
  <2>3. s[Len(BeforeDisplays) + j] = configureDisplay[j]
    <3>1. configureDisplay \in Seq(Instruction) /\ BeforeDisplays \in Seq(Instruction)
      BY <1>1, <1>2
    <3> QED
      BY <2>2, <3>1, JoinedAt
  <2> QED
    BY <1>1, <1>2, <2>1, <2>3
<1>8. Len(s) = k + 6 /\ 29 <= k /\ Len(BeforeDisplays) + b = k
  BY <1>1, <1>2, <1>3, <1>4
<1>9. Lighting(s, k)
  BY <1>6, <1>8
<1> QED
  BY <1>4, <1>5, <1>7, <1>8, <1>9

LEMMA AppCode == \E k \in Nat, m \in Nat : AppShape(APP_Initialize, k, m)
<1>1. PICK k \in Nat, s1 \in Seq(Instruction) :
        /\ s1 = BeforeDisplays \o configureDisplay /\ Len(s1) = k + 6 /\ 29 <= k
        /\ Extends(s1, BeforeDisplays) /\ Lighting(s1, k)
        /\ \A i \in 30 .. k : s1[i] \in InDark
  BY ToLightCode
<1> DEFINE cd2 == configureDisplay2
           su == startupSequence
           con == setDisplayContrast(128)
           fl == setDisplayFlip(FALSE)
           rd == Do("readCalibration", 0)
           of == Do("off", "SPI1")
           s2 == s1 \o cd2 \o su \o con \o fl \o rd \o of
<1>2. LitSince(s2, s1)
  <2>1. /\ cd2 \in Seq(InLight) /\ su \in Seq(InLight) /\ con \in Seq(InLight)
        /\ fl \in Seq(InLight) /\ rd \in Seq(InLight) /\ of \in Seq(InLight)
    BY DisplayCode
  <2> HIDE DEF cd2, su, con, fl, rd, of
  <2>2. LitSince(s1, s1)
    BY DEF LitSince, Extends
  <2>3. LitSince(s1 \o cd2, s1)
    BY <2>1, <2>2, LitOn
  <2>4. LitSince(s1 \o cd2 \o su, s1)
    BY <2>1, <2>3, LitOn
  <2>5. LitSince(s1 \o cd2 \o su \o con, s1)
    BY <2>1, <2>4, LitOn
  <2>6. LitSince(s1 \o cd2 \o su \o con \o fl, s1)
    BY <2>1, <2>5, LitOn
  <2>7. LitSince(s1 \o cd2 \o su \o con \o fl \o rd, s1)
    BY <2>1, <2>6, LitOn
  <2> QED
    BY <2>1, <2>7, LitOn
<1>22. Runs(s2, 29, At(Begun, 0), At(Ended, FrameBytes))
  BY <1>1, DisplaysCode
<1>3. APP_Initialize =
        ((s2 \o (Do("set", "codec") \o Do("delay", 1))) \o ConfigureCodec) \o Do("on", "I2C4")
  BY <1>1 DEF APP_Initialize, BeforeDisplays, CodecOutOfReset, delayMs
<1> HIDE DEF s2
<1>4. PICK m \in Nat : m = Len(s2) /\ k + 6 <= m /\ s2 \in Seq(Instruction)
  <2>1. s2 \in Seq(Instruction) /\ Len(s1) <= Len(s2) /\ Len(s2) \in Nat
    BY <1>2 DEF LitSince, Extends
  <2> QED
    BY <1>1, <2>1
<1> DEFINE r == Do("set", "codec") \o Do("delay", 1)
           e == Do("on", "I2C4")
<1>5. /\ r \in Seq(Instruction) /\ Len(r) = 2
      /\ Is(r, 1, "set", "codec") /\ Is(r, 2, "delay", 1)
      /\ e \in Seq(Instruction) /\ Len(e) = 1 /\ Is(e, 1, "on", "I2C4")
  <2>1. /\ [op |-> "set", arg |-> "codec"] \in Instruction
        /\ [op |-> "delay", arg |-> 1] \in Instruction
        /\ [op |-> "on", arg |-> "I2C4"] \in Instruction
    BY DEF Instruction, Moving, Delaying, Pin, Switching, Names
  <2>2. /\ Do("set", "codec") \in Seq(Instruction) /\ Do("delay", 1) \in Seq(Instruction)
        /\ Do("on", "I2C4") \in Seq(Instruction)
    BY <2>1, DoIs
  <2>3. r \in Seq(Instruction)
    BY <2>2, JoinedLength
  <2>4. Len(r) = 2 /\ Is(r, 1, "set", "codec") /\ Is(r, 2, "delay", 1)
    BY DEF Do, Is
  <2> QED
    BY <2>1, <2>2, <2>3, <2>4, DoIs DEF Is
<1> HIDE DEF r, e
<1> DEFINE s3 == s2 \o r
           s4 == s3 \o ConfigureCodec
           s5 == s4 \o e
<1>6. s3 \in Seq(Instruction) /\ Len(s3) = Len(s2) + Len(r) /\ Extends(s3, s2)
  BY <1>4, <1>5, JoinedLength, JoinedExtends
<1>7. Len(s3) = m + 2 /\ Is(s3, m + 1, "set", "codec") /\ Is(s3, m + 2, "delay", 1)
  <2>1. Is(s2 \o r, Len(s2) + 1, "set", "codec") /\ Is(s2 \o r, Len(s2) + 2, "delay", 1)
    BY <1>4, <1>5, IsRight
  <2> HIDE DEF s3
  <2>2. Len(s3) = m + 2
    BY <1>4, <1>5, <1>6
  <2> QED
    BY <1>4, <2>1, <2>2 DEF s3
<1> HIDE DEF s3
<1>8. PICK c \in Seq(Instruction) :
        /\ c = ConfigureCodec /\ Len(c) = 32
        /\ Is(c, 1, "on", "I2C2") /\ Is(c, 32, "off", "I2C2")
        /\ \A n \in 1 .. 6 : Packet(c, 1 + (5 * n - 5), n)
  BY CodecCode
<1>9. s4 \in Seq(Instruction) /\ Len(s4) = Len(s3) + Len(c) /\ Extends(s4, s3)
  BY <1>6, <1>8, JoinedLength, JoinedExtends
<1>10. Is(s4, m + 3, "on", "I2C2") /\ Is(s4, m + 34, "off", "I2C2")
  <2>1. Is(s4, Len(s3) + 1, "on", "I2C2") /\ Is(s4, Len(s3) + 32, "off", "I2C2")
    BY <1>6, <1>8, IsRight
  <2>2. Len(s3) + 1 = m + 3 /\ Len(s3) + 32 = m + 34
    BY <1>4, <1>7
  <2> QED
    BY <2>1, <2>2
<1>11. ASSUME NEW n \in 1 .. 6 PROVE Packet(s4, (m + 3) + (5 * n - 5), n)
  <2>1. 1 + (5 * n - 5) \in Nat
    OBVIOUS
  <2>2. PICK o \in Nat : o = 1 + (5 * n - 5)
    BY <2>1
  <2>3. Packet(c, o, n)
    BY <1>8, <2>2
  <2>4. Packet(s3 \o c, Len(s3) + o, n)
    BY <1>6, <2>3, PacketRight
  <2>5. Len(s3) + o = (m + 3) + (5 * n - 5)
    BY <1>4, <1>7, <2>2
  <2> QED
    BY <1>8, <2>4, <2>5
<1>12. Len(s4) = m + 34
  <2> HIDE DEF s4
  <2> QED
    BY <1>4, <1>7, <1>8, <1>9
<1> HIDE DEF s4
<1>13. /\ s5 \in Seq(Instruction) /\ Len(s5) = Len(s4) + Len(e) /\ Extends(s5, s4)
       /\ Is(s5, Len(s4) + 1, "on", "I2C4")
  BY <1>5, <1>9, JoinedLength, JoinedExtends, IsRight
<1> HIDE DEF s5
<1>14. Len(s5) = m + 35 /\ Is(s5, m + 35, "on", "I2C4")
  <2>1. Len(s4) + 1 = m + 35
    BY <1>4, <1>12
  <2> QED
    BY <1>5, <1>13, <2>1
<1>15. Extends(s2, s1) /\ Extends(s5, s3) /\ Extends(s5, s2) /\ Extends(s5, s1)
       /\ Extends(s5, BeforeDisplays)
  <2>1. Extends(s2, s1)
    BY <1>2 DEF LitSince
  <2>2. Extends(s5, s3)
    BY <1>6, <1>9, <1>13, ExtendsAgain
  <2>3. Extends(s5, s2)
    BY <1>4, <1>6, <1>13, <2>2, ExtendsAgain
  <2>4. Extends(s5, s1)
    BY <1>1, <1>4, <1>13, <2>1, <2>3, ExtendsAgain
  <2>5. Extends(s5, BeforeDisplays)
    BY <1>1, <1>13, <2>4, BeforeCode, ExtendsAgain
  <2> QED
    BY <2>1, <2>2, <2>3, <2>4, <2>5
<1>16. \A i \in 30 .. k : s5[i] \in InDark
  <2> SUFFICES ASSUME NEW i \in 30 .. k PROVE s5[i] \in InDark
    OBVIOUS
  <2>1. i \in 1 .. Len(s1)
    BY <1>1
  <2> QED
    BY <1>1, <1>15, <2>1 DEF Extends
<1>17. Lighting(s5, k)
  BY <1>1, <1>13, <1>15, LightingKept
<1>18. \A i \in k + 7 .. m : s5[i] \in InLight
  <2> SUFFICES ASSUME NEW i \in k + 7 .. m PROVE s5[i] \in InLight
    OBVIOUS
  <2>1. i \in 1 .. Len(s2) /\ i > Len(s1)
    BY <1>1, <1>4
  <2>2. s2[i] \in InLight
    BY <1>2, <2>1 DEF LitSince
  <2> QED
    BY <1>15, <2>1, <2>2 DEF Extends
<1>19. /\ Is(s5, m + 1, "set", "codec") /\ Is(s5, m + 2, "delay", 1)
       /\ Is(s5, m + 3, "on", "I2C2") /\ Is(s5, m + 34, "off", "I2C2")
  BY <1>6, <1>7, <1>9, <1>10, <1>13, <1>15, IsKept
<1>20. \A n \in 1 .. 6 : Packet(s5, (m + 3) + (5 * n - 5), n)
  <2> SUFFICES ASSUME NEW n \in 1 .. 6 PROVE Packet(s5, (m + 3) + (5 * n - 5), n)
    OBVIOUS
  <2> QED
    BY <1>9, <1>11, <1>13, PacketKept
<1>21. APP_Initialize = s5
  BY <1>3, <1>8 DEF s3, s4, s5, r, e
<1>23. DisplaysRun(s5, 29, m)
  BY <1>4, <1>13, <1>15, <1>22, StoryKept DEF DisplaysRun
<1> QED
  BY <1>1, <1>4, <1>13, <1>14, <1>15, <1>16, <1>17, <1>18, <1>19, <1>20, <1>21, <1>23
     DEF AppShape

(***************************************************************************)
(* The whole program.                                                      *)
(***************************************************************************)
ClocksAndPins(s) ==
  /\ Is(s, 1, "await", "DCH0") /\ Is(s, 2, "off", "DMA") /\ Is(s, 3, "unlock", 0)
  /\ Is(s, 4, "divide", PBClockDivisor) /\ Is(s, 5, "lock", 0) /\ Is(s, 6, "unlock", 0)
  /\ Is(s, 7, "source", "Posc") /\ Is(s, 8, "lock", 0) /\ Is(s, 9, "unlock", 0)
  /\ Is(s, 10, "multiply", SysPLLMultiplier) /\ Is(s, 11, "lock", 0)
  /\ Is(s, 12, "unlock", 0) /\ Is(s, 13, "source", "SPLL") /\ Is(s, 14, "lock", 0)
  /\ Is(s, 15, "waitStates", SYS_CLK_FREQ) /\ Is(s, 16, "latch", "A")
  /\ Is(s, 17, "drive", "A") /\ Is(s, 18, "latch", "G") /\ Is(s, 19, "drive", "G")
  /\ Is(s, 20, "latch", "H") /\ Is(s, 21, "drive", "H") /\ Is(s, 22, "latch", "J")
  /\ Is(s, 23, "drive", "J")

Devices(s) ==
  /\ Is(s, 24, "on", "EBI") /\ Is(s, 25, "on", "DMA") /\ Is(s, 26, "on", "SPI1")
  /\ Is(s, 27, "set", "reset2") /\ Is(s, 28, "set", "cs2") /\ Is(s, 29, "off", "SPI1")
  /\ Is(s, 30, "on", "SPI1") /\ Is(s, 31, "on", "SPI5") /\ Is(s, 32, "on", "SPI3")
  /\ Is(s, 33, "on", "SPI4") /\ Is(s, 34, "on", "SPI6") /\ Is(s, 35, "off", "channels")
  /\ Is(s, 36, "await", "channels") /\ Is(s, 37, "on", "silence")
  /\ Is(s, 38, "off", "SPI6") /\ Is(s, 39, "on", "channels") /\ Is(s, 40, "on", "SPI6")
  /\ Is(s, 41, "on", "UART2") /\ Is(s, 42, "on", "UART4")
  /\ Is(s, 43, "timer3", <<Timer3Prescale, Timer3Period>>) /\ Is(s, 44, "on", "ADC")
  /\ Is(s, 45, "await", "ADC") /\ Is(s, 46, "delay", 1) /\ Is(s, 47, "delay", 10)
  /\ Is(s, 48, "set", "reset1") /\ Is(s, 49, "delay", 10) /\ Is(s, 50, "clear", "reset2")
  /\ Is(s, 51, "delay", 10) /\ Is(s, 52, "set", "reset2")

ProgramShape(k, m) ==
  /\ Program \in Seq(Instruction) /\ Len(Program) = m + 38 /\ 52 <= k /\ k + 6 <= m
  /\ ClocksAndPins(Program) /\ Devices(Program)
  /\ \A i \in 53 .. k : Program[i] \in InDark
  /\ Lighting(Program, k)
  /\ \A i \in k + 7 .. m : Program[i] \in InLight
  /\ DisplaysRun(Program, 52, m)
  /\ Is(Program, m + 1, "set", "codec") /\ Is(Program, m + 2, "delay", 1)
  /\ Is(Program, m + 3, "on", "I2C2") /\ Is(Program, m + 34, "off", "I2C2")
  /\ \A n \in 1 .. 6 : Packet(Program, (m + 3) + (5 * n - 5), n)
  /\ Is(Program, m + 35, "on", "I2C4") /\ Is(Program, m + 36, "sramTest", 0)
  /\ Is(Program, m + 37, "on", "algorithm") /\ Is(Program, m + 38, "on", "service")

LEMMA ClocksAndPinsCode ==
  ASSUME NEW a \in Seq(Instruction), NEW n \in Nat, Len(a) = n
  PROVE  LET u == (SYS_CLK_Initialize \o SYS_DEVCON_PerformanceConfig
                   \o SYS_PORTS_Initialize) \o a
             s == main \o u
         IN  /\ s \in Seq(Instruction) /\ Len(s) = n + 23 /\ ClocksAndPins(s)
             /\ \A i \in 1 .. n : s[23 + i] = a[i]
<1>1. PICK mn \in Seq(Instruction) :
        /\ mn = main /\ Len(mn) = 2 /\ Is(mn, 1, "await", "DCH0") /\ Is(mn, 2, "off", "DMA")
  BY MainCode
<1>2. PICK c \in Seq(Instruction) :
        /\ c = SYS_CLK_Initialize /\ Len(c) = 12
        /\ Is(c, 1, "unlock", 0)
        /\ Is(c, 2, "divide", PBClockDivisor)
        /\ Is(c, 3, "lock", 0)
        /\ Is(c, 4, "unlock", 0)
        /\ Is(c, 5, "source", "Posc")
        /\ Is(c, 6, "lock", 0)
        /\ Is(c, 7, "unlock", 0)
        /\ Is(c, 8, "multiply", SysPLLMultiplier)
        /\ Is(c, 9, "lock", 0)
        /\ Is(c, 10, "unlock", 0)
        /\ Is(c, 11, "source", "SPLL")
        /\ Is(c, 12, "lock", 0)
  BY ClockCode
<1>3. PICK w \in Seq(Instruction) :
        w = SYS_DEVCON_PerformanceConfig /\ Len(w) = 1 /\ Is(w, 1, "waitStates", SYS_CLK_FREQ)
  BY PerformanceCode
<1>4. PICK p \in Seq(Instruction) :
        /\ p = SYS_PORTS_Initialize /\ Len(p) = 8
        /\ Is(p, 1, "latch", "A")
        /\ Is(p, 2, "drive", "A")
        /\ Is(p, 3, "latch", "G")
        /\ Is(p, 4, "drive", "G")
        /\ Is(p, 5, "latch", "H")
        /\ Is(p, 6, "drive", "H")
        /\ Is(p, 7, "latch", "J")
        /\ Is(p, 8, "drive", "J")
  BY PortsCode
<1>5. PICK q \in Seq(Instruction) :
        /\ q = c \o w /\ Len(q) = 13 /\ Extends(q, c) /\ Is(q, 13, "waitStates", SYS_CLK_FREQ)
  <2>1. /\ c \o w \in Seq(Instruction) /\ Len(c \o w) = Len(c) + Len(w)
        /\ Extends(c \o w, c) /\ Is(c \o w, Len(c) + 1, "waitStates", SYS_CLK_FREQ)
    BY <1>3, JoinedLength, JoinedExtends, IsRight
  <2>2. Len(c) + Len(w) = 13 /\ Len(c) + 1 = 13
    BY <1>2, <1>3
  <2> QED
    BY <2>1, <2>2
<1>6. PICK r \in Seq(Instruction) :
        /\ r = q \o p /\ Len(r) = 21 /\ Extends(r, q)
        /\ Is(r, 14, "latch", "A")
        /\ Is(r, 15, "drive", "A")
        /\ Is(r, 16, "latch", "G")
        /\ Is(r, 17, "drive", "G")
        /\ Is(r, 18, "latch", "H")
        /\ Is(r, 19, "drive", "H")
        /\ Is(r, 20, "latch", "J")
        /\ Is(r, 21, "drive", "J")
  <2>1. q \o p \in Seq(Instruction) /\ Len(q \o p) = Len(q) + Len(p) /\ Extends(q \o p, q)
    BY JoinedLength, JoinedExtends
  <2>2. /\ Is(q \o p, Len(q) + 1, "latch", "A")
        /\ Is(q \o p, Len(q) + 2, "drive", "A")
        /\ Is(q \o p, Len(q) + 3, "latch", "G")
        /\ Is(q \o p, Len(q) + 4, "drive", "G")
        /\ Is(q \o p, Len(q) + 5, "latch", "H")
        /\ Is(q \o p, Len(q) + 6, "drive", "H")
        /\ Is(q \o p, Len(q) + 7, "latch", "J")
        /\ Is(q \o p, Len(q) + 8, "drive", "J")
    BY <1>4, IsRight
  <2>3. /\ Len(q) + Len(p) = 21
        /\ Len(q) + 1 = 14
        /\ Len(q) + 2 = 15
        /\ Len(q) + 3 = 16
        /\ Len(q) + 4 = 17
        /\ Len(q) + 5 = 18
        /\ Len(q) + 6 = 19
        /\ Len(q) + 7 = 20
        /\ Len(q) + 8 = 21
    BY <1>4, <1>5
  <2> QED
    BY <2>1, <2>2, <2>3
<1>7. PICK u \in Seq(Instruction) :
        /\ u = r \o a /\ Len(u) = n + 21 /\ Extends(u, r)
        /\ \A i \in 1 .. n : u[21 + i] = a[i]
  <2>1. r \o a \in Seq(Instruction) /\ Len(r \o a) = Len(r) + Len(a) /\ Extends(r \o a, r)
    BY JoinedLength, JoinedExtends
  <2>2. \A i \in 1 .. Len(a) : (r \o a)[Len(r) + i] = a[i]
    BY JoinedAt
  <2>3. Len(r) + Len(a) = n + 21
    BY <1>6
  <2>4. \A i \in 1 .. n : (r \o a)[21 + i] = a[i]
    BY <1>6, <2>2
  <2> QED
    BY <2>1, <2>3, <2>4
<1>8. PICK s \in Seq(Instruction) :
        /\ s = mn \o u /\ Len(s) = n + 23 /\ Extends(s, mn)
        /\ \A i \in 1 .. n + 21 : s[2 + i] = u[i]
  <2>1. mn \o u \in Seq(Instruction) /\ Len(mn \o u) = Len(mn) + Len(u)
        /\ Extends(mn \o u, mn)
    BY JoinedLength, JoinedExtends
  <2>2. \A i \in 1 .. Len(u) : (mn \o u)[Len(mn) + i] = u[i]
    BY JoinedAt
  <2>3. Len(mn) + Len(u) = n + 23
    BY <1>1, <1>7
  <2>4. \A i \in 1 .. n + 21 : (mn \o u)[2 + i] = u[i]
    BY <1>1, <1>7, <2>2
  <2> QED
    BY <2>1, <2>3, <2>4
<1>9. ASSUME NEW j \in 1 .. 21, NEW op, NEW arg, Is(r, j, op, arg)
      PROVE  Is(s, 2 + j, op, arg)
  <2>1. Is(u, j, op, arg)
    BY <1>7, <1>9, IsKept
  <2>2. j \in 1 .. n + 21 /\ u[j] = [op |-> op, arg |-> arg]
    BY <1>7, <2>1 DEF Is
  <2>3. s[2 + j] = u[j]
    BY <1>8, <2>2
  <2>4. 2 + j \in 1 .. Len(s)
    BY <1>8
  <2> QED
    BY <2>2, <2>3, <2>4 DEF Is
<1>10. ASSUME NEW j \in 1 .. 12, NEW op, NEW arg, Is(c, j, op, arg)
       PROVE  Is(s, 2 + j, op, arg)
  <2>1. Is(r, j, op, arg)
    BY <1>5, <1>6, <1>10, IsKept
  <2> QED
    BY <1>9, <2>1
<1>11. /\ Is(s, 2 + 1, "unlock", 0)
       /\ Is(s, 2 + 2, "divide", PBClockDivisor)
       /\ Is(s, 2 + 3, "lock", 0)
       /\ Is(s, 2 + 4, "unlock", 0)
       /\ Is(s, 2 + 5, "source", "Posc")
       /\ Is(s, 2 + 6, "lock", 0)
       /\ Is(s, 2 + 7, "unlock", 0)
       /\ Is(s, 2 + 8, "multiply", SysPLLMultiplier)
       /\ Is(s, 2 + 9, "lock", 0)
       /\ Is(s, 2 + 10, "unlock", 0)
       /\ Is(s, 2 + 11, "source", "SPLL")
       /\ Is(s, 2 + 12, "lock", 0)
  BY <1>2, <1>10
<1>12. /\ Is(s, 2 + 13, "waitStates", SYS_CLK_FREQ)
       /\ Is(s, 2 + 14, "latch", "A")
       /\ Is(s, 2 + 15, "drive", "A")
       /\ Is(s, 2 + 16, "latch", "G")
       /\ Is(s, 2 + 17, "drive", "G")
       /\ Is(s, 2 + 18, "latch", "H")
       /\ Is(s, 2 + 19, "drive", "H")
       /\ Is(s, 2 + 20, "latch", "J")
       /\ Is(s, 2 + 21, "drive", "J")
  <2>1. Is(r, 13, "waitStates", SYS_CLK_FREQ)
    BY <1>5, <1>6, IsKept
  <2> QED
    BY <1>6, <1>9, <2>1
<1>13. Is(s, 1, "await", "DCH0") /\ Is(s, 2, "off", "DMA")
  BY <1>1, <1>8, IsKept
<1>14. ClocksAndPins(s)
  <2>1. /\ 2 + 1 = 3
        /\ 2 + 2 = 4
        /\ 2 + 3 = 5
        /\ 2 + 4 = 6
        /\ 2 + 5 = 7
        /\ 2 + 6 = 8
        /\ 2 + 7 = 9
        /\ 2 + 8 = 10
        /\ 2 + 9 = 11
        /\ 2 + 10 = 12
        /\ 2 + 11 = 13
        /\ 2 + 12 = 14
        /\ 2 + 13 = 15
        /\ 2 + 14 = 16
        /\ 2 + 15 = 17
        /\ 2 + 16 = 18
        /\ 2 + 17 = 19
        /\ 2 + 18 = 20
        /\ 2 + 19 = 21
        /\ 2 + 20 = 22
        /\ 2 + 21 = 23
    OBVIOUS
  <2> QED
    BY <1>11, <1>12, <1>13, <2>1 DEF ClocksAndPins
<1>15. ASSUME NEW i \in 1 .. n PROVE s[23 + i] = a[i]
  <2>1. PICK j \in 1 .. n + 21 : j = 21 + i
    OBVIOUS
  <2>2. s[2 + j] = u[j] /\ u[21 + i] = a[i]
    BY <1>7, <1>8
  <2>3. 2 + j = 23 + i
    BY <2>1
  <2> QED
    BY <2>1, <2>2, <2>3
<1>16. s = main \o ((SYS_CLK_Initialize \o SYS_DEVCON_PerformanceConfig
                     \o SYS_PORTS_Initialize) \o a)
  BY <1>1, <1>2, <1>3, <1>4, <1>5, <1>6, <1>7, <1>8
<1> QED
  BY <1>8, <1>14, <1>15, <1>16

LEMMA TasksCode ==
  /\ APP_Tasks \in Seq(Instruction) /\ Len(APP_Tasks) = 3
  /\ Is(APP_Tasks, 1, "sramTest", 0) /\ Is(APP_Tasks, 2, "on", "algorithm")
  /\ Is(APP_Tasks, 3, "on", "service")
<1>1. /\ [op |-> "sramTest", arg |-> 0] \in Instruction
      /\ [op |-> "on", arg |-> "algorithm"] \in Instruction
      /\ [op |-> "on", arg |-> "service"] \in Instruction
  BY DEF Instruction, Testing, Switching, Names
<1>2. APP_Tasks \in Seq(Instruction)
  BY <1>1, DoIs, JoinedIn DEF APP_Tasks
<1> QED
  BY <1>2 DEF APP_Tasks, Do, Is

LEMMA ProgramCode == \E k \in Nat, m \in Nat : ProgramShape(k, m)
<1>1. PICK k0 \in Nat, m0 \in Nat, a \in Seq(Instruction) :
        a = APP_Initialize /\ AppShape(a, k0, m0)
  <2>1. PICK k0 \in Nat, m0 \in Nat : AppShape(APP_Initialize, k0, m0)
    BY AppCode
  <2>2. APP_Initialize \in Seq(Instruction)
    BY <2>1 DEF AppShape
  <2> QED
    BY <2>1, <2>2
<1>2. PICK n \in Nat, k \in Nat, m \in Nat :
        /\ n = Len(a) /\ n = m0 + 35 /\ k = k0 + 23 /\ m = m0 + 23 /\ 52 <= k /\ k + 6 <= m
  <2>1. Len(a) = m0 + 35 /\ 29 <= k0 /\ k0 + 6 <= m0
    BY <1>1 DEF AppShape
  <2>2. /\ m0 + 35 \in Nat /\ k0 + 23 \in Nat /\ m0 + 23 \in Nat
        /\ 52 <= k0 + 23 /\ (k0 + 23) + 6 <= m0 + 23
    BY <2>1
  <2> QED
    BY <2>1, <2>2
<1>3. PICK s \in Seq(Instruction) :
        /\ s = main \o SYS_Initialize /\ Len(s) = n + 23 /\ ClocksAndPins(s)
        /\ \A i \in 1 .. n : s[23 + i] = a[i]
  <2>1. SYS_Initialize = (SYS_CLK_Initialize \o SYS_DEVCON_PerformanceConfig
                          \o SYS_PORTS_Initialize) \o a
    BY <1>1 DEF SYS_Initialize
  <2>2. LET z == main \o ((SYS_CLK_Initialize \o SYS_DEVCON_PerformanceConfig
                           \o SYS_PORTS_Initialize) \o a) IN
        /\ z \in Seq(Instruction) /\ Len(z) = n + 23 /\ ClocksAndPins(z)
        /\ \A i \in 1 .. n : z[23 + i] = a[i]
    BY <1>2, ClocksAndPinsCode
  <2> QED
    BY <2>1, <2>2
<1>4. PICK t \in Seq(Instruction) :
        /\ t = APP_Tasks /\ Len(t) = 3 /\ Is(t, 1, "sramTest", 0)
        /\ Is(t, 2, "on", "algorithm") /\ Is(t, 3, "on", "service")
  BY TasksCode
<1>5. PICK p \in Seq(Instruction) :
        /\ p = Program /\ p = s \o t /\ Len(p) = n + 26 /\ Extends(p, s)
        /\ Is(p, n + 24, "sramTest", 0) /\ Is(p, n + 25, "on", "algorithm")
        /\ Is(p, n + 26, "on", "service")
  <2>1. s \o t \in Seq(Instruction) /\ Len(s \o t) = Len(s) + Len(t) /\ Extends(s \o t, s)
    BY JoinedLength, JoinedExtends
  <2>2. /\ Is(s \o t, Len(s) + 1, "sramTest", 0) /\ Is(s \o t, Len(s) + 2, "on", "algorithm")
        /\ Is(s \o t, Len(s) + 3, "on", "service")
    BY <1>4, IsRight
  <2>3. /\ Len(s) + 1 = n + 24 /\ Len(s) + 2 = n + 25 /\ Len(s) + 3 = n + 26
        /\ Len(s) + Len(t) = n + 26
    BY <1>3, <1>4
  <2>4. Program = s \o t
    BY <1>3, <1>4 DEF Program
  <2> QED
    BY <2>1, <2>2, <2>3, <2>4
<1>6. ClocksAndPins(p)
  <2>1. ASSUME NEW j, NEW op, NEW arg, Is(s, j, op, arg) PROVE Is(p, j, op, arg)
    BY <1>5, <2>1, IsKept
  <2> QED
    BY <1>3, <2>1 DEF ClocksAndPins
<1>7. ASSUME NEW i \in 1 .. n PROVE 23 + i \in 1 .. Len(p) /\ p[23 + i] = a[i]
  <2>1. 23 + i \in 1 .. Len(s) /\ s[23 + i] = a[i]
    BY <1>3
  <2>2. 23 + i \in 1 .. Len(p)
    BY <1>5
  <2>3. p[23 + i] = s[23 + i]
    BY <1>5, <2>1 DEF Extends
  <2> QED
    BY <2>1, <2>2, <2>3
<1>8. ASSUME NEW i, NEW op, NEW arg, Is(a, i, op, arg)
      PROVE  Is(p, 23 + i, op, arg)
  <2>1. i \in 1 .. n /\ a[i] = [op |-> op, arg |-> arg]
    BY <1>2, <1>8 DEF Is
  <2> QED
    BY <1>7, <2>1 DEF Is
<1>9. Devices(p)
  <2>1. BeforeDisplays \in Seq(Instruction) /\ Extends(a, BeforeDisplays)
    BY <1>1, BeforeCode DEF AppShape
  <2>2. ASSUME NEW j, NEW op, NEW arg, Is(BeforeDisplays, j, op, arg)
        PROVE  Is(p, 23 + j, op, arg)
    BY <1>8, <2>1, <2>2, IsKept
  <2>3. /\ Is(p, 23 + 1, "on", "EBI")
        /\ Is(p, 23 + 2, "on", "DMA")
        /\ Is(p, 23 + 3, "on", "SPI1")
        /\ Is(p, 23 + 4, "set", "reset2")
        /\ Is(p, 23 + 5, "set", "cs2")
        /\ Is(p, 23 + 6, "off", "SPI1")
        /\ Is(p, 23 + 7, "on", "SPI1")
        /\ Is(p, 23 + 8, "on", "SPI5")
        /\ Is(p, 23 + 9, "on", "SPI3")
        /\ Is(p, 23 + 10, "on", "SPI4")
        /\ Is(p, 23 + 11, "on", "SPI6")
        /\ Is(p, 23 + 12, "off", "channels")
        /\ Is(p, 23 + 13, "await", "channels")
        /\ Is(p, 23 + 14, "on", "silence")
        /\ Is(p, 23 + 15, "off", "SPI6")
        /\ Is(p, 23 + 16, "on", "channels")
        /\ Is(p, 23 + 17, "on", "SPI6")
        /\ Is(p, 23 + 18, "on", "UART2")
        /\ Is(p, 23 + 19, "on", "UART4")
        /\ Is(p, 23 + 20, "timer3", <<Timer3Prescale, Timer3Period>>)
        /\ Is(p, 23 + 21, "on", "ADC")
        /\ Is(p, 23 + 22, "await", "ADC")
        /\ Is(p, 23 + 23, "delay", 1)
        /\ Is(p, 23 + 24, "delay", 10)
        /\ Is(p, 23 + 25, "set", "reset1")
        /\ Is(p, 23 + 26, "delay", 10)
        /\ Is(p, 23 + 27, "clear", "reset2")
        /\ Is(p, 23 + 28, "delay", 10)
        /\ Is(p, 23 + 29, "set", "reset2")
    BY <2>2, BeforeCode
  <2>4. /\ 23 + 1 = 24
        /\ 23 + 2 = 25
        /\ 23 + 3 = 26
        /\ 23 + 4 = 27
        /\ 23 + 5 = 28
        /\ 23 + 6 = 29
        /\ 23 + 7 = 30
        /\ 23 + 8 = 31
        /\ 23 + 9 = 32
        /\ 23 + 10 = 33
        /\ 23 + 11 = 34
        /\ 23 + 12 = 35
        /\ 23 + 13 = 36
        /\ 23 + 14 = 37
        /\ 23 + 15 = 38
        /\ 23 + 16 = 39
        /\ 23 + 17 = 40
        /\ 23 + 18 = 41
        /\ 23 + 19 = 42
        /\ 23 + 20 = 43
        /\ 23 + 21 = 44
        /\ 23 + 22 = 45
        /\ 23 + 23 = 46
        /\ 23 + 24 = 47
        /\ 23 + 25 = 48
        /\ 23 + 26 = 49
        /\ 23 + 27 = 50
        /\ 23 + 28 = 51
        /\ 23 + 29 = 52
    OBVIOUS
  <2> QED
    BY <2>3, <2>4 DEF Devices
<1>10. Lighting(p, k)
  <2>1. /\ Is(p, 23 + (k0 + 1), "clear", "power") /\ Is(p, 23 + (k0 + 2), "delay", 100)
        /\ Is(p, 23 + (k0 + 3), "clear", "cs1")
        /\ Is(p, 23 + (k0 + 4), "send", <<{1}, <<"on", TRUE>>>>)
        /\ Is(p, 23 + (k0 + 5), "set", "cs1") /\ Is(p, 23 + (k0 + 6), "set", "dc1")
    BY <1>1, <1>8 DEF AppShape, Lighting
  <2>2. /\ 23 + (k0 + 1) = k + 1 /\ 23 + (k0 + 2) = k + 2 /\ 23 + (k0 + 3) = k + 3
        /\ 23 + (k0 + 4) = k + 4 /\ 23 + (k0 + 5) = k + 5 /\ 23 + (k0 + 6) = k + 6
    BY <1>2
  <2> QED
    BY <2>1, <2>2 DEF Lighting
<1>11. ASSUME NEW i \in 53 .. k PROVE p[i] \in InDark
  <2>1. PICK j \in 30 .. k0 : i = 23 + j
    <3>1. i - 23 \in 30 .. k0 /\ i = 23 + (i - 23)
      BY <1>2
    <3> QED
      BY <3>1
  <2>2. a[j] \in InDark
    <3>1. \A l \in 30 .. k0 : a[l] \in InDark
      BY <1>1 DEF AppShape
    <3> QED
      BY <3>1
  <2>3. j \in 1 .. n
    BY <1>2
  <2> QED
    BY <1>7, <2>1, <2>2, <2>3
<1>12. ASSUME NEW i \in k + 7 .. m PROVE p[i] \in InLight
  <2>1. PICK j \in k0 + 7 .. m0 : i = 23 + j
    <3>1. i - 23 \in k0 + 7 .. m0 /\ i = 23 + (i - 23)
      BY <1>2
    <3> QED
      BY <3>1
  <2>2. a[j] \in InLight
    <3>1. \A l \in k0 + 7 .. m0 : a[l] \in InLight
      BY <1>1 DEF AppShape
    <3> QED
      BY <3>1
  <2>3. j \in 1 .. n
    BY <1>2
  <2> QED
    BY <1>7, <2>1, <2>2, <2>3
<1>13. /\ Is(p, m + 1, "set", "codec") /\ Is(p, m + 2, "delay", 1)
       /\ Is(p, m + 3, "on", "I2C2") /\ Is(p, m + 34, "off", "I2C2")
       /\ Is(p, m + 35, "on", "I2C4")
  <2>1. /\ Is(p, 23 + (m0 + 1), "set", "codec") /\ Is(p, 23 + (m0 + 2), "delay", 1)
        /\ Is(p, 23 + (m0 + 3), "on", "I2C2") /\ Is(p, 23 + (m0 + 34), "off", "I2C2")
        /\ Is(p, 23 + (m0 + 35), "on", "I2C4")
    BY <1>1, <1>8 DEF AppShape
  <2>2. /\ 23 + (m0 + 1) = m + 1 /\ 23 + (m0 + 2) = m + 2 /\ 23 + (m0 + 3) = m + 3
        /\ 23 + (m0 + 34) = m + 34 /\ 23 + (m0 + 35) = m + 35
    BY <1>2
  <2> QED
    BY <2>1, <2>2
<1>14. ASSUME NEW j \in 1 .. 6 PROVE Packet(p, (m + 3) + (5 * j - 5), j)
  <2>1. PICK o \in Nat : o = (m0 + 3) + (5 * j - 5)
    OBVIOUS
  <2>2. Packet(a, o, j)
    BY <1>1, <2>1 DEF AppShape
  <2>3. /\ Is(p, 23 + (o + 1), "start", 0) /\ Is(p, 23 + (o + 2), "byte", "address")
        /\ Is(p, 23 + (o + 3), "byte", CodecSettings[j][1])
        /\ Is(p, 23 + (o + 4), "byte", CodecSettings[j][2])
        /\ Is(p, 23 + (o + 5), "stop", 0)
    BY <1>8, <2>2 DEF Packet
  <2>4. PICK q \in Nat : q = 23 + o /\ q = (m + 3) + (5 * j - 5)
    BY <1>2, <2>1
  <2>5. /\ 23 + (o + 1) = q + 1 /\ 23 + (o + 2) = q + 2 /\ 23 + (o + 3) = q + 3
        /\ 23 + (o + 4) = q + 4 /\ 23 + (o + 5) = q + 5
    BY <2>4
  <2>6. Packet(p, q, j)
    BY <2>3, <2>5 DEF Packet
  <2> QED
    BY <2>4, <2>6
<1>15. /\ Is(p, m + 36, "sramTest", 0) /\ Is(p, m + 37, "on", "algorithm")
       /\ Is(p, m + 38, "on", "service") /\ Len(p) = m + 38
  <2>1. n + 24 = m + 36 /\ n + 25 = m + 37 /\ n + 26 = m + 38
    BY <1>2
  <2> QED
    BY <1>5, <2>1
<1>17. DisplaysRun(p, 52, m)
  <2>1. DisplaysRun(a, 29, m0) /\ 29 <= m0
    BY <1>1 DEF AppShape
  <2>2. \A i \in 29 + 1 .. m0 : p[23 + i] = a[i]
    BY <1>2, <1>7
  <2>3. DisplaysRun(p, 23 + 29, 23 + m0)
    BY <2>1, <2>2, StoryMoved
  <2>4. 23 + 29 = 52 /\ 23 + m0 = m
    BY <1>2
  <2> QED
    BY <2>3, <2>4
<1>16. ProgramShape(k, m)
  <2>1. p = Program
    BY <1>5
  <2> QED
    BY <1>2, <1>6, <1>9, <1>10, <1>11, <1>12, <1>13, <1>14, <1>15, <1>17, <2>1
       DEF ProgramShape
<1> QED
  BY <1>16

-----------------------------------------------------------------------------
(***************************************************************************)
(* What an instruction does by where it is.                                *)
(***************************************************************************)
Unlocked == {4, 5, 7, 8, 10, 11, 13, 14}
Settling == {"on", "off", "await", "set", "clear", "delay", "timer3"}

PlaceInClocks(i, op, arg) ==
  \/ i = 1 /\ op = "await"
  \/ i = 2 /\ op = "off" /\ arg = "DMA"
  \/ i \in 3 .. 14 /\ op \in {"unlock", "lock", "divide", "source", "multiply"}
  \/ i = 15 /\ op = "waitStates" /\ arg = SYS_CLK_FREQ
  \/ i \in 16 .. 23 /\ op \in {"latch", "drive"}

PlaceInDevices(i, op, arg) ==
  \/ op = "on" /\ arg # "I2C2"
  \/ op = "off" /\ i = 29 /\ arg = "SPI1"
  \/ op = "off" /\ i = 35 /\ arg = "channels"
  \/ op = "off" /\ i = 38 /\ arg = "SPI6"
  \/ op = "await"
  \/ op = "set" /\ arg \in DisplayPins
  \/ op = "clear" /\ arg \in DisplayPins
  \/ op = "delay" /\ i > 43 /\ arg \in Nat
  \/ op = "timer3" /\ arg = <<Timer3Prescale, Timer3Period>>

PlaceInDark(op, arg) ==
  \/ op \in {"set", "clear"} /\ arg \in DisplayPins
  \/ op = "send" /\ arg \in (SUBSET Display) \X BytesInDark

PlaceInLighting(k, i, op, arg) ==
  \/ i = k + 1 /\ op = "clear" /\ arg = "power"
  \/ i = k + 2 /\ op = "delay" /\ arg = 100
  \/ i = k + 3 /\ op = "clear" /\ arg \in DisplayPins
  \/ i = k + 4 /\ op = "send"
  \/ i \in k + 5 .. k + 6 /\ op = "set" /\ arg \in DisplayPins

PlaceInLight(op, arg) ==
  \/ op \in {"set", "clear"} /\ arg \in DisplayPins
  \/ op = "send"
  \/ op = "delay" /\ arg \in Nat
  \/ op = "readCalibration"
  \/ op = "off" /\ arg = "SPI1"

PlaceAtCodec(m, i, op, arg) ==
  \/ i = m + 1 /\ op = "set" /\ arg = "codec"
  \/ i = m + 2 /\ op = "delay" /\ arg = 1
  \/ i = m + 3 /\ op = "on" /\ arg = "I2C2"
  \/ i \in m + 4 .. m + 33 /\ op \in {"start", "byte", "stop"}
  \/ i = m + 34 /\ op = "off" /\ arg = "I2C2"
  \/ i = m + 35 /\ op = "on" /\ arg # "I2C2"
  \/ i = m + 36 /\ op = "sramTest"
  \/ i \in m + 37 .. m + 38 /\ op = "on" /\ arg # "I2C2"

Place(k, m, i, op, arg) ==
  \/ i \in 1 .. 23 /\ PlaceInClocks(i, op, arg)
  \/ i \in 24 .. 52 /\ PlaceInDevices(i, op, arg)
  \/ i \in 53 .. k /\ PlaceInDark(op, arg)
  \/ i \in k + 1 .. k + 6 /\ PlaceInLighting(k, i, op, arg)
  \/ i \in k + 7 .. m /\ PlaceInLight(op, arg)
  \/ i \in m + 1 .. m + 38 /\ PlaceAtCodec(m, i, op, arg)

LEMMA PacketsAreThere ==
  ASSUME NEW m \in Nat, NEW i \in m + 4 .. m + 33
  PROVE  \E n \in 1 .. 6, q \in Nat : /\ q = (m + 3) + (5 * n - 5)
                                      /\ i \in q + 1 .. q + 5
<1>1. CASE i \in m + 4 .. m + 8
  BY <1>1, 1 \in 1 .. 6, m + 3 \in Nat
<1>2. CASE i \in m + 9 .. m + 13
  BY <1>2, 2 \in 1 .. 6, m + 8 \in Nat
<1>3. CASE i \in m + 14 .. m + 18
  BY <1>3, 3 \in 1 .. 6, m + 13 \in Nat
<1>4. CASE i \in m + 19 .. m + 23
  BY <1>4, 4 \in 1 .. 6, m + 18 \in Nat
<1>5. CASE i \in m + 24 .. m + 28
  BY <1>5, 5 \in 1 .. 6, m + 23 \in Nat
<1>6. CASE i \in m + 29 .. m + 33
  BY <1>6, 6 \in 1 .. 6, m + 28 \in Nat
<1> QED
  BY <1>1, <1>2, <1>3, <1>4, <1>5, <1>6

LEMMA Placed ==
  ASSUME NEW k \in Nat, NEW m \in Nat, ProgramShape(k, m), NEW i \in 1 .. m + 38
  PROVE  Place(k, m, i, Program[i].op, Program[i].arg)
<1>1. ASSUME NEW j, NEW op, NEW arg, Is(Program, j, op, arg)
      PROVE  Program[j].op = op /\ Program[j].arg = arg
  BY <1>1 DEF Is
<1>2. CASE i \in 1 .. 23
  <2>1. \/ i = 1 \/ i = 2 \/ i \in 3 .. 14 \/ i = 15 \/ i \in 16 .. 23
    BY <1>2
  <2>2. ClocksAndPins(Program)
    BY DEF ProgramShape
  <2>3. PlaceInClocks(i, Program[i].op, Program[i].arg)
    <3>1. CASE i = 1
      BY <1>1, <2>2, <3>1 DEF ClocksAndPins, PlaceInClocks
    <3>2. CASE i = 2
      BY <1>1, <2>2, <3>2 DEF ClocksAndPins, PlaceInClocks
    <3>3. CASE i = 15
      BY <1>1, <2>2, <3>3 DEF ClocksAndPins, PlaceInClocks
    <3>4. CASE i \in 3 .. 14
      <4>1. \/ i = 3 \/ i = 4 \/ i = 5 \/ i = 6 \/ i = 7 \/ i = 8 \/ i = 9 \/ i = 10
            \/ i = 11 \/ i = 12 \/ i = 13 \/ i = 14
        BY <3>4
      <4>2. Program[i].op \in {"unlock", "lock", "divide", "source", "multiply"}
        BY <1>1, <2>2, <4>1 DEF ClocksAndPins
      <4> QED
        BY <3>4, <4>2 DEF PlaceInClocks
    <3>5. CASE i \in 16 .. 23
      <4>1. \/ i = 16 \/ i = 17 \/ i = 18 \/ i = 19 \/ i = 20 \/ i = 21 \/ i = 22 \/ i = 23
        BY <3>5
      <4>2. Program[i].op \in {"latch", "drive"}
        BY <1>1, <2>2, <4>1 DEF ClocksAndPins
      <4> QED
        BY <3>5, <4>2 DEF PlaceInClocks
    <3> QED
      BY <2>1, <3>1, <3>2, <3>3, <3>4, <3>5
  <2> QED
    BY <1>2, <2>3 DEF Place
<1>3. CASE i \in 24 .. 52
  <2>1. Devices(Program)
    BY DEF ProgramShape
  <2>2. PlaceInDevices(i, Program[i].op, Program[i].arg)
    <3>1. CASE i \in 24 .. 33
      <4>1. \/ i = 24 \/ i = 25 \/ i = 26 \/ i = 27 \/ i = 28 \/ i = 29
            \/ i = 30 \/ i = 31 \/ i = 32 \/ i = 33
        BY <3>1
      <4> QED
        BY <1>1, <2>1, <4>1 DEF Devices, PlaceInDevices, DisplayPins
    <3>2. CASE i \in 34 .. 43
      <4>1. \/ i = 34 \/ i = 35 \/ i = 36 \/ i = 37 \/ i = 38 \/ i = 39
            \/ i = 40 \/ i = 41 \/ i = 42 \/ i = 43
        BY <3>2
      <4> QED
        BY <1>1, <2>1, <4>1 DEF Devices, PlaceInDevices, DisplayPins
    <3>3. CASE i \in 44 .. 52
      <4>1. \/ i = 44 \/ i = 45 \/ i = 46 \/ i = 47 \/ i = 48 \/ i = 49
            \/ i = 50 \/ i = 51 \/ i = 52
        BY <3>3
      <4> QED
        BY <1>1, <2>1, <4>1 DEF Devices, PlaceInDevices, DisplayPins
    <3> QED
      BY <1>3, <3>1, <3>2, <3>3
  <2> QED
    BY <1>3, <2>2 DEF Place
<1>4. CASE i \in 53 .. k
  <2>1. Program[i] \in InDark
    BY <1>4 DEF ProgramShape
  <2>2. PlaceInDark(Program[i].op, Program[i].arg)
    BY <2>1 DEF InDark, Moving, Telling, PlaceInDark
  <2> QED
    BY <1>4, <2>2 DEF Place
<1>5. CASE i \in k + 1 .. k + 6
  <2>1. \/ i = k + 1 \/ i = k + 2 \/ i = k + 3 \/ i = k + 4 \/ i = k + 5 \/ i = k + 6
    BY <1>5
  <2>2. Lighting(Program, k)
    BY DEF ProgramShape
  <2>3. PlaceInLighting(k, i, Program[i].op, Program[i].arg)
    BY <1>1, <1>5, <2>1, <2>2 DEF Lighting, PlaceInLighting, DisplayPins
  <2> QED
    BY <1>5, <2>3 DEF Place
<1>6. CASE i \in k + 7 .. m
  <2>1. Program[i] \in InLight
    BY <1>6 DEF ProgramShape
  <2>2. PlaceInLight(Program[i].op, Program[i].arg)
    BY <2>1 DEF InLight, Moving, Telling, Delaying, PlaceInLight
  <2> QED
    BY <1>6, <2>2 DEF Place
<1>7. CASE i \in m + 1 .. m + 38
  <2>1. PlaceAtCodec(m, i, Program[i].op, Program[i].arg)
    <3>1. CASE i \in m + 4 .. m + 33
      <4>1. PICK n \in 1 .. 6, q \in Nat :
              q = (m + 3) + (5 * n - 5) /\ i \in q + 1 .. q + 5
        BY <3>1, PacketsAreThere
      <4>2. Packet(Program, q, n)
        BY <4>1 DEF ProgramShape
      <4>3. \/ i = q + 1 \/ i = q + 2 \/ i = q + 3 \/ i = q + 4 \/ i = q + 5
        BY <4>1
      <4>4. Program[i].op \in {"start", "byte", "stop"}
        BY <1>1, <4>2, <4>3 DEF Packet
      <4> QED
        BY <3>1, <4>4 DEF PlaceAtCodec
    <3>2. CASE i \notin m + 4 .. m + 33
      <4>1. \/ i = m + 1 \/ i = m + 2 \/ i = m + 3 \/ i = m + 34 \/ i = m + 35
            \/ i = m + 36 \/ i = m + 37 \/ i = m + 38
        BY <1>7, <3>2
      <4>2. m + 37 \in m + 37 .. m + 38 /\ m + 38 \in m + 37 .. m + 38
        OBVIOUS
      <4>3. /\ Is(Program, m + 1, "set", "codec") /\ Is(Program, m + 2, "delay", 1)
            /\ Is(Program, m + 3, "on", "I2C2") /\ Is(Program, m + 34, "off", "I2C2")
            /\ Is(Program, m + 35, "on", "I2C4") /\ Is(Program, m + 36, "sramTest", 0)
            /\ Is(Program, m + 37, "on", "algorithm") /\ Is(Program, m + 38, "on", "service")
        BY DEF ProgramShape
      <4> QED
        BY <1>1, <4>1, <4>2, <4>3 DEF PlaceAtCodec
    <3> QED
      BY <3>1, <3>2
  <2> QED
    BY <1>7, <2>1 DEF Place
<1> QED
  <2>1. 52 <= k /\ k + 6 <= m
    BY DEF ProgramShape
  <2> QED
    BY <1>2, <1>3, <1>4, <1>5, <1>6, <1>7, <2>1

LEMMA ExecutedAt ==
  ASSUME NEW k \in Nat, NEW m \in Nat, ProgramShape(k, m), pc \in 1 .. m + 39,
         NEW op, Executes(op)
  PROVE  /\ pc \in 1 .. m + 38 /\ pc' = pc + 1 /\ Program[pc].op = op
         /\ Place(k, m, pc, op, Arg) /\ 52 <= k /\ k + 6 <= m
<1>1. Len(Program) = m + 38 /\ 52 <= k /\ k + 6 <= m
  BY DEF ProgramShape
<1>2. pc \in 1 .. m + 38 /\ pc' = pc + 1 /\ Program[pc].op = op
  BY <1>1 DEF Executes, Running
<1>3. Place(k, m, pc, op, Arg)
  BY <1>2, Placed DEF Arg
<1> QED
  BY <1>1, <1>2, <1>3

-----------------------------------------------------------------------------
(***************************************************************************)
(* The clocks.  The wait states are those of reset until the processor     *)
(* runs as fast as it ever will, and nothing that depends on the buses is  *)
(* turned on before the dividers and the multiplier are set.               *)
(***************************************************************************)
ClocksInv ==
  /\ pc \in Nat
  /\ ecc \in BOOLEAN /\ source \in {"Posc", "SPLL"}
  /\ unlocked \in BOOLEAN /\ (unlocked <=> pc \in Unlocked)
  /\ pc > 4 => pbDivisor = PBClockDivisor
  /\ multiplier = IF pc <= 10 THEN FPLLMULT ELSE SysPLLMultiplier
  /\ wanted = IF pc \in 8 .. 13 THEN "Posc" ELSE "SPLL"
  /\ pc <= 7 => source = "SPLL"
  /\ pc \in 8 .. 13 => source = "Posc"
  /\ pc <= 15 => waitStates \in BootWaitStates
  /\ pc > 15 => waitStates = WaitStates(SYS_CLK_FREQ, ecc)
  /\ pc <= 24 => on \subseteq {"DMA"}

LEMMA ClocksSound == StartUpAssumption /\ ClocksInv => ClocksAsMeant
<1> SUFFICES ASSUME StartUpAssumption, ClocksInv PROVE ClocksAsMeant
  OBVIOUS
<1>1. SystemClock \in Int /\ SystemClock <= 251904
  BY DEF ClocksInv, SystemClock, SPLL, FPLLMULT, SysPLLMultiplier, FPLLIDIV, FPLLODIV,
         SYS_CLK_CONFIG_PRIMARY_XTAL
<1>2. WaitStates(SystemClock, ecc) \in Nat /\ WaitStates(SystemClock, ecc) <= 4
  BY <1>1 DEF WaitStates
<1>3. WaitStates(SYS_CLK_FREQ, ecc) = 4
  BY DEF WaitStates, SYS_CLK_FREQ
<1>4. waitStates >= WaitStates(SystemClock, ecc)
  <2>1. CASE pc <= 15
    <3>1. waitStates \in Nat /\ waitStates >= WaitStates(SYS_CLK_FREQ, ecc)
      BY <2>1 DEF StartUpAssumption, ClocksInv
    <3> QED
      BY <1>2, <1>3, <3>1
  <2>2. CASE pc > 15
    BY <1>2, <1>3, <2>2 DEF ClocksInv
  <2> QED
    BY <2>1, <2>2 DEF ClocksInv
<1>5. ASSUME on \cap {"SPI1", "SPI5", "UART2", "UART4", "I2C2"} # {}, source = "SPLL"
      PROVE  /\ SystemClock = SYS_CLK_FREQ
             /\ \A p \in DOMAIN pbDivisor :
                  SystemClock \div pbDivisor[p] = SYS_CLK_BUS_PERIPHERAL[p]
             /\ ReferenceClock(SystemClock, RODIV, ROTRIM) = SYS_CLK_BUS_REFERENCE_4
  <2>1. pc > 24
    BY <1>5 DEF ClocksInv
  <2>2. pbDivisor = PBClockDivisor /\ multiplier = SysPLLMultiplier
    BY <2>1 DEF ClocksInv
  <2>3. SystemClock = 251904
    BY <1>5, <2>2 DEF SystemClock, SPLL, SysPLLMultiplier, FPLLIDIV, FPLLODIV,
                      SYS_CLK_CONFIG_PRIMARY_XTAL
  <2>4. SystemClock = SYS_CLK_FREQ
    BY <2>3 DEF SYS_CLK_FREQ
  <2>5. ASSUME NEW p \in DOMAIN pbDivisor
        PROVE  SystemClock \div pbDivisor[p] = SYS_CLK_BUS_PERIPHERAL[p]
    BY <2>2, <2>3 DEF PBClockDivisor, SYS_CLK_BUS_PERIPHERAL, SYS_CLK_FREQ
  <2>6. ReferenceClock(SystemClock, RODIV, ROTRIM) = SYS_CLK_BUS_REFERENCE_4
    BY <2>3 DEF ReferenceClock, RODIV, ROTRIM, SYS_CLK_BUS_REFERENCE_4
  <2> QED
    BY <2>4, <2>5, <2>6
<1> QED
  BY <1>4, <1>5 DEF ClocksAsMeant

LEMMA ClocksStep ==
  ASSUME NEW k \in Nat, NEW m \in Nat, ProgramShape(k, m), pc \in 1 .. m + 39,
         ClocksInv, [Next]_vars
  PROVE  ClocksInv'
<1>1. ASSUME NEW op, Executes(op)
      PROVE  /\ pc \in 1 .. m + 38 /\ pc' = pc + 1 /\ Program[pc].op = op
             /\ Place(k, m, pc, op, Arg) /\ 52 <= k /\ k + 6 <= m
  BY <1>1, ExecutedAt
<1> DEFINE Elsewhere == pc \notin 3 .. 15 /\ pc' = pc + 1 /\ UNCHANGED <<ecc, clocks>>
<1>2. ASSUME Elsewhere, pc <= 23 => on' \subseteq on PROVE ClocksInv'
  BY <1>2 DEF ClocksInv, clocks, Unlocked
<1>3. CASE Wait
  <2>1. Executes("await") /\ UNCHANGED <<ecc, clocks, on>>
    BY <1>3 DEF Wait, environment
  <2>2. Elsewhere
    BY <1>1, <2>1 DEF Place, PlaceInClocks
  <2> QED
    BY <1>2, <2>1, <2>2
<1>4. CASE Switch
  <2>1. UNCHANGED <<ecc, clocks>>
    BY <1>4 DEF Switch, environment
  <2>2. CASE Executes("on")
    <3>1. Elsewhere /\ pc > 23
      BY <1>1, <2>1, <2>2 DEF Place, PlaceInClocks
    <3> QED
      BY <1>2, <3>1
  <2>3. CASE Executes("off") /\ on' = on \ {Arg}
    <3>1. Elsewhere
      BY <1>1, <2>1, <2>3 DEF Place, PlaceInClocks
    <3> QED
      BY <1>2, <2>3, <3>1
  <2> QED
    BY <1>4, <2>2, <2>3 DEF Switch
<1>6. CASE PerformanceConfig
  <2>1. /\ pc = 15 /\ pc' = 16 /\ Arg = SYS_CLK_FREQ
        /\ waitStates' = WaitStates(Arg, ecc)
        /\ UNCHANGED <<ecc, source, wanted, multiplier, pbDivisor, unlocked, on>>
    BY <1>1, <1>6 DEF PerformanceConfig, Place, PlaceInClocks, PlaceInDevices,
         PlaceInDark, PlaceInLighting, PlaceInLight, PlaceAtCodec, environment
  <2> QED
    BY <2>1 DEF ClocksInv, Unlocked
<1>7. CASE Ports
  <2>1. UNCHANGED <<ecc, clocks, on>>
    BY <1>7 DEF Ports, environment
  <2>2. PICK op \in {"latch", "drive", "set", "clear"} : Executes(op)
    BY <1>7 DEF Ports
  <2>3. Elsewhere
    BY <1>1, <2>1, <2>2 DEF Place, PlaceInClocks
  <2> QED
    BY <1>2, <2>1, <2>3
<1>8. CASE PLLLocks
  <2>1. pc \notin 8 .. 13 /\ pc > 7 /\ pc' = pc /\ source' = "SPLL"
    BY <1>8 DEF PLLLocks, ClocksInv
  <2>2. UNCHANGED <<ecc, wanted, multiplier, pbDivisor, unlocked, waitStates, on>>
    BY <1>8 DEF PLLLocks, environment
  <2> QED
    BY <2>1, <2>2 DEF ClocksInv
<1>9. CASE UNCHANGED vars
  BY <1>9 DEF vars, environment, clocks, ClocksInv
<1>10. ASSUME NEW op \in {"timer3", "delay", "send", "start", "byte", "stop",
                          "readCalibration", "sramTest"},
              Executes(op), UNCHANGED <<ecc, clocks, on>>
       PROVE  ClocksInv'
  <2>1. Elsewhere
    BY <1>1, <1>10 DEF Place, PlaceInClocks
  <2> QED
    BY <1>2, <1>10, <2>1
<1>11. CASE Oscillator
  <2>1. ASSUME NEW i, NEW op, NEW arg, Is(Program, i, op, arg), pc = i
        PROVE  Program[pc].op = op /\ Arg = arg
    BY <2>1 DEF Is, Arg
  <2>2. ClocksAndPins(Program)
    BY DEF ProgramShape
  <2>3. /\ UNCHANGED <<ecc, waitStates, on>> /\ pc' = pc + 1 /\ pc \in 3 .. 14
    <3>1. PICK op \in {"unlock", "lock", "divide", "source", "multiply"} : Executes(op)
      BY <1>11 DEF Oscillator
    <3>2. pc \in 3 .. 14
      BY <1>1, <3>1 DEF Place, PlaceInClocks, PlaceInDevices,
         PlaceInDark, PlaceInLighting, PlaceInLight, PlaceAtCodec
    <3> QED
      BY <1>1, <1>11, <3>1, <3>2 DEF Oscillator, environment
  <2>4. /\ Program[pc].op = "unlock" =>
             unlocked' = TRUE /\ UNCHANGED <<source, wanted, multiplier, pbDivisor>>
        /\ Program[pc].op = "lock" =>
             /\ unlocked' \in BOOLEAN /\ ~unlocked'
             /\ UNCHANGED <<source, wanted, multiplier, pbDivisor>>
        /\ Program[pc].op = "divide" =>
             /\ pbDivisor' = IF unlocked THEN Arg ELSE pbDivisor
             /\ UNCHANGED <<source, wanted, multiplier, unlocked>>
        /\ Program[pc].op = "source" =>
             /\ wanted' = IF unlocked THEN Arg ELSE wanted
             /\ source' = IF wanted' = "Posc" THEN "Posc" ELSE source
             /\ UNCHANGED <<multiplier, pbDivisor, unlocked>>
        /\ Program[pc].op = "multiply" =>
             /\ multiplier' = IF unlocked THEN Arg ELSE multiplier
             /\ UNCHANGED <<source, wanted, pbDivisor, unlocked>>
    BY <1>11 DEF Oscillator, Executes
  <2>5. CASE pc = 3
    <3>1. Program[pc].op = "unlock" /\ Arg = 0 /\ pc' = 4
      BY <2>1, <2>2, <2>3, <2>5 DEF ClocksAndPins
    <3> QED
      BY <2>3, <2>4, <2>5, <3>1 DEF ClocksInv, Unlocked
  <2>6. CASE pc = 4
    <3>1. Program[pc].op = "divide" /\ Arg = PBClockDivisor /\ pc' = 5
      BY <2>1, <2>2, <2>3, <2>6 DEF ClocksAndPins
    <3> QED
      BY <2>3, <2>4, <2>6, <3>1 DEF ClocksInv, Unlocked
  <2>7. CASE pc = 5
    <3>1. Program[pc].op = "lock" /\ Arg = 0 /\ pc' = 6
      BY <2>1, <2>2, <2>3, <2>7 DEF ClocksAndPins
    <3> QED
      BY <2>3, <2>4, <2>7, <3>1 DEF ClocksInv, Unlocked
  <2>8. CASE pc = 6
    <3>1. Program[pc].op = "unlock" /\ Arg = 0 /\ pc' = 7
      BY <2>1, <2>2, <2>3, <2>8 DEF ClocksAndPins
    <3> QED
      BY <2>3, <2>4, <2>8, <3>1 DEF ClocksInv, Unlocked
  <2>9. CASE pc = 7
    <3>1. Program[pc].op = "source" /\ Arg = "Posc" /\ pc' = 8
      BY <2>1, <2>2, <2>3, <2>9 DEF ClocksAndPins
    <3> QED
      BY <2>3, <2>4, <2>9, <3>1 DEF ClocksInv, Unlocked
  <2>10. CASE pc = 8
    <3>1. Program[pc].op = "lock" /\ Arg = 0 /\ pc' = 9
      BY <2>1, <2>2, <2>3, <2>10 DEF ClocksAndPins
    <3> QED
      BY <2>3, <2>4, <2>10, <3>1 DEF ClocksInv, Unlocked
  <2>11. CASE pc = 9
    <3>1. Program[pc].op = "unlock" /\ Arg = 0 /\ pc' = 10
      BY <2>1, <2>2, <2>3, <2>11 DEF ClocksAndPins
    <3> QED
      BY <2>3, <2>4, <2>11, <3>1 DEF ClocksInv, Unlocked
  <2>12. CASE pc = 10
    <3>1. Program[pc].op = "multiply" /\ Arg = SysPLLMultiplier /\ pc' = 11
      BY <2>1, <2>2, <2>3, <2>12 DEF ClocksAndPins
    <3> QED
      BY <2>3, <2>4, <2>12, <3>1 DEF ClocksInv, Unlocked
  <2>13. CASE pc = 11
    <3>1. Program[pc].op = "lock" /\ Arg = 0 /\ pc' = 12
      BY <2>1, <2>2, <2>3, <2>13 DEF ClocksAndPins
    <3> QED
      BY <2>3, <2>4, <2>13, <3>1 DEF ClocksInv, Unlocked
  <2>14. CASE pc = 12
    <3>1. Program[pc].op = "unlock" /\ Arg = 0 /\ pc' = 13
      BY <2>1, <2>2, <2>3, <2>14 DEF ClocksAndPins
    <3> QED
      BY <2>3, <2>4, <2>14, <3>1 DEF ClocksInv, Unlocked
  <2>15. CASE pc = 13
    <3>1. Program[pc].op = "source" /\ Arg = "SPLL" /\ pc' = 14
      BY <2>1, <2>2, <2>3, <2>15 DEF ClocksAndPins
    <3> QED
      BY <2>3, <2>4, <2>15, <3>1 DEF ClocksInv, Unlocked
  <2>16. CASE pc = 14
    <3>1. Program[pc].op = "lock" /\ Arg = 0 /\ pc' = 15
      BY <2>1, <2>2, <2>3, <2>16 DEF ClocksAndPins
    <3> QED
      BY <2>3, <2>4, <2>16, <3>1 DEF ClocksInv, Unlocked
  <2> QED
    BY <2>3, <2>5, <2>6, <2>7, <2>8, <2>9, <2>10, <2>11, <2>12, <2>13, <2>14, <2>15, <2>16
<1> QED
  BY <1>3, <1>4, <1>6, <1>7, <1>8, <1>9, <1>10, <1>11
     DEF Next, Step, ConfigureTimer, DelayMs, Send, StartTransfer, TransmitOneByte,
         StopTransfer, ReadCalibrationFromSettings, QuickSRAMtest, environment, clocks

-----------------------------------------------------------------------------
(***************************************************************************)
(* Time.  The supply is on for good from when it is turned on, and the     *)
(* panel is told nothing but to stay off until it has been on for long     *)
(* enough; the codec's reset likewise.  A millisecond of delayMs is one or *)
(* more, whether the PLL has locked or not.                                *)
(***************************************************************************)
IsChip(c) == c = [told |-> c.told, pos |-> c.pos, zeros |-> c.zeros]
Shows(c) == "on" \in DOMAIN c.told /\ c.told["on"]

TimeInv(k, m) ==
  /\ latch \in [Pin -> BOOLEAN] /\ driven \subseteq Pin
  /\ age \in [{"power", "codec"} -> Nat]
  /\ DOMAIN chip = Display /\ IsChip(chip[1])
  /\ pc > 19 => "power" \in driven
  /\ pc > 21 => "codec" \in driven
  /\ pc > 43 => timer3 = <<Timer3Prescale, Timer3Period>>
  /\ pc <= k + 4 => ~Shows(chip[1])
  /\ pc > k + 1 => ~latch["power"]
  /\ pc > k + 2 => age["power"] >= MaxAge
  /\ pc > m + 1 => latch["codec"]
  /\ pc > m + 2 => age["codec"] >= 1000
  /\ "I2C2" \in on => pc > m + 3

LEMMA TimeSound ==
  ASSUME NEW k \in Nat, NEW m \in Nat, ProgramShape(k, m), pc \in Nat, TimeInv(k, m)
  PROVE  TimeGiven
<1>1. 52 <= k /\ k + 6 <= m
  BY DEF ProgramShape
<1>2. ASSUME Lit(1) PROVE Low("power") /\ age["power"] >= 100000
  <2>1. pc > k + 4
    BY <1>2 DEF Lit, Shows, TimeInv
  <2> QED
    BY <1>1, <2>1 DEF TimeInv, Low, MaxAge
<1>3. ASSUME "I2C2" \in on PROVE CodecReady
  <2>1. pc > m + 3
    BY <1>3 DEF TimeInv
  <2>2. High("codec") /\ age["codec"] \in Nat /\ age["codec"] >= 1000
    BY <1>1, <2>1 DEF TimeInv, High
  <2> QED
    BY <2>2 DEF CodecReady, SYS_CLK_CONFIG_PRIMARY_XTAL
<1> QED
  BY <1>2, <1>3 DEF TimeGiven

\* In the dark the panel is told to be on only to be told not to be.
LEMMA DarkBytes == \A b \in BytesInDark : b[1] = "on" => b[2] = FALSE
<1>1. Zero[1] # "on"
  BY DEF Zero
<1>2. ASSUME NEW i \in 1 .. 16
      PROVE  PanelSettings[i][1] = "on" => PanelSettings[i][2] = FALSE
  <2>1. PanelSettings[1][2] = FALSE
    BY DEF PanelSettings
  <2>2. /\ PanelSettings[2][1] = "clock" /\ PanelSettings[3][1] = "duty"
        /\ PanelSettings[4][1] = "offset" /\ PanelSettings[5][1] = "addressing"
        /\ PanelSettings[6][1] = "pages" /\ PanelSettings[7][1] = "pump"
        /\ PanelSettings[8][1] = "line" /\ PanelSettings[9][1] = "inverse"
        /\ PanelSettings[10][1] = "all" /\ PanelSettings[11][1] = "remap"
        /\ PanelSettings[12][1] = "scan" /\ PanelSettings[13][1] = "pins"
        /\ PanelSettings[14][1] = "contrast" /\ PanelSettings[15][1] = "precharge"
        /\ PanelSettings[16][1] = "vcomh"
    BY DEF PanelSettings
  <2>3. \/ i = 1 \/ i = 2 \/ i = 3 \/ i = 4 \/ i = 5 \/ i = 6
        \/ i = 7 \/ i = 8 \/ i = 9 \/ i = 10 \/ i = 11 \/ i = 12
        \/ i = 13 \/ i = 14 \/ i = 15 \/ i = 16
    OBVIOUS
  <2>4. i = 1 \/ PanelSettings[i][1] # "on"
    BY <2>2, <2>3
  <2> QED
    BY <2>1, <2>4
<1> QED
  BY <1>1, <1>2 DEF BytesInDark

LEMMA HeardInDark ==
  ASSUME NEW b \in BytesInDark, IsChip(chip[1]), ~Shows(chip[1])
  PROVE  ~Shows(Heard(1, b))
<1>1. CASE Heard(1, b) = chip[1]
  BY <1>1
<1>2. ASSUME NEW t, Heard(1, b).told = With(chip[1].told, b[1], b[2])
      PROVE  ~Shows(Heard(1, b))
  BY <1>2, DarkBytes DEF With, Shows
<1>3. CASE Heard(1, b).told = chip[1].told
  BY <1>3 DEF Shows
<1> QED
  BY <1>1, <1>2, <1>3 DEF Heard, IsChip

LEMMA HeardIsChip ==
  ASSUME NEW b, IsChip(chip[1])
  PROVE  IsChip(Heard(1, b))
BY DEF Heard, IsChip

LEMMA ResetIsChip == IsChip(ChipReset) /\ ~Shows(ChipReset)
BY DEF IsChip, Shows, ChipReset

\* What a change of the pins leaves alone.
LEMMA PinsChange ==
  ASSUME NEW l \in [Pin -> BOOLEAN], NEW o \in SUBSET Pin, NEW changed,
         PinsBecome(l, o, changed),
         age \in [{"power", "codec"} -> Nat], IsChip(chip[1])
  PROVE  /\ latch' = l /\ driven' = o
         /\ age' \in [{"power", "codec"} -> Nat]
         /\ \A p \in {"power", "codec"} : p \notin changed => age'[p] = age[p]
         /\ DOMAIN chip' = Display /\ IsChip(chip'[1])
         /\ ~Shows(chip[1]) => ~Shows(chip'[1])
<1>1. /\ latch' = l /\ driven' = o
      /\ age' = [p \in DOMAIN age |-> IF p \in changed THEN 0 ELSE age[p]]
      /\ chip' = [d \in Display |->
                    IF Reset[d] \in o /\ l[Reset[d]] THEN chip[d] ELSE ChipReset]
  BY DEF PinsBecome
<1>2. DOMAIN chip' = Display /\ (chip'[1] = chip[1] \/ chip'[1] = ChipReset)
  BY <1>1 DEF Display
<1> QED
  BY <1>1, <1>2, ResetIsChip

LEMMA Tick ==
  ASSUME ClocksInv, pc > 43
  PROVE  LET tick == TickMicros(SystemClock \div pbDivisor[3], Timer3Prescale, Timer3Period)
         IN  tick \in Nat /\ tick >= 1000
<1>1. pbDivisor[3] = 3
  BY DEF ClocksInv, PBClockDivisor
<1>2. SystemClock = 251904 \/ SystemClock = 24576
  BY DEF ClocksInv, SystemClock, SPLL, SysPLLMultiplier, FPLLIDIV, FPLLODIV,
         SYS_CLK_CONFIG_PRIMARY_XTAL
<1>3. Timer3Prescale = 64 /\ Timer3Period = 1312
  BY DEF Timer3Prescale, Timer3Period, SYS_CLK_BUS_PERIPHERAL
<1>4. SystemClock \div pbDivisor[3] = 83968 \/ SystemClock \div pbDivisor[3] = 8192
  BY <1>1, <1>2
<1> QED
  BY <1>3, <1>4 DEF TickMicros

LEMMA TimeStep ==
  ASSUME NEW k \in Nat, NEW m \in Nat, ProgramShape(k, m), pc \in 1 .. m + 39,
         ClocksInv, TimeInv(k, m), [Next]_vars
  PROVE  TimeInv(k, m)'
<1> DEFINE Elsewhere == pc \notin {19, 21, 43, k + 1, k + 2, k + 4, m + 1, m + 2}
<1>0. 52 <= k /\ k + 6 <= m
  BY DEF ProgramShape
<1>1. ASSUME NEW op, Executes(op)
      PROVE  /\ pc \in 1 .. m + 38 /\ pc' = pc + 1 /\ Program[pc].op = op
             /\ Place(k, m, pc, op, Arg)
  BY <1>1, ExecutedAt
<1>2. ASSUME NEW i, NEW op, NEW arg, Is(Program, i, op, arg), pc = i
      PROVE  Program[pc].op = op /\ Arg = arg
  BY <1>2 DEF Is, Arg
<1>3. ASSUME pc' = pc \/ (pc' = pc + 1 /\ Elsewhere), UNCHANGED <<pins, timer3, chip>>,
             "I2C2" \in on' => "I2C2" \in on \/ pc' > m + 3
      PROVE  TimeInv(k, m)'
  BY <1>0, <1>3 DEF TimeInv, pins
<1>4. ASSUME NEW op \in {"await", "unlock", "lock", "divide", "source", "multiply",
                         "waitStates", "start", "byte", "stop", "readCalibration",
                         "sramTest", "on", "off"},
             Executes(op), UNCHANGED <<pins, timer3, chip>>,
             op \notin {"on", "off"} => UNCHANGED on
      PROVE  pc' = pc + 1 /\ Elsewhere
  <2>1. Place(k, m, pc, op, Arg) /\ pc' = pc + 1
    BY <1>1, <1>4
  <2>2. Is(Program, 19, "drive", "G") /\ Is(Program, 21, "drive", "H")
        /\ Is(Program, 43, "timer3", <<Timer3Prescale, Timer3Period>>)
    BY DEF ProgramShape, ClocksAndPins, Devices
  <2>3. Program[pc].op = op
    BY <1>1, <1>4
  <2>4. pc # 19 /\ pc # 21 /\ pc # 43
    BY <1>2, <2>2, <2>3
  <2>5. pc \notin {k + 1, k + 2, k + 4, m + 1, m + 2}
    BY <1>0, <2>1 DEF Place, PlaceInClocks, PlaceInDevices, PlaceInDark, PlaceInLighting,
                      PlaceInLight, PlaceAtCodec
  <2> QED
    BY <2>1, <2>4, <2>5
<1>5. CASE Switch
  <2>1. UNCHANGED <<pins, timer3, chip>>
    BY <1>5 DEF Switch
  <2>2. CASE Executes("on") /\ on' = on \cup {Arg}
    <3>1. Arg = "I2C2" => pc = m + 3
      BY <1>0, <1>1, <2>2 DEF Place, PlaceInClocks, PlaceInDevices, PlaceInDark,
                       PlaceInLighting, PlaceInLight, PlaceAtCodec
    <3>2. pc' = pc + 1 /\ Elsewhere
      BY <1>4, <2>1, <2>2
    <3> QED
      BY <1>3, <2>1, <2>2, <3>1, <3>2
  <2>3. CASE Executes("off") /\ on' = on \ {Arg}
    <3>1. pc' = pc + 1 /\ Elsewhere
      BY <1>4, <2>1, <2>3
    <3> QED
      BY <1>3, <2>1, <2>3, <3>1
  <2> QED
    BY <1>5, <2>2, <2>3 DEF Switch
<1>6. CASE ConfigureTimer
  <2>1. Executes("timer3") /\ timer3' = Arg /\ UNCHANGED <<pins, chip, on>>
    BY <1>6 DEF ConfigureTimer
  <2>2. /\ pc \in 24 .. 52 /\ Arg = <<Timer3Prescale, Timer3Period>> /\ pc' = pc + 1
    BY <1>1, <2>1 DEF Place, PlaceInClocks, PlaceInDevices, PlaceInDark, PlaceInLighting,
                      PlaceInLight, PlaceAtCodec
  <2> QED
    BY <1>0, <2>1, <2>2 DEF TimeInv, pins
<1>7. CASE DelayMs
  <2> DEFINE tick == TickMicros(SystemClock \div pbDivisor[3], timer3[1], timer3[2])
             later(x) == IF x + Arg * tick < MaxAge THEN x + Arg * tick ELSE MaxAge
  <2>1. Executes("delay") /\ UNCHANGED <<latch, driven, timer3, chip, on>>
        /\ age' = [p \in DOMAIN age |-> later(age[p])]
    BY <1>7 DEF DelayMs
  <2>2. /\ pc > 43 /\ pc' = pc + 1 /\ Arg \in Nat
        /\ pc = k + 2 => Arg = 100
        /\ pc = m + 2 => Arg = 1
        /\ pc \notin {k + 1, k + 4, m + 1}
    BY <1>0, <1>1, <2>1 DEF Place, PlaceInClocks, PlaceInDevices, PlaceInDark,
                     PlaceInLighting, PlaceInLight, PlaceAtCodec
  <2>3. tick \in Nat /\ tick >= 1000
    BY <2>2, Tick DEF TimeInv
  <2>4. PICK d \in Nat : d = Arg * tick /\ (pc = k + 2 => d >= MaxAge) /\ (pc = m + 2 => d >= 1000)
    <3> HIDE DEF tick
    <3>1. Arg * tick \in Nat
      BY <2>2, <2>3
    <3>2. pc = k + 2 => Arg * tick >= MaxAge
      BY <2>2, <2>3 DEF MaxAge
    <3>3. pc = m + 2 => Arg * tick >= 1000
      BY <2>2, <2>3
    <3> QED
      BY <3>1, <3>2, <3>3
  <2>5. age' = [p \in {"power", "codec"} |->
                  IF age[p] + d < MaxAge THEN age[p] + d ELSE MaxAge]
    BY <2>1, <2>4 DEF TimeInv
  <2> HIDE DEF tick, later
  <2>6. /\ age' \in [{"power", "codec"} -> Nat]
        /\ age["power"] >= MaxAge => age'["power"] >= MaxAge
        /\ age["codec"] >= 1000 => age'["codec"] >= 1000
        /\ d >= MaxAge => age'["power"] >= MaxAge
        /\ d >= 1000 => age'["codec"] >= 1000
    BY <2>5 DEF TimeInv, MaxAge
  <2> QED
    BY <1>0, <2>1, <2>2, <2>4, <2>6 DEF TimeInv
<1>8. CASE Send
  <2>1. Executes("send") /\ UNCHANGED <<pins, timer3, on>>
        /\ chip' = [d \in Display |-> IF d \in Arg[1] THEN Heard(d, Arg[2]) ELSE chip[d]]
    BY <1>8 DEF Send
  <2>2. /\ pc >= 53 /\ pc' = pc + 1 /\ pc \notin {k + 1, k + 2, m + 1, m + 2}
        /\ pc <= k + 3 => Arg \in (SUBSET Display) \X BytesInDark
    BY <1>0, <1>1, <2>1 DEF Place, PlaceInClocks, PlaceInDevices, PlaceInDark, PlaceInLighting,
                      PlaceInLight, PlaceAtCodec
  <2>3. /\ DOMAIN chip' = Display
        /\ chip'[1] = Heard(1, Arg[2]) \/ chip'[1] = chip[1]
    BY <2>1 DEF Display
  <2>4. IsChip(chip'[1])
    BY <2>3, HeardIsChip DEF TimeInv
  <2>5. pc <= k + 3 => ~Shows(chip'[1])
    BY <2>2, <2>3, HeardInDark DEF TimeInv
  <2> QED
    BY <1>0, <2>1, <2>2, <2>3, <2>4, <2>5 DEF TimeInv, pins
<1>9. CASE Ports
  <2>1. UNCHANGED <<timer3, on>>
    BY <1>9 DEF Ports
  <2>2. ASSUME NEW l, NEW o, NEW changed, l \in [Pin -> BOOLEAN], o \in SUBSET Pin,
               PinsBecome(l, o, changed), pc' = pc + 1, driven \subseteq o,
               pc = 19 => "power" \in o, pc = 21 => "codec" \in o,
               pc > k + 1 => l["power"] = latch["power"] /\ "power" \notin changed,
               pc > m + 1 => l["codec"] = latch["codec"] /\ "codec" \notin changed,
               pc = k + 1 => ~l["power"], pc = m + 1 => l["codec"],
               pc \notin {43, k + 2, k + 4, m + 2}
        PROVE  TimeInv(k, m)'
    <3>1. /\ latch' = l /\ driven' = o
          /\ age' \in [{"power", "codec"} -> Nat]
          /\ \A p \in {"power", "codec"} : p \notin changed => age'[p] = age[p]
          /\ DOMAIN chip' = Display /\ IsChip(chip'[1])
          /\ ~Shows(chip[1]) => ~Shows(chip'[1])
      BY <2>2, PinsChange DEF TimeInv
    <3> QED
      BY <1>0, <2>1, <2>2, <3>1 DEF TimeInv
  <2> DEFINE here == {p \in Pin : Port(p) = Arg}
  <2>3. CASE Executes("latch") /\ PinsBecome([p \in Pin |-> IF p \in here THEN PortLatch[p]
                                                            ELSE latch[p]], driven, here)
    <3>1. pc' = pc + 1 /\ pc \in 16 .. 23 /\ pc # 19 /\ pc # 21
      <4>1. Is(Program, 19, "drive", "G") /\ Is(Program, 21, "drive", "H")
        BY DEF ProgramShape, ClocksAndPins
      <4>2. pc # 19 /\ pc # 21
        BY <1>1, <1>2, <2>3, <4>1
      <4> QED
        BY <1>1, <2>3, <4>2 DEF Place, PlaceInClocks, PlaceInDevices, PlaceInDark,
           PlaceInLighting, PlaceInLight, PlaceAtCodec
    <3>2. [p \in Pin |-> IF p \in here THEN PortLatch[p] ELSE latch[p]] \in [Pin -> BOOLEAN]
      <4>1. ASSUME NEW p \in Pin PROVE PortLatch[p] \in BOOLEAN
        <5>1. PortLatch[p] = (p \in {"cs1", "power"})
          BY Zenon DEF PortLatch
        <5>2. ASSUME NEW b, b = (p \in {"cs1", "power"}) PROVE b \in BOOLEAN
          BY <5>2, SMT
        <5> QED
          BY <5>1, <5>2, Zenon
      <4>2. ASSUME NEW p \in Pin PROVE latch[p] \in BOOLEAN
        BY DEF TimeInv
      <4> QED
        BY <4>1, <4>2, Zenon
    <3> HIDE DEF here
    <3>3. driven \in SUBSET Pin
      BY DEF TimeInv
    <3> QED
      BY <1>0, <2>2, <2>3, <3>1, <3>2, <3>3
  <2>4. CASE Executes("drive") /\ PinsBecome(latch, driven \cup here, here)
    <3>1. pc' = pc + 1 /\ pc \in 16 .. 23
      BY <1>1, <2>4 DEF Place, PlaceInClocks, PlaceInDevices, PlaceInDark,
         PlaceInLighting, PlaceInLight, PlaceAtCodec
    <3>2. (pc = 19 => Arg = "G") /\ (pc = 21 => Arg = "H")
      <4>1. Is(Program, 19, "drive", "G") /\ Is(Program, 21, "drive", "H")
        BY DEF ProgramShape, ClocksAndPins
      <4> QED
        BY <1>2, <4>1
    <3>3. (pc = 19 => "power" \in here) /\ (pc = 21 => "codec" \in here)
      BY <3>2 DEF Port, Pin
    <3>4. latch \in [Pin -> BOOLEAN] /\ driven \cup here \in SUBSET Pin
      BY DEF TimeInv
    <3> HIDE DEF here
    <3> QED
      BY <1>0, <2>2, <2>4, <3>1, <3>3, <3>4
  <2>5. ASSUME NEW op \in {"set", "clear"}, NEW v \in BOOLEAN, Executes(op),
               op = "set" => v = TRUE, op = "clear" => v = FALSE,
               PinsBecome([latch EXCEPT ![Arg] = v], driven, {Arg})
        PROVE  TimeInv(k, m)'
    <3>1. /\ pc' = pc + 1 /\ pc > 23 /\ pc \notin {k + 2, k + 4, m + 2}
          /\ \/ Arg \in DisplayPins /\ pc # k + 1 /\ pc # m + 1
             \/ pc = k + 1 /\ op = "clear" /\ Arg = "power"
             \/ pc = m + 1 /\ op = "set" /\ Arg = "codec"
      BY <1>0, <1>1, <2>5 DEF Place, PlaceInClocks, PlaceInDevices, PlaceInDark,
         PlaceInLighting, PlaceInLight, PlaceAtCodec
    <3>2. pc # 43
      <4>1. Is(Program, 43, "timer3", <<Timer3Prescale, Timer3Period>>)
        BY DEF ProgramShape, Devices
      <4> QED
        BY <1>1, <1>2, <2>5, <4>1
    <3>3. PICK l \in [Pin -> BOOLEAN] : l = [latch EXCEPT ![Arg] = v]
      BY DEF TimeInv
    <3>4. /\ Arg # "power" => l["power"] = latch["power"]
          /\ Arg # "codec" => l["codec"] = latch["codec"]
          /\ Arg = "power" => l["power"] = v
          /\ Arg = "codec" => l["codec"] = v
      BY <3>3 DEF TimeInv, Pin
    <3>5. Arg \in DisplayPins => Arg # "power" /\ Arg # "codec"
      BY DEF DisplayPins
    <3>6. driven \in SUBSET Pin
      BY DEF TimeInv
    <3>7. PinsBecome(l, driven, {Arg}) /\ driven \subseteq driven
      BY <2>5, <3>3
    <3>8. /\ pc > k + 1 => l["power"] = latch["power"] /\ "power" \notin {Arg}
          /\ pc > m + 1 => l["codec"] = latch["codec"] /\ "codec" \notin {Arg}
      BY <1>0, <3>1, <3>4, <3>5
    <3>9. (pc = k + 1 => ~l["power"]) /\ (pc = m + 1 => l["codec"])
      BY <1>0, <2>5, <3>1, <3>4, <3>5
    <3> QED
      BY <1>0, <2>2, <3>1, <3>2, <3>6, <3>7, <3>8, <3>9
  <2>6. CASE Executes("set") /\ PinsBecome([latch EXCEPT ![Arg] = TRUE], driven, {Arg})
    BY <2>5, <2>6
  <2>7. CASE Executes("clear") /\ PinsBecome([latch EXCEPT ![Arg] = FALSE], driven, {Arg})
    BY <2>5, <2>7
  <2> QED
    BY <1>9, <2>3, <2>4, <2>6, <2>7 DEF Ports
<1>10. CASE Oscillator
  <2>1. PICK op \in {"unlock", "lock", "divide", "source", "multiply"} : Executes(op)
    BY <1>10 DEF Oscillator
  <2>2. UNCHANGED <<pins, timer3, chip, on>>
    BY <1>10 DEF Oscillator
  <2> QED
    BY <1>3, <1>4, <2>1, <2>2
<1>11. CASE PLLLocks \/ UNCHANGED vars
  <2>1. pc' = pc /\ UNCHANGED <<pins, timer3, chip>> /\ on' = on
    BY <1>11 DEF PLLLocks, vars
  <2>2. /\ pc' = pc \/ (pc' = pc + 1 /\ Elsewhere)
        /\ "I2C2" \in on' => "I2C2" \in on \/ pc' > m + 3
    BY <2>1
  <2> HIDE DEF Elsewhere
  <2> QED
    BY <1>3, <2>1, <2>2, Zenon
<1>12. ASSUME NEW op \in {"await", "waitStates", "start", "byte", "stop",
                          "readCalibration", "sramTest"},
              Executes(op), UNCHANGED <<pins, timer3, chip, on>>
       PROVE  TimeInv(k, m)'
  BY <1>3, <1>4, <1>12
<1> QED
  BY <1>5, <1>6, <1>7, <1>8, <1>9, <1>10, <1>11, <1>12
     DEF Next, Step, Wait, PerformanceConfig, StartTransfer, TransmitOneByte,
         StopTransfer, ReadCalibrationFromSettings, QuickSRAMtest

-----------------------------------------------------------------------------
(***************************************************************************)
(* What has been prepared for the codec's clock, and stays so.             *)
(***************************************************************************)
OnInv(m) ==
  /\ pc > 25 => "DMA" \in on
  /\ pc > 32 => "SPI3" \in on
  /\ pc > 33 => "SPI4" \in on
  /\ pc > 37 => "silence" \in on
  /\ pc > 39 => "channels" \in on
  /\ pc > 40 => "SPI6" \in on
  /\ pc \in m + 4 .. m + 34 => "I2C2" \in on

LEMMA OnStep ==
  ASSUME NEW k \in Nat, NEW m \in Nat, ProgramShape(k, m), pc \in 1 .. m + 39,
         OnInv(m), [Next]_vars
  PROVE  OnInv(m)'
<1>0. 52 <= k /\ k + 6 <= m
  BY DEF ProgramShape
<1>1. ASSUME NEW op, Executes(op)
      PROVE  /\ pc \in 1 .. m + 38 /\ pc' = pc + 1 /\ Program[pc].op = op
             /\ Place(k, m, pc, op, Arg)
  BY <1>1, ExecutedAt
<1>2. ASSUME NEW i, NEW op, NEW arg, Is(Program, i, op, arg), pc = i
      PROVE  Program[pc].op = op /\ Arg = arg
  BY <1>2 DEF Is, Arg
<1>3. /\ Is(Program, 25, "on", "DMA") /\ Is(Program, 32, "on", "SPI3")
      /\ Is(Program, 33, "on", "SPI4") /\ Is(Program, 37, "on", "silence")
      /\ Is(Program, 39, "on", "channels") /\ Is(Program, 40, "on", "SPI6")
      /\ Is(Program, m + 3, "on", "I2C2")
  BY DEF ProgramShape, Devices
<1>4. /\ pc \in {25, 32, 33, 37, 39, 40, m + 3} => Program[pc].op = "on"
      /\ pc = 25 => Arg = "DMA"
      /\ pc = 32 => Arg = "SPI3"
      /\ pc = 33 => Arg = "SPI4"
      /\ pc = 37 => Arg = "silence"
      /\ pc = 39 => Arg = "channels"
      /\ pc = 40 => Arg = "SPI6"
      /\ pc = m + 3 => Arg = "I2C2"
  BY <1>2, <1>3
<1>5. CASE Executes("on") /\ on' = on \cup {Arg}
  BY <1>0, <1>1, <1>4, <1>5 DEF OnInv
<1>6. CASE Executes("off") /\ on' = on \ {Arg}
  <2>1. pc \notin {25, 32, 33, 37, 39, 40, m + 3} /\ pc' = pc + 1
    BY <1>1, <1>4, <1>6
  <2>2. \/ pc < 25
        \/ Arg = "SPI1"
        \/ pc = 35 /\ Arg = "channels"
        \/ pc = 38 /\ Arg = "SPI6"
        \/ pc = m + 34 /\ Arg = "I2C2"
    BY <1>1, <1>6 DEF Place, PlaceInClocks, PlaceInDevices, PlaceInDark, PlaceInLighting,
                      PlaceInLight, PlaceAtCodec
  <2> QED
    BY <1>0, <1>6, <2>1, <2>2 DEF OnInv
<1>7. ASSUME NEW op, op # "on", Executes(op), on' = on
      PROVE  OnInv(m)'
  <2>1. pc \notin {25, 32, 33, 37, 39, 40, m + 3} /\ pc' = pc + 1
    BY <1>1, <1>4, <1>7
  <2> QED
    BY <1>0, <1>7, <2>1 DEF OnInv
<1>8. CASE pc' = pc /\ on' = on
  BY <1>8 DEF OnInv
<1>9. CASE Switch
  BY <1>5, <1>6, <1>9 DEF Switch
<1>10. CASE Oscillator
  BY <1>7, <1>10 DEF Oscillator
<1>11. CASE Ports
  BY <1>7, <1>11 DEF Ports
<1>12. CASE PLLLocks \/ UNCHANGED vars
  BY <1>8, <1>12 DEF PLLLocks, vars
<1> QED
  BY <1>7, <1>9, <1>10, <1>11, <1>12
     DEF Next, Step, Wait, PerformanceConfig, ConfigureTimer, DelayMs, Send, StartTransfer,
         TransmitOneByte, StopTransfer, ReadCalibrationFromSettings, QuickSRAMtest

-----------------------------------------------------------------------------
(***************************************************************************)
(* The codec's settings.  As long as the program has not stopped, every    *)
(* packet before this one has been taken, and of this one what has been    *)
(* acknowledged is its beginning.                                          *)
(***************************************************************************)
CodecHolds(n) ==
  /\ DOMAIN codec = {CodecSettings[i][1] : i \in 1 .. n}
  /\ \A i \in 1 .. n : codec[CodecSettings[i][1]] = CodecSettings[i][2]

Taken(n, r) ==
  /\ success \in BOOLEAN
  /\ packet \in Seq(Nat \cup {"address"}) /\ Len(packet) <= r
  /\ ~success => Len(packet) <= 2
  /\ success =>
       /\ Len(packet) = r
       /\ r > 0 => packet[1] = "address"
       /\ r > 1 => packet[2] = CodecSettings[n][1]
       /\ r > 2 => packet[3] = CodecSettings[n][2]

InPacket(n, q) ==
  /\ pc \in q + 1 .. q + 5 => CodecHolds(n - 1)
  /\ pc = q + 2 => Taken(n, 0)
  /\ pc = q + 3 => Taken(n, 1)
  /\ pc = q + 4 => Taken(n, 2)
  /\ pc = q + 5 => Taken(n, 3)

BusInv(m) ==
  /\ halted \in BOOLEAN
  /\ halted => pc \in m + 5 .. m + 34 /\ packet = << >>
  /\ pc <= m + 8 => codec = << >>
  /\ ~halted =>
       /\ \A n \in 1 .. 6, q \in Nat : q = (m + 3) + (5 * n - 5) => InPacket(n, q)
       /\ pc > m + 33 => CodecHolds(6)

LEMMA CodecSound ==
  ASSUME NEW k \in Nat, NEW m \in Nat, ProgramShape(k, m), pc \in Nat, OnInv(m), BusInv(m)
  PROVE  CodecAsMeant
<1>0. 52 <= k /\ k + 6 <= m /\ Len(Program) = m + 38
  BY DEF ProgramShape
<1>1. DOMAIN CodecSettings = 1 .. 6
  BY DEF CodecSettings
<1>2. Running => CodecHolds(6)
  BY <1>0 DEF BusInv, Running
<1>3. Running =>
        /\ DOMAIN codec = {CodecSettings[n][1] : n \in DOMAIN CodecSettings}
        /\ \A n \in DOMAIN CodecSettings : codec[CodecSettings[n][1]] = CodecSettings[n][2]
  BY <1>1, <1>2, Zenon DEF CodecHolds
<1>4. ASSUME 81 \in DOMAIN codec
      PROVE  {"SPI3", "SPI4", "SPI6", "DMA", "channels", "silence"} \subseteq on
  <2>1. codec # << >>
    BY <1>4
  <2>2. pc > 40
    BY <1>0, <2>1 DEF BusInv
  <2> QED
    BY <2>2 DEF OnInv
<1>5. halted => "I2C2" \in on /\ packet = << >>
  BY <1>0 DEF BusInv, OnInv
<1> QED
  BY <1>3, <1>4, <1>5 DEF CodecAsMeant

LEMMA SettingsDiffer ==
  ASSUME NEW i \in 1 .. 6
  PROVE  /\ CodecSettings[i][1] \in Nat /\ CodecSettings[i][2] \in Nat
         /\ \A j \in 1 .. 6 : i # j => CodecSettings[i][1] # CodecSettings[j][1]
<1>1. /\ CodecSettings[1][1] = 65 /\ CodecSettings[2][1] = 81 /\ CodecSettings[3][1] = 82
      /\ CodecSettings[4][1] = 84 /\ CodecSettings[5][1] = 67 /\ CodecSettings[6][1] = 66
  BY DEF CodecSettings
<1>2. /\ CodecSettings[1][2] = 1 /\ CodecSettings[2][2] = 65 /\ CodecSettings[3][2] = 7
      /\ CodecSettings[4][2] = 17 /\ CodecSettings[5][2] = 5 /\ CodecSettings[6][2] = 192
  BY DEF CodecSettings
<1>3. i = 1 \/ i = 2 \/ i = 3 \/ i = 4 \/ i = 5 \/ i = 6
  OBVIOUS
<1>4. CodecSettings[i][1] \in Nat /\ CodecSettings[i][2] \in Nat
  BY <1>1, <1>2, <1>3
<1>5. ASSUME NEW j \in 1 .. 6, i # j PROVE CodecSettings[i][1] # CodecSettings[j][1]
  <2>1. j = 1 \/ j = 2 \/ j = 3 \/ j = 4 \/ j = 5 \/ j = 6
    OBVIOUS
  <2> QED
    BY <1>1, <1>3, <1>5, <2>1
<1> QED
  BY <1>4, <1>5

LEMMA NothingHeld == codec = << >> => CodecHolds(0)
BY DEF CodecHolds

LEMMA OneMoreHeld ==
  ASSUME NEW n \in 1 .. 6, CodecHolds(n - 1),
         codec' = With(codec, CodecSettings[n][1], CodecSettings[n][2])
  PROVE  CodecHolds(n)'
<1>1. 1 .. n = (1 .. n - 1) \cup {n}
  OBVIOUS
<1>2. DOMAIN codec' = DOMAIN codec \cup {CodecSettings[n][1]}
  BY DEF With
<1>3. DOMAIN codec' = {CodecSettings[i][1] : i \in 1 .. n}
  BY <1>1, <1>2 DEF CodecHolds
<1>4. ASSUME NEW i \in 1 .. n PROVE codec'[CodecSettings[i][1]] = CodecSettings[i][2]
  <2>1. CASE i = n
    BY <2>1 DEF With
  <2>2. CASE i # n
    <3>1. i \in 1 .. n - 1 /\ i \in 1 .. 6
      BY <2>2
    <3>2. CodecSettings[i][1] # CodecSettings[n][1]
      BY <2>2, <3>1, SettingsDiffer
    <3>3. CodecSettings[i][1] \in DOMAIN codec
          /\ codec[CodecSettings[i][1]] = CodecSettings[i][2]
      BY <3>1 DEF CodecHolds
    <3> QED
      BY <3>2, <3>3 DEF With
  <2> QED
    BY <2>1, <2>2
<1> QED
  BY <1>3, <1>4 DEF CodecHolds

\* The next instruction is in the same packet or begins the next.
LEMMA PacketAfter ==
  ASSUME NEW m \in Nat, NEW n \in 1 .. 6, NEW q \in Nat, q = (m + 3) + (5 * n - 5),
         NEW l \in 1 .. 6, NEW p \in Nat, p = (m + 3) + (5 * l - 5),
         NEW i \in q + 1 .. q + 5, i + 1 \in p + 1 .. p + 5
  PROVE  \/ l = n /\ p = q /\ i < q + 5
         \/ l = n + 1 /\ p = q + 5 /\ i = q + 5
OBVIOUS

LEMMA BusMovesOn ==
  ASSUME NEW k \in Nat, NEW m \in Nat, ProgramShape(k, m), BusInv(m),
         NEW n \in 1 .. 6, NEW q \in Nat, q = (m + 3) + (5 * n - 5),
         pc \in q + 1 .. q + 5, pc' = pc + 1, halted' \in BOOLEAN,
         halted' => packet' = << >>,
         pc < q + 5 => codec' = codec,
         pc < q + 5 /\ ~halted' => InPacket(n, q)',
         pc = q + 5 /\ ~halted' => CodecHolds(n)'
  PROVE  BusInv(m)'
<1>1. pc \in m + 4 .. m + 33
  OBVIOUS
<1>2. pc' \in m + 5 .. m + 34
  BY <1>1
<1>3. pc' <= m + 8 => codec' = << >>
  <2>1. pc' <= m + 8 => pc < q + 5 /\ pc <= m + 8
    OBVIOUS
  <2> QED
    BY <2>1 DEF BusInv
<1>4. ASSUME ~halted', NEW l \in 1 .. 6, NEW p \in Nat, p = (m + 3) + (5 * l - 5)
      PROVE  InPacket(l, p)'
  <2>1. CASE pc' \notin p + 1 .. p + 5
    BY <2>1 DEF InPacket
  <2>2. CASE pc' \in p + 1 .. p + 5
    <3>1. \/ l = n /\ p = q /\ pc < q + 5
          \/ l = n + 1 /\ p = q + 5 /\ pc = q + 5
      <4>1. pc + 1 \in p + 1 .. p + 5
        BY <2>2
      <4> QED
        BY <1>4, <4>1, PacketAfter
    <3>2. CASE l = n /\ p = q /\ pc < q + 5
      BY <1>4, <3>2
    <3>3. CASE l = n + 1 /\ p = q + 5 /\ pc = q + 5
      <4>1. CodecHolds(n)' /\ l - 1 = n
        BY <1>4, <3>3
      <4>2. CodecHolds(l - 1)'
        BY <4>1
      <4>3. pc' = p + 1
        BY <3>3
      <4> QED
        BY <4>2, <4>3 DEF InPacket
    <3> QED
      BY <3>1, <3>2, <3>3
  <2> QED
    BY <2>1, <2>2
<1>5. ASSUME ~halted', pc' > m + 33 PROVE CodecHolds(6)'
  <2>1. n = 6 /\ pc = q + 5
    BY <1>5
  <2> QED
    BY <1>5, <2>1
<1> QED
  BY <1>2, <1>3, <1>4, <1>5 DEF BusInv

LEMMA BusStep ==
  ASSUME NEW k \in Nat, NEW m \in Nat, ProgramShape(k, m), pc \in 1 .. m + 39,
         ClocksInv, BusInv(m), [Next]_vars
  PROVE  BusInv(m)'
<1>0. 52 <= k /\ k + 6 <= m /\ Len(Program) = m + 38
  BY DEF ProgramShape
<1>1. ASSUME NEW op, Executes(op)
      PROVE  /\ pc \in 1 .. m + 38 /\ pc' = pc + 1 /\ Program[pc].op = op
             /\ Place(k, m, pc, op, Arg)
  BY <1>1, ExecutedAt
<1>2. ASSUME NEW i, NEW op, NEW arg, Is(Program, i, op, arg), pc = i
      PROVE  Program[pc].op = op /\ Arg = arg
  BY <1>2 DEF Is, Arg
<1>3. ASSUME NEW op, op \notin {"start", "byte", "stop"}, Executes(op),
             UNCHANGED <<bus, halted>>
      PROVE  BusInv(m)'
  <2>0. ~halted /\ pc' = pc + 1 /\ pc \in 1 .. m + 38 /\ Place(k, m, pc, op, Arg)
    BY <1>1, <1>3 DEF Executes
  <2>1. pc \notin m + 4 .. m + 33 /\ pc' = pc + 1 /\ pc \in 1 .. m + 38 /\ ~halted
    <3>1. ASSUME pc \in m + 4 .. m + 33 PROVE FALSE
      <4>1. pc \notin 1 .. 23 /\ pc \notin 24 .. 52 /\ pc \notin 53 .. k
            /\ pc \notin k + 1 .. k + 6 /\ pc \notin k + 7 .. m
        BY <1>0, <3>1
      <4>2. PlaceAtCodec(m, pc, op, Arg)
        BY <2>0, <4>1 DEF Place
      <4>3. pc \notin {m + 1, m + 2, m + 3, m + 34, m + 35, m + 36} /\ pc \notin m + 37 .. m + 38
        BY <3>1
      <4> QED
        BY <1>3, <4>2, <4>3 DEF PlaceAtCodec
    <3> QED
      BY <2>0, <3>1
  <2>2. codec' = codec /\ halted' = halted
    BY <1>3 DEF bus
  <2>3. pc' <= m + 8 => codec' = << >>
    BY <2>1, <2>2 DEF BusInv
  <2>4. pc' > m + 33 => CodecHolds(6)'
    BY <2>1, <2>2 DEF BusInv, CodecHolds
  <2>5. ASSUME NEW n \in 1 .. 6, NEW q \in Nat, q = (m + 3) + (5 * n - 5)
        PROVE  InPacket(n, q)'
    <3>1. CASE pc' \notin q + 1 .. q + 5
      BY <3>1 DEF InPacket
    <3>2. CASE pc' \in q + 1 .. q + 5
      <4>1. n = 1 /\ pc' = q + 1 /\ n - 1 = 0
        BY <2>1, <2>5, <3>2
      <4>2. codec = << >>
        BY <2>1, <2>5, <4>1 DEF BusInv
      <4>3. CodecHolds(n - 1)'
        BY <2>2, <4>1, <4>2, NothingHeld DEF CodecHolds
      <4> QED
        BY <4>1, <4>3 DEF InPacket
    <3> QED
      BY <3>1, <3>2
  <2> QED
    BY <2>1, <2>2, <2>3, <2>4, <2>5 DEF BusInv
<1>4. ASSUME NEW op \in {"start", "byte", "stop"}, Executes(op)
      PROVE  \E n \in 1 .. 6, q \in Nat :
               /\ q = (m + 3) + (5 * n - 5) /\ pc \in q + 1 .. q + 5 /\ pc' = pc + 1
               /\ InPacket(n, q)
               /\ pc = q + 1 => op = "start"
               /\ pc = q + 2 => op = "byte" /\ Arg = "address"
               /\ pc = q + 3 => op = "byte" /\ Arg = CodecSettings[n][1]
               /\ pc = q + 4 => op = "byte" /\ Arg = CodecSettings[n][2]
               /\ pc = q + 5 => op = "stop"
  <2>1. pc \in m + 4 .. m + 33 /\ pc' = pc + 1 /\ ~halted /\ Program[pc].op = op
    BY <1>0, <1>1, <1>4 DEF Executes, Place, PlaceInClocks, PlaceInDevices, PlaceInDark,
                     PlaceInLighting, PlaceInLight, PlaceAtCodec
  <2>2. PICK n \in 1 .. 6, q \in Nat : q = (m + 3) + (5 * n - 5) /\ pc \in q + 1 .. q + 5
    BY <2>1, PacketsAreThere
  <2>3. Packet(Program, q, n)
    BY <2>2 DEF ProgramShape
  <2>4. InPacket(n, q)
    BY <2>1, <2>2 DEF BusInv
  <2>5. /\ pc = q + 1 => op = "start"
        /\ pc = q + 2 => op = "byte" /\ Arg = "address"
        /\ pc = q + 3 => op = "byte" /\ Arg = CodecSettings[n][1]
        /\ pc = q + 4 => op = "byte" /\ Arg = CodecSettings[n][2]
        /\ pc = q + 5 => op = "stop"
    BY <1>2, <2>1, <2>3 DEF Packet
  <2> QED
    BY <2>1, <2>2, <2>4, <2>5
<1>5. CASE StartTransfer
  <2>1. Executes("start") /\ packet' = << >> /\ success' = TRUE /\ halted' \in BOOLEAN
        /\ codec' = codec
    BY <1>5 DEF StartTransfer
  <2>2. PICK n \in 1 .. 6, q \in Nat :
          q = (m + 3) + (5 * n - 5) /\ pc = q + 1 /\ pc' = pc + 1 /\ InPacket(n, q)
    <3>1. PICK n \in 1 .. 6, q \in Nat :
               /\ q = (m + 3) + (5 * n - 5) /\ pc \in q + 1 .. q + 5 /\ pc' = pc + 1
               /\ InPacket(n, q)
               /\ pc = q + 2 => "start" = "byte"
               /\ pc = q + 3 => "start" = "byte"
               /\ pc = q + 4 => "start" = "byte"
               /\ pc = q + 5 => "start" = "stop"
      BY <1>4, <2>1
    <3>2. pc = q + 1
      BY <3>1
    <3> QED
      BY <3>1, <3>2
  <2>3. CodecHolds(n - 1)'
    BY <2>1, <2>2 DEF InPacket, CodecHolds
  <2>4. Taken(n, 0)'
    BY <2>1 DEF Taken
  <2>5. InPacket(n, q)'
    BY <2>2, <2>3, <2>4 DEF InPacket
  <2>6. pc \in q + 1 .. q + 5 /\ pc < q + 5
    BY <2>2
  <2> QED
    BY <2>1, <2>2, <2>5, <2>6, BusMovesOn
<1>6. CASE TransmitOneByte
  <2>1. Executes("byte") /\ codec' = codec /\ halted' = halted /\ ~halted
    BY <1>6 DEF TransmitOneByte, Executes
  <2>2. PICK n \in 1 .. 6, q \in Nat :
          /\ q = (m + 3) + (5 * n - 5) /\ pc \in q + 1 .. q + 5 /\ pc' = pc + 1
          /\ InPacket(n, q) /\ pc # q + 1 /\ pc # q + 5
          /\ pc = q + 2 => Arg = "address"
          /\ pc = q + 3 => Arg = CodecSettings[n][1]
          /\ pc = q + 4 => Arg = CodecSettings[n][2]
    BY <1>4, <2>1
  <2>3. pc = q + 2 \/ pc = q + 3 \/ pc = q + 4
    BY <2>2
  <2>4. \/ success /\ success' = TRUE /\ packet' = Append(packet, Arg)
        \/ success /\ success' \in BOOLEAN /\ ~success' /\ packet' = packet
        \/ ~success /\ success' = success /\ packet' = packet
    BY <1>6 DEF TransmitOneByte
  <2>5. Arg \in Nat \cup {"address"}
    BY <2>2, <2>3, SettingsDiffer
  <2>6. ASSUME NEW r \in 0 .. 2, Taken(n, r), pc = q + 2 + r
        PROVE  Taken(n, r + 1)'
    <3>1. CASE success /\ success' = TRUE /\ packet' = Append(packet, Arg)
      <4>1. /\ packet' \in Seq(Nat \cup {"address"}) /\ Len(packet') = r + 1
            /\ packet'[r + 1] = Arg
            /\ \A i \in 1 .. r : packet'[i] = packet[i]
        BY <2>5, <2>6, <3>1 DEF Taken
      <4>2. \/ r = 0 /\ Arg = "address"
            \/ r = 1 /\ Arg = CodecSettings[n][1]
            \/ r = 2 /\ Arg = CodecSettings[n][2]
        BY <2>2, <2>6
      <4> QED
        BY <2>6, <3>1, <4>1, <4>2 DEF Taken
    <3>2. CASE success /\ success' \in BOOLEAN /\ ~success' /\ packet' = packet
      BY <2>6, <3>2 DEF Taken
    <3>3. CASE ~success /\ success' = success /\ packet' = packet
      BY <2>6, <3>3 DEF Taken
    <3> QED
      BY <2>4, <3>1, <3>2, <3>3
  <2>7. CodecHolds(n - 1)'
    BY <2>1, <2>2 DEF InPacket, CodecHolds
  <2>8. InPacket(n, q)'
    <3>1. CASE pc = q + 2
      <4>1. Taken(n, 0 + 1)'
        BY <2>2, <2>6, <3>1 DEF InPacket
      <4> QED
        BY <2>2, <2>7, <3>1, <4>1 DEF InPacket
    <3>2. CASE pc = q + 3
      <4>1. Taken(n, 1 + 1)'
        BY <2>2, <2>6, <3>2 DEF InPacket
      <4> QED
        BY <2>2, <2>7, <3>2, <4>1 DEF InPacket
    <3>3. CASE pc = q + 4
      <4>1. Taken(n, 2 + 1)'
        BY <2>2, <2>6, <3>3 DEF InPacket
      <4> QED
        BY <2>2, <2>7, <3>3, <4>1 DEF InPacket
    <3> QED
      BY <2>3, <3>1, <3>2, <3>3
  <2>9. pc < q + 5
    BY <2>3
  <2> QED
    BY <2>1, <2>2, <2>8, <2>9, BusMovesOn DEF BusInv
<1>7. CASE StopTransfer
  <2>1. /\ Executes("stop") /\ packet' = << >> /\ halted' = ~success
        /\ codec' = IF Len(packet) = 3 THEN With(codec, packet[2], packet[3]) ELSE codec
    BY <1>7 DEF StopTransfer, ErrorHalt
  <2>2. PICK n \in 1 .. 6, q \in Nat :
          /\ q = (m + 3) + (5 * n - 5) /\ pc \in q + 1 .. q + 5 /\ pc' = pc + 1
          /\ InPacket(n, q)
          /\ pc \notin {q + 1, q + 2, q + 3, q + 4}
    BY <1>4, <2>1
  <2>3. pc = q + 5
    BY <2>2
  <2>4. Taken(n, 3) /\ CodecHolds(n - 1)
    BY <2>2, <2>3 DEF InPacket
  <2>5. ASSUME ~halted' PROVE CodecHolds(n)'
    <3>1. success
      BY <2>1, <2>4, <2>5 DEF Taken
    <3>2. Len(packet) = 3 /\ packet[2] = CodecSettings[n][1]
          /\ packet[3] = CodecSettings[n][2]
      BY <2>4, <3>1 DEF Taken
    <3>3. codec' = With(codec, CodecSettings[n][1], CodecSettings[n][2])
      BY <2>1, <3>2
    <3> QED
      BY <2>4, <3>3, OneMoreHeld
  <2>6. halted' \in BOOLEAN
    BY <2>1, <2>4 DEF Taken
  <2>7. ~(pc < q + 5)
    BY <2>3
  <2> QED
    BY <2>1, <2>2, <2>5, <2>6, <2>7, BusMovesOn
<1>8. CASE Oscillator
  <2>1. UNCHANGED bus
    BY <1>8 DEF Oscillator
  <2>2. PICK op \in {"unlock", "lock", "divide", "source", "multiply"} :
          /\ Executes(op)
          /\ op = "multiply" => halted' = (unlocked /\ source = "SPLL")
          /\ op # "multiply" => halted' = halted
    BY <1>8 DEF Oscillator
  <2>3. op = "multiply" => pc = 10
    <3>1. /\ Is(Program, 3, "unlock", 0) /\ Is(Program, 4, "divide", PBClockDivisor)
          /\ Is(Program, 5, "lock", 0) /\ Is(Program, 6, "unlock", 0)
          /\ Is(Program, 7, "source", "Posc") /\ Is(Program, 8, "lock", 0)
          /\ Is(Program, 9, "unlock", 0) /\ Is(Program, 11, "lock", 0)
          /\ Is(Program, 12, "unlock", 0) /\ Is(Program, 13, "source", "SPLL")
          /\ Is(Program, 14, "lock", 0)
      BY DEF ProgramShape, ClocksAndPins
    <3>2. pc \in 3 .. 14 /\ Program[pc].op = op
      BY <1>0, <1>1, <2>2 DEF Place, PlaceInClocks, PlaceInDevices, PlaceInDark,
                       PlaceInLighting, PlaceInLight, PlaceAtCodec
    <3>3. pc \in {3, 4, 5, 6, 7, 8, 9, 11, 12, 13, 14} => Program[pc].op # "multiply"
      BY <1>2, <3>1
    <3> QED
      BY <3>2, <3>3
  <2>4. op = "multiply" => ~(unlocked /\ source = "SPLL")
    BY <2>3 DEF ClocksInv
  <2>5. ~halted
    BY <2>2 DEF Executes
  <2>6. halted' = halted
    BY <2>2, <2>4, <2>5 DEF BusInv
  <2> QED
    BY <1>3, <2>1, <2>2, <2>6
<1>9. CASE PLLLocks \/ UNCHANGED vars
  <2>1. pc' = pc /\ UNCHANGED <<codec, packet, success, halted>>
    BY <1>9 DEF PLLLocks, vars, bus
  <2> QED
    BY <2>1 DEF BusInv, InPacket, CodecHolds, Taken
<1>10. CASE Switch
  BY <1>3, <1>10 DEF Switch
<1>11. CASE Ports
  BY <1>3, <1>11 DEF Ports
<1> QED
  BY <1>3, <1>5, <1>6, <1>7, <1>8, <1>9, <1>10, <1>11
     DEF Next, Step, Wait, PerformanceConfig, ConfigureTimer, DelayMs, Send,
         ReadCalibrationFromSettings, QuickSRAMtest
-----------------------------------------------------------------------------
(***************************************************************************)
(* What the displays rest on: their selects and resets, the pins that tell *)
(* commands from data, and their transmitters.                             *)
(***************************************************************************)
\* What moves the displays' pins before they are told anything.
LEMMA PinsHere ==
  ASSUME NEW k \in Nat, NEW m \in Nat, ProgramShape(k, m), NEW i \in 24 .. 52,
         Program[i].op \in {"set", "clear"}
  PROVE  \/ i \in {27, 52} /\ Program[i].op = "set" /\ Program[i].arg = "reset2"
         \/ i = 28 /\ Program[i].op = "set" /\ Program[i].arg = "cs2"
         \/ i = 48 /\ Program[i].op = "set" /\ Program[i].arg = "reset1"
         \/ i = 50 /\ Program[i].op = "clear" /\ Program[i].arg = "reset2"
<1>1. ASSUME NEW j, NEW op, NEW arg, Is(Program, j, op, arg)
      PROVE  Program[j].op = op /\ Program[j].arg = arg
  BY <1>1 DEF Is
<1>2. Devices(Program)
  BY DEF ProgramShape
<1>3. CASE i \in 24 .. 33
  <2>1. \/ i = 24 \/ i = 25 \/ i = 26 \/ i = 27 \/ i = 28 \/ i = 29
        \/ i = 30 \/ i = 31 \/ i = 32 \/ i = 33
    BY <1>3
  <2> QED
    BY <1>1, <1>2, <2>1 DEF Devices
<1>4. CASE i \in 34 .. 43
  <2>1. \/ i = 34 \/ i = 35 \/ i = 36 \/ i = 37 \/ i = 38 \/ i = 39
        \/ i = 40 \/ i = 41 \/ i = 42 \/ i = 43
    BY <1>4
  <2> QED
    BY <1>1, <1>2, <2>1 DEF Devices
<1>5. CASE i \in 44 .. 52
  <2>1. \/ i = 44 \/ i = 45 \/ i = 46 \/ i = 47 \/ i = 48 \/ i = 49
        \/ i = 50 \/ i = 51 \/ i = 52
    BY <1>5
  <2> QED
    BY <1>1, <1>2, <2>1 DEF Devices
<1> QED
  BY <1>3, <1>4, <1>5

\* What is high out of the way before the displays are told anything, and that
\* what they need beyond it stays.
DarkInv ==
  /\ pc > 17 => "cs1" \in driven
  /\ pc > 23 => DisplayPins \subseteq driven
  /\ pc \in 17 .. 53 => latch["cs1"]
  /\ pc \in 23 .. 53 => ~latch["dc1"] /\ ~latch["dc2"]
  /\ pc \in 29 .. 53 => latch["cs2"]
  /\ pc > 48 => latch["reset1"]
  /\ pc > 52 => latch["reset2"]
  /\ pc > 24 => "EBI" \in on
  /\ pc > 31 => "SPI5" \in on
  /\ pc \in 31 .. 53 => "SPI1" \in on
  /\ pc <= 53 => chip = [d \in Display |-> ChipReset] /\ displayMode = "normal"

LEMMA PortsLatch ==
  ASSUME latch \in [Pin -> BOOLEAN], NEW port
  PROVE  LET l == [p \in Pin |-> IF p \in {q \in Pin : Port(q) = port} THEN PortLatch[p]
                                 ELSE latch[p]]
         IN  /\ l["cs1"] <=> port = "A" \/ latch["cs1"]
             /\ port = "J" => ~l["dc1"] /\ ~l["dc2"]
<1> DEFINE here == {q \in Pin : Port(q) = port}
           l == [p \in Pin |-> IF p \in here THEN PortLatch[p] ELSE latch[p]]
<1>1. "cs1" \in Pin /\ "dc1" \in Pin /\ "dc2" \in Pin
  BY DEF Pin
<1>2. /\ "cs1" \in here <=> port = "A"
      /\ port = "J" => "dc1" \in here /\ "dc2" \in here
  BY <1>1 DEF Port
<1>3. PortLatch["cs1"] /\ ~PortLatch["dc1"] /\ ~PortLatch["dc2"]
  <2>1. /\ PortLatch["cs1"] = ("cs1" \in {"cs1", "power"})
        /\ PortLatch["dc1"] = ("dc1" \in {"cs1", "power"})
        /\ PortLatch["dc2"] = ("dc2" \in {"cs1", "power"})
    BY <1>1, Zenon DEF PortLatch
  <2>2. "cs1" \in {"cs1", "power"} /\ "dc1" \notin {"cs1", "power"}
        /\ "dc2" \notin {"cs1", "power"}
    BY SMT
  <2> QED
    BY <2>1, <2>2, Zenon
<1> HIDE DEF here
<1>4. \A p \in Pin : /\ p \in here => l[p] = PortLatch[p]
                     /\ p \notin here => l[p] = latch[p]
  BY Zenon
<1> HIDE DEF l
<1>5. (l["cs1"] <=> port = "A" \/ latch["cs1"]) /\ (port = "J" => ~l["dc1"] /\ ~l["dc2"])
  BY <1>1, <1>2, <1>3, <1>4, Zenon
<1> QED
  BY <1>5, Zenon DEF l, here

LEMMA LinesHere ==
  ASSUME NEW k \in Nat, NEW m \in Nat, ProgramShape(k, m), NEW i \in 53 .. m + 38,
         Program[i].op \in {"set", "clear"}
  PROVE  Program[i].arg \in Lines \cup {"power", "codec"}
<1>1. Len(Program) = m + 38 /\ 52 <= k /\ k + 6 <= m
  BY DEF ProgramShape
<1>2. CASE i \in 53 .. m
  <2>1. PICK f : Story(Program, f, 52, m)
    BY DEF ProgramShape, DisplaysRun
  <2>2. Goes(f[i - 1], Program[i].op, Program[i].arg, f[i])
    BY <1>2, <2>1 DEF Story
  <2> QED
    BY <2>2 DEF Goes
<1>3. CASE i \in m + 1 .. m + 38
  <2>1. Place(k, m, i, Program[i].op, Program[i].arg)
    BY Placed
  <2>2. PlaceAtCodec(m, i, Program[i].op, Program[i].arg)
    BY <1>1, <1>3, <2>1 DEF Place
  <2> QED
    BY <2>2 DEF PlaceAtCodec
<1> QED
  BY <1>2, <1>3

LEMMA DarkStep ==
  ASSUME NEW k \in Nat, NEW m \in Nat, ProgramShape(k, m), pc \in 1 .. m + 39,
         TimeInv(k, m), DarkInv, [Next]_vars
  PROVE  DarkInv'
<1> DEFINE Elsewhere == pc \notin {16, 17, 22, 23, 24, 28, 30, 31, 48, 52}
<1>0. 52 <= k /\ k + 6 <= m
  BY DEF ProgramShape
<1>1. ASSUME NEW op, Executes(op)
      PROVE  /\ pc \in 1 .. m + 38 /\ pc' = pc + 1 /\ Program[pc].op = op
             /\ Place(k, m, pc, op, Arg)
  BY <1>1, ExecutedAt
<1>2. ASSUME NEW i, NEW op, NEW arg, Is(Program, i, op, arg), pc = i
      PROVE  Program[pc].op = op /\ Arg = arg
  BY <1>2 DEF Is, Arg
<1>3. /\ Is(Program, 16, "latch", "A") /\ Is(Program, 17, "drive", "A")
      /\ Is(Program, 22, "latch", "J") /\ Is(Program, 23, "drive", "J")
      /\ Is(Program, 24, "on", "EBI") /\ Is(Program, 28, "set", "cs2")
      /\ Is(Program, 30, "on", "SPI1") /\ Is(Program, 31, "on", "SPI5")
      /\ Is(Program, 48, "set", "reset1") /\ Is(Program, 52, "set", "reset2")
  BY DEF ProgramShape, ClocksAndPins, Devices
<1>4. /\ pc = 16 => Program[pc].op = "latch" /\ Arg = "A"
      /\ pc = 17 => Program[pc].op = "drive" /\ Arg = "A"
      /\ pc = 22 => Program[pc].op = "latch" /\ Arg = "J"
      /\ pc = 23 => Program[pc].op = "drive" /\ Arg = "J"
      /\ pc = 24 => Program[pc].op = "on" /\ Arg = "EBI"
      /\ pc = 28 => Program[pc].op = "set" /\ Arg = "cs2"
      /\ pc = 30 => Program[pc].op = "on" /\ Arg = "SPI1"
      /\ pc = 31 => Program[pc].op = "on" /\ Arg = "SPI5"
      /\ pc = 48 => Program[pc].op = "set" /\ Arg = "reset1"
      /\ pc = 52 => Program[pc].op = "set" /\ Arg = "reset2"
  BY <1>2, <1>3
<1>5. CASE pc' = pc /\ UNCHANGED <<latch, driven, on, chip, displayMode>>
  BY <1>5 DEF DarkInv
<1>6. ASSUME pc' = pc + 1, Elsewhere, UNCHANGED <<latch, driven, on>>,
             pc <= 52 => UNCHANGED <<chip, displayMode>>
      PROVE  DarkInv'
  BY <1>6 DEF DarkInv
<1>7. ASSUME NEW op, Executes(op), op \notin {"latch", "drive", "on", "set"}
      PROVE  pc' = pc + 1 /\ Elsewhere
  BY <1>1, <1>4, <1>7
<1>8. CASE Switch
  <2>1. UNCHANGED <<latch, driven, chip, displayMode>>
    BY <1>8 DEF Switch, pins, calibration
  <2>2. CASE Executes("on") /\ on' = on \cup {Arg}
    <3>1. pc' = pc + 1 /\ pc \notin {16, 17, 22, 23, 28, 48, 52}
      BY <1>1, <1>4, <2>2
    <3> QED
      BY <1>4, <2>1, <2>2, <3>1 DEF DarkInv
  <2>3. CASE Executes("off") /\ on' = on \ {Arg}
    <3>1. pc' = pc + 1 /\ Elsewhere
      BY <1>7, <2>3
    <3>2. /\ Arg \notin {"EBI", "SPI5"} \/ pc < 24
          /\ Arg # "SPI1" \/ pc <= 29 \/ pc >= 53
      BY <1>0, <1>1, <2>3 DEF Place, PlaceInClocks, PlaceInDevices, PlaceInDark,
         PlaceInLighting, PlaceInLight, PlaceAtCodec
    <3> QED
      BY <2>1, <2>3, <3>1, <3>2 DEF DarkInv
  <2> QED
    BY <1>8, <2>2, <2>3 DEF Switch
<1>9. CASE Ports
  <2>1. UNCHANGED <<on, displayMode>>
    BY <1>9 DEF Ports, calibration
  <2>2. ASSUME NEW l, NEW o, NEW changed, PinsBecome(l, o, changed)
        PROVE  /\ latch' = l /\ driven' = o
               /\ pc <= 52 => chip' = [d \in Display |-> ChipReset]
    <3>1. /\ latch' = l /\ driven' = o
          /\ chip' = [d \in Display |->
                        IF Reset[d] \in o /\ l[Reset[d]] THEN chip[d] ELSE ChipReset]
      BY <2>2 DEF PinsBecome
    <3>2. ASSUME pc <= 52 PROVE chip' = [d \in Display |-> ChipReset]
      <4>1. chip = [d \in Display |-> ChipReset]
        BY <3>2 DEF DarkInv
      <4> QED
        BY <3>1, <4>1, Zenon
    <3> QED
      BY <3>1, <3>2
  <2> DEFINE here == {p \in Pin : Port(p) = Arg}
             new == [p \in Pin |-> IF p \in here THEN PortLatch[p] ELSE latch[p]]
  <2>3. CASE Executes("latch") /\ PinsBecome(new, driven, here)
    <3>1. /\ new["cs1"] <=> Arg = "A" \/ latch["cs1"]
          /\ Arg = "J" => ~new["dc1"] /\ ~new["dc2"]
      BY PortsLatch DEF TimeInv
    <3>2. /\ latch' = new /\ driven' = driven
          /\ pc <= 52 => chip' = [d \in Display |-> ChipReset]
      BY <2>2, <2>3
    <3>3. pc' = pc + 1 /\ pc \in 16 .. 22 /\ pc # 17
      <4>1. pc # 17 /\ pc # 23
        BY <1>1, <1>4, <2>3
      <4> QED
        BY <1>1, <2>3, <4>1 DEF Place, PlaceInClocks, PlaceInDevices, PlaceInDark,
           PlaceInLighting, PlaceInLight, PlaceAtCodec
    <3> HIDE DEF new
    <3>4. /\ pc' \in 17 .. 53 => latch'["cs1"]
          /\ pc' \in 23 .. 53 => ~latch'["dc1"] /\ ~latch'["dc2"]
      BY <1>4, <3>1, <3>2, <3>3 DEF DarkInv
    <3> QED
      BY <2>1, <3>2, <3>3, <3>4 DEF DarkInv
  <2>4. CASE Executes("drive") /\ PinsBecome(latch, driven \cup here, here)
    <3>1. pc' = pc + 1 /\ pc \in 17 .. 23 /\ pc # 22
      <4>1. pc # 16 /\ pc # 22
        BY <1>1, <1>4, <2>4
      <4> QED
        BY <1>1, <2>4, <4>1 DEF Place, PlaceInClocks, PlaceInDevices, PlaceInDark,
           PlaceInLighting, PlaceInLight, PlaceAtCodec
    <3>2. /\ latch' = latch /\ driven' = driven \cup here
          /\ pc <= 52 => chip' = [d \in Display |-> ChipReset]
      BY <2>2, <2>4
    <3>3. /\ Arg = "A" => "cs1" \in here
          /\ Arg = "J" => DisplayPins \ {"cs1"} \subseteq here
      BY DEF Pin, Port, DisplayPins
    <3> HIDE DEF here
    <3>4. pc' > 17 => "cs1" \in driven'
      BY <1>4, <3>1, <3>2, <3>3 DEF DarkInv
    <3>5. pc' > 23 => DisplayPins \subseteq driven'
      BY <1>4, <3>1, <3>2, <3>3, <3>4 DEF DisplayPins
    <3> QED
      BY <2>1, <3>1, <3>2, <3>4, <3>5 DEF DarkInv
  <2>5. ASSUME NEW op \in {"set", "clear"}, NEW v \in BOOLEAN, Executes(op),
               op = "set" => v = TRUE, op = "clear" => v = FALSE,
               PinsBecome([latch EXCEPT ![Arg] = v], driven, {Arg})
        PROVE  DarkInv'
    <3>1. PICK l \in [Pin -> BOOLEAN] : l = [latch EXCEPT ![Arg] = v]
      BY DEF TimeInv
    <3>2. /\ latch' = l /\ driven' = driven
          /\ pc <= 52 => chip' = [d \in Display |-> ChipReset]
      BY <2>2, <2>5, <3>1
    <3>3. \A p \in Pin : /\ p # Arg => l[p] = latch[p]
                        /\ p = Arg => l[p] = v
      BY <3>1 DEF TimeInv
    <3>4. ASSUME NEW p \in Pin, p # Arg PROVE l[p] <=> latch[p]
      <4>1. p \in DOMAIN latch
        BY DEF TimeInv
      <4> QED
        BY <3>1, <3>4, <4>1
    <3>5. {"cs1", "cs2", "dc1", "dc2", "reset1", "reset2"} \subseteq Pin
      BY DEF Pin
    <3>6. Program[pc].op = op /\ pc \in 1 .. m + 38 /\ pc' = pc + 1 /\ pc >= 24
      BY <1>0, <1>1, <2>5 DEF Place, PlaceInClocks, PlaceInDevices, PlaceInDark,
         PlaceInLighting, PlaceInLight, PlaceAtCodec
    <3>7. CASE pc <= 52
      <4>1. \/ pc \in {27, 52} /\ op = "set" /\ Arg = "reset2"
            \/ pc = 28 /\ op = "set" /\ Arg = "cs2"
            \/ pc = 48 /\ op = "set" /\ Arg = "reset1"
            \/ pc = 50 /\ op = "clear" /\ Arg = "reset2"
        BY <3>6, <3>7, PinsHere DEF Arg
      <4>2. pc \notin {16, 17, 22, 23, 24, 30, 31}
        BY <4>1
      <4>3. /\ pc # 28 => (l["cs2"] <=> latch["cs2"])
            /\ pc # 48 => (l["reset1"] <=> latch["reset1"])
            /\ (l["cs1"] <=> latch["cs1"]) /\ (l["dc1"] <=> latch["dc1"])
            /\ (l["dc2"] <=> latch["dc2"])
        <5>1. /\ pc # 28 => "cs2" # Arg
              /\ pc # 48 => "reset1" # Arg
              /\ "cs1" # Arg /\ "dc1" # Arg /\ "dc2" # Arg
          BY <4>1
        <5>2. "cs1" \in Pin /\ "cs2" \in Pin /\ "dc1" \in Pin /\ "dc2" \in Pin
              /\ "reset1" \in Pin
          BY <3>5
        <5> QED
          BY <3>4, <5>1, <5>2
      <4>4. (pc = 28 => l["cs2"]) /\ (pc = 48 => l["reset1"]) /\ (pc = 52 => l["reset2"])
        BY <2>5, <3>3, <3>5, <4>1
      <4> QED
        BY <2>1, <3>2, <3>6, <3>7, <4>2, <4>3, <4>4 DEF DarkInv
    <3>8. CASE pc >= 53
      <4>1. Arg \in Lines \cup {"power", "codec"}
        BY <3>6, <3>8, LinesHere DEF Arg
      <4>2. (l["reset1"] <=> latch["reset1"]) /\ (l["reset2"] <=> latch["reset2"])
        <5>1. "reset1" # Arg /\ "reset2" # Arg
          BY <4>1 DEF Lines
        <5>2. "reset1" \in Pin /\ "reset2" \in Pin
          BY <3>5
        <5> QED
          BY <3>4, <5>1, <5>2
      <4> QED
        BY <2>1, <3>2, <3>6, <3>8, <4>2 DEF DarkInv
    <3> QED
      BY <3>6, <3>7, <3>8
  <2>6. CASE Executes("set") /\ PinsBecome([latch EXCEPT ![Arg] = TRUE], driven, {Arg})
    BY <2>5, <2>6
  <2>7. CASE Executes("clear") /\ PinsBecome([latch EXCEPT ![Arg] = FALSE], driven, {Arg})
    BY <2>5, <2>7
  <2> QED
    BY <1>9, <2>3, <2>4, <2>6, <2>7 DEF Ports
<1>10. ASSUME NEW op \in {"send", "readCalibration", "sramTest"}, Executes(op),
              UNCHANGED <<latch, driven, on>>
       PROVE  DarkInv'
  <2>1. pc >= 53
    BY <1>0, <1>1, <1>10 DEF Place, PlaceInClocks, PlaceInDevices, PlaceInDark,
       PlaceInLighting, PlaceInLight, PlaceAtCodec
  <2> QED
    BY <1>6, <1>7, <1>10, <2>1
<1>11. ASSUME NEW op \in {"await", "unlock", "lock", "divide", "source", "multiply",
                          "waitStates", "timer3", "delay", "start", "byte", "stop"},
              Executes(op), UNCHANGED <<latch, driven, on, chip, displayMode>>
       PROVE  DarkInv'
  BY <1>6, <1>7, <1>11
<1>12. CASE Send \/ ReadCalibrationFromSettings \/ QuickSRAMtest
  BY <1>10, <1>12 DEF Send, ReadCalibrationFromSettings, QuickSRAMtest, pins
<1>13. CASE Wait \/ PerformanceConfig \/ ConfigureTimer \/ DelayMs
  BY <1>11, <1>13 DEF Wait, PerformanceConfig, ConfigureTimer, DelayMs, pins, calibration
<1>14. CASE StartTransfer \/ TransmitOneByte \/ StopTransfer
  BY <1>11, <1>14 DEF StartTransfer, TransmitOneByte, StopTransfer, pins, calibration
<1>15. CASE Oscillator
  <2>1. PICK op \in {"unlock", "lock", "divide", "source", "multiply"} : Executes(op)
    BY <1>15 DEF Oscillator
  <2>2. UNCHANGED <<latch, driven, on, chip, displayMode>>
    BY <1>15 DEF Oscillator, pins, calibration
  <2> QED
    BY <1>11, <2>1, <2>2
<1>16. CASE PLLLocks \/ UNCHANGED vars
  BY <1>5, <1>16 DEF PLLLocks, vars, pins, calibration
<1> QED
  BY <1>8, <1>9, <1>12, <1>13, <1>14, <1>15, <1>16 DEF Next, Step

-----------------------------------------------------------------------------
(***************************************************************************)
(* The displays.  From the first byte on, the pins and the chips are as    *)
(* the scene has them, and each display holds of each setting the last it  *)
(* was told.                                                               *)
(***************************************************************************)
Tells(d, i) == /\ Program[i].op = "send" /\ d \in Program[i].arg[1]
               /\ Program[i].arg[2] # Zero

TheLast(told, d, n) ==
  /\ DOMAIN told = {Setting(i) : i \in Tellings(d, n)}
  /\ \A i \in Tellings(d, n) :
       \/ told[Setting(i)] = Program[i].arg[2][2]
       \/ \E later \in Tellings(d, n) : later > i /\ Setting(later) = Setting(i)

LEMMA TellingsOn ==
  ASSUME NEW d, NEW n \in Nat
  PROVE  /\ Tells(d, n + 1) => Tellings(d, n + 1) = Tellings(d, n) \cup {n + 1}
         /\ ~Tells(d, n + 1) => Tellings(d, n + 1) = Tellings(d, n)
         /\ \A i \in Tellings(d, n) : i \in Int /\ i <= n
<1>1. \A i : i \in 1 .. n + 1 <=> i \in 1 .. n \/ i = n + 1
  OBVIOUS
<1>2. \A i : i \in Tellings(d, n) <=> i \in 1 .. n /\ Tells(d, i)
  BY DEF Tellings, Tells
<1>3. \A i : i \in Tellings(d, n + 1) <=> i \in 1 .. n + 1 /\ Tells(d, i)
  BY DEF Tellings, Tells
<1>4. \A i \in 1 .. n : i \in Int /\ i <= n
  OBVIOUS
<1> HIDE DEF Tellings, Tells
<1> QED
  BY <1>1, <1>2, <1>3, <1>4

LEMMA NothingTold ==
  ASSUME NEW d, NEW n \in Nat, NEW told, TheLast(told, d, n), ~Tells(d, n + 1)
  PROVE  TheLast(told, d, n + 1)
BY TellingsOn DEF TheLast

LEMMA OneMoreTold ==
  ASSUME NEW d, NEW n \in Nat, NEW told, TheLast(told, d, n), Tells(d, n + 1)
  PROVE  TheLast(With(told, Setting(n + 1), Program[n + 1].arg[2][2]), d, n + 1)
<1> DEFINE S == Tellings(d, n)
           T == Tellings(d, n + 1)
           new == With(told, Setting(n + 1), Program[n + 1].arg[2][2])
<1>1. T = S \cup {n + 1} /\ \A i \in S : i \in Int /\ i <= n
  BY TellingsOn
<1>2. /\ DOMAIN told = {Setting(i) : i \in S}
      /\ \A i \in S : \/ told[Setting(i)] = Program[i].arg[2][2]
                      \/ \E later \in S : later > i /\ Setting(later) = Setting(i)
  BY DEF TheLast
<1> HIDE DEF S, T
<1>3. /\ DOMAIN new = DOMAIN told \cup {Setting(n + 1)}
      /\ new[Setting(n + 1)] = Program[n + 1].arg[2][2]
      /\ \A z \in DOMAIN told : z # Setting(n + 1) => new[z] = told[z]
  BY DEF With
<1> HIDE DEF new
<1>4. DOMAIN new = {Setting(i) : i \in T}
  BY <1>1, <1>2, <1>3
<1>5. ASSUME NEW i \in T
      PROVE  \/ new[Setting(i)] = Program[i].arg[2][2]
             \/ \E later \in T : later > i /\ Setting(later) = Setting(i)
  <2>1. CASE i = n + 1
    BY <1>3, <2>1
  <2>2. CASE i \in S /\ Setting(i) = Setting(n + 1)
    BY <1>1, <2>2
  <2>3. CASE i \in S /\ Setting(i) # Setting(n + 1)
    <3>1. Setting(i) \in DOMAIN told
      BY <1>2, <2>3
    <3>2. new[Setting(i)] = told[Setting(i)]
      BY <1>3, <2>3, <3>1
    <3> QED
      BY <1>1, <1>2, <2>3, <3>2
  <2> QED
    BY <1>1, <2>1, <2>2, <2>3
<1> QED
  BY <1>4, <1>5 DEF TheLast, T, new

\* The display and its pins as the scene has them, after n instructions.
Shown(x, n) ==
  /\ \A l \in Lines : latch[l] <=> l \in x.up
  /\ "SPI1" \in x.up => "SPI1" \in on
  /\ \A d \in Display : /\ IsChip(chip[d]) /\ chip[d].pos = x.pos[d]
                        /\ TheLast(chip[d].told, d, n)
  /\ chip[1].zeros = x.zeros
  /\ Shows(chip[1]) => x.zeros = FrameBytes

\* What the loop will show.
ModeInv(x, m) ==
  /\ pc <= m + 36 =>
       displayMode = IF "settings" \in x.up /\ BadCalibration(flash) THEN "calibration"
                     ELSE "normal"
  /\ pc > m + 36 =>
       (displayMode = "normal" <=> "sram" \notin dead /\ ~BadCalibration(flash))

Now(m) == IF pc <= m + 1 THEN pc - 1 ELSE m
AsShown(f, m) == Shown(f[Now(m)], pc - 1) /\ ModeInv(f[Now(m)], m)
SceneInv(f, m) == pc > 53 => AsShown(f, m)

LEMMA NoneTold ==
  ASSUME NEW k \in Nat, NEW m \in Nat, ProgramShape(k, m), NEW d
  PROVE  TheLast(<< >>, d, 52)
<1>1. ASSUME NEW i \in 1 .. 52 PROVE ~Tells(d, i)
  <2>1. i \in 1 .. m + 38 /\ 52 <= k /\ k + 6 <= m
    <3>1. 52 <= k /\ k + 6 <= m
      BY DEF ProgramShape
    <3> QED
      BY <3>1
  <2>2. Place(k, m, i, Program[i].op, Program[i].arg)
    BY <2>1, Placed
  <2>3. Program[i].op # "send"
    BY <2>1, <2>2 DEF Place, PlaceInClocks, PlaceInDevices, PlaceInDark,
       PlaceInLighting, PlaceInLight, PlaceAtCodec
  <2> QED
    BY <2>3 DEF Tells
<1>2. Tellings(d, 52) = {}
  BY <1>1 DEF Tellings, Tells
<1> QED
  BY <1>2 DEF TheLast

\* The first scene is what the beginning of the program has made.
LEMMA SceneBegins ==
  ASSUME NEW k \in Nat, NEW m \in Nat, ProgramShape(k, m), NEW f, f[52] = At(Begun, 0),
         pc = 53, DarkInv
  PROVE  AsShown(f, m)
<1>1. 52 <= k /\ k + 6 <= m
  BY DEF ProgramShape
<1>2. PICK x : x = At(Begun, 0)
  OBVIOUS
<1>3. f[Now(m)] = x /\ pc - 1 = 52
  BY <1>1, <1>2 DEF Now
<1>4. x.up = Begun /\ x.zeros = 0 /\ \A d \in Display : x.pos[d] = 0
  <2>1. Begun \in SUBSET Ready
    BY ScenesAre
  <2>2. /\ At(Begun, 0).up = Begun /\ At(Begun, 0).zeros = 0
        /\ \A d \in Display : At(Begun, 0).pos[d] = 0
    BY <2>1, 0 \in Nat, AtIs
  <2> QED
    BY <1>2, <2>2
<1>5. latch["cs1"] /\ latch["cs2"] /\ ~latch["dc1"] /\ ~latch["dc2"] /\ "SPI1" \in on
  BY DEF DarkInv
<1>6. chip = [d \in Display |-> ChipReset] /\ displayMode = "normal"
  BY DEF DarkInv
<1>7. \A d \in Display : chip[d] = ChipReset
  BY <1>6
<1>8. \A l \in Lines : latch[l] <=> l \in x.up
  BY <1>4, <1>5 DEF Lines, Begun
<1>9. ASSUME NEW d \in Display
      PROVE  /\ IsChip(chip[d]) /\ chip[d].pos = x.pos[d]
             /\ TheLast(chip[d].told, d, 52)
  <2>1. ChipReset.pos = 0 /\ ChipReset.told = << >>
    BY DEF ChipReset
  <2> QED
    BY <1>4, <1>7, <2>1, NoneTold, ResetIsChip
<1>10. chip[1].zeros = 0 /\ ~Shows(chip[1])
  BY <1>7, ResetIsChip DEF ChipReset, Display
<1>11. Shown(x, 52)
  BY <1>4, <1>5, <1>8, <1>9, <1>10 DEF Shown
<1>12. ModeInv(x, m)
  BY <1>1, <1>4, <1>6 DEF ModeInv, Begun
<1> QED
  BY <1>3, <1>11, <1>12 DEF AsShown

LEMMA SentIs ==
  ASSUME NEW i \in 1 .. Len(Program), Program \in Seq(Instruction), Program[i].op = "send"
  PROVE  Program[i].arg[1] \in SUBSET Display /\ Program[i].arg[2] \in BytesSent
<1>1. Program[i] \in Instruction
  OBVIOUS
<1>2. Program[i].arg \in (SUBSET Display) \X BytesSent
  BY <1>1 DEF Instruction, Clocking, Porting, Switching, Timing, Delaying, Moving, Telling,
              Packing, Testing
<1> QED
  BY <1>2

\* A display is told to be on by one byte alone.
LEMMA BytesThatLight ==
  \A b \in BytesSent : b[1] = "on" => b = <<"on", TRUE>> \/ b[2] = FALSE
<1>1. ASSUME NEW i \in 1 .. 18
      PROVE  ExternalSettings[i][1] = "on" => \/ ExternalSettings[i] = <<"on", TRUE>>
                                              \/ ExternalSettings[i][2] = FALSE
  <2>1. ExternalSettings[1][2] = FALSE /\ ExternalSettings[18] = <<"on", TRUE>>
    BY DEF ExternalSettings
  <2>2. /\ ExternalSettings[2][1] # "on" /\ ExternalSettings[3][1] # "on"
        /\ ExternalSettings[4][1] # "on" /\ ExternalSettings[5][1] # "on"
        /\ ExternalSettings[6][1] # "on" /\ ExternalSettings[7][1] # "on"
        /\ ExternalSettings[8][1] # "on" /\ ExternalSettings[9][1] # "on"
        /\ ExternalSettings[10][1] # "on" /\ ExternalSettings[11][1] # "on"
        /\ ExternalSettings[12][1] # "on" /\ ExternalSettings[13][1] # "on"
        /\ ExternalSettings[14][1] # "on" /\ ExternalSettings[15][1] # "on"
        /\ ExternalSettings[16][1] # "on" /\ ExternalSettings[17][1] # "on"
    BY DEF ExternalSettings
  <2>3. \/ i = 1 \/ i = 2 \/ i = 3 \/ i = 4 \/ i = 5 \/ i = 6 \/ i = 7 \/ i = 8 \/ i = 9
        \/ i = 10 \/ i = 11 \/ i = 12 \/ i = 13 \/ i = 14 \/ i = 15 \/ i = 16 \/ i = 17
        \/ i = 18
    OBVIOUS
  <2>4. i = 1 \/ i = 18 \/ ExternalSettings[i][1] # "on"
    BY <2>2, <2>3
  <2> QED
    BY <2>1, <2>4
<1>2. <<"contrast", 128>>[1] # "on"
  OBVIOUS
<1> QED
  BY <1>1, <1>2, DarkBytes DEF BytesSent

\* What a display makes of a byte when its pins are as the scene has them.
Wired(x) ==
  /\ \A l \in Lines : latch[l] <=> l \in x.up
  /\ "SPI1" \in x.up => "SPI1" \in on
  /\ "SPI5" \in on /\ DisplayPins \subseteq driven /\ latch["reset1"] /\ latch["reset2"]

LEMMA HeardAsMeant ==
  ASSUME NEW x, NEW d \in Display, NEW b, Wired(x), Listens(x, d), IsChip(chip[d])
  PROVE  /\ IsChip(Heard(d, b))
         /\ DC[d] \in x.up =>
              /\ Heard(d, b).told = chip[d].told
              /\ Heard(d, b).pos = (chip[d].pos + 1) % FrameBytes
              /\ Heard(d, b).zeros = IF b = Zero /\ chip[d].zeros < FrameBytes
                                     THEN chip[d].zeros + 1 ELSE chip[d].zeros
         /\ DC[d] \notin x.up =>
              /\ Heard(d, b).told = With(chip[d].told, b[1], b[2])
              /\ Heard(d, b).pos = chip[d].pos /\ Heard(d, b).zeros = chip[d].zeros
<1>1. d = 1 \/ d = 2
  BY DEF Display
<1>2. /\ CS[d] \in Lines /\ DC[d] \in Lines
      /\ CS[d] \in DisplayPins /\ DC[d] \in DisplayPins /\ Reset[d] \in DisplayPins
  BY <1>1 DEF CS, DC, Reset, Lines, DisplayPins
<1>3. SPI[d] \in on
  BY <1>1 DEF SPI, Wired, Listens
<1>4. High(Reset[d])
  BY <1>1, <1>2 DEF High, Wired, Reset
<1>5. Low(CS[d])
  BY <1>2 DEF Low, Wired, Listens
<1>6. High(DC[d]) <=> DC[d] \in x.up
  BY <1>2 DEF High, Wired
<1>7. PICK t, p, z : chip[d] = [told |-> t, pos |-> p, zeros |-> z]
  BY DEF IsChip
<1>8. ASSUME DC[d] \in x.up
      PROVE  Heard(d, b) = [told |-> t, pos |-> (p + 1) % FrameBytes,
                            zeros |-> IF b = Zero /\ z < FrameBytes THEN z + 1 ELSE z]
  <2>1. PICK c : c = chip[d]
    OBVIOUS
  <2>2. Heard(d, b) = [c EXCEPT !.pos = (@ + 1) % FrameBytes,
                                !.zeros = IF b = Zero /\ @ < FrameBytes
                                          THEN @ + 1 ELSE @]
    BY <1>3, <1>4, <1>5, <1>6, <1>8, <2>1 DEF Heard
  <2>3. /\ c = [told |-> t, pos |-> p, zeros |-> z]
        /\ c.pos = p /\ c.zeros = z
    BY <1>7, <2>1
  <2>4. PICK q, y : q = (p + 1) % FrameBytes
                    /\ y = IF b = Zero /\ z < FrameBytes THEN z + 1 ELSE z
    OBVIOUS
  <2>5. Heard(d, b) = [c EXCEPT !.pos = q, !.zeros = y]
    BY <2>2, <2>3, <2>4
  <2>6. [c EXCEPT !.pos = q, !.zeros = y] = [told |-> t, pos |-> q, zeros |-> y]
    <3>1. [c EXCEPT !.pos = q, !.zeros = y] = [[c EXCEPT !.pos = q] EXCEPT !.zeros = y]
      OBVIOUS
    <3>2. PICK e : e = [c EXCEPT !.pos = q]
      OBVIOUS
    <3>3. e = [told |-> t, pos |-> q, zeros |-> z]
      BY <2>3, <3>2
    <3>4. [e EXCEPT !.zeros = y] = [told |-> t, pos |-> q, zeros |-> y]
      BY <3>3
    <3> QED
      BY <3>1, <3>2, <3>4
  <2> QED
    BY <2>4, <2>5, <2>6
<1>9. ASSUME DC[d] \notin x.up
      PROVE  Heard(d, b) = [told |-> With(t, b[1], b[2]), pos |-> p, zeros |-> z]
  BY <1>3, <1>4, <1>5, <1>6, <1>7, <1>9 DEF Heard
<1>10. chip[d].told = t /\ chip[d].pos = p /\ chip[d].zeros = z
  BY <1>7
<1>11. CASE DC[d] \in x.up
  BY <1>8, <1>10, <1>11 DEF IsChip
<1>12. CASE DC[d] \notin x.up
  BY <1>9, <1>10, <1>12 DEF IsChip
<1> QED
  BY <1>11, <1>12

LEMMA SendShown ==
  ASSUME NEW n \in Nat, NEW x \in Scene, NEW y, Program \in Seq(Instruction),
         n + 1 \in 1 .. Len(Program), Program[n + 1].op = "send",
         Goes(x, "send", Program[n + 1].arg, y), Wired(x), Shown(x, n),
         chip' = [d \in Display |-> IF d \in Program[n + 1].arg[1]
                                    THEN Heard(d, Program[n + 1].arg[2]) ELSE chip[d]],
         UNCHANGED <<latch, on>>
  PROVE  Shown(y, n + 1)'
<1> DEFINE ds == Program[n + 1].arg[1]
           b == Program[n + 1].arg[2]
<1>1. ds \in SUBSET Display /\ b \in BytesSent
  BY SentIs
<1>2. \A d \in Display : Tells(d, n + 1) <=> d \in ds /\ b # Zero
  BY DEF Tells
<1>3. /\ \A d \in ds : Listens(x, d)
      /\ Lights(Program[n + 1].arg) => x.zeros = FrameBytes
      /\ \/ b = Zero /\ (\A d \in ds : DC[d] \in x.up) /\ y = Filled(x, ds)
         \/ b # Zero /\ (\A d \in ds : DC[d] \notin x.up) /\ y = x
  BY DEF Goes
<1>4. Lights(Program[n + 1].arg) <=> 1 \in ds /\ b = <<"on", TRUE>>
  BY DEF Lights
<1>5. /\ Setting(n + 1) = b[1]
  BY DEF Setting
<1>6. /\ \A l \in Lines : latch[l] <=> l \in x.up
      /\ "SPI1" \in x.up => "SPI1" \in on
      /\ \A d \in Display : /\ IsChip(chip[d]) /\ chip[d].pos = x.pos[d]
                            /\ TheLast(chip[d].told, d, n)
      /\ chip[1].zeros = x.zeros
      /\ Shows(chip[1]) => x.zeros = FrameBytes
  BY DEF Shown
<1>7. PICK c, h :
        /\ c = chip /\ h = chip'
        /\ \A d \in Display : /\ d \in ds => h[d] = Heard(d, b)
                             /\ d \notin ds => h[d] = c[d]
  OBVIOUS
<1>8. /\ \A d \in Display : /\ IsChip(c[d]) /\ c[d].pos = x.pos[d]
                            /\ TheLast(c[d].told, d, n)
      /\ c[1].zeros = x.zeros
      /\ Shows(c[1]) => x.zeros = FrameBytes
  BY <1>6, <1>7
<1>9. ASSUME NEW d \in Display, d \in ds
       PROVE  /\ IsChip(h[d])
              /\ DC[d] \in x.up =>
                   /\ h[d].told = c[d].told
                   /\ h[d].pos = (c[d].pos + 1) % FrameBytes
                   /\ h[d].zeros = IF b = Zero /\ c[d].zeros < FrameBytes
                                   THEN c[d].zeros + 1 ELSE c[d].zeros
              /\ DC[d] \notin x.up =>
                   /\ h[d].told = With(c[d].told, b[1], b[2])
                   /\ h[d].pos = c[d].pos /\ h[d].zeros = c[d].zeros
  <2>1. Listens(x, d) /\ IsChip(chip[d])
    BY <1>3, <1>6, <1>9
  <2> QED
    BY <1>7, <1>9, <2>1, HeardAsMeant
<1> HIDE DEF ds, b
<1>10. 1 \in Display
  BY DEF Display
<1>11. /\ latch' = latch /\ on' = on
  OBVIOUS
<1>12. ASSUME y.up = x.up, h[1].zeros = y.zeros, Shows(h[1]) => y.zeros = FrameBytes,
              \A d \in Display : /\ IsChip(h[d]) /\ h[d].pos = y.pos[d]
                                /\ TheLast(h[d].told, d, n + 1)
       PROVE  Shown(y, n + 1)'
  BY <1>6, <1>7, <1>11, <1>12 DEF Shown
<1>13. CASE b = Zero
  <2>1. y = Filled(x, ds) /\ \A d \in ds : DC[d] \in x.up
    BY <1>3, <1>13
  <2>2. /\ y.up = x.up
        /\ \A d \in Display :
             y.pos[d] = IF d \in ds THEN (x.pos[d] + 1) % FrameBytes ELSE x.pos[d]
        /\ y.zeros = IF 1 \in ds /\ x.zeros < FrameBytes THEN x.zeros + 1 ELSE x.zeros
    BY <2>1 DEF Filled
  <2>3. ASSUME NEW d \in Display
        PROVE  IsChip(h[d]) /\ h[d].told = c[d].told /\ h[d].pos = y.pos[d]
    <3>1. CASE d \in ds
      BY <1>8, <1>9, <2>1, <2>2, <3>1
    <3>2. CASE d \notin ds
      BY <1>7, <1>8, <2>2, <3>2
    <3> QED
      BY <3>1, <3>2
  <2>4. h[1].zeros = y.zeros
    <3>1. CASE 1 \in ds
      BY <1>8, <1>13, <1>9, <1>10, <2>1, <2>2, <3>1
    <3>2. CASE 1 \notin ds
      BY <1>7, <1>8, <1>10, <2>2, <3>2
    <3> QED
      BY <3>1, <3>2
  <2>5. ASSUME NEW d \in Display PROVE TheLast(h[d].told, d, n + 1)
    BY <1>2, <1>8, <1>13, <2>3, NothingTold
  <2>6. Shows(h[1]) => y.zeros = FrameBytes
    <3>1. h[1].told = c[1].told
      BY <1>10, <2>3
    <3>2. FrameBytes \in Nat
      BY StartUpAssumption
    <3> QED
      BY <1>8, <2>2, <3>1, <3>2 DEF Shows
  <2> QED
    BY <1>12, <2>2, <2>3, <2>4, <2>5, <2>6
<1>14. CASE b # Zero
  <2>1. y = x /\ \A d \in ds : DC[d] \notin x.up
    BY <1>3, <1>14
  <2>2. ASSUME NEW d \in Display
        PROVE  IsChip(h[d]) /\ h[d].pos = y.pos[d] /\ h[d].zeros = c[d].zeros
    <3>1. CASE d \in ds
      BY <1>8, <1>9, <2>1, <3>1
    <3>2. CASE d \notin ds
      BY <1>7, <1>8, <2>1, <3>2
    <3> QED
      BY <3>1, <3>2
  <2>3. ASSUME NEW d \in Display PROVE TheLast(h[d].told, d, n + 1)
    <3>1. CASE d \in ds
      <4>1. TheLast(With(c[d].told, Setting(n + 1), Program[n + 1].arg[2][2]), d, n + 1)
        BY <1>2, <1>8, <1>14, <3>1, OneMoreTold
      <4>2. h[d].told = With(c[d].told, b[1], b[2])
        BY <1>9, <2>1, <3>1
      <4> QED
        BY <1>5, <4>1, <4>2 DEF b
    <3>2. CASE d \notin ds
      BY <1>2, <1>7, <1>8, <3>2, NothingTold
    <3> QED
      BY <3>1, <3>2
  <2>4. Shows(h[1]) => y.zeros = FrameBytes
    <3>1. CASE 1 \notin ds
      BY <1>7, <1>8, <1>10, <2>1, <3>1
    <3>2. CASE 1 \in ds /\ b = <<"on", TRUE>>
      BY <1>3, <1>4, <2>1, <3>2
    <3>3. CASE 1 \in ds /\ b # <<"on", TRUE>>
      <4>1. b[1] = "on" => b[2] = FALSE
        BY <1>1, <3>3, BytesThatLight
      <4>2. h[1].told = With(c[1].told, b[1], b[2])
        BY <1>9, <1>10, <2>1, <3>3
      <4>3. Shows(h[1]) => Shows(c[1])
        BY <4>1, <4>2 DEF Shows, With
      <4> QED
        BY <1>8, <2>1, <4>3
    <3> QED
      BY <3>1, <3>2, <3>3
  <2>5. h[1].zeros = y.zeros
    BY <1>8, <1>10, <2>1, <2>2
  <2> QED
    BY <1>12, <2>1, <2>2, <2>3, <2>4, <2>5
<1> QED
  BY <1>13, <1>14

LEMMA ShownOn ==
  ASSUME NEW n \in Nat, NEW x, NEW y, Shown(x, n), Program[n + 1].op # "send",
         \A d \in Display : chip'[d] = chip[d],
         \A l \in Lines : latch'[l] <=> l \in y.up,
         "SPI1" \in y.up => "SPI1" \in on',
         y.pos = x.pos, y.zeros = x.zeros
  PROVE  Shown(y, n + 1)'
<1>1. PICK c, h : c = chip /\ h = chip' /\ (\A d \in Display : h[d] = c[d]) /\ 1 \in Display
  BY DEF Display
<1>2. /\ \A d \in Display : /\ IsChip(c[d]) /\ c[d].pos = x.pos[d]
                            /\ TheLast(c[d].told, d, n)
      /\ c[1].zeros = x.zeros
      /\ Shows(c[1]) => x.zeros = FrameBytes
  BY <1>1 DEF Shown
<1>3. \A d : ~Tells(d, n + 1)
  BY DEF Tells
<1>4. \A d \in Display : TheLast(h[d].told, d, n + 1)
  BY <1>1, <1>2, <1>3, NothingTold
<1>5. /\ \A d \in Display : IsChip(h[d]) /\ h[d].pos = y.pos[d]
      /\ h[1].zeros = y.zeros
      /\ Shows(h[1]) => y.zeros = FrameBytes
  BY <1>1, <1>2
<1> QED
  BY <1>1, <1>4, <1>5 DEF Shown

LEMMA PinShown ==
  ASSUME NEW n \in Nat, NEW x, NEW y, NEW p, NEW v \in BOOLEAN,
         Shown(x, n), Wired(x), Program[n + 1].op # "send",
         latch \in [Pin -> BOOLEAN], p \notin {"reset1", "reset2"},
         PinsBecome([latch EXCEPT ![p] = v], driven, {p}), on' = on,
         \A l \in Lines : /\ l = p => (l \in y.up <=> v)
                          /\ l # p => (l \in y.up <=> l \in x.up),
         "SPI1" \in y.up => "SPI1" \in x.up,
         y.pos = x.pos, y.zeros = x.zeros
  PROVE  Shown(y, n + 1)'
<1>1. PICK l \in [Pin -> BOOLEAN] : l = [latch EXCEPT ![p] = v]
  OBVIOUS
<1>2. /\ latch' = l
      /\ chip' = [d \in Display |->
                    IF Reset[d] \in driven /\ l[Reset[d]] THEN chip[d] ELSE ChipReset]
  BY <1>1 DEF PinsBecome
<1>3. ASSUME NEW q \in Pin
      PROVE  /\ q # p => (l[q] <=> latch[q])
             /\ q = p => (l[q] <=> v)
  <2>1. q \in DOMAIN latch
    OBVIOUS
  <2>2. q # p => (l[q] <=> latch[q])
    BY <1>1, <2>1
  <2>3. q = p => (l[q] <=> v)
    BY <1>1, <2>1
  <2> QED
    BY <2>2, <2>3
<1>4. Lines \subseteq Pin /\ "reset1" \in Pin /\ "reset2" \in Pin
  BY DEF Lines, Pin
<1>5. l["reset1"] /\ l["reset2"] /\ "reset1" \in driven /\ "reset2" \in driven
  BY <1>3, <1>4 DEF Wired, DisplayPins
<1>6. \A d \in Display : Reset[d] \in driven /\ l[Reset[d]]
  BY <1>5 DEF Reset, Display
<1>7. \A d \in Display : chip'[d] = chip[d]
  BY <1>2, <1>6, Zenon
<1>8. \A q \in Lines : latch'[q] <=> q \in y.up
  <2> SUFFICES ASSUME NEW q \in Lines PROVE l[q] <=> q \in y.up
    BY <1>2
  <2>1. q \in Pin /\ (latch[q] <=> q \in x.up)
    BY <1>4 DEF Shown
  <2> QED
    BY <1>3, <2>1
<1>9. "SPI1" \in y.up => "SPI1" \in on'
  BY DEF Shown
<1> QED
  BY <1>7, <1>8, <1>9, ShownOn

\* How the scene goes on with the program.
LEMMA SceneMoves ==
  ASSUME NEW k \in Nat, NEW m \in Nat, ProgramShape(k, m), NEW f,
         Story(Program, f, 52, m), pc \in 53 .. m + 39, NEW op, Executes(op)
  PROVE  /\ f[Now(m)] \in Scene /\ pc' = pc + 1 /\ pc \in 53 .. m + 38
         /\ Program[pc].op = op /\ Arg = Program[pc].arg
         /\ \/ pc <= m /\ Goes(f[Now(m)], op, Arg, f[Now(m)'])
            \/ /\ pc > m /\ f[Now(m)'] = f[Now(m)] /\ f[Now(m)] = f[m]
               /\ PlaceAtCodec(m, pc, op, Arg)
<1>1. /\ pc \in 1 .. m + 38 /\ pc' = pc + 1 /\ Program[pc].op = op
      /\ Place(k, m, pc, op, Arg) /\ 52 <= k /\ k + 6 <= m
  BY ExecutedAt
<1>2. Now(m) \in 52 .. m
  BY <1>1 DEF Now
<1>3. f[Now(m)] \in Scene
  BY <1>2 DEF Story
<1>4. CASE pc <= m
  <2>1. Now(m) = pc - 1 /\ Now(m)' = pc
    BY <1>1, <1>4 DEF Now
  <2>2. Goes(f[pc - 1], Program[pc].op, Program[pc].arg, f[pc])
    BY <1>4 DEF Story
  <2> QED
    BY <1>1, <1>3, <1>4, <2>1, <2>2 DEF Arg
<1>5. CASE pc > m
  <2>1. Now(m) = m /\ Now(m)' = m
    BY <1>1, <1>5 DEF Now
  <2>2. PlaceAtCodec(m, pc, op, Arg)
    BY <1>1, <1>5 DEF Place
  <2> QED
    BY <1>1, <1>3, <1>5, <2>1, <2>2 DEF Arg
<1> QED
  BY <1>1, <1>4, <1>5

LEMMA SceneStep ==
  ASSUME NEW k \in Nat, NEW m \in Nat, ProgramShape(k, m), NEW f,
         Story(Program, f, 52, m), f[52] = At(Begun, 0), f[m] = At(Ended, FrameBytes),
         pc \in 1 .. m + 39, TimeInv(k, m), DarkInv, SceneInv(f, m), [Next]_vars
  PROVE  SceneInv(f, m)'
<1>0. 52 <= k /\ k + 6 <= m
  BY DEF ProgramShape
<1>1. CASE pc' = pc /\ UNCHANGED <<latch, on, chip, displayMode, flash, dead>>
  BY <1>1 DEF SceneInv, AsShown, Shown, ModeInv, Now
<1>2. CASE pc <= 52 /\ pc' = pc + 1
  BY <1>2 DEF SceneInv
<1>3. ASSUME pc >= 53 PROVE AsShown(f, m)
  BY <1>3, SceneBegins DEF SceneInv
<1>4. ASSUME NEW op, Executes(op), pc >= 53,
             \A n \in Nat, x \in Scene : \A y :
               /\ n = pc - 1 /\ Program[n + 1].op = op /\ Arg = Program[n + 1].arg
               /\ x = f[Now(m)] /\ y = f[Now(m)'] /\ Shown(x, n) /\ Wired(x)
               /\ ModeInv(x, m) /\ pc' = pc + 1
               /\ \/ pc <= m /\ Goes(x, op, Arg, y)
                  \/ pc > m /\ y = x /\ x = f[m] /\ PlaceAtCodec(m, pc, op, Arg)
               => Shown(y, n + 1)' /\ ModeInv(y, m)'
      PROVE  SceneInv(f, m)'
  <2>1. /\ f[Now(m)] \in Scene /\ pc' = pc + 1 /\ pc \in 53 .. m + 38
        /\ Program[pc].op = op /\ Arg = Program[pc].arg
        /\ \/ pc <= m /\ Goes(f[Now(m)], op, Arg, f[Now(m)'])
           \/ /\ pc > m /\ f[Now(m)'] = f[Now(m)] /\ f[Now(m)] = f[m]
              /\ PlaceAtCodec(m, pc, op, Arg)
    BY <1>4, SceneMoves
  <2>2. PICK n \in Nat, x \in Scene : n = pc - 1 /\ x = f[Now(m)]
    BY <2>1
  <2>3. PICK y : y = f[Now(m)']
    OBVIOUS
  <2>4. n + 1 = pc /\ n + 1 = pc' - 1
    BY <2>1, <2>2
  <2>5. Shown(x, n) /\ ModeInv(x, m)
    BY <1>3, <1>4, <2>2 DEF AsShown
  <2>6. Wired(x)
    BY <1>4, <2>5 DEF Wired, Shown, DarkInv
  <2>7. Shown(y, n + 1)' /\ ModeInv(y, m)'
    BY <1>4, <2>1, <2>2, <2>3, <2>4, <2>5, <2>6
  <2>8. Shown(f[Now(m)], pc - 1)' /\ ModeInv(f[Now(m)], m)'
    BY <2>3, <2>4, <2>7 DEF Shown, ModeInv
  <2> QED
    BY <2>8 DEF SceneInv, AsShown
<1> DEFINE Other == {"await", "on", "unlock", "lock", "divide", "source", "multiply",
                     "waitStates", "timer3", "start", "byte", "stop", "latch", "drive"}
\* What the loop will show does not depend on the rest.
<1>5. ASSUME NEW op, NEW x, NEW y, Executes(op), op \notin {"readCalibration", "sramTest"},
             ModeInv(x, m), pc >= 53, pc' = pc + 1, UNCHANGED <<displayMode, flash, dead>>,
             \/ pc <= m /\ Goes(x, op, Arg, y)
             \/ pc > m /\ y = x /\ PlaceAtCodec(m, pc, op, Arg)
      PROVE  ModeInv(y, m)'
  <2>1. "settings" \in y.up <=> "settings" \in x.up
    BY <1>5 DEF Goes, Raise, Lower, Filled, Lines
  <2>2. pc # m + 36
    BY <1>0, <1>5 DEF PlaceAtCodec
  <2> QED
    BY <1>5, <2>1, <2>2 DEF ModeInv
<1>6. ASSUME NEW op \in Other, Executes(op), pc >= 53,
             UNCHANGED <<latch, chip, displayMode, flash, dead>>, on \ {"SPI1"} \subseteq on',
             "SPI1" \in on => "SPI1" \in on'
      PROVE  SceneInv(f, m)'
  <2> SUFFICES ASSUME NEW n \in Nat, NEW x \in Scene, NEW y, Program[n + 1].op = op,
                      Shown(x, n), ModeInv(x, m), pc' = pc + 1,
                      \/ pc <= m /\ Goes(x, op, Arg, y)
                      \/ pc > m /\ y = x /\ PlaceAtCodec(m, pc, op, Arg)
               PROVE  Shown(y, n + 1)' /\ ModeInv(y, m)'
    BY <1>4, <1>6
  <2>1. y = x
    BY <1>6 DEF Goes
  <2>2. Shown(y, n + 1)'
    BY <1>6, <2>1, ShownOn DEF Shown
  <2> QED
    BY <1>5, <1>6, <2>2
<1>7. ASSUME Executes("off"), on' = on \ {Arg}, pc >= 53,
             UNCHANGED <<latch, chip, displayMode, flash, dead>>
      PROVE  SceneInv(f, m)'
  <2> SUFFICES ASSUME NEW n \in Nat, NEW x \in Scene, NEW y, Program[n + 1].op = "off",
                      Shown(x, n), ModeInv(x, m), pc' = pc + 1,
                      \/ pc <= m /\ Goes(x, "off", Arg, y)
                      \/ pc > m /\ y = x /\ PlaceAtCodec(m, pc, "off", Arg)
               PROVE  Shown(y, n + 1)' /\ ModeInv(y, m)'
    BY <1>4, <1>7
  <2>1. \/ Arg = "SPI1" /\ y = Lower(x, "SPI1")
        \/ Arg = "I2C2" /\ y = x
    BY DEF Goes, PlaceAtCodec
  <2>2. /\ y.pos = x.pos /\ y.zeros = x.zeros
        /\ \A l \in Lines : l \in y.up <=> l \in x.up
        /\ "SPI1" \in y.up => "SPI1" \in x.up /\ Arg # "SPI1"
    BY <2>1 DEF Lower, Lines
  <2>3. Shown(y, n + 1)'
    BY <1>7, <2>2, ShownOn DEF Shown
  <2> QED
    BY <1>5, <1>7, <2>3
<1>8. CASE Send /\ pc >= 53
  <2>1. Executes("send") /\ UNCHANGED <<latch, on, displayMode, flash, dead>>
        /\ chip' = [d \in Display |-> IF d \in Arg[1] THEN Heard(d, Arg[2]) ELSE chip[d]]
    BY <1>8 DEF Send, pins, calibration, environment
  <2> SUFFICES ASSUME NEW n \in Nat, NEW x \in Scene, NEW y, n = pc - 1,
                      Program[n + 1].op = "send", Arg = Program[n + 1].arg,
                      Shown(x, n), Wired(x), ModeInv(x, m), pc' = pc + 1,
                      \/ pc <= m /\ Goes(x, "send", Arg, y)
                      \/ pc > m /\ y = x /\ PlaceAtCodec(m, pc, "send", Arg)
               PROVE  Shown(y, n + 1)' /\ ModeInv(y, m)'
    BY <1>4, <1>8, <2>1
  <2>2. pc <= m /\ Goes(x, "send", Arg, y)
    BY DEF PlaceAtCodec
  <2>3. Program \in Seq(Instruction) /\ n + 1 \in 1 .. Len(Program)
    <3>1. pc \in 1 .. m + 38
      BY <1>8, <2>2
    <3> QED
      BY <3>1 DEF ProgramShape
  <2>4. Shown(y, n + 1)'
    BY <2>1, <2>2, <2>3, SendShown
  <2> QED
    BY <1>5, <1>8, <2>1, <2>2, <2>4
<1>9. ASSUME NEW op \in {"set", "clear"}, NEW v \in BOOLEAN, Executes(op), pc >= 53,
             op = "set" => v = TRUE, op = "clear" => v = FALSE,
             PinsBecome([latch EXCEPT ![Arg] = v], driven, {Arg}),
             UNCHANGED <<on, displayMode, flash, dead>>
      PROVE  SceneInv(f, m)'
  <2> SUFFICES ASSUME NEW n \in Nat, NEW x \in Scene, NEW y, Program[n + 1].op = op,
                      Shown(x, n), Wired(x), ModeInv(x, m), pc' = pc + 1,
                      \/ pc <= m /\ Goes(x, op, Arg, y)
                      \/ pc > m /\ y = x /\ PlaceAtCodec(m, pc, op, Arg)
               PROVE  Shown(y, n + 1)' /\ ModeInv(y, m)'
    BY <1>4, <1>9
  <2>1. \/ op = "set" /\ Arg \in Lines /\ y = Raise(x, Arg)
        \/ op = "clear" /\ Arg \in Lines \cup {"power"} /\ y = Lower(x, Arg)
        \/ Arg = "codec" /\ y = x
    BY DEF Goes, PlaceAtCodec
  <2>2. Arg \notin {"reset1", "reset2", "SPI1"} /\ y.pos = x.pos /\ y.zeros = x.zeros
        /\ ("SPI1" \in y.up => "SPI1" \in x.up)
    BY <2>1 DEF Lines, Raise, Lower
  <2>3. \A l \in Lines : /\ l = Arg => (l \in y.up <=> v)
                         /\ l # Arg => (l \in y.up <=> l \in x.up)
    BY <1>9, <2>1 DEF Lines, Raise, Lower
  <2>4. latch \in [Pin -> BOOLEAN] /\ Arg \notin {"reset1", "reset2"}
        /\ Program[n + 1].op # "send" /\ on' = on
    BY <1>9, <2>2 DEF TimeInv
  <2>5. Shown(y, n + 1)'
    BY <1>9, <2>2, <2>3, <2>4, PinShown
  <2> QED
    BY <1>5, <1>9, <2>5
<1>10. CASE ReadCalibrationFromSettings /\ pc >= 53
  <2>1. /\ Executes("readCalibration") /\ UNCHANGED <<latch, on, chip, dead>>
        /\ displayMode' = IF BadCalibration(flash') THEN "calibration" ELSE displayMode
    BY <1>10 DEF ReadCalibrationFromSettings, pins, environment
  <2> SUFFICES ASSUME NEW n \in Nat, NEW x \in Scene, NEW y,
                      Program[n + 1].op = "readCalibration",
                      Shown(x, n), ModeInv(x, m), pc' = pc + 1,
                      \/ pc <= m /\ Goes(x, "readCalibration", Arg, y)
                      \/ pc > m /\ y = x /\ PlaceAtCodec(m, pc, "readCalibration", Arg)
               PROVE  Shown(y, n + 1)' /\ ModeInv(y, m)'
    BY <1>4, <1>10, <2>1
  <2>2. pc <= m /\ "settings" \notin x.up /\ y = Raise(x, "settings")
    BY DEF Goes, PlaceAtCodec
  <2>3. /\ y.pos = x.pos /\ y.zeros = x.zeros /\ "settings" \in y.up
        /\ \A l \in Lines : l \in y.up <=> l \in x.up
        /\ "SPI1" \in y.up => "SPI1" \in x.up
    BY <2>2 DEF Raise, Lines
  <2>4. Shown(y, n + 1)'
    BY <2>1, <2>3, ShownOn DEF Shown
  <2>5. displayMode = "normal"
    BY <2>2 DEF ModeInv
  <2>6. ModeInv(y, m)'
    BY <2>1, <2>2, <2>3, <2>5 DEF ModeInv
  <2> QED
    BY <2>4, <2>6
<1>11. CASE QuickSRAMtest /\ pc >= 53
  <2>1. /\ Executes("sramTest") /\ UNCHANGED <<latch, on, chip, flash, dead>>
        /\ displayMode' = IF "EBI" \in on /\ "sram" \notin dead THEN displayMode
                          ELSE "restart"
    BY <1>11 DEF QuickSRAMtest, pins, environment
  <2> SUFFICES ASSUME NEW n \in Nat, NEW x \in Scene, NEW y,
                      Program[n + 1].op = "sramTest",
                      Shown(x, n), ModeInv(x, m), pc' = pc + 1,
                      \/ pc <= m /\ Goes(x, "sramTest", Arg, y)
                      \/ /\ pc > m /\ y = x /\ x = f[m]
                         /\ PlaceAtCodec(m, pc, "sramTest", Arg)
               PROVE  Shown(y, n + 1)' /\ ModeInv(y, m)'
    BY <1>4, <1>11, <2>1
  <2>2. pc = m + 36 /\ y = x /\ x = At(Ended, FrameBytes)
    BY DEF Goes, PlaceAtCodec
  <2>3. "settings" \in x.up
    <3>1. Ended \in SUBSET Ready /\ FrameBytes \in Nat
      BY ScenesAre
    <3>2. At(Ended, FrameBytes).up = Ended
      BY <3>1, AtIs
    <3> QED
      BY <2>2, <3>2 DEF Ended
  <2>4. "EBI" \in on
    BY <1>11 DEF DarkInv
  <2>5. Shown(y, n + 1)'
    BY <2>1, <2>2, ShownOn DEF Shown
  <2>6. ModeInv(y, m)'
    BY <2>1, <2>2, <2>3, <2>4 DEF ModeInv
  <2> QED
    BY <2>5, <2>6
<1>12. ASSUME NEW op, Executes(op) PROVE pc' = pc + 1
  BY <1>12 DEF Executes
<1>13. CASE Switch
  <2>1. UNCHANGED <<latch, chip, displayMode, flash, dead>>
    BY <1>13 DEF Switch, pins, calibration, environment
  <2>2. CASE Executes("on") /\ on' = on \cup {Arg}
    BY <1>2, <1>6, <1>12, <2>1, <2>2
  <2>3. CASE Executes("off") /\ on' = on \ {Arg}
    BY <1>2, <1>7, <1>12, <2>1, <2>3
  <2> QED
    BY <1>13, <2>2, <2>3 DEF Switch
<1>14. CASE Ports
  <2>1. UNCHANGED <<on, displayMode, flash, dead>>
    BY <1>14 DEF Ports, calibration, environment
  <2>2. CASE pc <= 52
    <3>1. PICK op : Executes(op)
      BY <1>14 DEF Ports
    <3> QED
      BY <1>2, <1>12, <2>2, <3>1
  <2>3. ASSUME NEW op \in {"latch", "drive"}, Executes(op) PROVE pc <= 52
    <3>1. Place(k, m, pc, op, Arg)
      BY <2>3, ExecutedAt
    <3> QED
      BY <1>0, <2>3, <3>1 DEF Place, PlaceInClocks, PlaceInDevices, PlaceInDark,
         PlaceInLighting, PlaceInLight, PlaceAtCodec
  <2>4. CASE /\ pc >= 53 /\ Executes("set")
             /\ PinsBecome([latch EXCEPT ![Arg] = TRUE], driven, {Arg})
    BY <1>9, <2>1, <2>4
  <2>5. CASE /\ pc >= 53 /\ Executes("clear")
             /\ PinsBecome([latch EXCEPT ![Arg] = FALSE], driven, {Arg})
    BY <1>9, <2>1, <2>5
  <2> QED
    BY <1>14, <2>2, <2>3, <2>4, <2>5 DEF Ports
<1>15. ASSUME NEW op \in Other, Executes(op),
              UNCHANGED <<latch, on, chip, displayMode, flash, dead>>
       PROVE  SceneInv(f, m)'
  BY <1>2, <1>6, <1>12, <1>15
<1>16. CASE Wait \/ PerformanceConfig \/ ConfigureTimer
  BY <1>15, <1>16 DEF Wait, PerformanceConfig, ConfigureTimer, pins, calibration, environment
<1>17. CASE StartTransfer \/ TransmitOneByte \/ StopTransfer
  BY <1>15, <1>17 DEF StartTransfer, TransmitOneByte, StopTransfer, pins, calibration,
                      environment
<1>18. CASE Oscillator
  <2>1. PICK op \in {"unlock", "lock", "divide", "source", "multiply"} : Executes(op)
    BY <1>18 DEF Oscillator
  <2>2. UNCHANGED <<latch, driven, on, chip, displayMode, flash, dead>>
    BY <1>18 DEF Oscillator, pins, calibration, environment
  <2> QED
    BY <1>15, <2>1, <2>2
<1>19. CASE DelayMs
  <2>1. Executes("delay") /\ UNCHANGED <<latch, on, chip, displayMode, flash, dead>>
    BY <1>19 DEF DelayMs, calibration, environment
  <2>2. CASE pc >= 53
    <3> SUFFICES ASSUME NEW n \in Nat, NEW x \in Scene, NEW y, Program[n + 1].op = "delay",
                        Shown(x, n), ModeInv(x, m), pc' = pc + 1,
                        \/ pc <= m /\ Goes(x, "delay", Arg, y)
                        \/ pc > m /\ y = x /\ PlaceAtCodec(m, pc, "delay", Arg)
                 PROVE  Shown(y, n + 1)' /\ ModeInv(y, m)'
      BY <1>4, <2>1, <2>2
    <3>1. y = x
      BY DEF Goes
    <3>2. Shown(y, n + 1)'
      BY <2>1, <3>1, ShownOn DEF Shown
    <3> QED
      BY <1>5, <2>1, <2>2, <3>2
  <2> QED
    BY <1>2, <1>12, <2>1, <2>2
<1>20. CASE PLLLocks \/ UNCHANGED vars
  BY <1>1, <1>20 DEF PLLLocks, vars, pins, calibration, environment
<1>21. CASE Send \/ ReadCalibrationFromSettings \/ QuickSRAMtest
  <2>1. CASE pc <= 52
    <3>1. PICK op : Executes(op)
      BY <1>21 DEF Send, ReadCalibrationFromSettings, QuickSRAMtest
    <3> QED
      BY <1>2, <1>12, <2>1, <3>1
  <2> QED
    BY <1>8, <1>10, <1>11, <1>21, <2>1
<1> QED
  BY <1>13, <1>14, <1>16, <1>17, <1>18, <1>19, <1>20, <1>21 DEF Next, Step

LEMMA DisplaysSound ==
  ASSUME NEW k \in Nat, NEW m \in Nat, ProgramShape(k, m), NEW f,
         f[52] = At(Begun, 0), f[m] = At(Ended, FrameBytes),
         pc \in 1 .. m + 39, DarkInv, SceneInv(f, m)
  PROVE  DisplaysReady
<1>0. 52 <= k /\ k + 6 <= m /\ Len(Program) = m + 38
  BY DEF ProgramShape
<1>1. ASSUME pc >= 53 PROVE AsShown(f, m)
  BY <1>1, SceneBegins DEF SceneInv
<1>2. ASSUME Lit(1) PROVE chip[1].zeros = FrameBytes
  <2>1. Shows(chip[1])
    BY <1>2 DEF Lit, Shows
  <2>2. CASE pc < 53
    <3>1. chip[1] = ChipReset
      BY <2>2 DEF DarkInv, Display
    <3> QED
      BY <2>1, <3>1, ResetIsChip
  <2>3. CASE pc >= 53
    BY <1>1, <2>1, <2>3 DEF AsShown, Shown
  <2> QED
    BY <2>2, <2>3
<1>3. ASSUME Running
      PROVE  /\ \A d \in Display :
                  /\ HoldsTheLast(d, Len(Program)) /\ chip[d].pos = 0
                  /\ High(CS[d]) /\ High(DC[d])
             /\ displayMode = "normal" <=> "sram" \notin dead /\ ~BadCalibration(flash)
  <2>1. pc = m + 39 /\ pc >= 53 /\ pc - 1 = Len(Program) /\ Now(m) = m
    BY <1>0, <1>3 DEF Running, Now
  <2>2. PICK x : x = f[m] /\ Shown(x, Len(Program)) /\ ModeInv(x, m)
    BY <1>1, <2>1 DEF AsShown
  <2>3. x.up = Ended /\ \A d \in Display : x.pos[d] = 0
    <3>1. Ended \in SUBSET Ready /\ FrameBytes \in Nat
      BY ScenesAre
    <3>2. /\ At(Ended, FrameBytes).up = Ended
          /\ \A d \in Display : At(Ended, FrameBytes).pos[d] = 0
      BY <3>1, AtIs
    <3> QED
      BY <2>2, <3>2
  <2>4. ASSUME NEW d \in Display
        PROVE  /\ HoldsTheLast(d, Len(Program)) /\ chip[d].pos = 0
               /\ High(CS[d]) /\ High(DC[d])
    <3>1. TheLast(chip[d].told, d, Len(Program)) /\ chip[d].pos = 0
      BY <2>2, <2>3 DEF Shown
    <3>2. HoldsTheLast(d, Len(Program))
      BY <3>1 DEF HoldsTheLast, TheLast
    <3>3. {CS[d], DC[d]} \subseteq Lines /\ {CS[d], DC[d]} \subseteq DisplayPins
          /\ {CS[d], DC[d]} \subseteq Ended
      BY DEF Display, CS, DC, Lines, DisplayPins, Ended
    <3>4. latch[CS[d]] /\ latch[DC[d]]
      BY <2>2, <2>3, <3>3 DEF Shown
    <3>5. CS[d] \in driven /\ DC[d] \in driven
      BY <2>1, <3>3 DEF DarkInv
    <3> QED
      BY <3>1, <3>2, <3>4, <3>5 DEF High
  <2>5. displayMode = "normal" <=> "sram" \notin dead /\ ~BadCalibration(flash)
    BY <2>1, <2>2 DEF ModeInv
  <2> QED
    BY <2>4, <2>5
<1> QED
  BY <1>2, <1>3 DEF DisplaysReady

-----------------------------------------------------------------------------
(***************************************************************************)
(* The theorems.                                                           *)
(***************************************************************************)
StartInv(k, m) ==
  pc \in 1 .. m + 39 /\ ClocksInv /\ TimeInv(k, m) /\ OnInv(m) /\ BusInv(m)

LEMMA StartInvInit ==
  ASSUME NEW k \in Nat, NEW m \in Nat, ProgramShape(k, m), Init
  PROVE  StartInv(k, m)
<1>0. 52 <= k /\ k + 6 <= m
  BY DEF ProgramShape
<1>1. pc = 1 /\ pc \in 1 .. m + 39
  BY DEF Init
<1>2. ClocksInv
  <2>1. /\ source = "SPLL" /\ wanted = "SPLL" /\ multiplier = FPLLMULT
        /\ waitStates \in BootWaitStates /\ ecc \in BOOLEAN /\ on = {"DMA"}
    BY DEF Init
  <2>2. unlocked \in BOOLEAN /\ ~unlocked
    <3>1. unlocked = FALSE
      BY SMT DEF Init
    <3> QED
      BY <3>1, Zenon
  <2> QED
    BY <1>1, <2>1, <2>2 DEF ClocksInv, Unlocked
<1>3. TimeInv(k, m)
  <2>1. /\ latch \in [Pin -> BOOLEAN] /\ driven = {} /\ on = {"DMA"}
        /\ age = [power |-> 0, codec |-> 0] /\ chip = [d \in Display |-> ChipReset]
    BY DEF Init
  <2>2. age \in [{"power", "codec"} -> Nat]
    BY <2>1
  <2>3. DOMAIN chip = Display /\ chip[1] = ChipReset
    BY <2>1 DEF Display
  <2> QED
    BY <1>0, <1>1, <2>1, <2>2, <2>3, ResetIsChip DEF TimeInv
<1>4. OnInv(m)
  BY <1>0, <1>1 DEF OnInv
<1>5. BusInv(m)
  <2>0. codec = << >>
    BY DEF Init
  <2>1. codec = << >> /\ halted \in BOOLEAN /\ ~halted
    <3>1. halted = FALSE
      BY SMT DEF Init
    <3> QED
      BY <2>0, <3>1, Zenon
  <2>2. ASSUME NEW n \in 1 .. 6, NEW q \in Nat, q = (m + 3) + (5 * n - 5)
        PROVE  InPacket(n, q)
    <3>1. pc \notin q + 1 .. q + 5
      BY <1>0, <1>1, <2>2
    <3> QED
      BY <3>1 DEF InPacket
  <2> QED
    BY <1>0, <1>1, <2>1, <2>2 DEF BusInv
<1> QED
  BY <1>1, <1>2, <1>3, <1>4, <1>5 DEF StartInv

LEMMA StartInvStep ==
  ASSUME NEW k \in Nat, NEW m \in Nat, ProgramShape(k, m), StartInv(k, m), [Next]_vars
  PROVE  StartInv(k, m)'
<1>1. pc' \in 1 .. m + 39
  <2>1. ASSUME NEW op, Executes(op) PROVE pc' \in 1 .. m + 39
    <3>1. pc \in 1 .. m + 38 /\ pc' = pc + 1
      BY <2>1, ExecutedAt DEF StartInv
    <3> QED
      BY <3>1
  <2>2. CASE pc' = pc
    BY <2>2 DEF StartInv
  <2> QED
    BY <2>1, <2>2
       DEF Next, Step, Wait, Switch, Oscillator, PerformanceConfig, Ports, ConfigureTimer,
           DelayMs, Send, StartTransfer, TransmitOneByte, StopTransfer,
           ReadCalibrationFromSettings, QuickSRAMtest, PLLLocks, vars
<1> QED
  BY <1>1, ClocksStep, TimeStep, OnStep, BusStep DEF StartInv

(***************************************************************************)
(* The flash always has the wait states the processor's clock needs, and   *)
(* what is set up to depend on the buses finds them as system_config.h     *)
(* says, whenever the PLL locks (SYS_CLK_Initialize,                       *)
(* SYS_DEVCON_PerformanceConfig).                                          *)
(***************************************************************************)
THEOREM ClocksMeant == Spec => []ClocksAsMeant
<1>1. PICK k \in Nat, m \in Nat : ProgramShape(k, m)
  BY ProgramCode
<1>2. Init => StartInv(k, m)
  BY <1>1, StartInvInit
<1>3. StartInv(k, m) /\ [Next]_vars => StartInv(k, m)'
  BY <1>1, StartInvStep
<1>4. StartInv(k, m) => ClocksAsMeant
  BY StartUpAssumption, ClocksSound DEF StartInv
<1> QED
  BY <1>2, <1>3, <1>4, PTL DEF Spec

(***************************************************************************)
(* The panel is lit only when its supply has been on for 100 ms, and the   *)
(* codec spoken to only when it has been out of reset for its 3846 cycles, *)
(* by the time delayMs really takes (configureDisplay, CodecOutOfReset).   *)
(***************************************************************************)
THEOREM TimeIsGiven == Spec => []TimeGiven
<1>1. PICK k \in Nat, m \in Nat : ProgramShape(k, m)
  BY ProgramCode
<1>2. Init => StartInv(k, m)
  BY <1>1, StartInvInit
<1>3. StartInv(k, m) /\ [Next]_vars => StartInv(k, m)'
  BY <1>1, StartInvStep
<1>4. StartInv(k, m) => TimeGiven
  BY <1>1, TimeSound DEF StartInv
<1> QED
  BY <1>2, <1>3, <1>4, PTL DEF Spec

(***************************************************************************)
(* When the loop begins the codec has every setting, gives no clock before *)
(* the channels it will drive are there, and when an error has stopped the *)
(* program it is with no packet begun (ConfigureCodec, SendPacket).        *)
(***************************************************************************)
THEOREM CodecMeant == Spec => []CodecAsMeant
<1>1. PICK k \in Nat, m \in Nat : ProgramShape(k, m)
  BY ProgramCode
<1>2. Init => StartInv(k, m)
  BY <1>1, StartInvInit
<1>3. StartInv(k, m) /\ [Next]_vars => StartInv(k, m)'
  BY <1>1, StartInvStep
<1>4. StartInv(k, m) => CodecAsMeant
  BY <1>1, CodecSound DEF StartInv
<1> QED
  BY <1>2, <1>3, <1>4, PTL DEF Spec

(***************************************************************************)
(* The panel is lit only with its memory clear, and when the loop begins   *)
(* both displays have heard all they were told, are at the beginning of a  *)
(* frame and selected no more, and the loop shows the settings unless      *)
(* something was wrong (configureDisplay to setDisplayFlip, APP_Tasks).    *)
(***************************************************************************)
THEOREM DisplaysAreReady == Spec => []DisplaysReady
<1>1. PICK k \in Nat, m \in Nat : ProgramShape(k, m)
  BY ProgramCode
<1>2. PICK f : /\ Story(Program, f, 52, m) /\ f[52] = At(Begun, 0)
               /\ f[m] = At(Ended, FrameBytes)
  BY <1>1 DEF ProgramShape, DisplaysRun
<1> DEFINE Inv == StartInv(k, m) /\ DarkInv /\ SceneInv(f, m)
<1>3. Init => Inv
  <2> SUFFICES ASSUME Init PROVE Inv
    OBVIOUS
  <2>1. StartInv(k, m)
    BY <1>1, StartInvInit
  <2>2. /\ pc = 1 /\ driven = {} /\ on = {"DMA"} /\ displayMode = "normal"
        /\ chip = [d \in Display |-> ChipReset]
    BY DEF Init
  <2> QED
    BY <2>1, <2>2 DEF DarkInv, SceneInv
<1>4. Inv /\ [Next]_vars => Inv'
  <2> SUFFICES ASSUME Inv, [Next]_vars PROVE Inv'
    OBVIOUS
  <2>1. pc \in 1 .. m + 39 /\ TimeInv(k, m)
    BY DEF StartInv
  <2>2. StartInv(k, m)'
    BY <1>1, StartInvStep
  <2>3. DarkInv'
    BY <1>1, <2>1, DarkStep
  <2>4. SceneInv(f, m)'
    BY <1>1, <1>2, <2>1, SceneStep
  <2> QED
    BY <2>2, <2>3, <2>4
<1>5. Inv => DisplaysReady
  <2> SUFFICES ASSUME Inv PROVE DisplaysReady
    OBVIOUS
  <2>1. pc \in 1 .. m + 39
    BY DEF StartInv
  <2> QED
    BY <1>1, <1>2, <2>1, DisplaysSound
<1> HIDE DEF Inv
<1> QED
  BY <1>3, <1>4, <1>5, PTL DEF Spec
=============================================================================
