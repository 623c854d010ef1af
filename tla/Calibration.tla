---------------------------- MODULE Calibration ----------------------------
(***************************************************************************)
(* The calibration data of the six inputs and four outputs (calibrate.c):  *)
(* read from the flash at start-up, defaulted if the page is blank,        *)
(* checked and mended word by word, and turned into factors by division.   *)
(* The words are integers of 32 bits; of the factors, the divisors and the *)
(* places they are kept in are modelled.                                   *)
(***************************************************************************)
EXTENDS Integers

Input == 0 .. 5
Output == 0 .. 3
Half == 0 .. 1
Word == (-2147483647 - 1) .. 2147483647

Erased == -1               \* 0xffffffff, as an int
zeroDefault == 0
threeVoltDefault == \h266666
halfOutDefault == \h400000

InputCalibrationData == [zeroIn : Word, threeVolt : Word]
OutputCalibrationData == [zeroOut : Word, halfOut : Word]
CalibrationSettings ==
  [inData : [Input -> InputCalibrationData],
   outData : [Output -> OutputCalibrationData]]

Defaults ==
  [inData |-> [i \in Input |->
                 [zeroIn |-> zeroDefault, threeVolt |-> threeVoltDefault]],
   outData |-> [i \in Output |->
                  [zeroOut |-> zeroDefault, halfOut |-> halfOutDefault]]]

maxZero == \h100000
minThreeVolt == \h100000
maxThreeVolt == \h380000
minHalfOut == \h200000
maxHalfOut == \h600000

ZeroRange == (-maxZero) .. maxZero
ThreeVoltRange == minThreeVolt .. maxThreeVolt
HalfOutRange == minHalfOut .. maxHalfOut

Mended(v, range, default) == IF v \in range THEN v ELSE default

\* Mutant of CheckValidCalibration: the outputs are checked and not mended.
CheckOnlyInputs(s) ==
  [s EXCEPT !.inData = [i \in Input |->
      [zeroIn |-> Mended(s.inData[i].zeroIn, ZeroRange, zeroDefault),
       threeVolt |->
         Mended(s.inData[i].threeVolt, ThreeVoltRange, threeVoltDefault)]]]

CheckValidCalibration(s) ==
  [inData |-> [i \in Input |->
     [zeroIn |-> Mended(s.inData[i].zeroIn, ZeroRange, zeroDefault),
      threeVolt |->
        Mended(s.inData[i].threeVolt, ThreeVoltRange, threeVoltDefault)]],
   outData |-> [i \in Output |->
     [zeroOut |-> Mended(s.outData[i].zeroOut, ZeroRange, zeroDefault),
      halfOut |-> Mended(s.outData[i].halfOut, HalfOutRange, halfOutDefault)]]]

\* A page whose first input has none is taken for one that has been wiped.
Wiped(s) == s.inData[0].threeVolt \in {0, Erased}
Loaded(flash) == IF Wiped(flash) THEN Defaults ELSE flash

\* What ReadCalibrationFromSettings makes of the flash, and whether it says
\* that the data is bad.
Settings(flash) == CheckValidCalibration(Loaded(flash))
BadCalibration(flash) == Settings(flash) # Loaded(flash)

\* Division in C rounds towards zero.
DividedBy3(x) == IF x >= 0 THEN x \div 3 ELSE -((-x) \div 3)

\* What the factors of half d are divided by: B for its input i, n for its
\* output i.
Divisor(s, d, i) ==
  LET B == DividedBy3(s.inData[3 * d + i].threeVolt - s.inData[3 * d + i].zeroIn)
  IN  IF B = 0 THEN \hCCCCC ELSE B
OutputDivisor(s, d, i) ==
  LET n == s.outData[2 * d + i].halfOut - s.outData[2 * d + i].zeroOut
  IN  IF n = 0 THEN \h399999 ELSE n

\* The inputs in the order of the panel's jacks, and their way back: the
\* gain of jack w is copied from one input and its offset from another table.
inputMap == [d \in Half |-> [i \in 0 .. 2 |->
               IF i = 2 THEN 4 + d ELSE 2 * d + i]]
OffsetOf(w) == CHOOSE di \in Half \X (0 .. 2) : inputMap[di[1]][di[2]] = w
GainOf(w) ==
  << CASE w \in {0, 1, 4} -> 0 [] OTHER -> 1,
     CASE w \in {0, 2} -> 0 [] w \in {1, 3} -> 1 [] OTHER -> 2 >>
=============================================================================
