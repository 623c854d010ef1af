----------------------------- MODULE MCStartUp -----------------------------
(* Displays of four bytes, and pages of settings that are good, blank,     *)
(* wiped, or wrong in one word of one input or output.                     *)
EXTENDS StartUp

OneInput(i, w) == [Defaults EXCEPT !.inData[i] = w]
OneOutput(i, w) == [Defaults EXCEPT !.outData[i] = w]
Zeros == {-1, \h100000, \h100001, -\h100001}
MCFlash ==
  {Defaults,
   [inData |-> [i \in Input |-> [zeroIn |-> -1, threeVolt |-> -1]],
    outData |-> [i \in Output |-> [zeroOut |-> -1, halfOut |-> -1]]]}
  \cup {OneInput(i, [zeroIn |-> z, threeVolt |-> t]) :
          i \in {0, 4}, z \in Zeros, t \in {0, \h100000, \h380001}}
  \cup {OneOutput(1, [zeroOut |-> z, halfOut |-> h]) :
          z \in Zeros, h \in {-1, \h200000, \h600001}}
=============================================================================
