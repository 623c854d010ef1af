------------------------------ MODULE MCBridge ------------------------------
(* Commands of every length and outcome: queries, messages for the MIDI    *)
(* output and the Select Bus, one cut short, one that goes on too long,    *)
(* an unknown one.                                                         *)
EXTENDS Bridge

MCTransfer ==
  { <<\h45>>, <<\h48, 2>>, <<\h44, 1>>, <<\h46, 3>>, <<\h46, 4, 5, 6>>,
    <<\h41, 7, 8, 9>>, <<\h4F, \h90, 1, 2>>, <<\h50, \hC0, 3>>,
    <<\h50, \hF8>>, <<\h4F, \hF0, 4>>, <<\h7F, \h45>> }
=============================================================================
