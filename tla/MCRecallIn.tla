---------------------------- MODULE MCRecallIn ----------------------------
(* The messages of the Select Bus, and some that are only passing through. *)
EXTENDS RecallIn

MCMessage ==
  { <<\hB0, 16, 127>>, <<\hB0, 16, 0>>, <<\hC0, 70>>, <<\hF4, 3>>,
    <<\hF4, \h40>>, <<\h90, 16, 127>>, <<\hC1, 9>>, <<\hF2, 1, 2>>,
    <<\hF0, 0, \h21, \h27, \h5D, 0, \h22, 1, \hF7>>, <<\hF0, \h7D>> }

MCSession ==
  { [message |-> MCMessage, realTime |-> {\hF8},
     sends |-> 3, ticks |-> 1, loses |-> 1] }

\* Notes only, with a clock among them.
MCNotes ==
  { [message |-> {<<\h90, 60, 100>>}, realTime |-> {\hF8},
     sends |-> 2, ticks |-> 2, loses |-> 0] }
=============================================================================
