------------------------------ MODULE MCPanel ------------------------------
(* The left button, the left encoder and the left pot move; a parameter's  *)
(* range is no whole number of clicks, as 65535 is not.                    *)
EXTENDS Panel

MCTurn == {-1, 0, 1}

Only(x, rest) == [i \in Side |-> IF i = 0 THEN x ELSE rest]

MCHands == { [up |-> Only(up, TRUE), quarter |-> Only(quarter, 0)] :
               up \in BOOLEAN, quarter \in MCTurn }
MCConversion == { Only(raw, 0) : raw \in {0, 1} }
=============================================================================
