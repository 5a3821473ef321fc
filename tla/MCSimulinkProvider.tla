-------------------------- MODULE MCSimulinkProvider --------------------------
(* Three points, the first two of which go into one fragment; one parameter    *)
(* and one tag that the model does not know.                                   *)
EXTENDS SimulinkProvider

MCEnd == [i \in 0 .. NumParts |-> IF i < 3 THEN 2 * i ELSE 8]
MCWrites == {[tags |-> {"p"}, val |-> 0], [tags |-> {"p", "q"}, val |-> 1]}
=============================================================================
