------------------------------ MODULE MCIEC104 ------------------------------
(* One binary and one analog point; in one configuration a second master.     *)
EXTENDS IEC104

\* Two doubles that are the same float.
MCNarrow == [v \in AnalogValues |-> IF v = 2 THEN 1 ELSE v]
=============================================================================
