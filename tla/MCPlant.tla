------------------------------ MODULE MCPlant ------------------------------
(* A device with one binary tag, which stands for a point of the provider,   *)
(* and one output module; the tag is commanded to 1 and back to 0.           *)
EXTENDS Plant

MCPoints == {"line.active"}
MCPointOf == [t \in External |-> "line.active"]
MCPointType == [p \in Points |-> "bool"]
MCCommands == <<[tag |-> "breaker", val |-> 1], [tag |-> "breaker", val |-> 0]>>
MCLogic == <<>>
MCPublished == {[point |-> "line.active", data |-> [type |-> "bool", val |-> v]] : v \in {0, 1}}
=============================================================================
