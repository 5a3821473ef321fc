---------------------------- MODULE MCFieldDevice ----------------------------
(* A device with a binary and an analog external tag, a binary internal tag, *)
(* one logic line for the binary external tag, and a provider that sometimes *)
(* publishes the binary point as a number.                                   *)
EXTENDS FieldDevice

MCTags == {"breaker", "power", "alarm"}
MCBinaryTags == {"breaker", "alarm"}
MCExternal == {"breaker", "power"}
MCPoints == {"line.active", "load.mw"}
MCPointOf == [t \in MCExternal |-> IF t = "breaker" THEN "line.active" ELSE "load.mw"]
MCPointType == [p \in MCPoints |-> IF p = "line.active" THEN "bool" ELSE "double"]
MCLogic == <<"breaker">>
MCPublished == {[point |-> "line.active", data |-> [type |-> "bool", val |-> 1]],
                [point |-> "line.active", data |-> [type |-> "double", val |-> 1]]}
=============================================================================
