---------------------------- MODULE MCLogicModule ----------------------------
(* A protection scheme: the alarm follows an external overload reading after *)
(* a delay of two scans, the breaker opens when the alarm is up after one    *)
(* more.  The reading 2 is a value cparse cannot evaluate, such as nan; the  *)
(* provider may close the breaker itself, or publish it as a number.         *)
EXTENDS LogicModule

MCTags == {"load", "alarm", "breaker"}
MCBinaryTags == {"alarm", "breaker"}
MCExternal == {"load", "breaker"}
MCPoints == {"load.mw", "line.active"}
MCPointOf == [t \in MCExternal |-> IF t = "breaker" THEN "line.active" ELSE "load.mw"]
MCPointType == [p \in MCPoints |-> IF p = "line.active" THEN "bool" ELSE "double"]
MCLogic == <<"alarm", "breaker">>
MCDelay == <<2, 1>>
MCRhs(i, in) ==
    CASE i = 1 -> IF in["load"] = 2 THEN None ELSE in["load"]
      [] i = 2 -> IF in["alarm"] = 1 THEN 0 ELSE 1
MCPublished == [point : {"load.mw"}, data : [type : {"double"}, val : {0, 1, 2}]]
                 \union [point : {"line.active"}, data : [type : Types, val : {1}]]

(* One delayed line, with a server whose commands compete with it. *)
SmallTags == {"load", "breaker"}
SmallPoints == {"load.active", "line.active"}
SmallPointOf == [t \in SmallTags |-> IF t = "breaker" THEN "line.active" ELSE "load.active"]
SmallPointType == [p \in SmallPoints |-> "bool"]
SmallLogic == <<"breaker">>
SmallDelay == <<2>>
SmallRhs(i, in) == 1 - in["load"]
SmallPublished == [point : {"load.active"}, data : [type : {"bool"}, val : {0, 1}]]
=============================================================================
