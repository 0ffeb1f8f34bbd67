----------------------------- MODULE MCServices -----------------------------
(* An instance of Services for TLC: two node ids, one further SDO server   *)
(* with two identifiers to choose from.                                    *)
EXTENDS Services

CONSTANTS further, i1, i2, c1, c2, d1, d2

MCDefault == [i \in NodeId |-> IF i = i1 THEN d1 ELSE d2]
MCChoice  == [s \in Further |-> {c1, c2}]
MCEmergency == {[code |-> "a"], [code |-> "b"]}
=============================================================================
