------------------------------- MODULE MCRPDO -------------------------------
(***************************************************************************)
(* Instances of RPDO for TLC: two variables the dictionary has and one it  *)
(* has not, messages that are too short, fit, or are too long.             *)
(***************************************************************************)
EXTENDS RPDO

CONSTANTS a, b, unknown, predefinedId, otherId, sdoId

MCMappings == {<<>>, <<a>>, <<b, a>>, <<b, b>>, <<a, unknown>>}
MCMessages == {<<0>>, <<1>>, <<0, 1>>, <<1, 1>>}
Anything   == [v \in Known |-> Value]
Bounded    == [v \in Known |-> IF v = a THEN {0} ELSE Value]
Objected   == {<<a, 0>>}
Nothing    == {}
=============================================================================
