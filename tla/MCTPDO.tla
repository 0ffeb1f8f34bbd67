------------------------------- MODULE MCTPDO -------------------------------
(***************************************************************************)
(* Instances of TPDO for TLC: two variables the dictionary has and one it  *)
(* has not, mapped alone, together, in both orders and twice.              *)
(***************************************************************************)
EXTENDS TPDO

CONSTANTS a, b, unknown, predefinedId, otherId

KnownMappings == {<<>>, <<a>>, <<a, b>>, <<a, b, a>>}
AllMappings   == {<<>>, <<b>>, <<a, b, a>>, <<a, unknown>>, <<unknown, b>>}
=============================================================================
