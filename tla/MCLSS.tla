-------------------------------- MODULE MCLSS --------------------------------
(* Instances of LSSCommissioning for TLC. *)
EXTENDS LSSCommissioning

CONSTANTS n1, n2

Parted(v, p, r, s) ==
    [i \in Parts |-> CASE i = 0 -> v [] i = 1 -> p [] i = 2 -> r [] OTHER -> s]

(* The same product in two revisions; the serial numbers differ above the  *)
(* last bit.                                                               *)
MCAddress == [n \in Node |-> IF n = n1 THEN Parted(1, 2, 0, 1)
                             ELSE Parted(1, 2, 1, 3)]
=============================================================================
