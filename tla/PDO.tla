--------------------------------- MODULE PDO ---------------------------------
(***************************************************************************)
(* What transmit and receive PDOs share: class PDOBase of                  *)
(* services/pdo/base.py, the state of the NMT slave that decides when a    *)
(* PDO is in use (services/nmt.py), and the variables of the object        *)
(* dictionary a PDO maps.                                                  *)
(*                                                                         *)
(* A COB-ID is its CAN identifier and bit 31, "PDO not valid".  The value  *)
(* of a variable stands for its encoded bytes.  The mapping parameters     *)
(* (0x1600+i, 0x1A00+i) are read once, when their length is written, so a  *)
(* mapping is the sequence of variables they name at that moment.          *)
(***************************************************************************)
EXTENDS Integers, Sequences

CONSTANTS
    Var,        \* multiplexors a mapping may name
    Known,      \* those of them the object dictionary has
    Value,      \* values of the variables
    CanId,      \* CAN identifiers of the PDO
    DefaultId,  \* identifier of the predefined connection set: offset, index
                \* and node id
    Predefined, \* the PDO is one of the first four (index < 4)
    Mappings    \* the mappings that are configured

ASSUME KnownAssumption == Known \subseteq Var
ASSUME DefaultIdAssumption == DefaultId \in CanId
ASSUME PredefinedAssumption == Predefined \in BOOLEAN

(* The mapping array has eight entries; they may name a variable twice. *)
ASSUME MappingsAssumption ==
    \A m \in Mappings : m \in Seq(Var) /\ Len(m) <= 8

VARIABLES
    nmt,        \* NMTSlave.state
    data        \* the values of the variables in the object dictionary

(* INITIALISATION is left as soon as it is entered and acts on a PDO like  *)
(* PRE_OPERATIONAL.                                                        *)
NmtStates == {"STOPPED", "PRE_OPERATIONAL", "OPERATIONAL"}

CobId == [off : BOOLEAN, id : CanId]

(* _update_nmt_state: what entering OPERATIONAL does to the COB-ID. *)
OperationalCobId(cob) ==
    IF Predefined THEN [cob EXCEPT !.id = DefaultId] ELSE cob

(* _validate_state *)
Usable(cob, mapping, state) ==
    ~cob.off /\ mapping # <<>> /\ state = "OPERATIONAL"

(* The first entries of a mapping, up to the one whose lookup raises. *)
Found(mapping) ==
    CHOOSE n \in 0..Len(mapping) :
      /\ \A i \in 1..n : mapping[i] \in Known
      /\ n < Len(mapping) => mapping[n + 1] \notin Known

PDOTypeOK == nmt \in NmtStates /\ data \in [Known -> Value]

PDOInit == nmt = "PRE_OPERATIONAL" /\ data \in [Known -> Value]
=============================================================================
