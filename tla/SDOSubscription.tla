--------------------------- MODULE SDOSubscription ---------------------------
(***************************************************************************)
(* Which CAN identifiers the SDO servers of a node listen to: the COB-IDs  *)
(* and _stopped of class SDOServer (services/sdo/server.py), kept in step  *)
(* with the table of subscriptions of network.py.  The first server has    *)
(* the predefined identifiers of the node id; those of the others are      *)
(* objects of the dictionary.                                              *)
(***************************************************************************)
EXTENDS NMT

CONSTANTS
    First,      \* the server with index 0
    Further,    \* the other servers
    CanId,      \* identifiers of requests
    Default,    \* 0x600 + node id
    Choice,     \* identifiers a further server may be given
    NoOne       \* subscribed by nobody

Server == {First} \cup Further

ASSUME ServerAssumption == First \notin Further /\ NoOne \notin Server
ASSUME DefaultAssumption ==
    /\ Default \in [NodeId -> CanId]
    /\ \A i, j \in NodeId : Default[i] = Default[j] => i = j
(* No identifier is given to two servers. *)
ASSUME ChoiceAssumption ==
    /\ Choice \in [Further -> (SUBSET CanId) \ {{}}]
    /\ \A s \in Further : \A c \in Choice[s] :
         /\ \A i \in NodeId : c # Default[i]
         /\ \A t \in Further : c \in Choice[t] => s = t

VARIABLES
    sdo,    \* the fields of each server
    subs    \* CANBusNetwork.subscriptions

(* rxOff, txOff are bit 31 of the COB-IDs; the answers' identifier itself  *)
(* makes no difference here.                                               *)
SDOTypeOK ==
    /\ sdo \in [Server -> [rx : CanId, rxOff : BOOLEAN, txOff : BOOLEAN,
                           stopped : BOOLEAN]]
    /\ subs \in [CanId -> Server \cup {NoOne}]

Valid(s) == ~s.rxOff /\ ~s.txOff

(* The further servers are off, the first one listens. *)
SDOInit ==
    /\ sdo = [s \in Server |->
                IF s = First THEN [rx |-> Default[FirstId], rxOff |-> FALSE,
                                   txOff |-> FALSE, stopped |-> FALSE]
                ELSE [rx |-> CHOOSE c \in Choice[s] : TRUE, rxOff |-> TRUE,
                      txOff |-> TRUE, stopped |-> TRUE]]
    /\ subs = [c \in CanId |-> IF c = Default[FirstId] THEN First ELSE NoOne]

-----------------------------------------------------------------------------
(* A server and the table, as one value: an operation may raise halfway.   *)

At(s)       == [s |-> sdo[s], subs |-> subs]
Silent(x)   == [x EXCEPT !.subs[x.s.rx] = NoOne]
Listening(x, owner) == [x EXCEPT !.subs[x.s.rx] = owner]

(* remove_subscription(_cob_rx) raises: nobody has the identifier, or it   *)
(* has bit 31, which no subscription has.                                  *)
RemovalRaises(x) == x.s.rxOff \/ x.subs[x.s.rx] = NoOne

(* Variant of Stop that takes the removal of the subscription for granted. *)
StopOnly(x) == IF x.s.stopped THEN x ELSE [x EXCEPT !.s.stopped = TRUE]

(* _update_subscription and _update_node on leaving the running states. *)
Stop(x) == IF x.s.stopped \/ RemovalRaises(x) THEN x
           ELSE [Silent(x) EXCEPT !.s.stopped = TRUE]

(* Variant of Start in which the first server keeps its identifiers. *)
StartSame(s, x, id) ==
    IF ~x.s.stopped \/ ~Valid(x.s) THEN x
    ELSE [Listening(x, s) EXCEPT !.s.stopped = FALSE]

(* ... and on entering them. *)
Start(s, x, id) ==
    IF ~x.s.stopped THEN x
    ELSE IF s = First
    THEN [Listening([x EXCEPT !.s.rx = Default[id]], s) EXCEPT !.s.stopped = FALSE]
    ELSE IF Valid(x.s) THEN [Listening(x, s) EXCEPT !.s.stopped = FALSE]
    ELSE x

ServerEntered(s, x, t, id) ==
    IF t \in Running THEN Start(s, x, id) ELSE Stop(x)

(* The callbacks of all servers.  They touch different identifiers, so the *)
(* table after all of them is put together from the tables after each.     *)
Merged(after) ==
    /\ sdo' = [s \in Server |-> after[s].s]
    /\ subs' = [c \in CanId |->
                  IF \E s \in Server : after[s].subs[c] # subs[c]
                  THEN after[CHOOSE s \in Server : after[s].subs[c] # subs[c]].subs[c]
                  ELSE subs[c]]

-----------------------------------------------------------------------------
(* COB-IDs written *)

(* _update_cob_rx.  When the removal raises, the new COB-ID is not taken.  *)
CobRxUpdated(s, x, rx, off) ==
    LET left  == IF Valid(x.s) THEN Silent(x) ELSE x
        moved == [left EXCEPT !.s.rx = rx, !.s.rxOff = off]
    IN  IF Valid(x.s) /\ RemovalRaises(x) THEN x
        ELSE IF off \/ x.s.txOff THEN moved
        ELSE Listening(moved, s)

(* _update_cob_tx, likewise. *)
CobTxUpdated(s, x, off) ==
    LET left  == IF Valid(x.s) /\ off THEN Silent(x) ELSE x
        moved == [left EXCEPT !.s.txOff = off]
    IN  IF Valid(x.s) /\ off /\ RemovalRaises(x) THEN x
        ELSE IF off \/ x.s.rxOff THEN moved
        ELSE Listening(moved, s)

Updated(s, x) == sdo' = [sdo EXCEPT ![s] = x.s] /\ subs' = x.subs

UpdateCobRx(s, rx, off) == Updated(s, CobRxUpdated(s, At(s), rx, off))
UpdateCobTx(s, off)     == Updated(s, CobTxUpdated(s, At(s), off))
===============================================================================
