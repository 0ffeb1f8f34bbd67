-------------------------------- MODULE RPDO --------------------------------
(***************************************************************************)
(* A receive PDO: class RPDO of services/pdo/rpdo.py on a network that     *)
(* keeps one callback per CAN identifier (network.py).  While its mapping  *)
(* is active the RPDO is subscribed to its COB-ID; a message is written to *)
(* the mapped variables at once or, for a synchronous transmission type,   *)
(* when the next SYNC arrives.                                             *)
(*                                                                         *)
(* An operation runs to its end before the next one starts.  Removing a    *)
(* subscription that does not exist raises KeyError, which ends the        *)
(* operation where it happens.                                             *)
(***************************************************************************)
EXTENDS PDO

CONSTANTS
    ForeignId,  \* identifiers other services of the node are subscribed to
    Types,      \* transmission types that are configured
    Messages,   \* messages that are received
    InRange,    \* the values between minimum and maximum of each variable
    Rejected,   \* <<v, value>>: a validate callback of v raises for value
    Careless    \* what else is configured as COB-ID, see Configurable

ASSUME ForeignIdAssumption == ForeignId \subseteq CanId \ {DefaultId}
ASSUME TypesAssumption == Types \subseteq 0..255
ASSUME MessagesAssumption == Messages \subseteq Seq(Value)
ASSUME InRangeAssumption == InRange \in [Known -> SUBSET Value]
ASSUME RejectedAssumption == Rejected \subseteq Known \X Value
ASSUME CarelessAssumption == Careless \subseteq {"active", "foreign"}

VARIABLES
    rp,         \* the fields of the RPDO
    subs,       \* NetworkABC: whose callback an identifier has
    odCob,      \* "COB-ID used by RPDO", object 0x1400+i sub-index 1
    report      \* whether the last step reported a message of wrong size
                \* with EMCY 0x8210

vars == <<nmt, data, rp, subs, odCob, report>>

Synchronous(type) == type <= 240

(* active is "_unpack_function is not None", listening whether _on_sync is *)
(* among the callbacks of the SYNC consumer, pending holds the message of  *)
(* _synced_msg unless that is None.                                        *)
Fields == [cob : CobId, type : 0..255, map : Seq(Var), active : BOOLEAN,
           listening : BOOLEAN, pending : {<<>>} \cup {<<m>> : m \in Messages}]

Owners == {"nobody", "rpdo", "other"}

-----------------------------------------------------------------------------
(* The mapping.  r and s are the fields and the subscriptions before.      *)

(* _deactivate_mapping, up to the removal of the subscription, which fails *)
(* when the COB-ID is not subscribed to.                                   *)
Deactivated(r) ==
    IF r.active THEN [r EXCEPT !.active = FALSE, !.listening = FALSE] ELSE r

(* Variants of Unsubscribed that remove nothing, and a subscription that   *)
(* is not the RPDO's.                                                      *)
NotUnsubscribed(r, s)    == s
AlwaysUnsubscribed(r, s) == [s EXCEPT ![r.cob.id] = "nobody"]

Unsubscribed(r, s) ==
    IF r.active THEN [s EXCEPT ![r.cob.id] = "nobody"] ELSE s

RemovalRaises(r, s) == r.active /\ s[r.cob.id] = "nobody"

(* _activate_mapping: nothing is changed before every object is looked up. *)
Activates(r, state) ==
    /\ Usable(r.cob, r.map, state) /\ ~r.active
    /\ Found(r.map) = Len(r.map)

LookupRaises(r, state) ==
    /\ Usable(r.cob, r.map, state) /\ ~r.active
    /\ Found(r.map) < Len(r.map)

Activated(r, state) ==
    IF Activates(r, state)
    THEN [r EXCEPT !.active = TRUE, !.listening = Synchronous(r.type)]
    ELSE r

Subscribed(r, s, state) ==
    IF Activates(r, state) THEN [s EXCEPT ![r.cob.id] = "rpdo"] ELSE s

Activate(r, s, state) ==
    rp' = Activated(r, state) /\ subs' = Subscribed(r, s, state)

Deactivate(r) == rp' = Deactivated(r) /\ subs' = Unsubscribed(r, subs)

(* The mapping is deactivated, a field changed, the mapping activated; the *)
(* field keeps its value when the removal raises.                          *)
Replace(new) ==
    IF RemovalRaises(rp, subs) THEN Deactivate(rp)
    ELSE Activate(new, Unsubscribed(rp, subs), nmt)

-----------------------------------------------------------------------------
(* Operations *)

(* Variant of SetNmtState: only STOPPED deactivates. *)
SetNmtStateStops(state) ==
    /\ state # nmt
    /\ nmt' = state
    /\ IF state = "OPERATIONAL"
       THEN Activate([rp EXCEPT !.cob = OperationalCobId(@)], subs, state)
       ELSE IF state = "STOPPED" THEN Deactivate(rp)
       ELSE UNCHANGED <<rp, subs>>
    /\ report' = FALSE
    /\ UNCHANGED <<data, odCob>>

(* NMTSlave.set_state and _update_nmt_state *)
SetNmtState(state) ==
    /\ state # nmt
    /\ nmt' = state
    /\ IF state = "OPERATIONAL"
       THEN Activate([rp EXCEPT !.cob = OperationalCobId(@)], subs, state)
       ELSE Deactivate(rp)
    /\ report' = FALSE
    /\ UNCHANGED <<data, odCob>>

(* _downloaded_cob_id: the new COB-ID is in place before the mapping is    *)
(* deactivated, so its subscription is the one that is removed.            *)
DownloadCobId(cob) ==
    LET r == [rp EXCEPT !.cob = cob]
    IN  /\ odCob' = cob
        /\ IF cob.off THEN Deactivate(r) ELSE Activate(r, subs, nmt)
        /\ report' = FALSE
        /\ UNCHANGED <<nmt, data>>

(* The enable property.  It does not get to publish the COB-ID when the    *)
(* activation or the deactivation raises.                                  *)
SetEnable(value) ==
    LET r == [rp EXCEPT !.cob.off = ~value]
        raises == IF value THEN LookupRaises(r, nmt) ELSE RemovalRaises(r, subs)
    IN  /\ IF value THEN Activate(r, subs, nmt) ELSE Deactivate(r)
        /\ odCob' = IF raises THEN odCob ELSE r.cob
        /\ report' = FALSE
        /\ UNCHANGED <<nmt, data>>

(* _map, called by the mapping property and by _downloaded_map_length *)
Map(mapping) ==
    /\ Replace([Deactivated(rp) EXCEPT !.map = mapping])
    /\ report' = FALSE
    /\ UNCHANGED <<nmt, data, odCob>>

(* Variant of SetTransmissionType that leaves the mapping active. *)
SetTypeInPlace(type) ==
    /\ rp' = [rp EXCEPT !.type = type]
    /\ report' = FALSE
    /\ UNCHANGED <<nmt, data, subs, odCob>>

(* _set_transmission_type *)
SetTransmissionType(type) ==
    /\ Replace([Deactivated(rp) EXCEPT !.type = type])
    /\ report' = FALSE
    /\ UNCHANGED <<nmt, data, odCob>>

(* _write_data.  The range of a value is not checked, and a value that a   *)
(* validate callback objects to is skipped while the others are written;   *)
(* of the values for a variable mapped twice the last one stays.           *)
Taken(msg, i)  == <<rp.map[i], msg[i]>> \notin Rejected
Writes(msg, v) == {i \in DOMAIN msg : rp.map[i] = v /\ Taken(msg, i)}

WriteData(msg) ==
    IF ~rp.active                       \* AssertionError
    THEN report' = FALSE /\ UNCHANGED data
    ELSE /\ report' = (Len(msg) # Len(rp.map))
         /\ IF Len(msg) # Len(rp.map)
            THEN UNCHANGED data
            ELSE data' = [v \in Known |->
                   IF Writes(msg, v) = {} THEN data[v]
                   ELSE msg[CHOOSE i \in Writes(msg, v) :
                              \A j \in Writes(msg, v) : j <= i]]

(* Variant of HandleMsg that queues messages until the SYNC. *)
HandleMsgQueues(id, msg) ==
    /\ subs[id] = "rpdo"
    /\ IF Synchronous(rp.type)
       THEN /\ Len(rp.pending) < 2
            /\ rp' = [rp EXCEPT !.pending = Append(@, msg)]
            /\ report' = FALSE /\ UNCHANGED data
       ELSE WriteData(msg) /\ UNCHANGED rp
    /\ UNCHANGED <<nmt, subs, odCob>>

(* _handle_msg, the callback of an identifier the RPDO is subscribed to *)
HandleMsg(id, msg) ==
    /\ subs[id] = "rpdo"
    /\ IF Synchronous(rp.type)
       THEN /\ rp' = [rp EXCEPT !.pending = <<msg>>]
            /\ report' = FALSE /\ UNCHANGED data
       ELSE WriteData(msg) /\ UNCHANGED rp
    /\ UNCHANGED <<nmt, subs, odCob>>

(* _on_sync *)
Sync ==
    /\ rp.listening /\ rp.pending # <<>>
    /\ WriteData(rp.pending[1])
    /\ rp' = IF rp.active THEN [rp EXCEPT !.pending = <<>>] ELSE rp
    /\ UNCHANGED <<nmt, subs, odCob>>

(* ObjectDictionary.write by the application *)
Write(v, value) ==
    /\ value \in InRange[v] /\ <<v, value>> \notin Rejected
    /\ data' = [data EXCEPT ![v] = value]
    /\ report' = FALSE
    /\ UNCHANGED <<nmt, rp, subs, odCob>>

(* Another service of the node subscribes to its identifier or ends its    *)
(* subscription.                                                           *)
OtherService(id, owner) ==
    /\ subs' = [subs EXCEPT ![id] = owner]
    /\ report' = FALSE
    /\ UNCHANGED <<nmt, data, rp, odCob>>

-----------------------------------------------------------------------------
Init ==
    /\ PDOInit /\ \A v \in Known : data[v] \in InRange[v]
    /\ rp = [cob |-> [off |-> ~Predefined, id |-> DefaultId], type |-> 255,
             map |-> <<>>, active |-> FALSE, listening |-> FALSE,
             pending |-> <<>>]
    /\ subs = [id \in CanId |-> IF id \in ForeignId THEN "other" ELSE "nobody"]
    /\ odCob = rp.cob
    /\ report = FALSE

(* The code takes any COB-ID at any time.  A careful client writes another *)
(* identifier only while the PDO is not active, and an identifier of       *)
(* another service only as one that is not valid.                          *)
Configurable(cob) ==
    /\ rp.active /\ cob.id # rp.cob.id => "active" \in Careless
    /\ cob.id \in ForeignId /\ ~cob.off => "foreign" \in Careless

Configure ==
    \/ \E cob \in CobId        : Configurable(cob) /\ DownloadCobId(cob)
    \/ \E value \in BOOLEAN    : /\ Configurable([rp.cob EXCEPT !.off = ~value])
                                 /\ SetEnable(value)
    \/ \E mapping \in Mappings : Map(mapping)
    \/ \E type \in Types       : SetTransmissionType(type)

Next ==
    \/ \E state \in NmtStates : SetNmtState(state)
    \/ Configure
    \/ \E id \in CanId, msg \in Messages : HandleMsg(id, msg)
    \/ Sync
    \/ \E v \in Known, value \in Value : Write(v, value)
    \/ \E id \in ForeignId, owner \in {"nobody", "other"} : OtherService(id, owner)

Spec == Init /\ [][Next]_vars

-----------------------------------------------------------------------------
(* Properties *)

(* Every field keeps its type. *)
TypeOK ==
    /\ PDOTypeOK
    /\ rp \in Fields
    /\ subs \in [CanId -> Owners]
    /\ odCob \in CobId /\ report \in BOOLEAN

(* The RPDO is subscribed to its COB-ID while its mapping is active, and   *)
(* to nothing else, whatever NMT commands and configuration writes came in *)
(* which order.                                                            *)
SubscriptionLedger ==
    \A id \in CanId : subs[id] = "rpdo" <=> rp.active /\ id = rp.cob.id

(* An RPDO whose COB-ID is never set to a valid one of another service     *)
(* neither replaces nor removes that service's subscription.               *)
OthersKept ==
    [][\A id \in ForeignId :
         \/ subs'[id] = subs[id]
         \/ \E owner \in {"nobody", "other"} : OtherService(id, owner)]_vars

(* It listens to SYNCs only while a synchronous mapping is active. *)
SyncLedger == rp.listening <=> rp.active /\ Synchronous(rp.type)

(* The assertion of _write_data, "RPDO should be deactivated": no message  *)
(* and no SYNC reaches it without an active mapping.                       *)
AssertionHolds ==
    /\ \A id \in CanId : subs[id] = "rpdo" /\ ~Synchronous(rp.type) => rp.active
    /\ rp.listening /\ rp.pending # <<>> => rp.active

(* Messages change variables only while the PDO is valid and the node is   *)
(* operational, and only mapped ones.                                      *)
OnlyMappedChange ==
    [][\A v \in Known :
         data'[v] # data[v] =>
           \/ UNCHANGED rp /\ \E value \in Value : Write(v, value)
           \/ /\ Usable(rp.cob, rp.map, nmt)
              /\ \E i \in DOMAIN rp.map : rp.map[i] = v]_vars
=============================================================================
