-------------------------------- MODULE TPDO --------------------------------
(***************************************************************************)
(* A transmit PDO: class TPDO of services/pdo/tpdo.py with its SyncHandler *)
(* and InhibitTimer.  While its mapping is active the TPDO keeps the       *)
(* encoded values of the mapped variables in a cache, which pack functions *)
(* registered as update callbacks of the variables keep current, and sends *)
(* them on a change, on a SYNC, or when the inhibit time is over.          *)
(*                                                                         *)
(* An operation runs to its end before the next one starts, as it does     *)
(* under AsyncScheduler.  Exceptions end it early; those in callbacks are  *)
(* swallowed by CallbackHandler.  network.send only records the frame.     *)
(*                                                                         *)
(* Time is not modelled: a running inhibit timer may expire at any time.   *)
(***************************************************************************)
EXTENDS PDO

CONSTANTS
    Types,      \* transmission types that are configured
    Timed,      \* inhibit times that are configured: FALSE is 0
    Online,     \* what is also reconfigured while the mapping is active
    MaxDivider  \* bound: the largest synchronous type of the model

ASSUME TypesAssumption ==
    /\ MaxDivider \in 1..240
    /\ Types \subseteq 0..MaxDivider \cup 241..255
ASSUME TimedAssumption == Timed \subseteq BOOLEAN
ASSUME OnlineAssumption == Online \subseteq {"type", "inhibit"}

VARIABLES
    tp,         \* the fields of the TPDO, its SyncHandler and InhibitTimer
    watch,      \* update_callbacks: how often the pack function of a slot of
                \* the mapping is registered for a variable
    odCob,      \* "COB-ID used by TPDO", object 0x1800+i sub-index 1
    last,       \* the last frame on the bus
    sent,       \* the frames the last step sent, `last' being the last of them
    syncs       \* history: SYNCs since the one that was last answered by a
                \* frame, or since the transmission type was set

vars == <<nmt, data, tp, watch, odCob, last, sent, syncs>>

EventDriven == 255
Acyclic     == 0
Synchronous(type) == type <= 240

Slots == 1..8       \* length of the mapping array

(* active is "_cache is not None"; count is the _counter of the            *)
(* SyncHandler, which exists iff type is synchronous; inhibited says       *)
(* whether there is an InhibitTimer, running whether it has a _timer_id,   *)
(* again whether it has a _retrigger_callback.                             *)
Fields == [cob : CobId, type : 0..255, map : Seq(Var), active : BOOLEAN,
           cache : Seq(Value), count : 0..MaxDivider, inhibited : BOOLEAN,
           running : BOOLEAN, again : BOOLEAN]

Frames == [id : CanId, data : Seq(Value)]

-----------------------------------------------------------------------------
(* Sending *)

(* n + 1 as far as it matters: a counter is compared with dividers. *)
Counted(n) == IF n < MaxDivider THEN n + 1 ELSE n

(* Variant of Triggered that does not note the frame held back. *)
TriggeredOnce(t) ==
    IF t.inhibited /\ ~t.running THEN [t EXCEPT !.running = TRUE] ELSE t

(* InhibitTimer.trigger, for a TPDO that has one. *)
Triggered(t) ==
    IF ~t.inhibited THEN t
    ELSE IF t.running THEN [t EXCEPT !.again = TRUE]
    ELSE [t EXCEPT !.running = TRUE]

(* Variant of Withheld that ignores the running timer. *)
NeverWithheld(t) == FALSE

Withheld(t) == t.inhibited /\ t.running

Frame(t) == [id |-> t.cob.id, data |-> t.cache]
Send(t)  == last' = Frame(t) /\ sent' = {Frame(t)}
Silent   == sent' = {} /\ UNCHANGED last
Quiet(t) == tp' = t /\ Silent

(* Variant of Raises: a missing cache is sent as an empty frame. *)
NeverRaises(t) == FALSE

(* transmit.  Without a cache it raises after it has started the timer. *)
Raises(t) == ~Withheld(t) /\ ~t.active
Transmit(t) ==
    /\ tp' = Triggered(t)
    /\ IF Withheld(t) \/ Raises(t) THEN Silent ELSE Send(t)

(* SyncHandler.update *)
Updated(t) == [t EXCEPT !.count = Counted(@)]

(* The end of pack and of _activate_mapping. *)
Announce(t) ==
    IF t.type = EventDriven THEN Transmit(t)
    ELSE IF t.type = Acyclic THEN Quiet(Updated(t))
    ELSE Quiet(t)

-----------------------------------------------------------------------------
(* The mapping *)

(* The pack functions of the first n slots of a mapping, which are         *)
(* registered by change = 1 and removed by change = -1.                    *)
Registered(w, mapping, n, change) ==
    [p \in Known \X Slots |->
       IF p[2] <= n /\ mapping[p[2]] = p[1] THEN w[p] + change ELSE w[p]]

(* _deactivate_mapping.  The timer forgets its id, not its callback. *)
Deactivated(t) ==
    IF ~t.active THEN t
    ELSE [t EXCEPT !.active = FALSE, !.cache = <<>>, !.running = FALSE]

(* Variant of Unwatched that leaves the pack functions registered. *)
NotUnwatched(t, w) == w

Unwatched(t, w) ==
    IF ~t.active THEN w ELSE Registered(w, t.map, Len(t.cache), -1)

Deactivate(t) == Quiet(Deactivated(t)) /\ watch' = Unwatched(t, watch)

Activates(t, state) == Usable(t.cob, t.map, state) /\ ~t.active

(* The lookup of a mapped object raised, halfway through the mapping. *)
Halfway(t, state) == Activates(t, state) /\ Found(t.map) < Len(t.map)

(* _activate_mapping, in the given NMT state and with callbacks w. *)
Activate(t, w, state) ==
    LET n == Found(t.map)
        u == [t EXCEPT !.active = TRUE,
                       !.cache = [i \in 1..n |-> data[t.map[i]]]]
    IN  IF ~Activates(t, state)
        THEN Quiet(t) /\ watch' = w
        ELSE /\ watch' = Registered(w, t.map, n, 1)
             /\ IF Halfway(t, state) THEN Quiet(u) ELSE Announce(u)

-----------------------------------------------------------------------------
(* Operations *)

(* Variant of SetNmtState: only STOPPED deactivates. *)
SetNmtStateStops(state) ==
    /\ state # nmt
    /\ nmt' = state
    /\ IF state = "OPERATIONAL"
       THEN Activate([tp EXCEPT !.cob = OperationalCobId(@)], watch, state)
       ELSE IF state = "STOPPED" THEN Deactivate(tp)
       ELSE Quiet(tp) /\ UNCHANGED watch
    /\ UNCHANGED <<data, odCob, syncs>>

(* NMTSlave.set_state and _update_nmt_state *)
SetNmtState(state) ==
    /\ state # nmt
    /\ nmt' = state
    /\ IF state = "OPERATIONAL"
       THEN Activate([tp EXCEPT !.cob = OperationalCobId(@)], watch, state)
       ELSE Deactivate(tp)
    /\ UNCHANGED <<data, odCob, syncs>>

(* _downloaded_cob_id: a client has written the COB-ID. *)
DownloadCobId(cob) ==
    LET t == [tp EXCEPT !.cob = cob]
    IN  /\ odCob' = cob
        /\ IF cob.off THEN Deactivate(t) ELSE Activate(t, watch, nmt)
        /\ UNCHANGED <<nmt, data, syncs>>

(* Variant of SetEnable that does not publish the COB-ID. *)
SetEnableSilently(value) ==
    LET t == [tp EXCEPT !.cob.off = ~value]
    IN  /\ IF value THEN Activate(t, watch, nmt) ELSE Deactivate(t)
        /\ UNCHANGED <<nmt, data, odCob, syncs>>

(* The enable property.  It does not get to publish the COB-ID when the    *)
(* activation raises.                                                      *)
SetEnable(value) ==
    LET t == [tp EXCEPT !.cob.off = ~value]
    IN  /\ IF value THEN Activate(t, watch, nmt) ELSE Deactivate(t)
        /\ odCob' = IF value /\ Halfway(t, nmt) THEN odCob ELSE t.cob
        /\ UNCHANGED <<nmt, data, syncs>>

(* Variant of Map that replaces the mapping of an active TPDO. *)
MapInPlace(mapping) ==
    /\ Activate([tp EXCEPT !.map = mapping], watch, nmt)
    /\ UNCHANGED <<nmt, data, odCob, syncs>>

(* _map, called by the mapping property and by _downloaded_map_length *)
Map(mapping) ==
    /\ Activate([Deactivated(tp) EXCEPT !.map = mapping],
                Unwatched(tp, watch), nmt)
    /\ UNCHANGED <<nmt, data, odCob, syncs>>

(* _set_transmission_type: a new SyncHandler counts from 0. *)
SetTransmissionType(type) ==
    /\ tp.active => "type" \in Online
    /\ Quiet([tp EXCEPT !.type = type, !.count = 0])
    /\ syncs' = 0
    /\ UNCHANGED <<nmt, data, watch, odCob>>

(* _update_inhibit_time: a new InhibitTimer, or none. *)
UpdateInhibitTime(timed) ==
    /\ tp.active => "inhibit" \in Online
    /\ Quiet([tp EXCEPT !.inhibited = timed, !.running = FALSE,
                        !.again = FALSE])
    /\ UNCHANGED <<nmt, data, watch, odCob, syncs>>

Watching(v) == {i \in Slots : watch[<<v, i>>] > 0}

(* Variant of Packed whose functions bind their slot too late, when the    *)
(* loop that creates them is over.                                         *)
PackedLate(v, value, n) ==
    [tp EXCEPT !.cache =
       [i \in DOMAIN @ |-> IF i = Len(@) THEN value ELSE @[i]]]

(* The pack functions of v up to that of slot n have run. *)
Packed(v, value, n) ==
    [tp EXCEPT !.cache =
       [i \in DOMAIN @ |-> IF i \in Watching(v) /\ i <= n THEN value ELSE @[i]]]

(* Every pack function of v fills its slot and transmits, before the next  *)
(* one fills the next slot.  With an inhibit time the first one starts the *)
(* timer and the others are held back.                                     *)
PackAndTransmit(v, value) ==
    LET t == Packed(v, value, 8)
        first == {i \in Watching(v) : \A j \in Watching(v) : i <= j}
    IN  IF ~t.inhibited
        THEN /\ tp' = t /\ last' = Frame(t)
             /\ sent' = {Frame(Packed(v, value, i)) : i \in Watching(v)}
        ELSE /\ tp' = IF Watching(v) = first THEN Triggered(t)
                      ELSE Triggered(Triggered(t))
             /\ IF Withheld(t) THEN Silent
                ELSE \E i \in first : Send(Packed(v, value, i))

(* ObjectDictionary.write of a variable and the pack functions it calls,   *)
(* which raise once the cache is gone.  The counter of an acyclic TPDO is  *)
(* only compared with 0, so it is counted up once.                         *)
Write(v, value) ==
    /\ data' = [data EXCEPT ![v] = value]
    /\ IF Watching(v) = {} \/ ~tp.active THEN Quiet(tp)
       ELSE IF tp.type = EventDriven THEN PackAndTransmit(v, value)
       ELSE Announce(Packed(v, value, 8))
    /\ UNCHANGED <<nmt, watch, odCob, syncs>>

(* SyncHandler._on_sync.  When transmit raises, the counter of an acyclic *)
(* TPDO is not cleared.                                                    *)
OnSync(t) ==
    IF t.type = Acyclic
    THEN IF t.count = 0 THEN Quiet(t)
         ELSE Transmit(IF Raises(t) THEN t ELSE [t EXCEPT !.count = 0])
    ELSE IF Updated(t).count >= t.type THEN Transmit(Updated(t))
    ELSE Quiet(Updated(t))

Sync ==
    /\ Synchronous(tp.type)
    /\ OnSync(tp)
    /\ syncs' = IF sent' # {} THEN 0 ELSE Counted(syncs)
    /\ UNCHANGED <<nmt, data, watch, odCob>>

(* Variant of TimeUp that forgets the frame held back. *)
TimeUpForgets ==
    /\ tp.running
    /\ Quiet([tp EXCEPT !.running = FALSE, !.again = FALSE])
    /\ UNCHANGED <<nmt, data, watch, odCob, syncs>>

(* InhibitTimer._time_up *)
TimeUp ==
    LET t == [tp EXCEPT !.running = FALSE, !.again = FALSE]
    IN  /\ tp.running
        /\ IF tp.again THEN Transmit(t) ELSE Quiet(t)
        /\ UNCHANGED <<nmt, data, watch, odCob, syncs>>

-----------------------------------------------------------------------------
Init ==
    /\ PDOInit
    /\ tp = [cob |-> [off |-> ~Predefined, id |-> DefaultId],
             type |-> EventDriven, map |-> <<>>, active |-> FALSE,
             cache |-> <<>>, count |-> 0, inhibited |-> FALSE,
             running |-> FALSE, again |-> FALSE]
    /\ watch = [p \in Known \X Slots |-> 0]
    /\ odCob = tp.cob
    /\ last = [id |-> DefaultId, data |-> <<>>]
    /\ sent = {}
    /\ syncs = 0

(* The application and the client of the node configure the TPDO. *)
Configure ==
    \/ \E cob \in CobId       : DownloadCobId(cob)
    \/ \E value \in BOOLEAN   : SetEnable(value)
    \/ \E mapping \in Mappings : Map(mapping)
    \/ \E type \in Types      : SetTransmissionType(type)
    \/ \E timed \in Timed     : UpdateInhibitTime(timed)

Next ==
    \/ \E state \in NmtStates : SetNmtState(state)
    \/ Configure
    \/ \E v \in Known, value \in Value : Write(v, value)
    \/ Sync
    \/ TimeUp

Spec == Init /\ [][Next]_vars

(* The scheduler calls a timer's callback when its time has come. *)
FairSpec == Spec /\ WF_vars(TimeUp)

-----------------------------------------------------------------------------
(* Properties *)

(* Every field keeps its type, the cache fits the mapping. *)
TypeOK ==
    /\ PDOTypeOK
    /\ tp \in Fields /\ Len(tp.cache) <= Len(tp.map)
    /\ watch \in [Known \X Slots -> Int]
    /\ odCob \in CobId /\ last \in Frames
    /\ sent \subseteq Frames /\ syncs \in 0..MaxDivider

(* The pack functions registered with the variables are those of the       *)
(* active mapping, each once: NMT commands, COB-ID, enable and mapping     *)
(* writes in any order neither leave one behind nor remove it twice.       *)
WatchLedger ==
    \A v \in Known, i \in Slots :
      watch[<<v, i>>] =
        IF tp.active /\ i <= Len(tp.cache) /\ tp.map[i] = v THEN 1 ELSE 0

Mapped(n) == [i \in 1..n |-> data[tp.map[i]]]

(* What the TPDO would send is what the object dictionary holds, although  *)
(* it reads the dictionary only when the mapping is activated.             *)
CacheIsCurrent == tp.active => tp.cache = Mapped(Len(tp.cache))

(* The mapping is active only while the PDO is valid, maps something and   *)
(* the node is operational.                                                *)
ActiveIsUsable == tp.active => Usable(tp.cob, tp.map, nmt)

(* A frame is sent only under ActiveIsUsable's conditions, with the COB-ID *)
(* in use and the values the dictionary holds at that moment; a timer or   *)
(* SYNC handler left over from an earlier configuration sends nothing.     *)
(* The one exception is a variable mapped more than once: its slots are    *)
(* filled one frame after another, so some may still have the value the    *)
(* variable had before.                                                    *)
Repeated(m, i) == \E j \in DOMAIN m : j # i /\ m[j] = m[i]
CurrentIn(frame, i) ==
    \/ frame.data[i] = data'[tp'.map[i]]
    \/ frame.data[i] = data[tp'.map[i]] /\ Repeated(tp'.map, i)
FramesAreCurrent ==
    [][\A frame \in sent' :
         /\ Usable(tp'.cob, tp'.map, nmt')
         /\ frame.id = tp'.cob.id
         /\ \A i \in DOMAIN frame.data : CurrentIn(frame, i)]_vars

(* A frame the TPDO still has to send: held back by the inhibit time, or   *)
(* due at the next SYNC.                                                   *)
Owed == \/ tp.running /\ tp.again
        \/ tp.type = Acyclic /\ tp.count > 0

(* No change is lost: an event-driven or acyclic TPDO has sent the current *)
(* values of all its variables, or still owes the frame with them.         *)
NoChangeLost ==
    tp.active /\ tp.type \in {EventDriven, Acyclic} =>
      Owed \/ last.data = Mapped(Len(tp.map))

(* The value of a mapped variable reaches the bus: an event-driven TPDO    *)
(* whose last frame is outdated sends the current values, unless the       *)
(* mapping is deactivated first.                                           *)
Outdated == /\ tp.active /\ tp.type = EventDriven
            /\ last.data # Mapped(Len(tp.map))
ChangeReachesBus == Outdated ~> ~Outdated

(* While the inhibit timer runs, neither changes nor SYNCs nor a valid     *)
(* COB-ID send a frame; only its end does, or a new mapping.  Disabling    *)
(* the TPDO or leaving OPERATIONAL stops the timer: what is sent when it   *)
(* is active again may follow the last frame at once.                      *)
InhibitTimeKept ==
    [][sent' # {} /\ tp.running =>
         TimeUp \/ \E m \in Mappings : Map(m)]_vars

(* The name of object 0x1800+i sub-index 1: "COB-ID used by TPDO". *)
CobIdPublished == odCob = tp.cob

(* The docstring of SyncHandler, "mode 1-240: every nth sync a transmit is *)
(* executed".                                                              *)
EveryNthSync ==
    [][Sync /\ sent' # {} /\ tp.type # Acyclic => syncs + 1 = tp.type]_vars
=============================================================================
