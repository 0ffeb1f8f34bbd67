--------------------------------- MODULE LSS ---------------------------------
(***************************************************************************)
(* The LSS slaves of several nodes on one bus: class LSSSlave of           *)
(* services/lss.py.  A command of the master reaches every node; sl holds  *)
(* the fields of each node's slave, its node id and the one that becomes   *)
(* valid with the next reset (NMTSlave.pending_node_id).  A handler is a   *)
(* function of these fields; Answers says whether it sends an answer.      *)
(* started is no field of the code: the rate a timer was started for.      *)
(***************************************************************************)
EXTENDS Naturals, FiniteSets

CONSTANTS
    Node,       \* nodes on the bus
    Width,      \* bits of a part of an LSS address (32 in the code)
    Address,    \* object 0x1018 of each node, parts 0 to 3
    Stores      \* the application stores configurations

VARIABLE sl

Parts   == 0..3
Bounds  == 0..5     \* parts 2 and 3 are given as ranges when identifying
Numbers == 0..(2 ^ Width - 1)
Unset   == 255      \* node id of a node that has none
NodeIds == 1..127
None    == 2 ^ Width        \* no number received yet
Rates   == {"none", "a", "b"}   \* _pending_baudrate

ASSUME WidthAssumption   == Width \in Nat \ {0}
ASSUME AddressAssumption == /\ Address \in [Node -> [Parts -> Numbers]]
                            /\ \A m, n \in Node : Address[m] = Address[n] => m = n
ASSUME StoresAssumption  == Stores \in BOOLEAN

Slave == [mode : {"WAITING", "CONFIGURATION"}, fastscan : 0..255,
          selective : [Parts -> Numbers \cup {None}],
          remote : [Bounds -> Numbers \cup {None}],
          rate : Rates, timers : Nat, started : Rates,
          id : NodeIds \cup {Unset},
          pending : NodeIds \cup {Unset}, stored : NodeIds \cup {Unset}]

(* A node that is switched on; the application gives it the id it stored,  *)
(* which is none of LSSSlave's fields.                                     *)
PoweredOn(id) ==
    [mode |-> "WAITING", fastscan |-> 0,
     selective |-> [i \in Parts |-> None], remote |-> [i \in Bounds |-> None],
     rate |-> "none", timers |-> 0, started |-> "none",
     id |-> id, pending |-> id, stored |-> id]

LSSInit == sl = [n \in Node |-> PoweredOn(Unset)]

-----------------------------------------------------------------------------
(* Switching modes *)

(* NMTSlave.reset, or an NMT command to reset, with on_nmt_state_update. *)
Reset(s) == [s EXCEPT !.id = s.pending, !.mode = "WAITING",
                      !.selective = [i \in Parts |-> None]]

SwitchToWaiting(s) ==
    [(IF s.id = Unset /\ s.pending # Unset THEN Reset(s) ELSE s)
       EXCEPT !.mode = "WAITING"]

(* The four messages of a selective switch, in any order. *)
Received(s, m) == [s.selective EXCEPT ![m.part] = m.number]
Complete(list) == \A i \in DOMAIN list : list[i] # None
Chosen(n, s, m) == Complete(Received(s, m)) /\ Received(s, m) = Address[n]

SwitchSelective(n, s, m) ==
    LET list == Received(s, m)
    IN  [s EXCEPT !.mode = IF Chosen(n, s, m) THEN "CONFIGURATION" ELSE @,
                  !.selective = IF Complete(list) THEN [i \in Parts |-> None]
                                ELSE list]

-----------------------------------------------------------------------------
(* Configuration *)

AcceptsNodeId(id) == id \in NodeIds \cup {Unset}

ConfigureNodeId(s, m) == IF AcceptsNodeId(m.id) THEN [s EXCEPT !.pending = m.id]
                         ELSE s

(* A rate the table lacks is "none". *)
ConfigureBitTiming(s, m) == IF m.rate = "none" THEN s ELSE [s EXCEPT !.rate = m.rate]

(* Variant of ActivateBitTiming that does not look for a rate. *)
ActivateAnyway(s) == [s EXCEPT !.timers = @ + 1, !.started = s.rate]

(* Each command adds a timer to the scheduler. *)
ActivateBitTiming(s) ==
    IF s.rate = "none" THEN s
    ELSE [s EXCEPT !.timers = @ + 1, !.started = s.rate]

(* _change_baudrate, after the delay, hands over the rate known by then. *)
ChangeRate(s) == [s EXCEPT !.timers = @ - 1, !.started = "none", !.rate = "none"]

StoreConfiguration(s) == IF Stores THEN [s EXCEPT !.stored = s.pending] ELSE s

-----------------------------------------------------------------------------
(* Finding nodes *)

Collected(s, m) == [s.remote EXCEPT ![m.part] = m.number]

(* Vendor and product are named, revision and serial number lie in a range. *)
InRange(n, b) == /\ Address[n][0] = b[0] /\ Address[n][1] = b[1]
                 /\ Address[n][2] \in b[2]..b[3]
                 /\ Address[n][3] \in b[4]..b[5]

IdentifyRemote(s, m) ==
    LET list == Collected(s, m)
    IN  [s EXCEPT !.remote = IF Complete(list) THEN [i \in Bounds |-> None]
                             ELSE list]

ScanReset == 128    \* bit_checked 0x80

(* The bits of the number from bit_checked upwards are those of the node. *)
SameBits(x, y, bit) == x \div (2 ^ bit) = y \div (2 ^ bit)

(* Variant of Matches that trusts the master to ask for the right part. *)
MatchesAnyPart(n, s, m) ==
    /\ s.id = Unset /\ m.bit # ScanReset
    /\ SameBits(Address[n][m.sub], m.number, m.bit)

Matches(n, s, m) ==
    /\ s.id = Unset /\ m.bit # ScanReset
    /\ m.sub = s.fastscan
    /\ SameBits(Address[n][m.sub], m.number, m.bit)

(* Variants of Fastscan: it selects a node after any part, or a new scan   *)
(* does not begin with the first part.                                     *)
FastscanTooEarly(n, s, m) ==
    IF s.id = Unset /\ m.bit = ScanReset THEN [s EXCEPT !.fastscan = 0]
    ELSE IF Matches(n, s, m)
    THEN [s EXCEPT !.fastscan = m.next,
                   !.mode = IF m.bit = 0 THEN "CONFIGURATION" ELSE @]
    ELSE s

FastscanGoesOn(n, s, m) ==
    IF Matches(n, s, m)
    THEN [s EXCEPT !.fastscan = m.next,
                   !.mode = IF m.bit = 0 /\ m.sub = 3 THEN "CONFIGURATION" ELSE @]
    ELSE s

Fastscan(n, s, m) ==
    IF s.id = Unset /\ m.bit = ScanReset THEN [s EXCEPT !.fastscan = 0]
    ELSE IF Matches(n, s, m)
    THEN [s EXCEPT !.fastscan = m.next,
                   !.mode = IF m.bit = 0 /\ m.sub = 3 THEN "CONFIGURATION" ELSE @]
    ELSE s

-----------------------------------------------------------------------------
(* handle_msg: which commands are taken in which mode *)

WaitingCommands == {"globalConfiguration", "selective", "identify",
                    "identifyUnset", "fastscan"}
ConfigurationCommands ==
    {"globalWaiting", "configureNodeId", "configureBitTiming",
     "activateBitTiming", "store", "identify", "identifyUnset", "fastscan",
     "inquireIdentity", "inquireNodeId"}

Takes(s, m) == m.cs \in IF s.mode = "WAITING" THEN WaitingCommands
                        ELSE ConfigurationCommands

Handled(n, s, m) ==
    IF ~Takes(s, m) THEN s
    ELSE CASE m.cs = "globalConfiguration" -> [s EXCEPT !.mode = "CONFIGURATION"]
           [] m.cs = "globalWaiting"       -> SwitchToWaiting(s)
           [] m.cs = "selective"           -> SwitchSelective(n, s, m)
           [] m.cs = "configureNodeId"     -> ConfigureNodeId(s, m)
           [] m.cs = "configureBitTiming"  -> ConfigureBitTiming(s, m)
           [] m.cs = "activateBitTiming"   -> ActivateBitTiming(s)
           [] m.cs = "store"               -> StoreConfiguration(s)
           [] m.cs = "identify"            -> IdentifyRemote(s, m)
           [] m.cs = "fastscan"            -> Fastscan(n, s, m)
           [] OTHER                        -> s

Answers(n, s, m) ==
    /\ Takes(s, m)
    /\ CASE m.cs = "selective"     -> Chosen(n, s, m)
         [] m.cs = "identify"      -> /\ Complete(Collected(s, m))
                                      /\ InRange(n, Collected(s, m))
         [] m.cs = "identifyUnset" -> s.id = Unset
         [] m.cs = "fastscan"      -> \/ s.id = Unset /\ m.bit = ScanReset
                                      \/ Matches(n, s, m)
         [] m.cs \in {"globalConfiguration", "globalWaiting",
                      "activateBitTiming"} -> FALSE
         [] OTHER                  -> TRUE

(* One command of the master, taken by every node. *)
Delivered(m) == [n \in Node |-> Handled(n, sl[n], m)]
Answering(m) == {n \in Node : Answers(n, sl[n], m)}

(* The delay of an activate bit timing command is over. *)
BitTimingTimer(n) == sl[n].timers > 0 /\ sl' = [sl EXCEPT ![n] = ChangeRate(@)]

NmtReset == sl' = [n \in Node |-> Reset(sl[n])]

(* A node loses its power and comes back. *)
PowerCycle(n) == sl' = [sl EXCEPT ![n] = PoweredOn(@.stored)]
===============================================================================
