--------------------------- MODULE LSSCommissioning ---------------------------
(***************************************************************************)
(* Commissioning: an LSS master gives node ids to nodes that have none.    *)
(*                                                                         *)
(* The master is no part of durand.  It finds a node by fastscan, bit by   *)
(* bit, or selects one whose address it knows, configures and stores an id *)
(* it has not used before, and lets all nodes leave the mode.  In between  *)
(* it changes the bit rate of the whole bus or looks for nodes in a range  *)
(* of serial numbers.  Answers are lost, nodes lose their power, and an    *)
(* NMT master resets the bus at any time.                                  *)
(***************************************************************************)
EXTENDS LSS

CONSTANTS
    Known,      \* nodes whose addresses the master knows
    Patient,    \* the master waits for a change of rate to be over
    Spare,      \* bound: ids the master gives to nodes it knows
    MaxId,      \* bound: ids the master has
    MaxFaults   \* bound: lost answers, power failures and resets

VARIABLES ma, faults

vars == <<sl, ma, faults>>

Phases == {"idle", "reset", "scan", "confirm", "select", "probe", "configure",
           "store", "leave", "rate", "activate"}

Zeros == [i \in Parts |-> 0]

ASSUME KnownAssumption == Known \subseteq Node
ASSUME PatientAssumption == Patient \in BOOLEAN
ASSUME IdsAssumption   == /\ Spare \in Nat /\ MaxId \in Nat /\ MaxFaults \in Nat
                          /\ Spare <= MaxId /\ MaxId <= 127

TypeOK ==
    /\ sl \in [Node -> Slave]
    /\ ma \in [phase : Phases, sub : 0..5, bit : 0..Width, id : 1..MaxId + 1,
               number : [Parts -> Numbers]]
    /\ faults \in 0..MaxFaults

Init ==
    /\ LSSInit
    /\ ma = [phase |-> "idle", sub |-> 0, bit |-> 0, id |-> 1, number |-> Zeros]
    /\ faults = 0

-----------------------------------------------------------------------------
(* A command and what the master does when it hears an answer or none; an  *)
(* answer may be lost on the way.                                          *)
Exchange(m, onAnswer, onSilence) ==
    /\ sl' = Delivered(m)
    /\ \/ Answering(m) # {} /\ ma' = onAnswer /\ UNCHANGED faults
       \/ Answering(m) = {} /\ ma' = onSilence /\ UNCHANGED faults
       \/ /\ Answering(m) # {} /\ ma' = onSilence /\ onSilence # onAnswer
          /\ faults < MaxFaults /\ faults' = faults + 1

Tell(m, next) == Exchange(m, next, next)

To(phase) == [ma EXCEPT !.phase = phase]
Idle == [ma EXCEPT !.phase = "idle", !.sub = 0, !.bit = 0, !.number = Zeros]
Command(cs) == [cs |-> cs]

(* Fastscan.  Everyone leaves the configuration first. *)
StartScan ==
    /\ ma.phase = "idle" /\ ma.id <= MaxId
    /\ \E n \in Node : sl[n].id = Unset
    /\ Tell(Command("globalWaiting"), To("reset"))

ScanMessage(number, bit, sub, next) ==
    [cs |-> "fastscan", number |-> number, bit |-> bit, sub |-> sub, next |-> next]

ResetScan ==
    /\ ma.phase = "reset"
    /\ Exchange(ScanMessage(0, ScanReset, 0, 0),
                [ma EXCEPT !.phase = "scan", !.bit = Width - 1], Idle)

(* A bit nobody answers to is one. *)
ScanBit ==
    LET next == [ma EXCEPT !.phase = IF ma.bit = 0 THEN "confirm" ELSE @,
                           !.bit = IF @ = 0 THEN 0 ELSE @ - 1]
    IN  /\ ma.phase = "scan"
        /\ Exchange(ScanMessage(ma.number[ma.sub], ma.bit, ma.sub, ma.sub),
                    next, [next EXCEPT !.number[ma.sub] = @ + 2 ^ ma.bit])

ConfirmPart ==
    /\ ma.phase = "confirm"
    /\ Exchange(ScanMessage(ma.number[ma.sub], 0, ma.sub, (ma.sub + 1) % 4),
                IF ma.sub = 3 THEN [ma EXCEPT !.phase = "configure", !.sub = 0]
                ELSE [ma EXCEPT !.phase = "scan", !.sub = @ + 1,
                                !.bit = Width - 1],
                Idle)

(* Selective switch of a node whose address is known. *)
StartSelect ==
    /\ ma.phase = "idle" /\ ma.id <= Spare
    /\ \E n \in Known :
         Tell(Command("globalWaiting"),
              [ma EXCEPT !.phase = "select", !.number = Address[n]])

SelectPart ==
    /\ ma.phase = "select"
    /\ Exchange([cs |-> "selective", part |-> ma.sub,
                 number |-> ma.number[ma.sub]],
                IF ma.sub = 3 THEN [ma EXCEPT !.phase = "configure", !.sub = 0]
                ELSE To("leave"),
                IF ma.sub = 3 THEN Idle ELSE [ma EXCEPT !.sub = @ + 1])

(* Each id is used once, whether the master hears of it or not. *)
GiveId ==
    /\ ma.phase = "configure"
    /\ Exchange([cs |-> "configureNodeId", id |-> ma.id],
                [ma EXCEPT !.phase = "store", !.id = @ + 1],
                [ma EXCEPT !.phase = "leave", !.id = @ + 1])

Store == ma.phase = "store" /\ Tell(Command("store"), To("leave"))
Leave == ma.phase = "leave" /\ Tell(Command("globalWaiting"), Idle)

(* A new bit rate for the whole bus; a patient master begins once the last *)
(* change is over.                                                         *)
StartRate ==
    /\ ma.phase = "idle"
    /\ Patient => \A n \in Node : sl[n].timers = 0
    /\ Tell(Command("globalConfiguration"), To("rate"))

GiveRate ==
    /\ ma.phase = "rate"
    /\ \E r \in Rates : Exchange([cs |-> "configureBitTiming", rate |-> r],
                                 To("activate"), To("leave"))

Activate ==
    ma.phase = "activate" /\ Tell(Command("activateBitTiming"), To("leave"))

(* Who has this vendor and product, and a serial number in this range? *)
SerialRange(n) == [i \in Bounds |-> IF i < 4 THEN Address[n][IF i = 3 THEN 2 ELSE i]
                              ELSE IF i = 4 THEN 0 ELSE Address[n][3]]

StartProbe ==
    /\ ma.phase = "idle"
    /\ Tell(Command("identifyUnset"), To("probe"))

ProbePart ==
    /\ ma.phase = "probe"
    /\ \E n \in Known :
         Tell([cs |-> "identify", part |-> ma.sub, number |-> SerialRange(n)[ma.sub]],
              IF ma.sub = 5 THEN Idle ELSE [ma EXCEPT !.sub = @ + 1])

-----------------------------------------------------------------------------
(* Faults.  A node that misses part of a selective switch takes the next   *)
(* one out of step, so the model has no fault in the middle of one.        *)
Fault ==
    /\ faults < MaxFaults /\ faults' = faults + 1
    /\ ma.phase # "select"
    /\ UNCHANGED ma

BusReset == Fault /\ NmtReset
PowerFailure == Fault /\ \E n \in Node : PowerCycle(n)

ChangeRates == (\E n \in Node : BitTimingTimer(n)) /\ UNCHANGED <<ma, faults>>

Scan   == ResetScan \/ ScanBit \/ ConfirmPart
Finish == GiveId \/ Store \/ Leave
Work   == Scan \/ SelectPart \/ Finish \/ GiveRate \/ Activate \/ ProbePart

Next == \/ StartScan \/ StartSelect \/ StartRate \/ StartProbe \/ Work
        \/ ChangeRates \/ BusReset \/ PowerFailure

Spec == Init /\ [][Next]_vars

(* The master finishes what it began and comes back to scanning; the       *)
(* scheduler calls its timers.                                             *)
FairSpec == /\ Spec
            /\ WF_vars(Work) /\ SF_vars(StartScan) /\ WF_vars(ChangeRates)

-----------------------------------------------------------------------------
(* Properties *)

Selected == {n \in Node : sl[n].mode = "CONFIGURATION"}

(* When the master gives an id, only the node whose address it has found   *)
(* or named listens, although every node hears the same commands and keeps *)
(* its place in the scan by itself.                                        *)
OnlyFoundIsSelected ==
    ma.phase = "configure" => \A n \in Selected : Address[n] = ma.number

(* No two nodes have the same id, are about to take it, or come back with  *)
(* it after a power failure.                                               *)
IdsAreUnique ==
    \A m, n \in Node : m # n =>
      LET Ids(s) == {s.id, s.pending, s.stored} \ {Unset}
      IN  Ids(sl[m]) \cap Ids(sl[n]) = {}

(* The application is told the bit rate the timer was started for, which   *)
(* the slave keeps in a field of its own until the timer expires           *)
(* (set_baudrate_change_callback: "signature (baudrate, delay)"), whatever *)
(* rates are refused and resets and mode switches come in between.  The    *)
(* master is patient: a second activation before the first timer expires   *)
(* leaves the second timer without a rate.                                 *)
RateIsKnown ==
    \A n \in Node :
      sl[n].timers > 0 => sl[n].rate # "none" /\ sl[n].rate = sl[n].started

(* Once nothing is lost any more, each node gets an id and keeps it. *)
AllGetIds == <>[](\A n \in Node : sl[n].id # Unset)
===============================================================================
