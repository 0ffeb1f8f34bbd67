--------------------------------- MODULE EMCY ---------------------------------
(***************************************************************************)
(* The emergency producer: class EMCYProducer of services/emcy.py.         *)
(***************************************************************************)
EXTENDS NMT

CONSTANTS
    Emergency,  \* what the application reports
    Online      \* whether inhibit time and COB-ID change while a timer runs

ASSUME OnlineAssumption == Online \in BOOLEAN

VARIABLES
    em,     \* the fields of EMCYProducer
    owed    \* history: the latest emergency the bus has still to see

None == [code |-> "none"]       \* _deferred_emcy is None
Other == "other"                \* an identifier that is not 0x80 + node id

EMCYTypeOK ==
    /\ em \in [id : NodeId \cup {Other}, enabled : BOOLEAN, inhibit : BOOLEAN,
               timer : BOOLEAN, deferred : Emergency \cup {None},
               stopped : BOOLEAN]
    /\ owed \in Emergency \cup {None}

EMCYInit ==
    /\ em = [id |-> FirstId, enabled |-> TRUE, inhibit |-> FALSE,
             timer |-> FALSE, deferred |-> None, stopped |-> FALSE]
    /\ owed = None

(* Variant of EMCYEntered that misses the stop. *)
EMCYEnteredRunning(e, t, id) ==
    IF t \in Running /\ e.stopped
    THEN [e EXCEPT !.id = id, !.enabled = TRUE, !.stopped = FALSE]
    ELSE e

(* _update_nmt_state: the predefined COB-ID comes back with the first      *)
(* running state after a stop, not with a reset.                           *)
EMCYEntered(e, t, id) ==
    IF t = "STOPPED" THEN [e EXCEPT !.stopped = TRUE]
    ELSE IF t \in Running /\ e.stopped
    THEN [e EXCEPT !.id = id, !.enabled = TRUE, !.stopped = FALSE]
    ELSE e

EmergencyFrame(e, code) == [kind |-> "emcy", id |-> e.id, code |-> code]

(* _send: nothing while stopped; otherwise the inhibit time starts. *)
Sends(e)  == ~e.stopped
Timed(e)  == [e EXCEPT !.timer = Sends(e) /\ e.inhibit]
Sent(e, code) == IF Sends(e) THEN <<EmergencyFrame(e, code)>> ELSE <<>>

(* Variant of Report that sends when one waits already. *)
ReportOvertaking(code) ==
    IF ~em.enabled
    THEN em' = em /\ sent' = <<>> /\ owed' = owed
    ELSE IF em.timer /\ em.deferred = None
    THEN em' = [em EXCEPT !.deferred = code] /\ sent' = <<>> /\ owed' = code
    ELSE em' = Timed(em) /\ sent' = Sent(em, code) /\ owed' = owed

(* set.  A running timer makes it wait, and an emergency that waited       *)
(* already is dropped for the later one.                                   *)
Report(code) ==
    IF ~em.enabled
    THEN em' = em /\ sent' = <<>> /\ owed' = owed
    ELSE IF em.timer
    THEN em' = [em EXCEPT !.deferred = code] /\ sent' = <<>> /\ owed' = code
    ELSE em' = Timed(em) /\ sent' = Sent(em, code) /\ owed' = owed

(* _time_up, without a look at the enable bit. *)
Expired(e) == [(IF e.deferred = None THEN [e EXCEPT !.timer = FALSE] ELSE Timed(e))
                 EXCEPT !.deferred = None]

(* Variant of Late: the emergency is cleared before it is sent. *)
LateCleared(e) == <<>>

(* What it sends. *)
Late(e) == IF e.deferred = None THEN <<>> ELSE Sent(e, e.deferred)

(* A stopped node owes nobody an emergency. *)
TimeUp ==
    /\ em.timer
    /\ em' = Expired(em)
    /\ sent' = Late(em)
    /\ owed' = IF em.stopped \/ sent' = Sent(em, owed) THEN None ELSE owed

(* _update_inhibit_time cancels the timer, a waiting emergency stays. *)
UpdateInhibitTime(inhibit) ==
    /\ Online \/ ~em.timer
    /\ em' = [em EXCEPT !.inhibit = inhibit, !.timer = FALSE]
    /\ sent' = <<>> /\ owed' = owed

(* _downloaded_cob_id, the cob_id and the enable setter. *)
SetEmcyCobId(id, enabled) ==
    /\ Online \/ ~em.timer
    /\ em' = [em EXCEPT !.id = id, !.enabled = enabled]
    /\ sent' = <<>> /\ owed' = owed
===============================================================================
