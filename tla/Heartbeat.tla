------------------------------ MODULE Heartbeat ------------------------------
(***************************************************************************)
(* The heartbeat producer: class HeartbeatProducer of services/heartbeat.py.*)
(* Each heartbeat adds the timer of the next one to the scheduler.         *)
(***************************************************************************)
EXTENDS NMT

VARIABLE hb     \* the interval written, _handle, and the timers it has in
                \* the scheduler

Handles == {"None", "entry"}

HeartbeatTypeOK == hb \in [interval : Nat, handle : Handles, timers : Nat]

HeartbeatInit == hb = [interval |-> 0, handle |-> "None", timers |-> 0]

HeartbeatFrame == [kind |-> "heartbeat", id |-> nmt.id, state |-> nmt.state]

Cancelled(h) == IF h.handle = "None" THEN h
                ELSE [h EXCEPT !.handle = "None", !.timers = @ - 1]

(* _process_heartbeat, called by _update_interval or by a timer. *)
Armed(h) == [h EXCEPT !.handle = "entry", !.timers = @ + 1]

UpdateInterval(interval) ==
    LET h == [Cancelled(hb) EXCEPT !.interval = interval]
    IN  IF interval = 0 THEN hb' = h /\ sent' = <<>>
        ELSE hb' = Armed(h) /\ sent' = <<HeartbeatFrame>>

(* Variant of ProcessHeartbeat that sends once. *)
ProcessOnce ==
    /\ hb.timers > 0
    /\ hb' = [hb EXCEPT !.timers = @ - 1, !.handle = "None"]
    /\ sent' = <<HeartbeatFrame>>

ProcessHeartbeat ==
    /\ hb.timers > 0
    /\ hb' = Armed([hb EXCEPT !.timers = @ - 1])
    /\ sent' = <<HeartbeatFrame>>
===============================================================================
