------------------------------- MODULE Transfer -------------------------------
(***************************************************************************)
(* What an SDO server promises its client, as if a transfer were a single  *)
(* step: between the request and a success there is one moment at which    *)
(* the whole value was stored or read.  A transfer that fails may have     *)
(* happened or not, but never in part.                                     *)
(***************************************************************************)
EXTENDS Sequences

CONSTANTS
    Object,     \* objects of the dictionary
    Byte,       \* what a value is a sequence of
    Request,    \* what a client may ask for: [op, mux, data]
    Written     \* values the application writes, by object

VARIABLES
    value,      \* the dictionary
    pending,    \* the client's request, or NoRequest
    effect,     \* whether it has happened, and the value stored or read
    outcome     \* what the client was told last: [ok, data]

vars == <<value, pending, effect, outcome>>

NoRequest == [op |-> "none"]
NotYet    == [done |-> FALSE, data |-> <<>>]
Failure   == [ok |-> FALSE, data |-> <<>>]

Init ==
    /\ value \in [Object -> Seq(Byte)]
    /\ pending = NoRequest /\ effect = NotYet /\ outcome = Failure

Ask(r) ==
    /\ pending = NoRequest
    /\ pending' = r
    /\ UNCHANGED <<value, effect, outcome>>

(* The request happens, once, and as a whole. *)
Store ==
    /\ pending.op = "download" /\ ~effect.done
    /\ value' = [value EXCEPT ![pending.mux] = pending.data]
    /\ effect' = [done |-> TRUE, data |-> pending.data]
    /\ UNCHANGED <<pending, outcome>>

Read ==
    /\ pending.op = "upload" /\ ~effect.done
    /\ effect' = [done |-> TRUE, data |-> value[pending.mux]]
    /\ UNCHANGED <<value, pending, outcome>>

Answer(result) ==
    /\ pending # NoRequest
    /\ pending' = NoRequest /\ effect' = NotYet
    /\ outcome' = result
    /\ UNCHANGED value

Succeed == effect.done /\ Answer([ok |-> TRUE, data |-> effect.data])
Fail    == Answer(Failure)

(* The application has the dictionary as well. *)
Write(m, data) ==
    /\ value' = [value EXCEPT ![m] = data]
    /\ UNCHANGED <<pending, effect, outcome>>

Next == \/ \E r \in Request : Ask(r)
        \/ Store \/ Read \/ Succeed \/ Fail
        \/ \E w \in Written : Write(w[1], w[2])

Spec == Init /\ [][Next]_vars
===============================================================================
