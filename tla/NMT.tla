--------------------------------- MODULE NMT ---------------------------------
(***************************************************************************)
(* The NMT slave: class NMTSlave of services/nmt.py.  Its fields are       *)
(* state, the node id and the id that becomes valid with the next reset.   *)
(* Every other service of the node hangs on its state_callbacks; what they *)
(* do is in their modules, as a function of the state entered.             *)
(***************************************************************************)
EXTENDS Naturals, Sequences

CONSTANTS
    NodeId,     \* node ids the LSS slave may be told
    FirstId     \* the id the node is constructed with

ASSUME NodeIdAssumption == FirstId \in NodeId

VARIABLES
    nmt,    \* the fields of NMTSlave
    sent    \* the frames the node sent in the last step

States == {"INITIALISATION", "STOPPED", "OPERATIONAL", "PRE_OPERATIONAL"}

(* In these states the node communicates. *)
Running == {"OPERATIONAL", "PRE_OPERATIONAL"}

NMTTypeOK ==
    nmt \in [state : States \ {"INITIALISATION"}, id : NodeId, pending : NodeId]

(* A constructed node has gone through INITIALISATION. *)
NMTInit ==
    /\ nmt = [state |-> "PRE_OPERATIONAL", id |-> FirstId, pending |-> FirstId]
    /\ sent = <<>>

(* The states a command leads through. *)
Commands == {"start", "stop", "enter", "reset"}
Path(cs) == CASE cs = "start" -> <<"OPERATIONAL">>
              [] cs = "stop"  -> <<"STOPPED">>
              [] cs = "enter" -> <<"PRE_OPERATIONAL">>
              [] OTHER        -> <<"INITIALISATION", "PRE_OPERATIONAL">>

(* set_state for a state that is not the present one. *)
Entered(n, t) ==
    [n EXCEPT !.state = t,
              !.id = IF t = "INITIALISATION" THEN n.pending ELSE @]

(* Setting the present state again has no effect and calls nobody.  Calls  *)
(* are the states state_callbacks.call tells the services.                 *)
Calls(cs) == IF Path(cs)[1] = nmt.state THEN <<>> ELSE Path(cs)

Obeyed(cs) ==
    LET p == Calls(cs)
    IN  CASE p = <<>>   -> nmt
          [] Len(p) = 1 -> Entered(nmt, p[1])
          [] OTHER      -> Entered(Entered(nmt, p[1]), p[2])

BootUp(cs) == IF cs = "reset" THEN <<[kind |-> "bootup", id |-> nmt.pending]>>
              ELSE <<>>

(* The LSS slave notes a new id. *)
ConfigureNodeId(id) == nmt' = [nmt EXCEPT !.pending = id] /\ sent' = <<>>
===============================================================================
