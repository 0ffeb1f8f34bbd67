------------------------------- MODULE Services -------------------------------
(***************************************************************************)
(* The services of a node that follow its NMT state and its node id:       *)
(* emergencies, heartbeat and the identifiers of the SDO servers.  NMT     *)
(* commands and the LSS slave's new node id come between the writes to the *)
(* dictionary, the application's reports and the timers of the scheduler,  *)
(* in any order.                                                           *)
(***************************************************************************)
EXTENDS EMCY, Heartbeat, SDOSubscription

CONSTANT Interval   \* heartbeat intervals written; 0 turns it off

ASSUME IntervalAssumption == Interval \subseteq Nat

VARIABLE rewritten  \* history: servers whose COB-IDs were written since the
                    \* node last entered a running state

vars == <<nmt, sent, em, owed, hb, sdo, subs, rewritten>>

TypeOK == /\ NMTTypeOK /\ EMCYTypeOK /\ HeartbeatTypeOK /\ SDOTypeOK
          /\ rewritten \subseteq Further

Init == /\ NMTInit /\ EMCYInit /\ HeartbeatInit /\ SDOInit
        /\ rewritten = {}

-----------------------------------------------------------------------------
(* handle_msg of the NMT slave.  state_callbacks.call calls the services,  *)
(* once for each state the command leads through.                          *)

EMCYAfter(cs, id) ==
    LET p == Calls(cs)
    IN  CASE p = <<>>   -> em
          [] Len(p) = 1 -> EMCYEntered(em, p[1], id)
          [] OTHER      -> EMCYEntered(EMCYEntered(em, p[1], id), p[2], id)

ServerAfter(s, cs, id) ==
    LET p == Calls(cs)
    IN  CASE p = <<>>   -> At(s)
          [] Len(p) = 1 -> ServerEntered(s, At(s), p[1], id)
          [] OTHER      -> ServerEntered(s, ServerEntered(s, At(s), p[1], id),
                                         p[2], id)

Command(cs) ==
    /\ nmt' = Obeyed(cs) /\ sent' = BootUp(cs)
    /\ em' = EMCYAfter(cs, Obeyed(cs).id)
    /\ Merged([s \in Server |-> ServerAfter(s, cs, Obeyed(cs).id)])
    /\ rewritten' = IF Calls(cs) # <<>> /\ Obeyed(cs).state \in Running THEN {}
                    ELSE rewritten
    /\ UNCHANGED <<owed, hb>>

LSS == /\ \E id \in NodeId : ConfigureNodeId(id)
       /\ UNCHANGED <<em, owed, hb, sdo, subs, rewritten>>

Emergencies ==
    /\ \/ \E code \in Emergency : Report(code)
       \/ \E inhibit \in BOOLEAN : UpdateInhibitTime(inhibit)
       \/ \E id \in {em.id, Other}, enabled \in BOOLEAN : SetEmcyCobId(id, enabled)
    /\ UNCHANGED <<nmt, hb, sdo, subs, rewritten>>

InhibitTimer == TimeUp /\ UNCHANGED <<nmt, hb, sdo, subs, rewritten>>

Intervals == /\ \E interval \in Interval : UpdateInterval(interval)
             /\ UNCHANGED <<nmt, em, owed, sdo, subs, rewritten>>

HeartbeatTimer == ProcessHeartbeat /\ UNCHANGED <<nmt, em, owed, sdo, subs, rewritten>>

COBIds ==
    /\ \E s \in Further :
         /\ \/ \E rx \in Choice[s], off \in BOOLEAN : UpdateCobRx(s, rx, off)
            \/ \E off \in BOOLEAN : UpdateCobTx(s, off)
         /\ rewritten' = rewritten \cup {s}
    /\ sent' = <<>> /\ UNCHANGED <<nmt, em, owed, hb>>

Next == \/ \E cs \in Commands : Command(cs)
        \/ LSS \/ Emergencies \/ InhibitTimer \/ Intervals \/ HeartbeatTimer
        \/ COBIds

Spec == Init /\ [][Next]_vars

(* The scheduler calls every callback when its time has come. *)
FairSpec == Spec /\ WF_vars(InhibitTimer) /\ WF_vars(HeartbeatTimer)

-----------------------------------------------------------------------------
(* Properties *)

Frame(kind) == sent # <<>> /\ sent[1].kind = kind

(* The node is one node: it is booted up, and answers SDO requests while   *)
(* it communicates, under the id it has, whenever the LSS slave noted      *)
(* another one.                                                            *)
OneIdentity ==
    /\ Frame("bootup") => sent[1].id = nmt.id
    /\ nmt.state \in Running => \A i \in NodeId :
         subs[Default[i]] = IF i = nmt.id THEN First ELSE NoOne

(* While an emergency waits, no other is sent before it. *)
NothingOvertakes ==
    [][owed # None /\ Frame("emcy")' => sent'[1].code = owed]_vars

(* A deferred emergency leaves the node, unless a later one replaces it or *)
(* the node is stopped when its time comes.                                *)
EmergencyReachesBus == \A code \in Emergency : owed = code ~> owed # code

(* A timer runs exactly for what it is there for.  There is one chain of   *)
(* heartbeat timers, whatever was written to object 0x1017 while timers    *)
(* run, and none when the interval is 0; an emergency that was not sent at *)
(* once waits for a timer that runs, as long as inhibit time and COB-ID    *)
(* are set while no timer runs; and a stopped node sends none, also not    *)
(* one that was deferred before it was stopped (_stopped of emcy.py).      *)
OneChain == hb.timers = IF hb.interval > 0 THEN 1 ELSE 0
EmergencyWaits == owed # None => em.timer /\ em.deferred = owed
StoppedSendsNone == Frame("emcy") => nmt.state \in Running
TimersFit == OneChain /\ EmergencyWaits /\ StoppedSendsNone

(* Heartbeats go on through NMT commands and changes of the node id. *)
HeartbeatGoesOn == []<>(hb.interval = 0 \/ Frame("heartbeat"))

(* SDO servers and the table of subscriptions, whatever order COB-IDs and  *)
(* NMT commands came in, and also after callbacks that raised halfway.  A  *)
(* message reaches a server only under the identifier the server has, as   *)
(* handle_msg asserts; while the node communicates, exactly the servers    *)
(* with two valid COB-IDs are reached; while it is stopped, only servers   *)
(* whose COB-IDs were written since it last entered a running state.       *)
SubscribedIsOwn ==
    \A c \in CanId : subs[c] # NoOne => sdo[subs[c]].rx = c
ValidIsReached ==
    nmt.state \in Running => \A s \in Server :
      Valid(sdo[s]) <=> subs[sdo[s].rx] = s
StoppedIsSilent ==
    nmt.state = "STOPPED" => \A c \in CanId : subs[c] \in rewritten \cup {NoOne}
ServersFit == SubscribedIsOwn /\ ValidIsReached /\ StoppedIsSilent
===============================================================================
