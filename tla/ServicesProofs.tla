---------------------------- MODULE ServicesProofs ----------------------------
(***************************************************************************)
(* Theorems about Services, for every set of node ids, SDO servers,        *)
(* identifiers, emergencies and heartbeat intervals.                       *)
(***************************************************************************)
EXTENDS Services, Integers, TLAPS

-----------------------------------------------------------------------------
(* NMT *)

NMTState == [state : States, id : NodeId, pending : NodeId]

LEMMA EnteredState ==
    ASSUME NEW n \in NMTState, NEW t \in States
    PROVE  /\ Entered(n, t) \in NMTState
           /\ Entered(n, t).state = t
           /\ Entered(n, t).id = IF t = "INITIALISATION" THEN n.pending ELSE n.id
  BY DEF NMTState, Entered

(* A command leads into the state it names, through INITIALISATION when it *)
(* resets the node, or nowhere when the node is there already.             *)
LEMMA CommandStates ==
    ASSUME NMTTypeOK, NEW cs \in Commands
    PROVE  /\ Obeyed(cs) \in NMTState /\ Obeyed(cs).state # "INITIALISATION"
           /\ cs = "reset" => /\ Calls(cs) = <<"INITIALISATION", "PRE_OPERATIONAL">>
                              /\ Obeyed(cs).id = nmt.pending
                              /\ Obeyed(cs).state = "PRE_OPERATIONAL"
           /\ cs # "reset" => /\ Obeyed(cs).id = nmt.id
                              /\ \/ Calls(cs) = <<>> /\ Obeyed(cs) = nmt
                                 \/ Calls(cs) = <<Obeyed(cs).state>>
<1>1. nmt \in NMTState /\ nmt.state # "INITIALISATION"
  BY DEF NMTTypeOK, NMTState, States
<1>2. CASE cs = "reset"
  <2>1. Calls(cs) = <<"INITIALISATION", "PRE_OPERATIONAL">>
    BY <1>1, <1>2 DEF Calls, Path
  <2> DEFINE n == Entered(nmt, "INITIALISATION")
  <2>2. Obeyed(cs) = Entered(n, "PRE_OPERATIONAL")
    BY <2>1 DEF Obeyed
  <2>3. n \in NMTState /\ n.id = nmt.pending
    BY <1>1, EnteredState DEF States
  <2>4. "PRE_OPERATIONAL" \in States
    BY DEF States
  <2> HIDE DEF n
  <2>5. /\ Entered(n, "PRE_OPERATIONAL") \in NMTState
        /\ Entered(n, "PRE_OPERATIONAL").state = "PRE_OPERATIONAL"
        /\ Entered(n, "PRE_OPERATIONAL").id = n.id
    BY <2>3, <2>4, EnteredState
  <2> QED
    BY <1>2, <2>1, <2>2, <2>3, <2>5
<1>3. CASE cs # "reset"
  <2>1. PICK t \in States \ {"INITIALISATION"} : Path(cs) = <<t>>
    BY <1>3 DEF Commands, Path, States
  <2>2. CASE t = nmt.state
    <3>1. Calls(cs) = <<>>
      BY <2>1, <2>2 DEF Calls
    <3> QED
      BY <1>1, <1>3, <3>1 DEF Obeyed
  <2>3. CASE t # nmt.state
    <3>1. Calls(cs) = <<t>>
      BY <2>1, <2>3 DEF Calls
    <3>2. Obeyed(cs) = Entered(nmt, t)
      BY <3>1 DEF Obeyed
    <3> QED
      BY <1>1, <1>3, <2>1, <3>1, <3>2, EnteredState
  <2> QED
    BY <2>2, <2>3
<1> QED
  BY <1>2, <1>3

LEMMA InitNMT == NMTInit => NMTTypeOK
  BY NodeIdAssumption DEF NMTInit, NMTTypeOK, States

LEMMA NextNMT == NMTTypeOK /\ [Next]_vars => NMTTypeOK'
<1> SUFFICES ASSUME NMTTypeOK, [Next]_vars PROVE NMTTypeOK'
  OBVIOUS
<1>1. ASSUME NEW cs \in Commands, Command(cs) PROVE NMTTypeOK'
  BY <1>1, CommandStates DEF Command, NMTTypeOK, NMTState
<1>2. CASE LSS
  BY <1>2 DEF LSS, ConfigureNodeId, NMTTypeOK
<1>3. CASE UNCHANGED nmt
  BY <1>3 DEF NMTTypeOK
<1> QED
  BY <1>1, <1>2, <1>3
  DEF Next, vars, Emergencies, InhibitTimer, Intervals, HeartbeatTimer, COBIds,
      Report, UpdateInhibitTime, SetEmcyCobId, TimeUp, UpdateInterval,
      ProcessHeartbeat, UpdateCobRx, UpdateCobTx

-----------------------------------------------------------------------------
(* Heartbeat *)

HeartbeatState == [interval : Nat, handle : Handles, timers : Int]

LEMMA TimersState ==
    ASSUME NEW h \in HeartbeatState, NEW t \in Int, NEW b \in Handles
    PROVE  /\ [h EXCEPT !.handle = b, !.timers = t] \in HeartbeatState
           /\ [h EXCEPT !.timers = t] \in HeartbeatState
  BY Zenon DEF HeartbeatState

LEMMA IntervalState ==
    ASSUME NEW h \in HeartbeatState, NEW i \in Nat
    PROVE  [h EXCEPT !.interval = i] \in HeartbeatState
  BY Zenon DEF HeartbeatState

LEMMA CancelledState ==
    ASSUME NEW h \in HeartbeatState
    PROVE  /\ Cancelled(h) \in HeartbeatState
           /\ Cancelled(h).handle = "None"
           /\ Cancelled(h).timers = IF h.handle = "None" THEN h.timers ELSE h.timers - 1
<1>1. CASE h.handle # "None"
  <2>1. h.timers - 1 \in Int
    BY DEF HeartbeatState, Handles
  <2>2. Cancelled(h) \in HeartbeatState
    BY <1>1, <2>1, TimersState DEF Cancelled, Handles
  <2>3. Cancelled(h).handle = "None" /\ Cancelled(h).timers = h.timers - 1
    BY <1>1 DEF HeartbeatState, Handles, Cancelled
  <2> QED
    BY <1>1, <2>2, <2>3
<1>2. CASE h.handle = "None"
  BY <1>2 DEF HeartbeatState, Handles, Cancelled
<1> QED
  BY <1>1, <1>2

LEMMA ArmedState ==
    ASSUME NEW h \in HeartbeatState
    PROVE  /\ Armed(h) \in HeartbeatState
           /\ Armed(h).handle = "entry"
           /\ Armed(h).interval = h.interval
           /\ Armed(h).timers = h.timers + 1
<1>1. h.timers + 1 \in Int
  BY DEF HeartbeatState, Handles
<1>2. Armed(h) \in HeartbeatState
  BY <1>1, TimersState DEF Armed, Handles
<1>3. /\ Armed(h).handle = "entry"
      /\ Armed(h).interval = h.interval
      /\ Armed(h).timers = h.timers + 1
  BY DEF HeartbeatState, Handles, Armed
<1> QED
  BY <1>2, <1>3

(* _handle is set exactly while there is the one timer. *)
ChainInv == /\ hb \in HeartbeatState
            /\ hb.timers = (IF hb.interval > 0 THEN 1 ELSE 0)
            /\ hb.handle = "entry" <=> hb.timers = 1

LEMMA InitChain == HeartbeatInit => ChainInv
  BY DEF HeartbeatInit, ChainInv, HeartbeatState, Handles

LEMMA NextChain == ChainInv /\ [Next]_vars => ChainInv'
<1> SUFFICES ASSUME ChainInv, [Next]_vars PROVE ChainInv'
  OBVIOUS
<1>1. ASSUME NEW i \in Interval, UpdateInterval(i) PROVE ChainInv'
  <2> DEFINE c == Cancelled(hb)
             d == [c EXCEPT !.interval = i]
  <2>1. i \in Nat /\ hb' = IF i = 0 THEN d ELSE Armed(d)
    BY <1>1, IntervalAssumption DEF UpdateInterval
  <2>2. c \in HeartbeatState /\ c.handle = "None" /\ c.timers = 0
    <3>1. hb \in HeartbeatState /\ (hb.handle = "None" => hb.timers = 0)
                               /\ (hb.handle # "None" => hb.timers = 1)
      BY DEF ChainInv, HeartbeatState, Handles
    <3> QED
      BY <3>1, CancelledState
  <2> HIDE DEF c
  <2>3. d \in HeartbeatState /\ d.interval = i /\ d.handle = "None" /\ d.timers = 0
    <3>1. d \in HeartbeatState
      BY <2>1, <2>2, IntervalState
    <3> QED
      BY <2>2, <3>1 DEF HeartbeatState, Handles
  <2> HIDE DEF d
  <2> QED
    BY <2>1, <2>3, ArmedState DEF ChainInv
<1>2. CASE HeartbeatTimer
  <2> DEFINE c == [hb EXCEPT !.timers = 0]
  <2>1. hb.timers = 1 /\ hb.interval > 0 /\ hb' = Armed(c)
    BY <1>2 DEF HeartbeatTimer, ProcessHeartbeat, ChainInv
  <2>2. c \in HeartbeatState
    <3>1. 0 \in Int /\ "None" \in Handles
      BY DEF Handles
    <3> QED
      BY <3>1, TimersState DEF ChainInv
  <2>3. c.interval = hb.interval /\ c.timers = 0
    BY DEF ChainInv, HeartbeatState, Handles
  <2> HIDE DEF c
  <2> QED
    BY <2>1, <2>2, <2>3, ArmedState DEF ChainInv
<1>3. CASE UNCHANGED hb
  BY <1>3 DEF ChainInv
<1> QED
  BY <1>1, <1>2, <1>3
  DEF Next, vars, Command, LSS, Emergencies, InhibitTimer, Intervals, COBIds

-----------------------------------------------------------------------------
(* Emergencies *)

EmergencyState ==
    [id : NodeId \cup {Other}, enabled : BOOLEAN, inhibit : BOOLEAN,
     timer : BOOLEAN, deferred : Emergency \cup {None}, stopped : BOOLEAN]

(* The producer is stopped exactly while the node is. *)
StopsWith(e, state) == e.stopped <=> state = "STOPPED"

EmergencyInv ==
    /\ em \in EmergencyState
    /\ StopsWith(em, nmt.state)
    /\ ~Online => EmergencyWaits

LEMMA EnteredEmergency ==
    ASSUME NEW e \in EmergencyState, NEW t \in States, NEW id \in NodeId
    PROVE  LET f == EMCYEntered(e, t, id)
           IN  /\ f \in EmergencyState
               /\ f.timer = e.timer /\ f.deferred = e.deferred
               /\ t # "INITIALISATION" => StopsWith(f, t)
<1> USE DEF EMCYEntered, EmergencyState, StopsWith, Running, States
<1>1. CASE t = "STOPPED"
  BY <1>1
<1>2. CASE t \in Running /\ e.stopped
  BY <1>2
<1>3. CASE t # "STOPPED" /\ ~(t \in Running /\ e.stopped)
  BY <1>3
<1> QED
  BY <1>1, <1>2, <1>3

LEMMA CommandEmergency ==
    ASSUME NMTTypeOK, EmergencyInv, NEW cs \in Commands, Command(cs)
    PROVE  /\ em' \in EmergencyState
           /\ em'.timer = em.timer /\ em'.deferred = em.deferred
           /\ StopsWith(em', nmt'.state)
<1> DEFINE o == Obeyed(cs)
<1>1. /\ em' = EMCYAfter(cs, o.id) /\ nmt' = o
      /\ em \in EmergencyState /\ StopsWith(em, nmt.state)
  BY DEF Command, EmergencyInv
<1>2. o \in NMTState /\ o.state # "INITIALISATION" /\ o.id \in NodeId /\ o.state \in States
  BY CommandStates DEF NMTState
<1>3. CASE cs = "reset"
  <2> DEFINE e == EMCYEntered(em, "INITIALISATION", o.id)
  <2>1. em' = EMCYEntered(e, "PRE_OPERATIONAL", o.id) /\ o.state = "PRE_OPERATIONAL"
    BY <1>1, <1>3, CommandStates DEF EMCYAfter
  <2>2. e \in EmergencyState /\ e.timer = em.timer /\ e.deferred = em.deferred
    BY <1>1, <1>2, EnteredEmergency DEF States
  <2> HIDE DEF e, o
  <2> QED
    BY <1>1, <1>2, <2>1, <2>2, EnteredEmergency
<1>4. CASE cs # "reset" /\ Calls(cs) = <<>>
  <2>1. em' = em
    BY <1>1, <1>4 DEF EMCYAfter
  <2>2. o = nmt
    BY <1>4, CommandStates
  <2> QED
    BY <1>1, <2>1, <2>2
<1>5. CASE cs # "reset" /\ Calls(cs) # <<>>
  <2>1. em' = EMCYEntered(em, o.state, o.id)
    BY <1>1, <1>5, CommandStates DEF EMCYAfter
  <2> HIDE DEF o
  <2> QED
    BY <1>1, <1>2, <2>1, EnteredEmergency
<1> QED
  BY <1>3, <1>4, <1>5

LEMMA ReportEmergency ==
    ASSUME EmergencyInv, NEW code \in Emergency, Report(code)
    PROVE  /\ em' \in EmergencyState /\ em'.stopped = em.stopped
           /\ (~Online => EmergencyWaits)'
           /\ Frame("emcy")' => ~em.stopped
           /\ owed # None /\ ~Online /\ Frame("emcy")' => sent'[1].code = owed
<1> USE DEF EmergencyInv, EmergencyState, EmergencyWaits, Report, Frame
<1>1. CASE ~em.enabled
  BY <1>1
<1>2. CASE em.enabled /\ em.timer
  BY <1>2
<1>3. CASE em.enabled /\ ~em.timer
  <2>1. em' = Timed(em) /\ sent' = Sent(em, code) /\ owed' = owed
    BY <1>3
  <2>2. em' \in EmergencyState /\ em'.stopped = em.stopped
    BY <2>1 DEF Timed, Sends
  <2>3. Frame("emcy")' => ~em.stopped
    BY <2>1 DEF Sent, Sends
  <2>4. ~Online => owed = None
    BY <1>3
  <2> QED
    BY <2>1, <2>2, <2>3, <2>4
<1> QED
  BY <1>1, <1>2, <1>3

LEMMA LateEmergency ==
    ASSUME EmergencyInv, TimeUp
    PROVE  /\ em' \in EmergencyState /\ em'.stopped = em.stopped
           /\ (~Online => EmergencyWaits)'
           /\ Frame("emcy")' => ~em.stopped
           /\ owed # None /\ ~Online /\ Frame("emcy")' => sent'[1].code = owed
<1> DEFINE e == IF em.deferred = None THEN [em EXCEPT !.timer = FALSE] ELSE Timed(em)
<1>1. em \in EmergencyState
  BY DEF EmergencyInv
<1>2. e \in EmergencyState /\ e.stopped = em.stopped
  BY <1>1 DEF EmergencyState, Timed, Sends
<1>3. em' = [e EXCEPT !.deferred = None]
  BY DEF TimeUp, Expired
<1> HIDE DEF e
<1>4. em' \in EmergencyState /\ em'.stopped = em.stopped
  BY <1>2, <1>3 DEF EmergencyState
<1>5. ~Online => owed' = None
  <2>1. CASE owed = None
    BY <2>1 DEF TimeUp
  <2>2. CASE owed # None /\ ~Online
    BY <2>2 DEF TimeUp, EmergencyInv, EmergencyWaits, Late
  <2> QED
    BY <2>1, <2>2
<1>6. Frame("emcy")' => ~em.stopped
  BY DEF TimeUp, Late, Sent, Sends, Frame
<1>7. owed # None /\ ~Online /\ Frame("emcy")' => sent'[1].code = owed
  <2> SUFFICES ASSUME owed # None, ~Online, Frame("emcy")' PROVE sent'[1].code = owed
    OBVIOUS
  <2>1. em.deferred = owed
    BY DEF EmergencyInv, EmergencyWaits
  <2>2. sent' = <<EmergencyFrame(em, owed)>>
    BY <2>1 DEF TimeUp, Late, Sent, Frame
  <2> QED
    BY <2>2 DEF EmergencyFrame
<1> QED
  BY <1>4, <1>5, <1>6, <1>7 DEF EmergencyWaits

LEMMA InitEmergency == Init => EmergencyInv
  BY NodeIdAssumption
  DEF Init, NMTInit, EMCYInit, EmergencyInv, EmergencyState, StopsWith,
      EmergencyWaits

(* An emergency is sent by a node that runs, and it is the one that waits  *)
(* when one does.                                                          *)
EmergencyStep == /\ EmergencyInv'
                 /\ Frame("emcy")' => nmt'.state \in Running
                 /\ ~Online /\ owed # None /\ Frame("emcy")' => sent'[1].code = owed

LEMMA NextEmergency ==
    ASSUME NMTTypeOK, EmergencyInv, Next
    PROVE  EmergencyStep
<1>1. ASSUME NEW cs \in Commands, Command(cs) PROVE EmergencyStep
  <2>1. EmergencyInv'
    BY <1>1, CommandEmergency DEF EmergencyInv, EmergencyWaits, Command
  <2>2. ~Frame("emcy")'
    BY <1>1 DEF Command, BootUp, Frame
  <2> QED
    BY <2>1, <2>2 DEF EmergencyStep
<1>2. ASSUME UNCHANGED <<em, owed>>, nmt'.state = nmt.state, ~Frame("emcy")'
      PROVE  EmergencyStep
  BY <1>2 DEF EmergencyInv, EmergencyWaits, StopsWith, EmergencyStep
<1>3. CASE Emergencies
  <2>1. ASSUME NEW code \in Emergency, Report(code), nmt' = nmt PROVE EmergencyStep
    BY <2>1, ReportEmergency
    DEF EmergencyInv, StopsWith, NMTTypeOK, States, Running, EmergencyStep
  <2>2. ASSUME NEW inhibit \in BOOLEAN, UpdateInhibitTime(inhibit), nmt' = nmt
        PROVE  EmergencyStep
    BY <2>2 DEF EmergencyInv, EmergencyState, EmergencyWaits, StopsWith,
                UpdateInhibitTime, Frame, EmergencyStep
  <2>3. ASSUME NEW id \in {em.id, Other}, NEW enabled \in BOOLEAN,
               SetEmcyCobId(id, enabled), nmt' = nmt
        PROVE  EmergencyStep
    BY <2>3 DEF EmergencyInv, EmergencyState, EmergencyWaits, StopsWith,
                SetEmcyCobId, Frame, EmergencyStep
  <2> QED
    BY <1>3, <2>1, <2>2, <2>3 DEF Emergencies
<1>4. CASE InhibitTimer
  BY <1>4, LateEmergency
  DEF InhibitTimer, EmergencyInv, StopsWith, NMTTypeOK, States, Running, EmergencyStep
<1>5. CASE LSS
  BY <1>2, <1>5 DEF LSS, ConfigureNodeId, Frame, NMTTypeOK
<1>6. CASE Intervals
  BY <1>2, <1>6 DEF Intervals, UpdateInterval, HeartbeatFrame, Frame
<1>7. CASE HeartbeatTimer
  BY <1>2, <1>7 DEF HeartbeatTimer, ProcessHeartbeat, HeartbeatFrame, Frame
<1>8. CASE COBIds
  BY <1>2, <1>8 DEF COBIds, Frame
<1> QED
  BY <1>1, <1>3, <1>4, <1>5, <1>6, <1>7, <1>8 DEF Next

(* All the timers, together with what they need of the NMT state. *)
TimersInv == NMTTypeOK /\ ChainInv /\ EmergencyInv /\ StoppedSendsNone

LEMMA InitTimers == Init => TimersInv
  BY InitNMT, InitChain, InitEmergency
  DEF Init, TimersInv, StoppedSendsNone, Frame, NMTInit

LEMMA NextTimers == TimersInv /\ [Next]_vars => TimersInv'
<1> SUFFICES ASSUME TimersInv, [Next]_vars PROVE TimersInv'
  OBVIOUS
<1>1. CASE Next
  BY <1>1, NextNMT, NextChain, NextEmergency
  DEF TimersInv, EmergencyStep, StoppedSendsNone
<1>2. CASE UNCHANGED vars
  BY <1>2, NextNMT, NextChain
  DEF TimersInv, EmergencyInv, EmergencyWaits, StopsWith, StoppedSendsNone, Frame, vars
<1> QED
  BY <1>1, <1>2

(* Every timer is there for a reason and everything deferred has its timer,*)
(* for any emergencies, intervals and node ids.                            *)
THEOREM TimersAlwaysFit == ASSUME ~Online PROVE Spec => []TimersFit
<1>1. TimersInv => TimersFit
  BY DEF TimersInv, TimersFit, ChainInv, OneChain, EmergencyInv
<1> QED
  BY InitTimers, NextTimers, <1>1, PTL DEF Spec

(* No emergency is sent before one that waits. *)
THEOREM NoneOvertakes == ASSUME ~Online PROVE Spec => NothingOvertakes
<1>1. TimersInv /\ [Next]_vars
        => [owed # None /\ Frame("emcy")' => sent'[1].code = owed]_vars
  BY NextEmergency DEF TimersInv, EmergencyStep
<1> QED
  BY InitTimers, NextTimers, <1>1, PTL DEF Spec, NothingOvertakes

-----------------------------------------------------------------------------
(* A server and the table of subscriptions *)

Fields == [rx : CanId, rxOff : BOOLEAN, txOff : BOOLEAN, stopped : BOOLEAN]
Tables == [CanId -> Server \cup {NoOne}]
Views  == [s : Fields, subs : Tables]

(* Identifiers a server may have.  No two servers share one.               *)
Ids(s) == IF s = First THEN {Default[i] : i \in NodeId} ELSE Choice[s]

LEMMA IdsApart ==
    /\ \A s \in Server : Ids(s) \subseteq CanId
    /\ \A s, t \in Server : \A c \in Ids(s) : c \in Ids(t) => s = t
  BY ServerAssumption, DefaultAssumption, ChoiceAssumption DEF Ids, Server

LEMMA SilentView ==
    ASSUME NEW x \in Views
    PROVE  /\ Silent(x) \in Views /\ Silent(x).s = x.s
           /\ Silent(x).subs[x.s.rx] = NoOne
           /\ \A c \in CanId \ {x.s.rx} : Silent(x).subs[c] = x.subs[c]
<1>1. x.s.rx \in CanId /\ x.subs \in Tables
  BY DEF Views, Fields
<1>2. [x.subs EXCEPT ![x.s.rx] = NoOne] \in Tables
  BY <1>1 DEF Tables
<1>3. Silent(x).s = x.s /\ Silent(x).subs = [x.subs EXCEPT ![x.s.rx] = NoOne]
  BY DEF Silent, Views
<1>4. Silent(x) \in Views
  BY <1>2 DEF Silent, Views
<1> QED
  BY <1>1, <1>3, <1>4 DEF Tables

LEMMA ListeningView ==
    ASSUME NEW x \in Views, NEW s \in Server
    PROVE  /\ Listening(x, s) \in Views /\ Listening(x, s).s = x.s
           /\ Listening(x, s).subs[x.s.rx] = s
           /\ \A c \in CanId \ {x.s.rx} : Listening(x, s).subs[c] = x.subs[c]
<1>1. x.s.rx \in CanId /\ x.subs \in Tables
  BY DEF Views, Fields
<1>2. [x.subs EXCEPT ![x.s.rx] = s] \in Tables
  BY <1>1 DEF Tables
<1>3. Listening(x, s).s = x.s /\ Listening(x, s).subs = [x.subs EXCEPT ![x.s.rx] = s]
  BY DEF Listening, Views
<1>4. Listening(x, s) \in Views
  BY <1>2 DEF Listening, Views
<1> QED
  BY <1>1, <1>3, <1>4 DEF Tables

LEMMA StoppedView ==
    ASSUME NEW x \in Views, NEW b \in BOOLEAN
    PROVE  LET y == [x EXCEPT !.s.stopped = b]
           IN  /\ y \in Views /\ y.subs = x.subs /\ y.s.stopped = b
               /\ y.s.rx = x.s.rx /\ y.s.rxOff = x.s.rxOff /\ y.s.txOff = x.s.txOff
  BY DEF Views, Fields

LEMMA RxView ==
    ASSUME NEW x \in Views, NEW c \in CanId
    PROVE  LET y == [x EXCEPT !.s.rx = c]
           IN  /\ y \in Views /\ y.subs = x.subs /\ y.s.rx = c
               /\ y.s.rxOff = x.s.rxOff /\ y.s.txOff = x.s.txOff /\ y.s.stopped = x.s.stopped
  BY DEF Views, Fields

LEMMA RxOffView ==
    ASSUME NEW x \in Views, NEW b \in BOOLEAN
    PROVE  LET y == [x EXCEPT !.s.rxOff = b]
           IN  /\ y \in Views /\ y.subs = x.subs /\ y.s.rxOff = b
               /\ y.s.rx = x.s.rx /\ y.s.txOff = x.s.txOff /\ y.s.stopped = x.s.stopped
  BY DEF Views, Fields

LEMMA TxOffView ==
    ASSUME NEW x \in Views, NEW b \in BOOLEAN
    PROVE  LET y == [x EXCEPT !.s.txOff = b]
           IN  /\ y \in Views /\ y.subs = x.subs /\ y.s.txOff = b
               /\ y.s.rx = x.s.rx /\ y.s.rxOff = x.s.rxOff /\ y.s.stopped = x.s.stopped
  BY DEF Views, Fields

-----------------------------------------------------------------------------
(* A server with the fields a fits the table w.  run tells whether the     *)
(* node communicates, re whether the COB-IDs of the server were written    *)
(* since the node last entered a running state.                            *)

Fits(s, a, w, run, re) ==
    /\ a.rx \in Ids(s)
    /\ s = First => Valid(a) /\ ~re
    /\ \A c \in Ids(s) : w[c] \in {s, NoOne} /\ (w[c] = s => c = a.rx)
    /\ w[a.rx] = s => Valid(a)
    /\ Valid(a) /\ (run \/ ~a.stopped) => w[a.rx] = s
    /\ w[a.rx] = s /\ (a.stopped \/ ~run) => re

(* y differs from x in nothing another server may look at.                 *)
Apart(s, x, y) ==
    y \in Views /\ \A c \in CanId \ Ids(s) : y.subs[c] = x.subs[c]

LEMMA FitsByIds ==
    ASSUME NEW s, NEW a, NEW v, NEW w, NEW run, NEW re,
           Fits(s, a, v, run, re), \A c \in Ids(s) : v[c] = w[c]
    PROVE  Fits(s, a, w, run, re)
  BY DEF Fits

LEMMA StopFits ==
    ASSUME NEW s \in Server, NEW x \in Views, NEW run \in BOOLEAN, NEW re \in BOOLEAN,
           Fits(s, x.s, x.subs, run, re)
    PROVE  /\ Fits(s, Stop(x).s, Stop(x).subs, FALSE, re)
           /\ Apart(s, x, Stop(x))
           /\ s = First => Stop(x).s.stopped = TRUE
<1>1. x.s.rx \in Ids(s) /\ Ids(s) \subseteq CanId
  BY IdsApart DEF Fits
<1>2. s # NoOne
  BY ServerAssumption DEF Server
<1>3. CASE x.s.stopped
  BY <1>3, <1>2 DEF Stop, Fits, Apart, Views, Fields
<1>4. CASE ~x.s.stopped /\ RemovalRaises(x)
  <2>1. x.subs[x.s.rx] # s
    BY <1>2, <1>4 DEF RemovalRaises, Fits, Valid
  <2>2. Stop(x) = x
    BY <1>4 DEF Stop
  <2> QED
    BY <1>4, <2>1, <2>2 DEF Fits, Apart
<1>5. CASE ~x.s.stopped /\ ~RemovalRaises(x)
  <2> DEFINE y == Silent(x)
             z == [y EXCEPT !.s.stopped = TRUE]
  <2>1. Stop(x) = z
    BY <1>5 DEF Stop
  <2>2. /\ y \in Views /\ y.s = x.s /\ y.subs[x.s.rx] = NoOne
        /\ \A c \in CanId \ {x.s.rx} : y.subs[c] = x.subs[c]
    BY SilentView
  <2> HIDE DEF y
  <2>3. /\ z \in Views /\ z.subs = y.subs /\ z.s.stopped = TRUE
        /\ z.s.rx = y.s.rx /\ z.s.rxOff = y.s.rxOff /\ z.s.txOff = y.s.txOff
    BY <2>2, StoppedView
  <2> HIDE DEF z
  <2>4. \A c \in Ids(s) : z.subs[c] = NoOne
    BY <1>1, <2>2, <2>3 DEF Fits
  <2>5. Fits(s, z.s, z.subs, FALSE, re)
    BY <1>1, <1>2, <2>2, <2>3, <2>4 DEF Fits, Valid
  <2>6. Apart(s, x, z)
    BY <1>1, <2>2, <2>3 DEF Apart
  <2> QED
    BY <2>1, <2>3, <2>5, <2>6
<1> QED
  BY <1>3, <1>4, <1>5

LEMMA StartFits ==
    ASSUME NEW s \in Server, NEW x \in Views, NEW run \in BOOLEAN, NEW re \in BOOLEAN,
           NEW id \in NodeId, Fits(s, x.s, x.subs, run, re)
    PROVE  /\ Fits(s, Start(s, x, id).s, Start(s, x, id).subs, TRUE, FALSE)
           /\ Apart(s, x, Start(s, x, id))
<1>1. x.s.rx \in Ids(s) /\ Ids(s) \subseteq CanId
  BY IdsApart DEF Fits
<1>2. s # NoOne
  BY ServerAssumption DEF Server
<1>3. CASE ~x.s.stopped
  <2>1. Start(s, x, id) = x
    BY <1>3 DEF Start
  <2> QED
    BY <1>3, <2>1 DEF Fits, Apart
<1>4. CASE x.s.stopped /\ ~Valid(x.s)
  <2>1. s # First /\ Start(s, x, id) = x
    BY <1>4 DEF Start, Fits
  <2> QED
    BY <1>4, <2>1 DEF Fits, Apart
<1>5. CASE x.s.stopped /\ Valid(x.s)
  <2> DEFINE y == IF s = First THEN [x EXCEPT !.s.rx = Default[id]] ELSE x
             z == Listening(y, s)
             u == [z EXCEPT !.s.stopped = FALSE]
  <2>1. Start(s, x, id) = u
    BY <1>5 DEF Start
  <2>2. /\ y \in Views /\ y.subs = x.subs /\ Valid(y.s) /\ y.s.rx \in Ids(s)
        /\ s = First => y.s.rx = Default[id]
    <3>1. CASE s = First
      <4>1. Default[id] \in CanId /\ Default[id] \in Ids(s)
        BY <3>1, DefaultAssumption DEF Ids
      <4> DEFINE r == [x EXCEPT !.s.rx = Default[id]]
      <4>2. /\ r \in Views /\ r.subs = x.subs /\ r.s.rx = Default[id]
            /\ r.s.rxOff = x.s.rxOff /\ r.s.txOff = x.s.txOff
        BY <4>1, RxView
      <4>3. y = r
        BY <3>1
      <4> HIDE DEF r, y
      <4> QED
        BY <1>5, <4>1, <4>2, <4>3 DEF Valid
    <3>2. CASE s # First
      BY <1>1, <1>5, <3>2
    <3> QED
      BY <3>1, <3>2
  <2>3. \A c \in Ids(s) : x.subs[c] = s => c = y.s.rx
    BY <1>5 DEF Fits
  <2> HIDE DEF y
  <2>4. /\ z \in Views /\ z.s = y.s /\ z.subs[y.s.rx] = s
        /\ \A c \in CanId \ {y.s.rx} : z.subs[c] = x.subs[c]
    BY <2>2, ListeningView
  <2> HIDE DEF z
  <2>5. /\ u \in Views /\ u.subs = z.subs /\ u.s.stopped = FALSE
        /\ u.s.rx = z.s.rx /\ u.s.rxOff = z.s.rxOff /\ u.s.txOff = z.s.txOff
    BY <2>4, StoppedView
  <2> HIDE DEF u
  <2>6. \A c \in Ids(s) : u.subs[c] \in {s, NoOne} /\ (u.subs[c] = s => c = u.s.rx)
    BY <1>1, <2>2, <2>3, <2>4, <2>5 DEF Fits
  <2>7. Fits(s, u.s, u.subs, TRUE, FALSE)
    BY <1>1, <1>2, <2>2, <2>4, <2>5, <2>6 DEF Fits, Valid
  <2>8. Apart(s, x, u)
    BY <1>1, <2>2, <2>4, <2>5 DEF Apart
  <2> QED
    BY <1>5, <2>1, <2>2, <2>4, <2>5, <2>7, <2>8
<1> QED
  BY <1>3, <1>4, <1>5

LEMMA StartFirst ==
    ASSUME NEW x \in Views, NEW id \in NodeId
    PROVE  \/ Start(First, x, id).s.rx = Default[id]
           \/ x.s.stopped = FALSE /\ Start(First, x, id) = x
<1>1. CASE x.s.stopped = FALSE
  BY <1>1 DEF Start
<1>2. CASE x.s.stopped = TRUE
  <2> DEFINE y == [x EXCEPT !.s.rx = Default[id]]
             z == Listening(y, First)
             u == [z EXCEPT !.s.stopped = FALSE]
  <2>1. Start(First, x, id) = u
    BY <1>2 DEF Start
  <2>2. y \in Views /\ y.s.rx = Default[id]
    BY RxView, DefaultAssumption
  <2> HIDE DEF y
  <2>3. z \in Views /\ z.s = y.s
    BY <2>2, ListeningView DEF Server
  <2> HIDE DEF z
  <2>4. u.s.rx = z.s.rx
    BY <2>3, StoppedView
  <2> HIDE DEF u
  <2> QED
    BY <2>1, <2>2, <2>3, <2>4
<1> QED
  BY <1>1, <1>2 DEF Views, Fields
-----------------------------------------------------------------------------
(* COB-IDs written *)

LEMMA CobRxFits ==
    ASSUME NEW s \in Further, NEW x \in Views, NEW run \in BOOLEAN, NEW re \in BOOLEAN,
           NEW rx \in Choice[s], NEW off \in BOOLEAN,
           Fits(s, x.s, x.subs, run, re)
    PROVE  LET y == CobRxUpdated(s, x, rx, off)
           IN  Fits(s, y.s, y.subs, run, TRUE) /\ Apart(s, x, y)
<1>1. s \in Server /\ s # First /\ s # NoOne /\ Ids(s) = Choice[s] /\ rx \in CanId
  BY ServerAssumption, ChoiceAssumption DEF Server, Ids
<1>2. x.s.rx \in Ids(s) /\ Ids(s) \subseteq CanId
  BY <1>1, IdsApart DEF Fits
<1>3. CASE Valid(x.s) /\ RemovalRaises(x)
  <2>1. CobRxUpdated(s, x, rx, off) = x
    BY <1>3 DEF CobRxUpdated
  <2> QED
    BY <1>1, <2>1 DEF Fits, Apart
<1>4. CASE ~(Valid(x.s) /\ RemovalRaises(x))
  <2> DEFINE l == IF Valid(x.s) THEN Silent(x) ELSE x
             k == [l EXCEPT !.s.rx = rx]
             m == [l EXCEPT !.s.rx = rx, !.s.rxOff = off]
             y == IF off \/ x.s.txOff THEN m ELSE Listening(m, s)
  <2>1. CobRxUpdated(s, x, rx, off) = y
    BY <1>4 DEF CobRxUpdated
  <2>2. /\ l \in Views /\ l.s = x.s
        /\ \A c \in Ids(s) : l.subs[c] = NoOne
        /\ \A c \in CanId \ Ids(s) : l.subs[c] = x.subs[c]
    BY <1>2, SilentView DEF Fits
  <2> HIDE DEF l
  <2>3. /\ k \in Views /\ k.subs = l.subs /\ k.s.stopped = l.s.stopped
        /\ k.s.rx = rx /\ k.s.rxOff = l.s.rxOff /\ k.s.txOff = l.s.txOff
    BY <1>1, <2>2, RxView
  <2>4. m = [k EXCEPT !.s.rxOff = off]
    OBVIOUS
  <2> HIDE DEF k, m
  <2>5. /\ m \in Views /\ m.subs = l.subs /\ m.s.stopped = x.s.stopped
        /\ m.s.rx = rx /\ m.s.rxOff = off /\ m.s.txOff = x.s.txOff
    BY <2>2, <2>3, <2>4, RxOffView
  <2>6. CASE off \/ x.s.txOff
    <3>1. y = m /\ ~Valid(m.s)
      BY <2>5, <2>6 DEF Valid
    <3>2. Fits(s, m.s, m.subs, run, TRUE)
      BY <1>1, <2>2, <2>5, <3>1 DEF Fits
    <3>3. Apart(s, x, m)
      BY <2>2, <2>5 DEF Apart
    <3>4. CobRxUpdated(s, x, rx, off) = m
      BY <2>1, <3>1
    <3> HIDE DEF y
    <3> QED
      BY <3>2, <3>3, <3>4
  <2>7. CASE ~(off \/ x.s.txOff)
    <3>1. /\ y \in Views /\ y.s = m.s /\ y.subs[rx] = s
          /\ \A c \in CanId \ {rx} : y.subs[c] = m.subs[c]
      BY <1>1, <2>5, <2>7, ListeningView
    <3> HIDE DEF y
    <3>2. Valid(y.s)
      BY <2>5, <2>7, <3>1 DEF Valid
    <3>3. \A c \in Ids(s) : y.subs[c] \in {s, NoOne} /\ (y.subs[c] = s => c = rx)
      BY <1>1, <1>2, <2>2, <2>5, <3>1
    <3>4. Fits(s, y.s, y.subs, run, TRUE)
      BY <1>1, <2>5, <3>1, <3>2, <3>3 DEF Fits
    <3>5. Apart(s, x, y)
      BY <1>1, <1>2, <2>2, <2>5, <3>1 DEF Apart
    <3> QED
      BY <2>1, <3>4, <3>5
  <2> QED
    BY <2>6, <2>7
<1> QED
  BY <1>3, <1>4

LEMMA CobTxFits ==
    ASSUME NEW s \in Further, NEW x \in Views, NEW run \in BOOLEAN, NEW re \in BOOLEAN,
           NEW off \in BOOLEAN, Fits(s, x.s, x.subs, run, re)
    PROVE  LET y == CobTxUpdated(s, x, off)
           IN  Fits(s, y.s, y.subs, run, TRUE) /\ Apart(s, x, y)
<1>1. s \in Server /\ s # First /\ s # NoOne
  BY ServerAssumption DEF Server
<1>2. x.s.rx \in Ids(s) /\ Ids(s) \subseteq CanId
  BY <1>1, IdsApart DEF Fits
<1>3. CASE Valid(x.s) /\ off /\ RemovalRaises(x)
  <2>1. CobTxUpdated(s, x, off) = x
    BY <1>3 DEF CobTxUpdated
  <2> QED
    BY <1>1, <2>1 DEF Fits, Apart
<1>4. CASE ~(Valid(x.s) /\ off /\ RemovalRaises(x))
  <2> DEFINE l == IF Valid(x.s) /\ off THEN Silent(x) ELSE x
             m == [l EXCEPT !.s.txOff = off]
             y == IF off \/ x.s.rxOff THEN m ELSE Listening(m, s)
  <2>1. CobTxUpdated(s, x, off) = y
    BY <1>4 DEF CobTxUpdated
  <2>2. /\ l \in Views /\ l.s = x.s
        /\ \A c \in Ids(s) : /\ l.subs[c] \in {s, NoOne}
                             /\ l.subs[c] = s => c = x.s.rx
                             /\ off \/ x.s.rxOff => l.subs[c] = NoOne
        /\ \A c \in CanId \ Ids(s) : l.subs[c] = x.subs[c]
    <3>1. CASE Valid(x.s) /\ off
      BY <1>1, <1>2, <3>1, SilentView DEF Fits
    <3>2. CASE ~(Valid(x.s) /\ off)
      BY <1>1, <1>2, <3>2 DEF Fits, Valid
    <3> QED
      BY <3>1, <3>2
  <2> HIDE DEF l
  <2>3. /\ m \in Views /\ m.subs = l.subs /\ m.s.stopped = x.s.stopped
        /\ m.s.rx = x.s.rx /\ m.s.rxOff = x.s.rxOff /\ m.s.txOff = off
    BY <2>2, TxOffView
  <2> HIDE DEF m
  <2>4. CASE off \/ x.s.rxOff
    <3>1. y = m /\ ~Valid(m.s)
      BY <2>3, <2>4 DEF Valid
    <3>2. Fits(s, m.s, m.subs, run, TRUE)
      BY <1>1, <1>2, <2>2, <2>3, <2>4, <3>1 DEF Fits
    <3>3. Apart(s, x, m)
      BY <2>2, <2>3 DEF Apart
    <3>4. CobTxUpdated(s, x, off) = m
      BY <2>1, <3>1
    <3> HIDE DEF y
    <3> QED
      BY <3>2, <3>3, <3>4
  <2>5. CASE ~(off \/ x.s.rxOff)
    <3>1. /\ y \in Views /\ y.s = m.s /\ y.subs[m.s.rx] = s
          /\ \A c \in CanId \ {m.s.rx} : y.subs[c] = m.subs[c]
      BY <1>1, <2>3, <2>5, ListeningView
    <3> HIDE DEF y
    <3>2. Valid(y.s)
      BY <2>3, <2>5, <3>1 DEF Valid
    <3>3. \A c \in Ids(s) : y.subs[c] \in {s, NoOne} /\ (y.subs[c] = s => c = y.s.rx)
      BY <1>1, <1>2, <2>2, <2>3, <3>1
    <3>4. Fits(s, y.s, y.subs, run, TRUE)
      BY <1>1, <1>2, <2>3, <3>1, <3>2, <3>3 DEF Fits
    <3>5. Apart(s, x, y)
      BY <1>1, <1>2, <2>2, <2>3, <3>1 DEF Apart
    <3> QED
      BY <2>1, <3>4, <3>5
  <2> QED
    BY <2>4, <2>5
<1> QED
  BY <1>3, <1>4

-----------------------------------------------------------------------------
(* All servers *)

Run == nmt.state \in Running

ServersInv ==
    /\ sdo \in [Server -> Fields] /\ subs \in Tables /\ rewritten \subseteq Further
    /\ \A s \in Server : Fits(s, sdo[s], subs, Run, s \in rewritten)
    /\ \A c \in CanId : (\A s \in Server : c \notin Ids(s)) => subs[c] = NoOne
    /\ Run => sdo[First].rx = Default[nmt.id]

LEMMA AtView ==
    ASSUME ServersInv, NEW s \in Server
    PROVE  /\ At(s) \in Views /\ At(s).s = sdo[s] /\ At(s).subs = subs
           /\ Fits(s, At(s).s, At(s).subs, Run, s \in rewritten)
  BY DEF ServersInv, At, Views

(* A server after a command.  The first one then has the identifiers of    *)
(* the node id.                                                            *)
LEMMA CommandServer ==
    ASSUME NMTTypeOK, ServersInv, NEW cs \in Commands, Command(cs), NEW s \in Server
    PROVE  LET y == ServerAfter(s, cs, Obeyed(cs).id)
           IN  /\ Apart(s, At(s), y)
               /\ Fits(s, y.s, y.subs, Run', s \in rewritten')
               /\ s = First /\ Run' => y.s.rx = Default[nmt'.id]
<1> DEFINE o == Obeyed(cs)
           x == At(s)
           y == ServerAfter(s, cs, o.id)
<1>1. /\ nmt' = o /\ o.id \in NodeId /\ o.state # "INITIALISATION"
      /\ rewritten' = IF Calls(cs) # <<>> /\ o.state \in Running THEN {} ELSE rewritten
  BY CommandStates DEF Command, NMTState
<1>2. /\ x \in Views /\ x.s = sdo[s] /\ x.subs = subs
      /\ Fits(s, x.s, x.subs, Run, s \in rewritten)
      /\ s = First /\ Run => x.s.rx = Default[nmt.id]
      /\ s = First /\ x.s.stopped = FALSE => Run
  <2>1. ServersInv
    OBVIOUS
  <2>2. s = First => s \notin rewritten
    BY <2>1, ServerAssumption DEF ServersInv
  <2> QED
    BY <2>1, <2>2, AtView DEF ServersInv, Fits
<1>3. Run \in BOOLEAN /\ (s \in rewritten) \in BOOLEAN
  BY DEF Run
<1>4. CASE cs = "reset"
  <2> DEFINE z == Stop(x)
  <2>1. y = Start(s, z, o.id) /\ Run' /\ s \notin rewritten'
    BY <1>1, <1>4, CommandStates DEF ServerAfter, ServerEntered, Running, Run
  <2>2. /\ Fits(s, z.s, z.subs, FALSE, s \in rewritten)
        /\ Apart(s, x, z)
        /\ s = First => z.s.stopped = TRUE
    BY <1>2, <1>3, StopFits
  <2> HIDE DEF x, y, z, o
  <2>3. /\ Fits(s, y.s, y.subs, TRUE, FALSE)
        /\ Apart(s, z, y)
        /\ s = First => y.s.rx = Default[o.id]
    <3>1. PICK run \in BOOLEAN, re \in BOOLEAN : Fits(s, z.s, z.subs, run, re)
      BY <1>3, <2>2, Zenon
    <3>2. z \in Views /\ o.id \in NodeId
      BY <1>1, <2>2 DEF Apart
    <3>3. Fits(s, y.s, y.subs, TRUE, FALSE) /\ Apart(s, z, y)
      BY <2>1, <3>1, <3>2, StartFits
    <3>4. s = First => y.s.rx = Default[o.id]
      BY <2>1, <2>2, <3>2, StartFirst
    <3> QED
      BY <3>3, <3>4
  <2>4. Apart(s, x, y)
    BY <2>2, <2>3 DEF Apart
  <2> QED
    BY <1>1, <2>1, <2>3, <2>4 DEF Fits, x, y, o
<1>5. CASE cs # "reset" /\ Calls(cs) = <<>>
  <2>1. y = x /\ o = nmt /\ rewritten' = rewritten
    <3>1. o = nmt
      BY <1>5, CommandStates
    <3>2. y = x
      BY <1>5 DEF ServerAfter
    <3> QED
      BY <1>1, <1>5, <3>1, <3>2
  <2>2. Run' <=> Run
    BY <1>1, <2>1 DEF Run
  <2> HIDE DEF x, y, o
  <2>3. Fits(s, y.s, y.subs, Run', s \in rewritten')
    BY <1>2, <2>1, <2>2 DEF Fits
  <2>4. Apart(s, x, y) /\ (s = First /\ Run' => y.s.rx = Default[nmt'.id])
    BY <1>1, <1>2, <2>1, <2>2 DEF Apart
  <2> QED
    BY <2>3, <2>4 DEF x, y, o
<1>6. CASE cs # "reset" /\ Calls(cs) # <<>>
  <2>1. /\ y = ServerEntered(s, x, o.state, o.id) /\ o.id = nmt.id
    BY <1>1, <1>6, CommandStates DEF ServerAfter
  <2>2. CASE o.state \in Running
    <3>1. y = Start(s, x, o.id) /\ Run' /\ s \notin rewritten'
      BY <1>1, <1>6, <2>1, <2>2 DEF ServerEntered, Run
    <3> HIDE DEF x, y, o
    <3>2. /\ Fits(s, y.s, y.subs, TRUE, FALSE)
          /\ Apart(s, x, y)
      <4>1. PICK run \in BOOLEAN, re \in BOOLEAN : Fits(s, x.s, x.subs, run, re)
        BY <1>2, <1>3, Zenon
      <4> QED
        BY <1>1, <1>2, <3>1, <4>1, StartFits
    <3>3. s = First => y.s.rx = Default[nmt'.id]
      BY <1>1, <1>2, <2>1, <3>1, StartFirst
    <3> QED
      BY <3>1, <3>2, <3>3 DEF Fits, x, y, o
  <2>3. CASE o.state \notin Running
    <3>1. y = Stop(x) /\ ~Run' /\ rewritten' = rewritten
      BY <1>1, <2>1, <2>3 DEF ServerEntered, Run
    <3> HIDE DEF x, y, o
    <3>2. Fits(s, y.s, y.subs, FALSE, s \in rewritten) /\ Apart(s, x, y)
      BY <1>2, <1>3, <3>1, StopFits
    <3> QED
      BY <3>1, <3>2 DEF Fits, x, y, o
  <2> QED
    BY <2>2, <2>3
<1> QED
  BY <1>4, <1>5, <1>6

(* The table after the callbacks of all servers.                           *)
LEMMA MergedTables ==
    ASSUME ServersInv, NEW after, Merged(after),
           \A s \in Server : Apart(s, At(s), after[s])
    PROVE  /\ sdo' \in [Server -> Fields] /\ subs' \in Tables
           /\ \A s \in Server : sdo'[s] = after[s].s
           /\ \A s \in Server : \A c \in Ids(s) : subs'[c] = after[s].subs[c]
           /\ \A c \in CanId : (\A s \in Server : c \notin Ids(s)) => subs'[c] = subs[c]
<1>1. \A s \in Server : after[s].s \in Fields /\ after[s].subs \in Tables
  BY DEF Apart, Views
<1>2. \A s \in Server : \A c \in CanId : after[s].subs[c] # subs[c] => c \in Ids(s)
  BY AtView DEF Apart
<1>3. sdo' = [s \in Server |-> after[s].s]
  BY DEF Merged
<1> DEFINE new(c) == IF \E s \in Server : after[s].subs[c] # subs[c]
                     THEN after[CHOOSE s \in Server : after[s].subs[c] # subs[c]].subs[c]
                     ELSE subs[c]
<1>4. subs' = [c \in CanId |-> new(c)]
  BY DEF Merged
<1>5. ASSUME NEW c \in CanId
      PROVE  /\ new(c) \in Server \cup {NoOne}
             /\ \A s \in Server : c \in Ids(s) => new(c) = after[s].subs[c]
             /\ (\A s \in Server : c \notin Ids(s)) => new(c) = subs[c]
  <2>1. CASE \E s \in Server : after[s].subs[c] # subs[c]
    <3> DEFINE t == CHOOSE s \in Server : after[s].subs[c] # subs[c]
    <3>1. t \in Server /\ after[t].subs[c] # subs[c]
      BY <2>1
    <3>2. new(c) = after[t].subs[c]
      BY <2>1
    <3> HIDE DEF t, new
    <3>3. c \in Ids(t)
      BY <1>2, <3>1
    <3>4. \A s \in Server : c \in Ids(s) => s = t
      BY <3>1, <3>3, IdsApart
    <3> QED
      BY <1>1, <3>1, <3>2, <3>3, <3>4 DEF Tables
  <2>2. CASE ~(\E s \in Server : after[s].subs[c] # subs[c])
    <3>1. new(c) = subs[c]
      BY <2>2
    <3> HIDE DEF new
    <3> QED
      BY <2>2, <3>1 DEF ServersInv, Tables
  <2> QED
    BY <2>1, <2>2
<1> HIDE DEF new
<1>6. \A s \in Server : Ids(s) \subseteq CanId
  BY IdsApart
<1> QED
  BY <1>1, <1>3, <1>4, <1>5, <1>6 DEF Tables

LEMMA CommandServers ==
    ASSUME NMTTypeOK, ServersInv, NEW cs \in Commands, Command(cs)
    PROVE  ServersInv'
<1> DEFINE after == [s \in Server |-> ServerAfter(s, cs, Obeyed(cs).id)]
<1>1. \A s \in Server : /\ Apart(s, At(s), after[s])
                        /\ Fits(s, after[s].s, after[s].subs, Run', s \in rewritten')
                        /\ s = First /\ Run' => after[s].s.rx = Default[nmt'.id]
  BY CommandServer
<1>2. Merged(after) /\ rewritten' \subseteq rewritten
  BY DEF Command
<1> HIDE DEF after
<1>3. /\ sdo' \in [Server -> Fields] /\ subs' \in Tables
      /\ \A s \in Server : sdo'[s] = after[s].s
      /\ \A s \in Server : \A c \in Ids(s) : subs'[c] = after[s].subs[c]
      /\ \A c \in CanId : (\A s \in Server : c \notin Ids(s)) => subs'[c] = subs[c]
  BY <1>1, <1>2, MergedTables
<1>4. \A s \in Server : Fits(s, sdo'[s], subs', Run', s \in rewritten')
  BY <1>1, <1>3, FitsByIds
<1>5. First \in Server
  BY DEF Server
<1> QED
  BY <1>1, <1>2, <1>3, <1>4, <1>5 DEF ServersInv, Run

(* One server after its COB-IDs were written; the others keep their place. *)
LEMMA UpdatedServers ==
    ASSUME ServersInv, NEW s \in Further, NEW y, Updated(s, y),
           Fits(s, y.s, y.subs, Run, TRUE), Apart(s, At(s), y),
           nmt' = nmt, rewritten' = rewritten \cup {s}
    PROVE  ServersInv'
<1>1. /\ s \in Server /\ s # First /\ First \in Server
      /\ y.s \in Fields /\ y.subs \in Tables
  BY ServerAssumption DEF Server, Apart, Views
<1>2. /\ sdo' \in [Server -> Fields] /\ sdo'[s] = y.s
      /\ \A t \in Server \ {s} : sdo'[t] = sdo[t]
      /\ subs' = y.subs
  BY <1>1 DEF Updated, ServersInv
<1>3. \A c \in CanId \ Ids(s) : subs'[c] = subs[c]
  BY <1>1, <1>2, AtView DEF Apart
<1>4. Run' <=> Run
  BY DEF Run
<1>5. \A t \in Server : Fits(t, sdo'[t], subs', Run', t \in rewritten')
  <2> SUFFICES ASSUME NEW t \in Server
               PROVE  Fits(t, sdo'[t], subs', Run', t \in rewritten')
    OBVIOUS
  <2>1. CASE t = s
    BY <1>2, <1>4, <2>1 DEF Fits
  <2>2. CASE t # s
    <3>1. Fits(t, sdo[t], subs, Run, t \in rewritten)
      BY DEF ServersInv
    <3>2. \A c \in Ids(t) : subs[c] = subs'[c]
      BY <1>1, <1>3, <2>2, IdsApart
    <3>3. sdo'[t] = sdo[t] /\ (t \in rewritten' <=> t \in rewritten)
      BY <1>2, <2>2
    <3>4. Fits(t, sdo[t], subs', Run, t \in rewritten)
      BY <3>1, <3>2, FitsByIds
    <3> QED
      BY <1>4, <3>3, <3>4 DEF Fits
  <2> QED
    BY <2>1, <2>2
<1> QED
  BY <1>1, <1>2, <1>3, <1>4, <1>5 DEF ServersInv, Run

LEMMA SameServers ==
    ASSUME ServersInv, nmt'.state = nmt.state, nmt'.id = nmt.id,
           UNCHANGED <<sdo, subs, rewritten>>
    PROVE  ServersInv'
<1>1. Run' <=> Run
  BY DEF Run
<1>2. \A s \in Server : Fits(s, sdo'[s], subs', Run', s \in rewritten')
  BY <1>1 DEF ServersInv, Fits
<1> QED
  BY <1>1, <1>2 DEF ServersInv

LEMMA InitServers == Init => ServersInv
<1> SUFFICES ASSUME Init PROVE ServersInv
  OBVIOUS
<1>1. /\ Default[FirstId] \in CanId /\ FirstId \in NodeId
      /\ \A s \in Further : (CHOOSE c \in Choice[s] : TRUE) \in Choice[s]
  BY NodeIdAssumption, DefaultAssumption, ChoiceAssumption
<1>2. rewritten = {} /\ nmt.state = "PRE_OPERATIONAL" /\ nmt.id = FirstId
  BY DEF Init, NMTInit
<1>3. \A s \in Server : /\ sdo[s].rx \in Ids(s) /\ sdo[s] \in Fields
                        /\ IF s = First
                           THEN sdo[s] = [rx |-> Default[FirstId], rxOff |-> FALSE,
                                          txOff |-> FALSE, stopped |-> FALSE]
                           ELSE sdo[s].rxOff = TRUE
  <2>1. \A s \in Further : Choice[s] \subseteq CanId
    BY ChoiceAssumption
  <2> QED
    BY <1>1, <2>1 DEF Init, SDOInit, Fields, Ids, Server
<1>4. /\ \A c \in CanId : subs[c] = IF c = Default[FirstId] THEN First ELSE NoOne
      /\ subs \in Tables
  BY DEF Init, SDOInit, Tables, Server
<1>5. sdo \in [Server -> Fields]
  <2>1. sdo = [s \in Server |-> sdo[s]]
    BY DEF Init, SDOInit
  <2> QED
    BY <1>3, <2>1
<1>6. \A s \in Server : \A c \in Ids(s) : c \in CanId /\ (c = Default[FirstId] => s = First)
  BY <1>1, IdsApart DEF Ids, Server
<1>7. Run
  BY <1>2 DEF Run, Running
<1>8. First \in Server /\ \A s \in Server : s # NoOne
  BY ServerAssumption DEF Server
<1>9. \A s \in Server : Fits(s, sdo[s], subs, Run, s \in rewritten)
  <2>1. ASSUME NEW s \in Server \ {First}
        PROVE  Fits(s, sdo[s], subs, Run, s \in rewritten)
    <3>1. sdo[s].rx \in Ids(s) /\ ~Valid(sdo[s])
      BY <1>3, <2>1 DEF Valid
    <3>2. \A c \in Ids(s) : subs[c] = NoOne
      BY <1>4, <1>6, <2>1
    <3> QED
      BY <1>8, <2>1, <3>1, <3>2 DEF Fits
  <2>2. Fits(First, sdo[First], subs, Run, First \in rewritten)
    <3>1. /\ sdo[First].rx = Default[FirstId] /\ Default[FirstId] \in Ids(First)
          /\ sdo[First].rxOff = FALSE /\ sdo[First].txOff = FALSE
          /\ sdo[First].stopped = FALSE
      BY <1>3, <1>8
    <3>2. Valid(sdo[First])
      BY <3>1 DEF Valid
    <3>3. \A c \in Ids(First) : subs[c] = IF c = sdo[First].rx THEN First ELSE NoOne
      BY <1>4, <1>6, <1>8, <3>1
    <3>4. First \notin rewritten /\ First # NoOne
      BY <1>2, <1>8
    <3> QED
      BY <1>7, <3>1, <3>2, <3>3, <3>4 DEF Fits
  <2> QED
    BY <2>1, <2>2
<1>10. \A c \in CanId : (\A s \in Server : c \notin Ids(s)) => subs[c] = NoOne
  BY <1>1, <1>4, <1>8 DEF Ids
<1> QED
  BY <1>2, <1>3, <1>4, <1>5, <1>8, <1>9, <1>10 DEF ServersInv

(* The servers, and the id a boot-up message tells.                        *)
IdentityInv ==
    /\ NMTTypeOK /\ ServersInv
    /\ Frame("bootup") => sent[1].id = nmt.id

LEMMA InitIdentity == Init => IdentityInv
  BY InitNMT, InitServers DEF Init, NMTInit, IdentityInv, Frame

LEMMA NextIdentity == IdentityInv /\ [Next]_vars => IdentityInv'
<1> SUFFICES ASSUME IdentityInv, [Next]_vars PROVE IdentityInv'
  OBVIOUS
<1>1. NMTTypeOK'
  BY NextNMT DEF IdentityInv
<1>2. ASSUME NEW cs \in Commands, Command(cs) PROVE IdentityInv'
  <2>1. ServersInv'
    BY <1>2, CommandServers DEF IdentityInv
  <2>2. nmt' = Obeyed(cs) /\ sent' = BootUp(cs)
    BY <1>2 DEF Command
  <2>3. cs = "reset" => nmt'.id = nmt.pending
    BY <2>2, CommandStates DEF IdentityInv
  <2>4. Frame("bootup")' => sent'[1].id = nmt'.id
    BY <2>2, <2>3 DEF BootUp, Frame
  <2> QED
    BY <1>1, <2>1, <2>4 DEF IdentityInv
<1>3. CASE LSS
  <2>1. PICK id \in NodeId : ConfigureNodeId(id)
    BY <1>3 DEF LSS
  <2>2. /\ nmt'.state = nmt.state /\ nmt'.id = nmt.id
        /\ sent' = <<>> /\ UNCHANGED <<sdo, subs, rewritten>>
    BY <1>3, <2>1 DEF LSS, ConfigureNodeId, IdentityInv, NMTTypeOK
  <2>3. ServersInv'
    BY <2>2, SameServers DEF IdentityInv
  <2> QED
    BY <1>1, <2>2, <2>3 DEF IdentityInv, Frame
<1>4. ASSUME UNCHANGED <<nmt, sdo, subs, rewritten>>,
             Frame("bootup")' => Frame("bootup") /\ sent' = sent
      PROVE  IdentityInv'
  <2>1. ServersInv'
    BY <1>4, SameServers DEF IdentityInv
  <2> QED
    BY <1>1, <1>4, <2>1 DEF IdentityInv, Frame
<1>5. CASE Emergencies
  <2>1. sent' = <<>> \/ \E code \in Emergency : sent' = <<EmergencyFrame(em, code)>>
    <3>1. ASSUME NEW code \in Emergency, Report(code)
          PROVE  sent' = <<>> \/ sent' = <<EmergencyFrame(em, code)>>
      BY <3>1 DEF Report, Sent
    <3>2. (\E inhibit \in BOOLEAN : UpdateInhibitTime(inhibit)) => sent' = <<>>
      BY DEF UpdateInhibitTime
    <3>3. (\E id \in {em.id, Other}, enabled \in BOOLEAN : SetEmcyCobId(id, enabled))
            => sent' = <<>>
      BY DEF SetEmcyCobId
    <3> QED
      BY <1>5, <3>1, <3>2, <3>3 DEF Emergencies
  <2>2. ~Frame("bootup")'
    BY <2>1 DEF EmergencyFrame, Frame
  <2> QED
    BY <1>4, <1>5, <2>2 DEF Emergencies
<1>6. CASE InhibitTimer
  <2>1. ~Frame("bootup")'
    BY <1>6 DEF InhibitTimer, TimeUp, Late, Sent, EmergencyFrame, Frame
  <2> QED
    BY <1>4, <1>6, <2>1 DEF InhibitTimer
<1>7. CASE Intervals
  <2>1. ~Frame("bootup")'
    BY <1>7 DEF Intervals, UpdateInterval, HeartbeatFrame, Frame
  <2> QED
    BY <1>4, <1>7, <2>1 DEF Intervals
<1>8. CASE HeartbeatTimer
  <2>1. ~Frame("bootup")'
    BY <1>8 DEF HeartbeatTimer, ProcessHeartbeat, HeartbeatFrame, Frame
  <2> QED
    BY <1>4, <1>8, <2>1 DEF HeartbeatTimer
<1>9. CASE COBIds
  <2>1. PICK s \in Further :
          /\ \/ \E rx \in Choice[s], off \in BOOLEAN : UpdateCobRx(s, rx, off)
             \/ \E off \in BOOLEAN : UpdateCobTx(s, off)
          /\ rewritten' = rewritten \cup {s}
    BY <1>9 DEF COBIds
  <2>2. s \in Server /\ nmt' = nmt /\ sent' = <<>>
    BY <1>9 DEF COBIds, Server
  <2>3. /\ At(s) \in Views /\ Run \in BOOLEAN /\ (s \in rewritten) \in BOOLEAN
        /\ Fits(s, At(s).s, At(s).subs, Run, s \in rewritten)
    BY <2>2, AtView DEF IdentityInv, Run
  <2>4. PICK re \in BOOLEAN : Fits(s, At(s).s, At(s).subs, Run, re)
    BY <2>3, Zenon
  <2>5. ServersInv'
    <3>1. CASE \E rx \in Choice[s], off \in BOOLEAN : UpdateCobRx(s, rx, off)
      <4>1. PICK rx \in Choice[s], off \in BOOLEAN : UpdateCobRx(s, rx, off)
        BY <3>1
      <4> DEFINE y == CobRxUpdated(s, At(s), rx, off)
      <4>2. Fits(s, y.s, y.subs, Run, TRUE) /\ Apart(s, At(s), y)
        BY <2>3, <2>4, CobRxFits
      <4>3. Updated(s, y)
        BY <4>1 DEF UpdateCobRx
      <4> HIDE DEF y
      <4> QED
        BY <2>1, <2>2, <4>2, <4>3, UpdatedServers DEF IdentityInv
    <3>2. CASE \E off \in BOOLEAN : UpdateCobTx(s, off)
      <4>1. PICK off \in BOOLEAN : UpdateCobTx(s, off)
        BY <3>2
      <4> DEFINE y == CobTxUpdated(s, At(s), off)
      <4>2. Fits(s, y.s, y.subs, Run, TRUE) /\ Apart(s, At(s), y)
        BY <2>3, <2>4, CobTxFits
      <4>3. Updated(s, y)
        BY <4>1 DEF UpdateCobTx
      <4> HIDE DEF y
      <4> QED
        BY <2>1, <2>2, <4>2, <4>3, UpdatedServers DEF IdentityInv
    <3> QED
      BY <2>1, <3>1, <3>2
  <2> QED
    BY <1>1, <2>2, <2>5 DEF IdentityInv, Frame
<1>10. CASE UNCHANGED vars
  BY <1>4, <1>10 DEF vars, Frame
<1> QED
  BY <1>2, <1>3, <1>5, <1>6, <1>7, <1>8, <1>9, <1>10 DEF Next

(* The node boots up, and answers SDO requests, under the id it has, for   *)
(* any node ids and after any LSS configuration.                           *)
THEOREM IdentityIsOne == Spec => []OneIdentity
<1>1. IdentityInv => OneIdentity
  <2> SUFFICES ASSUME IdentityInv, Run, NEW i \in NodeId
               PROVE  subs[Default[i]] = IF i = nmt.id THEN First ELSE NoOne
    BY DEF IdentityInv, OneIdentity, Run
  <2>1. First \in Server /\ Default[i] \in Ids(First) /\ nmt.id \in NodeId
    BY DEF Server, Ids, IdentityInv, NMTTypeOK
  <2>2. /\ Fits(First, sdo[First], subs, Run, First \in rewritten)
        /\ sdo[First].rx = Default[nmt.id]
    BY <2>1 DEF IdentityInv, ServersInv
  <2>3. subs[Default[nmt.id]] = First
    BY <2>2 DEF Fits
  <2>4. subs[Default[i]] \in {First, NoOne}
        /\ (subs[Default[i]] = First => Default[i] = Default[nmt.id])
    BY <2>1, <2>2 DEF Fits
  <2>5. Default[i] = Default[nmt.id] => i = nmt.id
    BY <2>1, DefaultAssumption
  <2> QED
    BY <2>3, <2>4, <2>5
<1> QED
  BY InitIdentity, NextIdentity, <1>1, PTL DEF Spec

(* The SDO servers fit the table of subscriptions, for any number of       *)
(* servers and identifiers, in whatever order COB-IDs and commands come.   *)
THEOREM ServersAlwaysFit == Spec => []ServersFit
<1>1. IdentityInv => ServersFit
  <2> SUFFICES ASSUME IdentityInv PROVE ServersFit
    OBVIOUS
  <2>1. \A s \in Server : Fits(s, sdo[s], subs, Run, s \in rewritten)
    BY DEF IdentityInv, ServersInv
  <2>2. \A c \in CanId : subs[c] # NoOne =>
          /\ subs[c] \in Server /\ sdo[subs[c]].rx = c
          /\ ~Run => subs[c] \in rewritten
    <3> SUFFICES ASSUME NEW c \in CanId, subs[c] # NoOne
                 PROVE  /\ subs[c] \in Server /\ sdo[subs[c]].rx = c
                        /\ ~Run => subs[c] \in rewritten
      OBVIOUS
    <3>1. PICK s \in Server : c \in Ids(s)
      BY DEF IdentityInv, ServersInv
    <3>2. subs[c] = s /\ sdo[s].rx = c
      BY <2>1, <3>1 DEF Fits
    <3>3. ~Run => s \in rewritten
      BY <2>1, <3>2 DEF Fits
    <3> QED
      BY <3>1, <3>2, <3>3
  <2>3. Run => \A s \in Server : Valid(sdo[s]) <=> subs[sdo[s].rx] = s
    BY <2>1 DEF Fits
  <2>4. nmt.state = "STOPPED" => ~Run
    BY DEF Run, Running
  <2> QED
    BY <2>2, <2>3, <2>4
    DEF ServersFit, SubscribedIsOwn, ValidIsReached, StoppedIsSilent, Run
<1> QED
  BY InitIdentity, NextIdentity, <1>1, PTL DEF Spec
=============================================================================
