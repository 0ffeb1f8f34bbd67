------------------------------ MODULE SDOSession ------------------------------
(***************************************************************************)
(* A client and an SDO server on a bus that loses frames.                  *)
(*                                                                         *)
(* The server is SDOServer.  The client is no part of durand: it is one    *)
(* that follows the protocol as the server's operations imply it, sends    *)
(* one request at a time, gives up with an abort when no answer is under   *)
(* way any more or an unexpected one arrives, and then tries again.  What  *)
(* it sees of its transfers is compared with the abstract Transfer.        *)
(***************************************************************************)
EXTENDS SDOServer

CONSTANTS
    Request,    \* what the client may want
    Window,     \* segments per sub-block the client asks for
    Named,      \* the multiplexor the first three bytes of a segment name
    MaxLoss     \* bound: frames the bus loses

VARIABLES
    cl,         \* the client
    up, down,   \* frames under way to the server and to the client
    lost,       \* how many frames were lost
    effect,     \* history: whether the server has carried out the request,
                \* and the value it stored or began to serve
    outcome     \* what the client made of its last transfer

clientVars  == <<cl, outcome>>
bus         == <<up, down, lost>>
sessionVars == <<vars, clientVars, bus, effect>>

(* way tells how a value is to travel: "plain" is expedited or segmented,  *)
(* "checked" is block transfer with a checksum.  A block upload of at most *)
(* pst bytes the server may answer as a plain one.                         *)
Ways     == {"plain", "block", "checked"}
Requests == [op : {"download", "upload"}, way : Ways, mux : Mux,
             data : Seq(Byte), pst : Nat]
Nothing  == [op |-> "none"]

Phases == {"idle", "init", "segment", "subBlock", "end",
           "reading", "receiving", "upEnd"}

ASSUME RequestAssumption == Request \subseteq Requests
ASSUME WindowAssumption  == Window \in 1..MaxSeq
ASSUME NamedAssumption   == Named \in [Byte \X Byte \X Byte -> Mux]
ASSUME MaxLossAssumption == MaxLoss \in Nat

NotYet  == [done |-> FALSE, data |-> <<>>]
Failure == [ok |-> FALSE, data |-> <<>>]

SessionTypeOK ==
    /\ TypeOK
    /\ cl \in [want : Request \cup {Nothing}, phase : Phases, toggle : BOOLEAN,
               left : Seq(Byte), got : Seq(Byte), count : 0..MaxSeq]
    /\ effect \in [done : BOOLEAN, data : Seq(Byte)]
    /\ outcome \in [ok : BOOLEAN, data : Seq(Byte)]
    /\ lost \in 0..MaxLoss

SessionInit ==
    /\ Init
    /\ cl = [want |-> Nothing, phase |-> "idle", toggle |-> FALSE,
             left |-> <<>>, got |-> <<>>, count |-> 0]
    /\ up = <<>> /\ down = <<>> /\ lost = 0
    /\ effect = NotYet /\ outcome = Failure

-----------------------------------------------------------------------------
(* Frames of the client *)

Command(b0, m, data) ==
    [b0 |-> b0, mux |-> m, data |-> Padded(data, SegLen), ack |-> 0,
     blk |-> 0, pst |-> 0, crc |-> <<>>]

(* A segment has data where a command has a multiplexor; a server that is  *)
(* not (or no longer) in a block transfer may read them as one.            *)
Segment(b0, data) ==
    LET bytes == Padded(data, SegLen)
    IN  Command(b0, Named[<<bytes[1], bytes[2], bytes[3]>>], data)

Expeditable(r) == r.way = "plain" /\ Len(r.data) \in 1..ExpLen

InitFrame(r) ==
    LET block == r.way # "plain"
        crc   == IF r.way = "checked" THEN 4 ELSE 0
    IN  IF r.op = "download"
        THEN IF block THEN Command(192 + crc, r.mux, <<>>)
             ELSE IF Expeditable(r)
             THEN Command(35 + 4 * (ExpLen - Len(r.data)), r.mux,
                          Padded(<<>>, HeadLen) \o r.data)
             ELSE Command(33, r.mux, <<>>)
        ELSE IF block
             THEN [Command(160 + crc, r.mux, <<>>)
                     EXCEPT !.blk = Window, !.pst = r.pst]
             ELSE Command(64, r.mux, <<>>)

SegmentFrame(toggle, data, last) ==
    Segment((IF toggle THEN 16 ELSE 0) + 2 * (SegLen - Len(data))
              + (IF last THEN 1 ELSE 0), data)

(* The next sub-block: at most MaxSeq segments, which is what the server   *)
(* asks for in each of its answers.                                        *)
SegmentCount(data) ==
    Least(MaxSeq, (Len(data) + SegLen - 1) \div SegLen)
SubBlockFrames(data) ==
    [i \in 1..SegmentCount(data) |->
       Segment(i + (IF Len(data) <= i * SegLen THEN 128 ELSE 0),
               SubSeq(data, SegLen * (i - 1) + 1, Least(SegLen * i, Len(data))))]

EndFrame(r) ==
    [Command(193 + 4 * ((SegLen - (Len(r.data) % SegLen)) % SegLen), Zero, <<>>)
       EXCEPT !.crc = IF r.way = "checked" THEN r.data ELSE <<>>]

ReadFrame(toggle) == Command(IF toggle THEN 112 ELSE 96, Zero, <<>>)
StartFrame        == Command(163, Zero, <<>>)
AckFrame(n)       == [Command(162, Zero, <<>>) EXCEPT !.ack = n, !.blk = Window]
UpEndFrame        == Command(161, Zero, <<>>)
AbortFrame(m)     == Command(AbortCommand, m, <<>>)

-----------------------------------------------------------------------------
(* Steps of the client *)

Proceed(c, frames) ==
    /\ cl' = c
    /\ up' = up \o frames
    /\ UNCHANGED <<outcome, effect>>

(* The transfer is over; want is what the client tries next. *)
Conclude(result, want, frames) ==
    /\ cl' = [want |-> want, phase |-> "idle", toggle |-> FALSE,
              left |-> <<>>, got |-> <<>>, count |-> 0]
    /\ outcome' = result /\ effect' = NotYet
    /\ up' = up \o frames

Succeed(data, frames) ==
    Conclude([ok |-> TRUE, data |-> data], Nothing, frames)
GiveUp == Conclude(Failure, cl.want, <<AbortFrame(cl.want.mux)>>)

(* A new request, or the one that failed, once the bus is quiet. *)
Ask ==
    /\ cl.phase = "idle" /\ up = <<>> /\ down = <<>>
    /\ \E r \in IF cl.want = Nothing THEN Request ELSE {cl.want} :
         Proceed([cl EXCEPT !.want = r, !.phase = "init"], <<InitFrame(r)>>)
    /\ UNCHANGED <<vars, down, lost>>

Timeout ==
    /\ cl.phase # "idle" /\ up = <<>> /\ down = <<>>
    /\ GiveUp
    /\ UNCHANGED <<vars, down, lost>>

SendSegment(data, toggle) ==
    Proceed([cl EXCEPT !.phase = "segment", !.left = Drop(data, SegLen),
                       !.toggle = toggle],
            <<SegmentFrame(toggle, Take(data, SegLen), Len(data) <= SegLen)>>)

SendBlock(data) ==
    Proceed([cl EXCEPT !.phase = "subBlock", !.left = data,
                       !.count = SegmentCount(data)],
            SubBlockFrames(data))

(* What the client waits for. *)
InitAnswers(r) ==
    IF r.op = "download" THEN {IF r.way = "plain" THEN "dlInit" ELSE "dlBlock"}
    ELSE {"ulExpedited", "ulInit"} \cup (IF r.way = "plain" THEN {} ELSE {"ulBlock"})

Expected(fr) ==
    CASE cl.phase = "init"      -> /\ fr.cs \in InitAnswers(cl.want)
                                   /\ fr.mux = cl.want.mux
      [] cl.phase = "segment"   -> fr.cs = "dlSegment" /\ fr.toggle = cl.toggle
      [] cl.phase = "subBlock"  -> fr.cs = "dlSubBlock" /\ fr.ack = cl.count
      [] cl.phase = "end"       -> fr.cs = "dlBlockEnd"
      [] cl.phase = "reading"   -> fr.cs = "ulSegment" /\ fr.toggle = cl.toggle
      [] cl.phase = "receiving" -> fr.cs = "ulSubBlock"
      [] cl.phase = "upEnd"     -> /\ fr.cs = "ulBlockEnd"
                                   /\ cl.want.way = "checked" =>
                                        fr.crc = DropLast(cl.got, fr.n)
      [] OTHER -> FALSE

DownloadAnswer(fr) ==
    LET data == cl.want.data
        rest == Drop(cl.left, cl.count * SegLen)
    IN  \/ /\ fr.cs = "dlInit"
           /\ IF Expeditable(cl.want) THEN Succeed(data, <<>>)
              ELSE SendSegment(data, FALSE)
        \/ /\ fr.cs = "dlSegment"
           /\ IF cl.left = <<>> THEN Succeed(data, <<>>)
              ELSE SendSegment(cl.left, ~cl.toggle)
        \/ fr.cs = "dlBlock" /\ SendBlock(data)
        \/ /\ fr.cs = "dlSubBlock"
           /\ IF rest # <<>> THEN SendBlock(rest)
              ELSE Proceed([cl EXCEPT !.phase = "end"], <<EndFrame(cl.want)>>)
        \/ fr.cs = "dlBlockEnd" /\ Succeed(data, <<>>)

(* A segment of a sub-block that does not follow the last one is ignored;  *)
(* at the end of the sub-block those received are acknowledged, and the    *)
(* server is expected to go on from there.                                 *)
ReceiveSegment(fr) ==
    LET next == fr.seq = cl.count + 1
        n    == IF next THEN fr.seq ELSE cl.count
        c    == [cl EXCEPT !.count = n, !.got = IF next THEN @ \o fr.data ELSE @]
    IN  IF ~fr.last /\ fr.seq < Window
        THEN Proceed(c, <<>>)
        ELSE Proceed([c EXCEPT !.count = 0,
                        !.phase = IF next /\ fr.last THEN "upEnd" ELSE @],
                     <<AckFrame(n)>>)

UploadAnswer(fr) ==
    \/ fr.cs = "ulExpedited" /\ Succeed(Take(fr.data, ExpLen - fr.n), <<>>)
    \/ /\ fr.cs = "ulInit"
       /\ Proceed([cl EXCEPT !.phase = "reading"], <<ReadFrame(FALSE)>>)
    \/ /\ fr.cs = "ulSegment"
       /\ LET data == cl.got \o Take(fr.data, SegLen - fr.n)
          IN  IF fr.last THEN Succeed(data, <<>>)
              ELSE Proceed([cl EXCEPT !.got = data, !.toggle = ~@],
                           <<ReadFrame(~cl.toggle)>>)
    \/ /\ fr.cs = "ulBlock"
       /\ Proceed([cl EXCEPT !.phase = "receiving"], <<StartFrame>>)
    \/ fr.cs = "ulSubBlock" /\ ReceiveSegment(fr)
    \/ fr.cs = "ulBlockEnd" /\ Succeed(DropLast(cl.got, fr.n), <<UpEndFrame>>)

(* The server's judgement on the request, not on the course of a transfer. *)
Verdict(fr) ==
    fr.code \notin {"0x05030000", "0x05040001", "0x05040002", "0x05040003",
                    "0x05040004"}

(* The transfer was aborted by the server. *)
TurnedDown(fr) ==
    Conclude(Failure, IF Verdict(fr) THEN Nothing ELSE cl.want, <<>>)

Receive ==
    /\ down # <<>>
    /\ LET fr == Head(down)
       IN  IF cl.phase = "idle" THEN Proceed(cl, <<>>)
           ELSE IF fr.cs = "abort" THEN TurnedDown(fr)
           ELSE IF Expected(fr) THEN DownloadAnswer(fr) \/ UploadAnswer(fr)
           ELSE GiveUp
    /\ down' = Tail(down)
    /\ UNCHANGED <<vars, lost>>

-----------------------------------------------------------------------------
(* Steps of the server and of the bus *)

(* When the server has carried out the client's request: it has stored the *)
(* value and says so, or it has set up the stream it will serve.           *)
Effect ==
    IF cl.phase = "idle" \/ effect.done \/ reply' = <<>> THEN effect
    ELSE IF cl.want.op = "download" /\ Completed(reply', dl')
    THEN [done |-> TRUE, data |-> cl.want.data]
    ELSE IF cl.want.op = "upload"
              /\ reply'[1].cs \in {"ulInit", "ulExpedited", "ulBlock"}
    THEN [done |-> TRUE, data |-> od[cl.want.mux]]
    ELSE effect

Serve ==
    /\ up # <<>>
    /\ HandleMsg(Head(up))
    /\ up' = Tail(up) /\ down' = down \o reply'
    /\ effect' = Effect
    /\ UNCHANGED <<clientVars, lost>>

(* The bus loses the oldest frame of either direction. *)
Lose ==
    /\ lost < MaxLoss
    /\ lost' = lost + 1
    /\ \/ up # <<>> /\ up' = Tail(up) /\ UNCHANGED down
       \/ down # <<>> /\ down' = Tail(down) /\ UNCHANGED up
    /\ UNCHANGED <<vars, clientVars, effect>>

Application ==
    /\ \E w \in Written : ApplicationWrite(w[1], w[2])
    /\ UNCHANGED <<clientVars, bus, effect>>

SessionNext == Ask \/ Receive \/ Timeout \/ Serve \/ Lose \/ Application

SessionSpec == SessionInit /\ [][SessionNext]_sessionVars

(* Both sides go on with what they have to do; the client tries again and  *)
(* its timer expires.  Neither the application nor a loss has to happen.   *)
FairSession ==
    /\ SessionSpec
    /\ WF_sessionVars(Ask) /\ WF_sessionVars(Receive)
    /\ WF_sessionVars(Timeout) /\ WF_sessionVars(Serve)

-----------------------------------------------------------------------------
(* Properties *)

(* A transfer is one step in the end: a success means the object held the  *)
(* whole value at one moment between request and answer, whatever was      *)
(* lost, sent again, aborted or written by the application in between;     *)
(* a failed transfer leaves the object as it was or as it was meant to be. *)
Promise ==
    INSTANCE Transfer WITH
      Object <- Mux, value <- od,
      pending <- IF cl.phase = "idle" THEN Nothing ELSE cl.want

ImplementsTransfer == Promise!Spec

(* No loss leaves the server in a state from which a client that aborts    *)
(* and tries again does not get its request through or turned down.        *)
RequestsSettle == \A r \in Request : (cl.want = r) ~> (cl.want # r)
===============================================================================
