----------------------------- MODULE SDODownload -----------------------------
(***************************************************************************)
(* The download half of the SDO server: class DownloadManager of           *)
(* services/sdo/download.py.  It takes expedited, segmented and block      *)
(* downloads, keeps at most one of them at a time, and hands the data      *)
(* either to the object dictionary or to a handler the application         *)
(* supplied through set_handler_callback.                                  *)
(*                                                                         *)
(* Every operation is an action of one client frame f.  An exception that  *)
(* ends an operation early is the disjunct that answers with the abort     *)
(* frame handle_msg builds from it.                                        *)
(***************************************************************************)
EXTENDS SDOFrames

CONSTANTS
    DownloadCallback,   \* what the application's handler callback may do
    MaxData             \* bound: bytes a transfer collects in the model

ASSUME DownloadCallbackAssumption ==
    DownloadCallback \subseteq {"none", "handler", "raise"}
ASSUME MaxDataAssumption == MaxData \in Nat

VARIABLES
    dl,     \* the fields of DownloadManager
    sink    \* the application: its open handlers, the data they were given
            \* and the data a finished handler has filed

downloadVars == <<dl, sink>>

(* held is "_handler is not None".  told is no field of the manager: the   *)
(* handler it holds has heard on_abort, and raised.                        *)
DownloadState ==
    [state : TransferStates, mux : Mux, held : BOOLEAN, told : BOOLEAN,
     seq : 1..MaxSeq, toggle : BOOLEAN, check : BOOLEAN, crc : Seq(Byte), buffer : Seq(Byte)]

SinkState == [open : Int, got : Seq(Byte), filed : [Mux -> Seq(Byte)]]

DownloadTypeOK == dl \in DownloadState /\ sink \in SinkState

DownloadInit ==
    /\ dl = [state |-> "NONE", mux |-> Zero, held |-> FALSE,
             told |-> FALSE, seq |-> 1, toggle |-> FALSE, check |-> FALSE,
             crc |-> <<>>, buffer |-> <<>>]
    /\ sink = [open |-> 0, got |-> <<>>, filed |-> [m \in Mux |-> <<>>]]

-----------------------------------------------------------------------------
(* Fields of the manager and of the application after each internal call.  *)

(* Variants of Fresh that forget one field. *)
FreshButToggle(d, t) ==
    [d EXCEPT !.state = t, !.held = FALSE, !.told = FALSE, !.seq = 1,
              !.buffer = <<>>, !.check = FALSE, !.crc = <<>>]
FreshButBuffer(d, t) ==
    [d EXCEPT !.state = t, !.held = FALSE, !.told = FALSE, !.seq = 1,
              !.toggle = FALSE, !.check = FALSE, !.crc = <<>>]

(* DownloadManager._init(t).  The checksum is dead outside a block         *)
(* transfer, so it is cleared as well.                                     *)
Fresh(d, t) == [d EXCEPT !.state = t, !.held = FALSE, !.told = FALSE,
                         !.seq = 1, !.toggle = FALSE, !.buffer = <<>>,
                         !.check = FALSE, !.crc = <<>>]

(* A transfer of m is begun in state t. *)
Started(d, t, m) == [Fresh(d, t) EXCEPT !.mux = m]

(* The handler is told on_abort or on_finish, and dropped. *)
Heard(d, s)     == [s EXCEPT !.open = IF d.told THEN @ ELSE @ - 1]
Dismissed(d, s) == [Heard(d, s) EXCEPT !.got = <<>>]

(* Variant of Notified: the handler is dropped without a word. *)
NotNotified(d, s) == s

(* What _abort does to the manager and, through on_abort, to the handler;  *)
(* when on_abort raises, the manager keeps its transfer and the handler.   *)
DlAborted(d)    == Fresh(d, "NONE")
Notified(d, s)  == IF d.held THEN Dismissed(d, s) ELSE s
Told(d)         == [d EXCEPT !.told = TRUE]

(* "if self._state != NONE: self._abort()", the start of an initiate. *)
Settled(d)         == IF d.state # "NONE" THEN DlAborted(d) ELSE d
SettledSink(d, s)  == IF d.state # "NONE" THEN Notified(d, s) ELSE s

(* A handler was obtained from the application. *)
Held(d)   == [d EXCEPT !.held = TRUE]
Opened(s) == [open |-> s.open + 1, got |-> <<>>, filed |-> s.filed]

(* _receive(data) when the handler does not raise. *)
Extended(d, data)  == [d EXCEPT !.buffer = @ \o data]
Received(d, data)  == IF d.held THEN d ELSE Extended(d, data)
Passed(d, s, data) == IF d.held THEN [s EXCEPT !.got = @ \o data] ELSE s

(* The model takes no data beyond MaxData bytes. *)
Room(data) == /\ Len(dl.buffer) + Len(data) <= MaxData
              /\ Len(sink.got) + Len(data) <= MaxData
              /\ Len(dl.crc) <= MaxData

-----------------------------------------------------------------------------
(* The ways an operation ends.  d and s are what the manager and the       *)
(* application were left with when it did.                                 *)

Continue(d, s, frames) ==
    dl' = d /\ sink' = s /\ reply' = frames /\ UNCHANGED od

(* SDODomainAbort(code, m), or the general error. *)
Refuse(d, s, code, m) == Continue(d, s, <<AbortReply(code, m)>>)
GeneralFailure(d, s, f) == Continue(d, s, <<GeneralError(f)>>)

(* _abort: the handler's on_abort raised. *)
AbortFails(d, s, f) ==
    /\ d.held /\ "on_abort" \in Faults
    /\ GeneralFailure(Told(d), Heard(d, s), f)

(* _receive: the handler's on_receive raised. *)
ReceiveFails(d, s, f) ==
    /\ d.held /\ "on_receive" \in Faults
    /\ \/ Refuse(DlAborted(d), Notified(d, s), "0x08000020", d.mux)
       \/ AbortFails(d, s, f)

(* How _finish may judge the collected bytes of a variable: they do not    *)
(* have its size, are outside its range, or a validate callback objects.   *)
Verdicts(d) ==
    LET numeric == Size[d.mux] # NoSize
    IN  IF numeric /\ Len(d.buffer) # Size[d.mux]
        THEN {"0x06070010"}
        ELSE {"stored"}
               \cup (IF numeric THEN {"0x06090032", "0x06090031"} ELSE {})
               \cup (IF "validate" \in Faults THEN {"0x08000020"} ELSE {})

(* Variant of FinishVariable that stores the data before the verdict on    *)
(* them is known.                                                          *)
StoreFirst(d, s, frames) ==
    /\ ~d.held
    /\ \E v \in Verdicts(d) :
         /\ dl' = DlAborted(d) /\ sink' = s
         /\ od' = [od EXCEPT ![d.mux] = d.buffer]
         /\ reply' = IF v = "stored" THEN frames
                     ELSE <<AbortReply(v, d.mux)>>

(* _finish, and the frames that confirm the transfer when it succeeds. *)
FinishHandler(d, s, frames) ==
    /\ d.held
    /\ \/ Continue(DlAborted(d),
                   [Dismissed(d, s) EXCEPT !.filed[d.mux] = s.got], frames)
       \/ /\ "on_finish" \in Faults
          /\ Refuse(DlAborted(d), Dismissed(d, s), "0x08000020", d.mux)

FinishVariable(d, s, frames) ==
    /\ ~d.held
    /\ \E v \in Verdicts(d) :
         /\ dl' = DlAborted(d) /\ sink' = s
         /\ IF v = "stored"
            THEN od' = [od EXCEPT ![d.mux] = d.buffer] /\ reply' = frames
            ELSE UNCHANGED od /\ reply' = <<AbortReply(v, d.mux)>>

Finish(d, s, frames) ==
    FinishHandler(d, s, frames) \/ FinishVariable(d, s, frames)

-----------------------------------------------------------------------------
(* Initiate *)

(* init_download and download_block_init begin alike: an active transfer   *)
(* is aborted, which its handler may prevent, and the object must exist    *)
(* and be writable.                                                        *)
SettleFails(f) == dl.state # "NONE" /\ AbortFails(dl, sink, f)

InitRefused(f) ==
    LET d == Settled(dl)
        s == SettledSink(dl, sink)
    IN  \/ /\ ~Exists(f.mux)
           /\ Refuse(d, s, LookupError(f.mux), f.mux)
        \/ /\ Exists(f.mux) /\ ~Writable(f.mux)
           /\ Refuse(d, s, "0x06010002", f.mux)

(* A segmented download is opened.  When the handler callback raises, the  *)
(* transfer stays open without a handler.                                  *)
OpenSegmented(f) ==
    LET d == Started(Settled(dl), "SEGMENT", f.mux)
        s == SettledSink(dl, sink)
    IN  /\ ~Bit(f, 2)
        /\ \E c \in DownloadCallback :
             \/ c = "none"    /\ Continue(d, s, <<InitReply(f.mux)>>)
             \/ c = "handler" /\ Continue(Held(d), Opened(s),
                                          <<InitReply(f.mux)>>)
             \/ c = "raise"   /\ GeneralFailure(d, s, f)

(* The size of the data of an expedited download; unknown when the frame   *)
(* does not say and the variable has none.                                 *)
ExpeditedSize(f) == IF Bit(f, 1) THEN ExpSize(f) ELSE Size[f.mux]
SizeUnknown(f)   == ~Bit(f, 1) /\ Size[f.mux] = NoSize

(* An expedited download: received and finished at once.  The abort for an *)
(* unknown size names the multiplexor of the previous transfer.            *)
Expedite(f) ==
    LET d == Fresh(Settled(dl), "NONE")
        s == SettledSink(dl, sink)
        e == Started(Settled(dl), "NONE", f.mux)
        data == Take(ExpData(f), ExpeditedSize(f))
    IN  /\ Bit(f, 2)
        /\ IF SizeUnknown(f)
           THEN Refuse(Settled(dl), s, "0x06070010", dl.mux)
           ELSE \E c \in DownloadCallback :
                  \/ /\ c = "none"
                     /\ Finish(Received(e, data), s, <<InitReply(f.mux)>>)
                  \/ /\ c = "handler"
                     /\ \/ ReceiveFails(Held(e), Opened(s), f)
                        \/ Finish(Held(e), Passed(Held(e), Opened(s), data),
                                  <<InitReply(f.mux)>>)
                  \/ c = "raise" /\ GeneralFailure(d, s, f)

InitDownload(f) ==
    \/ SettleFails(f) \/ InitRefused(f)
    \/ Exists(f.mux) /\ Writable(f.mux) /\ (OpenSegmented(f) \/ Expedite(f))

(* The size announced by a truncated frame cannot be unpacked: like a      *)
(* callback that raises, this leaves an open transfer behind.              *)
OpenBlock(f) ==
    LET d == [Started(Settled(dl), "BLOCK", f.mux) EXCEPT
                !.check = Bit(f, 4)]
        s == SettledSink(dl, sink)
    IN  IF Bit(f, 2) /\ Truncated(f)
        THEN GeneralFailure(d, s, f)
        ELSE \E c \in DownloadCallback :
               \/ c = "none"    /\ Continue(d, s, <<BlockReply(f.mux)>>)
               \/ c = "handler" /\ Continue(Held(d), Opened(s),
                                            <<BlockReply(f.mux)>>)
               \/ c = "raise"   /\ GeneralFailure(d, s, f)

DownloadBlockInit(f) ==
    \/ SettleFails(f) \/ InitRefused(f)
    \/ Exists(f.mux) /\ Writable(f.mux) /\ OpenBlock(f)

-----------------------------------------------------------------------------
(* Data *)

(* Variant of AbortDownload: the client is told, the transfer goes on. *)
OnlyReplyAbort(d, code, m, f) == Refuse(d, sink, code, m)

AbortDownload(d, code, m, f) ==
    \/ Refuse(DlAborted(d), Notified(d, sink), code, m)
    \/ AbortFails(d, sink, f)

DownloadSegment(f) ==
    LET data == Take(f.data, SegSize(f))
        d == [dl EXCEPT !.toggle = ~@]
        confirm == <<SegmentReply(Toggle(f))>>
    IN  IF dl.state # "SEGMENT"
        THEN AbortDownload(dl, "0x05040001", Zero, f)
        ELSE IF Toggle(f) # dl.toggle
        THEN AbortDownload(dl, "0x05030000", dl.mux, f)
        ELSE /\ Room(data)
             /\ \/ ReceiveFails(d, sink, f)
                \/ /\ Bit(f, 1)
                   /\ Finish(Received(d, data), Passed(d, sink, data), confirm)
                \/ /\ ~Bit(f, 1)
                   /\ Continue(Received(d, data), Passed(d, sink, data),
                               confirm)

(* Variant of Checked that starts the checksum anew with each segment. *)
CheckedAnew(d, data) == IF d.check THEN [d EXCEPT !.crc = data] ELSE d

(* The checksum runs over every segment but the last, whose valid length   *)
(* only the end frame tells; until then the last segment waits in the      *)
(* buffer, even when a handler takes the others.                           *)
Checked(d, data) == IF d.check THEN [d EXCEPT !.crc = @ \o data] ELSE d

(* Variant of SubBlockFull that waits for the last segment. *)
OnlyLastFills(f) == LastSub(f)

(* The acknowledgement after the last segment of a sub-block. *)
Counted(d, full) == [d EXCEPT !.seq = IF full THEN 1 ELSE @ + 1]
SubBlockFull(f) == dl.seq = MaxSeq \/ LastSub(f)
SubBlockAck(f)  == IF SubBlockFull(f) THEN <<SubBlockReply(dl.seq)>> ELSE <<>>

DownloadSubBlock(f) ==
    IF SubSeqNo(f) # dl.seq
    THEN AbortDownload(dl, "0x05040003", dl.mux, f)
    ELSE /\ Room(f.data)
         /\ \/ /\ ~LastSub(f)
               /\ \/ ReceiveFails(Checked(dl, f.data), sink, f)
                  \/ Continue(Counted(Received(Checked(dl, f.data), f.data),
                                      SubBlockFull(f)),
                              Passed(dl, sink, f.data), SubBlockAck(f))
            \/ /\ LastSub(f)
               /\ Continue(Counted([Extended(dl, f.data) EXCEPT
                                      !.state = "BLOCK_END"], TRUE),
                           sink, SubBlockAck(f))

(* Variant of Trimmed that leaves one byte too many. *)
TrimmedTooLittle(d, size) ==
    IF size = SegLen THEN d
    ELSE [d EXCEPT !.buffer = DropLast(@, SegLen - size - 1)]

(* The end of the buffer that is not data is cut off. *)
Trimmed(d, size) ==
    IF size = SegLen THEN d
    ELSE [d EXCEPT !.buffer = DropLast(@, SegLen - size)]

DownloadBlockEnd(f) ==
    LET size == EndSize(f)
        last == Take(dl.buffer, size)
        d    == Checked(dl, Take(TakeLast(dl.buffer, SegLen), size))
    IN  IF dl.state # "BLOCK_END"
        THEN AbortDownload(dl, "0x05040001", Zero, f)
        ELSE /\ Room(<<>>)
             /\ IF d.check /\ d.crc # f.crc
                THEN AbortDownload(d, "0x05040004", dl.mux, f)
                ELSE \/ /\ ~d.held
                        /\ Finish(Trimmed(d, size), sink, <<BlockEndReply>>)
                     \/ ReceiveFails(d, sink, f)
                     \/ /\ d.held
                        /\ Finish(d, Passed(d, sink, last), <<BlockEndReply>>)

-----------------------------------------------------------------------------
(* DownloadManager.on_abort: the client aborts its transfer of f.mux. *)
Downloading(m) == dl.state # "NONE" /\ dl.mux = m

ClientAbortsDownload(f) ==
    /\ dl' = IF Downloading(f.mux) THEN DlAborted(dl) ELSE dl
    /\ sink' = IF Downloading(f.mux) THEN Notified(dl, sink) ELSE sink
=============================================================================
