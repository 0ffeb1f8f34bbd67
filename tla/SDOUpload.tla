------------------------------ MODULE SDOUpload ------------------------------
(***************************************************************************)
(* The upload half of the SDO server: class UploadManager of               *)
(* services/sdo/upload.py with its two kinds of stream.  A FixedStream     *)
(* holds the bytes of a variable as they were when the transfer began; a   *)
(* HandlerStream pulls its bytes from a handler the application supplied.  *)
(*                                                                         *)
(* The stream is the sequence of bytes still to be read.  A HandlerStream  *)
(* may have asked its handler for some of them already; that buffer shows  *)
(* only in when on_read is called, so the model lets on_read raise at any  *)
(* read or peek of a HandlerStream (when "on_read" is among the Faults).   *)
(***************************************************************************)
EXTENDS SDOFrames

CONSTANTS
    UploadCallback,     \* what the application's handler callback may do
    Served              \* byte sequences a handler may have to serve

ASSUME UploadCallbackAssumption ==
    UploadCallback \subseteq {"none", "handler", "raise"}
ASSUME ServedAssumption == Served \subseteq Seq(Byte)

VARIABLES
    ul,         \* the fields of UploadManager, the stream among them
    source      \* handlers the application has opened for reading and that
                \* were told neither on_finish nor on_abort

uploadVars == <<ul, source>>

Unsized == -1   \* HandlerStream.size is None

(* kind "none" is _stream = None. *)
Stream == [kind : {"none", "fixed", "handler"}, left : Seq(Byte), size : Int]

NoStream      == [kind |-> "none", left |-> <<>>, size |-> 0]
FixedStream(data) == [kind |-> "fixed", left |-> data, size |-> Len(data)]
HandlerStream(data, size) == [kind |-> "handler", left |-> data, size |-> size]

(* told is no field of the manager: the handler behind its stream has      *)
(* heard on_abort or on_finish, and raised.                                *)
UploadState ==
    [state : TransferStates, mux : Mux, stream : Stream, told : BOOLEAN,
     toggle : BOOLEAN, blk : Nat, check : BOOLEAN, crc : Seq(Byte)]

UploadTypeOK == ul \in UploadState /\ source \in Int

UploadInit ==
    /\ ul = [state |-> "NONE", mux |-> Zero, stream |-> NoStream,
             told |-> FALSE, toggle |-> FALSE, blk |-> 0, check |-> FALSE,
             crc |-> <<>>]
    /\ source = 0

-----------------------------------------------------------------------------
(* Fields of the manager after each internal call *)

(* Variant of Ended that drops the stream and stays in its state. *)
EndedButState(u) == [u EXCEPT !.stream = NoStream, !.told = FALSE,
                              !.toggle = FALSE, !.blk = 0, !.check = FALSE, !.crc = <<>>]

(* The state is left and the stream dropped.  What a transfer sets before  *)
(* it reads (toggle, block size, checksum) is dead and cleared as well.    *)
Ended(u) == [u EXCEPT !.state = "NONE", !.stream = NoStream,
                      !.told = FALSE, !.toggle = FALSE, !.blk = 0,
                      !.check = FALSE, !.crc = <<>>]

(* Variant of Closed: the handler is dropped without a word. *)
NotClosed(u, n) == n

(* The stream's abort or release: the handler hears on_abort or on_finish. *)
Closed(u, n) == IF u.stream.kind = "handler" /\ ~u.told THEN n - 1 ELSE n

UlAborted(u) == Ended(u)

(* "if self._state != NONE: self._abort()", the start of an initiate. *)
SettledUpload(u)    == IF u.state # "NONE" THEN UlAborted(u) ELSE u
SettledSource(u, n) == IF u.state # "NONE" THEN Closed(u, n) ELSE n

(* stream.read(n): n bytes are taken off. *)
Advanced(u, n) == [u EXCEPT !.stream.left = Drop(@, n)]

(* on_read may raise in the middle of a read or peek of this stream. *)
MayRaise(stream) == stream.kind = "handler" /\ "on_read" \in Faults

-----------------------------------------------------------------------------
(* The ways an operation ends *)

Answer(u, n, frames) ==
    ul' = u /\ source' = n /\ reply' = frames /\ UNCHANGED od

RefuseUpload(u, n, code, m) == Answer(u, n, <<AbortReply(code, m)>>)

(* Variant of AbortUpload: the client is told, the transfer goes on. *)
OnlyReplyUploadAbort(code, m, f) == RefuseUpload(ul, source, code, m)

(* The stream's abort or release, the given point: the handler raised, and *)
(* its stream stays.                                                       *)
CloseFails(u, n, point, f) ==
    /\ u.stream.kind = "handler" /\ point \in Faults
    /\ Answer([u EXCEPT !.told = TRUE], Closed(u, n), <<GeneralError(f)>>)

AbortUpload(code, m, f) ==
    \/ RefuseUpload(UlAborted(ul), Closed(ul, source), code, m)
    \/ CloseFails(ul, source, "abort", f)

-----------------------------------------------------------------------------
(* Server frames of an upload.  data is filled up to the frame's length, n *)
(* is the number of bytes the frame declares as not data.                  *)

UpInitReply(m, size) == [cs |-> "ulInit", mux |-> m, size |-> size]
UpBlockReply(m, size) == [cs |-> "ulBlock", mux |-> m, size |-> size]
UpExpeditedReply(m, data) ==
    [cs |-> "ulExpedited", mux |-> m, n |-> ExpLen - Len(data),
     data |-> Padded(data, ExpLen)]
UpSegmentReply(toggle, last, data) ==
    [cs |-> "ulSegment", toggle |-> toggle, last |-> last,
     n |-> SegLen - Len(data), data |-> Padded(data, SegLen)]
SubBlockFrame(seq, last, data) ==
    [cs |-> "ulSubBlock", seq |-> seq, last |-> last,
     data |-> Padded(data, SegLen)]
UpBlockEndReply(size, crc) ==
    [cs |-> "ulBlockEnd", n |-> SegLen - (size % SegLen), crc |-> crc]

-----------------------------------------------------------------------------
(* Initiate *)

(* The switch to a block transfer: ccs 5, and the data are longer than the *)
(* client's protocol switching threshold.                                  *)
WantsBlock(f, size) ==
    Ccs(f) = 5 /\ (f.pst = 0 \/ size = Unsized \/ size > f.pst)

BadBlockSize(f) == f.blk = 0 \/ f.blk > MaxSeq

(* init_upload once setup has returned the stream.  u has the stream, n    *)
(* counts its handler.                                                     *)
StartUpload(u, n, f) ==
    LET size == u.stream.size
    IN  IF Ccs(f) = 5 /\ Truncated(f)
        THEN Answer(u, n, <<GeneralError(f)>>)      \* no msg[5]
        ELSE IF WantsBlock(f, size)
        THEN IF BadBlockSize(f)
             THEN \/ RefuseUpload(Ended(u), Closed(u, n), "0x05040002", f.mux)
                  \/ CloseFails(u, n, "abort", f)
             ELSE Answer([u EXCEPT !.state = "BLOCK", !.check = Bit(f, 4),
                                   !.crc = <<>>, !.blk = f.blk],
                         n, <<UpBlockReply(f.mux, size)>>)
        ELSE IF size \in 1..ExpLen
        THEN \/ Answer(Ended(u), Closed(u, n),
                       <<UpExpeditedReply(f.mux, Take(u.stream.left, ExpLen))>>)
             \/ CloseFails(Advanced(u, ExpLen), n, "release", f)
             \/ /\ MayRaise(u.stream)
                /\ Answer(u, n, <<GeneralError(f)>>)
        ELSE Answer([u EXCEPT !.state = "SEGMENT", !.toggle = FALSE],
                    n, <<UpInitReply(f.mux, size)>>)

(* setup: the stream of a readable variable, from the application or from  *)
(* the object dictionary.                                                  *)
SetUp(f) ==
    LET u == [SettledUpload(ul) EXCEPT !.mux = f.mux]
        n == SettledSource(ul, source)
        With(stream) == [u EXCEPT !.stream = stream, !.told = FALSE]
    IN  \E c \in UploadCallback :
          \/ /\ c = "handler"
             /\ \E data \in Served : \E size \in {Len(data), Unsized} :
                  StartUpload(With(HandlerStream(data, size)), n + 1, f)
          \/ /\ c = "none"
             /\ \/ StartUpload(With(FixedStream(od[f.mux])), n, f)
                \/ /\ "read" \in Faults
                   /\ RefuseUpload(u, n, "0x08000020", f.mux)
          \/ c = "raise" /\ Answer(u, n, <<GeneralError(f)>>)

InitUpload(f) ==
    LET u == SettledUpload(ul)
        n == SettledSource(ul, source)
    IN  \/ ul.state # "NONE" /\ CloseFails(ul, source, "abort", f)
        \/ IF SubCmd(f) # 0
           THEN RefuseUpload(u, n, "0x05040001", Zero)
           ELSE IF ~Exists(f.mux)
           THEN RefuseUpload(u, n, LookupError(f.mux), f.mux)
           ELSE IF Access[f.mux] = "wo"
           THEN RefuseUpload(u, n, "0x06010001", f.mux)
           ELSE SetUp(f)

-----------------------------------------------------------------------------
(* Data *)

UploadSegment(f) ==
    LET u    == [ul EXCEPT !.toggle = ~@]
        data == Take(ul.stream.left, SegLen)
        rest == Advanced(u, SegLen)
        last == rest.stream.left = <<>>
    IN  IF ul.state # "SEGMENT"
        THEN AbortUpload("0x05040001", Zero, f)
        ELSE IF Toggle(f) # ul.toggle
        THEN AbortUpload("0x05030000", ul.mux, f)
        ELSE \/ Answer(IF last THEN Ended(rest) ELSE rest,
                       IF last THEN Closed(rest, source) ELSE source,
                       <<UpSegmentReply(Toggle(f), last, data)>>)
             \/ /\ last
                /\ CloseFails([rest EXCEPT !.state = "NONE"], source,
                              "release", f)
             \/ /\ MayRaise(ul.stream)      \* in read(7) or in peek(1)
                /\ \E v \in {u, rest} : Answer(v, source, <<GeneralError(f)>>)

(* The frames of the next sub-block: as many segments as blk allows, the   *)
(* last one marked when nothing follows it.  An empty sub-block is still   *)
(* one frame.                                                              *)
SubBlock(left, blk) ==
    LET data  == Take(left, blk * SegLen)
        count == (Len(data) + SegLen - 1) \div SegLen
        sent  == IF count = 0 THEN 1 ELSE count
        last  == Len(left) <= blk * SegLen
    IN  [i \in 1..sent |->
           SubBlockFrame(i, last /\ i = sent,
                         SubSeq(data, SegLen * (i - 1) + 1,
                                Least(SegLen * i, Len(data))))]

(* Sequence numbers have seven bits.  A block size the acknowledgement     *)
(* carried is not checked, and the marked last frame of a longer sub-block *)
(* cannot be encoded.                                                      *)
Unencodable(frames) == Len(frames) > MaxSeq /\ frames[Len(frames)].last

SendSubBlock(u, f) ==
    LET frames == SubBlock(u.stream.left, u.blk)
    IN  \/ IF Unencodable(frames)
           THEN Answer(u, source, SubSeq(frames, 1, Len(frames) - 1)
                                    \o <<GeneralError(f)>>)
           ELSE Answer(u, source, frames)
        \/ /\ MayRaise(u.stream)
           /\ Answer(u, source, <<GeneralError(f)>>)

(* Variant of Acknowledged that takes the whole sub-block off the stream.  *)
AcknowledgedAll(f) ==
    LET n == ul.blk * SegLen
    IN  [Advanced(ul, n) EXCEPT !.blk = f.blk,
           !.crc = IF ul.check THEN @ \o Take(ul.stream.left, n) ELSE @]

(* The segments the client acknowledges are taken off the stream and into  *)
(* the checksum; when nothing is left the block transfer is ended.         *)
Acknowledged(f) ==
    LET data == Take(ul.stream.left, f.ack * SegLen)
    IN  [Advanced(ul, f.ack * SegLen)
           EXCEPT !.blk = f.blk, !.crc = IF ul.check THEN @ \o data ELSE @]

UploadSubBlock(f) ==
    LET u    == Acknowledged(f)
        size == Least(Len(ul.stream.left), f.ack * SegLen)
    IN  IF ul.state = "BLOCK_END"
        THEN \/ Answer(Ended(ul), Closed(ul, source), <<>>)
             \/ CloseFails(ul, source, "release", f)
        ELSE IF SubCmd(f) # 2
        THEN SendSubBlock(ul, f)
        ELSE \/ /\ u.stream.left # <<>>
                /\ SendSubBlock(u, f)
             \/ /\ u.stream.left = <<>>
                /\ Answer([u EXCEPT !.state = "BLOCK_END"], source,
                          <<UpBlockEndReply(size, u.crc)>>)
             \/ /\ MayRaise(ul.stream)
                /\ \E v \in {ul, u} : Answer(v, source, <<GeneralError(f)>>)

-----------------------------------------------------------------------------
(* UploadManager.on_abort: the client aborts its transfer of f.mux. *)
Uploading(m) == ul.state # "NONE" /\ ul.mux = m

ClientAbortsUpload(f) ==
    /\ ul' = IF Uploading(f.mux) THEN UlAborted(ul) ELSE ul
    /\ source' = IF Uploading(f.mux) THEN Closed(ul, source) ELSE source
=============================================================================
