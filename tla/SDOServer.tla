------------------------------ MODULE SDOServer ------------------------------
(***************************************************************************)
(* An SDO server as its client sees it: the dispatcher handle_msg of       *)
(* services/sdo/server.py over the download and the upload manager.  The   *)
(* client is arbitrary, it may send any of the Frames at any time; the     *)
(* application may write to the dictionary between two frames.             *)
(***************************************************************************)
EXTENDS SDODownload, SDOUpload

CONSTANTS
    Frames,     \* the frames a client may send
    Written     \* values the application writes, by multiplexor

ASSUME FramesAssumption == Frames \subseteq Frame
ASSUME WrittenAssumption == Written \subseteq (Mux \X Seq(Byte))

vars == <<od, reply, dl, sink, ul, source>>

-----------------------------------------------------------------------------
(* handle_msg *)

AbortCommand == 128     \* 0x80

(* SDOServer.abort: a client abort that names no object is ignored; one of *)
(* a handler that raises is answered, and stops there.                     *)
ClientAbort(f) ==
    /\ f.b0 = AbortCommand
    /\ \/ /\ IF Exists(f.mux)
             THEN ClientAbortsDownload(f) /\ ClientAbortsUpload(f)
             ELSE UNCHANGED <<dl, sink, ul, source>>
          /\ reply' = <<>>
          /\ UNCHANGED od
       \/ /\ Exists(f.mux) /\ Downloading(f.mux)
          /\ AbortFails(dl, sink, f)
          /\ UNCHANGED uploadVars
       \/ /\ Exists(f.mux) /\ Uploading(f.mux)
          /\ ClientAbortsDownload(f)
          /\ CloseFails(ul, source, "abort", f)

(* Which operation takes a frame.  A block transfer takes every frame but  *)
(* an abort, the download before the upload; only then counts the ccs.     *)
Route(f) ==
    IF f.b0 = AbortCommand                  THEN "abort"
    ELSE IF dl.state = "BLOCK"              THEN "download_sub_block"
    ELSE IF ul.state \in {"BLOCK", "BLOCK_END"} THEN "upload_sub_block"
    ELSE CASE Ccs(f) = 0                    -> "download_segment"
           [] Ccs(f) = 1                    -> "init_download"
           [] Ccs(f) \in {2, 5}             -> "init_upload"
           [] Ccs(f) = 3                    -> "upload_segment"
           [] Ccs(f) = 6 /\ Bit(f, 1)       -> "download_block_end"
           [] Ccs(f) = 6 /\ ~Bit(f, 1)      -> "download_block_init"
           [] OTHER                         -> "unknown"

DownloadStep(f) ==
    /\ \/ Route(f) = "download_sub_block"  /\ DownloadSubBlock(f)
       \/ Route(f) = "download_segment"    /\ DownloadSegment(f)
       \/ Route(f) = "init_download"       /\ InitDownload(f)
       \/ Route(f) = "download_block_end"  /\ DownloadBlockEnd(f)
       \/ Route(f) = "download_block_init" /\ DownloadBlockInit(f)
    /\ UNCHANGED uploadVars

UploadStep(f) ==
    /\ \/ Route(f) = "upload_sub_block" /\ UploadSubBlock(f)
       \/ Route(f) = "init_upload"      /\ InitUpload(f)
       \/ Route(f) = "upload_segment"   /\ UploadSegment(f)
    /\ UNCHANGED downloadVars

(* No operation has this ccs; transfers in progress are not touched. *)
UnknownCommand(f) ==
    /\ Route(f) = "unknown"
    /\ reply' = <<AbortReply("0x05040001", Zero)>>
    /\ UNCHANGED <<od, dl, sink, ul, source>>

HandleMsg(f) ==
    ClientAbort(f) \/ DownloadStep(f) \/ UploadStep(f) \/ UnknownCommand(f)

(* ObjectDictionary.write by the application, not caused by a download. *)
ApplicationWrite(m, data) ==
    /\ Exists(m)
    /\ Size[m] # NoSize => Len(data) = Size[m]
    /\ od' = [od EXCEPT ![m] = data]
    /\ reply' = <<>>
    /\ UNCHANGED <<dl, sink, ul, source>>

Init == BaseInit /\ DownloadInit /\ UploadInit

Next == \/ \E f \in Frames : HandleMsg(f)
        \/ \E w \in Written : ApplicationWrite(w[1], w[2])

Spec == Init /\ [][Next]_vars

-----------------------------------------------------------------------------
(* Properties.  One client frame may end a transfer on five different      *)
(* paths (completed, refused, aborted by either side, replaced by another  *)
(* initiate), each with its own code to restore the manager's fields and   *)
(* to tell the application.                                                *)

(* Every field keeps its type, sequence numbers stay within a sub-block. *)
TypeOK == BaseTypeOK /\ DownloadTypeOK /\ UploadTypeOK

(* No handler of a download is dropped before it was told that its         *)
(* transfer is over (on_finish or on_abort), and none is told twice: the   *)
(* one not yet told is the one the manager holds.  Only a handler that     *)
(* raised from on_abort stays with the manager when it was told, and is    *)
(* told again; for any other it is exactly once.                           *)
SinkLedger == sink.open = IF dl.held /\ ~dl.told THEN 1 ELSE 0

(* The same for handlers opened for an upload: the one not yet told is the *)
(* one behind the stream.  Only one that raised when it was told, from     *)
(* on_abort or on_finish, stays there and is told again.                   *)
SourceLedger ==
    source = IF ul.stream.kind = "handler" /\ ~ul.told THEN 1 ELSE 0

(* Without a transfer nothing of an earlier one is left that the next one  *)
(* would start from: no data, first sequence number, toggle bit clear, and *)
(* no handler but one that has heard of its end.                           *)
IdleIsClean ==
    dl.state = "NONE" => /\ (dl.held => dl.told) /\ dl.buffer = <<>>
                         /\ dl.seq = 1 /\ dl.toggle = FALSE

(* The assertions "Stream not available" of upload_segment and             *)
(* upload_sub_block: whoever is asked for data has a stream to read.       *)
StreamAvailable == ul.state # "NONE" => ul.stream.kind # "none"

(* What download_block_end takes for granted when it slices the buffer:    *)
(* with a handler it holds exactly the last segment, without one whole     *)
(* segments only; before the end, data for a handler are never buffered.   *)
BlockBuffer ==
    /\ dl.state \in {"SEGMENT", "BLOCK"} /\ dl.held => dl.buffer = <<>>
    /\ dl.state = "BLOCK" /\ ~dl.held => Len(dl.buffer) % SegLen = 0
    /\ dl.state = "BLOCK_END" =>
         IF dl.held THEN Len(dl.buffer) = SegLen
         ELSE Len(dl.buffer) % SegLen = 0 /\ dl.buffer # <<>>

(* The running checksum of a block download covers exactly the data that   *)
(* went to the handler or the buffer, the waiting last segment excepted.   *)
(* (A handler that raised from on_abort keeps a transfer whose checksum    *)
(* already has what it refused.)                                           *)
ChecksumCoversData ==
    dl.check /\ ~dl.told =>
      dl.crc = IF dl.held THEN sink.got
               ELSE IF dl.state = "BLOCK" THEN dl.buffer
               ELSE DropLast(dl.buffer, SegLen)

(* What the client reads as "your download is complete": the confirmation  *)
(* of a frame after which the server has no download any more.             *)
Completed(frames, d) ==
    /\ Len(frames) = 1 /\ d.state = "NONE"
    /\ frames[1].cs \in {"dlInit", "dlSegment", "dlBlockEnd"}

(* A client frame changes the dictionary or what handlers filed only in    *)
(* the object of its own transfer, which must be writable, and only when   *)
(* the client is told so: a client that is answered with an abort, or not  *)
(* answered, finds the data as they were.                                  *)
StoredIsConfirmed ==
    [][\A m \in Mux :
         <<od[m], sink.filed[m]>>' # <<od[m], sink.filed[m]>> =>
           \/ /\ Completed(reply', dl') /\ dl'.mux = m
              /\ Writable(m)
           \/ reply' = <<>> /\ UNCHANGED <<dl, sink, ul, source>>]_vars

(* A block download that asked for a checksum stores or files exactly the  *)
(* bytes the client's checksum was computed on, although they are cut out  *)
(* of the buffer by other slices than the checksum is computed over.  The  *)
(* transfer a handler keeps by raising from on_abort is none of these.     *)
ChecksumGuardsData ==
    [][dl.check /\ ~dl.told /\ reply' = <<BlockEndReply>> =>
         \A f \in Frames :
           f.crc # (IF dl.held THEN sink'.filed[dl.mux] ELSE od'[dl.mux]) =>
             ~DownloadBlockEnd(f)]_vars

(* When the server answers a frame with an abort that gives a reason, the  *)
(* manager that took the frame has no transfer any more: client and server *)
(* agree that the next transfer starts afresh, whatever the application    *)
(* raises on the way.  Only the answer to an exception of the application  *)
(* or of struct (Halfway, whatever its class) may leave a transfer open:   *)
(* the operation ended where it was raised.                                *)
AbortEndsTransfer ==
    [][Refused(reply') =>
         /\ dl'.state # "NONE" => ~\E f \in Frames : DownloadStep(f)
         /\ ul'.state # "NONE" => ~\E f \in Frames : UploadStep(f)]_vars
=============================================================================
