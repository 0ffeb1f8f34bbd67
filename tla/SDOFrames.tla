------------------------------ MODULE SDOFrames ------------------------------
(***************************************************************************)
(* What the two halves of the SDO server (services/sdo/download.py and     *)
(* services/sdo/upload.py) share: the client's CAN frames and how their    *)
(* bytes are read, the frames the server answers with, and the object      *)
(* dictionary with the checks both halves make before they touch it.       *)
(*                                                                         *)
(* A client frame is a record.  Its command byte b0 is the real byte and   *)
(* is decoded as the code decodes it, so that a frame which arrives in the *)
(* wrong state is misread here exactly as it is misread there.  The other  *)
(* bytes are kept apart by what the code uses them for: data is the frame  *)
(* from byte 1 to its end (7 bytes, or fewer when the frame is truncated), *)
(* mux is bytes 1-3 read as a multiplexor, ack is byte 1, blk the byte of  *)
(* the requested block size (4 in an initiate frame, 2 in an               *)
(* acknowledgement), pst byte 5, and crc bytes 1-2 read as a checksum.     *)
(* A frame has at least its first four bytes.                              *)
(*                                                                         *)
(* A checksum is ideal: it is the byte sequence it was computed on, so     *)
(* crc_hqx(d, c) is c \o d and two checksums agree iff the data do.        *)
(***************************************************************************)
EXTENDS Integers, Sequences

CONSTANTS
    Byte,       \* the byte values told apart
    Pad,        \* the zero byte: padding, and the default of a variable
    Mux,        \* multiplexors a frame can name
    Zero,       \* the multiplexor (0,0), which also stands for "not set" (None)
    Access,     \* access type of each multiplexor, or why it does not exist
    Size,       \* byte size of a numeric variable, NoSize for any other
    MaxSeq,     \* segments in a sub-block; 127 in the code
    Faults      \* which calls into application code may raise

VARIABLES
    od,         \* ObjectDictionary._data, as transferred bytes
    reply       \* the frames sent while handling the last client frame

SegLen  == 7    \* data bytes of a segment
HeadLen == 3    \* bytes 1-3 of a frame hold the multiplexor
ExpLen  == 4    \* data bytes of an expedited transfer
NoSize  == 0    \* Variable.size is None

(* TransferState, the state of either manager *)
TransferStates == {"NONE", "SEGMENT", "BLOCK", "BLOCK_END"}

AccessTypes == {"rw", "ro", "wo", "const", "nosub", "noobj"}

(* abort and release are those of a HandlerStream, which call on_abort and *)
(* on_finish of an upload handler; on_abort and on_finish are those of a   *)
(* download handler.                                                       *)
FaultPoints == {"on_receive", "on_finish", "on_abort", "validate",
                "read", "on_read", "abort", "release"}

ASSUME ByteAssumption   == Pad \in Byte
ASSUME MuxAssumption    == Zero \in Mux
ASSUME AccessAssumption == /\ Access \in [Mux -> AccessTypes]
                           /\ Access[Zero] = "noobj"
ASSUME SizeAssumption   == Size \in [Mux -> Nat]
ASSUME MaxSeqAssumption == MaxSeq \in 1..127
ASSUME FaultsAssumption == Faults \subseteq FaultPoints

-----------------------------------------------------------------------------
(* Byte sequences *)

Least(m, n) == IF m <= n THEN m ELSE n

(* The Python slices s[:n], s[n:] and s[-n:]. *)
Take(s, n)     == SubSeq(s, 1, Least(n, Len(s)))
Drop(s, n)     == SubSeq(s, n + 1, Len(s))
TakeLast(s, n) == Drop(s, Len(s) - Least(n, Len(s)))
DropLast(s, n) == Take(s, Len(s) - Least(n, Len(s)))

(* s filled up with zero bytes to n bytes: s + bytes(n - len(s)). *)
Padded(s, n) == [i \in 1..n |-> IF i <= Len(s) THEN s[i] ELSE Pad]

-----------------------------------------------------------------------------
(* Client frames *)

Frame == [b0 : 0..255, mux : Mux, data : Seq(Byte), ack : Nat, blk : Nat,
          pst : Nat, crc : Seq(Byte)]

(* The bit of b0 with the given weight. *)
Bit(f, weight) == (f.b0 \div weight) % 2 = 1

Ccs(f)      == f.b0 \div 32              \* client command specifier
SubCmd(f)   == f.b0 % 4                  \* low bits: a sub-command or flags
Toggle(f)   == Bit(f, 16)
SegSize(f)  == SegLen - ((f.b0 \div 2) % 8) \* data bytes of a download segment
ExpSize(f)  == ExpLen - ((f.b0 \div 4) % 4) \* data bytes of an expedited download
EndSize(f)  == SegLen - ((f.b0 \div 4) % 8) \* data bytes of the last segment
SubSeqNo(f) == f.b0 % 128                \* sequence number in a sub-block
LastSub(f)  == f.b0 >= 128               \* "no more segments"

ExpData(f) == Drop(f.data, HeadLen)      \* msg[4:]

(* msg[4:] is shorter than the four bytes struct.unpack("<I") wants, or    *)
(* msg[5] does not exist.                                                  *)
Truncated(f) == Len(f.data) < SegLen

-----------------------------------------------------------------------------
(* Server frames *)

(* GeneralError answers an exception that left the operation halfway: one  *)
(* of the application, or of struct.  Its code is 0x08000000, the general  *)
(* error; only a KeyError of the application, which handle_msg takes for   *)
(* an unknown ccs, and an SDODomainAbort of the application are answered   *)
(* with other codes.  Halfway stands for all of them.                      *)
Halfway              == "0x08000000"
AbortReply(code, m)  == [cs |-> "abort", code |-> code, mux |-> m]
GeneralError(f)      == AbortReply(Halfway, f.mux)
InitReply(m)         == [cs |-> "dlInit", mux |-> m]
SegmentReply(toggle) == [cs |-> "dlSegment", toggle |-> toggle]
BlockReply(m)        == [cs |-> "dlBlock", mux |-> m]
SubBlockReply(n)     == [cs |-> "dlSubBlock", ack |-> n]
BlockEndReply        == [cs |-> "dlBlockEnd"]

(* The server has given up an operation and says why. *)
Refused(frames) ==
    \E i \in DOMAIN frames :
      frames[i].cs = "abort" /\ frames[i].code # Halfway

-----------------------------------------------------------------------------
(* The object dictionary *)

Exists(m)   == Access[m] \notin {"nosub", "noobj"}
Writable(m) == Access[m] \in {"rw", "wo"}

(* SDOServer.lookup: why m is not a variable of the dictionary. *)
LookupError(m) == IF Access[m] = "noobj" THEN "0x06020000" ELSE "0x06090011"

(* ObjectDictionary.read before anything was written: 0 or the empty bytes. *)
Default(m) == [i \in 1..Size[m] |-> Pad]

BaseTypeOK == od \in [Mux -> Seq(Byte)]

BaseInit == od = [m \in Mux |-> Default(m)] /\ reply = <<>>
=============================================================================
