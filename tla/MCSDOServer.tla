----------------------------- MODULE MCSDOServer -----------------------------
(***************************************************************************)
(* Instances of SDOServer for TLC: one multiplexor per kind of object, a   *)
(* payload whose bytes tell their position, and the command bytes of each  *)
(* service with the boundary values of their fields.  Every frame may      *)
(* arrive in every state.                                                  *)
(***************************************************************************)
EXTENDS SDOServer

CONSTANTS num, dom, ro, wo, nosub, zero

MCAccess == [m \in Mux |-> CASE m \in {num, dom} -> "rw" [] m = ro -> "ro"
                             [] m = wo -> "wo" [] m = nosub -> "nosub"
                             [] OTHER -> "noobj"]
MCSize == [m \in Mux |-> CASE m = num -> 2 [] m = ro -> 8 [] OTHER -> NoSize]

MCByte  == 0..7
Payload == <<1, 2, 3, 4, 5, 6, 7>>

Plain(b0, m) == [b0 |-> b0, mux |-> m, data |-> Payload, ack |-> 0,
                 blk |-> 0, pst |-> 0, crc |-> <<>>]
Short(f) == [f EXCEPT !.data = Take(@, HeadLen)]

Of(bytes, muxes) == {Plain(b, m) : b \in bytes, m \in muxes}

(* 2F, 2B, 23: one, two, four bytes; 22: size not given; 21: segmented *)
InitDownloads(muxes) == Of({47, 43, 35, 34, 33}, muxes)

(* seven bytes and a last segment of four, with either toggle bit *)
DownloadSegments == Of({0, 16, 7, 23}, {zero})

(* C0, C4: without and with checksum *)
BlockInits(muxes) == Of({192, 196}, muxes)
SubBlocks == Of({1, 2, 3, 129, 130}, {zero})

(* C1, CD, DD: seven, four and no bytes of the last segment are data; the  *)
(* checksum is right after none, one or two segments before it             *)
BlockEnds ==
    {[Plain(e[1], zero) EXCEPT !.crc = c \o Take(Payload, e[2])] :
       e \in {<<193, 7>>, <<205, 4>>, <<221, 0>>},
       c \in {<<>>, Payload, Payload \o Payload}}

Aborts(muxes) == Of({128}, muxes)
Unknowns == Of({144}, {zero})

(* 40 and a wrong sub-command *)
InitUploads(muxes) == Of({64, 66}, muxes)
UploadSegments == Of({96, 112}, {zero})

(* A0, A4: block sizes at their limits, switching thresholds around a size *)
BlockUploads(muxes) ==
    {[Plain(b, m) EXCEPT !.blk = n, !.pst = p] :
       b \in {160, 164}, m \in muxes, n \in {0, 1, MaxSeq, MaxSeq + 1},
       p \in {0, 7}}
Starts == Of({163}, {zero})
Acks(sizes) == {[Plain(162, zero) EXCEPT !.ack = a, !.blk = n] :
                  a \in 0..MaxSeq, n \in sizes}
UploadEnds == Of({161}, {zero})

DownloadFrames(muxes) ==
    InitDownloads(muxes) \cup DownloadSegments \cup BlockInits(muxes)
      \cup SubBlocks \cup BlockEnds \cup Aborts(muxes) \cup Unknowns

UploadFrames(muxes) ==
    InitUploads(muxes) \cup UploadSegments \cup BlockUploads(muxes)
      \cup Starts \cup Acks({0, 1, MaxSeq}) \cup UploadEnds \cup Aborts(muxes)

MCDownloadFrames == DownloadFrames(Mux)
MCUploadFrames   == UploadFrames(Mux)

(* Both directions at once, a few frames of every service; a number takes  *)
(* the two bytes of 43 and refuses the seven of a segment.                 *)
MCMixedFrames ==
    LET blockUpload == [Plain(164, dom) EXCEPT !.blk = 1]
    IN  Of({35, 33, 64, 128, 196}, {dom}) \cup Of({43, 33}, {num})
          \cup Of({0, 7, 1, 129, 96}, {zero})
          \cup {[Plain(193, zero) EXCEPT !.crc = Payload],
                [Plain(205, zero) EXCEPT !.crc = Take(Payload, 4)]}
          \cup {blockUpload, Short(Plain(198, dom))}
          \cup Starts \cup Acks({MaxSeq + 1}) \cup UploadEnds

(* reply is never read: states that differ in nothing else are one state,  *)
(* and a property of reply is an action property, checked on every step.   *)
Fields == <<od, dl, sink, ul, source>>

NoWrites == {}
Strings  == {<<>>, Take(Payload, 3), Payload, Payload \o Payload,
             Payload \o Payload \o Take(Payload, 1)}
FewStrings == {Payload \o Take(Payload, 1)}
Writes   == {dom} \X Strings
=============================================================================
