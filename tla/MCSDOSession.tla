---------------------------- MODULE MCSDOSession ----------------------------
(***************************************************************************)
(* Instances of SDOSession for TLC: one request per way to transfer, with  *)
(* values of one byte, of one segment, of two and of three segments, which *)
(* are more than a sub-block.                                              *)
(***************************************************************************)
EXTENDS SDOSession

CONSTANTS dom, num, zero

MCAccess == [m \in Mux |-> IF m = zero THEN "noobj" ELSE "rw"]
MCSize   == [m \in Mux |-> IF m = num THEN 2 ELSE NoSize]
MCByte   == 0..7
MCNamed  == [bytes \in MCByte \X MCByte \X MCByte |-> dom]

Long  == <<1, 2, 3, 4, 5, 6, 7, 2, 3, 4, 5, 6, 7, 1, 5>>
Short == <<3>>
Whole == <<7, 6, 5, 4, 3, 2, 1, 1, 2, 3, 4, 5, 6, 7>>

Download(way, m, data) ==
    [op |-> "download", way |-> way, mux |-> m, data |-> data, pst |-> 0]
Upload(way, m, pst) ==
    [op |-> "upload", way |-> way, mux |-> m, data |-> <<>>, pst |-> pst]

MCRequest ==
    {Download(w, dom, d) : w \in {"plain", "block", "checked"},
                           d \in {Long, Short}}
      \cup {Upload(w, dom, 0) : w \in {"plain", "block", "checked"}}
      \cup {Upload("checked", dom, 4)}
      \cup {Download("plain", num, d) : d \in {Short, <<1, 2>>}}
MCWritten == {<<dom, Take(Long, 9)>>}
=============================================================================
