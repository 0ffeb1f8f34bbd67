--------------------------- MODULE SDOSessionProofs ---------------------------
(***************************************************************************)
(* SDOSession implements Transfer: what a client is told of its transfers  *)
(* is as if each had been one step, whatever the bus loses, for every      *)
(* dictionary, every set of requests, every size of value, sub-block and   *)
(* window, and any number of losses.                                       *)
(***************************************************************************)
EXTENDS SDOSession, SDODataProofs

-----------------------------------------------------------------------------
(* Sequences of frames whose elements have no common type *)

IsSeq(s) == s \in Seq({s[i] : i \in DOMAIN s})

LEMMA TypedIsSeq ==
    ASSUME NEW S, NEW s \in Seq(S)
    PROVE  IsSeq(s)
<1>1. Len(s) \in Nat /\ DOMAIN s = 1..Len(s) /\ s \in [1..Len(s) -> S]
  BY LenProperties
<1> DEFINE T == {s[i] : i \in DOMAIN s}
<1>2. \A i \in 1..Len(s) : s[i] \in T
  BY <1>1
<1>3. s = [i \in 1..Len(s) |-> s[i]]
  BY <1>1
<1> HIDE DEF T
<1>4. [i \in 1..Len(s) |-> s[i]] \in Seq(T)
  BY <1>1, <1>2, IsASeq
<1> QED
  BY <1>3, <1>4 DEF IsSeq, T

LEMMA ShortIsSeq ==
    /\ IsSeq(<<>>) /\ Len(<<>>) = 0
    /\ \A fr : IsSeq(<<fr>>) /\ Len(<<fr>>) = 1 /\ <<fr>>[1] = fr
             /\ Head(<<fr>>) = fr /\ Tail(<<fr>>) = <<>> /\ <<fr>> # <<>>
             /\ <<>> \o <<fr>> = <<fr>>
<1>1. <<>> \in Seq({}) /\ Len(<<>>) = 0
  BY EmptySeq
<1>2. ASSUME NEW fr
      PROVE  IsSeq(<<fr>>) /\ Len(<<fr>>) = 1 /\ <<fr>>[1] = fr
             /\ Head(<<fr>>) = fr /\ Tail(<<fr>>) = <<>> /\ <<fr>> # <<>>
             /\ <<>> \o <<fr>> = <<fr>>
  <2>1. <<fr>> \in Seq({fr})
    OBVIOUS
  <2>2. <<>> \o <<fr>> = <<fr>>
    BY <2>1, ConcatEmptySeq
  <2>3. IsSeq(<<fr>>)
    BY <2>1, TypedIsSeq
  <2>4. Len(<<fr>>) = 1 /\ <<fr>>[1] = fr /\ Head(<<fr>>) = fr
          /\ <<fr>> # <<>>
    OBVIOUS
  <2>5. Tail(<<fr>>) = <<>>
    OBVIOUS
  <2> QED
    BY <2>2, <2>3, <2>4, <2>5
<1> QED
  BY <1>1, <1>2, TypedIsSeq

LEMMA JoinedSeq ==
    ASSUME NEW s, NEW t, IsSeq(s), IsSeq(t)
    PROVE  /\ IsSeq(s \o t) /\ Len(s \o t) = Len(s) + Len(t)
           /\ Len(s) \in Nat /\ Len(t) \in Nat
           /\ \A i \in 1..Len(s \o t) :
                (s \o t)[i] = IF i <= Len(s) THEN s[i] ELSE t[i - Len(s)]
           /\ <<>> \o t = t /\ s \o <<>> = s
<1> DEFINE S == {s[i] : i \in DOMAIN s}
           T == {t[i] : i \in DOMAIN t}
           U == S \cup T
<1>1. s \in Seq(S) /\ t \in Seq(T)
  BY DEF IsSeq
<1> HIDE DEF S, T
<1>2. s \in Seq(U) /\ t \in Seq(U)
  BY <1>1, SeqMonotonic
<1> HIDE DEF U
<1>3. /\ s \o t \in Seq(U) /\ Len(s \o t) = Len(s) + Len(t)
      /\ \A i \in 1..(Len(s) + Len(t)) :
           (s \o t)[i] = IF i <= Len(s) THEN s[i] ELSE t[i - Len(s)]
  BY <1>2, ConcatProperties
<1>4. Len(s) \in Nat /\ Len(t) \in Nat
  BY <1>2, LenProperties
<1>5. <<>> \o t = t /\ s \o <<>> = s
  BY <1>2, ConcatEmptySeq
<1> QED
  BY <1>3, <1>4, <1>5, TypedIsSeq

LEMMA TailSeq ==
    ASSUME NEW s, IsSeq(s), s # <<>>
    PROVE  /\ IsSeq(Tail(s)) /\ Len(s) \in Nat /\ Len(s) >= 1
           /\ Len(Tail(s)) = Len(s) - 1 /\ Head(s) = s[1]
           /\ \A i \in 1..Len(Tail(s)) : Tail(s)[i] = s[i + 1]
<1> DEFINE S == {s[i] : i \in DOMAIN s}
<1>1. s \in Seq(S)
  BY DEF IsSeq
<1> HIDE DEF S
<1>2. /\ Tail(s) \in Seq(S) /\ Len(Tail(s)) = Len(s) - 1
      /\ \A i \in 1..Len(Tail(s)) : Tail(s)[i] = s[i + 1]
  BY <1>1, HeadTailProperties
<1>3. Len(s) \in Nat /\ Len(s) >= 1
  BY <1>1, EmptySeq
<1>4. IsSeq(Tail(s))
  BY <1>2, TypedIsSeq
<1>5. Head(s) = s[1]
  BY <1>1 DEF Head
<1> QED
  BY <1>2, <1>3, <1>4, <1>5

LEMMA EmptyIffLen ==
    ASSUME NEW s, IsSeq(s)
    PROVE  Len(s) \in Nat /\ (s = <<>> <=> Len(s) = 0)
  BY EmptySeq, LenProperties DEF IsSeq

-----------------------------------------------------------------------------
(* What the promise rests on beside the model *)

(* The application serves no transfer itself: all data live in the         *)
(* dictionary.                                                             *)
NoHandlers == DownloadCallback \subseteq {"none"} /\ UploadCallback \subseteq {"none"}

(* The bytes of s in the segment that begins behind the first k. *)
Chunk(s, k) == SubSeq(s, k + 1, Least(k + SegLen, Len(s)))

(* A segment of a block download that arrives after its transfer was       *)
(* aborted is read as a command.  Its sequence number makes that a         *)
(* download only from 32 on, and then its data have to name an object.     *)
SegmentsNameNothing ==
    \/ MaxSeq < 32
    \/ \A r \in Request : r.op = "download" /\ r.way # "plain" =>
         \A k \in 0..Len(r.data) :
           k % SegLen = 0 => ~Exists(Segment(0, Chunk(r.data, k)).mux)

(* upload_sub_block declares all of a full last segment to be padding, so  *)
(* a value in full segments is one only a checksum saves.                  *)
Uneven(s) == s = <<>> \/ Len(s) % SegLen # 0

ReadInBlocks ==
    {r.mux : r \in {q \in Request : q.op = "upload" /\ q.way = "block"}}

UnevenValues ==
    \A m \in ReadInBlocks :
      /\ Uneven(Default(m))
      /\ \A r \in Request : r.op = "download" /\ r.mux = m => Uneven(r.data)
      /\ \A w \in Written : w[1] = m => Uneven(w[2])

-----------------------------------------------------------------------------
(* The invariant.  First what always holds. *)

FullFrame == {f \in Frame : Len(f.data) = SegLen}

ClientState ==
    [want : Request \cup {Nothing}, phase : Phases, toggle : BOOLEAN,
     left : Seq(Byte), got : Seq(Byte), count : Nat]

ClientInv ==
    /\ cl \in ClientState
    /\ cl.phase # "idle" => cl.want \in Request
    /\ cl.phase \in {"idle", "init"} =>
         ~cl.toggle /\ cl.left = <<>> /\ cl.got = <<>> /\ cl.count = 0
    /\ cl.phase \in {"segment", "subBlock", "end"} => cl.want.op = "download"
    /\ cl.phase \in {"reading", "receiving", "upEnd"} => cl.want.op = "upload"

BusInv ==
    /\ up \in Seq(FullFrame) /\ IsSeq(down)
    /\ effect \in [done : BOOLEAN, data : Seq(Byte)]

ValuesInv == \A m \in ReadInBlocks : Uneven(od[m])

(* Then where the transfer is.  The client waits with one frame under way  *)
(* in either direction, or with several segments of a sub-block.           *)

Sent(f)    == up = <<f>> /\ down = <<>>
Answered(fr) == up = <<>> /\ down = <<fr>>
Data       == cl.want.data
Value      == effect.data
Done(data) == effect = [done |-> TRUE, data |-> data]

(* Frames that never change the dictionary, and segments that are read as  *)
(* commands by a server without a transfer.                                *)
Quiet(f) == f.b0 = AbortCommand \/ Ccs(f) \in {2, 3, 5}
Stray(f) == ~Exists(f.mux) \/ Ccs(f) \in {0, 4}

Idle ==
    /\ cl.phase = "idle" /\ effect = NotYet
    /\ \A i \in 1..Len(up) : Quiet(up[i]) \/ (dl.state = "NONE" /\ Stray(up[i]))

(* The kinds of answer the client may take for its own, or that show that  *)
(* the server has done what it wants.                                      *)
UploadKinds ==
    {"ulInit", "ulBlock", "ulExpedited", "ulSegment", "ulSubBlock", "ulBlockEnd"}

Awaited ==
    IF cl.want.op = "download"
    THEN {"dlInit", "dlBlock", "dlSegment", "dlBlockEnd"}
           \cup (IF cl.phase = "init" THEN {} ELSE {"dlSubBlock"})
    ELSE IF cl.phase = "init" THEN {"ulInit", "ulExpedited", "ulBlock"}
    ELSE UploadKinds

(* A frame was lost or not understood: nothing is under way that the       *)
(* client would take for an answer, and no frame that could bring one.     *)
Stranded ==
    /\ cl.phase # "idle"
    /\ \A i \in 1..Len(down) : down[i].cs \notin Awaited
    /\ \/ up = <<>>
       \/ /\ cl.phase = "subBlock" /\ dl.state = "NONE"
          /\ \A i \in 1..Len(up) : Stray(up[i])

Asked == cl.phase = "init" /\ Sent(InitFrame(cl.want)) /\ effect = NotYet

(* The server has the wanted download open and no handler for it. *)
Open(state) == dl.state = state /\ dl.mux = cl.want.mux /\ ~dl.held

Expedited ==
    /\ Expeditable(cl.want)
    /\ Answered(InitReply(cl.want.mux)) /\ Done(Data)

SegmentedBegun ==
    /\ cl.want.way = "plain" /\ ~Expeditable(cl.want)
    /\ Answered(InitReply(cl.want.mux)) /\ effect = NotYet
    /\ Open("SEGMENT") /\ ~dl.toggle /\ dl.buffer = <<>>

BlockBegun ==
    /\ cl.want.way # "plain"
    /\ Answered(BlockReply(cl.want.mux)) /\ effect = NotYet
    /\ Open("BLOCK") /\ dl.seq = 1 /\ dl.buffer = <<>>

DownloadGranted ==
    /\ cl.phase = "init" /\ cl.want.op = "download"
    /\ Expedited \/ SegmentedBegun \/ BlockBegun

SegmentSent ==
    \E rest \in Seq(Byte) :
      /\ Sent(SegmentFrame(cl.toggle, Take(rest, SegLen), Len(rest) <= SegLen))
      /\ cl.left = Drop(rest, SegLen)
      /\ Open("SEGMENT") /\ dl.toggle = cl.toggle
      /\ dl.buffer \o rest = Data /\ effect = NotYet

SegmentTaken ==
    /\ Answered(SegmentReply(cl.toggle))
    /\ IF cl.left = <<>> THEN Done(Data)
       ELSE /\ Open("SEGMENT") /\ dl.toggle = ~cl.toggle
            /\ dl.buffer \o cl.left = Data /\ effect = NotYet

Segmenting == cl.phase = "segment" /\ (SegmentSent \/ SegmentTaken)

(* cl.left is what the sub-block starts with; j segments of it have left   *)
(* the bus.  As long as none was lost the server counts along.             *)
Offset == Len(Data) - Len(cl.left)

SubBlockSent(j) ==
    /\ down = <<>> /\ dl.state = "BLOCK" /\ Len(up) = cl.count - j
    /\ \A i \in 1..Len(up) : up[i] = SubBlockFrames(cl.left)[j + i]
    /\ \/ /\ Open("BLOCK") /\ dl.seq = j + 1 /\ effect = NotYet
          /\ dl.buffer = Padded(Data, Offset + j * SegLen)
       \/ dl.seq <= j /\ ~dl.held

SubBlockTaken ==
    /\ Answered(SubBlockReply(cl.count)) /\ effect = NotYet
    /\ dl.buffer = Padded(Data, Offset + cl.count * SegLen)
    /\ IF cl.count * SegLen < Len(cl.left) THEN Open("BLOCK") /\ dl.seq = 1
       ELSE Open("BLOCK_END")

SubBlocks ==
    /\ cl.phase = "subBlock" /\ cl.want.way # "plain" /\ cl.left # <<>>
    /\ Offset \in Nat /\ Offset % SegLen = 0 /\ cl.left = Drop(Data, Offset)
    /\ cl.count = SegmentCount(cl.left)
    /\ SubBlockTaken \/ \E j \in 0..(cl.count - 1) : SubBlockSent(j)

EndSent ==
    /\ Sent(EndFrame(cl.want)) /\ Open("BLOCK_END") /\ effect = NotYet
    /\ dl.buffer = Padded(Data, Len(dl.buffer)) /\ Len(dl.buffer) % SegLen = 0
    /\ Len(dl.buffer) \in Len(Data)..(Len(Data) + SegLen - 1)

Ending ==
    /\ cl.phase = "end"
    /\ EndSent \/ (Answered(BlockEndReply) /\ Done(Data))

(* The server serves the wanted upload from a copy of the value. *)
Serving(state) == ul.state = state /\ ul.stream.kind = "fixed" /\ effect.done

ServingSegments(toggle, got) ==
    /\ Serving("SEGMENT") /\ ul.toggle = toggle
    /\ got \o ul.stream.left = Value

(* The bytes the client has acknowledged. *)
Gone == Len(Value) - Len(ul.stream.left)

ServingBlocks ==
    /\ Serving("BLOCK") /\ ul.blk = Window
    /\ Gone \in Nat /\ Gone % SegLen = 0 /\ ul.stream.left = Drop(Value, Gone)
    /\ \/ cl.want.way = "block" /\ Uneven(Value)
       \/ cl.want.way = "checked" /\ ul.check /\ ul.crc = Take(Value, Gone)

UploadGranted ==
    /\ cl.phase = "init" /\ cl.want.op = "upload" /\ effect.done
    /\ \/ /\ Len(Value) \in 1..ExpLen
          /\ Answered(UpExpeditedReply(cl.want.mux, Value))
       \/ /\ ServingSegments(FALSE, <<>>)
          /\ Answered(UpInitReply(cl.want.mux, Len(Value)))
       \/ /\ ServingBlocks /\ Gone = 0
          /\ Answered(UpBlockReply(cl.want.mux, Len(Value)))

Reading ==
    /\ cl.phase = "reading" /\ effect.done
    /\ \/ Sent(ReadFrame(cl.toggle)) /\ ServingSegments(cl.toggle, cl.got)
       \/ \E chunk \in Seq(Byte), last \in BOOLEAN :
            /\ Len(chunk) <= SegLen
            /\ Answered(UpSegmentReply(cl.toggle, last, chunk))
            /\ IF last THEN cl.got \o chunk = Value
               ELSE ServingSegments(~cl.toggle, cl.got \o chunk)

(* j segments of the sub-block have left the bus, cl.count of them arrived *)
(* in order.                                                               *)
SubBlockUnderWay(j) ==
    LET frames == SubBlock(ul.stream.left, Window)
    IN  /\ up = <<>> /\ j < Len(frames) /\ Len(down) = Len(frames) - j
        /\ \A i \in 1..Len(down) : down[i] = frames[j + i]
        /\ cl.count <= j /\ (ul.stream.left = <<>> => Value = <<>>)
        /\ cl.got = Padded(Value, Gone + cl.count * SegLen)

(* n segments of the sub-block are acknowledged. *)
AckSent(n) ==
    /\ Sent(AckFrame(n)) /\ cl.count = 0
    /\ cl.got = Padded(Value, Gone + n * SegLen)

Receiving ==
    /\ cl.phase = "receiving" /\ ServingBlocks
    /\ \/ Sent(StartFrame) /\ cl.count = 0 /\ cl.got = <<>> /\ Gone = 0
       \/ \E n \in Nat : AckSent(n) /\ n * SegLen < Len(ul.stream.left)
       \/ \E j \in Nat : SubBlockUnderWay(j)

(* The acknowledged segments are all there were; an empty value comes in   *)
(* one empty segment.                                                      *)
LastAckSent(n) ==
    /\ ServingBlocks /\ AckSent(n) /\ Len(ul.stream.left) <= n * SegLen
    /\ n * SegLen < Len(ul.stream.left) + SegLen \/ (Value = <<>> /\ n = 1)

UpEnding ==
    /\ cl.phase = "upEnd" /\ effect.done
    /\ \/ \E n \in Nat : LastAckSent(n)
       \/ \E size, crc :
            /\ Answered(UpBlockEndReply(size, crc))
            /\ \/ DropLast(cl.got, SegLen - (size % SegLen)) = Value
               \/ cl.want.way = "checked" /\ crc = Value

Course ==
    \/ Idle \/ Stranded \/ Asked
    \/ DownloadGranted \/ Segmenting \/ SubBlocks \/ Ending
    \/ UploadGranted \/ Reading \/ Receiving \/ UpEnding

SessionInv == Inv /\ ClientInv /\ BusInv /\ ValuesInv /\ Course
-----------------------------------------------------------------------------
(* Slices and padding, byte by byte *)

LEMMA PaddedBytes ==
    ASSUME NEW s \in Seq(Byte), NEW n \in Nat
    PROVE  /\ Padded(s, n) \in Seq(Byte) /\ Len(Padded(s, n)) = n
           /\ \A i \in 1..n :
                Padded(s, n)[i] = IF i <= Len(s) THEN s[i] ELSE Pad
<1>1. Len(s) \in Nat
  BY LenProperties
<1>2. \A i \in 1..n : (IF i <= Len(s) THEN s[i] ELSE Pad) \in Byte
  BY <1>1, ByteAssumption, ElementOfSeq
<1>3. Padded(s, n) \in Seq(Byte)
  BY <1>2, IsASeq DEF Padded
<1> QED
  BY <1>3 DEF Padded

LEMMA ChunkBytes ==
    ASSUME NEW s \in Seq(Byte), NEW k \in 0..Len(s)
    PROVE  /\ Chunk(s, k) \in Seq(Byte)
           /\ Len(Chunk(s, k)) = Least(SegLen, Len(s) - k)
           /\ \A i \in 1..Len(Chunk(s, k)) : Chunk(s, k)[i] = s[k + i]
<1> DEFINE m == k + 1
           e == Least(k + SegLen, Len(s))
<1>1. /\ Len(s) \in Nat /\ m \in Int /\ e \in Int /\ m >= 1 /\ e <= Len(s)
      /\ e - m + 1 = Least(SegLen, Len(s) - k)
  BY LenProperties DEF Least, SegLen
<1>2. \A i \in m..e : s[i] \in Byte
  BY <1>1, ElementOfSeq
<1>3. m + 0 = k + 1 /\ Chunk(s, k) = SubSeq(s, m, e)
  BY <1>1 DEF Chunk
<1> HIDE DEF m, e
<1>4. /\ SubSeq(s, m, e) \in Seq(Byte)
      /\ Len(SubSeq(s, m, e)) = IF m <= e THEN e - m + 1 ELSE 0
      /\ \A i \in 1..(e - m + 1) : SubSeq(s, m, e)[i] = s[m + i - 1]
  BY <1>1, <1>2, SubSeqProperties
<1>5. e - m + 1 >= 0
  BY <1>1, LenProperties DEF Least, SegLen
<1> QED
  BY <1>1, <1>3, <1>4, <1>5

(* A value in whole segments grows by the next segment of it. *)
LEMMA PaddedGrows ==
    ASSUME NEW s \in Seq(Byte), NEW k \in 0..Len(s)
    PROVE  Padded(s, k) \o Padded(Chunk(s, k), SegLen) = Padded(s, k + SegLen)
<1> DEFINE a == Padded(s, k)
           c == Chunk(s, k)
           b == Padded(c, SegLen)
           r == Padded(s, k + SegLen)
<1>0. Len(s) \in Nat /\ k \in Nat /\ k <= Len(s) /\ SegLen = 7
  BY LenProperties DEF SegLen
<1>1. a \in Seq(Byte) /\ Len(a) = k /\ \A i \in 1..k : a[i] = s[i]
  BY <1>0, PaddedBytes
<1>2. /\ c \in Seq(Byte) /\ Len(c) = Least(SegLen, Len(s) - k)
      /\ \A i \in 1..Len(c) : c[i] = s[k + i]
  BY ChunkBytes
<1> HIDE DEF c
<1>3. /\ b \in Seq(Byte) /\ Len(b) = SegLen
      /\ \A i \in 1..SegLen : b[i] = IF i <= Len(c) THEN c[i] ELSE Pad
  BY <1>2, PaddedBytes DEF SegLen
<1>4. /\ r \in Seq(Byte) /\ Len(r) = k + SegLen
      /\ \A i \in 1..(k + SegLen) : r[i] = IF i <= Len(s) THEN s[i] ELSE Pad
  <2>1. k + SegLen \in Nat
    BY <1>0
  <2> QED
    BY <2>1, PaddedBytes
<1> HIDE DEF a, b, r
<1>5. /\ a \o b \in Seq(Byte) /\ Len(a \o b) = k + SegLen
      /\ \A i \in 1..(k + SegLen) :
           (a \o b)[i] = IF i <= k THEN a[i] ELSE b[i - k]
  BY ZenonT(30), <1>1, <1>3, ConcatProperties
<1>6. ASSUME NEW i \in 1..(k + SegLen)
      PROVE  (a \o b)[i] = r[i]
  <2>1. CASE i <= k
    BY SMTT(30), <1>0, <1>1, <1>4, <1>5, <2>1
  <2>2. CASE i > k
    <3>1. i - k \in 1..SegLen /\ k + (i - k) = i
      BY <1>0, <2>2
    <3>2. i - k <= Len(c) <=> i <= Len(s)
      BY <1>0, <1>2, <3>1 DEF Least
    <3>3. i - k <= Len(c) => c[i - k] = s[i]
      BY <1>0, <1>2, <3>1 DEF Least
    <3>4. (a \o b)[i] = b[i - k] /\ r[i] = IF i <= Len(s) THEN s[i] ELSE Pad
      BY <1>0, <1>4, <1>5, <2>2
    <3>5. b[i - k] = IF i - k <= Len(c) THEN c[i - k] ELSE Pad
      BY <1>3, <3>1
    <3> QED
      BY <3>2, <3>3, <3>4, <3>5
  <2>3. i <= k \/ i > k
    BY <1>0
  <2> QED
    BY <2>1, <2>2, <2>3
<1>7. a \o b = r
  BY <1>0, <1>4, <1>5, <1>6, SeqEqual
<1> QED
  BY <1>7 DEF a, b, c, r

(* Cutting the padding off again. *)
LEMMA PaddingCutOff ==
    ASSUME NEW s \in Seq(Byte), NEW n \in Nat, Len(s) <= n
    PROVE  /\ DropLast(Padded(s, n), n - Len(s)) = s
           /\ Take(Padded(s, n), Len(s)) = s
<1> DEFINE p == Padded(s, n)
           k == n - Len(s)
<1>1. Len(s) \in Nat /\ k \in 0..n
  BY LenProperties
<1>2. /\ p \in Seq(Byte) /\ Len(p) = n
      /\ \A i \in 1..n : p[i] = IF i <= Len(s) THEN s[i] ELSE Pad
  BY PaddedBytes
<1> HIDE DEF p
<1>3. /\ DropLast(p, k) \in Seq(Byte) /\ Len(DropLast(p, k)) = Len(s)
      /\ \A i \in 1..Len(s) : DropLast(p, k)[i] = p[i]
  <2>1. n - k = Len(s)
    BY <1>1
  <2> HIDE DEF k
  <2> QED
    BY <1>1, <1>2, <2>1, DropLastBytes
<1>4. DropLast(p, k) = s
  BY <1>1, <1>2, <1>3, SeqEqual
<1>5. /\ Take(p, Len(s)) \in Seq(Byte) /\ Len(Take(p, Len(s))) = Len(s)
      /\ \A i \in 1..Len(s) : Take(p, Len(s))[i] = p[i]
  BY <1>1, <1>2, TakeBytes DEF Least
<1>6. Take(p, Len(s)) = s
  BY <1>1, <1>2, <1>5, SeqEqual
<1> QED
  BY <1>4, <1>6 DEF p

LEMMA PaddedShort ==
    ASSUME NEW s \in Seq(Byte)
    PROVE  /\ Padded(s, 0) = <<>>
           /\ Padded(s, Len(s)) = s
           /\ \A n \in 0..Len(s) : Padded(s, n) = Take(s, n)
<1>0. Len(s) \in Nat /\ <<>> \in Seq(Byte) /\ Len(<<>>) = 0
  BY LenProperties, EmptySeq
<1>1. ASSUME NEW n \in 0..Len(s)
      PROVE  Padded(s, n) = Take(s, n)
  <2>1. /\ Padded(s, n) \in Seq(Byte) /\ Len(Padded(s, n)) = n
        /\ \A i \in 1..n : Padded(s, n)[i] = s[i]
    BY <1>0, PaddedBytes
  <2>2. /\ Take(s, n) \in Seq(Byte) /\ Len(Take(s, n)) = n
        /\ \A i \in 1..n : Take(s, n)[i] = s[i]
    BY <1>0, TakeBytes DEF Least
  <2> QED
    BY <2>1, <2>2, SeqEqual
<1>2. Padded(s, 0) = <<>>
  BY PaddedBytes, EmptySeq
<1>3. /\ Padded(s, Len(s)) \in Seq(Byte) /\ Len(Padded(s, Len(s))) = Len(s)
      /\ \A i \in 1..Len(s) : Padded(s, Len(s))[i] = s[i]
  BY <1>0, PaddedBytes
<1> QED
  BY <1>1, <1>2, <1>3, SeqEqual

LEMMA DropsBytes ==
    ASSUME NEW s \in Seq(Byte), NEW n \in Nat
    PROVE  /\ Drop(s, n) \in Seq(Byte)
           /\ Len(Drop(s, n)) = IF n <= Len(s) THEN Len(s) - n ELSE 0
           /\ \A i \in 1..Len(Drop(s, n)) : Drop(s, n)[i] = s[n + i]
<1>1. Len(s) \in Nat
  BY LenProperties
<1>2. CASE n <= Len(s)
  BY <1>1, <1>2, DropBytes
<1>3. CASE n > Len(s)
  <2>1. Len(s) < n + 1 /\ n + 1 \in Int /\ Len(s) \in Int
    BY <1>1, <1>3
  <2>2. Drop(s, n) = <<>>
    BY <2>1, SubSeqEmpty DEF Drop
  <2> QED
    BY <1>1, <1>3, <2>2, EmptySeq
<1> QED
  BY <1>1, <1>2, <1>3

LEMMA TakeAndDrop ==
    ASSUME NEW s \in Seq(Byte), NEW n \in Nat
    PROVE  Take(s, n) \o Drop(s, n) = s
<1> DEFINE t == Take(s, n)
           d == Drop(s, n)
<1>1. Len(s) \in Nat
  BY LenProperties
<1>2. /\ t \in Seq(Byte) /\ Len(t) = Least(n, Len(s))
      /\ \A i \in 1..Len(t) : t[i] = s[i]
  BY TakeBytes
<1>3. /\ d \in Seq(Byte) /\ Len(d) = IF n <= Len(s) THEN Len(s) - n ELSE 0
      /\ \A i \in 1..Len(d) : d[i] = s[n + i]
  BY DropsBytes
<1> HIDE DEF t, d
<1>4. /\ t \o d \in Seq(Byte) /\ Len(t \o d) = Len(t) + Len(d)
      /\ \A i \in 1..(Len(t) + Len(d)) :
           (t \o d)[i] = IF i <= Len(t) THEN t[i] ELSE d[i - Len(t)]
  BY <1>2, <1>3, ConcatProperties
<1>5. Len(t) + Len(d) = Len(s)
  BY <1>1, <1>2, <1>3 DEF Least
<1>6. ASSUME NEW i \in 1..Len(s)
      PROVE  (t \o d)[i] = s[i]
  <2>1. CASE i <= Len(t)
    BY <1>1, <1>2, <1>4, <1>5, <2>1
  <2>2. CASE i > Len(t)
    <3>1. Len(t) = n /\ i - n \in 1..Len(d) /\ n + (i - n) = i
      BY <1>1, <1>2, <1>5, <2>2 DEF Least
    <3> QED
      BY <1>3, <1>4, <1>5, <2>2, <3>1
  <2>3. i <= Len(t) \/ i > Len(t)
    BY <1>1, <1>2 DEF Least
  <2> QED
    BY <2>1, <2>2, <2>3
<1>7. t \o d = s
  BY <1>4, <1>5, <1>6, SeqEqual
<1> QED
  BY <1>7 DEF t, d

LEMMA DropTwice ==
    ASSUME NEW s \in Seq(Byte), NEW a \in Nat, NEW b \in Nat
    PROVE  Drop(Drop(s, a), b) = Drop(s, a + b)
<1> DEFINE d == Drop(s, a)
           e == Drop(d, b)
           r == Drop(s, a + b)
<1>1. Len(s) \in Nat /\ a + b \in Nat
  BY LenProperties
<1>2. /\ d \in Seq(Byte) /\ Len(d) = IF a <= Len(s) THEN Len(s) - a ELSE 0
      /\ \A i \in 1..Len(d) : d[i] = s[a + i]
  BY DropsBytes
<1>3. /\ r \in Seq(Byte)
      /\ Len(r) = IF a + b <= Len(s) THEN Len(s) - (a + b) ELSE 0
      /\ \A i \in 1..Len(r) : r[i] = s[a + b + i]
  BY <1>1, DropsBytes
<1> HIDE DEF d, r
<1>4. /\ e \in Seq(Byte) /\ Len(e) = IF b <= Len(d) THEN Len(d) - b ELSE 0
      /\ \A i \in 1..Len(e) : e[i] = d[b + i]
  BY <1>2, DropsBytes
<1> HIDE DEF e
<1>5. Len(e) = Len(r)
  BY <1>1, <1>2, <1>3, <1>4
<1>6. ASSUME NEW i \in 1..Len(e)
      PROVE  e[i] = r[i]
  <2>1. b + i \in 1..Len(d) /\ a + (b + i) = a + b + i
    BY <1>1, <1>2, <1>4
  <2> QED
    BY <1>2, <1>3, <1>4, <1>5, <2>1
<1>7. e = r
  BY <1>3, <1>4, <1>5, <1>6, SeqEqual
<1> QED
  BY <1>7 DEF d, e, r

(* The i-th segment of what is left of s. *)
LEMMA ChunkOfRest ==
    ASSUME NEW s \in Seq(Byte), NEW o \in 0..Len(s), NEW i \in Nat, i >= 1,
           (i - 1) * SegLen <= Len(s) - o
    PROVE  LET left == Drop(s, o)
           IN  SubSeq(left, SegLen * (i - 1) + 1, Least(SegLen * i, Len(left)))
                 = Chunk(s, o + (i - 1) * SegLen)
<1> DEFINE left == Drop(s, o)
           k == (i - 1) * SegLen
           c == Chunk(left, k)
           r == Chunk(s, o + k)
<1>1. /\ Len(s) \in Nat /\ k \in Nat /\ o \in Nat
      /\ SegLen * (i - 1) = k /\ SegLen * i = k + SegLen
  BY LenProperties DEF SegLen
<1>2. /\ left \in Seq(Byte) /\ Len(left) = Len(s) - o
      /\ \A j \in 1..Len(left) : left[j] = s[o + j]
  BY <1>1, DropsBytes
<1>3. SubSeq(left, SegLen * (i - 1) + 1, Least(SegLen * i, Len(left))) = c
  BY <1>1 DEF Chunk
<1>4. k <= Len(s) - o
  OBVIOUS
<1> HIDE DEF left, k
<1>5. k \in 0..Len(left) /\ o + k \in 0..Len(s)
  BY <1>1, <1>2, <1>4
<1>6. /\ c \in Seq(Byte) /\ Len(c) = Least(SegLen, Len(left) - k)
      /\ \A j \in 1..Len(c) : c[j] = left[k + j]
  BY <1>2, <1>5, ChunkBytes
<1>7. /\ r \in Seq(Byte) /\ Len(r) = Least(SegLen, Len(s) - (o + k))
      /\ \A j \in 1..Len(r) : r[j] = s[o + k + j]
  BY <1>5, ChunkBytes
<1> HIDE DEF c, r
<1>8. Len(c) = Len(r) /\ Len(c) <= Len(left) - k
  BY <1>1, <1>2, <1>5, <1>6, <1>7 DEF Least, SegLen
<1>9. ASSUME NEW j \in 1..Len(c)
      PROVE  c[j] = r[j]
  <2>1. Len(c) \in Nat
    BY <1>6, LenProperties
  <2>2. k + j \in 1..Len(left) /\ o + (k + j) = o + k + j
    BY <1>1, <1>2, <1>8, <2>1
  <2> QED
    BY <1>2, <1>6, <1>7, <1>8, <2>2
<1>10. c = r
  BY <1>6, <1>7, <1>8, <1>9, SeqEqual
<1> QED
  BY <1>3, <1>10 DEF left, k, r

LEMMA TakeGrows ==
    ASSUME NEW s \in Seq(Byte), NEW o \in 0..Len(s), NEW n \in Nat
    PROVE  Take(s, o) \o Take(Drop(s, o), n) = Take(s, o + n)
<1> DEFINE a == Take(s, o)
           d == Drop(s, o)
           b == Take(d, n)
           r == Take(s, o + n)
<1>1. Len(s) \in Nat /\ o \in Nat /\ o + n \in Nat
  BY LenProperties
<1>2. a \in Seq(Byte) /\ Len(a) = o /\ \A i \in 1..o : a[i] = s[i]
  BY <1>1, TakeBytes DEF Least
<1>3. /\ d \in Seq(Byte) /\ Len(d) = Len(s) - o
      /\ \A i \in 1..Len(d) : d[i] = s[o + i]
  BY <1>1, DropsBytes
<1>4. /\ r \in Seq(Byte) /\ Len(r) = Least(o + n, Len(s))
      /\ \A i \in 1..Len(r) : r[i] = s[i]
  BY <1>1, TakeBytes
<1> HIDE DEF a, d, r
<1>5. /\ b \in Seq(Byte) /\ Len(b) = Least(n, Len(d))
      /\ \A i \in 1..Len(b) : b[i] = d[i]
  BY <1>3, TakeBytes
<1> HIDE DEF b
<1>6. /\ a \o b \in Seq(Byte) /\ Len(a \o b) = Len(a) + Len(b)
      /\ \A i \in 1..(Len(a) + Len(b)) :
           (a \o b)[i] = IF i <= Len(a) THEN a[i] ELSE b[i - Len(a)]
  BY <1>2, <1>5, ConcatProperties
<1>7. Len(a) + Len(b) = Len(r) /\ Len(b) \in Nat /\ Len(b) <= Len(d)
  BY <1>1, <1>2, <1>3, <1>4, <1>5 DEF Least
<1>8. ASSUME NEW i \in 1..Len(r)
      PROVE  (a \o b)[i] = r[i]
  <2>0. i \in Int /\ i \in 1..(Len(a) + Len(b)) /\ Len(r) \in Nat
    BY <1>4, <1>7, LenProperties
  <2>1. CASE i <= o
    <3>1. i \in 1..o /\ i <= Len(a)
      BY <1>1, <1>2, <2>0, <2>1
    <3>2. (a \o b)[i] = a[i]
      BY <1>6, <2>0, <3>1
    <3> QED
      BY <1>2, <1>4, <3>1, <3>2
  <2>2. CASE i > o
    <3>1. i - o \in 1..Len(b) /\ i - o \in 1..Len(d) /\ o + (i - o) = i
      BY <1>1, <1>2, <1>7, <2>2
    <3>2. (a \o b)[i] = b[i - o] /\ r[i] = s[i]
      BY <1>1, <1>2, <1>4, <1>6, <2>0, <2>2
    <3>3. b[i - o] = d[i - o] /\ d[i - o] = s[o + (i - o)]
      BY <1>3, <1>5, <3>1
    <3> QED
      BY <3>1, <3>2, <3>3
  <2>3. i <= o \/ i > o
    BY <1>1, <2>0
  <2> QED
    BY <2>1, <2>2, <2>3
<1>9. a \o b = r
  BY <1>4, <1>6, <1>7, <1>8, SeqEqual
<1> QED
  BY <1>9 DEF a, b, d, r

LEMMA JoinedThrice ==
    ASSUME NEW a \in Seq(Byte), NEW b \in Seq(Byte), NEW c \in Seq(Byte)
    PROVE  (a \o b) \o c = a \o (b \o c)
  BY ConcatAssociative

-----------------------------------------------------------------------------
(* The client's frames, as the server reads them *)

LEMMA RequestType ==
    ASSUME NEW r \in Request
    PROVE  /\ r.op \in {"download", "upload"} /\ r.way \in Ways /\ r.mux \in Mux
           /\ r.data \in Seq(Byte) /\ r.pst \in Nat /\ Len(r.data) \in Nat
  BY RequestAssumption, LenProperties DEF Requests

CommandByte == 0..255

LEMMA CommandFrame ==
    ASSUME NEW b0 \in CommandByte, NEW m \in Mux, NEW data \in Seq(Byte)
    PROVE  /\ Command(b0, m, data) \in FullFrame
           /\ Command(b0, m, data).b0 = b0 /\ Command(b0, m, data).mux = m
           /\ Command(b0, m, data).data = Padded(data, SegLen)
<1>1. Padded(data, SegLen) \in Seq(Byte) /\ Len(Padded(data, SegLen)) = SegLen
  BY PaddedBytes DEF SegLen
<1>2. <<>> \in Seq(Byte)
  BY EmptySeq
<1>3. Command(b0, m, data) \in Frame
  BY <1>1, <1>2 DEF Command, Frame, CommandByte
<1>4. /\ Command(b0, m, data).b0 = b0 /\ Command(b0, m, data).mux = m
      /\ Command(b0, m, data).data = Padded(data, SegLen)
  BY DEF Command
<1> QED
  BY <1>1, <1>3, <1>4 DEF FullFrame

LEMMA PlainFrame ==
    ASSUME NEW b0, b0 \in CommandByte, NEW m, m \in Mux
    PROVE  /\ Command(b0, m, <<>>) \in FullFrame
           /\ Command(b0, m, <<>>).b0 = b0 /\ Command(b0, m, <<>>).mux = m
<1> DEFINE none == <<>>
<1>1. none \in Seq(Byte)
  BY EmptySeq
<1> HIDE DEF none
<1>2. /\ Command(b0, m, none) \in FullFrame
      /\ Command(b0, m, none).b0 = b0 /\ Command(b0, m, none).mux = m
  BY <1>1, CommandFrame
<1> QED
  BY <1>2 DEF none

LEMMA SegmentIsFrame ==
    ASSUME NEW b0 \in CommandByte, NEW data \in Seq(Byte)
    PROVE  /\ Segment(b0, data) \in FullFrame /\ Segment(b0, data).b0 = b0
           /\ Segment(b0, data).data = Padded(data, SegLen)
           /\ Segment(b0, data).mux = Segment(0, data).mux
<1> DEFINE bytes == Padded(data, SegLen)
           m == Named[<<bytes[1], bytes[2], bytes[3]>>]
<1>1. bytes \in Seq(Byte) /\ Len(bytes) = 7
  BY PaddedBytes DEF SegLen
<1> HIDE DEF bytes
<1>2. bytes[1] \in Byte /\ bytes[2] \in Byte /\ bytes[3] \in Byte
  <2>1. 1 \in 1..Len(bytes) /\ 2 \in 1..Len(bytes) /\ 3 \in 1..Len(bytes)
    BY <1>1
  <2> QED
    BY <1>1, <2>1, ElementOfSeq
<1>3. m \in Mux
  BY <1>2, NamedAssumption
<1>4. Segment(b0, data) = Command(b0, m, data)
      /\ Segment(0, data) = Command(0, m, data)
  BY DEF Segment, bytes
<1> HIDE DEF m
<1>5. 0 \in CommandByte
  BY DEF CommandByte
<1> QED
  BY <1>3, <1>4, <1>5, CommandFrame

(* The data of an expedited download lie behind the multiplexor. *)
LEMMA ExpeditedBytes ==
    ASSUME NEW data \in Seq(Byte), Len(data) \in 1..ExpLen
    PROVE  /\ Padded(<<>>, HeadLen) \o data \in Seq(Byte)
           /\ Take(Drop(Padded(Padded(<<>>, HeadLen) \o data, SegLen), HeadLen),
                   Len(data)) = data
<1> DEFINE h == Padded(<<>>, HeadLen)
           w == h \o data
           p == Padded(w, SegLen)
           x == Drop(p, HeadLen)
           t == Take(x, Len(data))
<1>0. HeadLen = 3 /\ SegLen = 7 /\ Len(data) \in 1..4
  BY DEF HeadLen, SegLen, ExpLen
<1>1. h \in Seq(Byte) /\ Len(h) = 3
  <2>1. HeadLen \in Nat
    BY DEF HeadLen
  <2> QED
    BY <1>0, <2>1, EmptySeq, PaddedBytes
<1> HIDE DEF h
<1>2. /\ w \in Seq(Byte) /\ Len(w) = 3 + Len(data)
      /\ \A i \in 1..(3 + Len(data)) : w[i] = IF i <= 3 THEN h[i] ELSE data[i - 3]
  <2>1. /\ w \in Seq(Byte) /\ Len(w) = Len(h) + Len(data)
        /\ \A i \in 1..(Len(h) + Len(data)) :
             w[i] = IF i <= Len(h) THEN h[i] ELSE data[i - Len(h)]
    BY <1>1, ConcatProperties
  <2> HIDE DEF w
  <2> QED
    BY <1>1, <2>1
<1> HIDE DEF w
<1>3. /\ p \in Seq(Byte) /\ Len(p) = 7
      /\ \A i \in 1..7 : p[i] = IF i <= Len(w) THEN w[i] ELSE Pad
  BY <1>0, <1>2, PaddedBytes
<1> HIDE DEF p
<1>4. x \in Seq(Byte) /\ Len(x) = 4 /\ \A i \in 1..4 : x[i] = p[3 + i]
  <2>1. HeadLen \in Nat
    BY DEF HeadLen
  <2>2. /\ x \in Seq(Byte)
        /\ Len(x) = IF HeadLen <= Len(p) THEN Len(p) - HeadLen ELSE 0
        /\ \A i \in 1..Len(x) : x[i] = p[HeadLen + i]
    BY <1>3, <2>1, DropsBytes
  <2> HIDE DEF x
  <2> QED
    BY <1>0, <1>3, <2>2
<1> HIDE DEF x
<1>5. t \in Seq(Byte) /\ Len(t) = Len(data) /\ \A i \in 1..Len(data) : t[i] = x[i]
  BY <1>0, <1>4, TakeBytes DEF Least
<1>6. ASSUME NEW i \in 1..Len(data)
      PROVE  t[i] = data[i]
  <2>1. i \in 1..4 /\ 3 + i \in 1..7 /\ 3 + i \in 1..(3 + Len(data))
        /\ ~(3 + i <= 3) /\ (3 + i) - 3 = i
    <3>1. PICK n \in 1..4 : Len(data) = n
      BY <1>0
    <3>2. i \in 1..n
      BY <3>1
    <3>3. i \in 1..4 /\ 3 + i \in 1..7 /\ 3 + i \in 1..(3 + n)
          /\ ~(3 + i <= 3) /\ (3 + i) - 3 = i
      BY <3>2
    <3> QED
      BY <3>1, <3>3
  <2>2. t[i] = x[i] /\ x[i] = p[3 + i]
    BY <1>4, <1>5, <2>1
  <2>3. p[3 + i] = w[3 + i]
    BY <1>2, <1>3, <2>1
  <2>4. w[3 + i] = data[i]
    BY <1>2, <2>1
  <2> QED
    BY <2>2, <2>3, <2>4
<1>7. t = data
  BY <1>5, <1>6, SeqEqual
<1> QED
  BY <1>2, <1>7 DEF t, x, p, w, h

LEMMA InitDownloadFrame ==
    ASSUME NEW r \in Request, r.op = "download"
    PROVE  /\ InitFrame(r) \in FullFrame /\ InitFrame(r).mux = r.mux
           /\ InitFrame(r).b0 # AbortCommand
           /\ Expeditable(r) =>
                /\ Ccs(InitFrame(r)) = 1 /\ Bit(InitFrame(r), 1)
                /\ Bit(InitFrame(r), 2) /\ ExpSize(InitFrame(r)) = Len(r.data)
                /\ Take(ExpData(InitFrame(r)), Len(r.data)) = r.data
           /\ r.way = "plain" /\ ~Expeditable(r) =>
                Ccs(InitFrame(r)) = 1 /\ ~Bit(InitFrame(r), 2)
           /\ r.way # "plain" =>
                /\ Ccs(InitFrame(r)) = 6 /\ ~Bit(InitFrame(r), 1)
                /\ ~Bit(InitFrame(r), 2)
<1> DEFINE b == 35 + 4 * (ExpLen - Len(r.data))
           w == Padded(<<>>, HeadLen) \o r.data
<1>0. r.mux \in Mux /\ r.data \in Seq(Byte) /\ <<>> \in Seq(Byte)
  BY RequestType, EmptySeq
<1>1. CASE Expeditable(r)
  <2>1. Len(r.data) \in 1..4 /\ r.way = "plain" /\ Len(r.data) \in 1..ExpLen
    BY <1>1 DEF Expeditable, ExpLen
  <2>2. /\ b \in CommandByte /\ b # AbortCommand
        /\ b \div 32 = 1 /\ (b \div 1) % 2 = 1 /\ (b \div 2) % 2 = 1
        /\ ExpLen - ((b \div 4) % 4) = Len(r.data)
    <3>1. \A n \in {1, 2, 3, 4} :
            /\ 35 + 4 * (4 - n) \in 0..255 /\ 35 + 4 * (4 - n) # 128
            /\ (35 + 4 * (4 - n)) \div 32 = 1
            /\ ((35 + 4 * (4 - n)) \div 1) % 2 = 1
            /\ ((35 + 4 * (4 - n)) \div 2) % 2 = 1
            /\ 4 - (((35 + 4 * (4 - n)) \div 4) % 4) = n
      OBVIOUS
    <3>2. PICK n \in {1, 2, 3, 4} : Len(r.data) = n
      BY <2>1
    <3>3. b = 35 + 4 * (4 - n)
      BY <3>2 DEF ExpLen
    <3> HIDE DEF b
    <3> QED
      BY <3>1, <3>2, <3>3 DEF ExpLen, CommandByte, AbortCommand
  <2>21. b \in CommandByte
    BY <2>2
  <2>3. InitFrame(r) = Command(b, r.mux, w)
    BY <1>1, <2>1 DEF InitFrame
  <2> HIDE DEF b
  <2>4. /\ w \in Seq(Byte)
        /\ Take(Drop(Padded(w, SegLen), HeadLen), Len(r.data)) = r.data
    BY <1>0, <2>1, ExpeditedBytes
  <2> HIDE DEF w
  <2>5. /\ InitFrame(r) \in FullFrame
        /\ InitFrame(r).b0 = b /\ InitFrame(r).mux = r.mux
        /\ InitFrame(r).data = Padded(w, SegLen)
    BY <1>0, <2>21, <2>3, <2>4, CommandFrame
  <2> QED
    BY <1>1, <2>1, <2>2, <2>4, <2>5
       DEF Ccs, Bit, ExpSize, ExpData
<1>2. CASE r.way = "plain" /\ ~Expeditable(r)
  <2>1. InitFrame(r) = Command(33, r.mux, <<>>)
    BY <1>2 DEF InitFrame
  <2>2. 33 \in CommandByte
    BY DEF CommandByte
  <2>3. InitFrame(r) \in FullFrame /\ InitFrame(r).b0 = 33
        /\ InitFrame(r).mux = r.mux
    BY <1>0, <2>1, <2>2, PlainFrame
  <2> QED
    BY <1>2, <2>3 DEF Ccs, Bit, AbortCommand
<1>3. CASE r.way # "plain"
  <2>1. PICK c \in {192, 196} : InitFrame(r) = Command(c, r.mux, <<>>)
    BY <1>3 DEF InitFrame
  <2>2. c \in CommandByte
    BY DEF CommandByte
  <2>3. InitFrame(r) \in FullFrame /\ InitFrame(r).b0 = c
        /\ InitFrame(r).mux = r.mux
    BY <1>0, <2>1, <2>2, PlainFrame
  <2> QED
    BY <1>3, <2>3 DEF Ccs, Bit, Expeditable, AbortCommand
<1> QED
  BY <1>1, <1>2, <1>3

LEMMA InitUploadFrame ==
    ASSUME NEW r \in Request, r.op = "upload"
    PROVE  /\ InitFrame(r) \in FullFrame /\ InitFrame(r).mux = r.mux
           /\ InitFrame(r).b0 # AbortCommand /\ SubCmd(InitFrame(r)) = 0
           /\ r.way = "plain" => Ccs(InitFrame(r)) = 2
           /\ r.way # "plain" =>
                /\ Ccs(InitFrame(r)) = 5 /\ InitFrame(r).blk = Window
                /\ Bit(InitFrame(r), 4) <=> r.way = "checked"
<1>0. r.mux \in Mux /\ r.pst \in Nat /\ <<>> \in Seq(Byte) /\ Window \in Nat
  BY RequestType, EmptySeq, WindowAssumption, MaxSeqAssumption
<1>1. CASE r.way = "plain"
  <2>1. InitFrame(r) = Command(64, r.mux, <<>>)
    BY <1>1 DEF InitFrame
  <2>2. 64 \in CommandByte
    BY DEF CommandByte
  <2>3. InitFrame(r) \in FullFrame /\ InitFrame(r).b0 = 64
        /\ InitFrame(r).mux = r.mux
    BY <1>0, <2>1, <2>2, PlainFrame
  <2> QED
    BY <1>1, <2>3 DEF Ccs, SubCmd, AbortCommand
<1>2. CASE r.way # "plain"
  <2> DEFINE c == 160 + (IF r.way = "checked" THEN 4 ELSE 0)
             f == Command(c, r.mux, <<>>)
  <2>1. InitFrame(r) = [f EXCEPT !.blk = Window, !.pst = r.pst]
    BY <1>2 DEF InitFrame
  <2>21. c \in CommandByte
    BY DEF CommandByte
  <2>2. c \div 32 = 5 /\ c % 4 = 0 /\ c # AbortCommand
        /\ ((c \div 4) % 2 = 1 <=> r.way = "checked")
    BY DEF AbortCommand
  <2> HIDE DEF c
  <2>3. f \in FullFrame /\ f.b0 = c /\ f.mux = r.mux
    BY <1>0, <2>21, PlainFrame
  <2>4. InitFrame(r) \in FullFrame /\ InitFrame(r).b0 = c
        /\ InitFrame(r).mux = r.mux /\ InitFrame(r).blk = Window
    BY <1>0, <2>1, <2>3 DEF FullFrame, Frame
  <2> QED
    BY <1>2, <2>2, <2>4 DEF Ccs, SubCmd, Bit
<1> QED
  BY <1>1, <1>2

LEMMA SegmentFrameRead ==
    ASSUME NEW toggle \in BOOLEAN, NEW last \in BOOLEAN,
           NEW c \in Seq(Byte), Len(c) <= SegLen
    PROVE  LET f == SegmentFrame(toggle, c, last)
           IN  /\ f \in FullFrame /\ f.b0 # AbortCommand /\ Ccs(f) = 0
               /\ Toggle(f) = toggle /\ (Bit(f, 1) <=> last)
               /\ SegSize(f) = Len(c) /\ Take(f.data, SegSize(f)) = c
<1> DEFINE b == (IF toggle THEN 16 ELSE 0) + 2 * (SegLen - Len(c))
                  + (IF last THEN 1 ELSE 0)
           f == SegmentFrame(toggle, c, last)
<1>1. PICK n \in 0..7 : Len(c) = n
  <2>1. PICK n \in Nat : Len(c) = n
    BY LenProperties
  <2>2. n <= 7
    BY <2>1 DEF SegLen
  <2> QED
    BY <2>1, <2>2
<1>2. b = (IF toggle THEN 16 ELSE 0) + 2 * (7 - n) + (IF last THEN 1 ELSE 0)
  BY <1>1 DEF SegLen
<1>3. f = Segment(b, c)
  BY DEF SegmentFrame
<1> HIDE DEF b, f
<1>4. /\ b \in CommandByte /\ b # AbortCommand /\ b \div 32 = 0
      /\ ((b \div 16) % 2 = 1 <=> toggle) /\ ((b \div 1) % 2 = 1 <=> last)
      /\ SegLen - ((b \div 2) % 8) = n
  <2>1. PICK x \in {0, 16}, y \in {0, 1} :
          b = x + 2 * (7 - n) + y /\ (x = 16 <=> toggle) /\ (y = 1 <=> last)
    <3>1. (IF toggle THEN 16 ELSE 0) \in {0, 16}
          /\ ((IF toggle THEN 16 ELSE 0) = 16 <=> toggle)
          /\ (IF last THEN 1 ELSE 0) \in {0, 1}
          /\ ((IF last THEN 1 ELSE 0) = 1 <=> last)
      OBVIOUS
    <3> QED
      BY <1>2, <3>1
  <2> QED
    BY <2>1 DEF CommandByte, AbortCommand, SegLen
<1>5. f \in FullFrame /\ f.b0 = b /\ f.data = Padded(c, SegLen)
  BY <1>3, <1>4, SegmentIsFrame
<1>6. Take(f.data, Len(c)) = c
  <2>1. SegLen \in Nat
    BY DEF SegLen
  <2> QED
    BY <1>5, <2>1, PaddingCutOff
<1>7. Ccs(f) = 0 /\ (Bit(f, 16) <=> toggle) /\ (Bit(f, 1) <=> last)
      /\ SegSize(f) = Len(c)
  BY <1>1, <1>4, <1>5 DEF Ccs, Bit, SegSize
<1>8. Toggle(f) = toggle
  BY <1>7 DEF Toggle, Bit
<1> QED
  BY <1>4, <1>5, <1>6, <1>7, <1>8 DEF f

LEMMA Counting ==
    ASSUME NEW data \in Seq(Byte)
    PROVE  LET k == SegmentCount(data)
           IN  /\ k \in 0..MaxSeq /\ (data # <<>> => k >= 1)
               /\ \A i \in 1..k : (i - 1) * SegLen < Len(data)
               /\ k = MaxSeq \/ Len(data) <= k * SegLen
               /\ k * SegLen < Len(data) + SegLen
               /\ \A i \in 1..k : Len(data) <= i * SegLen => i = k
<1>1. PICK n \in Nat : Len(data) = n
  BY LenProperties
<1>2. PICK m \in 1..127 : MaxSeq = m
  BY MaxSeqAssumption
<1>3. PICK c \in Nat : c = (n + 6) \div 7
  OBVIOUS
<1>4. 7 * c <= n + 6 /\ n + 6 < 7 * c + 7
  BY <1>3
<1>5. SegmentCount(data) = IF m <= c THEN m ELSE c
  BY <1>1, <1>2, <1>3 DEF SegmentCount, Least, SegLen
<1>6. data # <<>> => n >= 1
  BY <1>1, EmptySeq
<1> QED
  BY <1>1, <1>2, <1>4, <1>5, <1>6 DEF SegLen

LEMMA SubBlockFrameRead ==
    ASSUME NEW left \in Seq(Byte)
    PROVE  /\ SubBlockFrames(left) \in Seq(FullFrame)
           /\ Len(SubBlockFrames(left)) = SegmentCount(left)
           /\ \A i \in 1..SegmentCount(left) :
                LET f == SubBlockFrames(left)[i]
                    c == Chunk(left, (i - 1) * SegLen)
                IN  /\ f \in FullFrame /\ f.b0 # AbortCommand
                    /\ SubSeqNo(f) = i /\ f.data = Padded(c, SegLen)
                    /\ (LastSub(f) <=> Len(left) <= i * SegLen)
                    /\ f.mux = Segment(0, c).mux
                    /\ MaxSeq < 32 => Ccs(f) \in {0, 4}
<1> DEFINE k == SegmentCount(left)
           F(i) == SubBlockFrames(left)[i]
           C(i) == Chunk(left, (i - 1) * SegLen)
<1>1. k \in 0..MaxSeq /\ MaxSeq \in 1..127 /\ Len(left) \in Nat
  BY Counting, MaxSeqAssumption, LenProperties
<1>2. ASSUME NEW i \in 1..k
      PROVE  /\ F(i) \in FullFrame /\ F(i).b0 # AbortCommand
             /\ SubSeqNo(F(i)) = i /\ F(i).data = Padded(C(i), SegLen)
             /\ (LastSub(F(i)) <=> Len(left) <= i * SegLen)
             /\ F(i).mux = Segment(0, C(i)).mux
             /\ MaxSeq < 32 => Ccs(F(i)) \in {0, 4}
  <2> DEFINE b == i + (IF Len(left) <= i * SegLen THEN 128 ELSE 0)
             o == (i - 1) * SegLen
             c == Chunk(left, o)
  <2>1. i \in 1..127 /\ i <= MaxSeq
    BY <1>1
  <2>2. /\ b \in CommandByte /\ b # AbortCommand /\ b % 128 = i
        /\ (b >= 128 <=> Len(left) <= i * SegLen)
        /\ i < 32 => b \div 32 \in {0, 4}
    <3>1. CASE Len(left) <= i * SegLen
      <4>1. b = i + 128
        BY <3>1
      <4> HIDE DEF b
      <4> QED
        BY <2>1, <3>1, <4>1 DEF CommandByte, AbortCommand
    <3>2. CASE ~(Len(left) <= i * SegLen)
      <4>1. b = i
        BY <2>1, <3>2
      <4> HIDE DEF b
      <4> QED
        BY <2>1, <3>2, <4>1 DEF CommandByte, AbortCommand
    <3> QED
      BY <3>1, <3>2
  <2>3. o \in 0..Len(left) /\ SegLen * (i - 1) = o /\ SegLen * i = o + SegLen
    <3>1. (i - 1) * SegLen < Len(left)
      BY Counting
    <3> QED
      BY <1>1, <2>1, <3>1 DEF SegLen
  <2>4. F(i) = Segment(b, c)
    BY <2>3 DEF SubBlockFrames, Chunk
  <2> HIDE DEF o
  <2>5. c \in Seq(Byte)
    BY <2>3, ChunkBytes
  <2> HIDE DEF b, c
  <2>6. F(i) \in FullFrame /\ F(i).b0 = b /\ F(i).data = Padded(c, SegLen)
        /\ F(i).mux = Segment(0, c).mux
    BY <2>2, <2>4, <2>5, SegmentIsFrame
  <2>7. SubSeqNo(F(i)) = i /\ (LastSub(F(i)) <=> Len(left) <= i * SegLen)
    BY <2>2, <2>6 DEF SubSeqNo, LastSub
  <2>8. MaxSeq < 32 => Ccs(F(i)) \in {0, 4}
    BY <1>1, <2>1, <2>2, <2>6 DEF Ccs
  <2> QED
    BY <2>2, <2>6, <2>7, <2>8 DEF c, o
<1>3. SubBlockFrames(left) = [i \in 1..k |-> F(i)]
  BY DEF SubBlockFrames
<1> HIDE DEF F, k
<1>4. k \in Nat
  BY <1>1
<1>5. SubBlockFrames(left) \in Seq(FullFrame)
  BY <1>2, <1>3, <1>4, IsASeq
<1>6. Len(SubBlockFrames(left)) = k
  BY <1>3, <1>4
<1> QED
  BY <1>2, <1>5, <1>6 DEF F, k

LEMMA EndFrameRead ==
    ASSUME NEW r \in Request
    PROVE  LET f == EndFrame(r)
           IN  /\ f \in FullFrame /\ f.b0 # AbortCommand
               /\ Ccs(f) = 6 /\ Bit(f, 1)
               /\ EndSize(f) = SegLen - ((SegLen - (Len(r.data) % SegLen)) % SegLen)
<1>1. PICK n \in Nat : Len(r.data) = n
  BY RequestType
<1>2. PICK k \in 0..6 : k = (7 - (n % 7)) % 7
  OBVIOUS
<1> DEFINE b == 193 + 4 * k
           g == Command(b, Zero, <<>>)
<1>3. b \in CommandByte /\ b # AbortCommand /\ b \div 32 = 6
      /\ (b \div 1) % 2 = 1 /\ (b \div 4) % 8 = k
  BY DEF CommandByte, AbortCommand
<1>4. EndFrame(r) = [g EXCEPT !.crc = IF r.way = "checked" THEN r.data ELSE <<>>]
  BY <1>1, <1>2 DEF EndFrame, SegLen
<1> HIDE DEF b
<1>5. b \in CommandByte
  BY <1>3
<1>6. g \in FullFrame /\ g.b0 = b
  BY <1>5, PlainFrame, MuxAssumption
<1> HIDE DEF g
<1>7. (IF r.way = "checked" THEN r.data ELSE <<>>) \in Seq(Byte)
  BY RequestType, EmptySeq
<1>8. EndFrame(r) \in FullFrame /\ EndFrame(r).b0 = b
  BY <1>4, <1>6, <1>7 DEF FullFrame, Frame
<1> QED
  BY <1>1, <1>2, <1>3, <1>8 DEF Ccs, Bit, EndSize, SegLen

LEMMA ReadFrameRead ==
    ASSUME NEW toggle \in BOOLEAN
    PROVE  LET f == ReadFrame(toggle)
           IN  /\ f \in FullFrame /\ f.b0 # AbortCommand
               /\ Ccs(f) = 3 /\ Toggle(f) = toggle
<1> DEFINE b == IF toggle THEN 112 ELSE 96
           f == ReadFrame(toggle)
<1>1. f = Command(b, Zero, <<>>)
  BY DEF ReadFrame
<1>2. b \in {96, 112} /\ (b = 112 <=> toggle)
  OBVIOUS
<1> HIDE DEF b, f
<1>3. /\ b \in CommandByte /\ b # AbortCommand /\ b \div 32 = 3
      /\ ((b \div 16) % 2 = 1 <=> toggle)
  BY <1>2 DEF CommandByte, AbortCommand
<1>4. f \in FullFrame /\ f.b0 = b
  BY <1>1, <1>3, PlainFrame, MuxAssumption
<1>5. Ccs(f) = 3 /\ (Bit(f, 16) <=> toggle)
  BY <1>3, <1>4 DEF Ccs, Bit
<1>6. Toggle(f) = toggle
  BY <1>5 DEF Toggle, Bit
<1> QED
  BY <1>3, <1>4, <1>5, <1>6 DEF f

LEMMA ShortFrames ==
    /\ StartFrame \in FullFrame /\ StartFrame.b0 = 163
    /\ UpEndFrame \in FullFrame /\ UpEndFrame.b0 = 161
    /\ \A n \in Nat : /\ AckFrame(n) \in FullFrame /\ AckFrame(n).b0 = 162
                      /\ AckFrame(n).ack = n /\ AckFrame(n).blk = Window
    /\ \A m \in Mux : AbortFrame(m) \in FullFrame
                      /\ AbortFrame(m).b0 = AbortCommand
<1>1. 161 \in CommandByte /\ 162 \in CommandByte /\ 163 \in CommandByte
      /\ 128 \in CommandByte
  BY DEF CommandByte
<1>2. StartFrame \in FullFrame /\ StartFrame.b0 = 163
      /\ UpEndFrame \in FullFrame /\ UpEndFrame.b0 = 161
  BY <1>1, PlainFrame, MuxAssumption DEF StartFrame, UpEndFrame
<1>3. \A m \in Mux : AbortFrame(m) \in FullFrame
                     /\ AbortFrame(m).b0 = AbortCommand
  BY <1>1, PlainFrame DEF AbortFrame, AbortCommand
<1>4. ASSUME NEW n \in Nat
      PROVE  /\ AckFrame(n) \in FullFrame /\ AckFrame(n).b0 = 162
             /\ AckFrame(n).ack = n /\ AckFrame(n).blk = Window
  <2> DEFINE g == Command(162, Zero, <<>>)
  <2>1. g \in FullFrame /\ g.b0 = 162
    BY <1>1, PlainFrame, MuxAssumption
  <2> DEFINE f == AckFrame(n)
  <2>2. f = [g EXCEPT !.ack = n, !.blk = Window]
    BY DEF AckFrame
  <2> HIDE DEF f, g
  <2>3. Window \in Nat
    BY WindowAssumption, MaxSeqAssumption
  <2>4. f \in FullFrame /\ f.b0 = 162 /\ f.ack = n /\ f.blk = Window
    BY ZenonT(30), <2>1, <2>2, <2>3 DEF FullFrame, Frame
  <2> QED
    BY <2>4 DEF f
<1> QED
  BY <1>2, <1>3, <1>4

-----------------------------------------------------------------------------
(* The server's answers *)

Says(s, kinds) == IsSeq(s) /\ \A i \in 1..Len(s) : s[i].cs \in kinds

LEMMA SaysShort ==
    ASSUME NEW kinds
    PROVE  /\ Says(<<>>, kinds)
           /\ \A fr : fr.cs \in kinds => Says(<<fr>>, kinds)
<1>1. Says(<<>>, kinds)
  BY ShortIsSeq DEF Says
<1>2. ASSUME NEW fr, fr.cs \in kinds
      PROVE  Says(<<fr>>, kinds)
  <2>1. IsSeq(<<fr>>) /\ Len(<<fr>>) = 1 /\ <<fr>>[1] = fr
    BY ShortIsSeq
  <2> QED
    BY <1>2, <2>1 DEF Says
<1> QED
  BY <1>1, <1>2

LEMMA SaysMore ==
    ASSUME NEW s, NEW kinds, NEW more, Says(s, kinds), kinds \subseteq more
    PROVE  Says(s, more)
  BY DEF Says

(* The segments of an upload's sub-block are those of what is left. *)
LEMMA ChunkOfTaken ==
    ASSUME NEW s \in Seq(Byte), NEW n \in Nat, NEW k \in 0..Len(s),
           k + SegLen <= n
    PROVE  Chunk(Take(s, n), k) = Chunk(s, k)
<1> DEFINE t == Take(s, n)
           c == Chunk(t, k)
           r == Chunk(s, k)
<1>1. Len(s) \in Nat /\ k \in Nat /\ k <= Len(s) /\ SegLen = 7
  BY LenProperties DEF SegLen
<1>2. t \in Seq(Byte) /\ Len(t) = Least(n, Len(s)) /\ \A i \in 1..Len(t) : t[i] = s[i]
  BY TakeBytes
<1> HIDE DEF t
<1>3. k \in 0..Len(t)
  BY <1>1, <1>2 DEF Least
<1>4. /\ c \in Seq(Byte) /\ Len(c) = Least(SegLen, Len(t) - k)
      /\ \A i \in 1..Len(c) : c[i] = t[k + i]
  BY <1>2, <1>3, ChunkBytes
<1>5. /\ r \in Seq(Byte) /\ Len(r) = Least(SegLen, Len(s) - k)
      /\ \A i \in 1..Len(r) : r[i] = s[k + i]
  BY ChunkBytes
<1> HIDE DEF c, r
<1>6. Len(c) = Len(r) /\ Len(c) <= Len(t) - k /\ Len(c) \in Nat /\ Len(t) \in Nat
  BY <1>1, <1>2, <1>3, <1>4, <1>5 DEF Least
<1>7. ASSUME NEW i \in 1..Len(c)
      PROVE  c[i] = r[i]
  <2>1. k + i \in 1..Len(t)
    BY <1>1, <1>6
  <2> QED
    BY <1>2, <1>4, <1>5, <1>6, <2>1
<1>8. c = r
  BY <1>4, <1>5, <1>6, <1>7, SeqEqual
<1> QED
  BY <1>8 DEF c, r, t

LEMMA SubBlockSegments ==
    ASSUME NEW left \in Seq(Byte), NEW blk \in Nat
    PROVE  LET frames == SubBlock(left, blk)
               last   == Len(left) <= blk * SegLen
           IN  /\ Says(frames, {"ulSubBlock"})
               /\ Len(frames) \in Nat /\ Len(frames) >= 1
               /\ (Len(frames) - 1) * SegLen <= Len(left)
               /\ left # <<>> /\ blk >= 1 => (Len(frames) - 1) * SegLen < Len(left)
               /\ left = <<>> => Len(frames) = 1
               /\ blk >= 1 => Len(frames) <= blk
               /\ last => Len(left) <= Len(frames) * SegLen
               /\ ~last /\ blk >= 1 => Len(frames) = blk
               /\ blk >= 1 => \A i \in 1..Len(frames) :
                    /\ (i - 1) * SegLen \in 0..Len(left)
                    /\ frames[i] = SubBlockFrame(i, last /\ i = Len(frames),
                                                 Chunk(left, (i - 1) * SegLen))
<1> DEFINE data  == Take(left, blk * SegLen)
           count == (Len(data) + SegLen - 1) \div SegLen
           sent  == IF count = 0 THEN 1 ELSE count
           last  == Len(left) <= blk * SegLen
           piece(i) == SubSeq(data, SegLen * (i - 1) + 1,
                              Least(SegLen * i, Len(data)))
           frames == [i \in 1..sent |->
                        SubBlockFrame(i, last /\ i = sent, piece(i))]
<1>1. SubBlock(left, blk) = frames
  BY DEF SubBlock
<1>2. PICK n \in Nat : Len(left) = n
  BY LenProperties
<1>3. blk * SegLen \in Nat /\ blk * SegLen = blk * 7 /\ SegLen = 7
  BY DEF SegLen
<1>4. data \in Seq(Byte) /\ Len(data) = IF blk * 7 <= n THEN blk * 7 ELSE n
  BY <1>2, <1>3, TakeBytes DEF Least
<1> HIDE DEF data
<1>5. PICK m \in Nat : Len(data) = m /\ m = (IF blk * 7 <= n THEN blk * 7 ELSE n)
  BY <1>2, <1>3, <1>4
<1>6. PICK c \in Nat : count = c /\ 7 * c <= m + 6 /\ m + 6 < 7 * c + 7
  <2>1. count = (m + 6) \div 7
    BY <1>3, <1>5
  <2> QED
    BY <1>5, <2>1
<1>7. sent = IF c = 0 THEN 1 ELSE c
  BY <1>6
<1> HIDE DEF count, sent
<1>8. /\ sent \in Nat /\ sent >= 1 /\ (sent - 1) * 7 <= n
      /\ n >= 1 /\ blk >= 1 => (sent - 1) * 7 < n
      /\ n = 0 => sent = 1
      /\ blk >= 1 => sent <= blk
      /\ n <= blk * 7 => n <= sent * 7
      /\ ~(n <= blk * 7) /\ blk >= 1 => sent = blk
  BY <1>5, <1>6, <1>7
<1>9. Len(frames) = sent /\ DOMAIN frames = 1..sent
  BY <1>8
<1>10. Says(frames, {"ulSubBlock"})
  <2> DEFINE S == {frames[i] : i \in 1..sent}
  <2>1. \A i \in 1..sent : frames[i] \in S
    OBVIOUS
  <2>2. \A i \in 1..sent : frames[i].cs = "ulSubBlock"
    BY DEF SubBlockFrame
  <2>3. frames = [i \in 1..sent |-> frames[i]]
    OBVIOUS
  <2> HIDE DEF frames, S
  <2>4. frames \in Seq(S)
    BY SMTT(30), <1>8, <2>1, <2>3, IsASeq
  <2>5. IsSeq(frames)
    BY <2>4, TypedIsSeq
  <2> QED
    BY <1>9, <2>2, <2>5 DEF Says
<1>11. ASSUME blk >= 1, NEW i \in 1..sent
       PROVE  /\ (i - 1) * SegLen \in 0..Len(left)
              /\ frames[i] = SubBlockFrame(i, last /\ i = sent,
                                           Chunk(left, (i - 1) * SegLen))
  <2>1. PICK k \in Nat : k = (i - 1) * 7
    BY <1>8
  <2>2. k <= n /\ k + 7 <= blk * 7 /\ SegLen * (i - 1) + 1 = k + 1
        /\ SegLen * i = k + SegLen /\ (i - 1) * SegLen = k
    BY <1>3, <1>8, <1>11, <2>1
  <2>3. k \in 0..Len(left) /\ k + SegLen <= blk * SegLen
    BY <1>2, <1>3, <2>2
  <2>4. Chunk(data, k) = Chunk(left, k)
    BY <1>3, <2>3, ChunkOfTaken DEF data
  <2>5. piece(i) = Chunk(data, k)
    BY <2>2 DEF Chunk
  <2>6. frames[i] = SubBlockFrame(i, last /\ i = sent, piece(i))
    OBVIOUS
  <2> HIDE DEF frames, piece, last
  <2> QED
    BY <2>2, <2>3, <2>4, <2>5, <2>6
<1>12. left = <<>> <=> n = 0
  BY <1>2, EmptySeq
<1> HIDE DEF frames
<1> QED
  BY <1>1, <1>2, <1>3, <1>8, <1>9, <1>10, <1>11, <1>12

MidUpload == {"abort", "ulSubBlock", "ulBlockEnd"}

LEMMA SendSays ==
    ASSUME NEW u, u.stream.left \in Seq(Byte), u.blk \in Nat, NEW f,
           SendSubBlock(u, f)
    PROVE  Says(reply', MidUpload)
<1> DEFINE frames == SubBlock(u.stream.left, u.blk)
           cut == SubSeq(frames, 1, Len(frames) - 1)
           err == <<GeneralError(f)>>
<1>1. Says(frames, {"ulSubBlock"}) /\ Len(frames) \in Nat /\ Len(frames) >= 1
  BY SubBlockSegments
<1>2. reply' = cut \o err \/ reply' = frames \/ reply' = err
  BY DEF SendSubBlock, Answer
<1> HIDE DEF frames
<1>3. Says(frames, MidUpload)
  BY <1>1 DEF Says, MidUpload
<1>4. Says(err, MidUpload)
  <2>1. GeneralError(f).cs \in MidUpload
    BY DEF GeneralError, AbortReply, MidUpload
  <2> QED
    BY <2>1, SaysShort
<1>5. IsSeq(cut) /\ \A i \in 1..Len(cut) : cut[i].cs \in MidUpload
  <2> DEFINE S == {frames[i] : i \in DOMAIN frames}
             n == Len(frames) - 1
  <2>1. frames \in Seq(S)
    BY <1>1 DEF Says, IsSeq
  <2>2. \A i \in 1..Len(frames) : frames[i] \in S
    <3>1. DOMAIN frames = 1..Len(frames)
      BY <2>1, LenProperties
    <3> QED
      BY <3>1
  <2>3. n \in Nat /\ n <= Len(frames)
    BY <1>1
  <2> HIDE DEF S
  <2>4. \A i \in 1..n : frames[i] \in S
    BY <1>1, <2>2
  <2> HIDE DEF n
  <2>5. cut = SubSeq(frames, 1, n)
    BY DEF n
  <2>6. /\ cut \in Seq(S)
        /\ Len(cut) = IF 1 <= n THEN n - 1 + 1 ELSE 0
        /\ \A i \in 1..(n - 1 + 1) : cut[i] = frames[1 + i - 1]
    BY <2>3, <2>4, <2>5, SubSeqProperties
  <2>7. \A i \in 1..Len(cut) : i \in 1..Len(frames) /\ cut[i] = frames[i]
    BY <1>1, <2>3, <2>6
  <2> QED
    BY <1>3, <2>6, <2>7, TypedIsSeq DEF Says
<1> HIDE DEF cut, err
<1>6. Says(cut \o err, MidUpload)
  <2>1. IsSeq(cut) /\ IsSeq(err)
    BY <1>4, <1>5 DEF Says
  <2>2. /\ IsSeq(cut \o err) /\ Len(cut \o err) = Len(cut) + Len(err)
        /\ Len(cut) \in Nat /\ Len(err) \in Nat
        /\ \A i \in 1..Len(cut \o err) :
             (cut \o err)[i] = IF i <= Len(cut) THEN cut[i] ELSE err[i - Len(cut)]
    BY <2>1, JoinedSeq
  <2>3. ASSUME NEW i \in 1..Len(cut \o err)
        PROVE  (cut \o err)[i].cs \in MidUpload
    <3>1. CASE i <= Len(cut)
      BY <1>5, <2>2, <3>1
    <3>2. CASE ~(i <= Len(cut))
      <4>1. i - Len(cut) \in 1..Len(err)
        BY <2>2, <3>2
      <4> QED
        BY <1>4, <2>2, <3>2, <4>1 DEF Says
    <3> QED
      BY <3>1, <3>2
  <2> QED
    BY <2>2, <2>3 DEF Says
<1> QED
  BY <1>2, <1>3, <1>4, <1>6

LEMMA SubBlockOfUploadSays ==
    ASSUME UploadInv, NEW f \in Frame, UploadSubBlock(f)
    PROVE  Says(reply', MidUpload)
<1> DEFINE u == Acknowledged(f)
<1>1. /\ ul \in UploadState /\ f.ack \in Nat /\ f.blk \in Nat
      /\ ul.stream.left \in Seq(Byte) /\ ul.blk \in Nat
  BY FrameType DEF UploadInv, UPaired, UploadState, Stream
<1>2. u.stream.left \in Seq(Byte) /\ u.blk \in Nat
  <2>1. f.ack * SegLen \in Nat
    BY <1>1 DEF SegLen
  <2>2. Drop(ul.stream.left, f.ack * SegLen) \in Seq(Byte)
    BY <1>1, <2>1, DropType
  <2>3. /\ u.stream.left = Drop(ul.stream.left, f.ack * SegLen)
        /\ u.blk = f.blk
    BY <1>1 DEF Acknowledged, Advanced, UploadState, Stream
  <2> HIDE DEF u
  <2> QED
    BY <1>1, <2>2, <2>3
<1> HIDE DEF u
<1>3. CASE SendSubBlock(ul, f) \/ SendSubBlock(u, f)
  BY <1>1, <1>2, <1>3, SendSays
<1>4. CASE reply' = <<>>
  BY <1>4, SaysShort
<1>5. CASE \E fr : reply' = <<fr>> /\ fr.cs \in MidUpload
  BY <1>5, SaysShort
<1>6. /\ GeneralError(f).cs \in MidUpload
      /\ \A n, c : UpBlockEndReply(n, c).cs \in MidUpload
  BY DEF GeneralError, AbortReply, UpBlockEndReply, MidUpload
<1> QED
  BY <1>3, <1>4, <1>5, <1>6 DEF UploadSubBlock, CloseFails, Answer, u

LEMMA UploadReplies ==
    ASSUME UploadInv, NEW f \in Frame, UploadStep(f)
    PROVE  /\ Says(reply', UploadKinds \cup {"abort"})
           /\ Route(f) = "upload_sub_block" => Says(reply', MidUpload)
<1>1. CASE Route(f) = "upload_sub_block" /\ UploadSubBlock(f)
  <2>1. Says(reply', MidUpload)
    BY <1>1, SubBlockOfUploadSays
  <2> QED
    BY <2>1, SaysMore DEF MidUpload, UploadKinds
<1>2. CASE Route(f) # "upload_sub_block" /\ (InitUpload(f) \/ UploadSegment(f))
  <2>1. /\ \A c, m : AbortReply(c, m).cs \in UploadKinds \cup {"abort"}
        /\ GeneralError(f).cs \in UploadKinds \cup {"abort"}
        /\ \A m, n : UpInitReply(m, n).cs \in UploadKinds \cup {"abort"}
        /\ \A m, n : UpBlockReply(m, n).cs \in UploadKinds \cup {"abort"}
        /\ \A m, n : UpExpeditedReply(m, n).cs \in UploadKinds \cup {"abort"}
        /\ \A t, l, d : UpSegmentReply(t, l, d).cs \in UploadKinds \cup {"abort"}
    BY DEF AbortReply, GeneralError, UpInitReply, UpBlockReply,
           UpExpeditedReply, UpSegmentReply, UploadKinds
  <2>2. ASSUME NEW u, NEW n, StartUpload(u, n, f)
        PROVE  \E fr : reply' = <<fr>> /\ fr.cs \in UploadKinds \cup {"abort"}
    BY <2>1, <2>2 DEF StartUpload, CloseFails, RefuseUpload, Answer
  <2>3. ASSUME InitUpload(f)
        PROVE  \E fr : reply' = <<fr>> /\ fr.cs \in UploadKinds \cup {"abort"}
    <3>1. CASE SetUp(f)
      <4>1. CASE \E u, n : StartUpload(u, n, f)
        BY <2>2, <4>1
      <4>2. CASE \E c, m, u, n : RefuseUpload(u, n, c, m)
                                 \/ Answer(u, n, <<GeneralError(f)>>)
        BY <2>1, <4>2 DEF RefuseUpload, Answer
      <4> QED
        BY <3>1, <4>1, <4>2 DEF SetUp
    <3> QED
      BY <2>1, <2>3, <3>1 DEF InitUpload, CloseFails, RefuseUpload, Answer
  <2>4. ASSUME UploadSegment(f)
        PROVE  \E fr : reply' = <<fr>> /\ fr.cs \in UploadKinds \cup {"abort"}
    BY <2>1, <2>4
       DEF UploadSegment, AbortUpload, CloseFails, RefuseUpload, Answer
  <2> QED
    BY <1>2, <2>3, <2>4, SaysShort
<1> QED
  BY <1>1, <1>2 DEF UploadStep

(* A sub-block segment of a download is stored only by the end frame. *)
LEMMA SubBlockOfDownloadSays ==
    ASSUME NEW f, DownloadSubBlock(f)
    PROVE  od' = od /\ Says(reply', {"abort", "dlSubBlock"})
<1>1. /\ od' = od
      /\ \/ reply' = <<>>
         \/ \E fr : reply' = <<fr>> /\ fr.cs \in {"abort", "dlSubBlock"}
  <2>1. CASE \E d : ReceiveFails(d, sink, f)
    BY <2>1 DEF ReceiveFails, AbortFails, GeneralFailure, GeneralError,
                Refuse, Continue, AbortReply
  <2>2. CASE \E c, m : AbortDownload(dl, c, m, f)
    BY <2>2 DEF AbortDownload, AbortFails, GeneralFailure, GeneralError,
                Refuse, Continue, AbortReply
  <2>3. CASE \E d, s : Continue(d, s, SubBlockAck(f))
    BY <2>3 DEF Continue, SubBlockAck, SubBlockReply
  <2> QED
    BY <2>1, <2>2, <2>3 DEF DownloadSubBlock
<1> DEFINE kinds == {"abort", "dlSubBlock"}
<1>2. reply' = <<>> \/ \E fr : reply' = <<fr>> /\ fr.cs \in kinds
  BY <1>1
<1> HIDE DEF kinds
<1>3. Says(reply', kinds)
  BY <1>2, SaysShort
<1> QED
  BY <1>1, <1>3 DEF kinds

(* Without a transfer an abort changes no state, even when a handler that  *)
(* the manager kept raises again.                                          *)
LEMMA IdleAborts ==
    ASSUME Inv, dl.state = "NONE", NEW c, NEW m, NEW f,
           AbortDownload(dl, c, m, f)
    PROVE  /\ od' = od /\ dl'.state = "NONE"
           /\ \E code, mux : reply' = <<AbortReply(code, mux)>>
<1>1. DlAborted(dl).state = "NONE"
  BY AbortedPair DEF Inv, DownloadInv
<1>2. Told(dl).state = "NONE"
  BY DEF Told, Inv, DownloadInv, Paired, DownloadState
<1> QED
  BY <1>1, <1>2 DEF AbortDownload, AbortFails, GeneralFailure, GeneralError,
                    Refuse, Continue

(* What is left under way of a transfer that is over does no harm. *)
LEMMA HarmlessServe ==
    ASSUME Inv, NEW f \in Frame, HandleMsg(f),
           Quiet(f) \/ (dl.state = "NONE" /\ Stray(f))
    PROVE  /\ od' = od
           /\ Says(reply', UploadKinds \cup {"abort", "dlSubBlock"})
           /\ dl.state = "NONE" =>
                dl'.state = "NONE" /\ Says(reply', UploadKinds \cup {"abort"})
<1>1. CASE ClientAbort(f)
  <2> DEFINE kinds == UploadKinds \cup {"abort"}
  <2>1. /\ od' = od
        /\ (dl.state = "NONE" => dl'.state = "NONE")
        /\ reply' = <<>> \/ \E fr : reply' = <<fr>> /\ fr.cs = "abort"
    BY <1>1 DEF ClientAbort, ClientAbortsDownload, Downloading, AbortFails,
                CloseFails, Answer, GeneralFailure, GeneralError, AbortReply,
                Continue
  <2>2. reply' = <<>> \/ \E fr : reply' = <<fr>> /\ fr.cs \in kinds
    BY <2>1
  <2> HIDE DEF kinds
  <2>3. Says(reply', kinds)
    BY <2>2, SaysShort
  <2> QED
    BY <2>1, <2>3, SaysMore DEF kinds
<1>2. CASE UploadStep(f)
  <2>1. UNCHANGED <<od, dl>>
    BY <1>2, UploadsOnlyRead
  <2>2. Says(reply', UploadKinds \cup {"abort"})
    BY <1>2, UploadReplies DEF Inv
  <2> QED
    BY <2>1, <2>2, SaysMore
<1>3. CASE UnknownCommand(f)
  <2>1. /\ UNCHANGED <<od, dl>>
        /\ \E fr : reply' = <<fr>> /\ fr.cs \in UploadKinds \cup {"abort"}
    BY <1>3 DEF UnknownCommand, AbortReply
  <2>2. Says(reply', UploadKinds \cup {"abort"})
    BY <2>1, SaysShort
  <2> QED
    BY <2>1, <2>2, SaysMore
<1>4. CASE Route(f) = "download_sub_block" /\ DownloadSubBlock(f)
  <2>1. dl.state = "BLOCK"
    BY <1>4 DEF Route
  <2>2. od' = od /\ Says(reply', {"abort", "dlSubBlock"})
    BY <1>4, SubBlockOfDownloadSays
  <2> QED
    BY <2>1, <2>2, SaysMore
<1>5. CASE DownloadStep(f) /\ Route(f) # "download_sub_block"
  <2>1. f.b0 # AbortCommand /\ Ccs(f) \in {0, 1, 6}
    BY <1>5 DEF DownloadStep, Route
  <2>2. dl.state = "NONE" /\ Stray(f)
    BY <2>1 DEF Quiet
  <2>5. /\ od' = od /\ dl'.state = "NONE"
        /\ \E c, m : reply' = <<AbortReply(c, m)>>
    <3>1. CASE Route(f) = "download_segment" /\ DownloadSegment(f)
      <4>1. \E c, m : AbortDownload(dl, c, m, f)
        BY <2>2, <3>1 DEF DownloadSegment
      <4> QED
        BY <2>2, <4>1, IdleAborts
    <3>2. CASE Route(f) = "download_block_end" /\ DownloadBlockEnd(f)
      <4>1. \E c, m : AbortDownload(dl, c, m, f)
        BY <2>2, <3>2 DEF DownloadBlockEnd
      <4> QED
        BY <2>2, <4>1, IdleAborts
    <3>3. CASE /\ Route(f) \in {"init_download", "download_block_init"}
               /\ InitDownload(f) \/ DownloadBlockInit(f)
      <4>1. Ccs(f) \in {1, 6}
        BY <3>3 DEF Route
      <4>2. ~Exists(f.mux)
        BY <2>2, <4>1 DEF Stray
      <4>3. InitRefused(f)
        BY <2>2, <3>3, <4>2 DEF InitDownload, DownloadBlockInit, SettleFails
      <4> QED
        BY <2>2, <4>3 DEF InitRefused, Settled, Refuse, Continue
    <3> QED
      BY <1>5, <3>1, <3>2, <3>3 DEF DownloadStep
  <2>6. \E fr : reply' = <<fr>> /\ fr.cs \in UploadKinds \cup {"abort"}
    BY <2>5 DEF AbortReply
  <2>7. Says(reply', UploadKinds \cup {"abort"})
    BY <2>6, SaysShort
  <2> QED
    BY <2>5, <2>7, SaysMore
<1> QED
  BY <1>1, <1>2, <1>3, <1>4, <1>5 DEF HandleMsg, DownloadStep

-----------------------------------------------------------------------------
(* Steps of the server *)

(* What a step of the server does to the value and to the history: nothing *)
(* or what the client wants, once.                                         *)
Happens ==
    \/ UNCHANGED <<od, effect>>
    \/ /\ cl.phase # "idle" /\ ~effect.done /\ cl.want.op = "download"
       /\ od' = [od EXCEPT ![cl.want.mux] = Data]
       /\ effect' = [done |-> TRUE, data |-> Data]
    \/ /\ cl.phase # "idle" /\ ~effect.done /\ cl.want.op = "upload"
       /\ od' = od /\ effect' = [done |-> TRUE, data |-> od[cl.want.mux]]

LEMMA ServeOne ==
    ASSUME NEW f, Sent(f), Serve
    PROVE  /\ HandleMsg(f) /\ up' = <<>> /\ cl' = cl /\ effect' = Effect
           /\ IsSeq(reply') => down' = reply'
<1>1. Head(up) = f /\ Tail(up) = <<>>
  BY ShortIsSeq DEF Sent
<1>2. IsSeq(reply') => <<>> \o reply' = reply'
  BY ShortIsSeq, JoinedSeq
<1> QED
  BY <1>1, <1>2 DEF Serve, Sent, clientVars

LEMMA EffectKept ==
    ASSUME \/ cl.phase = "idle"
           \/ effect.done
           \/ reply' = <<>>
           \/ cl.want.op = "download" /\ ~Completed(reply', dl')
           \/ /\ cl.want.op = "upload"
              /\ reply'[1].cs \notin {"ulInit", "ulExpedited", "ulBlock"}
    PROVE  Effect = effect
  BY DEF Effect

LEMMA WantType ==
    ASSUME ClientInv, cl.phase # "idle"
    PROVE  /\ cl.want \in Request /\ cl.want.op \in {"download", "upload"}
           /\ cl.want.mux \in Mux /\ Data \in Seq(Byte) /\ Len(Data) \in Nat
           /\ cl.want.way \in Ways
  BY RequestType DEF ClientInv, Data

(* The server takes a frame for something else, or refuses it: the client  *)
(* waits in vain.                                                          *)
LEMMA Missed ==
    ASSUME ClientInv, cl.phase # "idle", NEW f, Sent(f), Serve,
           od' = od, NEW kinds, Says(reply', kinds), kinds \cap Awaited = {}
    PROVE  /\ Stranded' /\ UNCHANGED <<od, effect>>
<1>1. IsSeq(reply') /\ \A i \in 1..Len(reply') : reply'[i].cs \notin Awaited
  BY DEF Says
<1>2. up' = <<>> /\ cl' = cl /\ effect' = Effect /\ down' = reply'
  BY <1>1, ServeOne
<1>3. Awaited' = Awaited
  BY <1>2 DEF Awaited
<1>4. Stranded'
  BY <1>1, <1>2, <1>3 DEF Stranded
<1>5. reply' = <<>> \/ reply'[1].cs \notin Awaited
  <2>1. Len(reply') \in Nat /\ (reply' = <<>> <=> Len(reply') = 0)
    BY <1>1, EmptyIffLen
  <2>2. reply' # <<>> => 1 \in 1..Len(reply')
    BY <2>1
  <2> QED
    BY <1>1, <2>2
<1>6. Effect = effect
  <2>1. CASE cl.want.op = "download"
    <3>1. Completed(reply', dl') => reply'[1].cs \in Awaited
      BY <2>1 DEF Completed, Awaited
    <3>2. Completed(reply', dl') => reply' # <<>>
      BY ShortIsSeq DEF Completed
    <3> QED
      BY <1>5, <2>1, <3>1, <3>2, EffectKept
  <2>2. CASE cl.want.op = "upload"
    <3>1. {"ulInit", "ulExpedited", "ulBlock"} \subseteq Awaited
      BY <2>2 DEF Awaited, UploadKinds
    <3>2. reply' = <<>>
          \/ reply'[1].cs \notin {"ulInit", "ulExpedited", "ulBlock"}
      BY <1>5, <3>1
    <3> QED
      BY <2>2, <3>2, EffectKept
  <2> QED
    BY <2>1, <2>2, WantType
<1> QED
  BY <1>2, <1>4, <1>6

LEMMA SubBlockMissed ==
    ASSUME ClientInv, cl.phase # "idle", NEW f, Sent(f), Serve,
           DownloadSubBlock(f), cl.want.op = "upload" \/ cl.phase = "init"
    PROVE  Stranded' /\ UNCHANGED <<od, effect>>
<1> DEFINE kinds == {"abort", "dlSubBlock"}
<1>1. od' = od /\ Says(reply', kinds)
  BY SubBlockOfDownloadSays
<1>2. kinds \cap Awaited = {}
  BY WantType DEF Awaited, UploadKinds
<1> HIDE DEF kinds
<1> QED
  BY <1>1, <1>2, Missed

LEMMA UploadMissed ==
    ASSUME Inv, ClientInv, cl.phase # "idle", NEW f \in Frame, Sent(f), Serve,
           UploadStep(f),
           \/ cl.want.op = "download"
           \/ Route(f) = "upload_sub_block" /\ cl.phase = "init"
    PROVE  Stranded' /\ UNCHANGED <<od, effect>>
<1>1. od' = od
  BY UploadsOnlyRead
<1>2. CASE cl.want.op = "download"
  <2> DEFINE kinds == UploadKinds \cup {"abort"}
  <2>1. Says(reply', kinds)
    BY UploadReplies DEF Inv
  <2>2. kinds \cap Awaited = {}
    BY <1>2 DEF Awaited, UploadKinds
  <2> HIDE DEF kinds
  <2> QED
    BY <1>1, <2>1, <2>2, Missed
<1>3. CASE Route(f) = "upload_sub_block" /\ cl.phase = "init"
  <2>1. Says(reply', MidUpload)
    BY <1>3, UploadReplies DEF Inv
  <2>2. MidUpload \cap Awaited = {}
    BY <1>3 DEF Awaited, UploadKinds, MidUpload
  <2> QED
    BY <1>1, <2>1, <2>2, Missed
<1> QED
  BY <1>2, <1>3

LEMMA RefusalMissed ==
    ASSUME ClientInv, cl.phase # "idle", NEW f, Sent(f), Serve, od' = od,
           \E code, m : reply' = <<AbortReply(code, m)>>
    PROVE  Stranded' /\ UNCHANGED <<od, effect>>
<1> DEFINE kinds == {"abort"}
<1>1. \E fr : reply' = <<fr>> /\ fr.cs \in kinds
  BY DEF AbortReply
<1>2. kinds \cap Awaited = {}
  BY DEF Awaited, UploadKinds
<1> HIDE DEF kinds
<1>3. Says(reply', kinds)
  BY <1>1, SaysShort
<1> QED
  BY <1>2, <1>3, Missed

LEMMA ServeIdle ==
    ASSUME Inv, ClientInv, BusInv, Idle, Serve
    PROVE  Idle' /\ UNCHANGED <<od, effect>> /\ IsSeq(reply')
<1> DEFINE f == Head(up)
<1>1. up \in Seq(FullFrame) /\ up # <<>>
  BY DEF BusInv, Serve
<1>2. /\ IsSeq(up) /\ Len(up) \in Nat /\ Len(up) >= 1
      /\ Len(Tail(up)) = Len(up) - 1 /\ f = up[1]
      /\ \A i \in 1..Len(Tail(up)) : Tail(up)[i] = up[i + 1]
  BY <1>1, TypedIsSeq, TailSeq
<1>3. f \in Frame
  <2>1. 1 \in 1..Len(up)
    BY <1>2
  <2> QED
    BY <1>1, <1>2, <2>1, ElementOfSeq DEF FullFrame
<1>4. Quiet(f) \/ (dl.state = "NONE" /\ Stray(f))
  <2>1. 1 \in 1..Len(up)
    BY <1>2
  <2> QED
    BY <1>2, <2>1 DEF Idle
<1>5. HandleMsg(f) /\ up' = Tail(up) /\ cl' = cl /\ effect' = Effect
  BY DEF Serve, clientVars
<1> HIDE DEF f
<1>6. /\ od' = od /\ (dl.state = "NONE" => dl'.state = "NONE")
      /\ IsSeq(reply')
  BY <1>3, <1>4, <1>5, HarmlessServe DEF Says
<1>7. effect' = effect
  BY <1>5, EffectKept DEF Idle
<1>8. ASSUME NEW i \in 1..Len(Tail(up))
      PROVE  Quiet(Tail(up)[i]) \/ (dl'.state = "NONE" /\ Stray(Tail(up)[i]))
  <2>1. i + 1 \in 1..Len(up) /\ Tail(up)[i] = up[i + 1]
    BY <1>2
  <2> QED
    BY <1>6, <2>1 DEF Idle
<1>9. Idle'
  BY <1>5, <1>7, <1>8 DEF Idle, Quiet, Stray
<1> QED
  BY <1>6, <1>7, <1>9

LEMMA ServeStranded ==
    ASSUME Inv, ClientInv, BusInv, Stranded, Serve
    PROVE  Stranded' /\ UNCHANGED <<od, effect>> /\ IsSeq(reply')
<1> DEFINE f == Head(up)
           kinds == UploadKinds \cup {"abort"}
<1>0. /\ cl.phase = "subBlock" /\ dl.state = "NONE"
      /\ \A i \in 1..Len(up) : Stray(up[i])
      /\ cl.want.op = "download"
  BY DEF Stranded, Serve, ClientInv
<1>1. up \in Seq(FullFrame) /\ up # <<>>
  BY DEF BusInv, Serve
<1>2. /\ IsSeq(up) /\ Len(up) \in Nat /\ Len(up) >= 1
      /\ Len(Tail(up)) = Len(up) - 1 /\ f = up[1]
      /\ \A i \in 1..Len(Tail(up)) : Tail(up)[i] = up[i + 1]
  BY <1>1, TypedIsSeq, TailSeq
<1>3. f \in Frame /\ Stray(f)
  <2>1. 1 \in 1..Len(up)
    BY <1>2
  <2> QED
    BY <1>0, <1>1, <1>2, <2>1, ElementOfSeq DEF FullFrame
<1>5. HandleMsg(f) /\ up' = Tail(up) /\ cl' = cl /\ effect' = Effect
      /\ down' = down \o reply'
  BY DEF Serve, clientVars
<1> HIDE DEF f
<1>6. od' = od /\ dl'.state = "NONE" /\ Says(reply', kinds)
  BY <1>0, <1>3, <1>5, HarmlessServe
<1>7. kinds \cap Awaited = {}
  BY <1>0 DEF Awaited, UploadKinds
<1> HIDE DEF kinds
<1>8. IsSeq(reply') /\ \A i \in 1..Len(reply') : reply'[i].cs \notin Awaited
  BY <1>6, <1>7 DEF Says
<1>9. Effect = effect
  <2>1. Completed(reply', dl') => reply'[1].cs \in Awaited /\ 1 \in 1..Len(reply')
    BY <1>0 DEF Completed, Awaited
  <2> QED
    BY <1>0, <1>8, <2>1, EffectKept
<1>10. \A i \in 1..Len(Tail(up)) : Stray(Tail(up)[i])
  <2> TAKE i \in 1..Len(Tail(up))
  <2>1. i + 1 \in 1..Len(up) /\ Tail(up)[i] = up[i + 1]
    BY <1>2
  <2> QED
    BY <1>0, <2>1
<1>11. ASSUME NEW i \in 1..Len(down \o reply')
       PROVE  (down \o reply')[i].cs \notin Awaited
  <2>1. /\ Len(down \o reply') = Len(down) + Len(reply')
        /\ Len(down) \in Nat /\ Len(reply') \in Nat
        /\ (down \o reply')[i] = IF i <= Len(down) THEN down[i]
                                 ELSE reply'[i - Len(down)]
    BY <1>8, JoinedSeq DEF BusInv
  <2>2. CASE i <= Len(down)
    <3>1. i \in 1..Len(down)
      BY <2>1, <2>2
    <3> QED
      BY <2>1, <2>2, <3>1 DEF Stranded
  <2>3. CASE ~(i <= Len(down))
    <3>1. i - Len(down) \in 1..Len(reply')
      BY <2>1, <2>3
    <3> QED
      BY <1>8, <2>1, <2>3, <3>1
  <2> QED
    BY <2>2, <2>3
<1>12. Awaited' = Awaited
  BY <1>5 DEF Awaited
<1>13. Stranded'
  BY <1>0, <1>5, <1>6, <1>10, <1>11, <1>12 DEF Stranded, Stray
<1> QED
  BY <1>5, <1>6, <1>8, <1>9, <1>13

-----------------------------------------------------------------------------
(* Serving a download *)

LEMMA AnswersOne ==
    ASSUME NEW f, Sent(f), Serve, NEW fr, reply' = <<fr>>
    PROVE  /\ up' = <<>> /\ down' = <<fr>> /\ cl' = cl /\ effect' = Effect
           /\ IsSeq(reply')
<1>1. IsSeq(reply')
  BY ShortIsSeq
<1> QED
  BY <1>1, ServeOne

LEMMA FinishesVariable ==
    ASSUME NEW d \in DownloadState, ~d.held, NEW s, NEW fr,
           Finish(d, s, <<fr>>)
    PROVE  /\ dl'.state = "NONE"
           /\ \/ od' = [od EXCEPT ![d.mux] = d.buffer] /\ reply' = <<fr>>
              \/ od' = od /\ \E code, m : reply' = <<AbortReply(code, m)>>
<1>1. DlAborted(d).state = "NONE"
  BY FreshState DEF DlAborted, TransferStates
<1> QED
  BY <1>1 DEF Finish, FinishHandler, FinishVariable

(* The transfer of the wanted value is finished: it is stored and          *)
(* confirmed, or it is refused and nothing has happened.                   *)
LEMMA FinishServed ==
    ASSUME ClientInv, cl.phase # "idle", cl.want.op = "download",
           effect = NotYet, NEW f, Sent(f), Serve,
           NEW d \in DownloadState, ~d.held, d.mux = cl.want.mux,
           d.buffer = Data, NEW s, NEW fr,
           fr.cs \in {"dlInit", "dlSegment", "dlBlockEnd"},
           Finish(d, s, <<fr>>)
    PROVE  /\ Happens /\ IsSeq(reply')
           /\ \/ Stranded'
              \/ effect' = [done |-> TRUE, data |-> Data]
                 /\ up' = <<>> /\ down' = <<fr>> /\ cl' = cl
<1>1. /\ dl'.state = "NONE"
      /\ \/ od' = [od EXCEPT ![cl.want.mux] = Data] /\ reply' = <<fr>>
         \/ od' = od /\ \E code, m : reply' = <<AbortReply(code, m)>>
  BY FinishesVariable
<1>2. CASE od' = [od EXCEPT ![cl.want.mux] = Data] /\ reply' = <<fr>>
  <2>1. up' = <<>> /\ down' = <<fr>> /\ cl' = cl /\ effect' = Effect
        /\ IsSeq(reply')
    BY <1>2, AnswersOne
  <2>2. Len(<<fr>>) = 1 /\ <<fr>>[1] = fr /\ <<fr>> # <<>>
    BY ShortIsSeq
  <2>3. Completed(reply', dl') /\ reply' # <<>> /\ ~effect.done
    BY <1>1, <1>2, <2>2 DEF Completed, NotYet
  <2>4. effect' = [done |-> TRUE, data |-> Data]
    BY <2>1, <2>3 DEF Effect, Data
  <2> QED
    BY <1>2, <2>1, <2>3, <2>4 DEF Happens
<1>3. CASE od' = od /\ \E code, m : reply' = <<AbortReply(code, m)>>
  <2>1. Stranded' /\ UNCHANGED <<od, effect>>
    BY <1>3, RefusalMissed
  <2> QED
    BY <1>3, <2>1, ShortIsSeq DEF Happens
<1> QED
  BY <1>1, <1>2, <1>3

(* The transfer goes on: nothing has happened yet. *)
LEMMA GoesOn ==
    ASSUME NEW f, Sent(f), Serve, NEW fr, reply' = <<fr>>, od' = od,
           cl.want.op = "download", dl'.state # "NONE"
    PROVE  /\ Happens /\ effect' = effect
           /\ up' = <<>> /\ down' = <<fr>> /\ cl' = cl /\ IsSeq(reply')
<1>1. /\ up' = <<>> /\ down' = <<fr>> /\ cl' = cl /\ effect' = Effect
      /\ IsSeq(reply')
  BY AnswersOne
<1>2. Effect = effect
  BY EffectKept DEF Completed
<1> QED
  BY <1>1, <1>2 DEF Happens

(* What does not take the route of a download's frame brings nothing.      *)
LEMMA OffRoute ==
    ASSUME Inv, ClientInv, cl.phase # "idle", cl.want.op = "download",
           NEW f \in Frame, f.b0 # AbortCommand, Sent(f), Serve,
           ~DownloadStep(f)
    PROVE  Stranded' /\ UNCHANGED <<od, effect>> /\ IsSeq(reply')
<1>1. HandleMsg(f)
  BY ServeOne
<1>2. CASE UnknownCommand(f)
  <2>1. od' = od /\ \E code, m : reply' = <<AbortReply(code, m)>>
    BY <1>2 DEF UnknownCommand
  <2> QED
    BY <2>1, RefusalMissed, ShortIsSeq
<1>3. CASE UploadStep(f)
  <2>1. IsSeq(reply')
    BY <1>3, UploadReplies DEF Says, Inv
  <2> QED
    BY <1>3, <2>1, UploadMissed
<1> QED
  BY <1>1, <1>2, <1>3 DEF HandleMsg, ClientAbort

LEMMA ServeAskedDownload ==
    ASSUME NoHandlers, Inv, ClientInv, BusInv, Asked,
           cl.want.op = "download", Serve
    PROVE  Happens /\ (Stranded' \/ DownloadGranted') /\ IsSeq(reply')
<1> DEFINE f == InitFrame(cl.want)
           r == cl.want
           v == Settled(dl)
           s == SettledSink(dl, sink)
<1>1. /\ cl.phase = "init" /\ cl.phase # "idle" /\ Sent(f) /\ effect = NotYet
      /\ r \in Request /\ Data \in Seq(Byte) /\ Data = r.data /\ r.mux \in Mux
  BY WantType DEF Asked, Data
<1>2. /\ f \in Frame /\ f.mux = r.mux /\ f.b0 # AbortCommand
      /\ Expeditable(r) =>
           /\ Ccs(f) = 1 /\ Bit(f, 1) /\ Bit(f, 2) /\ ExpSize(f) = Len(r.data)
           /\ Take(ExpData(f), Len(r.data)) = r.data
      /\ r.way = "plain" /\ ~Expeditable(r) => Ccs(f) = 1 /\ ~Bit(f, 2)
      /\ r.way # "plain" => Ccs(f) = 6 /\ ~Bit(f, 1) /\ ~Bit(f, 2)
      /\ Expeditable(r) => r.way = "plain"
  BY <1>1, InitDownloadFrame DEF FullFrame, Expeditable
<1>3. HandleMsg(f) /\ cl' = cl
  BY <1>1, ServeOne
<1>4. Paired(v, s) /\ Clean(v) /\ v.state = "NONE" /\ (v.held => v.told)
  BY SettledPair DEF Inv, DownloadInv
<1> HIDE DEF f, v, s
<1>5. ASSUME Stranded' /\ UNCHANGED <<od, effect>> /\ IsSeq(reply')
      PROVE  Happens /\ (Stranded' \/ DownloadGranted') /\ IsSeq(reply')
  BY <1>5 DEF Happens
<1>6. ASSUME od' = od, \E code, m : reply' = <<AbortReply(code, m)>>
      PROVE  Happens /\ (Stranded' \/ DownloadGranted') /\ IsSeq(reply')
  <2>1. Stranded' /\ UNCHANGED <<od, effect>>
    BY <1>1, <1>6, RefusalMissed
  <2>2. IsSeq(reply')
    BY <1>6, ShortIsSeq
  <2> QED
    BY <1>5, <2>1, <2>2
<1>7. CASE UnknownCommand(f)
  BY <1>6, <1>7 DEF UnknownCommand
<1>8. CASE UploadStep(f)
  <2>1. Stranded' /\ UNCHANGED <<od, effect>>
    BY <1>1, <1>2, <1>8, UploadMissed
  <2>2. IsSeq(reply')
    BY <1>2, <1>8, UploadReplies DEF Says, Inv
  <2> QED
    BY <1>5, <2>1, <2>2
<1>9. CASE DownloadSubBlock(f)
  <2>1. Stranded' /\ UNCHANGED <<od, effect>>
    BY <1>1, <1>9, SubBlockMissed
  <2>2. IsSeq(reply')
    BY <1>9, SubBlockOfDownloadSays DEF Says
  <2> QED
    BY <1>5, <2>1, <2>2
<1>10. CASE InitRefused(f) \/ SettleFails(f)
  BY <1>6, <1>10 DEF InitRefused, SettleFails, AbortFails, GeneralFailure,
                     GeneralError, Refuse, Continue
<1>11. ASSUME NEW fr, reply' = <<fr>>, od' = od, dl'.state # "NONE"
       PROVE  Happens /\ effect' = effect /\ up' = <<>> /\ down' = <<fr>>
              /\ IsSeq(reply')
  BY <1>1, <1>11, GoesOn
<1>12. CASE OpenSegmented(f) /\ r.way = "plain"
  <2> DEFINE d == Started(v, "SEGMENT", f.mux)
  <2>1. /\ d.state = "SEGMENT" /\ d.mux = r.mux /\ ~d.held
        /\ ~d.toggle /\ d.buffer = <<>>
    <3>0. "SEGMENT" \in TransferStates /\ f.mux \in Mux
      BY <1>1, <1>2 DEF TransferStates
    <3>1. Paired(d, s) /\ d.state = "SEGMENT" /\ ~d.held /\ d.mux = f.mux
      BY <1>4, <3>0, StartedPair
    <3>2. v \in DownloadState
      BY <1>4 DEF Paired
    <3>3. Fresh(v, "SEGMENT") \in DownloadState
          /\ Fresh(v, "SEGMENT").buffer = <<>> /\ ~Fresh(v, "SEGMENT").toggle
      BY <3>2, FreshState DEF TransferStates
    <3> QED
      BY <1>2, <3>1, <3>3 DEF Started, DownloadState
  <2>2. dl' = d /\ reply' = <<InitReply(r.mux)>> /\ od' = od /\ ~Bit(f, 2)
    BY <1>2, <1>12 DEF OpenSegmented, NoHandlers, Continue, v, s
  <2> HIDE DEF d
  <2>3. ~Expeditable(r)
    BY <1>2, <2>2
  <2>4. Happens /\ effect' = effect /\ up' = <<>>
        /\ down' = <<InitReply(r.mux)>> /\ IsSeq(reply')
    BY <1>11, <2>1, <2>2
  <2>5. SegmentedBegun'
    BY <1>1, <1>3, <1>12, <2>1, <2>2, <2>3, <2>4
       DEF SegmentedBegun, Answered, Open, Expeditable
  <2> QED
    BY <1>1, <1>3, <2>4, <2>5 DEF DownloadGranted
<1>13. CASE OpenBlock(f) /\ r.way # "plain"
  <2> DEFINE b == Started(v, "BLOCK", f.mux)
             d == [b EXCEPT !.check = Bit(f, 4)]
  <2>1. /\ d.state = "BLOCK" /\ d.mux = r.mux /\ ~d.held
        /\ d.seq = 1 /\ d.buffer = <<>>
    <3>0. "BLOCK" \in TransferStates /\ f.mux \in Mux
      BY <1>1, <1>2 DEF TransferStates
    <3>1. Paired(b, s) /\ b.state = "BLOCK" /\ ~b.held /\ b.mux = f.mux
      BY <1>4, <3>0, StartedPair
    <3>2. v \in DownloadState
      BY <1>4 DEF Paired
    <3>3. Fresh(v, "BLOCK") \in DownloadState
          /\ Fresh(v, "BLOCK").buffer = <<>> /\ Fresh(v, "BLOCK").seq = 1
      BY <3>2, FreshState DEF TransferStates
    <3>4. b.buffer = <<>> /\ b.seq = 1 /\ b \in DownloadState
      BY <3>1, <3>3 DEF Started, DownloadState, Paired
    <3> QED
      BY <1>2, <3>1, <3>4 DEF DownloadState
  <2>2. dl' = d /\ reply' = <<BlockReply(r.mux)>> /\ od' = od
    BY <1>2, <1>13 DEF OpenBlock, NoHandlers, Continue, v, s
  <2> HIDE DEF d
  <2>4. Happens /\ effect' = effect /\ up' = <<>>
        /\ down' = <<BlockReply(r.mux)>> /\ IsSeq(reply')
    BY <1>11, <2>1, <2>2
  <2>5. BlockBegun'
    BY <1>1, <1>3, <1>13, <2>1, <2>2, <2>4 DEF BlockBegun, Answered, Open
  <2> QED
    BY <1>1, <1>3, <2>4, <2>5 DEF DownloadGranted
<1>14. CASE Expedite(f) /\ r.way = "plain"
  <2> DEFINE e == Started(v, "NONE", f.mux)
             data == Take(ExpData(f), ExpeditedSize(f))
             d == Received(e, data)
  <2>1. Bit(f, 2) /\ Expeditable(r) /\ Bit(f, 1) /\ data = Data
    BY <1>1, <1>2, <1>14 DEF Expedite, ExpeditedSize
  <2>2. Finish(d, s, <<InitReply(f.mux)>>)
    BY <1>14, <2>1 DEF Expedite, NoHandlers, SizeUnknown, v, s
  <2>3. Paired(e, s) /\ ~e.held /\ e.mux = f.mux /\ e.buffer = <<>>
    <3>1. Paired(e, s) /\ ~e.held /\ e.mux = f.mux
      BY SMTT(30), <1>1, <1>2, <1>4, StartedPair DEF TransferStates
    <3>2. v \in DownloadState
      BY <1>4 DEF Paired
    <3>3. Fresh(v, "NONE") \in DownloadState /\ Fresh(v, "NONE").buffer = <<>>
      BY <3>2, FreshState DEF TransferStates
    <3> QED
      BY <1>2, <3>1, <3>3 DEF Started, DownloadState
  <2> HIDE DEF e, data
  <2>4. Passed(e, s, data) = s
    BY <2>3 DEF Passed
  <2>5. d \in DownloadState /\ ~d.held /\ d.mux = r.mux
    BY <1>1, <1>2, <2>1, <2>3, ReceivedPair DEF Paired
  <2>6. d.buffer = Data
    <3>1. d.buffer = e.buffer \o data
      BY <2>3 DEF Received, Extended, Paired, DownloadState
    <3>2. <<>> \o Data = Data
      BY <1>1, ConcatEmptySeq
    <3> QED
      BY <2>1, <2>3, <3>1, <3>2
  <2> HIDE DEF d
  <2>7. InitReply(r.mux).cs = "dlInit"
    BY DEF InitReply
  <2>8. /\ Happens /\ IsSeq(reply')
        /\ \/ Stranded'
           \/ effect' = [done |-> TRUE, data |-> Data] /\ up' = <<>>
              /\ down' = <<InitReply(r.mux)>> /\ cl' = cl
    BY <1>1, <1>2, <2>2, <2>5, <2>6, <2>7, FinishServed
  <2>9. ~Stranded' => Expedited'
    BY <2>1, <2>8 DEF Expedited, Answered, Done, Data, Expeditable
  <2> QED
    BY <1>1, <1>3, <2>8, <2>9 DEF DownloadGranted
<1>15. DownloadStep(f) => \/ DownloadSubBlock(f)
                          \/ InitRefused(f) \/ SettleFails(f)
                          \/ OpenSegmented(f) /\ r.way = "plain"
                          \/ Expedite(f) /\ r.way = "plain"
                          \/ OpenBlock(f) /\ r.way # "plain"
  BY <1>2 DEF DownloadStep, Route, InitDownload, DownloadBlockInit
<1>16. ~ClientAbort(f)
  BY <1>2 DEF ClientAbort
<1> QED
  BY <1>3, <1>7, <1>8, <1>9, <1>10, <1>12, <1>13, <1>14, <1>15, <1>16
     DEF HandleMsg

LEMMA ServeSegment ==
    ASSUME Inv, ClientInv, BusInv, cl.phase = "segment", SegmentSent, Serve
    PROVE  Happens /\ (Stranded' \/ SegmentTaken') /\ IsSeq(reply')
<1>1. PICK rest \in Seq(Byte) :
        /\ Sent(SegmentFrame(cl.toggle, Take(rest, SegLen), Len(rest) <= SegLen))
        /\ cl.left = Drop(rest, SegLen)
        /\ Open("SEGMENT") /\ dl.toggle = cl.toggle
        /\ dl.buffer \o rest = Data /\ effect = NotYet
  BY DEF SegmentSent
<1> DEFINE c == Take(rest, SegLen)
           last == Len(rest) <= SegLen
           f == SegmentFrame(cl.toggle, c, last)
           data == Take(f.data, SegSize(f))
           d == [dl EXCEPT !.toggle = ~@]
           fr == SegmentReply(cl.toggle)
<1>2. /\ cl.phase # "idle" /\ cl.want.op = "download" /\ cl.toggle \in BOOLEAN
      /\ dl \in DownloadState /\ ~dl.held /\ dl.state = "SEGMENT"
      /\ dl.mux = cl.want.mux
  BY <1>1 DEF ClientInv, ClientState, Inv, DownloadInv, Paired, Open
<1>3. /\ c \in Seq(Byte) /\ Len(c) <= SegLen /\ last \in BOOLEAN
      /\ c \o cl.left = rest /\ cl.left \in Seq(Byte)
      /\ (cl.left = <<>> <=> last) /\ (last => c = rest)
  <2>1. Len(rest) \in Nat
    OBVIOUS
  <2>2. c \in Seq(Byte) /\ Len(c) = Least(SegLen, Len(rest))
    BY TakeBytes DEF SegLen
  <2>3. /\ cl.left \in Seq(Byte)
        /\ Len(cl.left) = IF SegLen <= Len(rest) THEN Len(rest) - SegLen ELSE 0
    BY <1>1, DropsBytes DEF SegLen
  <2>4. c \o cl.left = rest
    BY <1>1, TakeAndDrop DEF SegLen
  <2>5. cl.left = <<>> <=> Len(cl.left) = 0
    BY <2>3
  <2>6. cl.left = <<>> => c = rest
    BY <2>2, <2>4, ConcatEmptySeq
  <2> HIDE DEF c
  <2> QED
    BY <2>1, <2>2, <2>3, <2>4, <2>5, <2>6 DEF Least, SegLen
<1>4. /\ f \in Frame /\ f.b0 # AbortCommand /\ Ccs(f) = 0
      /\ Toggle(f) = cl.toggle /\ (Bit(f, 1) <=> last) /\ data = c
  <2> HIDE DEF c, last
  <2> QED
    BY <1>2, <1>3, SegmentFrameRead DEF FullFrame
<1>5. Sent(f)
  BY <1>1
<1>6. d \in DownloadState /\ ~d.held /\ d.state = "SEGMENT"
      /\ d.mux = cl.want.mux /\ d.buffer = dl.buffer /\ d.toggle = ~cl.toggle
  BY <1>1, <1>2 DEF DownloadState
<1> HIDE DEF f, c, last, d, data
<1>7. CASE ~DownloadStep(f)
  BY <1>2, <1>4, <1>5, <1>7, OffRoute DEF Happens
<1>8. CASE DownloadStep(f)
  <2>1. DownloadSegment(f)
    BY <1>2, <1>4, <1>8 DEF DownloadStep, Route
  <2>2. \/ last /\ Finish(Received(d, data), Passed(d, sink, data), <<fr>>)
        \/ ~last /\ Continue(Received(d, data), Passed(d, sink, data), <<fr>>)
    BY <1>1, <1>2, <1>4, <1>6, <2>1
       DEF DownloadSegment, ReceiveFails, AbortDownload, AbortFails, d, data
  <2>3. /\ Received(d, data) \in DownloadState /\ ~Received(d, data).held
        /\ Received(d, data).state = "SEGMENT"
        /\ Received(d, data).mux = cl.want.mux
        /\ Received(d, data).buffer = dl.buffer \o c
        /\ Received(d, data).toggle = ~cl.toggle
    <3>1. dl.buffer \o c \in Seq(Byte)
      BY <1>2, <1>3 DEF DownloadState
    <3> QED
      BY <1>4, <1>6, <3>1 DEF Received, Extended, DownloadState
  <2>4. CASE last
    <3>1. dl.buffer \o c = Data
      BY <1>1, <1>3, <2>4
    <3>2. fr.cs = "dlSegment"
      BY DEF SegmentReply
    <3>3. /\ Happens /\ IsSeq(reply')
          /\ \/ Stranded'
             \/ effect' = [done |-> TRUE, data |-> Data] /\ up' = <<>>
                /\ down' = <<fr>> /\ cl' = cl
      BY <1>1, <1>2, <1>5, <2>2, <2>3, <2>4, <3>1, <3>2, FinishServed
    <3>4. ~Stranded' => SegmentTaken'
      BY <1>3, <2>4, <3>3 DEF SegmentTaken, Answered, Done, Data
    <3> QED
      BY <3>3, <3>4
  <2>5. CASE ~last
    <3>1. dl' = Received(d, data) /\ od' = od /\ reply' = <<fr>>
      BY <2>2, <2>5 DEF Continue
    <3>2. Happens /\ effect' = effect /\ up' = <<>>
          /\ down' = <<fr>> /\ cl' = cl /\ IsSeq(reply')
      BY <1>2, <1>5, <2>3, <3>1, GoesOn
    <3>3. dl'.buffer \o cl.left = Data
      <4>0. dl.buffer \in Seq(Byte)
        BY <1>2 DEF DownloadState
      <4>1. (dl.buffer \o c) \o cl.left = dl.buffer \o (c \o cl.left)
        BY <1>3, <4>0, JoinedThrice
      <4> QED
        BY <1>1, <1>3, <2>3, <3>1, <4>1
    <3>4. SegmentTaken'
      BY <1>1, <1>3, <2>3, <2>5, <3>1, <3>2, <3>3
         DEF SegmentTaken, Answered, Open, Data
    <3> QED
      BY <3>2, <3>4
  <2> QED
    BY <2>4, <2>5
<1> QED
  BY <1>7, <1>8

(* The segments of the sub-block under way, in the value downloaded. *)
LEMMA SubBlockFacts ==
    ASSUME ClientInv, SubBlocks
    PROVE  /\ cl.phase # "idle" /\ cl.want.op = "download"
           /\ Data \in Seq(Byte) /\ cl.left \in Seq(Byte)
           /\ Offset \in 0..Len(Data) /\ Len(Data) \in Nat
           /\ Len(cl.left) = Len(Data) - Offset
           /\ cl.count \in 1..MaxSeq
           /\ cl.count = MaxSeq \/ Len(cl.left) <= cl.count * SegLen
           /\ cl.count * SegLen < Len(cl.left) + SegLen
           /\ \A i \in 1..cl.count :
                LET f == SubBlockFrames(cl.left)[i]
                    k == Offset + (i - 1) * SegLen
                IN  /\ f \in Frame /\ f.b0 # AbortCommand /\ SubSeqNo(f) = i
                    /\ k \in 0..Len(Data) /\ k % SegLen = 0
                    /\ f.data = Padded(Chunk(Data, k), SegLen)
                    /\ (LastSub(f) <=> Len(cl.left) <= i * SegLen)
                    /\ (LastSub(f) => i = cl.count)
                    /\ f.mux = Segment(0, Chunk(Data, k)).mux
                    /\ MaxSeq < 32 => Ccs(f) \in {0, 4}
<1>1. /\ cl.phase = "subBlock" /\ cl.left # <<>> /\ cl.left \in Seq(Byte)
      /\ Offset \in Nat /\ Offset % SegLen = 0 /\ cl.left = Drop(Data, Offset)
      /\ cl.count = SegmentCount(cl.left) /\ cl.want.op = "download"
  BY DEF SubBlocks, ClientInv, ClientState
<1>2. Data \in Seq(Byte) /\ Len(Data) \in Nat
  BY <1>1, WantType
<1>3. Len(cl.left) \in Nat /\ Offset \in 0..Len(Data)
      /\ Len(cl.left) = Len(Data) - Offset
  <2>1. Len(cl.left) \in Nat
    BY <1>1
  <2> QED
    BY <1>1, <1>2, <2>1 DEF Offset
<1>4. /\ SegmentCount(cl.left) \in 1..MaxSeq
      /\ \A i \in 1..SegmentCount(cl.left) : (i - 1) * SegLen < Len(cl.left)
      /\ SegmentCount(cl.left) = MaxSeq
         \/ Len(cl.left) <= SegmentCount(cl.left) * SegLen
      /\ SegmentCount(cl.left) * SegLen < Len(cl.left) + SegLen
      /\ \A i \in 1..SegmentCount(cl.left) :
           Len(cl.left) <= i * SegLen => i = SegmentCount(cl.left)
  BY <1>1, MaxSeqAssumption, Counting
<1>5. ASSUME NEW i \in 1..cl.count
      PROVE  LET f == SubBlockFrames(cl.left)[i]
                 k == Offset + (i - 1) * SegLen
             IN  /\ f \in Frame /\ f.b0 # AbortCommand /\ SubSeqNo(f) = i
                 /\ k \in 0..Len(Data) /\ k % SegLen = 0
                 /\ f.data = Padded(Chunk(Data, k), SegLen)
                 /\ (LastSub(f) <=> Len(cl.left) <= i * SegLen)
                 /\ (LastSub(f) => i = cl.count)
                 /\ f.mux = Segment(0, Chunk(Data, k)).mux
                 /\ MaxSeq < 32 => Ccs(f) \in {0, 4}
  <2> DEFINE k == Offset + (i - 1) * SegLen
             c == Chunk(cl.left, (i - 1) * SegLen)
             f == SubBlockFrames(cl.left)[i]
  <2>1. i \in Nat /\ i >= 1 /\ i \in 1..SegmentCount(cl.left)
    BY <1>1, <1>4
  <2>2. (i - 1) * SegLen < Len(cl.left)
    BY <1>4, <2>1
  <2>3. k \in 0..Len(Data) /\ k % SegLen = 0
    BY <1>1, <1>2, <1>3, <2>1, <2>2 DEF SegLen
  <2>4. c = Chunk(Data, k)
    <3>1. c = SubSeq(cl.left, SegLen * (i - 1) + 1,
                     Least(SegLen * i, Len(cl.left)))
      <4>1. /\ (i - 1) * SegLen + 1 = SegLen * (i - 1) + 1
            /\ (i - 1) * SegLen + SegLen = SegLen * i
        BY <2>1 DEF SegLen
      <4> QED
        BY <4>1 DEF Chunk
    <3>2. (i - 1) * SegLen <= Len(Data) - Offset
      BY <1>2, <1>3, <2>1, <2>2 DEF SegLen
    <3>3. SubSeq(Drop(Data, Offset), SegLen * (i - 1) + 1,
                 Least(SegLen * i, Len(Drop(Data, Offset))))
            = Chunk(Data, Offset + (i - 1) * SegLen)
      BY <1>2, <1>3, <2>1, <3>2, ChunkOfRest
    <3> HIDE DEF c
    <3> QED
      BY <1>1, <3>1, <3>3
  <2>5. /\ f \in FullFrame /\ f.b0 # AbortCommand
        /\ SubSeqNo(f) = i /\ f.data = Padded(c, SegLen)
        /\ (LastSub(f) <=> Len(cl.left) <= i * SegLen)
        /\ f.mux = Segment(0, c).mux
        /\ MaxSeq < 32 => Ccs(f) \in {0, 4}
    BY <1>1, <2>1, SubBlockFrameRead
  <2> HIDE DEF c, f, k
  <2>6. LastSub(f) => i = cl.count
    BY <1>1, <1>4, <2>1, <2>5
  <2>7. f \in Frame
    BY <2>5 DEF FullFrame
  <2> QED
    BY <2>3, <2>4, <2>5, <2>6, <2>7 DEF c, f, k
<1> QED
  BY <1>1, <1>2, <1>3, <1>4, <1>5

(* A segment of a dropped sub-block cannot begin a download.               *)
LEMMA SubBlocksAreStray ==
    ASSUME SegmentsNameNothing, ClientInv, SubBlocks, NEW i \in 1..cl.count
    PROVE  Stray(SubBlockFrames(cl.left)[i])
<1> DEFINE f == SubBlockFrames(cl.left)[i]
           k == Offset + (i - 1) * SegLen
<1>1. /\ k \in 0..Len(Data) /\ k % SegLen = 0
      /\ f.mux = Segment(0, Chunk(Data, k)).mux
      /\ MaxSeq < 32 => Ccs(f) \in {0, 4}
  BY SubBlockFacts
<1>2. cl.want \in Request /\ cl.want.op = "download" /\ cl.want.way # "plain"
      /\ Data = cl.want.data
  BY WantType, SubBlockFacts DEF SubBlocks, Data
<1> HIDE DEF f, k
<1>3. MaxSeq < 32 \/ ~Exists(f.mux)
  BY <1>1, <1>2 DEF SegmentsNameNothing
<1>4. Stray(f)
  BY <1>1, <1>3 DEF Stray
<1> QED
  BY <1>4 DEF f

(* The sub-block as a whole is out of step: the server aborts it, and what *)
(* is left of it on the bus finds no transfer.                             *)
LEMMA ServeOutOfStep ==
    ASSUME SegmentsNameNothing, Inv, ClientInv, BusInv, SubBlocks,
           NEW j \in 0..(cl.count - 1), SubBlockSent(j), Serve,
           dl'.state = "NONE", od' = od, reply' # <<>>,
           \E code, m : reply' = <<AbortReply(code, m)>>
    PROVE  Happens /\ Stranded' /\ IsSeq(reply')
<1>1. PICK fr : reply' = <<fr>> /\ fr.cs = "abort"
  BY DEF AbortReply
<1>2. IsSeq(reply') /\ Len(reply') = 1 /\ reply'[1] = fr /\ <<>> \o reply' = reply'
  BY <1>1, ShortIsSeq
<1>3. cl.phase = "subBlock" /\ cl.want.op = "download" /\ cl.count \in 1..MaxSeq
  BY SubBlockFacts DEF SubBlocks
<1>4. /\ up' = Tail(up) /\ down' = reply' /\ cl' = cl /\ effect' = Effect
      /\ up # <<>>
  BY <1>2 DEF Serve, SubBlockSent, clientVars
<1>5. Effect = effect
  BY <1>1, <1>2, <1>3, EffectKept DEF Completed
<1>6. ASSUME NEW i \in 1..Len(up')
      PROVE  Stray(up'[i])
  <2>1. up \in Seq(FullFrame)
    BY DEF BusInv
  <2>2. /\ Len(up) \in Nat /\ Len(Tail(up)) = Len(up) - 1
        /\ \A n \in 1..Len(Tail(up)) : Tail(up)[n] = up[n + 1]
    BY <1>4, <2>1, TypedIsSeq, TailSeq
  <2>3. i + 1 \in 1..Len(up) /\ up'[i] = up[i + 1]
    BY <1>4, <2>2
  <2>4. /\ Len(up) = cl.count - j
        /\ up[i + 1] = SubBlockFrames(cl.left)[j + (i + 1)]
    BY <2>3 DEF SubBlockSent
  <2>5. j + (i + 1) \in 1..cl.count
    <3>1. PICK k \in Nat : k = cl.count /\ j \in 0..(k - 1)
      BY <1>3, MaxSeqAssumption
    <3>2. i + 1 \in 1..(k - j)
      BY <2>3, <2>4, <3>1
    <3> QED
      BY <3>1, <3>2
  <2> QED
    BY <2>3, <2>4, <2>5, SubBlocksAreStray
<1>7. \A i \in 1..Len(down') : down'[i].cs \notin Awaited
  BY <1>1, <1>2, <1>3, <1>4 DEF Awaited
<1>8. Stranded'
  BY <1>3, <1>4, <1>6, <1>7, MaxSeqAssumption DEF Stranded, Stray, Awaited
<1> QED
  BY <1>2, <1>4, <1>5, <1>8 DEF Happens

LEMMA ServeSubBlock ==
    ASSUME SegmentsNameNothing, Inv, ClientInv, BusInv, SubBlocks,
           NEW j \in 0..(cl.count - 1), SubBlockSent(j), Serve
    PROVE  Happens /\ (Stranded' \/ SubBlocks') /\ IsSeq(reply')
<1> DEFINE i == j + 1
           f == SubBlockFrames(cl.left)[i]
           k == Offset + j * SegLen
           n == SegLen
<1>1. /\ cl.phase = "subBlock" /\ cl.want.op = "download"
      /\ Data \in Seq(Byte) /\ cl.left \in Seq(Byte)
      /\ Offset \in 0..Len(Data) /\ Len(Data) \in Nat
      /\ Len(cl.left) = Len(Data) - Offset
      /\ cl.count \in 1..MaxSeq
      /\ cl.count = MaxSeq \/ Len(cl.left) <= cl.count * SegLen
  BY SubBlockFacts DEF SubBlocks
<1>2. j \in Nat /\ i \in 1..cl.count /\ i <= MaxSeq /\ i = j + 1
  BY <1>1, MaxSeqAssumption
<1>3. /\ f \in Frame /\ f.b0 # AbortCommand /\ SubSeqNo(f) = i
      /\ k \in 0..Len(Data)
      /\ f.data = Padded(Chunk(Data, k), SegLen)
      /\ (LastSub(f) <=> Len(cl.left) <= i * SegLen)
      /\ (LastSub(f) => i = cl.count)
  <2>1. Offset + (i - 1) * SegLen = k
    BY <1>1, <1>2
  <2> QED
    BY <1>2, <2>1, SubBlockFacts
<1>4. /\ IsSeq(up) /\ up # <<>> /\ Head(up) = f
      /\ Len(up) = cl.count - j /\ Len(up') = cl.count - i
      /\ \A a \in 1..Len(up') : up'[a] = SubBlockFrames(cl.left)[i + a]
  <2>1. up # <<>> /\ up \in Seq(FullFrame) /\ up' = Tail(up)
    BY DEF Serve, BusInv
  <2>2. /\ IsSeq(up) /\ Len(up) \in Nat /\ Len(up) >= 1
        /\ Len(up') = Len(up) - 1 /\ Head(up) = up[1]
        /\ \A a \in 1..Len(up') : up'[a] = up[a + 1]
    BY <2>1, TypedIsSeq, TailSeq
  <2>3. /\ Len(up) = cl.count - j
        /\ \A a \in 1..Len(up) : up[a] = SubBlockFrames(cl.left)[j + a]
    BY DEF SubBlockSent
  <2>4. 1 \in 1..Len(up)
    BY <2>2
  <2>5. ASSUME NEW a \in 1..Len(up')
        PROVE  up'[a] = SubBlockFrames(cl.left)[i + a]
    <3>1. a \in Nat /\ a >= 1 /\ a <= Len(up) - 1
      BY <2>2
    <3>2. a + 1 \in 1..Len(up) /\ j + (a + 1) = i + a
      BY <1>2, <2>2, <3>1
    <3> QED
      BY <2>2, <2>3, <3>2
  <2>6. up[1] = f
    BY <2>3, <2>4
  <2>7. Len(up') = cl.count - i
    BY SMTT(30), <1>1, <1>2, <2>2, <2>3
  <2> HIDE DEF f, i
  <2> QED
    BY <2>1, <2>2, <2>3, <2>5, <2>6, <2>7
<1>5. DownloadSubBlock(f) /\ down' = down \o reply' /\ down = <<>>
      /\ cl' = cl /\ effect' = Effect /\ dl.state = "BLOCK"
  <2>1. HandleMsg(f) /\ dl.state = "BLOCK"
    BY <1>4 DEF Serve, SubBlockSent
  <2>2. Route(f) = "download_sub_block"
    BY <1>3, <2>1 DEF Route
  <2>3. DownloadSubBlock(f)
    BY <1>3, <2>1, <2>2
       DEF HandleMsg, ClientAbort, DownloadStep, UploadStep, UnknownCommand
  <2> QED
    BY <2>1, <2>3 DEF Serve, SubBlockSent, clientVars
<1>6. dl \in DownloadState /\ dl.buffer \in Seq(Byte) /\ dl.seq \in 1..MaxSeq
  BY DEF Inv, DownloadInv, Paired, DownloadState
<1> HIDE DEF f
<1>7. CASE dl.seq # i
  <2>1. AbortDownload(dl, "0x05040003", dl.mux, f) /\ ~dl.held
    BY <1>2, <1>3, <1>5, <1>6, <1>7 DEF DownloadSubBlock, SubBlockSent, Open
  <2>2. DlAborted(dl).state = "NONE"
    BY <1>6, FreshState DEF DlAborted, TransferStates
  <2>3. dl'.state = "NONE" /\ od' = od
        /\ \E code, m : reply' = <<AbortReply(code, m)>>
    BY <2>1, <2>2 DEF AbortDownload, AbortFails, Refuse, Continue
  <2>4. reply' # <<>>
    BY <2>3, ShortIsSeq
  <2> QED
    BY <2>3, <2>4, ServeOutOfStep
<1>8. CASE dl.seq = i
  <2>1. Open("BLOCK") /\ effect = NotYet /\ dl.buffer = Padded(Data, k)
    BY <1>2, <1>6, <1>8 DEF SubBlockSent
  <2>2. /\ f.data \in Seq(Byte)
        /\ dl.buffer \o f.data = Padded(Data, k + SegLen)
        /\ dl.buffer \o f.data \in Seq(Byte)
    <3>1. f.data \in Seq(Byte)
      BY <1>3 DEF Frame
    <3>2. Padded(Data, k) \o Padded(Chunk(Data, k), SegLen)
            = Padded(Data, k + SegLen)
      BY <1>1, <1>3, PaddedGrows
    <3> QED
      BY <1>3, <1>6, <2>1, <3>1, <3>2
  <2>3. k + SegLen = Offset + i * SegLen
    BY <1>1, <1>2 DEF SegLen
  <2> DEFINE full == SubBlockFull(f)
  <2>4. /\ od' = od /\ dl'.mux = dl.mux /\ ~dl'.held
        /\ dl'.buffer = dl.buffer \o f.data
        /\ dl'.state = IF LastSub(f) THEN "BLOCK_END" ELSE "BLOCK"
        /\ dl'.seq = IF full THEN 1 ELSE i + 1
        /\ reply' = IF full THEN <<SubBlockReply(i)>> ELSE <<>>
    <3>1. ~dl.held
      BY <2>1 DEF Open
    <3>2. CASE ~LastSub(f)
      <4> DEFINE d == Received(Checked(dl, f.data), f.data)
      <4>1. Continue(Counted(d, full), Passed(dl, sink, f.data), SubBlockAck(f))
        <5>1. ~Checked(dl, f.data).held
          BY <1>6, <3>1 DEF Checked, DownloadState
        <5> QED
          BY <1>3, <1>5, <1>8, <3>2, <5>1 DEF DownloadSubBlock, ReceiveFails
      <4>2. /\ d \in DownloadState /\ ~d.held /\ d.mux = dl.mux
            /\ d.buffer = dl.buffer \o f.data /\ d.state = "BLOCK"
            /\ d.seq = dl.seq
        <5>1. Checked(dl, f.data) \in DownloadState
              /\ Checked(dl, f.data).buffer = dl.buffer
              /\ ~Checked(dl, f.data).held
              /\ Checked(dl, f.data).mux = dl.mux
              /\ Checked(dl, f.data).state = "BLOCK"
              /\ Checked(dl, f.data).seq = dl.seq
          <6>1. dl.crc \o f.data \in Seq(Byte)
            BY <1>6, <2>2 DEF DownloadState
          <6> QED
            BY <1>5, <1>6, <3>1, <6>1 DEF Checked, DownloadState
        <5> QED
          BY <2>2, <5>1 DEF Received, Extended, DownloadState
      <4> HIDE DEF d, full
      <4>3. dl' = Counted(d, full) /\ od' = od /\ reply' = SubBlockAck(f)
        BY <4>1 DEF Continue
      <4> QED
        BY <1>8, <3>2, <4>2, <4>3
           DEF Counted, DownloadState, SubBlockAck, full
    <3>3. CASE LastSub(f)
      <4> DEFINE e == Extended(dl, f.data)
                 d == [e EXCEPT !.state = "BLOCK_END"]
      <4>1. Continue(Counted(d, TRUE), sink, SubBlockAck(f)) /\ full
        BY <1>3, <1>8, <3>3, <1>5 DEF DownloadSubBlock, SubBlockFull
      <4>2. /\ d \in DownloadState /\ ~d.held /\ d.mux = dl.mux
            /\ d.buffer = dl.buffer \o f.data /\ d.state = "BLOCK_END"
        BY <1>6, <2>2, <3>1 DEF Extended, DownloadState, TransferStates
      <4> HIDE DEF d, full
      <4>3. dl' = Counted(d, TRUE) /\ od' = od /\ reply' = SubBlockAck(f)
        BY <4>1 DEF Continue
      <4> QED
        BY <1>8, <3>3, <4>1, <4>2, <4>3
           DEF Counted, DownloadState, SubBlockAck, full
    <3> QED
      BY <3>2, <3>3
  <2>5. full <=> i = cl.count
    BY <1>1, <1>2, <1>3, <1>8, MaxSeqAssumption DEF SubBlockFull
  <2>6. effect' = effect
    <3>1. ~Completed(reply', dl')
      BY <2>4 DEF Completed
    <3> QED
      BY <1>1, <1>5, <3>1, EffectKept
  <2>7. /\ IsSeq(reply') /\ down' = reply'
    <3>1. IsSeq(reply') /\ <<>> \o reply' = reply'
      <4>1. <<>> \o reply' = reply' /\ IsSeq(reply')
        BY <2>4, ShortIsSeq, JoinedSeq
      <4> QED
        BY <4>1
    <3> QED
      BY <1>5, <3>1
  <2> HIDE DEF full
  <2>8. SubBlocks'
    <3>1. CASE i = cl.count
      <4>1. up' = <<>>
        <5>1. Tail(up) = up' /\ IsSeq(up')
          BY <1>4, TailSeq DEF Serve
        <5> QED
          BY <1>1, <1>4, <3>1, <5>1, EmptyIffLen
      <4>2. Data' = Data /\ Offset' = Offset
        BY <1>5 DEF Data, Offset
      <4>3. LastSub(f) <=> ~(cl.count * SegLen < Len(cl.left))
        BY <1>1, <1>3, <3>1 DEF SegLen
      <4>4. dl'.buffer = Padded(Data, Offset + cl.count * SegLen)
        BY <2>2, <2>3, <2>4, <3>1
      <4>5. reply' = <<SubBlockReply(cl.count)>> /\ dl'.seq = 1
            /\ dl'.mux = cl.want.mux /\ ~dl'.held
        BY <2>1, <2>4, <2>5, <3>1 DEF Open
      <4>6. SubBlockTaken'
        BY <1>5, <2>1, <2>4, <2>6, <2>7, <4>1, <4>2, <4>3, <4>4, <4>5
           DEF SubBlockTaken, Answered, Open
      <4> QED
        BY <1>5, <4>6 DEF SubBlocks, Offset, Data
    <3>2. CASE i # cl.count
      <4>1. SubBlockSent(i)'
        BY <1>2, <1>3, <1>4, <1>5, <2>1, <2>2, <2>3, <2>4, <2>5, <2>6, <2>7,
           <3>2 DEF SubBlockSent, Open, Data, Offset
      <4>2. i \in 0..(cl.count - 1)
        BY <1>1, <1>2, <3>2
      <4> QED
        BY <1>5, <4>1, <4>2 DEF SubBlocks, Offset, Data
    <3> QED
      BY <3>1, <3>2
  <2> QED
    BY <2>4, <2>6, <2>7, <2>8 DEF Happens
<1> QED
  BY <1>7, <1>8

(* How much of the last segment is padding. *)
LEMMA LastPadding ==
    ASSUME NEW n \in Nat, NEW l \in Nat, n % SegLen = 0,
           n \in l..(l + SegLen - 1)
    PROVE  n - l = (SegLen - (l % SegLen)) % SegLen
  BY DEF SegLen

LEMMA ServeEnd ==
    ASSUME Inv, ClientInv, BusInv, cl.phase = "end", EndSent, Serve
    PROVE  Happens /\ (Stranded' \/ Ending') /\ IsSeq(reply')
<1> DEFINE f == EndFrame(cl.want)
           size == EndSize(f)
           d == Checked(dl, Take(TakeLast(dl.buffer, SegLen), size))
           t == Trimmed(d, size)
<1>1. /\ cl.phase # "idle" /\ cl.want.op = "download" /\ cl.want \in Request
      /\ Data \in Seq(Byte) /\ Len(Data) \in Nat /\ Data = cl.want.data
      /\ Sent(f) /\ effect = NotYet
      /\ dl.state = "BLOCK_END" /\ dl.mux = cl.want.mux /\ ~dl.held
      /\ dl.buffer = Padded(Data, Len(dl.buffer)) /\ Len(dl.buffer) % SegLen = 0
      /\ Len(dl.buffer) \in Len(Data)..(Len(Data) + SegLen - 1)
  BY WantType DEF EndSent, Open, ClientInv, Data
<1>2. /\ f \in Frame /\ f.b0 # AbortCommand /\ Ccs(f) = 6 /\ Bit(f, 1)
      /\ size = SegLen - ((SegLen - (Len(Data) % SegLen)) % SegLen)
  BY <1>1, EndFrameRead DEF FullFrame
<1>3. /\ d.mux = dl.mux /\ d.held = dl.held /\ d.buffer = dl.buffer
      /\ d \in DownloadState /\ t \in DownloadState /\ t.mux = dl.mux
      /\ t = IF size = SegLen THEN d
             ELSE [d EXCEPT !.buffer = DropLast(@, SegLen - size)]
  BY <1>2, BlockEndPair DEF Inv, DownloadInv, Paired, Trimmed
<1> HIDE DEF f, size, d, t
<1>4. t.buffer = Data /\ ~t.held
  <2>1. dl.buffer \in Seq(Byte) /\ Len(dl.buffer) \in Nat
    BY DEF Inv, DownloadInv, Paired, DownloadState
  <2>2. /\ size = SegLen => Len(dl.buffer) = Len(Data)
        /\ size # SegLen => SegLen - size = Len(dl.buffer) - Len(Data)
    <3> DEFINE n == Len(dl.buffer)
               l == Len(Data)
    <3>1. n \in Nat /\ l \in Nat /\ n % SegLen = 0
          /\ n \in l..(l + SegLen - 1)
      BY <1>1, <2>1
    <3>2. size = SegLen - ((SegLen - (l % SegLen)) % SegLen)
      BY <1>2
    <3> HIDE DEF n, l
    <3>3. size = SegLen - (n - l)
      BY <3>1, <3>2, LastPadding
    <3>4. (size = SegLen => n = l) /\ SegLen - size = n - l
      BY <3>1, <3>3 DEF SegLen
    <3> QED
      BY <3>4 DEF n, l
  <2>3. DropLast(dl.buffer, Len(dl.buffer) - Len(Data)) = Data
    <3> DEFINE n == Len(dl.buffer)
    <3>1. n \in Nat /\ Len(Data) <= n /\ dl.buffer = Padded(Data, n)
      BY <1>1, <2>1 DEF SegLen
    <3> HIDE DEF n
    <3>2. DropLast(Padded(Data, n), n - Len(Data)) = Data
      BY <1>1, <3>1, PaddingCutOff
    <3> QED
      BY <3>1, <3>2 DEF n
  <2>4. Len(dl.buffer) = Len(Data) => dl.buffer = Data
    BY <1>1, PaddedShort
  <2> QED
    BY <1>1, <1>3, <2>2, <2>3, <2>4 DEF DownloadState
<1>5. CASE ~DownloadStep(f)
  BY <1>1, <1>2, <1>5, OffRoute DEF Happens
<1>6. CASE DownloadStep(f)
  <2>1. DownloadBlockEnd(f)
    BY <1>1, <1>2, <1>6 DEF DownloadStep, Route
  <2>2. \/ \E code, m : AbortDownload(d, code, m, f)
        \/ Finish(t, sink, <<BlockEndReply>>)
    BY <1>1, <1>3, <2>1 DEF DownloadBlockEnd, ReceiveFails, d, t, size
  <2>3. CASE \E code, m : AbortDownload(d, code, m, f)
    <3>1. od' = od /\ \E code, m : reply' = <<AbortReply(code, m)>>
      BY <1>1, <1>3, <2>3 DEF AbortDownload, AbortFails, Refuse, Continue
    <3>2. Stranded' /\ UNCHANGED <<od, effect>>
      BY <1>1, <3>1, RefusalMissed
    <3> QED
      BY <3>1, <3>2, ShortIsSeq DEF Happens
  <2>4. CASE Finish(t, sink, <<BlockEndReply>>)
    <3> DEFINE fr == BlockEndReply
    <3>1. fr.cs = "dlBlockEnd" /\ Finish(t, sink, <<fr>>)
      BY <2>4 DEF BlockEndReply
    <3> HIDE DEF fr
    <3>0. t \in DownloadState /\ ~t.held /\ t.mux = cl.want.mux
          /\ t.buffer = Data
      BY <1>1, <1>3, <1>4
    <3>2. /\ Happens /\ IsSeq(reply')
          /\ \/ Stranded'
             \/ effect' = [done |-> TRUE, data |-> Data] /\ up' = <<>>
                /\ down' = <<fr>> /\ cl' = cl
      BY <1>1, <3>0, <3>1, FinishServed
    <3>3. ~Stranded' => Ending'
      BY <3>2 DEF Ending, Answered, Done, Data, fr
    <3> QED
      BY <3>2, <3>3
  <2> QED
    BY <2>2, <2>3, <2>4
<1> QED
  BY <1>5, <1>6

-----------------------------------------------------------------------------
(* Serving an upload *)

LEMMA NoneDropped ==
    ASSUME NEW s \in Seq(Byte)
    PROVE  Drop(s, 0) = s /\ Take(s, 0) = <<>>
<1>1. Take(s, 0) = <<>>
  <2>1. 0 \in 0..Len(s)
    OBVIOUS
  <2> QED
    BY <2>1, PaddedShort
<1>2. Take(s, 0) \o Drop(s, 0) = s
  BY TakeAndDrop
<1>3. Drop(s, 0) \in Seq(Byte)
  BY DropsBytes
<1> QED
  BY <1>1, <1>2, <1>3, ConcatEmptySeq

(* The value the stream is set up with is the one the client gets to see.  *)
LEMMA ReadNow ==
    ASSUME ClientInv, cl.phase # "idle", cl.want.op = "upload",
           effect = NotYet, NEW f, Sent(f), Serve, od' = od,
           NEW fr, fr.cs \in {"ulInit", "ulExpedited", "ulBlock"},
           reply' = <<fr>>
    PROVE  /\ Happens /\ IsSeq(reply')
           /\ effect' = [done |-> TRUE, data |-> od[cl.want.mux]]
           /\ up' = <<>> /\ down' = <<fr>> /\ cl' = cl
<1>1. up' = <<>> /\ down' = <<fr>> /\ cl' = cl /\ effect' = Effect
      /\ IsSeq(reply')
  BY AnswersOne
<1>2. <<fr>>[1] = fr /\ <<fr>> # <<>> /\ ~effect.done
  BY ShortIsSeq DEF NotYet
<1>3. effect' = [done |-> TRUE, data |-> od[cl.want.mux]]
  BY <1>1, <1>2 DEF Effect
<1> QED
  BY <1>1, <1>2, <1>3 DEF Happens

LEMMA OffRouteUpload ==
    ASSUME ClientInv, cl.phase # "idle", cl.want.op = "upload",
           NEW f \in Frame, f.b0 # AbortCommand, Ccs(f) \in {2, 3, 5},
           Sent(f), Serve, ~UploadStep(f)
    PROVE  Stranded' /\ UNCHANGED <<od, effect>> /\ IsSeq(reply')
<1>1. HandleMsg(f)
  BY ServeOne
<1>2. CASE UnknownCommand(f)
  <2>1. od' = od /\ \E code, m : reply' = <<AbortReply(code, m)>>
    BY <1>2 DEF UnknownCommand
  <2> QED
    BY <2>1, RefusalMissed, ShortIsSeq
<1>3. CASE DownloadStep(f)
  <2>1. DownloadSubBlock(f)
    BY <1>3 DEF DownloadStep, Route
  <2>2. IsSeq(reply')
    BY <2>1, SubBlockOfDownloadSays DEF Says
  <2> QED
    BY <2>1, <2>2, SubBlockMissed
<1> QED
  BY <1>1, <1>2, <1>3 DEF HandleMsg, ClientAbort

LEMMA AdvancedFields ==
    ASSUME NEW u \in UploadState, NEW n \in Nat
    PROVE  /\ Advanced(u, n) \in UploadState
           /\ Advanced(u, n).state = u.state /\ Advanced(u, n).toggle = u.toggle
           /\ Advanced(u, n).blk = u.blk /\ Advanced(u, n).check = u.check
           /\ Advanced(u, n).crc = u.crc
           /\ Advanced(u, n).stream.kind = u.stream.kind
           /\ Advanced(u, n).stream.left = Drop(u.stream.left, n)
<1>1. u.stream \in Stream /\ u.stream.left \in Seq(Byte)
  BY DEF UploadState, Stream
<1>2. Drop(u.stream.left, n) \in Seq(Byte)
  BY <1>1, DropsBytes
<1> DEFINE t == [u.stream EXCEPT !.left = Drop(@, n)]
<1>3. t \in Stream /\ t.kind = u.stream.kind
      /\ t.left = Drop(u.stream.left, n)
  BY <1>1, <1>2 DEF Stream
<1>4. Advanced(u, n) = [u EXCEPT !.stream = t]
  BY DEF Advanced, UploadState
<1> HIDE DEF t
<1> QED
  BY <1>3, <1>4 DEF UploadState

LEMMA ServeAskedUpload ==
    ASSUME NoHandlers, Inv, ClientInv, BusInv, ValuesInv, Asked,
           cl.want.op = "upload", Serve
    PROVE  Happens /\ (Stranded' \/ UploadGranted') /\ IsSeq(reply')
<1> DEFINE f == InitFrame(cl.want)
           r == cl.want
           data == od[r.mux]
           v == [SettledUpload(ul) EXCEPT !.mux = f.mux]
           n == SettledSource(ul, source)
           u == [v EXCEPT !.stream = FixedStream(data), !.told = FALSE]
<1>1. /\ cl.phase = "init" /\ cl.phase # "idle" /\ Sent(f) /\ effect = NotYet
      /\ r \in Request /\ r.mux \in Mux /\ r.way \in Ways
      /\ data \in Seq(Byte) /\ Len(data) \in Nat
  <2>1. cl.phase = "init" /\ cl.phase # "idle" /\ Sent(f) /\ effect = NotYet
    BY DEF Asked
  <2>2. r \in Request /\ r.mux \in Mux /\ r.way \in Ways
    BY <2>1, WantType
  <2>3. od \in [Mux -> Seq(Byte)]
    BY DEF Inv, DownloadInv
  <2> QED
    BY <2>1, <2>2, <2>3
<1>2. /\ f \in Frame /\ f.mux = r.mux /\ f.b0 # AbortCommand
      /\ SubCmd(f) = 0 /\ ~Truncated(f) /\ Ccs(f) \in {2, 5}
      /\ r.way = "plain" => Ccs(f) = 2
      /\ r.way # "plain" => f.blk = Window /\ (Bit(f, 4) <=> r.way = "checked")
  <2>1. /\ f \in FullFrame /\ f.mux = r.mux /\ f.b0 # AbortCommand
        /\ SubCmd(f) = 0
        /\ r.way = "plain" => Ccs(f) = 2
        /\ r.way # "plain" => /\ Ccs(f) = 5 /\ f.blk = Window
                              /\ Bit(f, 4) <=> r.way = "checked"
    BY <1>1, InitUploadFrame
  <2> HIDE DEF f
  <2>2. f \in Frame /\ ~Truncated(f)
    <3>1. f \in Frame /\ Len(f.data) = SegLen
      BY <2>1 DEF FullFrame
    <3>2. PICK k \in Nat : k = Len(f.data) /\ k = SegLen
      BY <3>1 DEF SegLen
    <3>3. ~(k < SegLen)
      BY <3>2
    <3> QED
      BY <3>1, <3>2, <3>3 DEF Truncated
  <2> QED
    BY <2>1, <2>2
<1>3. /\ u \in UploadState /\ u.stream = FixedStream(data)
      /\ u.stream.kind = "fixed" /\ u.stream.left = data
      /\ u.stream.size = Len(data)
  <2>1. SettledUpload(ul) \in UploadState
    BY SettledUploadPair DEF Inv, UploadInv, UPaired
  <2>2. FixedStream(data) \in Stream
    BY <1>1 DEF FixedStream, Stream
  <2> QED
    BY <1>1, <1>2, <2>1, <2>2 DEF UploadState, FixedStream
<1> HIDE DEF f, data, v, n, u
<1>4. CASE ~UploadStep(f)
  BY <1>1, <1>2, <1>4, OffRouteUpload DEF Happens
<1>5. CASE Route(f) = "upload_sub_block" /\ UploadStep(f)
  <2>1. Stranded' /\ UNCHANGED <<od, effect>>
    BY <1>1, <1>2, <1>5, UploadMissed
  <2>2. IsSeq(reply')
    BY <1>2, <1>5, UploadReplies DEF Says, Inv
  <2> QED
    BY <2>1, <2>2 DEF Happens
<1>6. CASE InitUpload(f)
  <2>1. ASSUME od' = od, \E code, m : reply' = <<AbortReply(code, m)>>
        PROVE  Happens /\ (Stranded' \/ UploadGranted') /\ IsSeq(reply')
    <3>1. Stranded' /\ UNCHANGED <<od, effect>>
      BY <1>1, <2>1, RefusalMissed
    <3> QED
      BY <2>1, <3>1, ShortIsSeq DEF Happens
  <2>2. CASE StartUpload(u, n, f)
    <3> DEFINE b == [u EXCEPT !.state = "BLOCK", !.check = Bit(f, 4),
                              !.crc = <<>>, !.blk = f.blk]
               g == [u EXCEPT !.state = "SEGMENT", !.toggle = FALSE]
    <3>1. /\ ~MayRaise(u.stream)
          /\ ~CloseFails(u, n, "abort", f)
          /\ ~CloseFails(Advanced(u, ExpLen), n, "release", f)
      <4>1. ExpLen \in Nat
        BY DEF ExpLen
      <4>2. Advanced(u, ExpLen).stream.kind = "fixed"
        BY <1>3, <4>1, AdvancedFields
      <4> QED
        BY <1>3, <4>2 DEF MayRaise, CloseFails
    <3>2. \/ od' = od /\ \E code, m : reply' = <<AbortReply(code, m)>>
          \/ /\ WantsBlock(f, Len(data))
             /\ Answer(b, n, <<UpBlockReply(f.mux, Len(data))>>)
          \/ /\ Len(data) \in 1..ExpLen
             /\ Answer(Ended(u), Closed(u, n),
                       <<UpExpeditedReply(f.mux, Take(data, ExpLen))>>)
          \/ Answer(g, n, <<UpInitReply(f.mux, Len(data))>>)
      BY <1>2, <1>3, <2>2, <3>1
         DEF StartUpload, RefuseUpload, Answer
    <3>3. ASSUME NEW fr, fr.cs \in {"ulInit", "ulExpedited", "ulBlock"},
                 NEW w, NEW k, Answer(w, k, <<fr>>)
          PROVE  /\ Happens /\ IsSeq(reply')
                 /\ effect' = [done |-> TRUE, data |-> data]
                 /\ up' = <<>> /\ down' = <<fr>> /\ cl' = cl /\ ul' = w
      <4>1. od' = od /\ reply' = <<fr>> /\ ul' = w
        BY <3>3 DEF Answer
      <4> QED
        BY <1>1, <3>3, <4>1, ReadNow DEF data
    <3>4. CASE /\ WantsBlock(f, Len(data))
               /\ Answer(b, n, <<UpBlockReply(f.mux, Len(data))>>)
      <4>1. UpBlockReply(f.mux, Len(data)).cs = "ulBlock"
        BY DEF UpBlockReply
      <4>2. r.way \in {"block", "checked"} /\ f.blk = Window
            /\ (Bit(f, 4) <=> r.way = "checked")
        BY <1>1, <1>2, <3>4 DEF WantsBlock, Ways
      <4>3. /\ b.state = "BLOCK" /\ b.stream.kind = "fixed"
            /\ b.stream.left = data /\ b.blk = Window
            /\ b.crc = <<>> /\ (b.check <=> r.way = "checked")
        BY <1>3, <4>2 DEF UploadState
      <4>4. r.way = "block" => Uneven(data)
        <5>1. r.way = "block" => r.mux \in ReadInBlocks
          BY <1>1 DEF ReadInBlocks
        <5> QED
          BY <5>1 DEF ValuesInv, data
      <4> HIDE DEF b
      <4>5. /\ Happens /\ IsSeq(reply')
            /\ effect' = [done |-> TRUE, data |-> data]
            /\ up' = <<>> /\ down' = <<UpBlockReply(r.mux, Len(data))>>
            /\ cl' = cl /\ ul' = b
        BY <1>2, <3>3, <3>4, <4>1
      <4>6. Value' = data /\ Gone' = 0
        BY <1>1, <4>3, <4>5 DEF Value, Gone
      <4>7. Drop(data, 0) = data /\ Take(data, 0) = <<>>
        BY <1>1, NoneDropped
      <4>8. ServingBlocks'
        BY <4>2, <4>3, <4>4, <4>5, <4>6, <4>7
           DEF ServingBlocks, Serving, SegLen
      <4>9. UploadGranted'
        BY <1>1, <4>5, <4>6, <4>8 DEF UploadGranted, Answered
      <4> QED
        BY <4>5, <4>9
    <3>5. CASE /\ Len(data) \in 1..ExpLen
               /\ Answer(Ended(u), Closed(u, n),
                         <<UpExpeditedReply(f.mux, Take(data, ExpLen))>>)
      <4>1. Take(data, ExpLen) = data
        <5>1. Least(ExpLen, Len(data)) = Len(data)
          <6>1. PICK k \in Nat : k = Len(data) /\ k <= ExpLen
            BY <1>1, <3>5
          <6>2. Least(ExpLen, k) = k
            BY <6>1 DEF Least, ExpLen
          <6> QED
            BY <6>1, <6>2
        <5>2. SubSeq(data, 1, Len(data)) = data
          BY <1>1
        <5> QED
          BY <5>1, <5>2 DEF Take
      <4> DEFINE fr == UpExpeditedReply(r.mux, data)
                 w == Ended(u)
                 k == Closed(u, n)
      <4>2. fr.cs = "ulExpedited" /\ Answer(w, k, <<fr>>)
        BY <1>2, <3>5, <4>1 DEF UpExpeditedReply
      <4> HIDE DEF fr, w, k
      <4>3. /\ Happens /\ IsSeq(reply')
            /\ effect' = [done |-> TRUE, data |-> data]
            /\ up' = <<>> /\ down' = <<fr>> /\ cl' = cl
        BY <3>3, <4>2
      <4>4. Value' = data
        BY <4>3 DEF Value
      <4>5. UploadGranted'
        BY <1>1, <3>5, <4>3, <4>4 DEF UploadGranted, Answered, fr
      <4> QED
        BY <4>3, <4>5
    <3>6. CASE Answer(g, n, <<UpInitReply(f.mux, Len(data))>>)
      <4> DEFINE fr == UpInitReply(r.mux, Len(data))
      <4>1. fr.cs = "ulInit" /\ Answer(g, n, <<fr>>)
        BY <1>2, <3>6 DEF UpInitReply
      <4>2. /\ g.state = "SEGMENT" /\ g.stream.kind = "fixed"
            /\ g.stream.left = data /\ g.toggle = FALSE
        BY <1>3 DEF UploadState
      <4> HIDE DEF fr, g
      <4>3. /\ Happens /\ IsSeq(reply')
            /\ effect' = [done |-> TRUE, data |-> data]
            /\ up' = <<>> /\ down' = <<fr>> /\ cl' = cl /\ ul' = g
        BY <3>3, <4>1
      <4>4. Value' = data /\ <<>> \o data = data
        BY <1>1, <4>3, ConcatEmptySeq DEF Value
      <4>5. ServingSegments(FALSE, <<>>)'
        BY <4>2, <4>3, <4>4 DEF ServingSegments, Serving
      <4>6. UploadGranted'
        BY <1>1, <4>3, <4>4, <4>5 DEF UploadGranted, Answered, fr
      <4> QED
        BY <4>3, <4>6
    <3> QED
      BY <2>1, <3>2, <3>4, <3>5, <3>6
  <2> QED
    BY <1>2, <1>6, <2>1, <2>2
       DEF InitUpload, SetUp, CloseFails, GeneralError, RefuseUpload, Answer,
           NoHandlers, u, v, n, data
<1>7. UploadStep(f) => Route(f) = "upload_sub_block" \/ InitUpload(f)
  BY <1>2 DEF UploadStep, Route
<1> QED
  BY <1>4, <1>5, <1>6, <1>7

(* Once the value is read the server only delivers it. *)
LEMMA Delivers ==
    ASSUME NEW f, Sent(f), Serve, effect.done, od' = od, IsSeq(reply')
    PROVE  /\ Happens /\ effect' = effect
           /\ up' = <<>> /\ down' = reply' /\ cl' = cl
<1>1. up' = <<>> /\ down' = reply' /\ cl' = cl /\ effect' = Effect
  BY ServeOne
<1>2. Effect = effect
  BY EffectKept
<1> QED
  BY <1>1, <1>2 DEF Happens

LEMMA StreamType ==
    ASSUME Inv
    PROVE  /\ ul \in UploadState /\ ul.stream \in Stream
           /\ ul.stream.left \in Seq(Byte) /\ Len(ul.stream.left) \in Nat
           /\ ul.crc \in Seq(Byte) /\ ul.blk \in Nat
<1>1. ul \in UploadState
  BY DEF Inv, UploadInv, UPaired
<1>2. ul.stream \in Stream /\ ul.crc \in Seq(Byte) /\ ul.blk \in Nat
  BY <1>1 DEF UploadState
<1>3. ul.stream.left \in Seq(Byte)
  BY <1>2 DEF Stream
<1> QED
  BY <1>1, <1>2, <1>3

LEMMA ServeRead ==
    ASSUME Inv, ClientInv, BusInv, cl.phase = "reading",
           Sent(ReadFrame(cl.toggle)), ServingSegments(cl.toggle, cl.got), Serve
    PROVE  Happens /\ (Stranded' \/ Reading') /\ IsSeq(reply')
<1> DEFINE f == ReadFrame(cl.toggle)
           u == [ul EXCEPT !.toggle = ~@]
           rest == Advanced(u, SegLen)
           chunk == Take(ul.stream.left, SegLen)
           last == rest.stream.left = <<>>
           fr == UpSegmentReply(cl.toggle, last, chunk)
           left == ul.stream.left
<1>1. /\ cl.phase # "idle" /\ cl.want.op = "upload" /\ cl.toggle \in BOOLEAN
      /\ cl.got \in Seq(Byte) /\ Sent(f)
      /\ ul.state = "SEGMENT" /\ ul.stream.kind = "fixed" /\ effect.done
      /\ ul.toggle = cl.toggle /\ cl.got \o left = Value
  BY DEF ClientInv, ClientState, ServingSegments, Serving
<1>2. /\ f \in Frame /\ f.b0 # AbortCommand /\ Ccs(f) = 3
      /\ Toggle(f) = cl.toggle
  <2>1. f \in FullFrame /\ f.b0 # AbortCommand /\ Ccs(f) = 3
        /\ Toggle(f) = cl.toggle
    BY <1>1, ReadFrameRead
  <2> QED
    BY <2>1 DEF FullFrame
<1>3. left \in Seq(Byte) /\ ul \in UploadState
  BY StreamType
<1>4. /\ rest.state = "SEGMENT" /\ rest.toggle = ~cl.toggle
      /\ rest \in UploadState /\ rest.stream.kind = "fixed" /\ rest.stream.left = Drop(left, SegLen)
  <2>1. u \in UploadState /\ u.state = "SEGMENT" /\ u.toggle = ~cl.toggle
        /\ u.stream = ul.stream
    BY <1>1, <1>3 DEF UploadState
  <2>2. SegLen \in Nat
    BY DEF SegLen
  <2> HIDE DEF u
  <2> QED
    BY SMTT(30), <1>1, <2>1, <2>2, AdvancedFields
<1>5. /\ chunk \in Seq(Byte) /\ Len(chunk) <= SegLen
      /\ Drop(left, SegLen) \in Seq(Byte)
      /\ chunk \o Drop(left, SegLen) = left
  <2>1. SegLen \in Nat /\ Len(left) \in Nat
    BY <1>3 DEF SegLen
  <2>2. chunk \in Seq(Byte) /\ Len(chunk) = Least(SegLen, Len(left))
    BY <1>3, <2>1, TakeBytes
  <2>3. Least(SegLen, Len(left)) <= SegLen
    BY <2>1 DEF Least
  <2>4. Drop(left, SegLen) \in Seq(Byte) /\ chunk \o Drop(left, SegLen) = left
    BY <1>3, <2>1, DropsBytes, TakeAndDrop
  <2> HIDE DEF chunk
  <2> QED
    BY <2>2, <2>3, <2>4
<1> HIDE DEF f, u, rest, chunk, last, fr, left
<1>6. CASE ~UploadStep(f)
  BY <1>1, <1>2, <1>6, OffRouteUpload DEF Happens
<1>7. CASE UploadStep(f)
  <2>1. UploadSegment(f)
    BY <1>1, <1>2, <1>7 DEF UploadStep, Route
  <2>2. /\ ~MayRaise(ul.stream)
        /\ ~CloseFails([rest EXCEPT !.state = "NONE"], source, "release", f)
    BY <1>1, <1>4 DEF MayRaise, CloseFails, UploadState
  <2>3. Answer(IF last THEN Ended(rest) ELSE rest,
               IF last THEN Closed(rest, source) ELSE source, <<fr>>)
    BY <1>1, <1>2, <2>1, <2>2
       DEF UploadSegment, u, rest, chunk, last, fr
  <2>4. /\ ul' = (IF last THEN Ended(rest) ELSE rest)
        /\ reply' = <<fr>> /\ od' = od
    BY <2>3 DEF Answer
  <2>5. IsSeq(reply')
    BY <2>4, ShortIsSeq
  <2>6. /\ Happens /\ effect' = effect
        /\ up' = <<>> /\ down' = <<fr>> /\ cl' = cl
    BY <1>1, <2>4, <2>5, Delivers
  <2>7. (cl.got \o chunk) \o Drop(left, SegLen) = Value
    BY ZenonT(30), <1>1, <1>5, JoinedThrice
  <2>8. last => cl.got \o chunk = Value
    <3>1. cl.got \o chunk \in Seq(Byte)
      BY <1>1, <1>5
    <3>2. last => Drop(left, SegLen) = <<>>
      BY <1>4 DEF last
    <3> QED
      BY <2>7, <3>1, <3>2, ConcatEmptySeq
  <2>9. PICK c \in Seq(Byte), l \in BOOLEAN : c = chunk /\ l = last
    BY <1>5 DEF last
  <2>10. /\ Len(c) <= SegLen /\ down' = <<UpSegmentReply(cl.toggle, l, c)>>
         /\ l => cl.got \o c = Value
         /\ ~l => /\ ul'.state = "SEGMENT" /\ ul'.stream.kind = "fixed"
                  /\ ul'.toggle = ~cl.toggle
                  /\ (cl.got \o c) \o ul'.stream.left = Value
    BY <1>4, <1>5, <2>4, <2>6, <2>7, <2>8, <2>9 DEF fr
  <2>11. Value' = Value /\ cl' = cl /\ effect'.done
    BY <1>1, <2>6 DEF Value
  <2>12. Answered(UpSegmentReply(cl.toggle, l, c))'
    BY <2>6, <2>10, <2>11 DEF Answered
  <2>13. Reading'
    <3>1. IF l THEN cl'.got \o c = Value'
          ELSE ServingSegments(~cl.toggle, cl.got \o c)'
      BY <2>10, <2>11 DEF ServingSegments, Serving
    <3> QED
      BY <2>10, <2>11, <2>12, <3>1 DEF Reading
  <2> QED
    BY <2>5, <2>6, <2>13
<1> QED
  BY <1>6, <1>7

(* The sequence numbers of a sub-block within the window can be encoded.   *)
LEMMA SubBlockLength ==
    ASSUME NEW left \in Seq(Byte), NEW blk \in 0..MaxSeq
    PROVE  ~Unencodable(SubBlock(left, blk))
<1> DEFINE data  == Take(left, blk * SegLen)
           count == (Len(data) + SegLen - 1) \div SegLen
           sent  == IF count = 0 THEN 1 ELSE count
           last  == Len(left) <= blk * SegLen
           piece(i) == SubSeq(data, SegLen * (i - 1) + 1,
                              Least(SegLen * i, Len(data)))
           frames == [i \in 1..sent |->
                        SubBlockFrame(i, last /\ i = sent, piece(i))]
<1>1. MaxSeq \in Nat /\ MaxSeq >= 1 /\ blk * 7 \in Nat /\ Len(left) \in Nat
  BY MaxSeqAssumption, LenProperties
<1>2. Len(data) \in Nat /\ Len(data) <= blk * 7
  BY <1>1, TakeType DEF Least, SegLen
<1>3. SubBlock(left, blk) = frames
  BY DEF SubBlock
<1>4. sent \in Nat /\ sent <= MaxSeq
  <2> HIDE DEF data
  <2> QED
    BY <1>1, <1>2 DEF SegLen
<1> HIDE DEF sent, last, piece
<1>5. Len(frames) = sent
  BY <1>4
<1> HIDE DEF frames
<1> QED
  BY <1>1, <1>3, <1>4, <1>5 DEF Unencodable

LEMMA SendsFrames ==
    ASSUME NEW u, NEW left \in Seq(Byte), u.stream.left = left,
           u.stream.kind = "fixed", u.blk = Window, NEW f, SendSubBlock(u, f)
    PROVE  ul' = u /\ reply' = SubBlock(left, Window) /\ od' = od
<1>1. Window \in 0..MaxSeq
  BY WindowAssumption, MaxSeqAssumption
<1>2. ~Unencodable(SubBlock(left, Window))
  BY <1>1, SubBlockLength
<1> QED
  BY <1>2 DEF SendSubBlock, Answer, MayRaise

(* What is known of a block upload, in numbers. *)
LEMMA ServedBytes ==
    ASSUME Inv, BusInv, ServingBlocks
    PROVE  /\ Value \in Seq(Byte) /\ Len(Value) \in Nat
           /\ ul \in UploadState /\ ul.stream.left \in Seq(Byte)
           /\ Len(ul.stream.left) \in Nat
           /\ Gone \in 0..Len(Value) /\ Gone % SegLen = 0
           /\ Len(ul.stream.left) = Len(Value) - Gone
           /\ ul.state = "BLOCK" /\ ul.stream.kind = "fixed" /\ effect.done
<1>1. Value \in Seq(Byte) /\ Len(Value) \in Nat
  BY DEF BusInv, Value
<1>2. ul \in UploadState /\ ul.stream.left \in Seq(Byte)
      /\ Len(ul.stream.left) \in Nat
  BY StreamType
<1>3. Gone \in 0..Len(Value) /\ Len(ul.stream.left) = Len(Value) - Gone
  BY <1>1, <1>2 DEF ServingBlocks, Gone
<1> QED
  BY <1>1, <1>2, <1>3 DEF ServingBlocks, Serving

LEMMA SubBlockStarts ==
    ASSUME Inv, ClientInv, BusInv, cl.phase = "receiving", ServingBlocks,
           cl.count = 0, NEW g \in 0..Len(Value), g % SegLen = 0,
           cl.got = Padded(Value, g), NEW f, Sent(f), Serve,
           NEW u, u.stream.kind = "fixed", u.stream.left = Drop(Value, g),
           u.state = "BLOCK", u.blk = Window,
           cl.want.way = "checked" => u.check /\ u.crc = Take(Value, g),
           g < Len(Value) \/ Value = <<>>, SendSubBlock(u, f)
    PROVE  Happens /\ Receiving' /\ IsSeq(reply')
<1> DEFINE left == Drop(Value, g)
           frames == SubBlock(left, Window)
<1>1. Value \in Seq(Byte) /\ Len(Value) \in Nat /\ effect.done
  BY ServedBytes
<1>2. left \in Seq(Byte) /\ Len(left) = Len(Value) - g /\ g \in Nat
  <2>1. g \in Nat /\ g <= Len(Value)
    BY <1>1
  <2> QED
    BY <1>1, <2>1, DropsBytes
<1>3. ul' = u /\ reply' = frames /\ od' = od
  <2> HIDE DEF left
  <2>1. left \in Seq(Byte) /\ u.stream.left = left
    BY <1>2 DEF left
  <2> QED
    BY <2>1, SendsFrames
<1>4. IsSeq(frames) /\ Len(frames) \in Nat /\ Len(frames) >= 1
  <2>1. Window \in Nat
    BY WindowAssumption, MaxSeqAssumption
  <2> HIDE DEF left
  <2> QED
    BY <1>2, <2>1, SubBlockSegments DEF Says
<1>5. Happens /\ effect' = effect /\ up' = <<>> /\ down' = frames /\ cl' = cl
  BY <1>1, <1>3, <1>4, Delivers
<1>6. Value' = Value /\ ul'.stream.left = left
  BY <1>3, <1>5 DEF Value
<1>7. Gone' = g
  <2>1. Gone' = Len(Value) - Len(left)
    BY <1>6 DEF Gone
  <2> QED
    BY <1>1, <1>2, <2>1
<1>8. ServingBlocks'
  BY <1>1, <1>2, <1>3, <1>5, <1>6, <1>7 DEF ServingBlocks, Serving
<1>9. left = <<>> => Value = <<>>
  <2>1. left = <<>> => Len(left) = 0
    OBVIOUS
  <2> QED
    BY <1>1, <1>2, <2>1
<1>10. SubBlockUnderWay(0)'
  <2> DEFINE sent == SubBlock(ul.stream.left, Window)'
  <2>1. sent = frames
    BY <1>6
  <2>2. \A i \in 1..Len(frames) : frames[i] = frames[0 + i]
    OBVIOUS
  <2>3. g + 0 * SegLen = g
    BY <1>2 DEF SegLen
  <2> HIDE DEF frames
  <2> QED
    BY <1>4, <1>5, <1>6, <1>7, <1>9, <2>1, <2>2, <2>3 DEF SubBlockUnderWay
<1>11. Receiving'
  BY <1>5, <1>8, <1>10 DEF Receiving
<1> QED
  BY <1>3, <1>4, <1>5, <1>11

LEMMA AcknowledgedFields ==
    ASSUME Inv, BusInv, ServingBlocks, NEW n \in Nat
    PROVE  LET f == AckFrame(n)
               u == Acknowledged(f)
               g == Gone + n * SegLen
           IN  /\ u \in UploadState
               /\ u.state = "BLOCK" /\ u.stream.kind = "fixed"
               /\ u.blk = Window /\ u.stream.left = Drop(Value, g)
               /\ cl.want.way = "checked" => u.check /\ u.crc = Take(Value, g)
               /\ g \in Nat /\ g % SegLen = 0
<1> DEFINE f == AckFrame(n)
           k == n * SegLen
           g == Gone + k
           a == Advanced(ul, k)
           left == ul.stream.left
           data == Take(left, k)
           u == Acknowledged(f)
<1>1. /\ Value \in Seq(Byte) /\ ul \in UploadState /\ left \in Seq(Byte)
      /\ Gone \in 0..Len(Value) /\ Gone \in Nat /\ Gone % SegLen = 0
      /\ Len(Value) \in Nat
      /\ ul.state = "BLOCK" /\ ul.stream.kind = "fixed"
      /\ left = Drop(Value, Gone)
  BY ServedBytes DEF ServingBlocks
<1>2. k \in Nat /\ g \in Nat /\ g % SegLen = 0
  BY <1>1 DEF SegLen
<1>3. f.ack = n /\ f.blk = Window /\ Window \in Nat
  BY ShortFrames, WindowAssumption, MaxSeqAssumption
<1>4. data \in Seq(Byte)
  <2> HIDE DEF k, left
  <2> QED
    BY <1>1, <1>2, TakeBytes
<1> HIDE DEF k, g, left, data, f
<1>5. /\ a \in UploadState /\ a.state = "BLOCK" /\ a.check = ul.check
      /\ a.crc = ul.crc /\ a.stream.kind = "fixed"
      /\ a.stream.left = Drop(left, k)
  BY <1>1, <1>2, AdvancedFields DEF left
<1>6. u = [a EXCEPT !.blk = Window,
                    !.crc = IF ul.check THEN @ \o data ELSE @]
  BY <1>3 DEF Acknowledged, k, data, left
<1> HIDE DEF a, u
<1>7. ul.crc \o data \in Seq(Byte) /\ ul.crc \in Seq(Byte)
  BY <1>1, <1>4 DEF UploadState
<1>8. /\ u \in UploadState /\ u.state = "BLOCK" /\ u.stream = a.stream
      /\ u.blk = Window /\ u.check = ul.check
      /\ ul.check => u.crc = ul.crc \o data
  BY <1>3, <1>5, <1>6, <1>7 DEF UploadState
<1>9. Drop(left, k) = Drop(Value, g)
  BY <1>1, <1>2, DropTwice DEF g
<1>10. cl.want.way = "checked" => ul.check /\ ul.crc = Take(Value, Gone)
  BY DEF ServingBlocks
<1>11. Take(Value, Gone) \o data = Take(Value, g)
  BY <1>1, <1>2, TakeGrows DEF g, data
<1> QED
  BY <1>2, <1>5, <1>8, <1>9, <1>10, <1>11 DEF f, g, k, u

LEMMA ServeStart ==
    ASSUME Inv, ClientInv, BusInv, cl.phase = "receiving", ServingBlocks,
           Sent(StartFrame), cl.count = 0, cl.got = <<>>, Gone = 0, Serve
    PROVE  Happens /\ (Stranded' \/ Receiving') /\ IsSeq(reply')
<1> DEFINE f == StartFrame
<1>1. /\ cl.phase # "idle" /\ cl.want.op = "upload" /\ Sent(f)
      /\ ul.state = "BLOCK" /\ ul.stream.kind = "fixed" /\ effect.done
      /\ ul.stream.left = Drop(Value, 0) /\ ul.blk = Window
      /\ cl.want.way = "checked" => ul.check /\ ul.crc = Take(Value, 0)
      /\ Value \in Seq(Byte) /\ Len(Value) \in Nat
  BY ServedBytes DEF ClientInv, ServingBlocks, Serving
<1>2. f \in Frame /\ f.b0 # AbortCommand /\ Ccs(f) = 5 /\ SubCmd(f) = 3
  <2>1. f \in FullFrame /\ f.b0 = 163
    BY ShortFrames
  <2> HIDE DEF f
  <2> QED
    BY <2>1 DEF FullFrame, AbortCommand, Ccs, SubCmd
<1>3. cl.got = Padded(Value, 0) /\ 0 \in 0..Len(Value) /\ 0 % SegLen = 0
      /\ (0 < Len(Value) \/ Value = <<>>)
  <2>1. Padded(Value, 0) = <<>>
    BY <1>1, PaddedShort
  <2>2. Len(Value) = 0 => Value = <<>>
    BY <1>1
  <2> QED
    BY <1>1, <2>1, <2>2 DEF SegLen
<1> HIDE DEF f
<1>4. CASE ~UploadStep(f)
  BY <1>1, <1>2, <1>4, OffRouteUpload DEF Happens
<1>5. CASE UploadStep(f)
  <2>1. UploadSubBlock(f)
    BY <1>1, <1>2, <1>5 DEF UploadStep, Route
  <2>2. SendSubBlock(ul, f)
    BY <1>1, <1>2, <2>1 DEF UploadSubBlock
  <2> DEFINE g == 0
  <2>3. /\ ul.stream.left = Drop(Value, g) /\ cl.got = Padded(Value, g)
        /\ cl.want.way = "checked" => ul.check /\ ul.crc = Take(Value, g)
        /\ g \in 0..Len(Value) /\ g % SegLen = 0
        /\ (g < Len(Value) \/ Value = <<>>)
    BY <1>1, <1>3
  <2> HIDE DEF g
  <2> QED
    BY <1>1, <2>2, <2>3, SubBlockStarts
<1> QED
  BY <1>4, <1>5

LEMMA ServeAck ==
    ASSUME Inv, ClientInv, BusInv, cl.phase = "receiving", ServingBlocks,
           NEW n \in Nat, AckSent(n), n * SegLen < Len(ul.stream.left), Serve
    PROVE  Happens /\ (Stranded' \/ Receiving') /\ IsSeq(reply')
<1> DEFINE f == AckFrame(n)
           u == Acknowledged(f)
           g == Gone + n * SegLen
<1>1. /\ cl.phase # "idle" /\ cl.want.op = "upload" /\ Sent(f)
      /\ ul.state = "BLOCK" /\ ul.stream.kind = "fixed" /\ effect.done
      /\ Value \in Seq(Byte) /\ Len(Value) \in Nat /\ Gone \in 0..Len(Value)
      /\ Len(ul.stream.left) = Len(Value) - Gone
      /\ cl.count = 0 /\ cl.got = Padded(Value, g)
  BY ServedBytes DEF ClientInv, AckSent
<1>2. f \in Frame /\ f.b0 # AbortCommand /\ Ccs(f) = 5 /\ SubCmd(f) = 2
  <2>1. f \in FullFrame /\ f.b0 = 162
    BY ShortFrames
  <2> HIDE DEF f
  <2> QED
    BY <2>1 DEF FullFrame, AbortCommand, Ccs, SubCmd
<1>3. /\ u \in UploadState
      /\ u.state = "BLOCK" /\ u.stream.kind = "fixed"
      /\ u.blk = Window /\ u.stream.left = Drop(Value, g)
      /\ cl.want.way = "checked" => u.check /\ u.crc = Take(Value, g)
      /\ g \in Nat /\ g % SegLen = 0
  BY AcknowledgedFields
<1>4. g \in 0..Len(Value) /\ g < Len(Value)
  BY <1>1, <1>3 DEF SegLen
<1> HIDE DEF f, u, g
<1>5. u.stream.left # <<>>
  <2>1. Len(Drop(Value, g)) = Len(Value) - g
    BY <1>1, <1>3, <1>4, DropsBytes
  <2>2. Len(Drop(Value, g)) # 0
    BY <1>1, <1>3, <1>4, <2>1
  <2> QED
    BY <1>3, <2>2
<1>6. CASE ~UploadStep(f)
  BY <1>1, <1>2, <1>6, OffRouteUpload DEF Happens
<1>7. CASE UploadStep(f)
  <2>1. UploadSubBlock(f)
    BY <1>1, <1>2, <1>7 DEF UploadStep, Route
  <2>2. SendSubBlock(u, f)
    BY <1>1, <1>2, <1>5, <2>1 DEF UploadSubBlock, MayRaise, u
  <2> QED
    BY <1>1, <1>3, <1>4, <2>2, SubBlockStarts
<1> QED
  BY <1>6, <1>7

(* The end frame tells how much of what the client got is padding, or lets *)
(* it find out that it did not get the value.                              *)
LEMMA LastTrimmed ==
    ASSUME NEW s \in Seq(Byte), Uneven(s), NEW o \in 0..Len(s),
           o % SegLen = 0, NEW n \in Nat, Len(s) - o <= n * SegLen,
           n * SegLen < (Len(s) - o) + SegLen \/ (s = <<>> /\ n = 1)
    PROVE  DropLast(Padded(s, o + n * SegLen),
                    SegLen - ((Len(s) - o) % SegLen)) = s
<1> DEFINE l == Len(s)
           g == o + n * SegLen
           z == (l - o) % SegLen
<1>1. l \in Nat /\ g \in Nat /\ l <= g /\ o \in Nat
  BY DEF SegLen
<1>2. CASE s # <<>>
  <2>1. l % SegLen # 0
    BY <1>2 DEF Uneven
  <2>2. SegLen - z = g - l
    <3>1. n * SegLen < (l - o) + SegLen
      BY <1>2
    <3> HIDE DEF l
    <3> QED
      BY <1>1, <2>1, <3>1 DEF SegLen
  <2> HIDE DEF g
  <2>3. DropLast(Padded(s, g), g - l) = s
    BY <1>1, PaddingCutOff
  <2> QED
    BY <2>2, <2>3 DEF g
<1>3. CASE s = <<>>
  <2>1. l = 0 /\ o = 0 /\ z = 0
    BY <1>1, <1>3 DEF SegLen
  <2>2. n = 0 \/ n = 1
    BY <1>3, <2>1 DEF SegLen
  <2>3. g = 0 \/ g = SegLen
    BY <2>1, <2>2 DEF SegLen
  <2>4. CASE g = SegLen
    <3>1. SegLen - z = g - l
      BY <2>1, <2>4 DEF SegLen
    <3> HIDE DEF g
    <3>2. DropLast(Padded(s, g), g - l) = s
      BY <1>1, PaddingCutOff
    <3> QED
      BY <3>1, <3>2 DEF g
  <2>5. CASE g = 0
    <3>1. Padded(s, g) = <<>>
      <4>1. Padded(s, 0) = <<>>
        BY PaddedShort
      <4> QED
        BY <2>5, <4>1
    <3>2. DropLast(<<>>, SegLen - z) = <<>>
      <4>1. Len(<<>>) = 0
        OBVIOUS
      <4>2. Least(SegLen - z, 0) = 0
        BY <2>1 DEF Least, SegLen
      <4>3. Least(0, 0) = 0 /\ SubSeq(<<>>, 1, 0) = <<>>
        BY DEF Least
      <4> QED
        BY <4>1, <4>2, <4>3 DEF DropLast, Take
    <3> QED
      BY <1>3, <3>1, <3>2
  <2> QED
    BY <2>3, <2>4, <2>5
<1> QED
  BY <1>2, <1>3

LEMMA ServeLastAck ==
    ASSUME Inv, ClientInv, BusInv, cl.phase = "upEnd",
           NEW n \in Nat, LastAckSent(n), Serve
    PROVE  Happens /\ (Stranded' \/ UpEnding') /\ IsSeq(reply')
<1> DEFINE f == AckFrame(n)
           u == Acknowledged(f)
           g == Gone + n * SegLen
           left == ul.stream.left
           size == Least(Len(left), f.ack * SegLen)
           fr == UpBlockEndReply(size, u.crc)
<1>1. /\ cl.phase # "idle" /\ cl.want.op = "upload" /\ Sent(f)
      /\ cl.want.way \in {"block", "checked"} /\ ServingBlocks
      /\ ul.state = "BLOCK" /\ ul.stream.kind = "fixed" /\ effect.done
      /\ Value \in Seq(Byte) /\ Len(Value) \in Nat /\ Gone \in 0..Len(Value)
      /\ Gone % SegLen = 0 /\ Len(left) = Len(Value) - Gone
      /\ cl.got = Padded(Value, g)
      /\ Len(left) <= n * SegLen /\ Len(left) \in Nat
      /\ n * SegLen < Len(left) + SegLen \/ (Value = <<>> /\ n = 1)
  BY ServedBytes DEF ClientInv, AckSent, LastAckSent, ServingBlocks
<1>2. f \in Frame /\ f.b0 # AbortCommand /\ Ccs(f) = 5 /\ SubCmd(f) = 2
      /\ f.ack = n
  <2>1. f \in FullFrame /\ f.b0 = 162 /\ f.ack = n
    BY ShortFrames
  <2> HIDE DEF f
  <2> QED
    BY <2>1 DEF FullFrame, AbortCommand, Ccs, SubCmd
<1>3. /\ u.stream.kind = "fixed" /\ u.stream.left = Drop(Value, g)
      /\ cl.want.way = "checked" => u.crc = Take(Value, g)
      /\ g \in Nat /\ u \in UploadState
  BY <1>1, AcknowledgedFields
<1>4. g >= Len(Value)
  BY <1>1, <1>3 DEF SegLen
<1>5. size = Len(Value) - Gone
  BY <1>1, <1>2 DEF Least, SegLen
<1> HIDE DEF f, u, g, size
<1>6. u.stream.left = <<>> /\ (cl.want.way = "checked" => u.crc = Value)
  <2>1. Drop(Value, g) \in Seq(Byte) /\ Len(Drop(Value, g)) = 0
    BY <1>1, <1>3, <1>4, DropsBytes
  <2>2. Drop(Value, g) = <<>>
    BY <2>1
  <2>3. Take(Value, g) \in Seq(Byte) /\ Take(Value, g) \o Drop(Value, g) = Value
    BY <1>1, <1>3, TakeBytes, TakeAndDrop
  <2>4. Take(Value, g) = Value
    BY <2>2, <2>3, ConcatEmptySeq
  <2> QED
    BY <1>3, <2>2, <2>4
<1>7. CASE ~UploadStep(f)
  BY <1>1, <1>2, <1>7, OffRouteUpload DEF Happens
<1>8. CASE UploadStep(f)
  <2>1. UploadSubBlock(f)
    BY <1>1, <1>2, <1>8 DEF UploadStep, Route
  <2>2. Answer([u EXCEPT !.state = "BLOCK_END"], source, <<fr>>)
    BY <1>1, <1>2, <1>6, <2>1
       DEF UploadSubBlock, MayRaise, u, size
  <2>3. reply' = <<fr>> /\ od' = od
    BY <2>2 DEF Answer
  <2>4. IsSeq(reply')
    BY <2>3, ShortIsSeq
  <2>5. /\ Happens /\ effect' = effect
        /\ up' = <<>> /\ down' = <<fr>> /\ cl' = cl
    BY <1>1, <2>3, <2>4, Delivers
  <2>6. PICK z, crc : z = size /\ crc = u.crc
    OBVIOUS
  <2>7. down' = <<UpBlockEndReply(z, crc)>>
    BY <2>5, <2>6
  <2>8. cl.want.way = "checked" => crc = Value
    BY <1>6, <2>6
  <2>9. cl.want.way = "block" =>
          DropLast(cl.got, SegLen - (z % SegLen)) = Value
    <3>1. cl.want.way = "block" => Uneven(Value)
      BY <1>1 DEF ServingBlocks
    <3>2. Uneven(Value) =>
            DropLast(Padded(Value, Gone + n * SegLen),
                     SegLen - ((Len(Value) - Gone) % SegLen)) = Value
      BY <1>1, LastTrimmed
    <3>3. cl.got = Padded(Value, Gone + n * SegLen) /\ z = Len(Value) - Gone
      BY <1>1, <1>5, <2>6 DEF g
    <3> QED
      BY <3>1, <3>2, <3>3
  <2>10. Value' = Value /\ cl' = cl /\ effect'.done /\ cl.phase = "upEnd"
    BY <1>1, <2>5 DEF Value
  <2>11. Answered(UpBlockEndReply(z, crc))'
    BY <2>5, <2>7 DEF Answered
  <2>12. UpEnding'
    BY <1>1, <2>8, <2>9, <2>10, <2>11 DEF UpEnding
  <2> QED
    BY <2>4, <2>5, <2>12
<1> QED
  BY <1>7, <1>8

-----------------------------------------------------------------------------
(* Whatever the server is sent *)

LEMMA ServeCourse ==
    ASSUME NoHandlers, SegmentsNameNothing, Inv, ClientInv, BusInv, ValuesInv,
           Course, Serve
    PROVE  Happens /\ Course' /\ IsSeq(reply')
<1>1. up # <<>> /\ cl' = cl
  BY DEF Serve, clientVars
<1>2. CASE Idle
  BY <1>2, ServeIdle DEF Happens, Course
<1>3. CASE Stranded
  BY <1>3, ServeStranded DEF Happens, Course
<1>4. CASE Asked
  <2>1. cl.want.op \in {"download", "upload"}
    BY <1>4, WantType DEF Asked
  <2>2. CASE cl.want.op = "download"
    BY <1>4, <2>2, ServeAskedDownload DEF Course
  <2>3. CASE cl.want.op = "upload"
    BY <1>4, <2>3, ServeAskedUpload DEF Course
  <2> QED
    BY <2>1, <2>2, <2>3
<1>5. ~DownloadGranted
  BY <1>1 DEF DownloadGranted, Expedited, SegmentedBegun, BlockBegun, Answered
<1>6. CASE Segmenting
  <2>1. cl.phase = "segment" /\ SegmentSent
    BY <1>1, <1>6 DEF Segmenting, SegmentTaken, Answered
  <2>2. Happens /\ (Stranded' \/ SegmentTaken') /\ IsSeq(reply')
    BY <2>1, ServeSegment
  <2> QED
    BY <1>1, <2>1, <2>2 DEF Course, Segmenting
<1>7. CASE SubBlocks
  <2>1. \E j \in 0..(cl.count - 1) : SubBlockSent(j)
    BY <1>1, <1>7 DEF SubBlocks, SubBlockTaken, Answered
  <2> QED
    BY <1>7, <2>1, ServeSubBlock DEF Course
<1>8. CASE Ending
  <2>1. cl.phase = "end" /\ EndSent
    BY <1>1, <1>8 DEF Ending, Answered
  <2> QED
    BY <2>1, ServeEnd DEF Course
<1>9. ~UploadGranted
  BY <1>1 DEF UploadGranted, Answered
<1>10. CASE Reading
  <2>1. /\ cl.phase = "reading" /\ Sent(ReadFrame(cl.toggle))
        /\ ServingSegments(cl.toggle, cl.got)
    BY <1>1, <1>10 DEF Reading, Answered
  <2> QED
    BY <2>1, ServeRead DEF Course
<1>11. CASE Receiving
  <2>1. cl.phase = "receiving" /\ ServingBlocks
    BY <1>11 DEF Receiving
  <2>2. \/ Sent(StartFrame) /\ cl.count = 0 /\ cl.got = <<>> /\ Gone = 0
        \/ \E n \in Nat : AckSent(n) /\ n * SegLen < Len(ul.stream.left)
    BY <1>1, <1>11 DEF Receiving, SubBlockUnderWay
  <2> QED
    BY <2>1, <2>2, ServeStart, ServeAck DEF Course
<1>12. CASE UpEnding
  <2>1. cl.phase = "upEnd" /\ \E n \in Nat : LastAckSent(n)
    BY <1>1, <1>12 DEF UpEnding, Answered
  <2> QED
    BY <2>1, ServeLastAck DEF Course
<1> QED
  BY <1>2, <1>3, <1>4, <1>5, <1>6, <1>7, <1>8, <1>9, <1>10, <1>11, <1>12
     DEF Course

LEMMA HappensTyped ==
    ASSUME UnevenValues, Inv, ClientInv, BusInv, ValuesInv, Happens
    PROVE  /\ effect' \in [done : BOOLEAN, data : Seq(Byte)]
           /\ ValuesInv'
<1>1. od \in [Mux -> Seq(Byte)]
  BY DEF Inv, DownloadInv
<1>2. CASE UNCHANGED <<od, effect>>
  BY <1>2 DEF BusInv, ValuesInv
<1>3. CASE /\ cl.phase # "idle" /\ cl.want.op = "download"
           /\ od' = [od EXCEPT ![cl.want.mux] = Data]
           /\ effect' = [done |-> TRUE, data |-> Data]
  <2>1. cl.want \in Request /\ cl.want.mux \in Mux /\ Data \in Seq(Byte)
        /\ Data = cl.want.data
    BY <1>3, WantType DEF Data
  <2>2. ASSUME NEW m \in ReadInBlocks
        PROVE  Uneven(od'[m])
    <3>1. m \in Mux
      BY RequestType DEF ReadInBlocks
    <3>2. CASE m = cl.want.mux
      <4>1. Uneven(Data)
        BY <1>3, <2>1, <3>2 DEF UnevenValues
      <4> QED
        BY <1>1, <1>3, <2>1, <3>2, <4>1
    <3>3. CASE m # cl.want.mux
      BY <1>1, <1>3, <3>1, <3>3 DEF ValuesInv
    <3> QED
      BY <3>2, <3>3
  <2> QED
    BY <1>3, <2>1, <2>2 DEF ValuesInv
<1>4. CASE /\ cl.phase # "idle" /\ od' = od
           /\ effect' = [done |-> TRUE, data |-> od[cl.want.mux]]
  <2>1. od[cl.want.mux] \in Seq(Byte)
    BY <1>1, <1>4, WantType
  <2> QED
    BY <1>4, <2>1 DEF ValuesInv
<1> QED
  BY <1>2, <1>3, <1>4 DEF Happens

LEMMA ServeInv ==
    ASSUME NoHandlers, SegmentsNameNothing, UnevenValues, SessionInv, Serve
    PROVE  SessionInv' /\ Happens
<1>1. Happens /\ Course' /\ IsSeq(reply')
  BY ServeCourse DEF SessionInv
<1>2. effect' \in [done : BOOLEAN, data : Seq(Byte)] /\ ValuesInv'
  BY <1>1, HappensTyped DEF SessionInv
<1>3. /\ up \in Seq(FullFrame) /\ up # <<>> /\ IsSeq(down)
      /\ HandleMsg(Head(up)) /\ up' = Tail(up) /\ down' = down \o reply'
      /\ cl' = cl
  BY DEF Serve, SessionInv, BusInv, clientVars
<1>4. Head(up) \in FullFrame /\ Tail(up) \in Seq(FullFrame)
  BY <1>3
<1>5. Inv'
  <2>1. Head(up) \in Frame /\ Len(Head(up).data) = SegLen
    BY <1>4 DEF FullFrame
  <2>2. ~Truncated(Head(up))
    <3>1. PICK k \in Nat : k = Len(Head(up).data) /\ k = SegLen
      BY <2>1 DEF SegLen
    <3>2. ~(k < SegLen)
      BY <3>1
    <3> QED
      BY <3>1, <3>2 DEF Truncated
  <2> QED
    BY <1>3, <2>1, <2>2, HandleMsgInv DEF SessionInv
<1>6. IsSeq(down')
  BY <1>1, <1>3, JoinedSeq
<1>7. BusInv'
  BY <1>2, <1>3, <1>4, <1>6 DEF BusInv
<1>8. ClientInv'
  BY <1>3 DEF SessionInv, ClientInv
<1> QED
  BY <1>1, <1>2, <1>5, <1>7, <1>8 DEF SessionInv

-----------------------------------------------------------------------------
(* Steps of the client *)

(* What the client is told: nothing yet, that it failed, or that it        *)
(* succeeded with the value for which the request happened.                *)
Tells ==
    \/ /\ cl'.phase = "idle" <=> cl.phase = "idle"
       /\ cl'.want = cl.want /\ UNCHANGED <<od, effect, outcome>>
    \/ /\ cl.phase # "idle" /\ cl'.phase = "idle" /\ effect' = NotYet
       /\ od' = od
       /\ \/ outcome' = Failure
          \/ effect.done /\ outcome' = [ok |-> TRUE, data |-> Value]

LEMMA NotYetTyped ==
    NotYet \in [done : BOOLEAN, data : Seq(Byte)]
<1>1. <<>> \in Seq(Byte)
  BY EmptySeq
<1> QED
  BY <1>1 DEF NotYet

LEMMA OneFrame ==
    ASSUME NEW f \in FullFrame
    PROVE  /\ <<f>> \in Seq(FullFrame) /\ Len(<<f>>) = 1 /\ <<f>>[1] = f
           /\ <<>> \in Seq(FullFrame)
  BY ShortIsSeq, EmptySeq

LEMMA Concludes ==
    ASSUME SessionInv, UNCHANGED vars, IsSeq(down'),
           NEW result, NEW want \in Request \cup {Nothing},
           NEW frames \in Seq(FullFrame), Conclude(result, want, frames),
           \A i \in 1..Len(frames) : Quiet(frames[i]),
           \A i \in 1..Len(up) : dl.state = "NONE" /\ Stray(up[i])
    PROVE  SessionInv' /\ cl'.phase = "idle" /\ effect' = NotYet
           /\ outcome' = result /\ od' = od
<1>1. <<>> \in Seq(Byte) /\ 0 \in Nat /\ "idle" \in Phases
  BY EmptySeq DEF Phases
<1>2. /\ cl' = [want |-> want, phase |-> "idle", toggle |-> FALSE,
                left |-> <<>>, got |-> <<>>, count |-> 0]
      /\ outcome' = result /\ effect' = NotYet /\ up' = up \o frames
  BY DEF Conclude
<1>3. cl' \in ClientState /\ cl'.phase = "idle"
      /\ ~cl'.toggle /\ cl'.left = <<>> /\ cl'.got = <<>> /\ cl'.count = 0
  BY <1>1, <1>2 DEF ClientState
<1>4. ClientInv'
  BY <1>3 DEF ClientInv
<1>5. dl' = dl /\ od' = od /\ Inv' /\ ValuesInv'
  BY DEF SessionInv, vars, Inv, DownloadInv, UploadInv, ValuesInv
<1>6. up \in Seq(FullFrame) /\ up' \in Seq(FullFrame)
  BY <1>2 DEF SessionInv, BusInv
<1>7. BusInv'
  BY <1>2, <1>6, NotYetTyped DEF BusInv
<1>8. ASSUME NEW i \in 1..Len(up')
      PROVE  Quiet(up'[i]) \/ (dl'.state = "NONE" /\ Stray(up'[i]))
  <2>1. /\ Len(up') = Len(up) + Len(frames) /\ Len(up) \in Nat
        /\ Len(frames) \in Nat
        /\ up'[i] = IF i <= Len(up) THEN up[i] ELSE frames[i - Len(up)]
    BY <1>2, <1>6, TypedIsSeq, JoinedSeq
  <2>2. CASE i <= Len(up)
    <3>1. i \in 1..Len(up)
      BY <2>1, <2>2
    <3> QED
      BY <1>5, <2>1, <2>2, <3>1
  <2>3. CASE ~(i <= Len(up))
    <3>1. i - Len(up) \in 1..Len(frames)
      BY <2>1, <2>3
    <3> QED
      BY <2>1, <2>3, <3>1
  <2> QED
    BY <2>2, <2>3
<1>9. Idle'
  BY <1>2, <1>3, <1>8 DEF Idle, Quiet, Stray
<1> QED
  BY <1>2, <1>3, <1>4, <1>5, <1>7, <1>9 DEF SessionInv, Course

(* The client gives up, or is turned down, when nothing is under way that  *)
(* could do harm later.                                                    *)
LEMMA Fails ==
    ASSUME SessionInv, cl.phase # "idle", UNCHANGED vars, IsSeq(down'),
           GiveUp \/ \E fr : TurnedDown(fr),
           \A i \in 1..Len(up) : dl.state = "NONE" /\ Stray(up[i])
    PROVE  SessionInv' /\ Tells
<1>1. cl.want \in Request /\ cl.want.mux \in Mux
  BY WantType DEF SessionInv
<1> DEFINE f == AbortFrame(cl.want.mux)
<1>2. f \in FullFrame /\ f.b0 = AbortCommand
  BY <1>1, ShortFrames
<1>3. CASE GiveUp
  <2> DEFINE frames == <<f>>
  <2> HIDE DEF f
  <2>1. frames \in Seq(FullFrame) /\ \A i \in 1..Len(frames) : Quiet(frames[i])
    BY <1>2, OneFrame DEF Quiet
  <2>2. Conclude(Failure, cl.want, frames)
    BY <1>3 DEF GiveUp, f
  <2> HIDE DEF frames
  <2>3. SessionInv' /\ cl'.phase = "idle" /\ effect' = NotYet
        /\ outcome' = Failure /\ od' = od
    BY <1>1, <2>1, <2>2, Concludes
  <2> QED
    BY <2>3 DEF Tells
<1>4. CASE \E fr : TurnedDown(fr)
  <2>1. PICK want \in Request \cup {Nothing} : Conclude(Failure, want, <<>>)
    BY <1>1, <1>4 DEF TurnedDown
  <2> DEFINE frames == <<>>
  <2>2. frames \in Seq(FullFrame) /\ \A i \in 1..Len(frames) : Quiet(frames[i])
    BY EmptySeq
  <2>3. Conclude(Failure, want, frames)
    BY <2>1
  <2> HIDE DEF frames
  <2>4. SessionInv' /\ cl'.phase = "idle" /\ effect' = NotYet
        /\ outcome' = Failure /\ od' = od
    BY <2>2, <2>3, Concludes
  <2> QED
    BY <2>4 DEF Tells
<1> QED
  BY <1>3, <1>4

LEMMA Succeeds ==
    ASSUME SessionInv, cl.phase # "idle", effect.done, UNCHANGED vars,
           IsSeq(down'), up = <<>>, NEW data, data = Value,
           Succeed(data, <<>>) \/ Succeed(data, <<UpEndFrame>>)
    PROVE  SessionInv' /\ Tells
<1>1. PICK frames \in {<<>>, <<UpEndFrame>>} :
        Conclude([ok |-> TRUE, data |-> data], Nothing, frames)
  BY DEF Succeed
<1>2. frames \in Seq(FullFrame) /\ \A i \in 1..Len(frames) : Quiet(frames[i])
  <2> DEFINE f == UpEndFrame
  <2>1. f \in FullFrame /\ f.b0 = 161
    BY ShortFrames
  <2> HIDE DEF f
  <2>2. Quiet(f)
    BY <2>1 DEF Quiet, Ccs
  <2>3. frames = <<>> \/ frames = <<f>>
    BY <1>1 DEF f
  <2>4. CASE frames = <<>>
    BY <2>4, EmptySeq
  <2>5. CASE frames = <<f>>
    BY <2>1, <2>2, <2>5, OneFrame
  <2> QED
    BY <2>3, <2>4, <2>5
<1>3. Nothing \in Request \cup {Nothing} /\ 1..Len(up) = {}
  BY ShortIsSeq
<1> DEFINE result == [ok |-> TRUE, data |-> data]
<1> HIDE DEF result
<1>4. SessionInv' /\ cl'.phase = "idle" /\ effect' = NotYet
      /\ outcome' = result /\ od' = od
  BY <1>1, <1>2, <1>3, Concludes DEF result
<1> QED
  BY <1>4 DEF Tells, result

(* The client goes on; frames is what it sends. *)
LEMMA Proceeds ==
    ASSUME SessionInv, cl.phase # "idle", UNCHANGED vars, IsSeq(down'),
           NEW c \in ClientState, NEW frames \in Seq(FullFrame),
           Proceed(c, frames), up = <<>>, c.want = cl.want,
           \/ c.phase \in {"segment", "subBlock", "end"}
              /\ cl.want.op = "download"
           \/ c.phase \in {"reading", "receiving", "upEnd"}
              /\ cl.want.op = "upload"
    PROVE  /\ Inv' /\ ClientInv' /\ BusInv' /\ ValuesInv' /\ Tells
           /\ cl' = c /\ up' = frames /\ effect' = effect
           /\ dl' = dl /\ ul' = ul /\ cl'.phase # "idle"
<1>1. cl' = c /\ up' = frames /\ effect' = effect /\ outcome' = outcome
  <2>1. <<>> \o frames = frames
    BY ConcatEmptySeq
  <2> QED
    BY <2>1 DEF Proceed
<1>2. /\ dl' = dl /\ ul' = ul /\ od' = od /\ Inv' /\ ValuesInv'
  BY DEF SessionInv, vars, Inv, DownloadInv, UploadInv, ValuesInv
<1>3. cl.want \in Request
  BY WantType DEF SessionInv
<1>4. ClientInv'
  BY <1>1, <1>3 DEF ClientInv
<1>5. BusInv'
  BY <1>1 DEF SessionInv, BusInv
<1> QED
  BY <1>1, <1>2, <1>4, <1>5 DEF Tells

(* One frame arrives. *)
LEMMA ReceiveOne ==
    ASSUME cl.phase # "idle", NEW fr, Answered(fr), Receive
    PROVE  /\ UNCHANGED vars /\ down' = <<>> /\ IsSeq(down') /\ up = <<>>
           /\ \/ GiveUp \/ \E x : TurnedDown(x)
              \/ Expected(fr) /\ (DownloadAnswer(fr) \/ UploadAnswer(fr))
<1>1. Head(down) = fr /\ Tail(down) = <<>> /\ IsSeq(<<>>)
  BY ShortIsSeq DEF Answered
<1> QED
  BY <1>1 DEF Receive, Answered

(* When only frames move, all but the course is as it was. *)
LEMMA OnlyFramesMove ==
    ASSUME SessionInv, UNCHANGED vars, cl' = cl, effect' = effect,
           up' \in Seq(FullFrame), IsSeq(down')
    PROVE  Inv' /\ ClientInv' /\ BusInv' /\ ValuesInv'
<1>1. od' = od /\ Inv' /\ ValuesInv'
  BY DEF SessionInv, vars, Inv, DownloadInv, UploadInv, ValuesInv
<1>2. ClientInv'
  BY DEF SessionInv, ClientInv
<1>3. BusInv'
  BY DEF SessionInv, BusInv
<1> QED
  BY <1>1, <1>2, <1>3

LEMMA ReceiveIdle ==
    ASSUME SessionInv, Idle, Receive
    PROVE  SessionInv' /\ Tells
<1>1. cl.phase = "idle" /\ down # <<>> /\ IsSeq(down)
      /\ up \in Seq(FullFrame) /\ down' = Tail(down) /\ UNCHANGED vars
  BY DEF Idle, Receive, SessionInv, BusInv
<1>2. Proceed(cl, <<>>)
  BY <1>1 DEF Receive
<1>3. cl' = cl /\ up' = up /\ outcome' = outcome /\ effect' = effect
  BY <1>1, <1>2, ConcatEmptySeq DEF Proceed
<1>4. IsSeq(down')
  BY <1>1, TailSeq
<1>5. Inv' /\ ClientInv' /\ BusInv' /\ ValuesInv'
  BY <1>1, <1>3, <1>4, OnlyFramesMove
<1>6. dl' = dl /\ od' = od
  BY <1>1 DEF vars
<1>7. Idle'
  BY <1>3, <1>6 DEF Idle, Quiet, Stray, Ccs
<1> QED
  BY <1>1, <1>3, <1>5, <1>6, <1>7 DEF SessionInv, Course, Tells

(* A stranded client takes nothing for its answer. *)
LEMMA ExpectedIsAwaited ==
    ASSUME ClientInv, cl.phase # "idle", NEW fr, Expected(fr)
    PROVE  fr.cs \in Awaited
<1>1. cl.phase \in Phases /\ cl.want.op \in {"download", "upload"}
      /\ cl.want.way \in Ways
  BY WantType DEF ClientInv, ClientState
<1>2. CASE cl.phase = "init"
  BY <1>1, <1>2 DEF Expected, InitAnswers, Awaited
<1>3. CASE cl.phase \in {"segment", "subBlock", "end"}
  <2>1. cl.want.op = "download"
    BY <1>3 DEF ClientInv
  <2>2. CASE cl.phase = "segment"
    BY <2>1, <2>2 DEF Expected, Awaited
  <2>3. CASE cl.phase = "subBlock"
    BY <2>1, <2>3 DEF Expected, Awaited
  <2>4. CASE cl.phase = "end"
    BY <2>1, <2>4 DEF Expected, Awaited
  <2> QED
    BY <1>3, <2>2, <2>3, <2>4
<1>4. CASE cl.phase \in {"reading", "receiving", "upEnd"}
  <2>1. cl.want.op = "upload"
    BY <1>4 DEF ClientInv
  <2>2. CASE cl.phase = "reading"
    BY <2>1, <2>2 DEF Expected, Awaited, UploadKinds
  <2>3. CASE cl.phase = "receiving"
    BY <2>1, <2>3 DEF Expected, Awaited, UploadKinds
  <2>4. CASE cl.phase = "upEnd"
    BY <2>1, <2>4 DEF Expected, Awaited, UploadKinds
  <2> QED
    BY <1>4, <2>2, <2>3, <2>4
<1> QED
  BY <1>1, <1>2, <1>3, <1>4 DEF Phases

LEMMA ReceiveStranded ==
    ASSUME SessionInv, Stranded, Receive
    PROVE  SessionInv' /\ Tells
<1> DEFINE fr == Head(down)
<1>1. cl.phase # "idle" /\ down # <<>> /\ IsSeq(down)
      /\ down' = Tail(down) /\ UNCHANGED vars /\ ClientInv
  BY DEF Stranded, Receive, SessionInv, BusInv
<1>2. IsSeq(down') /\ fr = down[1] /\ 1 \in 1..Len(down)
  BY <1>1, TailSeq
<1>3. fr.cs \notin Awaited
  BY <1>2 DEF Stranded
<1> HIDE DEF fr
<1>4. ~Expected(fr)
  BY <1>1, <1>3, ExpectedIsAwaited
<1>5. GiveUp \/ \E x : TurnedDown(x)
  BY <1>1, <1>4 DEF Receive, fr
<1>6. \A i \in 1..Len(up) : dl.state = "NONE" /\ Stray(up[i])
  <2>1. up = <<>> => 1..Len(up) = {}
    BY ShortIsSeq
  <2> QED
    BY <2>1 DEF Stranded
<1> QED
  BY <1>1, <1>2, <1>5, <1>6, Fails

(* An answer the client does not accept ends its transfer. *)
LEMMA ReceiveOther ==
    ASSUME SessionInv, cl.phase # "idle", NEW fr, Answered(fr), Receive,
           GiveUp \/ \E x : TurnedDown(x)
    PROVE  SessionInv' /\ Tells
<1>1. UNCHANGED vars /\ IsSeq(down') /\ up = <<>>
  BY ReceiveOne
<1>2. 1..Len(up) = {}
  BY <1>1, ShortIsSeq
<1> QED
  BY <1>1, <1>2, Fails

(* The client sends a segment that begins with what the server lacks. *)
LEMMA SendsSegment ==
    ASSUME SessionInv, cl.phase # "idle", cl.want.op = "download",
           UNCHANGED vars, down' = <<>>, up = <<>>,
           NEW rest \in Seq(Byte), NEW toggle \in BOOLEAN,
           SendSegment(rest, toggle), Open("SEGMENT"), dl.toggle = toggle,
           dl.buffer \o rest = Data, effect = NotYet
    PROVE  SessionInv' /\ Tells
<1> DEFINE n == SegLen
           left == Drop(rest, n)
           chunk == Take(rest, n)
           last == Len(rest) <= SegLen
           f == SegmentFrame(toggle, chunk, last)
           c == [cl EXCEPT !.phase = "segment", !.left = left,
                           !.toggle = toggle]
           frames == <<f>>
<1>1. n \in Nat /\ n = SegLen /\ Len(rest) \in Nat
  BY DEF SegLen
<1>2. left \in Seq(Byte) /\ chunk \in Seq(Byte) /\ Len(chunk) <= n
  <2> HIDE DEF n
  <2>1. left \in Seq(Byte) /\ chunk \in Seq(Byte)
    BY <1>1, DropsBytes, TakeBytes
  <2>2. Len(chunk) <= n
    BY <1>1, TakeBytes DEF Least
  <2> QED
    BY <2>1, <2>2
<1>3. last \in BOOLEAN
  OBVIOUS
<1> HIDE DEF n, left, chunk, last
<1>4. f \in FullFrame
  BY <1>1, <1>2, <1>3, SegmentFrameRead
<1> HIDE DEF f
<1>5. frames \in Seq(FullFrame)
  BY <1>4, OneFrame
<1>6. cl \in ClientState
  BY DEF SessionInv, ClientInv
<1>7. /\ c \in ClientState /\ c.phase = "segment" /\ c.want = cl.want
      /\ c.left = left /\ c.toggle = toggle
  BY <1>2, <1>6 DEF ClientState, Phases
<1>8. Proceed(c, frames)
  BY DEF SendSegment, n, left, chunk, last, f
<1>9. IsSeq(down')
  BY ShortIsSeq
<1> HIDE DEF c, frames
<1>10. /\ Inv' /\ ClientInv' /\ BusInv' /\ ValuesInv' /\ Tells
       /\ cl' = c /\ up' = frames /\ effect' = effect /\ dl' = dl
  BY <1>5, <1>7, <1>8, <1>9, Proceeds
<1>11. SegmentSent'
  <2>1. cl'.toggle = toggle /\ cl'.left = Drop(rest, SegLen)
        /\ cl'.want = cl.want
    BY <1>7, <1>10 DEF left, n
  <2>2. Data' = Data
    BY <2>1 DEF Data
  <2>3. up' = <<SegmentFrame(toggle, Take(rest, SegLen), Len(rest) <= SegLen)>>
    BY <1>10 DEF frames, f, chunk, last, n
  <2>4. Sent(SegmentFrame(cl.toggle, Take(rest, SegLen),
                          Len(rest) <= SegLen))'
    BY <2>1, <2>3 DEF Sent
  <2>5. Open("SEGMENT")' /\ dl'.toggle = cl'.toggle
        /\ dl'.buffer \o rest = Data' /\ effect' = NotYet
    BY <1>10, <2>1, <2>2 DEF Open
  <2> QED
    BY <2>1, <2>4, <2>5 DEF SegmentSent
<1>12. Course'
  BY <1>7, <1>10, <1>11 DEF Segmenting, Course
<1> QED
  BY <1>10, <1>12 DEF SessionInv

(* The client sends the next sub-block. *)
LEMMA SendsBlock ==
    ASSUME SessionInv, cl.phase # "idle", cl.want.op = "download",
           cl.want.way # "plain", UNCHANGED vars, down' = <<>>, up = <<>>,
           NEW rest \in Seq(Byte), rest # <<>>, SendBlock(rest),
           NEW o \in 0..Len(Data), o % SegLen = 0, rest = Drop(Data, o),
           Open("BLOCK"), dl.seq = 1, dl.buffer = Padded(Data, o),
           effect = NotYet
    PROVE  SessionInv' /\ Tells
<1> DEFINE k == SegmentCount(rest)
           frames == SubBlockFrames(rest)
           c == [cl EXCEPT !.phase = "subBlock", !.left = rest, !.count = k]
<1>1. k \in 1..MaxSeq /\ k \in Nat /\ k >= 1
  BY Counting, MaxSeqAssumption
<1>2. frames \in Seq(FullFrame) /\ Len(frames) = k
  BY SubBlockFrameRead
<1> HIDE DEF k, frames
<1>3. cl \in ClientState
  BY DEF SessionInv, ClientInv
<1>4. /\ c \in ClientState /\ c.phase = "subBlock" /\ c.want = cl.want
      /\ c.left = rest /\ c.count = k
  BY <1>1, <1>3 DEF ClientState, Phases
<1>5. Proceed(c, frames)
  BY DEF SendBlock, k, frames
<1>6. IsSeq(down')
  BY ShortIsSeq
<1> HIDE DEF c
<1>7. /\ Inv' /\ ClientInv' /\ BusInv' /\ ValuesInv' /\ Tells
      /\ cl' = c /\ up' = frames /\ effect' = effect /\ dl' = dl
  BY <1>2, <1>4, <1>5, <1>6, Proceeds
<1>8. /\ cl'.phase = "subBlock" /\ cl'.want = cl.want /\ cl'.left = rest
      /\ cl'.count = k
  BY <1>4, <1>7
<1>9. Data' = Data
  BY <1>8 DEF Data
<1>10. Offset' = o /\ o \in Nat
  <2>1. Data \in Seq(Byte) /\ Len(Data) \in Nat /\ o \in Nat /\ o <= Len(Data)
    BY WantType DEF SessionInv
  <2>2. Len(rest) = Len(Data) - o
    BY <2>1, DropsBytes
  <2>3. Offset' = Len(Data) - Len(rest)
    BY <1>8, <1>9 DEF Offset
  <2> QED
    BY <2>1, <2>2, <2>3
<1>11. SubBlockSent(0)'
  <2>1. \A i \in 1..Len(frames) : frames[i] = SubBlockFrames(rest)[0 + i]
    BY <1>1, <1>2 DEF frames
  <2>2. Len(up') = cl'.count - 0
    BY <1>1, <1>2, <1>7, <1>8
  <2>3. dl'.buffer = Padded(Data', Offset' + 0 * SegLen)
    <3>1. o + 0 * SegLen = o
      BY <1>10 DEF SegLen
    <3> QED
      BY <1>7, <1>9, <1>10, <3>1
  <2>4. Open("BLOCK")' /\ dl'.seq = 0 + 1 /\ effect' = NotYet
        /\ dl'.state = "BLOCK"
    BY <1>7, <1>8 DEF Open
  <2>5. \A i \in 1..Len(up') : up'[i] = SubBlockFrames(cl'.left)[0 + i]
    BY <1>7, <1>8, <2>1
  <2> QED
    BY <2>2, <2>3, <2>4, <2>5 DEF SubBlockSent
<1>12. SubBlocks'
  <2>1. \E j \in 0..(cl'.count - 1) : SubBlockSent(j)'
    <3>1. 0 \in 0..(cl'.count - 1)
      BY <1>1, <1>8
    <3> QED
      BY <1>11, <3>1
  <2>2. /\ cl'.want.way # "plain" /\ cl'.left # <<>>
        /\ Offset' \in Nat /\ Offset' % SegLen = 0
        /\ cl'.left = Drop(Data', Offset')
        /\ cl'.count = SegmentCount(cl'.left)
    BY <1>8, <1>9, <1>10 DEF k
  <2> QED
    BY <1>8, <2>1, <2>2 DEF SubBlocks
<1> QED
  BY <1>7, <1>12 DEF SessionInv, Course

LEMMA ReceiveDownloadGranted ==
    ASSUME SessionInv, DownloadGranted, Receive
    PROVE  SessionInv' /\ Tells
<1>1. /\ cl.phase = "init" /\ cl.phase # "idle" /\ cl.want.op = "download"
      /\ Data \in Seq(Byte) /\ Len(Data) \in Nat /\ cl.want.way \in Ways
  BY WantType DEF DownloadGranted, SessionInv
<1>2. CASE Expedited
  <2> DEFINE fr == InitReply(cl.want.mux)
  <2>1. fr.cs = "dlInit"
    BY DEF InitReply
  <2> HIDE DEF fr
  <2>2. Answered(fr) /\ Expeditable(cl.want) /\ effect.done /\ Data = Value
    BY <1>2 DEF Expedited, Done, Value, fr
  <2>3. /\ UNCHANGED vars /\ IsSeq(down') /\ up = <<>>
        /\ \/ GiveUp \/ \E x : TurnedDown(x)
           \/ DownloadAnswer(fr) \/ UploadAnswer(fr)
    BY <1>1, <2>2, ReceiveOne
  <2>4. CASE GiveUp \/ \E x : TurnedDown(x)
    BY <1>1, <2>2, <2>4, ReceiveOther
  <2>5. CASE DownloadAnswer(fr) \/ UploadAnswer(fr)
    <3>1. Succeed(Data, <<>>)
      BY <2>1, <2>2, <2>5 DEF DownloadAnswer, UploadAnswer, Data
    <3> QED
      BY <1>1, <2>2, <2>3, <3>1, Succeeds
  <2> QED
    BY <2>3, <2>4, <2>5
<1>3. CASE SegmentedBegun
  <2> DEFINE fr == InitReply(cl.want.mux)
  <2>1. fr.cs = "dlInit"
    BY DEF InitReply
  <2> HIDE DEF fr
  <2>2. /\ Answered(fr) /\ ~Expeditable(cl.want) /\ effect = NotYet
        /\ Open("SEGMENT") /\ dl.toggle = FALSE /\ dl.buffer = <<>>
    <3>1. dl \in DownloadState
      BY DEF SessionInv, Inv, DownloadInv, Paired
    <3>2. dl.toggle \in BOOLEAN
      BY <3>1 DEF DownloadState
    <3> QED
      BY <1>3, <3>2 DEF SegmentedBegun, fr
  <2>3. /\ UNCHANGED vars /\ IsSeq(down') /\ up = <<>> /\ down' = <<>>
        /\ \/ GiveUp \/ \E x : TurnedDown(x)
           \/ DownloadAnswer(fr) \/ UploadAnswer(fr)
    BY <1>1, <2>2, ReceiveOne
  <2>4. CASE GiveUp \/ \E x : TurnedDown(x)
    BY <1>1, <2>2, <2>4, ReceiveOther
  <2>5. CASE DownloadAnswer(fr) \/ UploadAnswer(fr)
    <3> DEFINE toggle == FALSE
    <3>1. SendSegment(Data, toggle)
      BY <2>1, <2>2, <2>5 DEF DownloadAnswer, UploadAnswer, Data
    <3>2. dl.buffer \o Data = Data
      BY <1>1, <2>2, ConcatEmptySeq
    <3>3. toggle \in BOOLEAN /\ dl.toggle = toggle
      BY <2>2
    <3> HIDE DEF toggle
    <3> QED
      BY <1>1, <2>2, <2>3, <3>1, <3>2, <3>3, SendsSegment
  <2> QED
    BY <2>3, <2>4, <2>5
<1>4. CASE BlockBegun
  <2> DEFINE fr == BlockReply(cl.want.mux)
  <2>1. fr.cs = "dlBlock"
    BY DEF BlockReply
  <2> HIDE DEF fr
  <2>2. /\ Answered(fr) /\ cl.want.way # "plain" /\ effect = NotYet
        /\ Open("BLOCK") /\ dl.seq = 1 /\ dl.buffer = <<>>
    BY <1>4 DEF BlockBegun, fr
  <2>3. /\ UNCHANGED vars /\ IsSeq(down') /\ up = <<>> /\ down' = <<>>
        /\ \/ GiveUp \/ \E x : TurnedDown(x)
           \/ DownloadAnswer(fr) \/ UploadAnswer(fr)
    BY <1>1, <2>2, ReceiveOne
  <2>4. CASE GiveUp \/ \E x : TurnedDown(x)
    BY <1>1, <2>2, <2>4, ReceiveOther
  <2>5. CASE DownloadAnswer(fr) \/ UploadAnswer(fr)
    <3>1. SendBlock(Data)
      BY <2>1, <2>5 DEF DownloadAnswer, UploadAnswer, Data
    <3>2. CASE Data # <<>>
      <4> DEFINE o == 0
      <4>1. /\ o \in 0..Len(Data) /\ o % SegLen = 0 /\ Data = Drop(Data, o)
            /\ dl.buffer = Padded(Data, o)
        BY <1>1, <2>2, NoneDropped, PaddedShort DEF SegLen
      <4> HIDE DEF o
      <4> QED
        BY <1>1, <2>2, <2>3, <3>1, <3>2, <4>1, SendsBlock
    <3>3. CASE Data = <<>>
      <4>1. 0 \in Nat /\ Len(Data) = 0
        BY <1>1, <3>3
      <4>2. PICK k : k = SegmentCount(Data)
        OBVIOUS
      <4>3. k \in 0..MaxSeq /\ SubBlockFrames(Data) \in Seq(FullFrame)
            /\ Len(SubBlockFrames(Data)) = k
        BY <1>1, <4>2, Counting, SubBlockFrameRead
      <4>4. k = 0
        <5>1. k * SegLen < Len(Data) + SegLen
          BY <1>1, <4>2, Counting
        <5> QED
          BY <4>1, <4>3, <5>1, MaxSeqAssumption DEF SegLen
      <4> DEFINE frames == SubBlockFrames(Data)
                 c == [cl EXCEPT !.phase = "subBlock", !.left = Data,
                                 !.count = k]
      <4>5. frames \in Seq(FullFrame) /\ frames = <<>>
        BY <4>3, <4>4
      <4>6. c \in ClientState /\ c.phase = "subBlock" /\ c.want = cl.want
        <5>1. cl \in ClientState /\ k \in Nat
          BY <4>1, <4>4 DEF SessionInv, ClientInv
        <5> QED
          BY <1>1, <5>1 DEF ClientState, Phases
      <4>7. Proceed(c, frames)
        BY <3>1, <4>2 DEF SendBlock
      <4> HIDE DEF c, frames
      <4>8. /\ Inv' /\ ClientInv' /\ BusInv' /\ ValuesInv' /\ Tells
            /\ cl' = c /\ up' = frames /\ cl'.phase # "idle"
        BY <1>1, <2>3, <4>5, <4>6, <4>7, Proceeds
      <4>9. Stranded'
        <5>1. 1..Len(down') = {}
          BY <2>3, ShortIsSeq
        <5> QED
          BY <4>5, <4>8, <5>1 DEF Stranded
      <4> QED
        BY <4>8, <4>9 DEF SessionInv, Course
    <3> QED
      BY <3>2, <3>3
  <2> QED
    BY <2>3, <2>4, <2>5
<1> QED
  BY <1>2, <1>3, <1>4 DEF DownloadGranted

LEMMA ReceiveSegmentTaken ==
    ASSUME SessionInv, cl.phase = "segment", SegmentTaken, Receive
    PROVE  SessionInv' /\ Tells
<1> DEFINE fr == SegmentReply(cl.toggle)
<1>1. /\ cl.phase # "idle" /\ cl.want.op = "download" /\ Data \in Seq(Byte)
      /\ cl.left \in Seq(Byte) /\ cl.toggle \in BOOLEAN /\ dl.toggle \in BOOLEAN
  <2>1. cl \in ClientState /\ cl.want.op = "download" /\ dl \in DownloadState
    BY DEF SessionInv, ClientInv, Inv, DownloadInv, Paired
  <2>2. cl.phase # "idle" /\ Data \in Seq(Byte)
    BY WantType DEF SessionInv
  <2> QED
    BY <2>1, <2>2 DEF ClientState, DownloadState
<1>2. fr.cs = "dlSegment"
  BY DEF SegmentReply
<1> HIDE DEF fr
<1>3. Answered(fr)
  BY DEF SegmentTaken, fr
<1>4. /\ UNCHANGED vars /\ IsSeq(down') /\ up = <<>> /\ down' = <<>>
      /\ \/ GiveUp \/ \E x : TurnedDown(x)
         \/ DownloadAnswer(fr) \/ UploadAnswer(fr)
  BY <1>1, <1>3, ReceiveOne
<1>5. CASE GiveUp \/ \E x : TurnedDown(x)
  BY <1>1, <1>3, <1>5, ReceiveOther
<1>6. CASE DownloadAnswer(fr) \/ UploadAnswer(fr)
  <2>1. IF cl.left = <<>> THEN Succeed(Data, <<>>)
        ELSE SendSegment(cl.left, ~cl.toggle)
    BY <1>2, <1>6 DEF DownloadAnswer, UploadAnswer, Data
  <2>2. CASE cl.left = <<>>
    <3>1. Succeed(Data, <<>>) /\ effect.done /\ Data = Value
      BY <2>1, <2>2 DEF SegmentTaken, Done, Value
    <3> QED
      BY <1>1, <1>4, <3>1, Succeeds
  <2>3. CASE cl.left # <<>>
    <3> DEFINE toggle == ~cl.toggle
    <3>1. /\ SendSegment(cl.left, toggle) /\ toggle \in BOOLEAN
          /\ Open("SEGMENT") /\ dl.toggle = toggle
          /\ dl.buffer \o cl.left = Data /\ effect = NotYet
      BY <1>1, <2>1, <2>3 DEF SegmentTaken
    <3> HIDE DEF toggle
    <3> QED
      BY <1>1, <1>4, <3>1, SendsSegment
  <2> QED
    BY <2>2, <2>3
<1> QED
  BY <1>4, <1>5, <1>6

LEMMA ReceiveSubBlockTaken ==
    ASSUME SessionInv, SubBlocks, SubBlockTaken, Receive
    PROVE  SessionInv' /\ Tells
<1> DEFINE fr == SubBlockReply(cl.count)
           k == cl.count * SegLen
           o == Offset
           g == o + k
           rest == Drop(cl.left, k)
<1>1. /\ ClientInv /\ cl.phase # "idle" /\ cl.want.op = "download"
      /\ cl.want.way # "plain" /\ cl.want \in Request
  BY SubBlockFacts, WantType DEF SessionInv, SubBlocks
<1>2. /\ Data \in Seq(Byte) /\ cl.left \in Seq(Byte) /\ Len(Data) \in Nat
      /\ o \in 0..Len(Data) /\ o \in Nat /\ o % SegLen = 0
      /\ Len(cl.left) = Len(Data) - o /\ cl.left = Drop(Data, o)
      /\ cl.count \in Nat /\ k < Len(cl.left) + SegLen
  <2>1. cl.count \in 1..MaxSeq
    BY <1>1, SubBlockFacts
  <2>2. cl.count \in Nat
    BY <2>1
  <2> QED
    BY <1>1, <2>2, SubBlockFacts DEF SubBlocks
<1>3. k \in Nat /\ g \in Nat /\ g % SegLen = 0
  <2>1. PICK a \in Nat, b \in Nat : a = o /\ b = cl.count
    BY <1>2
  <2>2. (a + b * SegLen) % SegLen = 0 /\ b * SegLen \in Nat
    <3>1. a % SegLen = 0
      BY <1>2, <2>1
    <3> QED
      BY <3>1 DEF SegLen
  <2>3. k = b * SegLen /\ g = a + b * SegLen
    BY <2>1
  <2> QED
    BY <2>2, <2>3
<1>4. dl.buffer = Padded(Data, g) /\ effect = NotYet
  BY DEF SubBlockTaken
<1>5. fr.cs = "dlSubBlock"
  BY DEF SubBlockReply
<1> HIDE DEF fr
<1>6. Answered(fr)
  BY DEF SubBlockTaken, fr
<1>7. /\ UNCHANGED vars /\ IsSeq(down') /\ up = <<>> /\ down' = <<>>
      /\ \/ GiveUp \/ \E x : TurnedDown(x)
         \/ DownloadAnswer(fr) \/ UploadAnswer(fr)
  BY <1>1, <1>6, ReceiveOne
<1>8. CASE GiveUp \/ \E x : TurnedDown(x)
  BY <1>1, <1>6, <1>8, ReceiveOther
<1>9. CASE DownloadAnswer(fr) \/ UploadAnswer(fr)
  <2>1. IF rest # <<>> THEN SendBlock(rest)
        ELSE Proceed([cl EXCEPT !.phase = "end"], <<EndFrame(cl.want)>>)
    BY <1>5, <1>9 DEF DownloadAnswer, UploadAnswer
  <2>2. k < Len(cl.left) => Open("BLOCK") /\ dl.seq = 1
    BY DEF SubBlockTaken
  <2>3. ~(k < Len(cl.left)) => Open("BLOCK_END")
    BY DEF SubBlockTaken
  <2>4. rest = Drop(Data, g)
    <3> HIDE DEF k, o
    <3> QED
      BY <1>2, <1>3, DropTwice DEF g
  <2>5. rest \in Seq(Byte)
        /\ Len(rest) = IF k <= Len(cl.left) THEN Len(cl.left) - k ELSE 0
    <3> HIDE DEF k
    <3> QED
      BY <1>2, <1>3, DropsBytes
  <2> HIDE DEF k, rest, o
  <2>6. CASE rest # <<>>
    <3>1. Len(rest) # 0
      BY <2>5, <2>6
    <3>2. k < Len(cl.left)
      BY <1>2, <1>3, <2>5, <3>1
    <3>3. g \in 0..Len(Data)
      BY <1>2, <1>3, <3>2
    <3> HIDE DEF g
    <3> QED
      BY <1>1, <1>3, <1>4, <1>7, <2>1, <2>2, <2>4, <2>5, <2>6, <3>2, <3>3,
         SendsBlock
  <2>7. CASE rest = <<>>
    <3>1. Len(rest) = 0
      BY <2>7, ShortIsSeq
    <3>2. ~(k < Len(cl.left))
      BY <1>2, <1>3, <2>5, <3>1
    <3> DEFINE c == [cl EXCEPT !.phase = "end"]
               f == EndFrame(cl.want)
               frames == <<f>>
    <3>3. f \in FullFrame
      BY <1>1, EndFrameRead
    <3> HIDE DEF f
    <3>4. frames \in Seq(FullFrame)
      BY <3>3, OneFrame
    <3>5. c \in ClientState /\ c.phase = "end" /\ c.want = cl.want
      BY <1>1 DEF ClientInv, ClientState, Phases
    <3>6. Proceed(c, frames)
      BY <2>1, <2>7 DEF f
    <3> HIDE DEF c, frames
    <3>7. /\ Inv' /\ ClientInv' /\ BusInv' /\ ValuesInv' /\ Tells
          /\ cl' = c /\ up' = frames /\ effect' = effect /\ dl' = dl
      BY <1>1, <1>7, <3>4, <3>5, <3>6, Proceeds
    <3>8. cl'.phase = "end" /\ cl'.want = cl.want
      BY <3>5, <3>7
    <3>9. Data' = Data
      BY <3>8 DEF Data
    <3>10. Len(dl.buffer) = g
      <4> HIDE DEF g
      <4> QED
        BY <1>2, <1>3, <1>4, PaddedBytes
    <3>11. g \in Len(Data)..(Len(Data) + SegLen - 1)
      <4>1. PICK a \in Nat, b \in Nat, p \in Nat, q \in Nat :
              a = Len(Data) /\ b = Len(cl.left) /\ p = o /\ q = k
        BY <1>2, <1>3
      <4>2. b = a - p /\ q < b + SegLen /\ ~(q < b)
        BY <1>2, <3>2, <4>1
      <4>3. p + q \in a..(a + SegLen - 1)
        BY <4>2 DEF SegLen
      <4> QED
        BY <4>1, <4>3
    <3> HIDE DEF g
    <3>12. Sent(EndFrame(cl.want))'
      BY <1>7, <3>7, <3>8 DEF Sent, frames, f
    <3>13. Open("BLOCK_END")' /\ effect' = NotYet
      BY <1>4, <2>3, <3>2, <3>7, <3>8 DEF Open
    <3>14. /\ dl'.buffer = Padded(Data', Len(dl'.buffer))
           /\ Len(dl'.buffer) % SegLen = 0
           /\ Len(dl'.buffer) \in Len(Data')..(Len(Data') + SegLen - 1)
      BY <1>3, <1>4, <3>7, <3>9, <3>10, <3>11
    <3>15. EndSent'
      BY <3>12, <3>13, <3>14 DEF EndSent
    <3> QED
      BY <3>7, <3>8, <3>15 DEF SessionInv, Course, Ending
  <2> QED
    BY <2>6, <2>7
<1> QED
  BY <1>7, <1>8, <1>9

LEMMA ReceiveEnding ==
    ASSUME SessionInv, cl.phase = "end", Answered(BlockEndReply), Done(Data),
           Receive
    PROVE  SessionInv' /\ Tells
<1> DEFINE fr == BlockEndReply
<1>1. cl.phase # "idle" /\ Data = Value /\ effect.done
  BY DEF Done, Value
<1>2. fr.cs = "dlBlockEnd" /\ Answered(fr)
  BY DEF BlockEndReply
<1> HIDE DEF fr
<1>3. /\ UNCHANGED vars /\ IsSeq(down') /\ up = <<>>
      /\ \/ GiveUp \/ \E x : TurnedDown(x)
         \/ DownloadAnswer(fr) \/ UploadAnswer(fr)
  BY <1>1, <1>2, ReceiveOne
<1>4. CASE GiveUp \/ \E x : TurnedDown(x)
  BY <1>1, <1>2, <1>4, ReceiveOther
<1>5. CASE DownloadAnswer(fr) \/ UploadAnswer(fr)
  <2>1. Succeed(Data, <<>>)
    BY <1>2, <1>5 DEF DownloadAnswer, UploadAnswer, Data
  <2> QED
    BY <1>1, <1>3, <2>1, Succeeds
<1> QED
  BY <1>3, <1>4, <1>5

LEMMA ReceiveUploadGranted ==
    ASSUME SessionInv, UploadGranted, Receive
    PROVE  SessionInv' /\ Tells
<1>1. /\ cl.phase = "init" /\ cl.phase # "idle" /\ cl.want.op = "upload"
      /\ effect.done /\ Value \in Seq(Byte) /\ Len(Value) \in Nat
      /\ cl \in ClientState /\ cl.toggle = FALSE /\ cl.got = <<>>
      /\ cl.count = 0
  BY DEF UploadGranted, SessionInv, BusInv, ClientInv, ClientState, Value
<1>2. CASE /\ Len(Value) \in 1..ExpLen
           /\ Answered(UpExpeditedReply(cl.want.mux, Value))
  <2> DEFINE fr == UpExpeditedReply(cl.want.mux, Value)
             n == ExpLen
  <2>1. fr.cs = "ulExpedited" /\ fr.n = n - Len(Value)
        /\ fr.data = Padded(Value, n)
    BY DEF UpExpeditedReply
  <2> HIDE DEF fr
  <2>2. Answered(fr)
    BY <1>2 DEF fr
  <2>3. n - fr.n = Len(Value) /\ n \in Nat /\ Len(Value) <= n
    <3>1. PICK k : k = Len(Value)
      OBVIOUS
    <3> k \in Nat /\ k <= ExpLen
      <4>1. k \in 1..ExpLen
        BY <1>2, <3>1
      <4> QED
        BY <4>1 DEF ExpLen
    <3>2. fr.n = ExpLen - k
      BY <2>1, <3>1
    <3>3. ExpLen - fr.n = k
      BY <3>2 DEF ExpLen
    <3> QED
      BY <3>1, <3>3 DEF ExpLen
  <2>4. n = ExpLen
    OBVIOUS
  <2> HIDE DEF n
  <2>5. Take(Padded(Value, n), Len(Value)) = Value
    BY <1>1, <2>3, PaddingCutOff
  <2>6. /\ UNCHANGED vars /\ IsSeq(down') /\ up = <<>>
        /\ \/ GiveUp \/ \E x : TurnedDown(x)
           \/ DownloadAnswer(fr) \/ UploadAnswer(fr)
    BY <1>1, <2>2, ReceiveOne
  <2>7. CASE GiveUp \/ \E x : TurnedDown(x)
    BY <1>1, <2>2, <2>7, ReceiveOther
  <2>8. CASE DownloadAnswer(fr) \/ UploadAnswer(fr)
    <3>1. Succeed(Take(fr.data, n - fr.n), <<>>)
      BY <2>1, <2>4, <2>8 DEF DownloadAnswer, UploadAnswer
    <3>2. PICK data : data = Take(fr.data, n - fr.n)
      OBVIOUS
    <3>3. Succeed(data, <<>>) /\ data = Value
      BY <2>1, <2>3, <2>5, <3>1, <3>2
    <3> QED
      BY <1>1, <2>6, <3>3, Succeeds
  <2> QED
    BY <2>6, <2>7, <2>8
<1>3. CASE /\ ServingSegments(FALSE, <<>>)
           /\ Answered(UpInitReply(cl.want.mux, Len(Value)))
  <2> DEFINE fr == UpInitReply(cl.want.mux, Len(Value))
  <2>1. fr.cs = "ulInit"
    BY DEF UpInitReply
  <2> HIDE DEF fr
  <2>2. Answered(fr)
    BY <1>3 DEF fr
  <2>3. /\ UNCHANGED vars /\ IsSeq(down') /\ up = <<>> /\ down' = <<>>
        /\ \/ GiveUp \/ \E x : TurnedDown(x)
           \/ DownloadAnswer(fr) \/ UploadAnswer(fr)
    BY <1>1, <2>2, ReceiveOne
  <2>4. CASE GiveUp \/ \E x : TurnedDown(x)
    BY <1>1, <2>2, <2>4, ReceiveOther
  <2>5. CASE DownloadAnswer(fr) \/ UploadAnswer(fr)
    <3> DEFINE toggle == FALSE
               f == ReadFrame(toggle)
               c == [cl EXCEPT !.phase = "reading"]
               frames == <<f>>
    <3>1. toggle \in BOOLEAN
      OBVIOUS
    <3>2. Proceed(c, frames)
      BY <2>1, <2>5 DEF DownloadAnswer, UploadAnswer
    <3>3. toggle = cl.toggle
      BY <1>1
    <3> HIDE DEF toggle
    <3>4. f \in FullFrame
      BY <3>1, ReadFrameRead
    <3> HIDE DEF f
    <3>5. frames \in Seq(FullFrame)
      BY <3>4, OneFrame
    <3>6. /\ c \in ClientState /\ c.phase = "reading" /\ c.want = cl.want
          /\ c.toggle = cl.toggle /\ c.got = cl.got
      BY <1>1 DEF ClientState, Phases
    <3> HIDE DEF c, frames
    <3>7. /\ Inv' /\ ClientInv' /\ BusInv' /\ ValuesInv' /\ Tells
          /\ cl' = c /\ up' = frames /\ effect' = effect /\ ul' = ul
      BY <1>1, <2>3, <3>2, <3>5, <3>6, Proceeds
    <3>8. cl'.phase = "reading" /\ cl'.toggle = cl.toggle /\ cl'.got = cl.got
      BY <3>6, <3>7
    <3>9. Sent(ReadFrame(cl.toggle))'
      BY <2>3, <3>3, <3>7, <3>8 DEF Sent, frames, f
    <3>10. ServingSegments(cl.toggle, cl.got)'
      <4>1. ServingSegments(cl.toggle, cl.got)
        BY <1>1, <1>3
      <4> QED
        BY <3>7, <3>8, <4>1 DEF ServingSegments, Serving, Value
    <3>11. Reading'
      BY <1>1, <3>7, <3>8, <3>9, <3>10 DEF Reading
    <3> QED
      BY <3>7, <3>11 DEF SessionInv, Course
  <2> QED
    BY <2>3, <2>4, <2>5
<1>4. CASE /\ ServingBlocks /\ Gone = 0
           /\ Answered(UpBlockReply(cl.want.mux, Len(Value)))
  <2> DEFINE fr == UpBlockReply(cl.want.mux, Len(Value))
  <2>1. fr.cs = "ulBlock"
    BY DEF UpBlockReply
  <2> HIDE DEF fr
  <2>2. Answered(fr)
    BY <1>4 DEF fr
  <2>3. /\ UNCHANGED vars /\ IsSeq(down') /\ up = <<>> /\ down' = <<>>
        /\ \/ GiveUp \/ \E x : TurnedDown(x)
           \/ DownloadAnswer(fr) \/ UploadAnswer(fr)
    BY <1>1, <2>2, ReceiveOne
  <2>4. CASE GiveUp \/ \E x : TurnedDown(x)
    BY <1>1, <2>2, <2>4, ReceiveOther
  <2>5. CASE DownloadAnswer(fr) \/ UploadAnswer(fr)
    <3> DEFINE f == StartFrame
               c == [cl EXCEPT !.phase = "receiving"]
               frames == <<f>>
    <3>1. Proceed(c, frames)
      BY <2>1, <2>5 DEF DownloadAnswer, UploadAnswer
    <3>2. f \in FullFrame
      BY ShortFrames
    <3> HIDE DEF f
    <3>3. frames \in Seq(FullFrame)
      BY <3>2, OneFrame
    <3>4. /\ c \in ClientState /\ c.phase = "receiving" /\ c.want = cl.want
          /\ c.got = <<>> /\ c.count = 0
      BY <1>1 DEF ClientState, Phases
    <3> HIDE DEF c, frames
    <3>5. /\ Inv' /\ ClientInv' /\ BusInv' /\ ValuesInv' /\ Tells
          /\ cl' = c /\ up' = frames /\ effect' = effect /\ ul' = ul
      BY <1>1, <2>3, <3>1, <3>3, <3>4, Proceeds
    <3>6. /\ cl'.phase = "receiving" /\ cl'.want = cl.want
          /\ cl'.got = <<>> /\ cl'.count = 0
      BY <3>4, <3>5
    <3>7. Sent(StartFrame)'
      BY <2>3, <3>5 DEF Sent, frames, f
    <3>8. ServingBlocks' /\ Gone' = 0
      BY <1>4, <3>5, <3>6 DEF ServingBlocks, Serving, Value, Gone
    <3>9. Receiving'
      BY <3>6, <3>7, <3>8 DEF Receiving
    <3> QED
      BY <3>5, <3>9 DEF SessionInv, Course
  <2> QED
    BY <2>3, <2>4, <2>5
<1> QED
  BY <1>2, <1>3, <1>4 DEF UploadGranted

LEMMA ReceiveReading ==
    ASSUME SessionInv, cl.phase = "reading", effect.done,
           NEW chunk \in Seq(Byte), NEW last \in BOOLEAN, Len(chunk) <= SegLen,
           Answered(UpSegmentReply(cl.toggle, last, chunk)),
           IF last THEN cl.got \o chunk = Value
           ELSE ServingSegments(~cl.toggle, cl.got \o chunk),
           Receive
    PROVE  SessionInv' /\ Tells
<1> DEFINE fr == UpSegmentReply(cl.toggle, last, chunk)
           n == SegLen
           data == cl.got \o Take(fr.data, n - fr.n)
           got == cl.got \o chunk
           toggle == ~cl.toggle
<1>1. /\ cl.phase # "idle" /\ cl.want.op = "upload" /\ cl \in ClientState
      /\ cl.got \in Seq(Byte) /\ cl.toggle \in BOOLEAN /\ toggle \in BOOLEAN
  BY DEF SessionInv, ClientInv, ClientState
<1>2. fr.cs = "ulSegment" /\ (fr.last <=> last) /\ fr.n = n - Len(chunk)
      /\ fr.data = Padded(chunk, n)
  BY DEF UpSegmentReply
<1> HIDE DEF fr
<1>3. Answered(fr)
  BY DEF fr
<1>4. data = got
  <2>1. PICK k : k = Len(chunk)
    OBVIOUS
  <2>2. k \in Nat /\ k <= SegLen
    BY <2>1
  <2>3. fr.n = SegLen - k
    BY <1>2, <2>1
  <2>4. SegLen - fr.n = k /\ SegLen \in Nat
    BY <2>2, <2>3 DEF SegLen
  <2>5. n - fr.n = k /\ n \in Nat /\ k <= n
    BY <2>2, <2>4
  <2> HIDE DEF n
  <2>6. Take(Padded(chunk, n), Len(chunk)) = chunk
    BY <2>1, <2>5, PaddingCutOff
  <2> QED
    BY <1>2, <2>1, <2>5, <2>6
<1>5. got \in Seq(Byte)
  BY <1>1
<1>6. /\ UNCHANGED vars /\ IsSeq(down') /\ up = <<>> /\ down' = <<>>
      /\ \/ GiveUp \/ \E x : TurnedDown(x)
         \/ DownloadAnswer(fr) \/ UploadAnswer(fr)
  BY <1>1, <1>3, ReceiveOne
<1>7. CASE GiveUp \/ \E x : TurnedDown(x)
  BY <1>1, <1>3, <1>7, ReceiveOther
<1>8. CASE DownloadAnswer(fr) \/ UploadAnswer(fr)
  <2>1. IF fr.last THEN Succeed(data, <<>>)
        ELSE Proceed([cl EXCEPT !.got = data, !.toggle = ~@],
                     <<ReadFrame(~cl.toggle)>>)
    BY <1>2, <1>8 DEF DownloadAnswer, UploadAnswer
  <2>2. CASE last
    <3> HIDE DEF data
    <3>1. Succeed(data, <<>>) /\ data = Value
      BY <1>2, <1>4, <2>1, <2>2
    <3> QED
      BY <1>1, <1>6, <3>1, Succeeds
  <2>3. CASE ~last
    <3> DEFINE f == ReadFrame(toggle)
               c == [cl EXCEPT !.got = got, !.toggle = toggle]
               frames == <<f>>
    <3> HIDE DEF data, got
    <3>1. Proceed(c, frames)
      <4>1. [cl EXCEPT !.got = got, !.toggle = ~@] = c
        BY <1>1 DEF ClientState
      <4> QED
        BY <1>2, <1>4, <2>1, <2>3, <4>1
    <3> HIDE DEF toggle
    <3>2. f \in FullFrame
      BY <1>1, ReadFrameRead
    <3> HIDE DEF f
    <3>3. frames \in Seq(FullFrame)
      BY <3>2, OneFrame
    <3>4. /\ c \in ClientState /\ c.phase = "reading" /\ c.want = cl.want
          /\ c.toggle = toggle /\ c.got = got
      BY <1>1, <1>5 DEF ClientState, Phases
    <3> HIDE DEF c, frames
    <3>5. /\ Inv' /\ ClientInv' /\ BusInv' /\ ValuesInv' /\ Tells
          /\ cl' = c /\ up' = frames /\ effect' = effect /\ ul' = ul
      BY <1>1, <1>6, <3>1, <3>3, <3>4, Proceeds
    <3>6. cl'.phase = "reading" /\ cl'.toggle = toggle /\ cl'.got = got
      BY <3>4, <3>5
    <3>7. Sent(ReadFrame(cl.toggle))'
      BY <1>6, <3>5, <3>6 DEF Sent, frames, f
    <3>8. ServingSegments(cl.toggle, cl.got)'
      <4>1. ServingSegments(toggle, got)
        BY <2>3 DEF toggle, got
      <4>2. ul'.toggle = cl'.toggle /\ cl'.got \o ul'.stream.left = Value'
        BY <3>5, <3>6, <4>1 DEF ServingSegments, Value
      <4>3. Serving("SEGMENT")'
        BY <3>5, <4>1 DEF ServingSegments, Serving
      <4> QED
        BY <4>2, <4>3 DEF ServingSegments
    <3>9. Reading'
      BY <3>5, <3>6, <3>7, <3>8 DEF Reading
    <3> QED
      BY <3>5, <3>9 DEF SessionInv, Course
  <2> QED
    BY <2>2, <2>3
<1> QED
  BY <1>6, <1>7, <1>8

LEMMA ReceiveUpEnding ==
    ASSUME SessionInv, cl.phase = "upEnd", effect.done,
           NEW size, NEW crc, Answered(UpBlockEndReply(size, crc)),
           \/ DropLast(cl.got, SegLen - (size % SegLen)) = Value
           \/ cl.want.way = "checked" /\ crc = Value,
           Receive
    PROVE  SessionInv' /\ Tells
<1> DEFINE fr == UpBlockEndReply(size, crc)
<1>1. cl.phase # "idle"
  OBVIOUS
<1>2. fr.cs = "ulBlockEnd" /\ fr.n = SegLen - (size % SegLen) /\ fr.crc = crc
  BY DEF UpBlockEndReply
<1> HIDE DEF fr
<1>3. Answered(fr)
  BY DEF fr
<1>4. /\ UNCHANGED vars /\ IsSeq(down') /\ up = <<>>
      /\ \/ GiveUp \/ \E x : TurnedDown(x)
         \/ Expected(fr) /\ (DownloadAnswer(fr) \/ UploadAnswer(fr))
  BY <1>1, <1>3, ReceiveOne
<1>5. CASE GiveUp \/ \E x : TurnedDown(x)
  BY <1>1, <1>3, <1>5, ReceiveOther
<1>6. CASE Expected(fr) /\ (DownloadAnswer(fr) \/ UploadAnswer(fr))
  <2>1. PICK data : data = DropLast(cl.got, fr.n)
    OBVIOUS
  <2>2. Succeed(data, <<UpEndFrame>>)
    BY <1>2, <1>6, <2>1 DEF DownloadAnswer, UploadAnswer
  <2>3. cl.want.way = "checked" => fr.crc = data
    BY <1>6, <2>1 DEF Expected
  <2>4. data = Value
    BY <1>2, <2>1, <2>3
  <2> QED
    BY <1>1, <1>4, <2>2, <2>4, Succeeds
<1> QED
  BY <1>4, <1>5, <1>6

(* The next segment of a sub-block arrives: it has its number, its bytes   *)
(* of the value, and the mark of the last one if nothing follows.          *)
LEMMA SegmentArrives ==
    ASSUME Inv, ClientInv, BusInv, cl.phase = "receiving", ServingBlocks,
           NEW j \in Nat, SubBlockUnderWay(j), Receive,
           NEW count, count = Len(SubBlock(ul.stream.left, Window))
    PROVE  LET left == ul.stream.left
               last == Len(left) <= Window * SegLen
               g    == Gone + j * SegLen
           IN  /\ UNCHANGED vars /\ IsSeq(down') /\ up = <<>>
               /\ count \in Nat /\ j + 1 <= count /\ Len(down') = count - (j + 1)
               /\ \A i \in 1..Len(down') :
                    down'[i] = SubBlock(left, Window)[(j + 1) + i]
               /\ g \in 0..Len(Value)
               /\ \E fr : /\ ReceiveSegment(fr) /\ fr.seq = j + 1
                          /\ (fr.last <=> last /\ j + 1 = count)
                          /\ fr.data = Padded(Chunk(Value, g), SegLen)
<1> DEFINE left == ul.stream.left
           last == Len(left) <= Window * SegLen
           k == j * SegLen
           g == Gone + k
           frames == SubBlock(left, Window)
           fr == Head(down)
           i == j + 1
<1>1. /\ Value \in Seq(Byte) /\ Len(Value) \in Nat /\ left \in Seq(Byte)
      /\ Gone \in 0..Len(Value) /\ Gone \in Nat
      /\ Len(left) = Len(Value) - Gone /\ left = Drop(Value, Gone)
  BY ServedBytes DEF ServingBlocks
<1>2. Window \in Nat /\ Window >= 1
  BY WindowAssumption, MaxSeqAssumption
<1>3. /\ count \in Nat
      /\ \A x \in 1..count :
           /\ (x - 1) * SegLen \in 0..Len(left)
           /\ frames[x] = SubBlockFrame(x, last /\ x = count,
                                        Chunk(left, (x - 1) * SegLen))
  <2>1. count = Len(frames)
    OBVIOUS
  <2> HIDE DEF left
  <2>2. /\ Len(frames) \in Nat
        /\ \A x \in 1..Len(frames) :
             /\ (x - 1) * SegLen \in 0..Len(left)
             /\ frames[x] = SubBlockFrame(x, last /\ x = Len(frames),
                                          Chunk(left, (x - 1) * SegLen))
    BY <1>1, <1>2, SubBlockSegments
  <2> QED
    BY <2>1, <2>2
<1>4. /\ IsSeq(down) /\ up = <<>> /\ j < count /\ Len(down) = count - j
      /\ \A x \in 1..Len(down) : down[x] = frames[j + x]
  BY DEF BusInv, SubBlockUnderWay
<1>5. down # <<>>
  <2>1. Len(down) # 0
    BY <1>3, <1>4
  <2> QED
    BY <2>1, ShortIsSeq
<1>6. UNCHANGED vars /\ down' = Tail(down)
  BY DEF Receive
<1>7. /\ IsSeq(down') /\ Len(down') = Len(down) - 1 /\ fr = down[1]
      /\ \A x \in 1..Len(down') : down'[x] = down[x + 1]
  BY <1>4, <1>5, <1>6, TailSeq
<1>8. /\ Len(down') = count - (j + 1) /\ j + 1 <= count
      /\ \A x \in 1..Len(down') : down'[x] = frames[(j + 1) + x]
  <2>1. Len(down') = count - (j + 1) /\ j + 1 <= count
    BY <1>3, <1>4, <1>7
  <2>2. ASSUME NEW x \in 1..Len(down')
        PROVE  down'[x] = frames[(j + 1) + x]
    <3>1. x + 1 \in 1..Len(down) /\ j + (x + 1) = (j + 1) + x
      BY <1>3, <1>4, <2>1
    <3> QED
      BY <1>4, <1>7, <3>1
  <2> QED
    BY <2>1, <2>2
<1>9. /\ i \in 1..count /\ i - 1 = j /\ j + 1 = i /\ i \in Nat /\ i >= 1
  BY <1>3, <1>8
<1>10. k \in 0..Len(left) /\ fr = SubBlockFrame(i, last /\ i = count,
                                                Chunk(left, k))
  <2>1. fr = frames[i]
    <3>1. 1 \in 1..(count - j)
      BY <1>3, <1>4
    <3>2. down[1] = frames[j + 1]
      BY <1>4, <3>1
    <3> QED
      BY <1>7, <3>2
  <2> HIDE DEF i, frames, last, fr
  <2> QED
    BY <1>3, <1>9, <2>1
<1>11. g \in 0..Len(Value) /\ k \in Nat
  BY <1>1, <1>10
<1>12. Chunk(left, k) = Chunk(Value, g)
  <2>1. (i - 1) * SegLen <= Len(Value) - Gone
    BY <1>1, <1>9, <1>10 DEF SegLen
  <2>2. SubSeq(left, SegLen * (i - 1) + 1, Least(SegLen * i, Len(left)))
          = Chunk(Value, Gone + (i - 1) * SegLen)
    <3> HIDE DEF i
    <3> QED
      BY <1>1, <1>9, <2>1, ChunkOfRest
  <2>3. SegLen * (i - 1) = k /\ SegLen * i = k + SegLen
        /\ (i - 1) * SegLen = k
    BY <1>9 DEF SegLen
  <2> HIDE DEF i, k, left
  <2> QED
    BY <2>2, <2>3 DEF Chunk
<1>13. fr.cs = "ulSubBlock" /\ fr.seq = i /\ (fr.last <=> last /\ i = count)
       /\ fr.data = Padded(Chunk(Value, g), SegLen)
  <2> HIDE DEF fr, g, k, i, left, last
  <2> QED
    BY <1>10, <1>12 DEF SubBlockFrame
<1>14. ReceiveSegment(fr)
  <2> HIDE DEF fr
  <2>1. Expected(fr)
    BY <1>13 DEF Expected
  <2>2. DownloadAnswer(fr) \/ UploadAnswer(fr)
    BY <1>13, <2>1 DEF Receive, fr
  <2> QED
    BY <1>13, <2>2 DEF DownloadAnswer, UploadAnswer
<1> HIDE DEF fr
<1> QED
  BY <1>3, <1>4, <1>6, <1>7, <1>8, <1>11, <1>13, <1>14

LEMMA ReceiveSubBlock ==
    ASSUME SessionInv, cl.phase = "receiving", ServingBlocks,
           NEW j \in Nat, SubBlockUnderWay(j), Receive
    PROVE  SessionInv' /\ Tells
<1>1. /\ Inv /\ ClientInv /\ BusInv /\ cl.phase # "idle"
      /\ cl.want.op = "upload" /\ cl \in ClientState /\ effect.done
      /\ cl.got \in Seq(Byte) /\ cl.count \in Nat
  BY ServedBytes DEF SessionInv, ClientInv, ClientState
<1>2. PICK left, count : /\ left = ul.stream.left
                         /\ count = Len(SubBlock(ul.stream.left, Window))
  OBVIOUS
<1>3. PICK last \in BOOLEAN : last <=> Len(left) <= Window * SegLen
  OBVIOUS
<1>4. PICK g0, l, w : /\ g0 = Gone /\ l = Len(left) /\ w = Window
  OBVIOUS
<1>5. PICK k, g : /\ k = j * SegLen /\ g = Gone + j * SegLen
  OBVIOUS
<1>6. /\ UNCHANGED vars /\ IsSeq(down') /\ up = <<>>
      /\ count \in Nat /\ j + 1 <= count /\ Len(down') = count - (j + 1)
      /\ \A i \in 1..Len(down') :
           down'[i] = SubBlock(left, Window)[(j + 1) + i]
      /\ g \in 0..Len(Value)
  BY <1>1, <1>2, <1>5, SegmentArrives
<1>7. PICK fr : /\ ReceiveSegment(fr) /\ fr.seq = j + 1
                /\ (fr.last <=> last /\ j + 1 = count)
                /\ fr.data = Padded(Chunk(Value, g), SegLen)
  <2>1. \E fr : /\ ReceiveSegment(fr) /\ fr.seq = j + 1
                /\ (fr.last <=> /\ Len(ul.stream.left) <= Window * SegLen
                                /\ j + 1 = count)
                /\ fr.data = Padded(Chunk(Value, Gone + j * SegLen), SegLen)
    BY <1>1, <1>2, SegmentArrives
  <2> QED
    BY <1>2, <1>3, <1>5, <2>1
<1>8. /\ Value \in Seq(Byte) /\ Len(Value) \in Nat /\ left \in Seq(Byte)
      /\ l \in Nat /\ g0 \in Nat /\ w \in Nat /\ w >= 1 /\ k \in Nat
      /\ g = g0 + k /\ g \in Nat
  <2>1. l \in Nat /\ w \in Nat /\ w >= 1
    BY <1>1, <1>2, <1>4, ServedBytes, WindowAssumption, MaxSeqAssumption
  <2>2. Value \in Seq(Byte) /\ Len(Value) \in Nat /\ left \in Seq(Byte)
    BY <1>1, <1>2, ServedBytes
  <2>3. g0 \in Nat
    BY <1>1, <1>4, ServedBytes
  <2>4. k \in Nat /\ g = g0 + k
    BY <1>4, <1>5 DEF SegLen
  <2> QED
    BY <2>1, <2>2, <2>3, <2>4
<1>9. /\ cl.count <= j /\ (left = <<>> => Value = <<>>)
      /\ cl.got = Padded(Value, g0 + cl.count * SegLen)
  BY <1>2, <1>4 DEF SubBlockUnderWay
<1>10. /\ (count - 1) * SegLen <= l
       /\ left # <<>> => (count - 1) * SegLen < l
       /\ left = <<>> => count = 1
       /\ count <= w
       /\ last => l <= count * SegLen
       /\ ~last => count = w /\ ~(l <= w * SegLen)
  <2>1. w \in Nat /\ left \in Seq(Byte) /\ count = Len(SubBlock(left, w))
        /\ (last <=> Len(left) <= w * SegLen)
    BY <1>2, <1>3, <1>4, <1>8
  <2>2. /\ (count - 1) * SegLen <= Len(left)
        /\ left # <<>> /\ w >= 1 => (count - 1) * SegLen < Len(left)
        /\ left = <<>> => count = 1
        /\ w >= 1 => count <= w
        /\ Len(left) <= w * SegLen => Len(left) <= count * SegLen
        /\ ~(Len(left) <= w * SegLen) /\ w >= 1 => count = w
    BY <2>1, SubBlockSegments
  <2> QED
    BY <1>4, <1>8, <2>1, <2>2
<1> DEFINE next == fr.seq = cl.count + 1
           n == IF next THEN fr.seq ELSE cl.count
           got == IF next THEN cl.got \o fr.data ELSE cl.got
           c == [cl EXCEPT !.count = n, !.got = got]
<1>11. (next <=> cl.count = j) /\ (next => n = j + 1) /\ (~next => n = cl.count)
       /\ n \in Nat /\ n <= j + 1
  BY <1>1, <1>7, <1>9
<1>12. got \in Seq(Byte) /\ got = Padded(Value, g0 + n * SegLen)
  <2>1. CASE ~next
    BY <1>1, <1>9, <1>11, <2>1
  <2>2. CASE next
    <3>1. g0 + cl.count * SegLen = g /\ g + SegLen = g0 + n * SegLen
      <4>1. cl.count = j /\ n = j + 1
        BY <1>11, <2>2
      <4>2. g + SegLen = g0 + (j + 1) * SegLen
        BY <1>5, <1>8 DEF SegLen
      <4> HIDE DEF n
      <4> QED
        BY <1>5, <1>8, <4>1, <4>2
    <3>2. Padded(Value, g) \o Padded(Chunk(Value, g), SegLen)
            = Padded(Value, g + SegLen)
      BY <1>6, <1>8, PaddedGrows
    <3>3. got = Padded(Value, g + SegLen)
      BY <1>7, <1>9, <2>2, <3>1, <3>2
    <3>4. g0 + n * SegLen \in Nat
      BY <1>8, <1>11 DEF SegLen
    <3> HIDE DEF n, got
    <3>5. got = Padded(Value, g0 + n * SegLen)
      BY <3>1, <3>3
    <3>6. Padded(Value, g0 + n * SegLen) \in Seq(Byte)
      BY <1>8, <3>4, PaddedBytes
    <3> QED
      BY <3>5, <3>6
  <2> QED
    BY <2>1, <2>2
<1>13. IF ~fr.last /\ fr.seq < Window
       THEN Proceed(c, <<>>)
       ELSE Proceed([c EXCEPT !.count = 0,
                       !.phase = IF next /\ fr.last THEN "upEnd" ELSE @],
                    <<AckFrame(n)>>)
  <2>1. [cl EXCEPT !.count = n,
                   !.got = IF next THEN @ \o fr.data ELSE @] = c
    BY <1>1 DEF ClientState
  <2> QED
    BY <1>7, <2>1 DEF ReceiveSegment
<1>14. PICK m \in Nat, bytes \in Seq(Byte), follows \in BOOLEAN :
         m = n /\ bytes = got /\ (follows <=> next)
  <2>1. next \in BOOLEAN
    OBVIOUS
  <2> HIDE DEF next, n, got
  <2> QED
    BY <1>11, <1>12, <2>1
<1>15. CASE ~fr.last /\ fr.seq < Window
  <2> DEFINE d == [cl EXCEPT !.count = m, !.got = bytes]
             frames == <<>>
  <2>1. Proceed(d, frames)
    <3>1. d = c
      BY <1>14
    <3> HIDE DEF c, d
    <3> QED
      BY <1>13, <1>15, <3>1
  <2>2. frames \in Seq(FullFrame)
    BY EmptySeq
  <2>3. /\ d \in ClientState /\ d.phase = "receiving" /\ d.want = cl.want
        /\ d.count = m /\ d.got = bytes
    BY <1>1, <1>14 DEF ClientState
  <2> HIDE DEF d
  <2>4. frames = <<>>
    OBVIOUS
  <2> HIDE DEF frames, c, n, got, next
  <2>5. /\ Inv' /\ ClientInv' /\ BusInv' /\ ValuesInv' /\ Tells
        /\ cl' = d /\ up' = frames /\ effect' = effect /\ ul' = ul
    BY <1>1, <1>6, <2>1, <2>2, <2>3, Proceeds
  <2>6. /\ cl'.phase = "receiving" /\ cl'.want = cl.want
        /\ cl'.count = m /\ cl'.got = bytes
    BY <2>3, <2>5
  <2>7. j + 1 < count
    <3>1. j + 1 # count
      <4>1. CASE last
        BY <1>7, <1>15, <4>1
      <4>2. CASE ~last
        <5>1. count = w /\ fr.seq = j + 1 /\ fr.seq < w
          BY <1>4, <1>7, <1>10, <1>15, <4>2
        <5> QED
          BY <1>6, <1>8, <5>1
      <4> QED
        BY <4>1, <4>2
    <3> QED
      BY <1>6, <3>1
  <2>8. ServingBlocks' /\ Gone' = g0 /\ Value' = Value
    BY <1>4, <2>5, <2>6 DEF ServingBlocks, Serving, Value, Gone
  <2>9. /\ SubBlock(ul.stream.left, Window)' = SubBlock(left, Window)
        /\ ul'.stream.left = left
        /\ Len(SubBlock(ul.stream.left, Window)') = count
    BY <1>2, <2>5
  <2>10. cl'.got = Padded(Value', Gone' + cl'.count * SegLen)
    BY <1>12, <1>14, <2>6, <2>8
  <2>11. SubBlockUnderWay(j + 1)'
    <3>1. cl'.count <= j + 1
      BY <1>11, <1>14, <2>6
    <3>2. up' = <<>>
      BY <2>4, <2>5
    <3>3. \A i \in 1..Len(down') :
            down'[i] = SubBlock(ul.stream.left, Window)'[(j + 1) + i]
      BY <1>6, <2>9
    <3> QED
      BY <1>6, <1>9, <2>7, <2>8, <2>9, <2>10, <3>1, <3>2, <3>3
         DEF SubBlockUnderWay
  <2>12. Receiving'
    <3>1. j + 1 \in Nat
      OBVIOUS
    <3> QED
      BY <2>6, <2>8, <2>11, <3>1 DEF Receiving
  <2> QED
    BY <2>5, <2>12 DEF SessionInv, Course
<1>16. CASE ~(~fr.last /\ fr.seq < Window)
  <2>1. PICK phase \in {"receiving", "upEnd"} :
          phase = IF follows /\ fr.last THEN "upEnd" ELSE "receiving"
    OBVIOUS
  <2> DEFINE d == [cl EXCEPT !.count = 0, !.got = bytes, !.phase = phase]
             f == AckFrame(m)
             frames == <<f>>
  <2>2. Proceed(d, frames)
    <3>1. d = [c EXCEPT !.count = 0,
                        !.phase = IF next /\ fr.last THEN "upEnd" ELSE @]
      BY <1>1, <1>14, <2>1 DEF ClientState
    <3>2. frames = <<AckFrame(n)>>
      BY <1>14
    <3> HIDE DEF c, d, frames, n, next
    <3> QED
      BY <1>13, <1>16, <3>1, <3>2
  <2>3. f \in FullFrame
    BY ShortFrames
  <2> HIDE DEF f
  <2>4. frames \in Seq(FullFrame)
    BY <2>3, OneFrame
  <2>5. /\ d \in ClientState /\ d.phase = phase /\ d.want = cl.want
        /\ d.count = 0 /\ d.got = bytes
    BY <1>1, <1>14, <2>1 DEF ClientState, Phases
  <2> HIDE DEF d, frames, c, n, got, next
  <2>6. /\ Inv' /\ ClientInv' /\ BusInv' /\ ValuesInv' /\ Tells
        /\ cl' = d /\ up' = frames /\ effect' = effect /\ ul' = ul
    BY <1>1, <1>6, <2>1, <2>2, <2>4, <2>5, Proceeds
  <2>7. /\ cl'.phase = phase /\ cl'.want = cl.want
        /\ cl'.count = 0 /\ cl'.got = bytes
    BY <2>5, <2>6
  <2>8. j + 1 = count
    <3>1. CASE fr.last
      BY <1>7, <3>1
    <3>2. CASE ~fr.last
      <4>1. ~(j + 1 < w)
        BY <1>4, <1>7, <1>16, <3>2
      <4> QED
        BY <1>6, <1>8, <1>10, <4>1
    <3> QED
      BY <3>1, <3>2
  <2>9. down' = <<>>
    <3>1. Len(down') = 0
      BY <1>6, <2>8
    <3> QED
      BY <1>6, <3>1, EmptyIffLen
  <2>10. ServingBlocks' /\ Gone' = g0 /\ Value' = Value /\ effect'.done
         /\ ul'.stream.left = left
    BY <1>1, <1>2, <1>4, <2>6, <2>7
       DEF ServingBlocks, Serving, Value, Gone
  <2>11. AckSent(m)'
    <3>1. cl'.got = Padded(Value', Gone' + m * SegLen)
      BY <1>12, <1>14, <2>7, <2>10
    <3>2. Sent(AckFrame(m))'
      BY <2>6, <2>9 DEF Sent, frames, f
    <3> QED
      BY <2>7, <3>1, <3>2 DEF AckSent
  <2>12. CASE follows /\ fr.last
    <3>1. m = count /\ last
      BY <1>7, <1>11, <1>14, <2>8, <2>12
    <3>2. l <= m * SegLen
      BY <1>10, <3>1
    <3>3. m * SegLen < l + SegLen \/ (Value = <<>> /\ m = 1)
      <4>1. CASE left = <<>>
        BY <1>9, <1>10, <3>1, <4>1
      <4>2. CASE left # <<>>
        <5>1. (m - 1) * SegLen < l
          BY <1>10, <3>1, <4>2
        <5> QED
          BY <1>8, <5>1 DEF SegLen
      <4> QED
        BY <4>1, <4>2
    <3>4. LastAckSent(m)'
      BY <1>4, <2>10, <2>11, <3>2, <3>3 DEF LastAckSent
    <3>5. UpEnding'
      BY <2>1, <2>7, <2>10, <2>12, <3>4 DEF UpEnding
    <3> QED
      BY <2>6, <3>5 DEF SessionInv, Course
  <2>13. CASE ~(follows /\ fr.last)
    <3>1. m * SegLen < l
      <4>1. CASE follows
        <5>1. ~last /\ m = count
          BY <1>7, <1>11, <1>14, <2>8, <2>13, <4>1
        <5> QED
          BY <1>8, <1>10, <5>1 DEF SegLen
      <4>2. CASE ~follows
        <5>1. m + 1 <= j /\ j + 1 = count
          BY <1>1, <1>9, <1>11, <1>14, <2>8, <4>2
        <5> QED
          BY <1>8, <1>10, <5>1 DEF SegLen
      <4> QED
        BY <4>1, <4>2
    <3>2. m * SegLen < Len(ul'.stream.left)
      BY <1>4, <2>10, <3>1
    <3>3. Receiving'
      BY <2>1, <2>7, <2>10, <2>11, <2>13, <3>2 DEF Receiving
    <3> QED
      BY <2>6, <3>3 DEF SessionInv, Course
  <2> QED
    BY <2>12, <2>13
<1> QED
  BY <1>15, <1>16

(* Where the client waits with its request under way it receives nothing.  *)
LEMMA ReceiveInv ==
    ASSUME SessionInv, Receive
    PROVE  SessionInv' /\ Tells
<1>1. down # <<>> /\ Course /\ ClientInv
  BY DEF Receive, SessionInv
<1>2. CASE Idle
  BY <1>2, ReceiveIdle
<1>3. CASE Stranded
  BY <1>3, ReceiveStranded
<1>4. CASE Asked
  BY <1>1, <1>4 DEF Asked, Sent
<1>5. CASE DownloadGranted
  BY <1>5, ReceiveDownloadGranted
<1>6. CASE Segmenting
  <2>1. SegmentTaken /\ cl.phase = "segment"
    BY <1>1, <1>6 DEF Segmenting, SegmentSent, Sent
  <2> QED
    BY <2>1, ReceiveSegmentTaken
<1>7. CASE SubBlocks
  <2>1. SubBlockTaken
    BY <1>1, <1>7 DEF SubBlocks, SubBlockSent
  <2> QED
    BY <1>7, <2>1, ReceiveSubBlockTaken
<1>8. CASE Ending
  <2>1. cl.phase = "end" /\ Answered(BlockEndReply) /\ Done(Data)
    BY <1>1, <1>8 DEF Ending, EndSent, Sent
  <2> QED
    BY <2>1, ReceiveEnding
<1>9. CASE UploadGranted
  BY <1>9, ReceiveUploadGranted
<1>10. CASE Reading
  <2>1. PICK chunk \in Seq(Byte), last \in BOOLEAN :
          /\ Len(chunk) <= SegLen
          /\ Answered(UpSegmentReply(cl.toggle, last, chunk))
          /\ IF last THEN cl.got \o chunk = Value
             ELSE ServingSegments(~cl.toggle, cl.got \o chunk)
    BY <1>1, <1>10 DEF Reading, Sent
  <2> QED
    BY <1>10, <2>1, ReceiveReading DEF Reading
<1>11. CASE Receiving
  <2>1. PICK j \in Nat : SubBlockUnderWay(j)
    BY <1>1, <1>11 DEF Receiving, AckSent, Sent
  <2> QED
    BY <1>11, <2>1, ReceiveSubBlock DEF Receiving
<1>12. CASE UpEnding
  <2>1. PICK size, crc :
          /\ Answered(UpBlockEndReply(size, crc))
          /\ \/ DropLast(cl.got, SegLen - (size % SegLen)) = Value
             \/ cl.want.way = "checked" /\ crc = Value
    BY <1>1, <1>12 DEF UpEnding, LastAckSent, AckSent, Sent
  <2> QED
    BY <1>12, <2>1, ReceiveUpEnding DEF UpEnding
<1> QED
  BY <1>1, <1>2, <1>3, <1>4, <1>5, <1>6, <1>7, <1>8, <1>9, <1>10, <1>11, <1>12
     DEF Course

-----------------------------------------------------------------------------
(* The other steps *)

(* The loss of the only frame under way strands the client. *)
LEMMA OnlyFrameLost ==
    ASSUME cl.phase # "idle", Lose,
           (\E f : Sent(f)) \/ (\E fr : Answered(fr))
    PROVE  Stranded'
<1>1. up' = <<>> /\ down' = <<>> /\ cl' = cl
  <2>1. \A fr : Tail(<<fr>>) = <<>> /\ <<fr>> # <<>>
    BY ShortIsSeq
  <2>2. CASE \E f : Sent(f)
    BY <2>1, <2>2 DEF Sent, Lose, clientVars
  <2>3. CASE \E fr : Answered(fr)
    BY <2>1, <2>3 DEF Answered, Lose, clientVars
  <2> QED
    BY <2>2, <2>3
<1>2. 1..Len(down') = {}
  BY <1>1, ShortIsSeq
<1> QED
  BY <1>1, <1>2 DEF Stranded

LEMMA LoseFrames ==
    ASSUME SessionInv, Lose
    PROVE  /\ Inv' /\ ClientInv' /\ BusInv' /\ ValuesInv'
           /\ cl' = cl /\ effect' = effect /\ outcome' = outcome
           /\ dl' = dl /\ ul' = ul /\ od' = od
           /\ \/ up # <<>> /\ up' = Tail(up) /\ down' = down
              \/ down # <<>> /\ down' = Tail(down) /\ up' = up
           /\ IsSeq(up) /\ IsSeq(down)
<1>1. /\ UNCHANGED vars /\ cl' = cl /\ effect' = effect /\ outcome' = outcome
      /\ \/ up # <<>> /\ up' = Tail(up) /\ down' = down
         \/ down # <<>> /\ down' = Tail(down) /\ up' = up
  BY DEF Lose, clientVars
<1>2. up \in Seq(FullFrame) /\ IsSeq(down)
  BY DEF SessionInv, BusInv
<1>3. up' \in Seq(FullFrame) /\ IsSeq(down')
  <2>1. up # <<>> => Tail(up) \in Seq(FullFrame)
    BY <1>2
  <2>2. down # <<>> => IsSeq(Tail(down))
    BY <1>2, TailSeq
  <2> QED
    BY <1>1, <1>2, <2>1, <2>2
<1>4. Inv' /\ ClientInv' /\ BusInv' /\ ValuesInv'
  BY <1>1, <1>3, OnlyFramesMove
<1>5. IsSeq(up)
  BY <1>2, TypedIsSeq
<1> QED
  BY <1>1, <1>2, <1>4, <1>5 DEF vars

LEMMA LoseInv ==
    ASSUME SessionInv, Lose
    PROVE  SessionInv' /\ UNCHANGED <<cl, od, effect, outcome>>
<1>1. /\ Inv' /\ ClientInv' /\ BusInv' /\ ValuesInv'
      /\ cl' = cl /\ effect' = effect /\ outcome' = outcome
      /\ dl' = dl /\ ul' = ul /\ od' = od
      /\ \/ up # <<>> /\ up' = Tail(up) /\ down' = down
         \/ down # <<>> /\ down' = Tail(down) /\ up' = up
      /\ IsSeq(up) /\ IsSeq(down)
  BY LoseFrames
<1>2. Course /\ ClientInv
  BY DEF SessionInv
<1>3. /\ \A i \in 1..Len(up') : \E x \in 1..Len(up) : up'[i] = up[x]
      /\ \A i \in 1..Len(down') : \E x \in 1..Len(down) : down'[i] = down[x]
      /\ up = <<>> => up' = <<>>
  <2>1. ASSUME NEW s, IsSeq(s), s # <<>>
        PROVE  \A i \in 1..Len(Tail(s)) :
                 \E x \in 1..Len(s) : Tail(s)[i] = s[x]
    <3>1. SUFFICES ASSUME NEW i \in 1..Len(Tail(s))
                   PROVE  \E x \in 1..Len(s) : Tail(s)[i] = s[x]
      OBVIOUS
    <3>2. /\ Len(s) \in Nat /\ Len(Tail(s)) = Len(s) - 1
          /\ Tail(s)[i] = s[i + 1]
      BY <2>1, TailSeq
    <3>3. i + 1 \in 1..Len(s)
      BY <3>2
    <3> QED
      BY <3>2, <3>3
  <2>2. \A s : \A i \in 1..Len(s) : \E x \in 1..Len(s) : s[i] = s[x]
    OBVIOUS
  <2>3. CASE up # <<>> /\ up' = Tail(up) /\ down' = down
    <3>1. \A i \in 1..Len(Tail(up)) : \E x \in 1..Len(up) : Tail(up)[i] = up[x]
      BY <1>1, <2>1, <2>3
    <3> QED
      BY <2>2, <2>3, <3>1
  <2>4. CASE down # <<>> /\ down' = Tail(down) /\ up' = up
    <3>1. \A i \in 1..Len(Tail(down)) :
            \E x \in 1..Len(down) : Tail(down)[i] = down[x]
      BY <1>1, <2>1, <2>4
    <3> QED
      BY <2>2, <2>4, <3>1
  <2> QED
    BY <1>1, <2>3, <2>4
<1>4. CASE Idle
  <2>1. Idle'
    BY <1>1, <1>3, <1>4 DEF Idle, Quiet, Stray, Ccs
  <2> QED
    BY <1>1, <2>1 DEF SessionInv, Course
<1>5. CASE Stranded
  <2>1. Awaited' = Awaited
    BY <1>1 DEF Awaited
  <2>2. Stranded'
    BY <1>1, <1>3, <1>5, <2>1 DEF Stranded, Stray, Ccs
  <2> QED
    BY <1>1, <2>2 DEF SessionInv, Course
<1>6. CASE cl.phase # "idle" /\ ((\E f : Sent(f)) \/ (\E fr : Answered(fr)))
  <2>1. Stranded'
    BY <1>6, OnlyFrameLost
  <2> QED
    BY <1>1, <2>1 DEF SessionInv, Course
<1>7. ASSUME SubBlocks, NEW j \in 0..(cl.count - 1), SubBlockSent(j)
      PROVE  Course'
  <2>1. /\ cl.count \in Nat /\ j \in Nat /\ j + 1 <= cl.count
        /\ cl.phase = "subBlock"
    <3>1. cl.count \in 1..MaxSeq
      BY <1>2, <1>7, SubBlockFacts
    <3>2. cl.count \in Nat
      BY <1>2 DEF ClientInv, ClientState
    <3> QED
      BY <1>7, <3>1, <3>2 DEF SubBlocks
  <2>2. /\ down = <<>> /\ Len(up) = cl.count - j
        /\ \A i \in 1..Len(up) : up[i] = SubBlockFrames(cl.left)[j + i]
    BY <1>7 DEF SubBlockSent
  <2>3. up # <<>> /\ up' = Tail(up) /\ down' = <<>>
    BY <1>1, <2>2
  <2>4. /\ Len(up') = cl.count - (j + 1)
        /\ \A i \in 1..Len(up') : up'[i] = up[i + 1]
    BY <1>1, <2>1, <2>2, <2>3, TailSeq
  <2>5. CASE j + 1 = cl.count
    <3>1. Len(up') = 0 /\ IsSeq(up') /\ 1..Len(down') = {}
      <4>1. cl.count - (j + 1) = 0
        BY <2>1, <2>5
      <4>2. IsSeq(up')
        BY <1>1, <2>3, TailSeq
      <4>3. 1..Len(<<>>) = {}
        BY ShortIsSeq
      <4> QED
        BY <2>3, <2>4, <4>1, <4>2, <4>3
    <3>2. up' = <<>>
      BY <3>1, EmptyIffLen
    <3>3. Stranded'
      BY <1>1, <2>1, <3>1, <3>2 DEF Stranded
    <3> QED
      BY <3>3 DEF Course
  <2>6. CASE j + 1 # cl.count
    <3>1. j + 1 \in 0..(cl.count - 1)
      BY <2>1, <2>6
    <3>2. \A i \in 1..Len(up') : up'[i] = SubBlockFrames(cl.left)[(j + 1) + i]
      <4> SUFFICES ASSUME NEW i \in 1..Len(up')
                  PROVE  up'[i] = SubBlockFrames(cl.left)[(j + 1) + i]
        OBVIOUS
      <4>1. i \in 1..(cl.count - (j + 1))
        BY <2>4
      <4>2. i \in Nat /\ i + 1 \in 1..(cl.count - j)
            /\ j + (i + 1) = (j + 1) + i
        BY <2>1, <4>1
      <4>3. i + 1 \in 1..Len(up)
        BY <2>2, <4>2
      <4> QED
        BY <2>2, <2>4, <4>2, <4>3
    <3>3. dl.seq \in Nat
      BY DEF SessionInv, Inv, DownloadInv, Paired, DownloadState
    <3>4. dl.state = "BLOCK" /\ dl.seq <= j + 1 /\ ~dl.held
      <4>1. (dl.seq = j + 1 \/ dl.seq <= j) /\ ~dl.held
        BY <1>7 DEF SubBlockSent, Open
      <4> QED
        BY <1>7, <2>1, <3>3, <4>1 DEF SubBlockSent
    <3>5. SubBlockSent(j + 1)'
      BY <1>1, <2>3, <2>4, <3>2, <3>4 DEF SubBlockSent
    <3>6. Data' = Data /\ Offset' = Offset
      BY <1>1 DEF Data, Offset
    <3>7. SubBlocks'
      BY <1>1, <1>7, <3>1, <3>5, <3>6 DEF SubBlocks
    <3> QED
      BY <3>7 DEF Course
  <2> QED
    BY <2>5, <2>6
<1>8. ASSUME cl.phase = "receiving", ServingBlocks,
             NEW j \in Nat, SubBlockUnderWay(j)
      PROVE  Course'
  <2>1. PICK frames, n : frames = SubBlock(ul.stream.left, Window)
                         /\ n = Len(frames)
    OBVIOUS
  <2>2. /\ up = <<>> /\ j < n /\ Len(down) = n - j
        /\ \A i \in 1..Len(down) : down[i] = frames[j + i]
        /\ cl.count <= j /\ (ul.stream.left = <<>> => Value = <<>>)
        /\ cl.got = Padded(Value, Gone + cl.count * SegLen)
    BY <1>8, <2>1 DEF SubBlockUnderWay
  <2>3. down # <<>> /\ down' = Tail(down) /\ up' = <<>>
    BY <1>1, <2>2
  <2>4. n \in Nat /\ cl.count \in Nat
    <3>1. ul.stream.left \in Seq(Byte) /\ Window \in Nat
      BY <1>8, ServedBytes, WindowAssumption, MaxSeqAssumption DEF SessionInv
    <3>2. Len(SubBlock(ul.stream.left, Window)) \in Nat
      BY <3>1, SubBlockSegments
    <3> QED
      BY <1>2, <2>1, <3>2 DEF ClientInv, ClientState
  <2>5. /\ Len(down') = n - (j + 1)
        /\ \A i \in 1..Len(down') : down'[i] = down[i + 1]
    BY <1>1, <2>2, <2>3, <2>4, TailSeq
  <2>6. CASE j + 1 = n
    <3>1. Len(down') = 0 /\ IsSeq(down')
      <4>1. n - (j + 1) = 0
        BY <2>4, <2>6
      <4>2. IsSeq(down')
        BY <1>1, <2>3, TailSeq
      <4> QED
        BY <2>5, <4>1, <4>2
    <3>2. 1..Len(down') = {}
      BY <3>1
    <3>3. Stranded'
      BY <1>1, <1>8, <2>3, <3>2 DEF Stranded
    <3> QED
      BY <3>3 DEF Course
  <2>7. CASE j + 1 # n
    <3>1. j + 1 < n /\ j + 1 \in Nat /\ cl.count <= j + 1
      BY <2>2, <2>4, <2>7
    <3>2. \A i \in 1..Len(down') : down'[i] = frames[(j + 1) + i]
      <4> SUFFICES ASSUME NEW i \in 1..Len(down')
                  PROVE  down'[i] = frames[(j + 1) + i]
        OBVIOUS
      <4>1. i \in 1..(n - (j + 1))
        BY <2>5
      <4>2. i \in Nat /\ i + 1 \in 1..(n - j) /\ j + (i + 1) = (j + 1) + i
        BY <2>4, <4>1
      <4>3. i + 1 \in 1..Len(down)
        BY <2>2, <4>2
      <4> QED
        BY <2>2, <2>5, <4>2, <4>3
    <3>3. ServingBlocks' /\ Gone' = Gone /\ Value' = Value
      BY <1>1, <1>8 DEF ServingBlocks, Serving, Value, Gone
    <3>4. SubBlock(ul.stream.left, Window)' = frames
      BY <1>1, <2>1
    <3>5. SubBlockUnderWay(j + 1)'
      BY <1>1, <2>1, <2>2, <2>3, <2>5, <3>1, <3>2, <3>3, <3>4
         DEF SubBlockUnderWay
    <3>6. Receiving'
      BY <1>1, <1>8, <3>1, <3>3, <3>5 DEF Receiving
    <3> QED
      BY <3>6 DEF Course
  <2> QED
    BY <2>6, <2>7
<1>9. CASE SubBlocks /\ \E j \in 0..(cl.count - 1) : SubBlockSent(j)
  BY <1>1, <1>7, <1>9 DEF SessionInv
<1>10. CASE /\ cl.phase = "receiving" /\ ServingBlocks
            /\ \E j \in Nat : SubBlockUnderWay(j)
  BY <1>1, <1>8, <1>10 DEF SessionInv
<1>11. ASSUME ~Idle, ~Stranded,
              ~(cl.phase # "idle"
                  /\ ((\E f : Sent(f)) \/ (\E fr : Answered(fr)))),
              ~(SubBlocks /\ \E j \in 0..(cl.count - 1) : SubBlockSent(j)),
              ~(/\ cl.phase = "receiving" /\ ServingBlocks
                /\ \E j \in Nat : SubBlockUnderWay(j))
       PROVE  FALSE
  <2>1. CASE Asked
    BY <1>11, <2>1 DEF Asked
  <2>2. CASE DownloadGranted
    BY <1>11, <2>2
       DEF DownloadGranted, Expedited, SegmentedBegun, BlockBegun
  <2>3. CASE Segmenting
    BY <1>11, <2>3 DEF Segmenting, SegmentSent, SegmentTaken
  <2>4. CASE SubBlocks
    BY <1>11, <2>4 DEF SubBlocks, SubBlockTaken
  <2>5. CASE Ending
    BY <1>11, <2>5 DEF Ending, EndSent
  <2>6. CASE UploadGranted
    BY <1>11, <2>6 DEF UploadGranted
  <2>7. CASE Reading
    BY <1>11, <2>7 DEF Reading
  <2>8. CASE Receiving
    BY <1>11, <2>8 DEF Receiving, AckSent
  <2>9. CASE UpEnding
    BY <1>11, <2>9 DEF UpEnding, LastAckSent, AckSent
  <2> QED
    BY <1>2, <1>11, <2>1, <2>2, <2>3, <2>4, <2>5, <2>6, <2>7, <2>8, <2>9
       DEF Course
<1> QED
  BY <1>4, <1>5, <1>6, <1>9, <1>10, <1>11

LEMMA IdleCourse ==
    ASSUME Course, cl.phase = "idle"
    PROVE  Idle
<1>1. ~Stranded /\ ~Asked /\ ~DownloadGranted /\ ~UploadGranted
  BY DEF Stranded, Asked, DownloadGranted, UploadGranted
<1>2. ~Segmenting /\ ~SubBlocks /\ ~Ending /\ ~Reading /\ ~Receiving /\ ~UpEnding
  BY DEF Segmenting, SubBlocks, Ending, Reading, Receiving, UpEnding
<1> QED
  BY <1>1, <1>2 DEF Course

LEMMA AskInv ==
    ASSUME SessionInv, Ask
    PROVE  /\ SessionInv' /\ UNCHANGED <<od, effect, outcome>>
           /\ cl.phase = "idle" /\ cl'.phase # "idle" /\ cl'.want \in Request
<1>1. /\ cl.phase = "idle" /\ up = <<>> /\ down = <<>> /\ down' = <<>>
      /\ UNCHANGED vars /\ cl \in ClientState /\ effect = NotYet
  BY IdleCourse DEF Ask, SessionInv, ClientInv, Idle
<1>2. PICK r \in Request :
        Proceed([cl EXCEPT !.want = r, !.phase = "init"], <<InitFrame(r)>>)
  <2>1. cl.want \in Request \cup {Nothing}
    BY <1>1 DEF ClientState
  <2>2. \A r \in (IF cl.want = Nothing THEN Request ELSE {cl.want}) :
          r \in Request
    BY <2>1
  <2> QED
    BY <2>2 DEF Ask
<1> DEFINE f == InitFrame(r)
           c == [cl EXCEPT !.want = r, !.phase = "init"]
<1>3. f \in FullFrame
  <2>1. r.op \in {"download", "upload"}
    BY RequestType
  <2> QED
    BY <2>1, InitDownloadFrame, InitUploadFrame
<1>4. /\ c \in ClientState /\ c.phase = "init" /\ c.want = r
      /\ ~c.toggle /\ c.left = <<>> /\ c.got = <<>> /\ c.count = 0
  <2>1. ~cl.toggle /\ cl.left = <<>> /\ cl.got = <<>> /\ cl.count = 0
    BY <1>1 DEF SessionInv, ClientInv
  <2> QED
    BY <1>1, <2>1 DEF ClientState, Phases
<1> HIDE DEF c, f
<1>5. cl' = c /\ up' = <<f>> /\ outcome' = outcome /\ effect' = effect
  <2>1. Proceed(c, <<f>>)
    BY <1>2 DEF c, f
  <2> QED
    BY <1>1, <2>1, ShortIsSeq DEF Proceed
<1>6. od' = od /\ Inv' /\ ValuesInv'
  BY <1>1 DEF SessionInv, vars, Inv, DownloadInv, UploadInv, ValuesInv
<1>7. ClientInv'
  BY <1>4, <1>5 DEF ClientInv
<1>8. BusInv'
  <2>1. <<f>> \in Seq(FullFrame) /\ IsSeq(<<>>)
    BY <1>3, OneFrame, ShortIsSeq
  <2> QED
    BY <1>1, <1>5, <2>1 DEF SessionInv, BusInv
<1>9. Asked'
  BY <1>1, <1>4, <1>5 DEF Asked, Sent, f
<1> QED
  BY <1>1, <1>4, <1>5, <1>6, <1>7, <1>8, <1>9 DEF SessionInv, Course

LEMMA TimeoutInv ==
    ASSUME SessionInv, Timeout
    PROVE  SessionInv' /\ Tells
<1>1. /\ cl.phase # "idle" /\ UNCHANGED vars /\ down' = <<>> /\ up = <<>>
      /\ GiveUp
  BY DEF Timeout
<1>2. IsSeq(down') /\ 1..Len(up) = {}
  BY <1>1, ShortIsSeq
<1> QED
  BY <1>1, <1>2, Fails

(* The course of a transfer is one of the client, the bus and the state of *)
(* the managers: what else changes does not matter to it.                  *)
LEMMA CourseKept ==
    ASSUME Course, cl' = cl, up' = up, down' = down, effect' = effect,
           dl' = dl, ul' = ul
    PROVE  Course'
<1>1. Data' = Data /\ Offset' = Offset /\ Value' = Value /\ Gone' = Gone
      /\ Awaited' = Awaited
  BY DEF Data, Offset, Value, Gone, Awaited
<1>2. \A s : Open(s)' = Open(s)
  BY DEF Open
<1>3. CASE Idle
  BY <1>3 DEF Idle, Quiet, Stray, Ccs, Course
<1>4. CASE Stranded
  BY <1>1, <1>4 DEF Stranded, Stray, Ccs, Course
<1>5. CASE Asked
  BY <1>5 DEF Asked, Sent, Course
<1>6. CASE DownloadGranted
  BY <1>1, <1>2, <1>6
     DEF DownloadGranted, Expedited, SegmentedBegun, BlockBegun, Answered,
         Done, Course
<1>7. CASE Segmenting
  BY <1>1, <1>2, <1>7
     DEF Segmenting, SegmentSent, SegmentTaken, Sent, Answered, Done, Course
<1>8. CASE SubBlocks
  <2>1. SubBlockTaken => SubBlockTaken'
    BY <1>1, <1>2 DEF SubBlockTaken, Answered
  <2>2. \A j : SubBlockSent(j) => SubBlockSent(j)'
    BY <1>1, <1>2 DEF SubBlockSent
  <2> QED
    BY <1>1, <1>8, <2>1, <2>2 DEF SubBlocks, Course
<1>9. CASE Ending
  BY <1>1, <1>2, <1>9 DEF Ending, EndSent, Sent, Answered, Done, Course
<1>10. ServingBlocks => ServingBlocks'
  BY <1>1 DEF ServingBlocks, Serving
<1>11. \A t, got : ServingSegments(t, got) => ServingSegments(t, got)'
  BY <1>1 DEF ServingSegments, Serving
<1>12. \A n : AckSent(n) => AckSent(n)'
  BY <1>1 DEF AckSent, Sent
<1>13. CASE UploadGranted
  BY <1>1, <1>10, <1>11, <1>13 DEF UploadGranted, Answered, Course
<1>14. CASE Reading
  BY <1>1, <1>11, <1>14
     DEF Reading, ServingSegments, Serving, Sent, Answered, Course
<1>15. CASE Receiving
  <2>1. \A j : SubBlockUnderWay(j) => SubBlockUnderWay(j)'
    BY <1>1 DEF SubBlockUnderWay
  <2> QED
    BY <1>1, <1>10, <1>12, <1>15, <2>1 DEF Receiving, Sent, Course
<1>16. CASE UpEnding
  <2>1. \A n : LastAckSent(n) => LastAckSent(n)'
    BY <1>1, <1>10, <1>12 DEF LastAckSent
  <2> QED
    BY <1>1, <1>16, <2>1 DEF UpEnding, Answered, Course
<1> QED
  BY <1>3, <1>4, <1>5, <1>6, <1>7, <1>8, <1>9, <1>13, <1>14, <1>15, <1>16
     DEF Course

LEMMA ApplicationInv ==
    ASSUME UnevenValues, SessionInv, Application
    PROVE  SessionInv'
<1>1. PICK w \in Written : ApplicationWrite(w[1], w[2])
  BY DEF Application
<1>2. Inv'
  BY <1>1, ApplicationWriteInv DEF SessionInv
<1>3. /\ dl' = dl /\ ul' = ul /\ od' = [od EXCEPT ![w[1]] = w[2]]
      /\ cl' = cl /\ up' = up /\ down' = down /\ effect' = effect
  BY <1>1 DEF ApplicationWrite, Application, clientVars, bus
<1>4. ValuesInv'
  <2>1. SUFFICES ASSUME NEW m \in ReadInBlocks
                 PROVE  Uneven(od'[m])
    BY DEF ValuesInv
  <2>2. od \in [Mux -> Seq(Byte)]
    BY DEF SessionInv, Inv, DownloadInv
  <2>3. m \in Mux
    BY RequestType DEF ReadInBlocks
  <2>4. CASE m = w[1]
    <3>1. Uneven(w[2])
      BY <2>4 DEF UnevenValues
    <3> QED
      BY <1>3, <2>2, <2>3, <2>4, <3>1
  <2>5. CASE m # w[1]
    BY <1>3, <2>2, <2>3, <2>5 DEF SessionInv, ValuesInv
  <2> QED
    BY <2>4, <2>5
<1>5. ClientInv' /\ BusInv'
  BY <1>3 DEF SessionInv, ClientInv, BusInv
<1>6. Course'
  BY <1>3, CourseKept DEF SessionInv
<1> QED
  BY <1>2, <1>4, <1>5, <1>6 DEF SessionInv

LEMMA StutterInv ==
    ASSUME SessionInv, UNCHANGED sessionVars
    PROVE  SessionInv'
<1>1. /\ UNCHANGED vars /\ cl' = cl /\ up' = up /\ down' = down
      /\ effect' = effect
  BY DEF sessionVars, clientVars, bus
<1>2. dl' = dl /\ ul' = ul
  BY <1>1 DEF vars
<1>3. up' \in Seq(FullFrame) /\ IsSeq(down')
  BY <1>1 DEF SessionInv, BusInv
<1>4. Inv' /\ ClientInv' /\ BusInv' /\ ValuesInv'
  BY <1>1, <1>3, OnlyFramesMove
<1>5. Course'
  BY <1>1, <1>2, CourseKept DEF SessionInv
<1> QED
  BY <1>4, <1>5 DEF SessionInv

LEMMA SessionInitInv ==
    ASSUME UnevenValues, SessionInit
    PROVE  SessionInv
<1>1. Inv
  BY InitInv DEF SessionInit
<1>2. /\ cl = [want |-> Nothing, phase |-> "idle", toggle |-> FALSE,
               left |-> <<>>, got |-> <<>>, count |-> 0]
      /\ up = <<>> /\ down = <<>> /\ effect = NotYet
  BY DEF SessionInit
<1>3. <<>> \in Seq(Byte) /\ <<>> \in Seq(FullFrame) /\ 0 \in Nat
      /\ "idle" \in Phases
  BY EmptySeq DEF Phases
<1>4. ClientInv
  BY <1>2, <1>3 DEF ClientInv, ClientState
<1>5. BusInv
  BY <1>2, <1>3, ShortIsSeq, NotYetTyped DEF BusInv
<1>6. ValuesInv
  <2>1. od = [m \in Mux |-> Default(m)]
    BY DEF SessionInit, Init, BaseInit
  <2>2. \A m \in ReadInBlocks : m \in Mux
    BY RequestType DEF ReadInBlocks
  <2> QED
    BY <2>1, <2>2 DEF ValuesInv, UnevenValues
<1>7. Idle
  <2>1. 1..Len(up) = {}
    BY <1>2, ShortIsSeq
  <2> QED
    BY <1>2, <2>1 DEF Idle
<1> QED
  BY <1>1, <1>4, <1>5, <1>6, <1>7 DEF SessionInv, Course

LEMMA SessionNextInv ==
    ASSUME NoHandlers, SegmentsNameNothing, UnevenValues, SessionInv,
           [SessionNext]_sessionVars
    PROVE  SessionInv'
<1>1. CASE Ask
  BY <1>1, AskInv
<1>2. CASE Receive
  BY <1>2, ReceiveInv
<1>3. CASE Timeout
  BY <1>3, TimeoutInv
<1>4. CASE Serve
  BY <1>4, ServeInv
<1>5. CASE Lose
  BY <1>5, LoseInv
<1>6. CASE Application
  BY <1>6, ApplicationInv
<1>7. CASE UNCHANGED sessionVars
  BY <1>7, StutterInv
<1> QED
  BY <1>1, <1>2, <1>3, <1>4, <1>5, <1>6, <1>7 DEF SessionNext

-----------------------------------------------------------------------------
(* The refinement *)

(* What the transfer looks like from afar. *)
Pending == IF cl.phase = "idle" THEN Nothing ELSE cl.want

LEMMA PendingRequest ==
    ASSUME SessionInv
    PROVE  /\ cl.phase = "idle" => Pending = Nothing
           /\ cl.phase # "idle" =>
                /\ Pending = cl.want /\ Pending \in Request
                /\ Pending # Nothing /\ Pending.op \in {"download", "upload"}
<1>1. \A r \in Request : r # Nothing
  <2>1. SUFFICES ASSUME NEW r \in Request PROVE r # Nothing
    OBVIOUS
  <2>2. r.op \in {"download", "upload"}
    BY RequestType
  <2> QED
    BY <2>2 DEF Nothing
<1> QED
  BY <1>1, WantType DEF SessionInv, Pending

LEMMA InitRefines ==
    ASSUME SessionInit
    PROVE  Promise!Init
<1>1. od = [m \in Mux |-> Default(m)] /\ cl.phase = "idle" /\ effect = NotYet
      /\ outcome = Failure
  BY DEF SessionInit, Init, BaseInit
<1>2. \A m \in Mux : Default(m) \in Seq(Byte)
  BY SizeAssumption, ByteAssumption, IsASeq DEF Default
<1>3. od \in [Mux -> Seq(Byte)]
  BY <1>1, <1>2
<1> QED
  BY <1>1, <1>3
     DEF Promise!Init, Promise!NoRequest, Promise!NotYet, Promise!Failure,
         Nothing, NotYet, Failure

LEMMA TellsRefines ==
    ASSUME SessionInv, SessionInv', Tells
    PROVE  [Promise!Next]_(Promise!vars)
<1>1. CASE /\ cl'.phase = "idle" <=> cl.phase = "idle"
           /\ cl'.want = cl.want /\ UNCHANGED <<od, effect, outcome>>
  BY <1>1 DEF Promise!vars
<1>2. CASE /\ cl.phase # "idle" /\ cl'.phase = "idle" /\ effect' = NotYet
           /\ od' = od
           /\ \/ outcome' = Failure
              \/ effect.done /\ outcome' = [ok |-> TRUE, data |-> Value]
  <2>1. /\ Pending # Nothing /\ Pending' = Nothing
    BY <1>2, PendingRequest DEF Pending
  <2>2. CASE outcome' = Failure
    <3>1. Promise!Fail
      BY <1>2, <2>1, <2>2
         DEF Promise!Fail, Promise!Answer, Promise!NoRequest, Promise!NotYet,
             Promise!Failure, Pending, Nothing, NotYet, Failure
    <3> QED
      BY <3>1 DEF Promise!Next
  <2>3. CASE effect.done /\ outcome' = [ok |-> TRUE, data |-> Value]
    <3>1. Promise!Succeed
      BY <1>2, <2>1, <2>3
         DEF Promise!Succeed, Promise!Answer, Promise!NoRequest,
             Promise!NotYet, Pending, Nothing, NotYet, Value
    <3> QED
      BY <3>1 DEF Promise!Next
  <2> QED
    BY <1>2, <2>2, <2>3
<1> QED
  BY <1>1, <1>2 DEF Tells

LEMMA ServeRefines ==
    ASSUME SessionInv, Serve, Happens
    PROVE  [Promise!Next]_(Promise!vars)
<1>1. cl' = cl /\ outcome' = outcome
  BY DEF Serve, clientVars
<1>2. CASE UNCHANGED <<od, effect>>
  BY <1>1, <1>2 DEF Promise!vars
<1>3. CASE /\ cl.phase # "idle" /\ ~effect.done /\ cl.want.op = "download"
           /\ od' = [od EXCEPT ![cl.want.mux] = Data]
           /\ effect' = [done |-> TRUE, data |-> Data]
  <2>1. Promise!Store
    BY <1>1, <1>3 DEF Promise!Store, Data
  <2> QED
    BY <2>1 DEF Promise!Next
<1>4. CASE /\ cl.phase # "idle" /\ ~effect.done /\ cl.want.op = "upload"
           /\ od' = od /\ effect' = [done |-> TRUE, data |-> od[cl.want.mux]]
  <2>1. Promise!Read
    BY <1>1, <1>4 DEF Promise!Read
  <2> QED
    BY <2>1 DEF Promise!Next
<1> QED
  BY <1>2, <1>3, <1>4 DEF Happens

(* Every step of the session is one of the promise, or none. *)
LEMMA StepRefines ==
    ASSUME NoHandlers, SegmentsNameNothing, UnevenValues, SessionInv,
           SessionInv', [SessionNext]_sessionVars
    PROVE  [Promise!Next]_(Promise!vars)
<1>1. CASE Ask
  <2>1. /\ UNCHANGED <<od, effect, outcome>> /\ cl.phase = "idle"
        /\ cl'.phase # "idle" /\ cl'.want \in Request
    BY <1>1, AskInv
  <2>2. PICK r \in Request : r = cl'.want
    BY <2>1
  <2>3. Promise!Ask(r)
    BY <2>1, <2>2 DEF Promise!Ask, Promise!NoRequest, Nothing
  <2> QED
    BY <2>3 DEF Promise!Next
<1>2. CASE Receive
  BY <1>2, ReceiveInv, TellsRefines
<1>3. CASE Timeout
  BY <1>3, TimeoutInv, TellsRefines
<1>4. CASE Serve
  BY <1>4, ServeInv, ServeRefines
<1>5. CASE Lose
  <2>1. UNCHANGED <<cl, od, effect, outcome>>
    BY <1>5, LoseInv
  <2> QED
    BY <2>1 DEF Promise!vars
<1>6. CASE Application
  <2>1. PICK w \in Written : ApplicationWrite(w[1], w[2])
    BY <1>6 DEF Application
  <2>2. Promise!Write(w[1], w[2])
    BY <1>6, <2>1 DEF Promise!Write, ApplicationWrite, Application, clientVars
  <2> QED
    BY <2>2 DEF Promise!Next
<1>7. CASE UNCHANGED sessionVars
  BY <1>7 DEF Promise!vars, sessionVars, vars, clientVars
<1> QED
  BY <1>1, <1>2, <1>3, <1>4, <1>5, <1>6, <1>7 DEF SessionNext

(* Every transfer is one atomic step (ImplementsTransfer): what the client *)
(* is told of it is as if the server had stored the whole value, or read   *)
(* it, in one moment between request and answer, and a transfer that       *)
(* failed did so or did nothing.  This holds whatever frames the bus       *)
(* loses, however often the client gives up and tries again, and whatever  *)
(* the application writes meanwhile: nothing a server keeps of an          *)
(* abandoned transfer is taken for the next.  It needs that no handler of  *)
(* the application serves the object (it may give the value another        *)
(* meaning), that no segment of an abandoned block download reads as a     *)
(* command on an object that exists, and that no value read in blocks      *)
(* without a checksum fills its last segment.  Without the last two the    *)
(* client is told of a value that never was.                               *)
THEOREM TransferPromised ==
    ASSUME NoHandlers, SegmentsNameNothing, UnevenValues
    PROVE  SessionSpec => ImplementsTransfer
<1>1. SessionInit => SessionInv
  BY SessionInitInv
<1>2. SessionInv /\ [SessionNext]_sessionVars => SessionInv'
  BY SessionNextInv
<1>3. SessionInit => Promise!Init
  BY InitRefines
<1>4. /\ SessionInv /\ SessionInv' /\ [SessionNext]_sessionVars
      => [Promise!Next]_(Promise!vars)
  BY StepRefines
<1> QED
  BY <1>1, <1>2, <1>3, <1>4, PTL
     DEF SessionSpec, ImplementsTransfer, Promise!Spec
===============================================================================
