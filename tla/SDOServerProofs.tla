--------------------------- MODULE SDOServerProofs ---------------------------
(***************************************************************************)
(* Proofs about SDOServer, for every dictionary, every set of client       *)
(* frames, every behaviour of the application and every sub-block size.    *)
(***************************************************************************)
EXTENDS SDOServer, SequenceTheorems, TLAPS

-----------------------------------------------------------------------------
(* Byte sequences *)

(* A slice s[:n] of bytes is bytes again, of the length asked for or of    *)
(* all that there is.                                                      *)
LEMMA TakeType ==
    ASSUME NEW s \in Seq(Byte), NEW n \in Int
    PROVE  /\ Take(s, n) \in Seq(Byte)
           /\ n >= 0 => Len(Take(s, n)) = Least(n, Len(s))
<1> DEFINE k == Least(n, Len(s))
<1>1. Len(s) \in Nat /\ k \in Int /\ k <= Len(s)
  BY LenProperties DEF Least
<1>2. \A i \in 1..k : s[i] \in Byte
  BY <1>1, ElementOfSeq
<1>3. /\ SubSeq(s, 1, k) \in Seq(Byte)
      /\ Len(SubSeq(s, 1, k)) = IF 1 <= k THEN k - 1 + 1 ELSE 0
  BY <1>1, <1>2, SubSeqProperties
<1>4. n >= 0 => k >= 0
  BY <1>1 DEF Least
<1> QED
  BY <1>1, <1>3, <1>4 DEF Take

(* So is s[n:]. *)
LEMMA DropType ==
    ASSUME NEW s \in Seq(Byte), NEW n \in Nat
    PROVE  Drop(s, n) \in Seq(Byte)
<1>1. Len(s) \in Nat
  BY LenProperties
<1>2. \A i \in (n + 1)..Len(s) : s[i] \in Byte
  BY <1>1, ElementOfSeq
<1> QED
  BY <1>1, <1>2, SubSeqProperties DEF Drop

LEMMA TakeLastType ==
    ASSUME NEW s \in Seq(Byte), NEW n \in Nat
    PROVE  TakeLast(s, n) \in Seq(Byte)
<1>1. Len(s) - Least(n, Len(s)) \in Nat
  BY LenProperties DEF Least
<1> QED
  BY <1>1, DropType DEF TakeLast

LEMMA DropLastType ==
    ASSUME NEW s \in Seq(Byte), NEW n \in Nat
    PROVE  DropLast(s, n) \in Seq(Byte)
<1>1. Len(s) - Least(n, Len(s)) \in Int
  BY LenProperties DEF Least
<1> QED
  BY <1>1, TakeType DEF DropLast

(* The sizes a command byte can declare. *)
LEMMA SizeType ==
    ASSUME NEW f \in Frame
    PROVE  SegSize(f) \in 0..SegLen /\ ExpSize(f) \in 1..ExpLen
             /\ EndSize(f) \in 0..SegLen
<1>1. f.b0 \in 0..255
  BY DEF Frame
<1>2. \A n \in Nat : n % 8 \in 0..7 /\ n % 4 \in 0..3
  OBVIOUS
<1>3. f.b0 \div 2 \in Nat /\ f.b0 \div 4 \in Nat
  BY <1>1
<1> QED
  BY <1>2, <1>3 DEF SegSize, ExpSize, EndSize, SegLen, ExpLen

-----------------------------------------------------------------------------
(* Downloads.  The invariant is carried by the pair of the manager and the *)
(* application, whatever an operation makes of them on its way.            *)

Paired(d, s) == /\ d \in DownloadState /\ s \in SinkState
                /\ s.open = IF d.held /\ ~d.told THEN 1 ELSE 0

Vacant(d) == d.state = "NONE" => /\ d.buffer = <<>>
                                 /\ d.seq = 1 /\ d.toggle = FALSE

Clean(d) == Vacant(d) /\ (d.state = "NONE" /\ d.held => d.told)

DownloadInv == od \in [Mux -> Seq(Byte)] /\ Paired(dl, sink) /\ Clean(dl)

(* _abort leaves no transfer and no handler that waits to be told. *)
LEMMA FreshState ==
    ASSUME NEW d \in DownloadState, NEW t \in TransferStates
    PROVE  /\ Fresh(d, t) \in DownloadState
           /\ Fresh(d, t).state = t
           /\ ~Fresh(d, t).held /\ ~Fresh(d, t).told
           /\ Fresh(d, t).mux = d.mux
           /\ Fresh(d, t).buffer = <<>>
           /\ Fresh(d, t).seq = 1 /\ Fresh(d, t).toggle = FALSE
<1>1. <<>> \in Seq(Byte) /\ 1 \in 1..MaxSeq
  BY MaxSeqAssumption, EmptySeq
<1> QED
  BY <1>1 DEF Fresh, DownloadState

(* Whoever is told is no longer waiting to be told. *)
LEMMA DismissedState ==
    ASSUME NEW d, NEW s, Paired(d, s), d.held
    PROVE  /\ Heard(d, s) \in SinkState /\ Heard(d, s).open = 0
           /\ Dismissed(d, s) \in SinkState /\ Dismissed(d, s).open = 0
<1>1. <<>> \in Seq(Byte)
  BY EmptySeq
<1>2. s.open \in Int /\ (IF d.told THEN s.open ELSE s.open - 1) = 0
  BY DEF Paired, SinkState, DownloadState
<1>3. Heard(d, s) \in SinkState /\ Heard(d, s).open = 0
  BY <1>2 DEF Heard, Paired, SinkState
<1> HIDE DEF Heard
<1> QED
  BY <1>1, <1>3 DEF Dismissed, SinkState

LEMMA AbortedPair ==
    ASSUME NEW d, NEW s, Paired(d, s)
    PROVE  /\ Paired(DlAborted(d), Notified(d, s)) /\ Clean(DlAborted(d))
           /\ DlAborted(d).state = "NONE" /\ ~DlAborted(d).held
           /\ DlAborted(d).mux = d.mux
<1>1. "NONE" \in TransferStates
  BY DEF TransferStates
<1>2. /\ DlAborted(d) \in DownloadState
      /\ DlAborted(d).state = "NONE" /\ ~DlAborted(d).held
      /\ DlAborted(d).mux = d.mux /\ Clean(DlAborted(d))
  BY <1>1, FreshState DEF Paired, DlAborted, Clean, Vacant
<1>3. Notified(d, s) \in SinkState /\ Notified(d, s).open = 0
  BY DismissedState DEF Paired, Notified
<1> QED
  BY <1>2, <1>3 DEF Paired

(* A handler that raises from on_abort has heard it all the same. *)
LEMMA ToldPair ==
    ASSUME NEW d, NEW s, Paired(d, s), Vacant(d), d.held
    PROVE  Paired(Told(d), Heard(d, s)) /\ Clean(Told(d))
<1>1. /\ Told(d) \in DownloadState /\ Told(d).told
      /\ Told(d).state = d.state /\ Told(d).buffer = d.buffer
      /\ Told(d).seq = d.seq /\ Told(d).toggle = d.toggle
  BY DEF Told, Paired, DownloadState
<1> QED
  BY <1>1, DismissedState DEF Paired, Clean, Vacant

(* An initiate starts from a manager without a transfer. *)
LEMMA SettledPair ==
    ASSUME NEW d, NEW s, Paired(d, s), Clean(d)
    PROVE  /\ Paired(Settled(d), SettledSink(d, s)) /\ Clean(Settled(d))
           /\ Settled(d).state = "NONE"
           /\ (Settled(d).held => Settled(d).told)
           /\ Settled(d).mux = d.mux
  BY AbortedPair DEF Settled, SettledSink, Clean, Paired, DownloadState

(* A transfer that is begun has no handler yet. *)
LEMMA StartedPair ==
    ASSUME NEW d, NEW s, Paired(d, s), d.held => d.told,
           NEW t \in TransferStates, NEW m \in Mux
    PROVE  /\ Paired(Started(d, t, m), s) /\ Clean(Started(d, t, m))
           /\ Started(d, t, m).state = t
           /\ ~Started(d, t, m).held /\ ~Started(d, t, m).told
           /\ Started(d, t, m).mux = m
<1>1. Fresh(d, t) \in DownloadState
  BY FreshState DEF Paired
<1>2. /\ Started(d, t, m) \in DownloadState
      /\ Started(d, t, m).mux = m
      /\ Started(d, t, m).state = Fresh(d, t).state
      /\ Started(d, t, m).held = Fresh(d, t).held
      /\ Started(d, t, m).told = Fresh(d, t).told
      /\ Started(d, t, m).buffer = Fresh(d, t).buffer
      /\ Started(d, t, m).seq = Fresh(d, t).seq
      /\ Started(d, t, m).toggle = Fresh(d, t).toggle
  BY <1>1 DEF Started, DownloadState
<1> QED
  BY <1>2, FreshState DEF Paired, Clean, Vacant

(* A handler of the application is opened for a transfer without one. *)
LEMMA HeldPair ==
    ASSUME NEW d, NEW s, Paired(d, s), ~d.held, ~d.told
    PROVE  /\ Paired(Held(d), Opened(s)) /\ (Vacant(d) => Vacant(Held(d)))
           /\ Held(d).held /\ Held(d).state = d.state /\ Held(d).mux = d.mux
<1>1. <<>> \in Seq(Byte)
  BY EmptySeq
<1>2. Opened(s) \in SinkState /\ Opened(s).open = s.open + 1
  BY <1>1 DEF Opened, SinkState, Paired
<1>3. /\ Held(d) \in DownloadState /\ Held(d).held /\ ~Held(d).told
      /\ Held(d).state = d.state /\ Held(d).mux = d.mux
      /\ Held(d).buffer = d.buffer /\ Held(d).seq = d.seq
      /\ Held(d).toggle = d.toggle
  BY DEF Held, DownloadState, Paired
<1> QED
  BY <1>2, <1>3 DEF Paired, Vacant

(* Data are received into the buffer or passed to the handler. *)
LEMMA ReceivedPair ==
    ASSUME NEW d, NEW s, Paired(d, s), NEW data \in Seq(Byte)
    PROVE  /\ Paired(Received(d, data), Passed(d, s, data))
           /\ Received(d, data).state = d.state
           /\ Received(d, data).held = d.held
           /\ Received(d, data).told = d.told
           /\ Received(d, data).mux = d.mux
           /\ Received(d, data).seq = d.seq
<1>1. d.buffer \o data \in Seq(Byte) /\ s.got \o data \in Seq(Byte)
  BY ConcatProperties DEF Paired, DownloadState, SinkState
<1>2. CASE d.held
  <2>1. /\ Passed(d, s, data) \in SinkState
        /\ Passed(d, s, data).open = s.open
    BY <1>1, <1>2 DEF Passed, SinkState, Paired
  <2> QED
    BY <2>1, <1>2 DEF Received, Paired
<1>3. CASE ~d.held
  BY <1>1, <1>3 DEF Received, Extended, Passed, Paired, DownloadState
<1> QED
  BY <1>2, <1>3 DEF Paired, DownloadState

-----------------------------------------------------------------------------
(* The ways an operation ends *)

(* A step that leaves a clean pair and the dictionary alone. *)
LEMMA ContinueInv ==
    ASSUME DownloadInv, NEW d, NEW s, NEW frames, Continue(d, s, frames),
           Paired(d, s), Clean(d)
    PROVE  DownloadInv'
  BY DEF DownloadInv, Continue, Paired, Clean

LEMMA AbortedInv ==
    ASSUME DownloadInv, NEW d, NEW s, Paired(d, s), NEW code, NEW m,
           Refuse(DlAborted(d), Notified(d, s), code, m)
    PROVE  DownloadInv'
  BY AbortedPair, ContinueInv DEF Refuse

LEMMA AbortFailsInv ==
    ASSUME DownloadInv, NEW d, NEW s, Paired(d, s), Vacant(d), NEW f,
           AbortFails(d, s, f)
    PROVE  DownloadInv'
  BY ToldPair, ContinueInv DEF AbortFails, GeneralFailure

LEMMA ReceiveFailsInv ==
    ASSUME DownloadInv, NEW d, NEW s, Paired(d, s), Vacant(d), NEW f,
           ReceiveFails(d, s, f)
    PROVE  DownloadInv'
  BY AbortedInv, AbortFailsInv DEF ReceiveFails

(* _finish leaves no transfer, whether or not the data were taken. *)
LEMMA FinishInv ==
    ASSUME DownloadInv, NEW d, NEW s, Paired(d, s), NEW frames,
           Finish(d, s, frames)
    PROVE  DownloadInv'
<1>1. /\ Clean(DlAborted(d)) /\ DlAborted(d) \in DownloadState
      /\ ~DlAborted(d).held
  BY AbortedPair DEF Paired
<1>2. CASE FinishHandler(d, s, frames)
  <2>1. Dismissed(d, s) \in SinkState /\ Dismissed(d, s).open = 0
    BY <1>2, DismissedState DEF FinishHandler
  <2> DEFINE t == [Dismissed(d, s) EXCEPT !.filed[d.mux] = s.got]
  <2>2. t \in SinkState /\ t.open = 0
    BY <2>1 DEF SinkState, Paired, DownloadState
  <2>3. Paired(DlAborted(d), Dismissed(d, s)) /\ Paired(DlAborted(d), t)
    BY <1>1, <2>1, <2>2 DEF Paired
  <2> QED
    BY <1>1, <1>2, <2>3, ContinueInv DEF FinishHandler, Refuse
<1>3. CASE FinishVariable(d, s, frames)
  <2>1. Paired(DlAborted(d), s)
    BY <1>1, <1>3 DEF Paired, FinishVariable
  <2>2. dl' = DlAborted(d) /\ sink' = s
    BY <1>3 DEF FinishVariable
  <2>3. od' = od \/ od' = [od EXCEPT ![d.mux] = d.buffer]
    BY <1>3 DEF FinishVariable
  <2>4. od' \in [Mux -> Seq(Byte)]
    BY <2>3 DEF DownloadInv, Paired, DownloadState
  <2> QED
    BY <1>1, <2>1, <2>2, <2>4 DEF DownloadInv, Paired, Clean, Vacant
<1> QED
  BY <1>2, <1>3 DEF Finish

-----------------------------------------------------------------------------
(* The operations of a download *)

LEMMA FrameType ==
    ASSUME NEW f \in Frame
    PROVE  /\ f.b0 \in 0..255 /\ f.mux \in Mux /\ f.data \in Seq(Byte)
           /\ f.ack \in Nat /\ f.blk \in Nat /\ f.crc \in Seq(Byte)
  BY DEF Frame

LEMMA SettleFailsInv ==
    ASSUME DownloadInv, NEW f, SettleFails(f)
    PROVE  DownloadInv'
  BY AbortFailsInv DEF SettleFails, DownloadInv, Clean

LEMMA InitRefusedInv ==
    ASSUME DownloadInv, NEW f, InitRefused(f)
    PROVE  DownloadInv'
<1>1. Paired(Settled(dl), SettledSink(dl, sink)) /\ Clean(Settled(dl))
  BY SettledPair DEF DownloadInv
<1> QED
  BY <1>1, ContinueInv DEF InitRefused, Refuse

LEMMA OpenSegmentedInv ==
    ASSUME DownloadInv, NEW f \in Frame, OpenSegmented(f)
    PROVE  DownloadInv'
<1> DEFINE d == Started(Settled(dl), "SEGMENT", f.mux)
           s == SettledSink(dl, sink)
<1>1. Paired(Settled(dl), s) /\ (Settled(dl).held => Settled(dl).told)
  BY SettledPair DEF DownloadInv
<1>2. /\ Paired(d, s) /\ Clean(d) /\ d.state = "SEGMENT"
      /\ ~d.held /\ ~d.told
  BY <1>1, StartedPair, FrameType DEF TransferStates
<1>3. Paired(Held(d), Opened(s)) /\ Clean(Held(d))
  BY <1>2, HeldPair DEF Clean, Vacant
<1>4. \/ Continue(d, s, <<InitReply(f.mux)>>)
      \/ Continue(Held(d), Opened(s), <<InitReply(f.mux)>>)
      \/ Continue(d, s, <<GeneralError(f)>>)
  BY DEF OpenSegmented, GeneralFailure
<1> HIDE DEF d, s
<1> QED
  BY <1>2, <1>3, <1>4, ContinueInv

LEMMA ExpediteInv ==
    ASSUME DownloadInv, NEW f \in Frame, Expedite(f)
    PROVE  DownloadInv'
<1> DEFINE d == Fresh(Settled(dl), "NONE")
           s == SettledSink(dl, sink)
           e == Started(Settled(dl), "NONE", f.mux)
           data == Take(ExpData(f), ExpeditedSize(f))
           confirm == <<InitReply(f.mux)>>
<1>1. /\ Paired(Settled(dl), s) /\ Clean(Settled(dl))
      /\ (Settled(dl).held => Settled(dl).told)
  BY SettledPair DEF DownloadInv
<1>2. "NONE" \in TransferStates /\ f.mux \in Mux
  BY FrameType DEF TransferStates
<1>3. Paired(e, s) /\ Vacant(e) /\ ~e.held /\ ~e.told
  BY <1>1, <1>2, StartedPair DEF Clean
<1>4. Paired(d, s) /\ Clean(d)
  BY <1>1, <1>2, FreshState DEF Paired, Clean, Vacant
<1>5. data \in Seq(Byte)
  <2>1. ExpData(f) \in Seq(Byte)
    BY FrameType, DropType DEF ExpData, HeadLen
  <2>2. ExpeditedSize(f) \in Int
    BY <1>2, SizeType, SizeAssumption DEF ExpeditedSize, ExpLen
  <2> QED
    BY <2>1, <2>2, TakeType
<1>6. Paired(Held(e), Opened(s)) /\ Vacant(Held(e))
  BY <1>3, HeldPair
<1>7. /\ Paired(Received(e, data), Passed(e, s, data))
      /\ Paired(Received(Held(e), data), Passed(Held(e), Opened(s), data))
  BY <1>3, <1>5, <1>6, ReceivedPair
<1>8. /\ Passed(e, s, data) = s
      /\ Received(Held(e), data) = Held(e)
  BY <1>3, HeldPair DEF Passed, Received
<1>9. \/ Refuse(Settled(dl), s, "0x06070010", dl.mux)
      \/ Finish(Received(e, data), s, confirm)
      \/ ReceiveFails(Held(e), Opened(s), f)
      \/ Finish(Held(e), Passed(Held(e), Opened(s), data), confirm)
      \/ Continue(d, s, <<GeneralError(f)>>)
  BY DEF Expedite, GeneralFailure
<1> HIDE DEF d, s, e, data, confirm
<1>10. CASE Refuse(Settled(dl), s, "0x06070010", dl.mux)
  BY <1>1, <1>10, ContinueInv DEF Refuse
<1>11. CASE Finish(Received(e, data), s, confirm)
  BY <1>7, <1>8, <1>11, FinishInv
<1>12. CASE ReceiveFails(Held(e), Opened(s), f)
  BY <1>6, <1>12, ReceiveFailsInv
<1>13. CASE Finish(Held(e), Passed(Held(e), Opened(s), data), confirm)
  BY <1>7, <1>8, <1>13, FinishInv
<1>14. CASE Continue(d, s, <<GeneralError(f)>>)
  BY <1>4, <1>14, ContinueInv
<1> QED
  BY <1>9, <1>10, <1>11, <1>12, <1>13, <1>14

LEMMA OpenBlockInv ==
    ASSUME DownloadInv, NEW f \in Frame, OpenBlock(f)
    PROVE  DownloadInv'
<1> DEFINE b == Started(Settled(dl), "BLOCK", f.mux)
           d == [b EXCEPT !.check = Bit(f, 4)]
           s == SettledSink(dl, sink)
<1>1. Paired(Settled(dl), s) /\ (Settled(dl).held => Settled(dl).told)
  BY SettledPair DEF DownloadInv
<1>2. Paired(b, s) /\ b.state = "BLOCK" /\ ~b.held /\ ~b.told
  BY <1>1, StartedPair, FrameType DEF TransferStates
<1>3. Bit(f, 4) \in BOOLEAN
  BY DEF Bit
<1> HIDE DEF b, s
<1>4. Paired(d, s) /\ d.state = "BLOCK" /\ ~d.held /\ ~d.told
  BY <1>2, <1>3 DEF Paired, DownloadState
<1>5. \/ Continue(d, s, <<BlockReply(f.mux)>>)
      \/ Continue(Held(d), Opened(s), <<BlockReply(f.mux)>>)
      \/ Continue(d, s, <<GeneralError(f)>>)
  BY DEF OpenBlock, GeneralFailure, b, s
<1> HIDE DEF d
<1>6. Clean(d) /\ Paired(Held(d), Opened(s)) /\ Clean(Held(d))
  BY <1>4, HeldPair DEF Clean, Vacant
<1> QED
  BY <1>4, <1>5, <1>6, ContinueInv

LEMMA AbortDownloadInv ==
    ASSUME DownloadInv, NEW d, Paired(d, sink), Vacant(d), NEW code, NEW m,
           NEW f, AbortDownload(d, code, m, f)
    PROVE  DownloadInv'
  BY AbortedInv, AbortFailsInv DEF AbortDownload

LEMMA DownloadSegmentInv ==
    ASSUME DownloadInv, NEW f \in Frame, DownloadSegment(f)
    PROVE  DownloadInv'
<1> DEFINE data == Take(f.data, SegSize(f))
           d == [dl EXCEPT !.toggle = ~@]
           confirm == <<SegmentReply(Toggle(f))>>
<1>1. CASE \E code, m : AbortDownload(dl, code, m, f)
  BY <1>1, AbortDownloadInv DEF DownloadInv, Clean
<1>2. CASE /\ dl.state = "SEGMENT"
           /\ \/ ReceiveFails(d, sink, f)
              \/ Finish(Received(d, data), Passed(d, sink, data), confirm)
              \/ Continue(Received(d, data), Passed(d, sink, data), confirm)
  <2>1. data \in Seq(Byte)
    <3>1. f.data \in Seq(Byte) /\ SegSize(f) \in Int
      BY FrameType, SizeType DEF SegLen
    <3> QED
      BY <3>1, TakeType
  <2>2. Paired(d, sink) /\ d.state = "SEGMENT"
    BY <1>2 DEF DownloadInv, Paired, DownloadState
  <2> HIDE DEF data, d, confirm
  <2>3. /\ Paired(Received(d, data), Passed(d, sink, data))
        /\ Clean(Received(d, data))
    BY <2>1, <2>2, ReceivedPair DEF Clean, Vacant
  <2>4. Vacant(d)
    BY <2>2 DEF Vacant
  <2> QED
    BY <1>2, <2>2, <2>3, <2>4, ReceiveFailsInv, FinishInv, ContinueInv
<1> QED
  BY <1>1, <1>2 DEF DownloadSegment

(* The checksum and the sequence number move on. *)
LEMMA CheckedPair ==
    ASSUME NEW d, NEW s, Paired(d, s), NEW data \in Seq(Byte)
    PROVE  /\ Paired(Checked(d, data), s)
           /\ Checked(d, data).state = d.state
           /\ Checked(d, data).held = d.held
           /\ Checked(d, data).told = d.told
           /\ Checked(d, data).toggle = d.toggle
           /\ Checked(d, data).mux = d.mux
           /\ Checked(d, data).seq = d.seq
           /\ Checked(d, data).buffer = d.buffer
<1>1. d.crc \o data \in Seq(Byte)
  BY ConcatProperties DEF Paired, DownloadState
<1> QED
  BY <1>1 DEF Checked, Paired, DownloadState

LEMMA CountedPair ==
    ASSUME NEW d, NEW s, Paired(d, s), NEW full \in BOOLEAN,
           full \/ d.seq # MaxSeq
    PROVE  /\ Paired(Counted(d, full), s)
           /\ Counted(d, full).state = d.state
<1>1. (IF full THEN 1 ELSE d.seq + 1) \in 1..MaxSeq
  BY MaxSeqAssumption DEF Paired, DownloadState
<1> QED
  BY <1>1 DEF Counted, Paired, DownloadState

LEMMA DownloadSubBlockInv ==
    ASSUME DownloadInv, dl.state = "BLOCK", NEW f \in Frame,
           DownloadSubBlock(f)
    PROVE  DownloadInv'
<1> DEFINE c == Checked(dl, f.data)
           r == Received(c, f.data)
           n == Counted(r, SubBlockFull(f))
           s == Passed(dl, sink, f.data)
           x == [Extended(dl, f.data) EXCEPT !.state = "BLOCK_END"]
           e == Counted(x, TRUE)
<1>1. f.data \in Seq(Byte) /\ Paired(dl, sink)
  BY FrameType DEF DownloadInv
<1>2. Paired(c, sink) /\ c.state = "BLOCK" /\ c.held = dl.held /\ c.seq = dl.seq
  BY <1>1, CheckedPair
<1>3. Paired(r, s) /\ r.state = "BLOCK" /\ r.seq = dl.seq
  <2>1. Passed(c, sink, f.data) = s
    BY <1>2 DEF Passed
  <2> QED
    BY <1>1, <1>2, <2>1, ReceivedPair
<1>4. Paired(n, s) /\ Clean(n)
  <2>1. SubBlockFull(f) \in BOOLEAN /\ (SubBlockFull(f) \/ r.seq # MaxSeq)
    BY <1>3 DEF SubBlockFull, LastSub
  <2> HIDE DEF r, s
  <2> QED
    BY <1>3, <2>1, CountedPair DEF Clean, Vacant
<1>5. Paired(e, sink) /\ Clean(e)
  <2>1. dl.buffer \o f.data \in Seq(Byte)
    BY <1>1, ConcatProperties DEF Paired, DownloadState
  <2>2. Paired(x, sink) /\ x.state = "BLOCK_END"
    BY <1>1, <2>1 DEF Extended, Paired, DownloadState, TransferStates
  <2> HIDE DEF x
  <2> QED
    BY <2>2, CountedPair DEF Clean, Vacant
<1>6. \/ AbortDownload(dl, "0x05040003", dl.mux, f)
      \/ ReceiveFails(c, sink, f)
      \/ Continue(n, s, SubBlockAck(f))
      \/ Continue(e, sink, SubBlockAck(f))
  BY DEF DownloadSubBlock
<1>7. Vacant(dl) /\ Vacant(c)
  BY <1>2 DEF Vacant
<1> HIDE DEF c, n, s, e
<1> QED
  BY <1>1, <1>2, <1>4, <1>5, <1>6, <1>7, AbortDownloadInv, ReceiveFailsInv,
     ContinueInv

(* The pieces of the buffer download_block_end works with. *)
LEMMA BlockEndPair ==
    ASSUME DownloadInv, NEW f \in Frame
    PROVE  LET size == EndSize(f)
               last == Take(dl.buffer, size)
               d    == Checked(dl, Take(TakeLast(dl.buffer, SegLen), size))
               t    == Trimmed(d, size)
           IN  /\ Paired(d, sink) /\ d.mux = dl.mux /\ d.held = dl.held
               /\ d.buffer = dl.buffer /\ Vacant(d)
               /\ Paired(t, sink) /\ t.mux = dl.mux
               /\ d.held => Paired(d, Passed(d, sink, last))
<1> DEFINE size == EndSize(f)
           last == Take(dl.buffer, size)
           tail == Take(TakeLast(dl.buffer, SegLen), size)
           d    == Checked(dl, tail)
           t    == Trimmed(d, size)
<1>1. Paired(dl, sink) /\ dl.buffer \in Seq(Byte) /\ size \in 0..SegLen
  BY SizeType DEF DownloadInv, Paired, DownloadState
<1>2. last \in Seq(Byte) /\ tail \in Seq(Byte)
  <2> HIDE DEF size
  <2>1. SegLen \in Nat /\ size \in Int
    BY <1>1 DEF SegLen
  <2>2. TakeLast(dl.buffer, SegLen) \in Seq(Byte)
    BY <1>1, <2>1, TakeLastType
  <2> QED
    BY <1>1, <2>1, <2>2, TakeType
<1>3. /\ Paired(d, sink) /\ d.mux = dl.mux /\ d.held = dl.held
      /\ d.buffer = dl.buffer /\ Vacant(d)
  BY <1>1, <1>2, CheckedPair DEF DownloadInv, Clean, Vacant
<1>4. Paired(t, sink) /\ t.mux = dl.mux
  <2> HIDE DEF d, size
  <2>1. size # SegLen => DropLast(d.buffer, SegLen - size) \in Seq(Byte)
    BY <1>1, <1>3, DropLastType DEF Paired, DownloadState, SegLen
  <2> QED
    BY <1>3, <2>1 DEF Trimmed, Paired, DownloadState
<1>5. d.held => Paired(d, Passed(d, sink, last))
  <2> HIDE DEF d, last
  <2>1. d.held => Received(d, last) = d
    BY DEF Received
  <2> QED
    BY <1>2, <1>3, <2>1, ReceivedPair
<1> QED
  BY <1>3, <1>4, <1>5

LEMMA DownloadBlockEndInv ==
    ASSUME DownloadInv, NEW f \in Frame, DownloadBlockEnd(f)
    PROVE  DownloadInv'
<1> DEFINE size == EndSize(f)
           d    == Checked(dl, Take(TakeLast(dl.buffer, SegLen), size))
           t    == Trimmed(d, size)
           p    == Passed(d, sink, Take(dl.buffer, size))
<1>1. /\ Paired(d, sink) /\ Paired(t, sink) /\ (d.held => Paired(d, p))
      /\ Vacant(d) /\ Paired(dl, sink) /\ Vacant(dl)
  BY BlockEndPair DEF DownloadInv, Clean
<1>2. \/ \E code, m : AbortDownload(dl, code, m, f)
      \/ \E code, m : AbortDownload(d, code, m, f)
      \/ ~d.held /\ Finish(t, sink, <<BlockEndReply>>)
      \/ ReceiveFails(d, sink, f)
      \/ d.held /\ Finish(d, p, <<BlockEndReply>>)
  BY DEF DownloadBlockEnd
<1> HIDE DEF d, t, p
<1> QED
  BY <1>1, <1>2, AbortDownloadInv, FinishInv, ReceiveFailsInv

LEMMA ClientAbortsDownloadInv ==
    ASSUME DownloadInv, NEW f, ClientAbortsDownload(f), UNCHANGED od
    PROVE  DownloadInv'
  BY AbortedPair DEF DownloadInv, ClientAbortsDownload, Paired, Clean, Vacant

LEMMA DownloadStepInv ==
    ASSUME DownloadInv, NEW f \in Frame, DownloadStep(f)
    PROVE  DownloadInv'
<1>1. CASE Route(f) = "download_sub_block" /\ DownloadSubBlock(f)
  <2>1. dl.state = "BLOCK"
    BY <1>1 DEF Route
  <2> QED
    BY <1>1, <2>1, DownloadSubBlockInv
<1>2. CASE DownloadSegment(f)
  BY <1>2, DownloadSegmentInv
<1>3. CASE InitDownload(f)
  BY <1>3, SettleFailsInv, InitRefusedInv, OpenSegmentedInv, ExpediteInv
  DEF InitDownload
<1>4. CASE DownloadBlockEnd(f)
  BY <1>4, DownloadBlockEndInv
<1>5. CASE DownloadBlockInit(f)
  BY <1>5, SettleFailsInv, InitRefusedInv, OpenBlockInv DEF DownloadBlockInit
<1> QED
  BY <1>1, <1>2, <1>3, <1>4, <1>5 DEF DownloadStep

-----------------------------------------------------------------------------
(* Uploads.  Whether each handler is told that its transfer is over        *)
(* depends on whether a read can fail halfway or a frame is too short, so  *)
(* the ledger is part of the invariant under the condition that none is.   *)

NoHalfwayFailure ==
    "on_read" \notin Faults /\ \A f \in Frames : ~Truncated(f)

UPaired(u, n) ==
    /\ u \in UploadState /\ n \in Int
    /\ NoHalfwayFailure =>
         n = IF u.stream.kind = "handler" /\ ~u.told THEN 1 ELSE 0

UClean(u) ==
    /\ u.state # "NONE" => u.stream.kind # "none"
    /\ NoHalfwayFailure /\ u.state = "NONE" /\ u.stream.kind = "handler" =>
         u.told

UploadInv == UPaired(ul, source) /\ UClean(ul)

(* Ending a transfer drops the stream and tells its handler. *)
LEMMA EndedPair ==
    ASSUME NEW u, NEW n, UPaired(u, n)
    PROVE  /\ UPaired(Ended(u), Closed(u, n)) /\ UClean(Ended(u))
           /\ Ended(u).stream = NoStream /\ Ended(u).state = "NONE"
           /\ Ended(u).mux = u.mux
<1>1. NoStream \in Stream /\ NoStream.kind = "none"
  BY EmptySeq DEF NoStream, Stream
<1>2. <<>> \in Seq(Byte) /\ "NONE" \in TransferStates
  BY EmptySeq DEF TransferStates
<1>3. /\ Ended(u) \in UploadState /\ Ended(u).stream = NoStream
      /\ Ended(u).state = "NONE" /\ Ended(u).mux = u.mux
  BY <1>1, <1>2 DEF Ended, UploadState, UPaired
<1>4. Closed(u, n) \in Int
  BY DEF Closed, UPaired
<1>5. NoHalfwayFailure => Closed(u, n) = 0
  BY DEF Closed, UPaired
<1> QED
  BY <1>1, <1>3, <1>4, <1>5 DEF UPaired, UClean

LEMMA SettledUploadPair ==
    ASSUME NEW u, NEW n, UPaired(u, n), UClean(u)
    PROVE  /\ UPaired(SettledUpload(u), SettledSource(u, n))
           /\ UClean(SettledUpload(u)) /\ SettledUpload(u).state = "NONE"
  BY EndedPair DEF SettledUpload, SettledSource, UlAborted

(* Reading moves the stream on and nothing else. *)
LEMMA AdvancedPair ==
    ASSUME NEW u, NEW n, UPaired(u, n), NEW k \in Nat
    PROVE  /\ UPaired(Advanced(u, k), n)
           /\ Advanced(u, k).state = u.state
           /\ Advanced(u, k).stream.kind = u.stream.kind
           /\ Advanced(u, k).told = u.told
<1>1. u.stream \in Stream
  BY DEF UPaired, UploadState
<1>2. Drop(u.stream.left, k) \in Seq(Byte)
  BY <1>1, DropType DEF Stream
<1> DEFINE t == [u.stream EXCEPT !.left = Drop(@, k)]
<1>3. t \in Stream /\ t.kind = u.stream.kind
  BY <1>1, <1>2 DEF Stream
<1>4. Advanced(u, k) = [u EXCEPT !.stream = t]
  BY DEF Advanced, UPaired, UploadState
<1> HIDE DEF t
<1> QED
  BY <1>3, <1>4 DEF UPaired, UploadState

LEMMA AnswerInv ==
    ASSUME UploadInv, NEW u, NEW n, NEW frames, Answer(u, n, frames),
           UPaired(u, n), UClean(u)
    PROVE  UploadInv'
  BY DEF UploadInv, Answer, UPaired, UClean

(* A handler that raises when it is told has heard it all the same.        *)
LEMMA CloseFailsInv ==
    ASSUME UploadInv, NEW u, NEW n, UPaired(u, n), NEW point, NEW f,
           CloseFails(u, n, point, f)
    PROVE  UploadInv'
<1> DEFINE t == [u EXCEPT !.told = TRUE]
<1>1. Closed(u, n) \in Int /\ (NoHalfwayFailure => Closed(u, n) = 0)
  BY DEF Closed, CloseFails, UPaired
<1>2. t \in UploadState /\ t.told /\ t.stream.kind = "handler"
  BY DEF CloseFails, UPaired, UploadState
<1> HIDE DEF t
<1>3. UPaired(t, Closed(u, n)) /\ UClean(t)
  BY <1>1, <1>2 DEF UPaired, UClean
<1> QED
  BY <1>3, AnswerInv DEF CloseFails, t

LEMMA AbortUploadInv ==
    ASSUME UploadInv, NEW code, NEW m, NEW f, AbortUpload(code, m, f)
    PROVE  UploadInv'
  BY EndedPair, AnswerInv, CloseFailsInv
  DEF UploadInv, AbortUpload, RefuseUpload, UlAborted

(* A transfer with its stream is begun, completed at once or refused. *)
LEMMA StartUploadInv ==
    ASSUME UploadInv, NEW u, NEW n,
           NEW f \in Frame, NoHalfwayFailure => ~Truncated(f),
           UPaired(u, n), u.state = "NONE", u.stream.kind # "none", ~u.told,
           StartUpload(u, n, f)
    PROVE  UploadInv'
<1> DEFINE b == [u EXCEPT !.state = "BLOCK", !.check = Bit(f, 4),
                          !.crc = <<>>, !.blk = f.blk]
           g == [u EXCEPT !.state = "SEGMENT", !.toggle = FALSE]
<1>1. f.blk \in Nat /\ Bit(f, 4) \in BOOLEAN /\ <<>> \in Seq(Byte)
  BY FrameType, EmptySeq DEF Bit
<1>2. UPaired(b, n) /\ UClean(b)
  BY <1>1 DEF UPaired, UClean, UploadState, TransferStates
<1>3. UPaired(g, n) /\ UClean(g)
  BY DEF UPaired, UClean, UploadState, TransferStates
<1>4. UPaired(Ended(u), Closed(u, n)) /\ UClean(Ended(u))
  BY EndedPair
<1>5. Truncated(f) \/ MayRaise(u.stream) => UClean(u)
  BY DEF UClean, NoHalfwayFailure, MayRaise
<1> DEFINE a == Advanced(u, ExpLen)
<1>7. UPaired(a, n)
  BY AdvancedPair DEF ExpLen
<1>6. \/ Truncated(f) /\ \E frames : Answer(u, n, frames)
      \/ \E frames : Answer(Ended(u), Closed(u, n), frames)
      \/ \E frames : Answer(b, n, frames)
      \/ MayRaise(u.stream) /\ \E frames : Answer(u, n, frames)
      \/ \E frames : Answer(g, n, frames)
      \/ \E point : CloseFails(u, n, point, f)
      \/ \E point : CloseFails(a, n, point, f)
  BY DEF StartUpload, RefuseUpload
<1> HIDE DEF a, b, g
<1> QED
  BY <1>2, <1>3, <1>4, <1>5, <1>6, <1>7, AnswerInv, CloseFailsInv

LEMMA SetUpInv ==
    ASSUME UploadInv, od \in [Mux -> Seq(Byte)],
           NEW f \in Frame, NoHalfwayFailure => ~Truncated(f), SetUp(f)
    PROVE  UploadInv'
<1> DEFINE v == SettledUpload(ul)
           n == SettledSource(ul, source)
           u == [v EXCEPT !.mux = f.mux]
           With(stream) == [u EXCEPT !.stream = stream, !.told = FALSE]
<1>1. UPaired(v, n) /\ UClean(v) /\ v.state = "NONE"
  BY SettledUploadPair DEF UploadInv
<1>2. f.mux \in Mux
  BY FrameType
<1> HIDE DEF v, n
<1>3. /\ UPaired(u, n) /\ UClean(u) /\ u.state = "NONE"
      /\ u.stream = v.stream /\ u.told = v.told
  BY <1>1, <1>2 DEF UPaired, UClean, UploadState
<1> HIDE DEF u
<1>4. ASSUME NEW stream \in Stream
      PROVE  /\ With(stream) \in UploadState /\ With(stream).stream = stream
             /\ With(stream).state = "NONE" /\ ~With(stream).told
  BY <1>3 DEF UPaired, UploadState
<1>5. NoHalfwayFailure => n = 0
  BY <1>3 DEF UPaired, UClean
<1>6. ASSUME NEW data \in Served, NEW size \in {Len(data), Unsized},
             StartUpload(With(HandlerStream(data, size)), n + 1, f)
      PROVE  UploadInv'
  <2> DEFINE stream == HandlerStream(data, size)
  <2>1. stream \in Stream /\ stream.kind = "handler"
    BY ServedAssumption, LenProperties DEF HandlerStream, Stream, Unsized
  <2> HIDE DEF stream
  <2>2. UPaired(With(stream), n + 1)
    <3>1. /\ With(stream) \in UploadState /\ With(stream).stream = stream
          /\ ~With(stream).told
      BY <1>4, <2>1
    <3> HIDE DEF With
    <3> QED
      BY <1>3, <1>5, <2>1, <3>1 DEF UPaired
  <2> HIDE DEF With
  <2> QED
    BY <1>4, <1>6, <2>1, <2>2, StartUploadInv DEF stream
<1>7. ASSUME StartUpload(With(FixedStream(od[f.mux])), n, f)
      PROVE  UploadInv'
  <2> DEFINE stream == FixedStream(od[f.mux])
  <2>1. stream \in Stream /\ stream.kind = "fixed"
    BY <1>2, LenProperties DEF FixedStream, Stream
  <2> HIDE DEF stream
  <2>2. UPaired(With(stream), n)
    BY <1>3, <1>4, <1>5, <2>1 DEF UPaired
  <2> HIDE DEF With
  <2> QED
    BY <1>4, <1>7, <2>1, <2>2, StartUploadInv DEF stream
<1>8. ASSUME NEW frames, Answer(u, n, frames)
      PROVE  UploadInv'
  BY <1>3, <1>8, AnswerInv
<1>9. \/ \E data \in Served : \E size \in {Len(data), Unsized} :
            StartUpload(With(HandlerStream(data, size)), n + 1, f)
      \/ StartUpload(With(FixedStream(od[f.mux])), n, f)
      \/ \E frames : Answer(u, n, frames)
  BY DEF SetUp, RefuseUpload, u, v, n
<1> HIDE DEF With
<1> QED
  BY <1>6, <1>7, <1>8, <1>9

LEMMA InitUploadInv ==
    ASSUME UploadInv, od \in [Mux -> Seq(Byte)],
           NEW f \in Frame, NoHalfwayFailure => ~Truncated(f), InitUpload(f)
    PROVE  UploadInv'
<1>1. CASE SetUp(f)
  BY <1>1, SetUpInv
<1>2. CASE \E frames : Answer(SettledUpload(ul), SettledSource(ul, source),
                              frames)
  BY <1>2, SettledUploadPair, AnswerInv DEF UploadInv
<1>3. CASE CloseFails(ul, source, "abort", f)
  BY <1>3, CloseFailsInv DEF UploadInv
<1> QED
  BY <1>1, <1>2, <1>3 DEF InitUpload, RefuseUpload

LEMMA UploadSegmentInv ==
    ASSUME UploadInv, NEW f, UploadSegment(f)
    PROVE  UploadInv'
<1> DEFINE u    == [ul EXCEPT !.toggle = ~@]
           rest == Advanced(u, SegLen)
           none == [rest EXCEPT !.state = "NONE"]
<1>1. CASE \E code, m : AbortUpload(code, m, f)
  BY <1>1, AbortUploadInv
<1>2. CASE ul.state = "SEGMENT" /\ ~\E code, m : AbortUpload(code, m, f)
  <2>1. /\ UPaired(u, source) /\ u.state = "SEGMENT"
        /\ u.stream.kind # "none"
    BY <1>2 DEF UploadInv, UPaired, UClean, UploadState
  <2>2. Closed(rest, source) = Closed(rest, source) /\ SegLen \in Nat
    BY DEF SegLen
  <2> HIDE DEF u
  <2>3. /\ UPaired(rest, source) /\ rest.state = "SEGMENT"
        /\ rest.stream.kind # "none"
    BY <2>1, <2>2, AdvancedPair
  <2>4. \/ \E frames : Answer(Ended(rest), Closed(rest, source), frames)
        \/ \E frames : Answer(rest, source, frames)
        \/ \E frames : Answer(u, source, frames)
        \/ CloseFails(none, source, "release", f)
    BY <1>2 DEF UploadSegment, u
  <2> HIDE DEF rest
  <2>5. UClean(u) /\ UClean(rest)
    BY <2>1, <2>3 DEF UClean
  <2>6. UPaired(none, source)
    BY <2>3 DEF UPaired, UploadState, TransferStates
  <2> HIDE DEF none
  <2> QED
    BY <2>1, <2>3, <2>4, <2>5, <2>6, EndedPair, AnswerInv, CloseFailsInv
<1> QED
  BY <1>1, <1>2 DEF UploadSegment

LEMMA UploadSubBlockInv ==
    ASSUME UploadInv, ul.state \in {"BLOCK", "BLOCK_END"}, NEW f \in Frame,
           UploadSubBlock(f)
    PROVE  UploadInv'
<1> DEFINE n == f.ack * SegLen
           data == Take(ul.stream.left, n)
           a == Advanced(ul, n)
           u == Acknowledged(f)
           e == [u EXCEPT !.state = "BLOCK_END"]
<1>1. n \in Nat /\ f.blk \in Nat
  BY FrameType DEF SegLen
<1>2. UPaired(ul, source) /\ UClean(ul) /\ ul.stream.kind # "none"
  BY DEF UploadInv, UClean
<1>3. data \in Seq(Byte)
  <2>1. ul.stream.left \in Seq(Byte)
    BY <1>2 DEF UPaired, UploadState, Stream
  <2>2. n \in Int
    BY <1>1
  <2> HIDE DEF n
  <2> QED
    BY <2>1, <2>2, TakeType
<1>4. UPaired(a, source) /\ a.state = ul.state /\ a.stream.kind # "none"
  <2> HIDE DEF n
  <2> QED
    BY <1>1, <1>2, AdvancedPair
<1>5. UPaired(u, source) /\ u.state = ul.state /\ u.stream.kind # "none"
  <2>1. a.crc \o data \in Seq(Byte)
    BY <1>3, <1>4, ConcatProperties DEF UPaired, UploadState
  <2>2. u = [a EXCEPT !.blk = f.blk,
                      !.crc = IF ul.check THEN @ \o data ELSE @]
    BY DEF Acknowledged
  <2> HIDE DEF a, data, u
  <2> QED
    BY <1>1, <1>4, <2>1, <2>2 DEF UPaired, UploadState
<1>6. \/ \E frames : Answer(Ended(ul), Closed(ul, source), frames)
      \/ \E frames : Answer(ul, source, frames)
      \/ \E frames : Answer(u, source, frames)
      \/ \E frames : Answer(e, source, frames)
      \/ CloseFails(ul, source, "release", f)
  BY DEF UploadSubBlock, SendSubBlock
<1> HIDE DEF u
<1>7. UPaired(e, source) /\ UClean(e) /\ UClean(u)
  BY <1>5 DEF UPaired, UClean, UploadState, TransferStates
<1> HIDE DEF e
<1> QED
  BY <1>2, <1>5, <1>6, <1>7, EndedPair, AnswerInv, CloseFailsInv

LEMMA ClientAbortsUploadInv ==
    ASSUME UploadInv, NEW f, ClientAbortsUpload(f)
    PROVE  UploadInv'
<1>1. \/ ul' = Ended(ul) /\ source' = Closed(ul, source)
      \/ ul' = ul /\ source' = source
  BY DEF ClientAbortsUpload, UlAborted
<1> QED
  BY <1>1, EndedPair DEF UploadInv, UPaired, UClean

(* An upload leaves the dictionary and the download manager alone. *)
LEMMA UploadsOnlyRead ==
    ASSUME NEW f, UploadStep(f)
    PROVE  UNCHANGED <<od, dl, sink>>
  BY DEF UploadStep, UploadSubBlock, InitUpload, SetUp, StartUpload,
         UploadSegment, SendSubBlock, AbortUpload, CloseFails, RefuseUpload,
         Answer, downloadVars

LEMMA UploadStepInv ==
    ASSUME UploadInv, od \in [Mux -> Seq(Byte)],
           NEW f \in Frame, NoHalfwayFailure => ~Truncated(f), UploadStep(f)
    PROVE  UploadInv' /\ od' = od
<1>1. od' = od
  BY UploadsOnlyRead
<1>2. CASE Route(f) = "upload_sub_block" /\ UploadSubBlock(f)
  <2>1. ul.state \in {"BLOCK", "BLOCK_END"}
    BY <1>2 DEF Route
  <2> QED
    BY <1>1, <1>2, <2>1, UploadSubBlockInv
<1>3. CASE InitUpload(f)
  BY <1>1, <1>3, InitUploadInv
<1>4. CASE UploadSegment(f)
  BY <1>1, <1>4, UploadSegmentInv
<1> QED
  BY <1>2, <1>3, <1>4 DEF UploadStep

-----------------------------------------------------------------------------
(* The whole server *)

Inv == DownloadInv /\ UploadInv

LEMMA InitInv ==
    Init => Inv
<1> SUFFICES ASSUME Init PROVE Inv
  OBVIOUS
<1>1. <<>> \in Seq(Byte) /\ NoStream \in Stream
  BY EmptySeq DEF NoStream, Stream
<1>2. \A m \in Mux : Default(m) \in Seq(Byte)
  BY SizeAssumption, ByteAssumption, IsASeq DEF Default
<1>3. od \in [Mux -> Seq(Byte)]
  BY <1>2 DEF Init, BaseInit
<1>4. Paired(dl, sink) /\ Clean(dl)
  BY <1>1, MuxAssumption, MaxSeqAssumption
  DEF Init, DownloadInit, Paired, Clean, Vacant, DownloadState, SinkState,
      TransferStates
<1>5. UPaired(ul, source) /\ UClean(ul)
  BY <1>1, MuxAssumption
  DEF Init, UploadInit, UPaired, UClean, UploadState, TransferStates, NoStream
<1> QED
  BY <1>3, <1>4, <1>5 DEF Inv, DownloadInv, UploadInv

(* Any frame, whether or not it is one of the Frames. *)
LEMMA HandleMsgInv ==
    ASSUME Inv, NEW f \in Frame, NoHalfwayFailure => ~Truncated(f),
           HandleMsg(f)
    PROVE  Inv'
<1>1. UNCHANGED <<od, dl, sink>> => DownloadInv'
  BY DEF Inv, DownloadInv
<1>2. UNCHANGED <<ul, source>> => UploadInv'
  BY DEF Inv, UploadInv
<1>3. CASE ClientAbort(f)
  <2>1. CASE ClientAbortsDownload(f) /\ ClientAbortsUpload(f) /\ od' = od
    BY <2>1, ClientAbortsDownloadInv, ClientAbortsUploadInv DEF Inv
  <2>2. CASE UNCHANGED <<dl, sink, ul, source>> /\ od' = od
    BY <1>1, <1>2, <2>2 DEF Inv
  <2>3. CASE AbortFails(dl, sink, f) /\ UNCHANGED uploadVars
    BY <1>2, <2>3, AbortFailsInv DEF Inv, DownloadInv, Clean, uploadVars
  <2>4. CASE ClientAbortsDownload(f) /\ CloseFails(ul, source, "abort", f)
    <3>1. od' = od
      BY <2>4 DEF CloseFails, Answer
    <3> QED
      BY <2>4, <3>1, ClientAbortsDownloadInv, CloseFailsInv DEF Inv, UploadInv
  <2> QED
    BY <1>3, <2>1, <2>2, <2>3, <2>4 DEF ClientAbort
<1>4. CASE DownloadStep(f)
  BY <1>2, <1>4, DownloadStepInv DEF Inv, DownloadStep, uploadVars
<1>5. CASE UploadStep(f)
  <2>1. UploadInv' /\ od' = od
    BY <1>5, UploadStepInv DEF Inv, DownloadInv
  <2> QED
    BY <1>1, <1>5, <2>1 DEF Inv, UploadStep, downloadVars
<1>6. CASE UnknownCommand(f)
  BY <1>1, <1>2, <1>6 DEF Inv, UnknownCommand
<1> QED
  BY <1>3, <1>4, <1>5, <1>6 DEF HandleMsg

LEMMA ApplicationWriteInv ==
    ASSUME Inv, NEW w \in Written, ApplicationWrite(w[1], w[2])
    PROVE  Inv'
<1>1. w[1] \in Mux /\ w[2] \in Seq(Byte)
  BY WrittenAssumption
<1>2. od' \in [Mux -> Seq(Byte)]
  BY <1>1 DEF ApplicationWrite, Inv, DownloadInv
<1> QED
  BY <1>2 DEF ApplicationWrite, Inv, DownloadInv, UploadInv

LEMMA NextInv ==
    Inv /\ [Next]_vars => Inv'
<1> SUFFICES ASSUME Inv, [Next]_vars PROVE Inv'
  OBVIOUS
<1>1. ASSUME NEW f \in Frames, HandleMsg(f)
      PROVE  Inv'
  BY <1>1, FramesAssumption, HandleMsgInv DEF NoHalfwayFailure
<1>2. ASSUME NEW w \in Written, ApplicationWrite(w[1], w[2])
      PROVE  Inv'
  BY <1>2, ApplicationWriteInv
<1>3. CASE UNCHANGED vars
  BY <1>3 DEF vars, Inv, DownloadInv, UploadInv
<1> QED
  BY <1>1, <1>2, <1>3 DEF Next

LEMMA SpecInv ==
    Spec => []Inv
BY InitInv, NextInv, PTL DEF Spec

(* TypeOK of SDOServer holds whatever frames arrive and whatever the       *)
(* application's handlers do, exceptions at every call included.           *)
THEOREM TypeCorrect ==
    Spec => []TypeOK
<1>1. Inv => TypeOK
  BY DEF Inv, DownloadInv, UploadInv, Paired, UPaired, TypeOK, BaseTypeOK,
         DownloadTypeOK, UploadTypeOK
<1> QED
  BY <1>1, SpecInv, PTL

(* SinkLedger: every handler opened for a download is told that its        *)
(* transfer is over, however it ends, and whatever raises; twice only one  *)
(* that raised from on_abort.                                              *)
THEOREM EverySinkIsTold ==
    Spec => []SinkLedger
<1>1. Inv => SinkLedger
  BY DEF Inv, DownloadInv, Paired, SinkLedger
<1> QED
  BY <1>1, SpecInv, PTL

(* IdleIsClean: no transfer starts from what an earlier one left behind.   *)
THEOREM TransfersStartClean ==
    Spec => []IdleIsClean
<1>1. Inv => IdleIsClean
  BY DEF Inv, DownloadInv, Clean, Vacant, IdleIsClean
<1> QED
  BY <1>1, SpecInv, PTL

(* StreamAvailable: the assertions "Stream not available" of upload.py     *)
(* never fail.                                                             *)
THEOREM AssertionsHold ==
    Spec => []StreamAvailable
<1>1. Inv => StreamAvailable
  BY DEF Inv, UploadInv, UClean, StreamAvailable
<1> QED
  BY <1>1, SpecInv, PTL

(* SourceLedger: when on_read does not raise and no frame is truncated,    *)
(* every handler opened for an upload is told that its transfer is over;   *)
(* twice only one that raised from on_abort or on_finish.                  *)
THEOREM EverySourceIsTold ==
    ASSUME NoHalfwayFailure
    PROVE  Spec => []SourceLedger
<1>1. Inv => SourceLedger
  BY NoHalfwayFailure DEF Inv, UploadInv, UPaired, UClean, SourceLedger
<1> QED
  BY <1>1, SpecInv, PTL

-----------------------------------------------------------------------------
(* An abort ends the transfer.  Whatever answers with a reason has left    *)
(* the manager without a transfer; an exception that ends an operation     *)
(* halfway is answered with the general error.                             *)

LEMMA NotRefused ==
    ASSUME NEW fr, fr.cs # "abort" \/ fr.code = Halfway
    PROVE  ~Refused(<<fr>>) /\ ~Refused(<<>>)
  BY DEF Refused

LEMMA GeneralErrorIsNone ==
    ASSUME NEW f
    PROVE  ~Refused(<<GeneralError(f)>>)
  BY NotRefused DEF GeneralError, AbortReply

LEMMA EndsDownload ==
    ASSUME NEW d \in DownloadState, NEW s, NEW f,
           \/ \E frames : Finish(d, s, frames)
           \/ ReceiveFails(d, s, f) \/ AbortFails(d, s, f)
           \/ \E code, m : Refuse(DlAborted(d), Notified(d, s), code, m),
           Refused(reply')
    PROVE  dl'.state = "NONE"
<1>1. ~AbortFails(d, s, f)
  BY GeneralErrorIsNone DEF AbortFails, GeneralFailure, Continue
<1>2. dl' = DlAborted(d)
  BY <1>1
  DEF Finish, FinishHandler, FinishVariable, ReceiveFails, Refuse, Continue
<1> QED
  BY <1>2, FreshState DEF DlAborted, TransferStates

LEMMA InitiateAborts ==
    ASSUME DownloadInv, NEW f \in Frame,
           InitDownload(f) \/ DownloadBlockInit(f), Refused(reply')
    PROVE  dl'.state = "NONE"
<1> DEFINE v == Settled(dl)
           s == SettledSink(dl, sink)
           d == Fresh(v, "NONE")
           e == Started(v, "NONE", f.mux)
           data == Take(ExpData(f), ExpeditedSize(f))
<1>1. /\ Paired(v, s) /\ v \in DownloadState /\ v.state = "NONE"
      /\ (v.held => v.told)
  BY SettledPair DEF DownloadInv, Paired
<1>2. f.mux \in Mux /\ "NONE" \in TransferStates
  BY FrameType DEF TransferStates
<1>3. d \in DownloadState /\ d.state = "NONE"
  BY <1>1, <1>2, FreshState
<1>4. Paired(e, s) /\ ~e.held /\ ~e.told
  BY <1>1, <1>2, StartedPair
<1>5. data \in Seq(Byte)
  <2>1. ExpData(f) \in Seq(Byte)
    BY FrameType, DropType DEF ExpData, HeadLen
  <2>2. ExpeditedSize(f) \in Int
    BY <1>2, SizeType, SizeAssumption DEF ExpeditedSize, ExpLen
  <2> QED
    BY <2>1, <2>2, TakeType
<1>6. Held(e) \in DownloadState /\ Received(e, data) \in DownloadState
  BY <1>4, <1>5, HeldPair, ReceivedPair DEF Paired
<1>7. /\ ~Refused(<<InitReply(f.mux)>>) /\ ~Refused(<<BlockReply(f.mux)>>)
      /\ ~Refused(<<GeneralError(f)>>)
  BY NotRefused, GeneralErrorIsNone DEF InitReply, BlockReply
<1>8. CASE InitRefused(f)
  BY <1>1, <1>8 DEF InitRefused, Refuse, Continue
<1>9. ~OpenSegmented(f) /\ ~OpenBlock(f)
  BY <1>7 DEF OpenSegmented, OpenBlock, GeneralFailure, Continue
<1>10. CASE Expedite(f)
  <2>1. \/ Refuse(v, s, "0x06070010", dl.mux)
        \/ \E t, frames : Finish(Received(e, data), t, frames)
        \/ ReceiveFails(Held(e), Opened(s), f)
        \/ \E t, frames : Finish(Held(e), t, frames)
        \/ GeneralFailure(d, s, f)
    BY <1>10 DEF Expedite
  <2> HIDE DEF v, s, d, e, data
  <2> QED
    BY <1>1, <1>3, <1>6, <2>1, EndsDownload DEF Refuse, GeneralFailure, Continue
<1>11. ~SettleFails(f)
  BY <1>7 DEF SettleFails, AbortFails, GeneralFailure, Continue
<1> QED
  BY <1>8, <1>9, <1>10, <1>11 DEF InitDownload, DownloadBlockInit

LEMMA AbortDownloadEnds ==
    ASSUME NEW d \in DownloadState, NEW code, NEW m, NEW f,
           AbortDownload(d, code, m, f), Refused(reply')
    PROVE  dl'.state = "NONE"
  BY EndsDownload DEF AbortDownload

LEMMA DataAborts ==
    ASSUME DownloadInv, NEW f \in Frame,
           DownloadSegment(f) \/ DownloadSubBlock(f), Refused(reply')
    PROVE  dl'.state = "NONE"
<1> DEFINE d == [dl EXCEPT !.toggle = ~@]
           data == Take(f.data, SegSize(f))
           c == Checked(dl, f.data)
<1>1. Paired(dl, sink) /\ dl \in DownloadState /\ f.data \in Seq(Byte)
  BY FrameType DEF DownloadInv, Paired
<1>2. ASSUME NEW code, NEW m, AbortDownload(dl, code, m, f)
      PROVE  dl'.state = "NONE"
  BY <1>1, <1>2, AbortDownloadEnds
<1>3. CASE DownloadSegment(f) /\ ~\E code, m : AbortDownload(dl, code, m, f)
  <2>1. SegSize(f) \in Int
    BY SizeType DEF SegLen
  <2>2. data \in Seq(Byte)
    BY <1>1, <2>1, TakeType
  <2>3. Paired(d, sink) /\ d \in DownloadState
    BY <1>1 DEF Paired, DownloadState
  <2>4. ~Refused(<<SegmentReply(Toggle(f))>>)
    BY NotRefused DEF SegmentReply
  <2>5. \/ ReceiveFails(d, sink, f)
        \/ \E t, frames : Finish(Received(d, data), t, frames)
    BY <1>3, <2>4 DEF DownloadSegment, Continue
  <2> HIDE DEF d, data
  <2>6. Received(d, data) \in DownloadState
    BY <2>2, <2>3, ReceivedPair DEF Paired
  <2> QED
    BY <2>3, <2>5, <2>6, EndsDownload
<1>4. CASE DownloadSubBlock(f) /\ ~\E code, m : AbortDownload(dl, code, m, f)
  <2>1. ~Refused(SubBlockAck(f))
    BY NotRefused DEF SubBlockAck, SubBlockReply
  <2>2. ReceiveFails(c, sink, f)
    BY <1>4, <2>1 DEF DownloadSubBlock, Continue
  <2>3. c \in DownloadState
    BY <1>1, CheckedPair DEF Paired
  <2> HIDE DEF c
  <2> QED
    BY <2>2, <2>3, EndsDownload
<1> QED
  BY <1>2, <1>3, <1>4

LEMMA BlockEndAborts ==
    ASSUME DownloadInv, NEW f \in Frame, DownloadBlockEnd(f), Refused(reply')
    PROVE  dl'.state = "NONE"
<1> DEFINE size == EndSize(f)
           d    == Checked(dl, Take(TakeLast(dl.buffer, SegLen), size))
           t    == Trimmed(d, size)
<1>1. dl \in DownloadState /\ d \in DownloadState /\ t \in DownloadState
  BY BlockEndPair DEF DownloadInv, Paired
<1>2. \/ \E code, m : AbortDownload(dl, code, m, f)
      \/ \E code, m : AbortDownload(d, code, m, f)
      \/ \E frames : Finish(t, sink, frames)
      \/ ReceiveFails(d, sink, f)
      \/ \E p, frames : Finish(d, p, frames)
  BY DEF DownloadBlockEnd
<1> HIDE DEF d, t
<1> QED
  BY <1>1, <1>2, EndsDownload, AbortDownloadEnds

LEMMA DownloadStepAborts ==
    ASSUME Inv, NEW f \in Frame, DownloadStep(f), Refused(reply')
    PROVE  dl'.state = "NONE"
  BY InitiateAborts, DataAborts, BlockEndAborts DEF DownloadStep, Inv

(* Frames that are no abort, and some of them before a general error.      *)
LEMMA CutIsNoRefusal ==
    ASSUME NEW S, NEW frames \in Seq(S), \A x \in S : x.cs # "abort",
           Len(frames) >= 1, NEW f
    PROVE  /\ ~Refused(frames)
           /\ ~Refused(SubSeq(frames, 1, Len(frames) - 1)
                         \o <<GeneralError(f)>>)
<1> DEFINE n == Len(frames)
           cut == SubSeq(frames, 1, n - 1)
           all == cut \o <<GeneralError(f)>>
<1>1. n \in Nat /\ n - 1 \in Nat /\ DOMAIN frames = 1..n
  BY LenProperties
<1>2. \A i \in 1..n : frames[i] \in S
  BY <1>1, ElementOfSeq
<1>3. /\ cut \in Seq(S) /\ Len(cut) = n - 1
  <2>1. \A i \in 1..(n - 1) : frames[i] \in S
    BY <1>1, <1>2
  <2> QED
    BY <1>1, <2>1, SubSeqProperties
<1>4. GeneralError(f).code = Halfway
  BY DEF GeneralError, AbortReply
<1> DEFINE T == S \cup {GeneralError(f)}
<1>5. cut \in Seq(T) /\ <<GeneralError(f)>> \in Seq(T)
  BY <1>3
<1> HIDE DEF cut, n
<1>6. /\ all \in Seq(T) /\ Len(all) = Len(cut) + 1
  BY <1>5, ConcatProperties
<1>7. \A i \in 1..Len(all) : all[i] \in T
  BY <1>6, ElementOfSeq
<1>8. DOMAIN all = 1..Len(all)
  BY <1>6, LenProperties
<1> HIDE DEF all
<1>9. ~Refused(all)
  BY <1>4, <1>7, <1>8 DEF Refused
<1>10. ~Refused(frames)
  BY <1>1, <1>2 DEF Refused
<1> QED
  BY <1>9, <1>10 DEF all, cut, n

(* Data are no abort; at most the last frame is a general error.           *)
LEMMA SubBlockIsNoRefusal ==
    ASSUME NEW u, NEW f, SendSubBlock(u, f), u.stream.left \in Seq(Byte),
           u.blk \in Nat
    PROVE  ~Refused(reply')
<1> DEFINE frames == SubBlock(u.stream.left, u.blk)
           data   == Take(u.stream.left, u.blk * SegLen)
           count  == (Len(data) + SegLen - 1) \div SegLen
           sent   == IF count = 0 THEN 1 ELSE count
           last   == Len(u.stream.left) <= u.blk * SegLen
           piece(i) == SubSeq(data, SegLen * (i - 1) + 1,
                              Least(SegLen * i, Len(data)))
           S == {frames[i] : i \in 1..sent}
<1>1. u.blk * 7 \in Nat
  OBVIOUS
<1>2. Len(data) \in Nat
  BY <1>1, TakeType, LenProperties DEF SegLen
<1>3. sent \in Nat /\ sent >= 1
  <2> HIDE DEF data
  <2> QED
    BY <1>2 DEF SegLen
<1>4. frames = [i \in 1..sent |->
                  SubBlockFrame(i, last /\ i = sent, piece(i))]
  BY DEF SubBlock
<1> HIDE DEF sent, last, piece, frames
<1>5. frames \in Seq(S) /\ Len(frames) = sent
  BY <1>3, <1>4
<1>6. \A x \in S : x.cs # "abort"
  BY <1>4 DEF SubBlockFrame
<1> HIDE DEF S
<1>7. /\ ~Refused(frames)
      /\ ~Refused(SubSeq(frames, 1, Len(frames) - 1) \o <<GeneralError(f)>>)
  BY <1>3, <1>5, <1>6, CutIsNoRefusal
<1>8. \/ reply' = frames
      \/ reply' = SubSeq(frames, 1, Len(frames) - 1) \o <<GeneralError(f)>>
      \/ reply' = <<GeneralError(f)>>
  BY DEF SendSubBlock, Answer, frames
<1> QED
  BY <1>7, <1>8, GeneralErrorIsNone

LEMMA CloseFailsRefuses ==
    ASSUME NEW u, NEW n, NEW point, NEW f, CloseFails(u, n, point, f)
    PROVE  ~Refused(reply')
  BY GeneralErrorIsNone DEF CloseFails, Answer

LEMMA EndedState ==
    ASSUME NEW u \in UploadState
    PROVE  Ended(u).state = "NONE"
  BY DEF Ended, UploadState

LEMMA AbortUploadEnds ==
    ASSUME ul \in UploadState, NEW code, NEW m, NEW f,
           AbortUpload(code, m, f), Refused(reply')
    PROVE  ul'.state = "NONE"
<1>1. RefuseUpload(UlAborted(ul), Closed(ul, source), code, m)
  BY CloseFailsRefuses DEF AbortUpload
<1> QED
  BY <1>1, EndedState DEF RefuseUpload, Answer, UlAborted

LEMMA StartUploadAborts ==
    ASSUME NEW u \in UploadState, u.state = "NONE", NEW n, NEW f,
           StartUpload(u, n, f), Refused(reply')
    PROVE  ul'.state = "NONE"
<1>1. /\ ~Refused(<<UpBlockReply(f.mux, u.stream.size)>>)
      /\ ~Refused(<<UpInitReply(f.mux, u.stream.size)>>)
      /\ ~Refused(<<GeneralError(f)>>)
  BY NotRefused, GeneralErrorIsNone DEF UpBlockReply, UpInitReply
<1>2. \E frames : Answer(Ended(u), Closed(u, n), frames)
  BY <1>1, CloseFailsRefuses DEF StartUpload, RefuseUpload, Answer
<1> QED
  BY <1>2, EndedState DEF Answer

LEMMA InitUploadAborts ==
    ASSUME UploadInv, od \in [Mux -> Seq(Byte)], NEW f \in Frame,
           InitUpload(f), Refused(reply')
    PROVE  ul'.state = "NONE"
<1> DEFINE v == SettledUpload(ul)
           n == SettledSource(ul, source)
           u == [v EXCEPT !.mux = f.mux]
           With(stream) == [u EXCEPT !.stream = stream, !.told = FALSE]
<1>1. v \in UploadState /\ v.state = "NONE" /\ f.mux \in Mux
  BY SettledUploadPair, FrameType DEF UploadInv, UPaired
<1> HIDE DEF v, n
<1>2. u \in UploadState /\ u.state = "NONE"
  BY <1>1 DEF UploadState
<1> HIDE DEF u
<1>3. ASSUME NEW stream \in Stream
      PROVE  With(stream) \in UploadState /\ With(stream).state = "NONE"
  BY <1>2 DEF UploadState
<1>4. \A data \in Served : \A size \in {Len(data), Unsized} :
        HandlerStream(data, size) \in Stream
  BY ServedAssumption, LenProperties DEF HandlerStream, Stream, Unsized
<1>5. FixedStream(od[f.mux]) \in Stream
  BY <1>1, LenProperties DEF FixedStream, Stream
<1>6. \/ CloseFails(ul, source, "abort", f)
      \/ \E frames : Answer(v, n, frames)
      \/ \E frames : Answer(u, n, frames)
      \/ \E data \in Served : \E size \in {Len(data), Unsized} :
            StartUpload(With(HandlerStream(data, size)), n + 1, f)
      \/ StartUpload(With(FixedStream(od[f.mux])), n, f)
  BY DEF InitUpload, SetUp, RefuseUpload, u, v, n
<1> HIDE DEF With
<1> QED
  BY <1>1, <1>2, <1>3, <1>4, <1>5, <1>6, CloseFailsRefuses, StartUploadAborts
  DEF Answer

LEMMA UploadSegmentAborts ==
    ASSUME UploadInv, NEW f, UploadSegment(f), Refused(reply')
    PROVE  ul'.state = "NONE"
<1> DEFINE rest == Advanced([ul EXCEPT !.toggle = ~@], SegLen)
           data == Take(ul.stream.left, SegLen)
           last == rest.stream.left = <<>>
           confirm == <<UpSegmentReply(Toggle(f), last, data)>>
<1>1. ~Refused(confirm) /\ ~Refused(<<GeneralError(f)>>)
  BY NotRefused, GeneralErrorIsNone DEF UpSegmentReply
<1>2. ul \in UploadState
  BY DEF UploadInv, UPaired
<1>3. \/ \E code, m : AbortUpload(code, m, f)
      \/ \E u, n : Answer(u, n, confirm)
      \/ \E u, n, point : CloseFails(u, n, point, f)
      \/ \E u, n : Answer(u, n, <<GeneralError(f)>>)
  BY DEF UploadSegment
<1> HIDE DEF confirm
<1> QED
  BY <1>1, <1>2, <1>3, AbortUploadEnds, CloseFailsRefuses DEF Answer

LEMMA UploadSubBlockAborts ==
    ASSUME UploadInv, NEW f \in Frame, UploadSubBlock(f)
    PROVE  ~Refused(reply')
<1> DEFINE u == Acknowledged(f)
           size == Least(Len(ul.stream.left), f.ack * SegLen)
<1>1. ul \in UploadState /\ ul.blk \in Nat /\ ul.stream.left \in Seq(Byte)
  BY DEF UploadInv, UPaired, UploadState, Stream
<1>2. f.blk \in Nat /\ f.ack * SegLen \in Nat
  BY FrameType DEF SegLen
<1>3. u.blk = f.blk /\ u.stream.left \in Seq(Byte)
  BY <1>1, <1>2, DropType DEF Acknowledged, Advanced, UploadState, Stream
<1>4. /\ ~Refused(<<>>) /\ ~Refused(<<UpBlockEndReply(size, u.crc)>>)
      /\ ~Refused(<<GeneralError(f)>>)
  BY NotRefused, GeneralErrorIsNone DEF UpBlockEndReply
<1>5. \/ reply' = <<>> \/ reply' = <<UpBlockEndReply(size, u.crc)>>
      \/ reply' = <<GeneralError(f)>>
      \/ CloseFails(ul, source, "release", f)
      \/ SendSubBlock(ul, f) \/ SendSubBlock(u, f)
  BY DEF UploadSubBlock, Answer
<1> HIDE DEF u, size
<1> QED
  BY <1>1, <1>2, <1>3, <1>4, <1>5, SubBlockIsNoRefusal, CloseFailsRefuses

LEMMA UploadStepAborts ==
    ASSUME Inv, NEW f \in Frame, UploadStep(f), Refused(reply')
    PROVE  ul'.state = "NONE"
  BY InitUploadAborts, UploadSegmentAborts, UploadSubBlockAborts
  DEF UploadStep, Inv, DownloadInv

(* AbortEndsTransfer: client and server agree that the next transfer       *)
(* starts afresh whenever the server answers with an abort that gives a    *)
(* reason, whatever the client sends and whatever the application raises.  *)
THEOREM AbortsEndTransfers ==
    Spec => AbortEndsTransfer
<1> DEFINE A == Refused(reply') =>
                  /\ dl'.state # "NONE" => ~\E f \in Frames : DownloadStep(f)
                  /\ ul'.state # "NONE" => ~\E f \in Frames : UploadStep(f)
<1>1. Inv => [A]_vars
  <2> SUFFICES ASSUME Inv, Refused(reply'), NEW f \in Frames
               PROVE  /\ DownloadStep(f) => dl'.state = "NONE"
                      /\ UploadStep(f) => ul'.state = "NONE"
    OBVIOUS
  <2>1. f \in Frame
    BY FramesAssumption
  <2> QED
    BY <2>1, DownloadStepAborts, UploadStepAborts
<1> QED
  BY <1>1, SpecInv, PTL DEF Spec, AbortEndsTransfer
=============================================================================
