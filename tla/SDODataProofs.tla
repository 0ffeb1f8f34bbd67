---------------------------- MODULE SDODataProofs ----------------------------
(***************************************************************************)
(* Proofs about SDOServer: what becomes of the data of a download, where   *)
(* they are stored, and how the buffer and the checksum of a block         *)
(* download fit together.  They build on the invariant of SDOServerProofs. *)
(***************************************************************************)
EXTENDS SDOServerProofs

-----------------------------------------------------------------------------
(* What is stored is confirmed.  A transfer is only open for an object     *)
(* that may be written, and only _finish writes.                           *)

Permitted(d) == d.state # "NONE" => Writable(d.mux)

(* The step leaves the dictionary and the filed data alone. *)
NothingStored == od' = od /\ sink'.filed = sink.filed

(* The step stores in one object only and confirms it. *)
Confirmed ==
    /\ Completed(reply', dl') /\ Writable(dl'.mux)
    /\ \A m \in Mux \ {dl'.mux} :
         od'[m] = od[m] /\ sink'.filed[m] = sink.filed[m]

Confirmation(frames) ==
    Len(frames) = 1 /\ frames[1].cs \in {"dlInit", "dlSegment", "dlBlockEnd"}

LEMMA NotifiedFiled ==
    ASSUME NEW d, NEW s
    PROVE  /\ Notified(d, s).filed = s.filed
           /\ SettledSink(d, s).filed = s.filed
           /\ Opened(s).filed = s.filed /\ Heard(d, s).filed = s.filed
  BY DEF Notified, SettledSink, Dismissed, Heard, Opened

LEMMA PassedFiled ==
    ASSUME NEW d, NEW s \in SinkState, NEW data
    PROVE  Passed(d, s, data).filed = s.filed
  BY DEF Passed, SinkState

LEMMA ContinueStores ==
    ASSUME NEW d, NEW s, NEW frames, Continue(d, s, frames),
           s.filed = sink.filed, Permitted(d)
    PROVE  NothingStored /\ Permitted(dl')
  BY DEF Continue, NothingStored

(* A refusal by _finish stores nothing; otherwise the confirmation goes    *)
(* out with the data stored under the transfer's own multiplexor.          *)
LEMMA FinishStores ==
    ASSUME DownloadInv, NEW d, NEW s, Paired(d, s), s.filed = sink.filed,
           Writable(d.mux), NEW frames, Confirmation(frames),
           Finish(d, s, frames)
    PROVE  (NothingStored \/ Confirmed) /\ Permitted(dl')
<1>1. DlAborted(d).state = "NONE" /\ DlAborted(d).mux = d.mux
  BY AbortedPair
<1>2. d.mux \in Mux /\ od \in [Mux -> Seq(Byte)]
        /\ sink.filed \in [Mux -> Seq(Byte)]
  BY DEF DownloadInv, Paired, DownloadState, SinkState
<1>3. d.held => /\ Dismissed(d, s) \in SinkState
                /\ Dismissed(d, s).filed = sink.filed
  <2>1. SUFFICES ASSUME d.held
                 PROVE  /\ Dismissed(d, s) \in SinkState
                        /\ Dismissed(d, s).filed = sink.filed
    OBVIOUS
  <2>2. Dismissed(d, s) \in SinkState
    BY <2>1, DismissedState
  <2>3. Dismissed(d, s).filed = s.filed
    BY DEF Dismissed, Heard
  <2> QED
    BY <2>2, <2>3
<1>4. CASE FinishHandler(d, s, frames)
  <2> DEFINE t == [Dismissed(d, s) EXCEPT !.filed[d.mux] = s.got]
  <2>1. t.filed = [sink.filed EXCEPT ![d.mux] = s.got]
    BY <1>3, <1>4 DEF SinkState, FinishHandler
  <2>2. CASE Continue(DlAborted(d), t, frames)
    <3>1. /\ dl' = DlAborted(d) /\ od' = od /\ reply' = frames
          /\ sink'.filed = [sink.filed EXCEPT ![d.mux] = s.got]
      BY <2>1, <2>2 DEF Continue
    <3> QED
      BY <1>1, <1>2, <3>1 DEF Confirmed, Completed, Confirmation, Permitted
  <2>3. CASE Refuse(DlAborted(d), Dismissed(d, s), "0x08000020", d.mux)
    BY <1>1, <1>3, <1>4, <2>3
    DEF Refuse, Continue, NothingStored, Permitted, FinishHandler
  <2> QED
    BY <1>4, <2>2, <2>3 DEF FinishHandler
<1>5. CASE FinishVariable(d, s, frames)
  <2>1. dl' = DlAborted(d) /\ sink'.filed = sink.filed
    BY <1>5 DEF FinishVariable
  <2>2. \/ od' = od
        \/ od' = [od EXCEPT ![d.mux] = d.buffer] /\ reply' = frames
    BY <1>5 DEF FinishVariable
  <2> QED
    BY <1>1, <1>2, <2>1, <2>2
    DEF Confirmed, Completed, Confirmation, NothingStored, Permitted
<1> QED
  BY <1>4, <1>5 DEF Finish

LEMMA AbortStores ==
    ASSUME DownloadInv, NEW d, NEW s, Paired(d, s), s.filed = sink.filed,
           Permitted(d), NEW f,
           \/ ReceiveFails(d, s, f) \/ AbortFails(d, s, f)
           \/ \E code, m : Refuse(DlAborted(d), Notified(d, s), code, m)
    PROVE  NothingStored /\ Permitted(dl')
<1>1. DlAborted(d).state = "NONE"
  BY AbortedPair
<1>2. Notified(d, s).filed = sink.filed /\ Heard(d, s).filed = sink.filed
  BY NotifiedFiled
<1>3. Permitted(Told(d))
  BY DEF Permitted, Told, Paired, DownloadState
<1> QED
  BY <1>1, <1>2, <1>3, ContinueStores
  DEF ReceiveFails, AbortFails, GeneralFailure, Refuse, Permitted

DataInv == DownloadInv /\ Permitted(dl)

Honest == (NothingStored \/ Confirmed) /\ Permitted(dl')

LEMMA SettledPermitted ==
    ASSUME DataInv
    PROVE  /\ Paired(Settled(dl), SettledSink(dl, sink))
           /\ (Settled(dl).held => Settled(dl).told)
           /\ Permitted(Settled(dl))
           /\ SettledSink(dl, sink).filed = sink.filed
  BY SettledPair, NotifiedFiled DEF DataInv, DownloadInv, Permitted

LEMMA SettleFailsHonest ==
    ASSUME DataInv, NEW f, SettleFails(f)
    PROVE  Honest
  BY AbortStores DEF SettleFails, DataInv, DownloadInv, Honest

LEMMA InitDownloadHonest ==
    ASSUME DataInv, NEW f \in Frame, InitDownload(f)
    PROVE  Honest
<1> DEFINE v == Settled(dl)
           s == SettledSink(dl, sink)
           g == Started(v, "SEGMENT", f.mux)
           d == Fresh(v, "NONE")
           e == Started(v, "NONE", f.mux)
           data == Take(ExpData(f), ExpeditedSize(f))
           confirm == <<InitReply(f.mux)>>
           p == Passed(Held(e), Opened(s), data)
<1>1. /\ Paired(v, s) /\ (v.held => v.told) /\ Permitted(v)
      /\ s.filed = sink.filed
  BY SettledPermitted
<1>2. f.mux \in Mux /\ "NONE" \in TransferStates /\ "SEGMENT" \in TransferStates
  BY FrameType DEF TransferStates
<1>3. CASE InitRefused(f)
  <2> HIDE DEF v, s
  <2> QED
    BY <1>1, <1>3, ContinueStores DEF InitRefused, Refuse, Honest, v, s
<1>4. CASE Writable(f.mux) /\ OpenSegmented(f)
  <2>1. Paired(g, s) /\ ~g.held /\ ~g.told /\ g.mux = f.mux
    BY <1>1, <1>2, StartedPair
  <2>2. Permitted(g) /\ Permitted(Held(g)) /\ Opened(s).filed = sink.filed
    BY <1>1, <1>4, <2>1, HeldPair, NotifiedFiled DEF Permitted
  <2>3. \/ \E frames : Continue(g, s, frames)
        \/ \E frames : Continue(Held(g), Opened(s), frames)
    BY <1>4 DEF OpenSegmented, GeneralFailure
  <2> HIDE DEF g, s
  <2> QED
    BY <1>1, <2>2, <2>3, ContinueStores DEF Honest
<1>5. CASE Writable(f.mux) /\ Expedite(f)
  <2>1. Paired(e, s) /\ ~e.held /\ ~e.told /\ e.mux = f.mux
    BY <1>1, <1>2, StartedPair
  <2>2. Permitted(d)
    BY <1>1, <1>2, FreshState DEF Permitted, Paired
  <2>3. data \in Seq(Byte)
    <3>1. ExpData(f) \in Seq(Byte)
      BY FrameType, DropType DEF ExpData, HeadLen
    <3>2. ExpeditedSize(f) \in Int
      BY <1>2, SizeType, SizeAssumption DEF ExpeditedSize, ExpLen
    <3> QED
      BY <3>1, <3>2, TakeType
  <2>4. /\ Paired(Held(e), Opened(s)) /\ Held(e).held
        /\ Held(e).mux = f.mux /\ Opened(s).filed = sink.filed
    BY <1>1, <2>1, HeldPair, NotifiedFiled
  <2>5. /\ Paired(Received(e, data), s) /\ Received(e, data).mux = f.mux
    BY <2>1, <2>3, ReceivedPair DEF Passed
  <2>6. Paired(Held(e), p) /\ p.filed = sink.filed
    <3>1. Received(Held(e), data) = Held(e)
      BY <2>4 DEF Received
    <3> QED
      BY <2>3, <2>4, <3>1, ReceivedPair, PassedFiled DEF Paired
  <2>7. Confirmation(confirm)
    BY DEF Confirmation, InitReply
  <2>8. \/ Refuse(v, s, "0x06070010", dl.mux)
        \/ Finish(Received(e, data), s, confirm)
        \/ ReceiveFails(Held(e), Opened(s), f)
        \/ Finish(Held(e), p, confirm)
        \/ Continue(d, s, <<GeneralError(f)>>)
    BY <1>5 DEF Expedite, GeneralFailure
  <2> HIDE DEF v, s, d, e, data, confirm, p
  <2>9. DownloadInv
    BY DEF DataInv
  <2>10. CASE Refuse(v, s, "0x06070010", dl.mux)
    BY <1>1, <2>10, ContinueStores DEF Refuse, Honest
  <2>11. CASE Finish(Received(e, data), s, confirm)
    BY <1>1, <1>5, <2>5, <2>7, <2>9, <2>11, FinishStores DEF Honest
  <2>12. CASE ReceiveFails(Held(e), Opened(s), f)
    BY <1>5, <2>4, <2>9, <2>12, AbortStores DEF Honest, Permitted
  <2>13. CASE Finish(Held(e), p, confirm)
    BY <1>5, <2>4, <2>6, <2>7, <2>9, <2>13, FinishStores DEF Honest
  <2>14. CASE Continue(d, s, <<GeneralError(f)>>)
    BY <1>1, <2>2, <2>14, ContinueStores DEF Honest
  <2> QED
    BY <2>8, <2>10, <2>11, <2>12, <2>13, <2>14
<1> QED
  BY <1>3, <1>4, <1>5, SettleFailsHonest DEF InitDownload

LEMMA DownloadBlockInitHonest ==
    ASSUME DataInv, NEW f \in Frame, DownloadBlockInit(f)
    PROVE  Honest
<1> DEFINE v == Settled(dl)
           s == SettledSink(dl, sink)
           b == Started(v, "BLOCK", f.mux)
           d == [b EXCEPT !.check = Bit(f, 4)]
<1>1. /\ Paired(v, s) /\ (v.held => v.told) /\ Permitted(v)
      /\ s.filed = sink.filed
  BY SettledPermitted
<1>2. CASE InitRefused(f)
  <2> HIDE DEF v, s
  <2> QED
    BY <1>1, <1>2, ContinueStores DEF InitRefused, Refuse, Honest, v, s
<1>3. CASE Writable(f.mux) /\ OpenBlock(f)
  <2>0. f.mux \in Mux /\ "BLOCK" \in TransferStates
    BY FrameType DEF TransferStates
  <2>1. Paired(b, s) /\ ~b.held /\ ~b.told /\ b.mux = f.mux
    BY <1>1, <2>0, StartedPair
  <2>2. \/ \E frames : Continue(d, s, frames)
        \/ \E frames : Continue(Held(d), Opened(s), frames)
    BY <1>3 DEF OpenBlock, GeneralFailure
  <2>3. Opened(s).filed = sink.filed
    BY <1>1, NotifiedFiled
  <2> HIDE DEF b, s
  <2>4. Permitted(d) /\ Permitted(Held(d))
    BY <1>3, <2>1 DEF Permitted, Held, Paired, DownloadState
  <2> HIDE DEF d
  <2> QED
    BY <1>1, <2>2, <2>3, <2>4, ContinueStores DEF Honest
<1> QED
  BY <1>2, <1>3, SettleFailsHonest DEF DownloadBlockInit

LEMMA AbortDownloadHonest ==
    ASSUME DataInv, NEW d, Paired(d, sink), Permitted(d), NEW code, NEW m,
           NEW f, AbortDownload(d, code, m, f)
    PROVE  Honest
  BY AbortStores DEF AbortDownload, DataInv, Honest

LEMMA DownloadSegmentHonest ==
    ASSUME DataInv, NEW f \in Frame, DownloadSegment(f)
    PROVE  Honest
<1> DEFINE data == Take(f.data, SegSize(f))
           d == [dl EXCEPT !.toggle = ~@]
           r == Received(d, data)
           p == Passed(d, sink, data)
           confirm == <<SegmentReply(Toggle(f))>>
<1>1. CASE \E code, m : AbortDownload(dl, code, m, f)
  BY <1>1, AbortDownloadHonest DEF DataInv, DownloadInv
<1>2. CASE /\ dl.state = "SEGMENT"
           /\ \/ ReceiveFails(d, sink, f)
              \/ Finish(r, p, confirm)
              \/ Continue(r, p, confirm)
  <2>1. data \in Seq(Byte)
    <3>1. f.data \in Seq(Byte) /\ SegSize(f) \in Int
      BY FrameType, SizeType DEF SegLen
    <3> QED
      BY <3>1, TakeType
  <2>2. Paired(d, sink) /\ d.mux = dl.mux /\ Writable(d.mux)
    BY <1>2 DEF DataInv, DownloadInv, Permitted, Paired, DownloadState
  <2>3. Confirmation(confirm)
    BY DEF Confirmation, SegmentReply
  <2> HIDE DEF data, d, confirm
  <2>4. Paired(r, p) /\ r.mux = d.mux /\ p.filed = sink.filed
    BY <2>1, <2>2, ReceivedPair, PassedFiled DEF Paired
  <2>5. Permitted(r) /\ DownloadInv
    BY <2>2, <2>4 DEF Permitted, DataInv
  <2> HIDE DEF r, p
  <2>6. CASE ReceiveFails(d, sink, f)
    BY <2>2, <2>5, <2>6, AbortStores DEF Honest, Permitted
  <2>7. CASE Finish(r, p, confirm)
    BY <2>2, <2>3, <2>4, <2>5, <2>7, FinishStores DEF Honest
  <2>8. CASE Continue(r, p, confirm)
    BY <2>4, <2>5, <2>8, ContinueStores DEF Honest
  <2> QED
    BY <1>2, <2>6, <2>7, <2>8
<1> QED
  BY <1>1, <1>2 DEF DownloadSegment

LEMMA DownloadSubBlockHonest ==
    ASSUME DataInv, dl.state = "BLOCK", NEW f \in Frame, DownloadSubBlock(f)
    PROVE  Honest
<1> DEFINE c == Checked(dl, f.data)
           r == Received(c, f.data)
           n == Counted(r, SubBlockFull(f))
           s == Passed(dl, sink, f.data)
           x == [Extended(dl, f.data) EXCEPT !.state = "BLOCK_END"]
           e == Counted(x, TRUE)
<1>1. /\ f.data \in Seq(Byte) /\ Paired(dl, sink) /\ Writable(dl.mux)
      /\ DownloadInv
  BY FrameType DEF DataInv, DownloadInv, Permitted
<1>2. Paired(c, sink) /\ c.mux = dl.mux
  BY <1>1, CheckedPair
<1>3. r \in DownloadState /\ r.mux = dl.mux
  BY <1>1, <1>2, ReceivedPair DEF Paired
<1>4. n.mux = dl.mux
  BY <1>3 DEF Counted, DownloadState
<1>5. e.mux = dl.mux
  BY <1>1 DEF Counted, Extended, Paired, DownloadState
<1>6. s.filed = sink.filed
  BY <1>1, PassedFiled DEF Paired
<1>7. \/ AbortDownload(dl, "0x05040003", dl.mux, f)
      \/ ReceiveFails(c, sink, f)
      \/ Continue(n, s, SubBlockAck(f))
      \/ Continue(e, sink, SubBlockAck(f))
  BY DEF DownloadSubBlock
<1> HIDE DEF c, n, s, e
<1>8. Permitted(dl) /\ Permitted(c) /\ Permitted(n) /\ Permitted(e)
  BY <1>1, <1>2, <1>4, <1>5 DEF Permitted
<1>9. CASE ReceiveFails(c, sink, f)
  BY <1>1, <1>2, <1>8, <1>9, AbortStores DEF Honest
<1>10. CASE Continue(n, s, SubBlockAck(f))
  BY <1>6, <1>8, <1>10, ContinueStores DEF Honest
<1>11. CASE Continue(e, sink, SubBlockAck(f))
  BY <1>8, <1>11, ContinueStores DEF Honest
<1> QED
  BY <1>1, <1>7, <1>8, <1>9, <1>10, <1>11, AbortDownloadHonest

(* The checksum moves on alone. *)
LEMMA CheckedState ==
    ASSUME NEW d \in DownloadState, NEW data
    PROVE  /\ Checked(d, data).state = d.state
           /\ Checked(d, data).mux = d.mux
           /\ Checked(d, data).check = d.check
  BY DEF Checked, DownloadState

LEMMA DownloadBlockEndHonest ==
    ASSUME DataInv, NEW f \in Frame, DownloadBlockEnd(f)
    PROVE  Honest
<1> DEFINE size == EndSize(f)
           d    == Checked(dl, Take(TakeLast(dl.buffer, SegLen), size))
           t    == Trimmed(d, size)
           p    == Passed(d, sink, Take(dl.buffer, size))
           confirm == <<BlockEndReply>>
<1>1. /\ Paired(d, sink) /\ d.mux = dl.mux
      /\ Paired(t, sink) /\ t.mux = dl.mux
      /\ d.held => Paired(d, p)
  BY BlockEndPair DEF DataInv
<1>4. Permitted(dl) /\ Permitted(d) /\ Paired(dl, sink)
  BY CheckedState DEF DataInv, DownloadInv, Permitted, Paired
<1>2. CASE \/ \E code, m : AbortDownload(dl, code, m, f)
           \/ \E code, m : AbortDownload(d, code, m, f)
  BY <1>1, <1>2, <1>4, AbortDownloadHonest
<1>3. CASE /\ dl.state = "BLOCK_END"
           /\ \/ ReceiveFails(d, sink, f)
              \/ Finish(t, sink, confirm)
              \/ d.held /\ Finish(d, p, confirm)
  <2>1. DownloadInv /\ Writable(dl.mux) /\ sink \in SinkState
    BY <1>3 DEF DataInv, Permitted, DownloadInv, Paired
  <2>2. Confirmation(confirm)
    BY DEF Confirmation, BlockEndReply
  <2>3. p.filed = sink.filed
    BY <2>1, PassedFiled
  <2> HIDE DEF d, t, p, confirm
  <2>4. CASE ReceiveFails(d, sink, f)
    BY <1>1, <1>4, <2>1, <2>4, AbortStores DEF Honest
  <2>5. CASE Finish(t, sink, confirm)
    BY <1>1, <2>1, <2>2, <2>5, FinishStores DEF Honest
  <2>6. CASE d.held /\ Finish(d, p, confirm)
    BY <1>1, <2>1, <2>2, <2>3, <2>6, FinishStores DEF Honest
  <2> QED
    BY <1>3, <2>4, <2>5, <2>6
<1> QED
  BY <1>2, <1>3 DEF DownloadBlockEnd

LEMMA DownloadStepHonest ==
    ASSUME DataInv, NEW f \in Frame, DownloadStep(f)
    PROVE  Honest
<1>1. CASE Route(f) = "download_sub_block" /\ DownloadSubBlock(f)
  <2>1. dl.state = "BLOCK"
    BY <1>1 DEF Route
  <2> QED
    BY <1>1, <2>1, DownloadSubBlockHonest
<1> QED
  BY <1>1, DownloadSegmentHonest, InitDownloadHonest, DownloadBlockEndHonest,
     DownloadBlockInitHonest DEF DownloadStep

LEMMA ClientAbortHonest ==
    ASSUME DataInv, NEW f, ClientAbort(f)
    PROVE  Honest
<1>1. od' = od
  BY DEF ClientAbort, AbortFails, CloseFails, GeneralFailure, Continue, Answer
<1>2. CASE UNCHANGED <<dl, sink>>
  BY <1>1, <1>2 DEF Honest, NothingStored, Permitted, DataInv
<1>3. CASE dl' = DlAborted(dl) /\ sink' = Notified(dl, sink)
  <2>1. DlAborted(dl).state = "NONE"
    BY AbortedPair DEF DataInv, DownloadInv
  <2> QED
    BY <1>1, <1>3, <2>1, NotifiedFiled DEF Honest, NothingStored, Permitted
<1>4. CASE AbortFails(dl, sink, f)
  BY <1>4, AbortStores DEF DataInv, DownloadInv, Honest
<1> QED
  BY <1>2, <1>3, <1>4 DEF ClientAbort, ClientAbortsDownload

(* Every step of a client frame is honest; the application's own writes    *)
(* touch no transfer and answer nobody.                                    *)
LEMMA NextHonest ==
    ASSUME Inv, Permitted(dl), [Next]_vars
    PROVE  /\ Permitted(dl')
           /\ \/ NothingStored \/ Confirmed
              \/ reply' = <<>> /\ UNCHANGED <<dl, sink, ul, source>>
<1>1. DataInv
  BY DEF DataInv, Inv
<1>2. ASSUME NEW f \in Frames, UploadStep(f)
      PROVE  Honest
  <2>1. UNCHANGED <<od, dl, sink>>
    BY <1>2, UploadsOnlyRead
  <2> QED
    BY <1>1, <2>1 DEF Honest, NothingStored, DataInv
<1>3. ASSUME NEW f \in Frames, UnknownCommand(f)
      PROVE  Honest
  BY <1>1, <1>3 DEF UnknownCommand, Honest, NothingStored, DataInv
<1>4. ASSUME NEW f \in Frames, DownloadStep(f) \/ ClientAbort(f)
      PROVE  Honest
  BY <1>1, <1>4, FramesAssumption, DownloadStepHonest, ClientAbortHonest
<1>5. ASSUME NEW w \in Written, ApplicationWrite(w[1], w[2])
      PROVE  /\ Permitted(dl')
             /\ reply' = <<>> /\ UNCHANGED <<dl, sink, ul, source>>
  BY <1>1, <1>5 DEF ApplicationWrite, DataInv
<1>6. CASE UNCHANGED vars
  BY <1>1, <1>6 DEF vars, NothingStored, DataInv
<1> QED
  BY <1>2, <1>3, <1>4, <1>5, <1>6 DEF Next, HandleMsg, Honest

(* StoredIsConfirmed: for every dictionary and every client, data change   *)
(* only in the object of the client's own transfer, only where writing is  *)
(* allowed, and only together with the confirmation.                       *)
THEOREM StoresAreConfirmed ==
    Spec => StoredIsConfirmed
<1> DEFINE Step == \A m \in Mux :
             <<od[m], sink.filed[m]>>' # <<od[m], sink.filed[m]>> =>
               \/ /\ Completed(reply', dl') /\ dl'.mux = m
                  /\ Writable(m)
               \/ reply' = <<>> /\ UNCHANGED <<dl, sink, ul, source>>
<1>1. Init => Permitted(dl)
  BY DEF Init, DownloadInit, Permitted
<1>2. Inv /\ Permitted(dl) /\ [Next]_vars => Permitted(dl)' /\ Step
  <2> SUFFICES ASSUME Inv, Permitted(dl), [Next]_vars
               PROVE  Permitted(dl)' /\ Step
    OBVIOUS
  <2>1. Permitted(dl)' <=> Permitted(dl')
    BY DEF Permitted
  <2>2. ASSUME NothingStored PROVE Step
    BY <2>2 DEF NothingStored
  <2>3. ASSUME Confirmed PROVE Step
    BY <2>3 DEF Confirmed
  <2>4. ASSUME reply' = <<>>, UNCHANGED <<dl, sink, ul, source>> PROVE Step
    BY <2>4
  <2> HIDE DEF Step
  <2> QED
    BY <2>1, <2>2, <2>3, <2>4, NextHonest
<1>3. Spec => [](Inv /\ Permitted(dl))
  BY <1>1, <1>2, InitInv, NextInv, PTL DEF Spec
<1>4. Spec => [][Step]_vars
  <2> HIDE DEF Step
  <2> QED
    BY <1>2, <1>3, PTL DEF Spec
<1> QED
  BY <1>4 DEF StoredIsConfirmed

-----------------------------------------------------------------------------
(* The buffer and the checksum of a block download.  download_block_end    *)
(* computes the checksum over one set of slices of the buffer and stores   *)
(* another; both agree as long as every frame carries its seven data bytes.*)

FullFrames == \A f \in Frames : Len(f.data) = SegLen

-----------------------------------------------------------------------------
(* Slices, byte by byte *)

LEMMA TakeBytes ==
    ASSUME NEW s \in Seq(Byte), NEW n \in Nat
    PROVE  /\ Take(s, n) \in Seq(Byte)
           /\ Len(Take(s, n)) = Least(n, Len(s))
           /\ \A i \in 1..Len(Take(s, n)) : Take(s, n)[i] = s[i]
<1> DEFINE k == Least(n, Len(s))
<1>1. Len(s) \in Nat /\ k \in Nat /\ k <= Len(s)
  BY LenProperties DEF Least
<1>2. \A i \in 1..k : s[i] \in Byte
  BY <1>1, ElementOfSeq
<1> HIDE DEF k
<1>3. /\ SubSeq(s, 1, k) \in Seq(Byte)
      /\ Len(SubSeq(s, 1, k)) = IF 1 <= k THEN k - 1 + 1 ELSE 0
      /\ \A i \in 1..(k - 1 + 1) : SubSeq(s, 1, k)[i] = s[1 + i - 1]
  BY <1>1, <1>2, SubSeqProperties
<1>4. Take(s, n) = SubSeq(s, 1, k)
  BY DEF Take, k
<1> QED
  BY <1>1, <1>3, <1>4 DEF k

LEMMA DropBytes ==
    ASSUME NEW s \in Seq(Byte), NEW n \in 0..Len(s)
    PROVE  /\ Drop(s, n) \in Seq(Byte)
           /\ Len(Drop(s, n)) = Len(s) - n
           /\ \A i \in 1..Len(Drop(s, n)) : Drop(s, n)[i] = s[n + i]
<1>1. Len(s) \in Nat /\ n \in Nat
  BY LenProperties
<1>2. \A i \in (n + 1)..Len(s) : s[i] \in Byte
  BY <1>1, ElementOfSeq
<1> DEFINE m == n + 1
           e == Len(s)
<1>3. m \in Int /\ e \in Int /\ \A i \in m..e : s[i] \in Byte
  BY <1>1, <1>2
<1> HIDE DEF m, e
<1>4. /\ SubSeq(s, m, e) \in Seq(Byte)
      /\ Len(SubSeq(s, m, e)) = IF m <= e THEN e - m + 1 ELSE 0
      /\ \A i \in 1..(e - m + 1) : SubSeq(s, m, e)[i] = s[m + i - 1]
  BY <1>3, SubSeqProperties
<1>5. Drop(s, n) = SubSeq(s, m, e)
  BY DEF Drop, m, e
<1> QED
  BY <1>1, <1>4, <1>5 DEF m, e

LEMMA DropLastBytes ==
    ASSUME NEW s \in Seq(Byte), NEW n \in 0..Len(s)
    PROVE  /\ DropLast(s, n) \in Seq(Byte)
           /\ Len(DropLast(s, n)) = Len(s) - n
           /\ \A i \in 1..(Len(s) - n) : DropLast(s, n)[i] = s[i]
<1>1. Len(s) \in Nat /\ Least(n, Len(s)) = n
  BY LenProperties DEF Least
<1> DEFINE k == Len(s) - n
<1>2. k \in Nat /\ Least(k, Len(s)) = k
  BY <1>1 DEF Least
<1>3. DropLast(s, n) = Take(s, k)
  BY <1>1 DEF DropLast
<1> HIDE DEF k
<1>4. /\ Take(s, k) \in Seq(Byte) /\ Len(Take(s, k)) = k
      /\ \A i \in 1..k : Take(s, k)[i] = s[i]
  BY <1>2, TakeBytes
<1> QED
  BY <1>3, <1>4 DEF k

LEMMA TakeLastBytes ==
    ASSUME NEW s \in Seq(Byte), NEW n \in 0..Len(s)
    PROVE  /\ TakeLast(s, n) \in Seq(Byte)
           /\ Len(TakeLast(s, n)) = n
           /\ \A i \in 1..n : TakeLast(s, n)[i] = s[Len(s) - n + i]
<1>1. Len(s) \in Nat /\ Least(n, Len(s)) = n
  BY LenProperties DEF Least
<1> DEFINE k == Len(s) - n
<1>2. k \in 0..Len(s)
  BY <1>1
<1>3. TakeLast(s, n) = Drop(s, k)
  BY <1>1 DEF TakeLast
<1> HIDE DEF k
<1>4. /\ Drop(s, k) \in Seq(Byte) /\ Len(Drop(s, k)) = Len(s) - k
      /\ \A i \in 1..Len(Drop(s, k)) : Drop(s, k)[i] = s[k + i]
  BY <1>2, DropBytes
<1> QED
  BY <1>1, <1>3, <1>4 DEF k

(* Cutting off what was just appended. *)
LEMMA DropLastOfConcat ==
    ASSUME NEW s \in Seq(Byte), NEW t \in Seq(Byte)
    PROVE  DropLast(s \o t, Len(t)) = s
<1> DEFINE c == s \o t
<1>1. /\ c \in Seq(Byte) /\ Len(c) = Len(s) + Len(t)
      /\ \A i \in 1..Len(s) : c[i] = s[i]
      /\ Len(s) \in Nat /\ Len(t) \in Nat
  BY ConcatProperties, LenProperties
<1> HIDE DEF c
<1>2. Len(t) \in 0..Len(c) /\ Len(c) - Len(t) = Len(s)
  BY <1>1
<1>3. /\ DropLast(c, Len(t)) \in Seq(Byte)
      /\ Len(DropLast(c, Len(t))) = Len(s)
      /\ \A i \in 1..Len(s) : DropLast(c, Len(t))[i] = c[i]
  BY <1>1, <1>2, DropLastBytes
<1>4. DropLast(c, Len(t)) = s
  BY <1>1, <1>3, SeqEqual
<1> QED
  BY <1>4 DEF c

(* What the checksum covers and what is kept of the buffer: everything but *)
(* the last n bytes, then k of these, is everything but the last n - k.    *)
LEMMA SlicesAgree ==
    ASSUME NEW b \in Seq(Byte), NEW n \in 0..Len(b), NEW k \in 0..n
    PROVE  DropLast(b, n) \o Take(TakeLast(b, n), k) = DropLast(b, n - k)
<1> DEFINE p == DropLast(b, n)
           t == TakeLast(b, n)
           q == Take(t, k)
           r == DropLast(b, n - k)
<1>0. Len(b) \in Nat /\ n \in Nat /\ k \in Nat /\ n - k \in 0..Len(b)
  BY LenProperties
<1>1. /\ p \in Seq(Byte) /\ Len(p) = Len(b) - n
      /\ \A i \in 1..(Len(b) - n) : p[i] = b[i]
  BY DropLastBytes
<1>2. /\ t \in Seq(Byte) /\ Len(t) = n
      /\ \A i \in 1..n : t[i] = b[Len(b) - n + i]
  BY TakeLastBytes
<1>3. /\ r \in Seq(Byte) /\ Len(r) = Len(b) - (n - k)
      /\ \A i \in 1..(Len(b) - (n - k)) : r[i] = b[i]
  BY <1>0, DropLastBytes
<1> HIDE DEF p, t, r
<1>4. /\ q \in Seq(Byte) /\ Len(q) = k
      /\ \A i \in 1..k : q[i] = t[i]
  <2>1. Least(k, Len(t)) = k
    BY <1>0, <1>2 DEF Least
  <2>2. /\ q \in Seq(Byte) /\ Len(q) = Least(k, Len(t))
        /\ \A i \in 1..Len(q) : q[i] = t[i]
    BY <1>0, <1>2, TakeBytes
  <2> HIDE DEF q
  <2> QED
    BY <2>1, <2>2
<1> HIDE DEF q
<1>5. /\ p \o q \in Seq(Byte) /\ Len(p \o q) = Len(p) + Len(q)
      /\ \A i \in 1..(Len(p) + Len(q)) :
           (p \o q)[i] = IF i <= Len(p) THEN p[i] ELSE q[i - Len(p)]
  BY <1>1, <1>4, ConcatProperties
<1>6. Len(p \o q) = Len(r)
  BY <1>0, <1>1, <1>3, <1>4, <1>5
<1>7. ASSUME NEW i \in 1..Len(p \o q)
      PROVE  (p \o q)[i] = r[i]
  <2>1. i \in 1..(Len(b) - (n - k)) /\ r[i] = b[i]
    BY <1>0, <1>3, <1>6
  <2>2. CASE i <= Len(p)
    BY <1>0, <1>1, <1>5, <2>1, <2>2
  <2>3. CASE i > Len(p)
    <3>1. i - Len(p) \in 1..k
      BY <1>0, <1>1, <2>1, <2>3
    <3>2. (p \o q)[i] = q[i - Len(p)]
      BY <1>0, <1>1, <1>5, <2>3
    <3>3. q[i - Len(p)] = b[Len(b) - n + (i - Len(p))]
      BY <1>0, <1>2, <1>4, <3>1
    <3>4. Len(b) - n + (i - Len(p)) = i
      BY <1>0, <1>1, <2>1
    <3> QED
      BY <2>1, <3>2, <3>3, <3>4
  <2> QED
    BY <1>0, <1>1, <2>1, <2>2, <2>3
<1>8. p \o q = r
  BY <1>3, <1>5, <1>6, <1>7, SeqEqual
<1> QED
  BY <1>8 DEF p, q, r, t
-----------------------------------------------------------------------------
(* The invariant *)

(* BlockBuffer and ChecksumCoversData of a pair, and that only a block     *)
(* transfer has a checksum.                                                *)
Buffered(d) ==
    /\ d.state \in {"SEGMENT", "BLOCK"} /\ d.held => d.buffer = <<>>
    /\ d.state = "BLOCK" /\ ~d.held => Len(d.buffer) % SegLen = 0
    /\ d.state = "BLOCK_END" =>
         IF d.held THEN Len(d.buffer) = SegLen
         ELSE Len(d.buffer) % SegLen = 0 /\ d.buffer # <<>>

Covered(d, s) ==
    d.check =>
      /\ d.state \in {"BLOCK", "BLOCK_END"}
      /\ ~d.told =>
           d.crc = IF d.held THEN s.got
                   ELSE IF d.state = "BLOCK" THEN d.buffer
                   ELSE DropLast(d.buffer, SegLen)

BlockPair(d, s) == Paired(d, s) /\ Clean(d) /\ Buffered(d) /\ Covered(d, s)

BlockInv == BlockPair(dl, sink)

(* What is left of it when a handler was told and raised. *)
BlockShape(d) == /\ Vacant(d) /\ Buffered(d)
                 /\ d.check => d.state \in {"BLOCK", "BLOCK_END"}

(* Nothing is claimed of a manager without a transfer. *)
LEMMA FreshIsBlockPair ==
    ASSUME NEW d \in DownloadState, NEW s
    PROVE  LET e == DlAborted(d)
           IN  Buffered(e) /\ Covered(e, s) /\ ~e.check /\ e.state = "NONE"
  BY DEF DlAborted, Fresh, Buffered, Covered, DownloadState

LEMMA SettledBlockPair ==
    ASSUME NEW d, NEW s, BlockPair(d, s)
    PROVE  /\ BlockPair(Settled(d), SettledSink(d, s))
           /\ Settled(d).state = "NONE"
           /\ (Settled(d).held => Settled(d).told)
           /\ ~Settled(d).check
<1>1. /\ Paired(Settled(d), SettledSink(d, s)) /\ Clean(Settled(d))
      /\ Settled(d).state = "NONE"
      /\ (Settled(d).held => Settled(d).told)
  BY SettledPair DEF BlockPair
<1>2. ~Settled(d).check
  BY FreshIsBlockPair DEF Settled, BlockPair, Paired, Covered
<1> QED
  BY <1>1, <1>2 DEF BlockPair, Buffered, Covered

(* Every way a transfer can end gives such a manager. *)
LEMMA EndedBlockInv ==
    ASSUME BlockInv, DownloadInv',
           NEW d \in DownloadState, dl' = DlAborted(d)
    PROVE  BlockInv'
<1>1. Buffered(dl') /\ Covered(dl', sink')
  BY FreshIsBlockPair
<1> QED
  BY <1>1 DEF BlockInv, BlockPair, DownloadInv, Paired, Clean, Vacant, Buffered,
             Covered

LEMMA ContinueBlockInv ==
    ASSUME NEW d, NEW s, NEW frames, Continue(d, s, frames), BlockPair(d, s)
    PROVE  BlockInv'
  BY DEF Continue, BlockInv, BlockPair, Paired, Clean, Vacant, Buffered,
         Covered

LEMMA AbortFailsBlockInv ==
    ASSUME DownloadInv, NEW d, NEW s, Paired(d, s), BlockShape(d), NEW f,
           AbortFails(d, s, f)
    PROVE  BlockInv'
<1>1. Paired(Told(d), Heard(d, s)) /\ Clean(Told(d))
  BY ToldPair DEF AbortFails, BlockShape
<1>2. /\ Told(d).told /\ Told(d).state = d.state /\ Told(d).held = d.held
      /\ Told(d).buffer = d.buffer /\ Told(d).check = d.check
  BY DEF Told, Paired, DownloadState
<1>3. Buffered(Told(d)) /\ Covered(Told(d), Heard(d, s))
  BY <1>2 DEF BlockShape, Buffered, Covered
<1> QED
  BY <1>1, <1>3, ContinueBlockInv DEF AbortFails, GeneralFailure, BlockPair

LEMMA FinishBlockInv ==
    ASSUME BlockInv, DownloadInv', NEW d, NEW s, Paired(d, s), NEW frames,
           \/ Finish(d, s, frames)
           \/ \E code, m : Refuse(DlAborted(d), Notified(d, s), code, m)
    PROVE  BlockInv'
<1>1. dl' = DlAborted(d)
  BY DEF Finish, FinishHandler, FinishVariable, Refuse, Continue
<1> QED
  BY <1>1, EndedBlockInv DEF Paired

LEMMA ReceiveFailsBlockInv ==
    ASSUME BlockInv, DownloadInv, DownloadInv', NEW d, NEW s, Paired(d, s),
           BlockShape(d), NEW f, ReceiveFails(d, s, f)
    PROVE  BlockInv'
  BY FinishBlockInv, AbortFailsBlockInv DEF ReceiveFails

LEMMA SettleFailsBlockInv ==
    ASSUME BlockInv, DownloadInv, NEW f, SettleFails(f)
    PROVE  BlockInv'
  BY AbortFailsBlockInv
  DEF SettleFails, BlockInv, BlockPair, BlockShape, Clean, Covered

(* A transfer that was begun: empty buffer, and with a checksum empty too. *)
LEMMA BegunBlockPair ==
    ASSUME NEW d, NEW s, Paired(d, s), d.held => d.told, NEW m \in Mux,
           NEW t \in {"SEGMENT", "BLOCK"}, NEW c \in BOOLEAN,
           c => t = "BLOCK"
    PROVE  LET b == [Started(d, t, m) EXCEPT !.check = c]
           IN  BlockPair(b, s) /\ BlockPair(Held(b), Opened(s))
<1> DEFINE f == Fresh(d, t)
           b == [Started(d, t, m) EXCEPT !.check = c]
<1>1. t \in TransferStates /\ d \in DownloadState
  BY DEF TransferStates, Paired
<1>2. /\ f \in DownloadState /\ f.state = t /\ ~f.held /\ ~f.told
      /\ f.buffer = <<>> /\ f.crc = <<>>
  <2>1. f.crc = <<>>
    BY <1>1 DEF Fresh, DownloadState
  <2> QED
    BY <1>1, <2>1, FreshState
<1> HIDE DEF f
<1>3. /\ b \in DownloadState /\ b.state = t /\ ~b.held /\ ~b.told
      /\ b.buffer = <<>> /\ b.crc = <<>> /\ b.check = c
  BY <1>2 DEF Started, DownloadState, f
<1> HIDE DEF b
<1>4. Len(b.buffer) = 0 /\ 0 % SegLen = 0
  BY <1>3, EmptySeq DEF SegLen
<1>5. Paired(b, s) /\ Clean(b) /\ Buffered(b) /\ Covered(b, s)
  <2>1. s.open = 0 /\ s \in SinkState
    BY DEF Paired
  <2> QED
    BY <1>3, <1>4, <2>1 DEF Paired, Clean, Vacant, Buffered, Covered
<1>6. Paired(Held(b), Opened(s)) /\ Held(b).held /\ Held(b).state = t
  BY <1>3, <1>5, HeldPair
<1>7. /\ Held(b).buffer = <<>> /\ Held(b).crc = <<>>
      /\ Held(b).check = c /\ Opened(s).got = <<>>
  BY <1>3 DEF Held, Opened, DownloadState
<1>8. Clean(Held(b)) /\ Buffered(Held(b)) /\ Covered(Held(b), Opened(s))
  BY <1>6, <1>7 DEF Clean, Vacant, Buffered, Covered
<1> QED
  BY <1>5, <1>6, <1>8 DEF BlockPair, b

LEMMA InitDownloadBlockInv ==
    ASSUME BlockInv, DownloadInv, DownloadInv', NEW f \in Frame,
           InitDownload(f)
    PROVE  BlockInv'
<1> DEFINE v == Settled(dl)
           s == SettledSink(dl, sink)
           g == [Started(v, "SEGMENT", f.mux) EXCEPT !.check = FALSE]
           d == Fresh(v, "NONE")
           e == Started(v, "NONE", f.mux)
<1>1. BlockPair(v, s) /\ (v.held => v.told) /\ v \in DownloadState
  BY SettledBlockPair DEF BlockInv, BlockPair, Paired
<1>2. f.mux \in Mux /\ "NONE" \in TransferStates
  BY FrameType DEF TransferStates
<1>3. CASE InitRefused(f)
  <2> HIDE DEF v, s
  <2> QED
    BY <1>1, <1>3, ContinueBlockInv DEF InitRefused, Refuse, v, s
<1>4. CASE OpenSegmented(f)
  <2>1. BlockPair(g, s) /\ BlockPair(Held(g), Opened(s))
    BY <1>1, <1>2, BegunBlockPair DEF BlockPair
  <2>2. g = Started(v, "SEGMENT", f.mux)
    <3> HIDE DEF v
    <3> QED
      BY <1>1 DEF Started, Fresh, DownloadState
  <2>3. \/ \E frames : Continue(g, s, frames)
        \/ \E frames : Continue(Held(g), Opened(s), frames)
    BY <1>4, <2>2 DEF OpenSegmented, GeneralFailure
  <2> HIDE DEF g, s
  <2> QED
    BY <2>1, <2>3, ContinueBlockInv
<1>5. CASE Expedite(f)
  <2>1. BlockPair(d, s)
    <3>1. d = DlAborted(v)
      BY DEF DlAborted
    <3>2. Paired(d, s) /\ Clean(d)
      BY <1>1, <1>2, FreshState DEF BlockPair, Paired, Clean, Vacant
    <3> HIDE DEF d, v, s
    <3> QED
      BY <1>1, <3>1, <3>2, FreshIsBlockPair DEF BlockPair
  <2>2. Paired(e, s) /\ Vacant(e) /\ ~e.held /\ ~e.told
    BY <1>1, <1>2, StartedPair DEF BlockPair, Clean
  <2>3. /\ Paired(Held(e), Opened(s)) /\ Vacant(Held(e))
        /\ Held(e).state = "NONE" /\ ~Held(e).check
    <3>1. ~e.check /\ e.state = "NONE"
      BY <1>1 DEF Started, Fresh, DownloadState
    <3> HIDE DEF e
    <3> QED
      BY <2>2, <3>1, HeldPair DEF Held, Paired, DownloadState
  <2>4. BlockShape(Held(e))
    BY <2>3 DEF BlockShape, Buffered
  <2>5. ASSUME NEW a, NEW z, NEW data, NEW frames,
               \/ Finish(Received(a, data), z, frames)
               \/ Finish(Held(a), z, frames)
        PROVE  \E y : dl' = DlAborted(y)
    BY <2>5 DEF Finish, FinishHandler, FinishVariable, Refuse, Continue
  <2>6. \/ \E frames : Continue(v, s, frames)
        \/ \E frames : Continue(d, s, frames)
        \/ ReceiveFails(Held(e), Opened(s), f)
        \/ \E y : dl' = DlAborted(y)
    BY <1>5, <2>5 DEF Expedite, Refuse, GeneralFailure
  <2>7. ASSUME NEW y, dl' = DlAborted(y)
        PROVE  BlockInv'
    <3>1. dl'.state = "NONE" /\ ~dl'.check
      BY <2>7 DEF DlAborted, Fresh, DownloadInv, Paired, DownloadState
    <3> QED
      BY <3>1 DEF DownloadInv, BlockInv, BlockPair, Paired, Clean, Vacant,
                  Buffered, Covered
  <2> HIDE DEF v, s, d, e
  <2> QED
    BY <1>1, <2>1, <2>3, <2>4, <2>6, <2>7, ContinueBlockInv,
       ReceiveFailsBlockInv
<1> QED
  BY <1>3, <1>4, <1>5, SettleFailsBlockInv DEF InitDownload

LEMMA DownloadBlockInitBlockInv ==
    ASSUME BlockInv, DownloadInv, NEW f \in Frame, DownloadBlockInit(f)
    PROVE  BlockInv'
<1> DEFINE v == Settled(dl)
           s == SettledSink(dl, sink)
           d == [Started(v, "BLOCK", f.mux) EXCEPT !.check = Bit(f, 4)]
<1>1. BlockPair(v, s) /\ (v.held => v.told)
  BY SettledBlockPair DEF BlockInv
<1>2. f.mux \in Mux /\ Bit(f, 4) \in BOOLEAN
  BY FrameType DEF Bit
<1>3. CASE InitRefused(f)
  <2> HIDE DEF v, s
  <2> QED
    BY <1>1, <1>3, ContinueBlockInv DEF InitRefused, Refuse, v, s
<1>4. CASE OpenBlock(f)
  <2>1. BlockPair(d, s) /\ BlockPair(Held(d), Opened(s))
    BY <1>1, <1>2, BegunBlockPair DEF BlockPair
  <2>2. \/ \E frames : Continue(d, s, frames)
        \/ \E frames : Continue(Held(d), Opened(s), frames)
    BY <1>4 DEF OpenBlock, GeneralFailure
  <2> HIDE DEF d, s
  <2> QED
    BY <2>1, <2>2, ContinueBlockInv
<1> QED
  BY <1>3, <1>4, SettleFailsBlockInv DEF DownloadBlockInit

LEMMA AbortDownloadBlockInv ==
    ASSUME BlockInv, DownloadInv, DownloadInv', NEW d, Paired(d, sink),
           BlockShape(d), NEW code, NEW m, NEW f, AbortDownload(d, code, m, f)
    PROVE  BlockInv'
  BY FinishBlockInv, AbortFailsBlockInv DEF AbortDownload

LEMMA ShapeNow ==
    ASSUME BlockInv
    PROVE  Paired(dl, sink) /\ BlockShape(dl)
  BY DEF BlockInv, BlockPair, BlockShape, Clean, Covered

LEMMA DownloadSegmentBlockInv ==
    ASSUME BlockInv, DownloadInv, DownloadInv', NEW f \in Frame, DownloadSegment(f)
    PROVE  BlockInv'
<1> DEFINE data == Take(f.data, SegSize(f))
           d == [dl EXCEPT !.toggle = ~@]
           r == Received(d, data)
           p == Passed(d, sink, data)
           confirm == <<SegmentReply(Toggle(f))>>
<1>1. CASE \E code, m : AbortDownload(dl, code, m, f)
  BY <1>1, ShapeNow, AbortDownloadBlockInv
<1>2. CASE /\ dl.state = "SEGMENT"
           /\ \/ ReceiveFails(d, sink, f)
              \/ Finish(r, p, confirm)
              \/ Continue(r, p, confirm)
  <2>1. data \in Seq(Byte)
    <3>1. f.data \in Seq(Byte) /\ SegSize(f) \in Int
      BY FrameType, SizeType DEF SegLen
    <3> QED
      BY <3>1, TakeType
  <2>2. /\ Paired(d, sink) /\ d.state = "SEGMENT" /\ ~d.check
        /\ d.held => d.buffer = <<>>
    BY <1>2 DEF BlockInv, BlockPair, Buffered, Covered, Paired, DownloadState
  <2> HIDE DEF data, d, confirm
  <2>3. Paired(r, p) /\ r.state = "SEGMENT" /\ r.held = d.held
    BY <2>1, <2>2, ReceivedPair
  <2>4. ~r.check /\ (r.held => r.buffer = <<>>)
    BY <2>2 DEF Received, Extended, Paired, DownloadState
  <2> HIDE DEF r, p
  <2>5. BlockPair(r, p)
    BY <2>3, <2>4 DEF BlockPair, Clean, Vacant, Buffered, Covered
  <2>6. BlockShape(d)
    BY <2>2 DEF BlockShape, Vacant, Buffered
  <2> QED
    BY <1>2, <2>2, <2>3, <2>5, <2>6, ContinueBlockInv, FinishBlockInv,
       ReceiveFailsBlockInv
<1> QED
  BY <1>1, <1>2 DEF DownloadSegment

LEMMA DownloadSubBlockBlockInv ==
    ASSUME BlockInv, DownloadInv, DownloadInv', dl.state = "BLOCK",
           NEW f \in Frame,
           Len(f.data) = SegLen, DownloadSubBlock(f)
    PROVE  BlockInv'
<1> DEFINE c == Checked(dl, f.data)
           r == Received(c, f.data)
           n == Counted(r, SubBlockFull(f))
           s == Passed(dl, sink, f.data)
           x == [Extended(dl, f.data) EXCEPT !.state = "BLOCK_END"]
           e == Counted(x, TRUE)
<1>1. /\ f.data \in Seq(Byte) /\ Paired(dl, sink) /\ dl \in DownloadState
      /\ Buffered(dl) /\ Covered(dl, sink) /\ sink \in SinkState
  BY FrameType DEF BlockInv, BlockPair, Paired
<1>2. /\ Len(dl.buffer) \in Nat
      /\ dl.buffer \o f.data \in Seq(Byte)
      /\ Len(dl.buffer \o f.data) = Len(dl.buffer) + SegLen
  <2>1. dl.buffer \in Seq(Byte)
    BY <1>1 DEF DownloadState
  <2> QED
    BY <1>1, <2>1, ConcatProperties, LenProperties
<1>3. /\ dl.held => Len(dl.buffer \o f.data) = SegLen
      /\ ~dl.held => /\ Len(dl.buffer \o f.data) % SegLen = 0
                     /\ dl.buffer \o f.data # <<>>
  <2>1. dl.held => Len(dl.buffer) = 0
    BY <1>1, EmptySeq DEF Buffered
  <2>2. ~dl.held => Len(dl.buffer) % SegLen = 0
    BY <1>1 DEF Buffered
  <2> DEFINE b == dl.buffer \o f.data
             k == Len(dl.buffer)
  <2>3. b \in Seq(Byte) /\ k \in Nat /\ Len(b) = k + 7
    BY <1>2 DEF SegLen
  <2>4. (k = 0 => Len(b) = 7) /\ (k % 7 = 0 => Len(b) % 7 = 0) /\ Len(b) # 0
    <3> HIDE DEF k, b
    <3> QED
      BY <2>3
  <2>5. b # <<>>
    <3> HIDE DEF k, b
    <3> QED
      BY <2>4, EmptySeq
  <2> QED
    BY <2>1, <2>2, <2>4, <2>5 DEF SegLen
<1>7. /\ Paired(c, sink) /\ c.state = "BLOCK" /\ c.held = dl.held
      /\ c.told = dl.told
      /\ c.seq = dl.seq /\ c.buffer = dl.buffer /\ c.check = dl.check
      /\ dl.check => c.crc = dl.crc \o f.data
  BY <1>1, CheckedPair DEF Checked, DownloadState
<1>8. BlockShape(c)
  BY <1>1, <1>7 DEF BlockShape, Vacant, Buffered
<1>4. BlockPair(n, s)
  <2> HIDE DEF c
  <2>2. /\ Paired(r, s) /\ r.state = "BLOCK" /\ r.held = dl.held
        /\ r.seq = dl.seq /\ r.told = dl.told
    <3>1. Passed(c, sink, f.data) = s
      BY <1>7 DEF Passed
    <3> QED
      BY <1>1, <1>7, <3>1, ReceivedPair
  <2>3. /\ r.check = dl.check
        /\ dl.check => r.crc = dl.crc \o f.data
        /\ r.buffer = IF dl.held THEN dl.buffer ELSE dl.buffer \o f.data
        /\ s.got = IF dl.held THEN sink.got \o f.data ELSE sink.got
    BY <1>1, <1>7 DEF Received, Extended, Passed, Paired, DownloadState,
                      SinkState
  <2> HIDE DEF r, s
  <2>4. Buffered(r) /\ Covered(r, s)
    BY <1>1, <1>3, <2>2, <2>3 DEF Buffered, Covered
  <2>5. Paired(n, s) /\ n.state = "BLOCK"
    <3>1. SubBlockFull(f) \in BOOLEAN /\ (SubBlockFull(f) \/ r.seq # MaxSeq)
      BY <2>2 DEF SubBlockFull, LastSub
    <3> QED
      BY <2>2, <3>1, CountedPair
  <2>6. /\ n.held = r.held /\ n.told = r.told /\ n.check = r.check
        /\ n.crc = r.crc
        /\ n.buffer = r.buffer
    BY <2>2 DEF Counted, Paired, DownloadState
  <2> HIDE DEF n
  <2> QED
    BY <2>2, <2>4, <2>5, <2>6 DEF BlockPair, Clean, Vacant, Buffered, Covered
<1>5. BlockPair(e, sink)
  <2>1. /\ Paired(x, sink) /\ x.state = "BLOCK_END" /\ x.held = dl.held
        /\ x.told = dl.told /\ x.check = dl.check /\ x.crc = dl.crc
        /\ x.buffer = dl.buffer \o f.data
    BY <1>1, <1>2 DEF Extended, Paired, DownloadState, TransferStates
  <2> HIDE DEF x
  <2>2. Paired(e, sink) /\ e.state = "BLOCK_END"
    BY <2>1, CountedPair
  <2>3. /\ e.held = x.held /\ e.told = x.told /\ e.check = x.check
        /\ e.crc = x.crc /\ e.buffer = x.buffer
    BY <2>1 DEF Counted, Paired, DownloadState
  <2> HIDE DEF e
  <2>4. Buffered(e)
    BY <1>3, <2>1, <2>2, <2>3 DEF Buffered
  <2>5. Covered(e, sink)
    <3>1. dl.buffer \in Seq(Byte)
      BY <1>1 DEF DownloadState
    <3>2. DropLast(dl.buffer \o f.data, SegLen) = dl.buffer
      BY <1>1, <3>1, DropLastOfConcat
    <3> QED
      BY <1>1, <2>1, <2>2, <2>3, <3>2 DEF Covered
  <2> QED
    BY <2>2, <2>4, <2>5 DEF BlockPair, Clean, Vacant
<1>6. \/ AbortDownload(dl, "0x05040003", dl.mux, f)
      \/ ReceiveFails(c, sink, f)
      \/ Continue(n, s, SubBlockAck(f))
      \/ Continue(e, sink, SubBlockAck(f))
  BY DEF DownloadSubBlock
<1> HIDE DEF c, n, s, e
<1> QED
  BY <1>4, <1>5, <1>6, <1>7, <1>8, ShapeNow, AbortDownloadBlockInv,
     ReceiveFailsBlockInv, ContinueBlockInv

LEMMA DownloadBlockEndBlockInv ==
    ASSUME BlockInv, DownloadInv, DownloadInv', NEW f \in Frame,
           DownloadBlockEnd(f)
    PROVE  BlockInv'
<1> DEFINE size == EndSize(f)
           d    == Checked(dl, Take(TakeLast(dl.buffer, SegLen), size))
           t    == Trimmed(d, size)
           p    == Passed(d, sink, Take(dl.buffer, size))
<1>1. /\ Paired(d, sink) /\ Paired(t, sink) /\ (d.held => Paired(d, p))
      /\ d.held = dl.held /\ d.buffer = dl.buffer /\ Vacant(d)
  BY BlockEndPair
<1>2. \/ \E code, m : AbortDownload(dl, code, m, f)
      \/ \E code, m : AbortDownload(d, code, m, f)
      \/ Finish(t, sink, <<BlockEndReply>>)
      \/ ReceiveFails(d, sink, f)
      \/ d.held /\ Finish(d, p, <<BlockEndReply>>)
  BY DEF DownloadBlockEnd
<1>3. BlockShape(d)
  <2>1. d.state = dl.state /\ d.check = dl.check
    BY CheckedState DEF DownloadInv, Paired
  <2> HIDE DEF d
  <2> QED
    BY <1>1, <2>1, ShapeNow DEF BlockShape, Buffered
<1> HIDE DEF d, t, p
<1> QED
  BY <1>1, <1>2, <1>3, ShapeNow, AbortDownloadBlockInv, FinishBlockInv,
     ReceiveFailsBlockInv

LEMMA DownloadStepBlockInv ==
    ASSUME FullFrames, BlockInv, DownloadInv, NEW f \in Frames,
           DownloadStep(f)
    PROVE  BlockInv'
<1>1. f \in Frame /\ Len(f.data) = SegLen
  BY FramesAssumption DEF FullFrames
<1>2. DownloadInv'
  BY <1>1, DownloadStepInv
<1>3. CASE Route(f) = "download_sub_block" /\ DownloadSubBlock(f)
  <2>1. dl.state = "BLOCK"
    BY <1>3 DEF Route
  <2> QED
    BY <1>1, <1>2, <1>3, <2>1, DownloadSubBlockBlockInv
<1> QED
  BY <1>1, <1>2, <1>3, DownloadSegmentBlockInv, InitDownloadBlockInv,
     DownloadBlockEndBlockInv, DownloadBlockInitBlockInv DEF DownloadStep

LEMMA NextBlockInv ==
    ASSUME FullFrames
    PROVE  Inv /\ BlockInv /\ [Next]_vars => BlockInv'
<1> SUFFICES ASSUME Inv, BlockInv, [Next]_vars PROVE BlockInv'
  OBVIOUS
<1>1. Inv'
  BY NextInv
<1>2. UNCHANGED <<dl, sink>> => BlockInv'
  BY DEF BlockInv
<1>3. ASSUME NEW f \in Frames, ClientAbort(f)
      PROVE  BlockInv'
  <2>1. CASE UNCHANGED <<dl, sink>>
    BY <1>2, <2>1
  <2>2. CASE dl' = DlAborted(dl)
    BY <1>1, <2>2, EndedBlockInv DEF Inv, DownloadInv, Paired
  <2>3. CASE AbortFails(dl, sink, f)
    BY <2>3, ShapeNow, AbortFailsBlockInv DEF Inv
  <2> QED
    BY <1>3, <2>1, <2>2, <2>3 DEF ClientAbort, ClientAbortsDownload
<1>4. ASSUME NEW f \in Frames, DownloadStep(f)
      PROVE  BlockInv'
  BY <1>4, FullFrames, DownloadStepBlockInv DEF Inv
<1>5. ASSUME NEW f \in Frames, UploadStep(f) \/ UnknownCommand(f)
      PROVE  BlockInv'
  BY <1>2, <1>5 DEF UploadStep, UnknownCommand, downloadVars
<1>6. ASSUME NEW w \in Written, ApplicationWrite(w[1], w[2])
      PROVE  BlockInv'
  BY <1>2, <1>6 DEF ApplicationWrite
<1>7. CASE UNCHANGED vars
  BY <1>2, <1>7 DEF vars
<1> QED
  BY <1>3, <1>4, <1>5, <1>6, <1>7 DEF Next, HandleMsg

LEMMA SpecBlockInv ==
    ASSUME FullFrames
    PROVE  Spec => [](Inv /\ BlockInv)
<1>1. Init => BlockInv
  <2> SUFFICES ASSUME Init PROVE BlockInv
    OBVIOUS
  <2>1. Paired(dl, sink) /\ Clean(dl)
    BY InitInv DEF Inv, DownloadInv
  <2>2. dl.state = "NONE" /\ dl.check = FALSE
    BY DEF Init, DownloadInit
  <2> QED
    BY <2>1, <2>2 DEF BlockInv, BlockPair, Buffered, Covered
<1>2. Inv /\ BlockInv /\ [Next]_vars => BlockInv'
  BY FullFrames, NextBlockInv
<1> QED
  BY <1>1, <1>2, InitInv, NextInv, PTL DEF Spec

(* BlockBuffer: the slices of download_block_end find in the buffer what   *)
(* they take for granted, for every sub-block size.                        *)
THEOREM BuffersAreWhole ==
    ASSUME FullFrames
    PROVE  Spec => []BlockBuffer
<1>1. BlockInv => BlockBuffer
  BY DEF BlockInv, BlockPair, Buffered, BlockBuffer
<1> QED
  BY <1>1, FullFrames, SpecBlockInv, PTL

(* ChecksumCoversData: the running checksum is that of the data delivered. *)
THEOREM ChecksumsCoverData ==
    ASSUME FullFrames
    PROVE  Spec => []ChecksumCoversData
<1>1. BlockInv => ChecksumCoversData
  BY DEF BlockInv, BlockPair, Covered, ChecksumCoversData
<1> QED
  BY <1>1, FullFrames, SpecBlockInv, PTL

-----------------------------------------------------------------------------
(* What is stored at the end of a checked block transfer *)

LEMMA DropLastNothing ==
    ASSUME NEW s \in Seq(Byte)
    PROVE  DropLast(s, 0) = s
<1>1. <<>> \in Seq(Byte) /\ Len(<<>>) = 0 /\ s \o <<>> = s
  BY EmptySeq, ConcatEmptySeq
<1>2. DropLast(s \o <<>>, Len(<<>>)) = s
  BY <1>1, DropLastOfConcat
<1> QED
  BY <1>1, <1>2

LEMMA TakeLastWhole ==
    ASSUME NEW s \in Seq(Byte)
    PROVE  TakeLast(s, Len(s)) = s
<1>1. Len(s) \in Nat /\ Len(s) \in 0..Len(s)
  BY LenProperties
<1>2. /\ TakeLast(s, Len(s)) \in Seq(Byte)
      /\ Len(TakeLast(s, Len(s))) = Len(s)
      /\ \A i \in 1..Len(s) : TakeLast(s, Len(s))[i] = s[Len(s) - Len(s) + i]
  BY <1>1, TakeLastBytes
<1>3. \A i \in 1..Len(s) : Len(s) - Len(s) + i = i
  BY <1>1
<1> QED
  BY <1>1, <1>2, <1>3, SeqEqual

LEMMA CheckedBlockEnd ==
    ASSUME DownloadInv, BlockInv, NEW f \in Frame, DownloadBlockEnd(f),
           dl.check, ~dl.told, reply' = <<BlockEndReply>>
    PROVE  f.crc = IF dl.held THEN sink'.filed[dl.mux] ELSE od'[dl.mux]
<1> DEFINE size == EndSize(f)
           b    == dl.buffer
           tail == Take(TakeLast(b, SegLen), size)
           d    == Checked(dl, tail)
           t    == Trimmed(d, size)
           p    == Passed(d, sink, Take(b, size))
           confirm == <<BlockEndReply>>
<1>1. /\ \A code, m : confirm # <<AbortReply(code, m)>>
      /\ confirm # <<GeneralError(f)>>
  BY DEF BlockEndReply, AbortReply, GeneralError
<1>2. /\ dl \in DownloadState /\ b \in Seq(Byte) /\ Len(b) \in Nat
      /\ dl.mux \in Mux /\ size \in 0..SegLen
      /\ sink \in SinkState /\ od \in [Mux -> Seq(Byte)]
  BY SizeType, LenProperties DEF DownloadInv, Paired, DownloadState
<1>3. /\ Paired(d, sink) /\ d.mux = dl.mux /\ d.held = dl.held
      /\ d.buffer = b /\ Paired(t, sink) /\ t.mux = dl.mux
  BY BlockEndPair
<1>4. d.crc = dl.crc \o tail /\ d.check
  BY <1>2 DEF Checked, DownloadState
<1>5. t.held = d.held /\ t.buffer = IF size = SegLen THEN b
                                    ELSE DropLast(b, SegLen - size)
  <2> HIDE DEF d, size
  <2> QED
    BY <1>3 DEF Trimmed, Paired, DownloadState
<1>6. /\ dl.state = "BLOCK_END" /\ d.crc = f.crc
      /\ \/ ~d.held /\ Finish(t, sink, confirm)
         \/ d.held /\ Finish(d, p, confirm)
  <2>1. /\ ~\E code, m : AbortDownload(dl, code, m, f)
        /\ ~\E code, m : AbortDownload(d, code, m, f)
    BY <1>1 DEF AbortDownload, AbortFails, GeneralFailure, Refuse, Continue
  <2>2. ~ReceiveFails(d, sink, f)
    BY <1>1 DEF ReceiveFails, AbortFails, GeneralFailure, Refuse, Continue
  <2> QED
    BY <1>4, <2>1, <2>2 DEF DownloadBlockEnd
<1>7. CASE ~dl.held
  <2>1. Len(b) % SegLen = 0 /\ b # <<>> /\ dl.crc = DropLast(b, SegLen)
    BY <1>6, <1>7 DEF BlockInv, BlockPair, Buffered, Covered
  <2>2. Len(b) >= SegLen
    <3>1. Len(b) # 0
      BY <1>2, <2>1, EmptySeq
    <3> DEFINE k == Len(b)
    <3>2. k \in Nat /\ k % 7 = 0 /\ k # 0
      BY <1>2, <2>1, <3>1 DEF SegLen
    <3> HIDE DEF k
    <3>3. k >= 7
      BY <3>2
    <3> QED
      BY <3>3 DEF k, SegLen
  <2>3. d.crc = DropLast(b, SegLen - size)
    <3>1. SegLen \in 0..Len(b)
      BY <1>2, <2>2 DEF SegLen
    <3> HIDE DEF b, size
    <3> QED
      BY <1>2, <1>4, <2>1, <3>1, SlicesAgree
  <2>4. t.buffer = d.crc
    <3>1. size = SegLen => SegLen - size = 0
      BY DEF SegLen
    <3> QED
      BY <1>2, <1>5, <2>3, <3>1, DropLastNothing
  <2> HIDE DEF t, d, confirm
  <2>5. od' = [od EXCEPT ![dl.mux] = t.buffer]
    BY <1>1, <1>3, <1>5, <1>6, <1>7
    DEF Finish, FinishHandler, FinishVariable, confirm
  <2> QED
    BY <1>2, <1>6, <1>7, <2>4, <2>5
<1>8. CASE dl.held
  <2>1. Len(b) = SegLen /\ dl.crc = sink.got
    BY <1>6, <1>8 DEF BlockInv, BlockPair, Buffered, Covered
  <2>2. TakeLast(b, SegLen) = b
    BY <1>2, <2>1, TakeLastWhole
  <2>3. p.got = d.crc
    <3>1. p.got = sink.got \o Take(b, size)
      BY <1>2, <1>3, <1>8 DEF Passed, SinkState
    <3> QED
      BY <1>4, <2>1, <2>2, <3>1
  <2>4. Dismissed(d, p) \in SinkState
    <3>1. d.held => Paired(d, p)
      BY BlockEndPair
    <3> QED
      BY <1>3, <1>8, <3>1, DismissedState
  <2> HIDE DEF t, d, p, confirm
  <2>5. sink' = [Dismissed(d, p) EXCEPT !.filed[dl.mux] = p.got]
    BY <1>1, <1>3, <1>6, <1>8
    DEF Finish, FinishHandler, FinishVariable, Refuse, Continue, confirm
  <2>6. sink'.filed[dl.mux] = p.got
    BY <1>2, <2>4, <2>5 DEF SinkState
  <2> QED
    BY <1>6, <1>8, <2>3, <2>6
<1> QED
  BY <1>7, <1>8

(* ChecksumGuardsData: whatever a checked block download stores or files   *)
(* is the data the client computed its checksum on.                        *)
THEOREM ChecksumsGuardData ==
    ASSUME FullFrames
    PROVE  Spec => ChecksumGuardsData
<1> DEFINE Step == dl.check /\ ~dl.told /\ reply' = <<BlockEndReply>> =>
             \A f \in Frames :
               f.crc # (IF dl.held THEN sink'.filed[dl.mux]
                        ELSE od'[dl.mux]) => ~DownloadBlockEnd(f)
<1>1. Inv /\ BlockInv => Step
  BY CheckedBlockEnd, FramesAssumption DEF Inv
<1>2. Spec => [][Step]_vars
  <2> HIDE DEF Step
  <2> QED
    BY <1>1, FullFrames, SpecBlockInv, PTL
<1> QED
  BY <1>2 DEF ChecksumGuardsData
=============================================================================
