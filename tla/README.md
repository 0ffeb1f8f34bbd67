# A TLA+ verification of durand

durand (`src/src/durand/`) is a CANopen node in Python: an object dictionary and
the services that serve it over a CAN bus. This directory holds TLA+ modules that
model its services, TLC configurations that check them on small instances, and
TLAPS proofs for all instances. Line numbers below refer to
`src/src/durand/`; `PROJECT.json` gives the lines behind every definition.

## 1. The system

| component | state | operations | what makes it correct |
|---|---|---|---|
| SDO server, `services/sdo/server.py` | COB-IDs, `_stopped` | `handle_msg`, `abort`, `lookup`, subscription by NMT state | every frame goes to the manager whose transfer it belongs to; an error of any kind becomes one abort frame |
| `DownloadManager`, `services/sdo/download.py` | state, multiplexor, handler, buffer, sequence number, toggle bit, checksum | `init_download`, `download_segment`, `download_block_init`, `download_sub_block`, `download_block_end`, `on_abort` | what is stored is what the client sent and was told is stored; a handler hears the end of its transfer once; a transfer starts from nothing of the one before |
| `UploadManager` with `FixedStream`, `HandlerStream`, `services/sdo/upload.py` | state, multiplexor, stream, toggle bit, block size, checksum | `init_upload`, `upload_segment`, `upload_sub_block`, `on_abort` | a stream is there whenever it is read and is released once |
| `TPDO` with `SyncHandler`, `InhibitTimer`, `services/pdo/tpdo.py`, `base.py` | COB-ID, mapping, cache, type, SYNC counter, timer | NMT state, COB-ID, enable, mapping, type, inhibit time; variable changed, SYNC, timer | frames carry the dictionary's values under the current configuration; no change is lost |
| `RPDO`, `services/pdo/rpdo.py`, `base.py` | COB-ID, mapping, subscription, message held for SYNC | the same configuration; message, SYNC | subscribed exactly while active; only mapped variables change |
| NMT slave, `services/nmt.py` | state, pending node id | commands, boot-up, resets | services follow its state |
| LSS slave, `services/lss.py` | mode, selective address, fastscan position, pending node id and bit rate | the LSS commands, two timers | a node that answers is the one addressed; fastscan finds a node |
| EMCY producer, `services/emcy.py` | error register, COB-ID, inhibit timer, deferred emergency | `set`, inhibit time, COB-ID, NMT state | no emergency lost, order kept |
| Heartbeat, `services/heartbeat.py` | interval, timer | interval written, timer, NMT state | one timer chain |
| SYNC consumer, `services/sync.py` | COB-ID, callbacks | SYNC, COB-ID written | callbacks follow the COB-ID |
| Schedulers, `scheduler.py` | entries, lock, wake-up event, stop flag | `add`, `cancel`, `run`, `stop` | an entry is called at its time, `stop` stops |
| Object dictionary, `object_dictionary.py`, `callback_handler.py` | values, callbacks by multiplexor | `read`, `write`, `add_…/remove_…callback` | validate before write, update after |
| Network, `network.py` | subscriptions, lock | `add_subscription`, `remove_subscription`, listener | one callback per identifier |
| EDS export, datatypes, node | none that operations change | formatting, construction | not modelled |

How they interact. The listener of the network hands a CAN message to the
callback subscribed to its identifier: an SDO server, an RPDO, NMT, LSS or SYNC.
These change the object dictionary, whose update callbacks reach back into the
services: writing 0x1400, 0x1600, 0x1800, 0x1A00, 0x1005, 0x1014, 0x1017 or 0x1200 over SDO
reconfigures them, writing a mapped variable triggers a TPDO. NMT commands reach
every service through `NMTSlave.state_callbacks`. Timers (inhibit times, heartbeat,
LSS delays) are entries of one scheduler. Exceptions in an update callback are
swallowed by `CallbackHandler`, exceptions in an SDO operation become an abort,
those in a timer callback end the scheduler's loop.

What is hard. A client may send any frame at any time, so every operation meets
every state of the managers; a transfer ends on five paths; application callbacks
raise in the middle; a PDO is switched by five independent inputs and keeps
derived state (cache, callbacks, subscription) beside each; changes, SYNCs and the
inhibit timer race; in threaded operation the scheduler's thread and the listener's run
together. `PROJECT.json` lists each hazard with its line under "hazards".

## 2. Modules

Communication with clients and masters:

| module | models | uses |
|---|---|---|
| `Transfer` | what an SDO client is promised: a transfer is one atomic step | |
| `SDOFrames` | client frames and the decoding of their bytes, server frames, the dictionary as the SDO server sees it | |
| `SDODownload` | `DownloadManager`, handlers of the application | `SDOFrames` |
| `SDOUpload` | `UploadManager`, streams | `SDOFrames` |
| `SDOServer` | `handle_msg`: both managers composed, any client, the application writing beside it; the SDO properties | both |
| `SDOServerProofs`, `SDODataProofs` | theorems about `SDOServer`: the state of the managers, the bytes they move | `SDOServer` |
| `SDOSession` | the server and a client that follows the protocol, on a bus that loses frames; implements `Transfer` | `SDOServer`, `Transfer` |
| `SDOSessionProofs` | the proof that it does | `SDOSession`, `SDODataProofs` |
| `LSS` | the LSS slaves of several nodes on one bus (`LSSSlave`) | |
| `LSSCommissioning` | a master that finds nodes and gives them ids, lost answers, resets, power failures; the LSS properties | `LSS` |
| `LSSProofs` | theorems about it | `LSSCommissioning` |

Process data, and the node around them:

| module | models | uses |
|---|---|---|
| `PDO` | the NMT state, COB-IDs and mappings as both kinds of PDO see them (`base.py`) | |
| `TPDO`, `RPDO` | the two kinds of PDO and their properties | `PDO` |
| `TPDOProofs`, `RPDOProofs` | theorems about them | `TPDO`, `RPDO` |
| `NMT` | `NMTSlave`: state, node id, pending node id | |
| `EMCY`, `Heartbeat`, `SDOSubscription` | `EMCYProducer`, `HeartbeatProducer`, the COB-IDs of the `SDOServer`s and the subscription table | `NMT` |
| `Services` | these composed: a node, its timers, NMT and LSS masters, dictionary writes; their properties | all four |
| `ServicesProofs` | theorems about it | `Services` |
| `SyncScheduler` | `SyncScheduler.run`, `add`, `cancel`, `stop` in several threads | |
| `SchedulerProofs` | a theorem about it | `SyncScheduler` |
| `MC...` | instances for TLC | the module named |

A step of the model is one call from outside: one CAN message, one dictionary
write, one timer expiry, one call of the application, with everything the code
does before it returns. That is how the code runs under `AsyncScheduler` or
`VirtualScheduler`, where nothing preempts. The exception is `SyncScheduler`, whose steps
are the statements between which another thread can come.

**SDO.** `dl` and `ul` are the fields of the two managers, `od` the dictionary,
`reply` the frames sent while handling the last client frame. `sink` and `source`
are the application: handlers that still wait to be told the end of their
transfer, the bytes a download handler was given and those it filed. An operation
is an operator of a frame `f`; `_init`, `_abort`, `_receive`, `_finish` are functions of
the fields (`Fresh`, `DlAborted` and `Notified`, `Received` and `Passed`, `Finish`), so that a
caller that catches an exception goes on from the fields it was left with. The
command byte is the real byte and is decoded bit by bit, so a frame in the wrong
state is misread as the code misreads it. The other bytes are kept apart by how the
code uses them. A payload is a byte sequence, a multiplexor a model value with an
access type and a size. `Faults` names the calls to the application that may raise: `validate` and
`read` callbacks, the methods of a download handler (`on_receive`, `on_finish`, `on_abort`) and of an upload handler
(`on_read`, and `abort` and `release` of the stream, which call its `on_abort` and `on_finish`); a `"raise"` among the handler
callbacks is one that raises instead of returning a handler. Each ends the operation where the code calls it, with the
fields as they are by then. `told` is a history field of each manager: the handler it still holds has been told the
end of its transfer, and raised.

**PDO.** `tp` (`rp`) holds the fields of the PDO and of its helper objects, `watch` how often
each pack function is registered as an update callback, `subs` whose callback an
identifier has, `odCob` the COB-ID that can be read over SDO, `sent` the frames of the last step and `last` the
latest frame on the bus. An activation that raises in the middle of the lookups stops there with what
it has done (`Found`, `Halfway`). Each pack function of a written variable fills its slot and transmits before the next
one does (`PackAndTransmit`), so a variable mapped twice has frames that are half new. Other services of the node
subscribe and unsubscribe their identifiers beside an RPDO (`OtherService`).

**SDO sessions.** `SDOSession` adds to `SDOServer` the queues of the bus (`up`, `down`) and a client (`cl`) that is no part of
durand: it sends one request at a time in one of three ways (plain, block, block with checksum), follows the protocol as the server's
operations imply it, and aborts and asks again when no answer comes or an unexpected one does. `Promise` is `Transfer` with
the dictionary as `value` and the client's request as `pending`; the history variable `effect` notes the moment
the server stored the value or took the stream it serves. A segment has data where a command has a multiplexor; `Named`
tells which one the server finds there when it reads the segment as a command (`Segment`).

**LSS.** `sl[n]` holds the fields of the slave of node `n`, with its node ids: the current one, the one valid
after a reset, the stored one. A handler is a function of these fields; a command of the master changes all
nodes at once (`Delivered`) and the master hears whether anybody answered (`Answering`), as on the CAN bus. The
master (`ma`) bisects by fastscan, selects nodes it knows, configures and stores an id, changes the bit
rate and identifies. It is external; its fastscan is the one the slave's checks are made for.

**Services.** `nmt`, `em`, `hb` and `sdo` are the fields of `NMTSlave`, `EMCYProducer`, `HeartbeatProducer` and
of the SDO servers, `subs` the table of `network.py`, `sent` the frames of the last step. What a service does on
a state change is an operator of the state entered; an NMT command applies those of all services in the order of
`state_callbacks`. `owed` (the emergency the bus has still to see) and `rewritten` (servers
whose COB-IDs were written since the node last ran) are history variables.

**SyncScheduler.** `loop.at` is the place of the scheduler's thread in `run` and in `sched.run` of the
standard library, `app[t]` that of a thread in `add` or `stop`. The threads of `Locking` hold the scheduler's lock when they
call it, the others do not; an entry notes who added it (`by`). A delay is a count of ticks.

Operators introduced by a comment "Variant of X" are wrong versions of X: a reset
that forgets a field, a swapped order, a dropped guard. `PROJECT.json` names for each
property of each run a variant that breaks it in that run. No specification uses them.

### Abstractions

- A checksum is the byte sequence it was computed on (`crc_hqx(d, c)` is `c \o d`), so equal
  checksums mean equal data. Collisions are outside the model.
- A numeric value is its encoded bytes. Whether a value is in its range is a free
  choice in SDO downloads (both verdicts are explored), a set of values in `RPDO`.
- Frames have four bytes or more. Shorter ones make `struct.unpack` fail in `handle_msg`
  before any field changes, except for commands a block transfer takes.
- Time is not modelled, except in `SyncScheduler`: a running timer may expire whenever it runs.
- A mapping has at most eight slots (the size of the mapping array), and the array is read in full when its length
  is written.
- Of the pack functions one write calls, those of an acyclic TPDO count its change once: the counter is only compared with 0.
- Sub-indices of a plain variable are not aliased.
- What the code leaves undefined after a transfer (a toggle bit or checksum that the
  next initiate sets before use) is cleared in the model, which merges states that behave alike.

- The client of `SDOSession` gives up only when nothing is under way any more, and asks again only on a quiet bus:
  its timeout is longer than any delay of the bus. Frames are lost, never reordered (CAN keeps the order of an
  identifier).
- In `LSSCommissioning` no reset and no power failure comes in the middle of a selective switch; the slave keeps the
  parts it got, and would be out of step with the next switch. An answer may be lost anywhere. Bit rates
  are names; part numbers of an address have `Width` bits.
- An emergency is its code; error register and error field are not looked at. Inhibit times are on or off.

## 3. What the runs check

| run | instance | shows |
|---|---|---|
| `SDODownload` | a domain, a read-only object, a missing one; `validate`, `on_receive`, `on_finish`, `on_abort` may raise; two segments per sub-block, 21 bytes | downloads of all three kinds from any client, into the dictionary and to the application's handlers: `TypeOK`, `SinkLedger`, `IdleIsClean`, `BlockBuffer`, `ChecksumCoversData`, `ChecksumGuardsData`, `AbortEndsTransfer` |
| `SDOUpload` | a number, a domain, a write-only object; handlers with and without size, 0 to 15 bytes; the application writes meanwhile; `read`, the handler callback, `on_abort` and `on_finish` may raise | `SourceLedger`, `AbortEndsTransfer` |
| `SDOMixed` | both directions at once, all of `FaultPoints`, handler callbacks that raise, truncated frames; one segment per sub-block | the managers do not disturb each other, and what survives when operations raise halfway: `StreamAvailable`, `StoredIsConfirmed` |
| `SDOSession` | a client with downloads and uploads of 1 to 15 bytes in each way, a dictionary the application writes, two lost frames | `ImplementsTransfer` (the refinement), `RequestsSettle` |
| `TPDOConfigure` | two variables and one the dictionary lacks, mapped in both orders and twice, types 0, 2 and 255, everything reconfigured at any time, one of the first four PDOs | `TypeOK`, `WatchLedger`, `CacheIsCurrent`, `ActiveIsUsable`, `FramesAreCurrent`, `InhibitTimeKept` |
| `TPDOChanges` | type and inhibit time set while inactive, a variable mapped twice, a PDO above the first four | `NoChangeLost`, `CobIdPublished`, and under fairness `ChangeReachesBus` |
| `TPDOEveryNthSync` | synchronous type 3 | violates `EveryNthSync` |
| `RPDOConfigure` | two identifiers, a third one another service uses now and then, messages of one and two values, a variable mapped twice, a value refused by `validate`; COB-ID changed while inactive, the third identifier only configured as invalid | `TypeOK`, `SubscriptionLedger`, `OthersKept`, `SyncLedger`, `OnlyMappedChange` |
| `RPDOAssertion` | COB-ID also changed while active | violates `AssertionHolds` |
| `LSSCommissioning` | two nodes that differ in revision and serial number, one of them known to the master, which waits for a change of the bit rate to be over; two faults | `OnlyFoundIsSelected`, `IdsAreUnique`, `RateIsKnown`, and under fairness `AllGetIds` |
| `Services` | two node ids, two emergencies, a predefined SDO server and a further one with two identifiers | `OneIdentity`, `TimersFit`, `ServersFit`, `NothingOvertakes`, and under fairness `EmergencyReachesBus`, `HeartbeatGoesOn` |
| `SyncScheduler` | two threads that hold the lock and one that does not, a plain entry and one that adds itself again, delays up to two | `NoLostWakeUp`, and under fairness `EntriesAreCalled`, `StopEndsRun` |

Every property is explained where it is defined, at the end of its module.

The runs of `MCSDOServer` have a `VIEW`, `Fields`: all variables but `reply`, the frames sent by the last step. No action reads
`reply`, so states that differ in it alone behave alike, and no invariant mentions it; the properties that do are
action properties, which TLC checks on every step before it looks the next state up.

**Bounds.** `MaxSeq` stands for the 127 segments of a sub-block: with two, a sub-block
can end because it is full or because the segment is the last, the counter wraps, and a
transfer takes several sub-blocks. `MaxData` (`Room`) stops a transfer that never ends: 21
bytes are three segments, one more than a sub-block, and the block end meets a buffer of one
segment and of several. `Room` bounds the running checksum likewise, which a handler that raises from `on_abort` would
let grow for ever. The end frame declares 0, 4 or 7 bytes as data, with a checksum that covers none, one or two segments
before them. Block
sizes 0, 1, `MaxSeq`, `MaxSeq + 1` are the limits of the code's test. `MaxDivider` bounds
the SYNC counter, which is compared with types only; 2 is the smallest type whose n-th SYNC is
not the first. Two variables are enough to have an order in a mapping; the
third, which the dictionary lacks, makes an activation raise before or after another one.
The proofs below have none of these values: where a bound remains in the guards (`Room` in
`SDODownload`, the counter of SYNCs in `TPDO`) they hold for each value of `MaxData` and `MaxDivider`.

`SDOSession` has one value of one segment and one of three, so a client meets a full sub-block and a short one; two
losses (`MaxLoss`) can hit a request and the abort or the repetition that follows. `LSSCommissioning` has two bits per
part (`Width`), so a scan goes from bit to bit and from part to part; `MaxFaults` of two spoils an attempt
and its repetition; each attempt takes an id, and `MaxId` of 6 leaves enough of them when all
faults have come; `Spare` of 1 leaves the rest of them to fastscan. In `Services` a second identifier
lets a COB-ID be moved, a second emergency lets one overtake the other. In `SyncScheduler` a holder of the
lock waits for another while a third thread goes on without it, and `MaxDelay` of 2 has entries due now, next and later.

**Fairness.** The SDO server and the RPDO act on input only and no liveness is stated for them alone. Elsewhere:

- `TPDO`: `WF(TimeUp)`. A timer that stays scheduled is called when its time has come, by
  `AsyncScheduler` (the event loop's `call_later`) and by the loop of `VirtualScheduler.run` alike. No client,
  no SYNC and no further change is assumed, so `ChangeReachesBus` says that the TPDO gets the current values
  out by itself. `Services`: the same for `InhibitTimer` and `HeartbeatTimer`; no NMT command, report or write has to come.
- `SDOSession`: weak fairness of the client's `Ask`, `Receive`, `Timeout` and of the server's `Serve`: the listener
  thread hands on each message that arrives. Neither a loss nor a write of the application has to happen.
- `LSSCommissioning`: the master goes on with what it has begun (`WF(Work)`), comes back to scanning again and again
  (`SF(StartScan)`, as it may do other things in between), and the scheduler calls the slaves' timers.
- `SyncScheduler`: time passes, each thread that is inside a call goes on, and the scheduler's thread goes on, with
  strong fairness where it waits for a lock others take again and again (`Check`). Nobody has to call `add` or `stop`.

Deadlock is checked in every run: the environment can always act.

### What the violations show

- `EveryNthSync`: `_counter` is never set back after a transmission, so the TPDO of type n is
  silent for n - 1 SYNCs and then answers each one, against `services/pdo/tpdo.py:50`.
- `AssertionHolds`: `_downloaded_cob_id` puts the new COB-ID in place before it deactivates the
  mapping, so the subscription of the new one is removed (an SDO server's, if the client
  names it) and the old one stays; the next message fails the assertion at `services/pdo/rpdo.py:125`.

### What the models show beside

These are behaviours no property speaks about, because a run leaves them out by its instance or because no text of
the repository says what is right.

SDO. An exception ends an operation where it is raised, and `handle_msg` answers with an abort whatever the operation
has done by then. When an upload operation raises (a request cut off before byte 5, `on_read` raising, an acknowledgement asking
for more than 127 segments) the client gets an abort and the handler hears nothing (`upload.py:26`). A
download whose handler callback raises leaves the transfer open without a handler (`download.py:133`). The methods that tell a
handler the end are called without a guard. When `on_abort` of a download handler raises (`download.py:73-77`), the manager is not
reset: the client is answered with an abort, or not at all when it aborted itself, the transfer is still open, and the next frame
that ends it tells the handler again. When it raises in an expedited download, whose state is `NONE` at that time, the
handler stays with an idle manager until the next initiate. An upload is alike: when `on_abort` raises, stream and state stay
(`upload.py:132-136`); when `on_finish` raises at the end of the segments (`upload.py:243-246`) or of an expedited
upload, the stream stays with state `NONE`, and the next frame that is wrong there calls `on_abort` too; at the end of a block upload
(`upload.py:261-265`) stream and state stay. So a handler that raises when it is told the end is told more than once;
`SinkLedger` and `SourceLedger` say that no other is, and `AbortEndsTransfer` leaves out the answers to exceptions. The abort of an expedited download of unknown size names
the previous transfer's object (`download.py:143`). For a value of a multiple of seven bytes the end
frame of a block upload says that seven bytes of the last segment are no data (`upload.py:275`), while the
server's own block download reads 0 and 7 differently; `SDOSession` has no such value in a block upload. A sub-block
with more than 32 segments behind a lost one has sequence numbers that are read as commands (`download.py:227`). A reset
of the node ends no transfer (`server.py:109`).

PDOs. The first four PDOs take the predefined COB-ID on entering OPERATIONAL while 0x1800+i:1 keeps the
configured one (`base.py:33`). Writing the inhibit time drops a frame held back (`tpdo.py:136`). A SYNC
with an inactive mapping starts the inhibit timer and raises, and after two of them the timer's expiry
raises in the scheduler (`tpdo.py:210`). `base.py:87-97` lets a mapping name a variable twice; a write of it then sends two frames,
the first with one of its slots still as before (`tpdo.py:186`). With an inhibit time this first frame is sent and the second one
waits for the timer. Disabling a TPDO or leaving OPERATIONAL cancels the inhibit timer (`tpdo.py:160`), so that enabling it again
sends within the inhibit time: `InhibitTimeKept` speaks of the running timer. Any COB-ID can be configured (`base.py:44`), and a
valid one of another service, an SDO server's, say, has its subscription replaced by the RPDO's and removed with it
(`rpdo.py:72`, `106`). A message an RPDO held for a SYNC survives its deactivation (`rpdo.py:114`). An
RPDO writes with `downloaded=True`, which skips the range check the warning at `object_dictionary.py:226` asks of callers.

Node. Writing the emergency inhibit time cancels the timer of a deferred emergency, which is then sent late or never
(`emcy.py:77`). After an LSS change of the node id the emergency COB-ID keeps the old id unless the node was stopped in
between (`emcy.py:46`). An SDO server whose COB-IDs are written while the node runs keeps answering when it is stopped,
and one whose COB-ID is written while stopped raises in the callback, which is swallowed (`server.py:124`). A change of the SYNC
COB-ID calls `remove_subscription` with an argument it does not have (`sync.py:40`); the `TypeError` is swallowed
and the old COB-ID stays.

LSS. A node enters CONFIGURATION already when the last bit of its serial number is checked (`lss.py:238`), so of two nodes
that differ in this bit alone both are selected when the answer to the check is lost. A second configuration or activation of a
bit timing before the timer of the first has expired makes the callback get another rate or None (`lss.py:165`); with `Patient = FALSE`
TLC finds both.

Scheduler. `add` sets the wake-up event before it enters the entry and `stop` before it sets `_stop` (`scheduler.py:75`):
without the scheduler's lock the thread may consume the event in between and sleep until somebody else wakes it. durand never
takes the lock. Its callbacks need none, as they run in the scheduler's thread; but the listener's thread calls the services
(`network.py:79-86`), and what they add there, an inhibit timer, say, may wait in the queue of a sleeping scheduler. `sched.run` sleeps
for the entry that is first when it looks (`Select`), so an entry added in front of it during the sleep is called late, at the
time of that one, although `scheduler.py:18` says of `delay`: "time in seconds when the callback should be called".
The model has this, and `EntriesAreCalled` does not forbid it: it says that entries are called, not when.
`stop` does nothing while a callback adds itself again (`scheduler.py:83`), as the heartbeat does.

## 4. What is proved

**SDO server.** The theorems hold for every dictionary, every set of client frames, every set of `Faults` and
every `MaxSeq` in 1..127.

| theorem | says |
|---|---|
| `TypeCorrect` | `Spec => []TypeOK` |
| `EverySinkIsTold` | `Spec => []SinkLedger` |
| `TransfersStartClean` | `Spec => []IdleIsClean` |
| `AssertionsHold` | `Spec => []StreamAvailable` |
| `EverySourceIsTold` | `Spec => []SourceLedger`, assuming `NoHalfwayFailure` |
| `StoresAreConfirmed` | `Spec => StoredIsConfirmed` |
| `BuffersAreWhole` | `Spec => []BlockBuffer`, assuming `FullFrames` |
| `ChecksumsCoverData` | `Spec => []ChecksumCoversData`, assuming `FullFrames` |
| `ChecksumsGuardData` | `Spec => ChecksumGuardsData`, assuming `FullFrames` |
| `AbortsEndTransfers` | `Spec => AbortEndsTransfer` |

Argument. `SinkLedger` and `IdleIsClean` are not inductive alone: that no handler is left behind when a
transfer ends depends on `held` implying an active transfer and on the field types. `DownloadInv` of
`SDOServerProofs` is the conjunction (dictionary typed, manager and application *paired*, fields *clean* when
idle), `UploadInv` its counterpart; `Inv` is both. Each internal call (`Fresh`, `DlAborted`, `Received`, …) gets a
lemma saying what it keeps, each way to end an operation another, and each operation one that combines
them; `NextInv` splits over the dispatcher. `SDODataProofs` adds to `DownloadInv` that an active
transfer is of a writable object (`Permitted`), which is what a step needs for
`StoredIsConfirmed`. The theorems on blocks need the shape of the buffer: whole segments, at least one at the end; their lemmas on
slices (`SlicesAgree`, `CheckedBlockEnd`) say that the two different cuts `download_block_end` makes, one for the
checksum and one for the data, give the same bytes.

`SinkLedger` and `SourceLedger` except handlers that raise when they are told the end (`told`); what becomes of these is
described in section 3. `NoHalfwayFailure`: `on_read` does not raise and no frame is truncated. An acknowledgement asking for more than
127 segments may still raise, but leaves the transfer open with its handler. A request that raises after its
stream was set up leaves a handler without a transfer; then `SourceLedger` fails.
`FullFrames`: every frame carries seven data bytes. A shorter sub-block segment is buffered as it is, and the
slices of the end then cut elsewhere.
`AbortsEndTransfers` follows every way to answer with an abort that gives a reason (`Refused`) to the fields it leaves. The
answers to an exception that ended the operation (`Halfway`) are left out: one of the application, also from `on_abort`, or
of `struct`. The code answers them with 0x08000000 unless the application raises a `KeyError` or an `SDODomainAbort`
(`server.py:198-217`); the model counts these as `Halfway` too, whatever their code, because they leave the same fields. After such
an answer the transfer may be open.

**SDO sessions.** `SDOSessionProofs` has one theorem, for every dictionary, set of requests, length of values, sub-blocks and
windows, and any number of losses:

| theorem | says |
|---|---|
| `TransferPromised` | `SessionSpec => ImplementsTransfer`, assuming `NoHandlers`, `SegmentsNameNothing`, `UnevenValues` |

Argument. A step of the session is a step of `Transfer` or a stutter only where client, bus and server fit together, so the proof
is about an invariant that says how they do. `SessionInv` has the type of the server (`Inv`), of the client (`ClientInv`) and of the frames
under way (`BusInv`), the values that can be read (`ValuesInv`), and `Course`: how far the transfer has come. A course is one
of `Idle`, `Asked`, `DownloadGranted`, `Segmenting`, `SubBlocks`, `Ending`, `UploadGranted`, `Reading`, `Receiving`, `UpEnding`, or
`Stranded`, when a frame was lost or an abort is under way and only the client's timeout goes on. Each
says which frame is under way in which direction, how the fields of the manager follow from the request and from
how much of it the client has sent or received, and what `effect` must be by now. In `SubBlocks` and `Receiving` several
frames are under way at once: those left on the bus are the rest of the sub-block, and the server (the client) has either counted all
before them or is behind for good, because one was lost. The lemmas `AskInv`, `ReceiveInv`, `TimeoutInv`,
`ServeInv`, `LoseInv` and `ApplicationInv` show that each action leads from course to course (`SessionNextInv`). On the way they show that
a frame the server handles changes nothing a client can see or carries out the request, once
(`Happens`), and that the client takes a transfer for successful only with the value with which it happened (`Tells`). From
these two `StepRefines` follows. The two slices of the block end come
from `SDODataProofs`, the fields a manager is left with from `SDOServerProofs`.

`NoHandlers`: all data live in the dictionary; a handler of the application may give a value any meaning, or fail after
it took effect. `SegmentsNameNothing`: when a block download is abandoned, its segments still under way are read
as commands (`download.py:227`); from sequence number 32 on these are initiates, and what they name must not exist. It always
holds for sub-blocks of less than 32 segments. `UnevenValues`: no value read in blocks without a checksum fills its last segment, because the
end frame declares all of it padding (`upload.py:275`); with a checksum the client notices and gives up. Both
hypotheses are about behaviour described in section 3. The instance of `SDOSession` satisfies all three. The theorem
says that what the client is told is right, not that it is told: that is `RequestsSettle`.

**PDOs.** The theorems hold for every set of variables, values, identifiers, mappings and transmission
types, and for every `MaxDivider` in 1..240. Mappings may name a variable any number of times.

| theorem of `TPDOProofs` | says |
|---|---|
| `TypeCorrect` | `Spec => []TypeOK` |
| `CallbacksFit` | `Spec => []WatchLedger` |
| `CachesAreCurrent` | `Spec => []CacheIsCurrent` |
| `ActiveOnlyUsable` | `Spec => []ActiveIsUsable` |
| `EveryFrameIsCurrent` | `Spec => FramesAreCurrent` |
| `InhibitTimesKept` | `Spec => InhibitTimeKept` |
| `ChangesAreKept` | `Spec => []NoChangeLost`, assuming `Online = {}` and `AllKnown` |
| `CobIdsPublished` | `Spec => []CobIdPublished`, assuming also `~Predefined` |

| theorem of `RPDOProofs` | says |
|---|---|
| `TypeCorrect` | `Spec => []TypeOK` |
| `SubscriptionsFit` | `Spec => []SubscriptionLedger`, assuming `Careless = {}` |
| `OthersStaySubscribed` | `Spec => OthersKept`, assuming `Careless = {}` |
| `SyncsFit` | `Spec => []SyncLedger` |
| `MessagesFindMapping` | `Spec => []AssertionHolds`, assuming `"active" \notin Careless` |
| `OnlyMappedWritten` | `Spec => OnlyMappedChange` |

Argument. A TPDO keeps three derived things beside its configuration: whether it is active, the cache and the
callbacks. None of the invariants is inductive alone, because deactivating removes the callbacks of as
many slots as the cache has, and the cache is only kept current by the callbacks. `Coherent(t, w, d, s)` ties
them together for any fields, callbacks, dictionary and NMT state: the cache holds the values of the
first slots, exactly those slots are registered, an active mapping is usable, only a TPDO with an inhibit time
has a running timer. It is stated of arguments and not of the variables because an operation passes through
fields no state shows (deactivated but not yet mapped anew). Every internal call gets a lemma about `Coherent`
and about `Sends`, that a frame leaves only with the cache and COB-ID of an active mapping;
every operation combines them into `Kept`. `FoundPrefix` says that a lookup that fails partway has found a
prefix of the mapping, by the well-foundedness of the naturals.

`ChangesAreKept` strengthens the invariant once more (`Complete`): an active mapping is cached in full (`Full`), and the last
frame equals the cache or another frame is due (`UpToDate`). `Online = {}`: transmission type and inhibit time are
written while the mapping is inactive; otherwise a frame held back is dropped. `AllKnown`: a mapping names only
objects the dictionary has; otherwise an activation stops halfway without announcing anything, and `enable` does
not get to publish the COB-ID. `~Predefined`: the PDO is not one of the first four.

`FramesAreCurrent` compares a frame with the dictionary slot by slot; only a slot of a variable mapped more than once may hold
the value before the step (`CurrentIn`), because the frame leaves while the pack functions of that variable still run.

`Ledger` of the RPDO relates activity, subscription table, SYNC callback and COB-ID. `Careless` says what a client does
that the code does not forbid: write another COB-ID while the mapping is active (`"active"`), or a valid COB-ID of another service
(`"foreign"`). `SubscriptionLedger` and `OthersKept` need a client that does neither (with `"foreign"` the RPDO replaces the other
subscription, or has its own replaced when the service subscribes again; with `"active"` it removes it). The assertion fails with `"active"`
alone, which is the finding of `RPDOAssertion`. The other theorems hold for every client.

**LSS.** The theorems of `LSSProofs` hold for every set of nodes, every address width, any number of faults and of ids
up to 127.

| theorem | says |
|---|---|
| `OnlyFoundListens` | `Spec => []OnlyFoundIsSelected`, assuming `Separable` |
| `IdsStayUnique` | `Spec => []IdsAreUnique`, assuming `Separable` |
| `RatesAreKnown` | `Spec => []RateIsKnown`, assuming `Patient` |

Argument. That one node listens at the end of a scan depends on all that was said since its beginning, and on each
slave keeping its own place in it. `ScanInv` says what that comes to: a slave that is at the master's part agrees with the master on
every part before (`InStep`), the part being scanned has zeros below the bit asked for (`Even`), and nobody is
selected before the last part was asked for in full (`NoneSelected`). Then a node that answers the confirmation of the last part
agrees on all of them. A node can be selected one question too early, at the last bit, with a zero where the master
has gone on to one (`Near`); `Separable` (no two addresses differ only there) rules out that this is another node than the one
found. `SelectInv` is the counterpart for a selective switch: all slaves have received the same parts. `SlavesInv` then
carries uniqueness: ids are given only below `ma.id`, to one node each. `RateInv` says that with a `Patient` master a slave has one
timer at most and still the rate it was started for (`started`, a history field). `PowerDoubles` (2^(w+1) = 2 * 2^w), which the bisection rests on, needs induction, which no
installed prover can use; it is proved by counting the subsets of 1..w instead.

**Services.** The theorems of `ServicesProofs` hold for all node ids, emergencies, intervals, further servers and identifiers.

| theorem | says |
|---|---|
| `TimersAlwaysFit` | `Spec => []TimersFit`, assuming `~Online` |
| `NoneOvertakes` | `Spec => NothingOvertakes`, assuming `~Online` |
| `IdentityIsOne` | `Spec => []OneIdentity` |
| `ServersAlwaysFit` | `Spec => []ServersFit` |

Argument. `TimersInv` adds to `TimersFit` that the heartbeat's handle is there exactly when its timer is, that a
deferred emergency has a timer and is the one owed, and that the producer's `_stopped` follows the NMT state. `ServersInv` says for each
server how its COB-IDs, its `_stopped` and the table hang together in each NMT state (`Fits`) and for each two of them that they
do not share an identifier (`Apart`), which holds because the choices of different servers are disjoint; it is kept by each of
the four ways a write or a state change can end, raising included. `~Online`: inhibit time and emergency COB-ID are written
while the inhibit timer does not run.

**Scheduler.** `SchedulerProofs` has `NoWakeUpIsLost` (`Spec => []NoLostWakeUp`) for any number of threads and every
set of them that holds the lock. The invariant `Announced` says that whatever is on its way from a holder of the lock (an entry announced and
not yet entered, a stop) has its event set as long as the scheduler's thread may still go to sleep on it; only the thread itself clears
the event, and between `Clear` and `Check` it waits for the lock. `SleepsAlone` says that it sleeps only while every entry
in the queue is from a thread without the lock. What such a thread does can only set the event once more or add an entry nobody
promises anything about.

**Model-checked only.** The liveness properties, which are outside what the prover does: `ChangeReachesBus`,
`RequestsSettle`, `AllGetIds`, `EmergencyReachesBus`, `HeartbeatGoesOn`, `EntriesAreCalled`, `StopEndsRun`. Every other
property of a passing run is proved, and the instance of every proved property is run by TLC as well.

## 5. Not modelled, and the plan

Not modelled:

- EDS export formats a text file; datatypes are tables; the CAN adapter is I/O. They have no states a model could tell apart.
- `AsyncScheduler` hands each call to asyncio, whose behaviour is not in this code. `VirtualScheduler` has a clock that tests advance.
- The SYNC consumer's COB-ID: its change raises before anything is changed (`sync.py:40`), so nothing follows from it.
- `InhibitTimer` and the heartbeat in threaded operation: their operations are one step here, and durand's services
  take no lock, so the races at `tpdo.py:24` exist and no property is stated for them.
- `CallbackHandler`: its modes are there as the effect each has where it is used (ignored in update callbacks, raised in
  validation), not as a component; nor is a list of callbacks that changes while it is called.
- The order of frames of different identifiers on the bus, and reordering in general.

Next, in this order:

1. The invariants that liveness rests on, as theorems (that somebody can always go on in `SDOSession` is part of `Course`; the
   same for the heartbeat and the deferred emergency is `TimersInv`).
2. `InhibitThreads`: the steps of `trigger` and `_time_up` interleaved.
3. `Callbacks`: the fail modes of `CallbackHandler` and a list that changes while it is called.
