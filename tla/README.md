# A TLA+ model of the Renesas GNSS HAL

The repository is an Android vendor service, `gnss-hal`, that implements
`android.hardware.gnss@1.0` over a u-blox receiver behind a tty.  This directory
holds TLA+ modules that model it, TLC configurations that check them on small
instances, and theorems that TLAPS checks for every value of the constants.

    tlc -workers 2 -config GnssMeasurement.cfg GnssMeasurement    # one run
    tlapm GnssMeasurementProofs.tla                               # one proof module

`PROJECT.json` lists the components, runs, mutants, findings, hazards and
theorems, and maps each definition to the lines it models.

## 1. The system

### Threads

`service.cpp` gives the binder pool one thread, so the calls of clients (and notices
of their death) run one at a time, and then never returns from `joinRpcThreadpool`:
no destructor runs in the service, and flags that only destructors set stay unset.
The property `ro.boot.gps.mode` chooses the backend once: the tty with all its
threads, or the fake receiver with one.  The `.rc` file has `service gnss-hal`
without `oneshot`: init starts the process again after a crash or an `abort()`.

| thread | code | takes from | gives to |
|---|---|---|---|
| binder | `Gnss`, `GnssMeasurementImpl` | client | `mEnabled`, callbacks, measurement session, location gate |
| init | `GnssHwUbxInitThread` | tty | tty; starts the handle thread and ends |
| handle (tty) | `GnssHwTTY::GnssHwHandleThread`, `ReaderPushChar` | tty | NMEA ring, UBX ring |
| handle (fake) | `GnssHwFAKE::GnssHwHandleThread` | route vector | client: location |
| NMEA | `NMEA_Thread`, `NMEA_ReaderParse_*` | NMEA ring, location gate | client: location, satellites |
| UBX | `UBX_Thread`, `UBX_ReaderParse`, `SelectParser` | UBX ring | measurement queue |
| callback | `GnssMeasurementImpl::callbackThread` | measurement queue | client: measurements; location gate |

### Inventory

| component | state | operations | what is hard | what makes it correct |
|---|---|---|---|---|
| Measurement queue (`GnssMeasQueue`) | `mQueue`, `mState` | push, pop, empty, setState | separate locked calls by two threads; limit | bounded; empty while off; pop finds what empty announced |
| Location gate (`GnssMeasToLocSync`) | `mEventsToWait` | WaitToSend, SetEventsToWait, UpdateStatus | a counter changed by load and store on two threads, no lock | counts the reports that a session owes; opens in the end |
| Measurement session (`GnssMeasurement`) | callback, thread, exit flag, batch | setCallback, close, callbackThread | close against the thread that calls; lost notification; messages of the last session | fresh whole reports to the open session; close returns and leaves nothing |
| Message rings (`circular_buffer.h`, two workers) | buffer, head, tail | put, get, empty; wait and notify | unlocked `empty()`, slot parsed after `get()`, overrun, lost wakeup | a FIFO that drops its oldest; a worker does not sleep for good |
| NMEA text (`NMEA_ReaderParse`, checksum) | slots as C strings | put, find the star, cut, check, handle | sentences as long as a slot or longer; slots next to one another; overrun while parsing | what is handled is what a receiver sent; what fits is handled |
| Reader (`ReaderPushChar`) | state, position, payload length | one byte | lost bytes, lengths that lie, buffer end | whole elements, resynchronises |
| UBX parser (`UBX_ReaderParse`) | state machine `mUM` | one element | incomplete elements, bytes between elements | payload within its element; starts clean |
| Parsers of a report (`GnssNav*Parser`, `GnssRxmMeasxParser`) | one `GnssData` merged from four messages | parse, retrieveSvInfo | any order, any of them invalid; block count that does not fit the length | values and flags agree; nothing read past the payload |
| Start-up (`GnssHwTTY`, `UsbHandler`) | generation, firmware, step, retries | bus scan, start, stop, send, wait for ACK | lost, late and refused answers; silence; restart | one reader of the tty; parsers assume what was configured |
| Satellite status (GSV, GSA) | lists per system, used lists | one sentence | lost sentences, groups of several systems, limit 64 | the list is the last group; fits its room |
| Location (RMC, GGA, PUBX,00) | one `GnssLocation` | one sentence | lost sentences mix epochs | nothing outlives a lost fix |
| HAL entry (`Gnss`) | callback, death link, `mEnabled` | setCallback, start, stop, cleanup, death | two threads, client dies at any time | a bounded rest of reports after stop; the current client is watched |
| Fake receiver (`GnssHwFAKE`) | route vector, index, two references | start, stop, thread | vector cleared, filled and moved without a lock under a thread that walks it | stays in the vector's memory; follows the route; falls quiet after stop |

The other interfaces (AGnss, AGnssRil, batching, geofencing, configuration,
debug, NI, navigation message, XTRA) forward to a legacy interface that is
always null, or are stubs: they keep no state that another part reads.

## 2. Modules

Each module has the source's names where TLA+ allows it; an `MC` module holds
values for a run and nothing else.  A definition that
stands before another and varies it (`CloseWithoutJoin` before `CloseJoin`) is a
*mutant*: a plausible bug, used only to show that a property notices it.
"history" variables record what happened for properties and are read by no
guard, except that a counter with a bound named in the CONSTANTS limits its
action.

**GnssMeasQueue, GnssMeasToLocSync, GnssMeasurement** compose queue, gate and
session.  A step is one access to state another thread may change; a locked
method of the queue is one step.  `binder` and `thread` are program counters:
`sc_set` is `setCallback` about to store the callback, `cl_join` is `close`
waiting in `join`; `thread = "call"` is about to call through the static
callback, and the call through null is `CallReleased`, which ends the process;
`Restart` is init starting it again.  `UpdateStatus` is two steps, load and
store, with any step of the others between them.  Messages are a kind, a
validity and a number of arrival; the parsers' content is in the next modules.
The NMEA thread appears with its two steps at the gate, the UBX thread with its
push.

**CircularBuffer, WorkerThread, LossyFifo.**  The ring as in `circular_buffer.h`
(one slot stays free; `put` on a full ring moves `tail_`; `get` returns a
pointer, kept in `held`), then the loops of `NMEA_Thread` and `UBX_Thread` with
the reader.  `empty()` is two loads in either order.  The worker reads the slot
until `ParseMessage`, so an overrun may overwrite what it parses; `LossyFifo` is
the abstract promise: a bounded FIFO that drops its oldest message, in which the
current one can change only when a put finds the FIFO full.
`WorkerThread!Fifo` is the refinement mapping, `FifoSpec` the property.

**UbxBytes, UbxReader.**  `UbxBytes` has the bytes and the two sync bytes, which the
reader and the parser share.  `UbxReader` is `ReaderPushChar` over a stream of
sentences and frames, from which the line may lose bytes and to which it may add
some.  A byte has `Base` values; a length has two, so the buffer has `Base * Base`
bytes as the code's has 65536.  Only the fill of the buffer is kept.
`ubx_payload_len` is the function's static.  `clean` says whether the element in
transfer met a reader at rest.

**UbxParser.**  The state machine of `UBX_ReaderParse`, byte by byte over
elements the reader puts, with the checksum, the test of it, and what is left
for the next element.

**GnssClock, GnssRxmMeasx, GnssReport.**  The four messages of a report.  `GnssClock` has the
order-dependent merging of NAV-CLOCK, NAV-TIMEGPS and NAV-STATUS into the clock of
one `GnssData` (`timeNs`, full bias, leap second, flags).  `GnssRxmMeasx` has the
loop over blocks, the offsets, the numbers of satellites, and the state of times of
week, which all blocks share a member for.  `GnssReport` puts the two side
by side: no parser of the clock reads what RXM-MEASX leaves, nor the other way round, so the
messages of one part stand for all.

**GnssConfig, GnssHwInit.**  `GnssConfig` builds the CFG-GNSS message as bytes and
pokes it at the offsets the code computes.  `GnssHwInit` is `start`/`stop`, the init
thread's handshake, and the receiver (external): requests and answers are queues from
which either may be lost, a wait may end by time with the answer still on its way,
the receiver may refuse a message or fall silent.  A silent receiver blocks `read()`,
so `Timeout` needs a talking one.  `CriticalProtocolError` is `abort()`, then
`Restart`.  `ScanUsbDevices` picks the first u-blox device of the bus; the tty,
opened before, is taken to be its.

**NmeaText.**  The bytes of a sentence, few of them, from the reader to a handler:
`put` copies `SlotSize` bytes, so a sentence of that length or more has no
terminator in its slot and the search for its `*` goes on into the next slots,
where the terminator is then written.  It uses the ring of `CircularBuffer`.  A
checksum is a byte that stands for the text it was computed of, so a damaged
text that has its old checksum by chance is left out.  `Junk` is what longer sentences
left in the reader's buffer, which `put` copies along; `Fresh` are the contents that
the ring's memory, which `new` does not initialise, may have before.  They are taken
to have no star: a slot that happened to hold one, with the checksum of a text that
also stands there, could be taken for a sentence.  The heap behind the last slot
is taken to begin with a terminator.  `cut` and `overrun` are history: which
slots a sentence too long has been cut in, and whether the slot being parsed was
written again.  The unlocked `empty()` is the matter of `WorkerThread`.

**GnssSatellites, GnssLocation, GnssNmea.**  What sentences do to the lists of
satellites and to `mGnssLocation` over many groups and epochs, with sentences lost
between.  The used satellites of a system are a set: the code looks numbers up in a
vector, erases every copy of one it finds, and never asks for their order.  A
location field holds the epoch it was measured in.  `GnssNmea` puts the two side by
side: neither reads what the other writes, so a receiver that sends the sentences of
one stands for one that sends both, and the run takes the sum of their states rather
than the product.

**GnssHwIface, GnssHwFAKE, GnssSession, Reporting.**  `GnssHwIface` is what both
backends share: the callback, stored by the binder thread and called through by the
backend's thread.  `GnssHwFAKE` is the route vector with its size, its capacity
and its memory (which a cleared vector keeps and a growing one leaves), `start` point
by point, and the handle thread in the steps in which it reads the vector: test, first
reference, index, second reference, segment.  `GnssSession` composes them with
`Gnss`: the client's calls, its death and its notice, the three steps of `setCallback`,
the tty's NMEA thread between its tests of `mEnabled` and its calls, and an abort
of the process at any moment.  `Reporting` is what a client may rely on,
whichever the backend: reports one at a time, within a session or a bounded rest
after it.  `GnssSession!Reports` is the refinement mapping: the rest is one report
for the NMEA thread past its test, and what is left of a segment for the fake
receiver.

## 3. Runs

Constants that are limits of the code are made small (the queue has 2 places
for `mMaxSize`, the ring 4 slots, a GSV sentence 2 satellites); the constants
commented "bound" in a module limit how long TLC follows a system that goes on for
ever.  `CHECK_DEADLOCK FALSE` is set where those bounds, or a finished handshake,
stop the model; the ring and the byte streams never stop and are checked for
deadlock.

| run | what it asks | why the bounds are enough |
|---|---|---|
| `measurement` | Over all interleavings of four threads, sessions, crash and restart: what may be reported and to whom, what `close` leaves, when locations overtake measurements; under fairness, that `close` returns and that the gate opens | two sessions let one leave something to the next; four messages of two kinds make the two reports that open the gate (`EventsNum` is 2 in the code), or one report and a partial batch; two places fill |
| `measurement_gate_after_close` | *violated:* after `close` the gate is open | one session, one report |
| `worker` | The ring and its worker implement `LossyFifo`; `get` never fails for the worker; the worker does not sleep while messages go on arriving | four slots wrap, overrun, and fit gets and puts between two loads of `empty`; two values tell slots apart |
| `report` | The time, the full bias and the leap second of a report are those its messages say, for any order, repetition and validity of them; blocks of RXM-MEASX stay within the payload, one measurement per block, satellite numbers of their constellation, time and state agree | times equal to, below and above `defaultRtcTime`, which is what the code compares with; lengths below, at, between and past whole blocks; numbers in, at the end of and outside each range |
| `reader` | Elements are put whole after any two faults before them; the position stays in the buffer; the reader comes to rest again | with a base of 6 the two bytes read as length can be any two, so frames overrun the 36 bytes of the buffer |
| `parser` | Payload in its element; an exact frame is selected, whatever the element before it left | elements too short, of exactly a frame without and with payload, and longer |
| `parser_checksum` | *violated:* what is handed on has passed the checksum test | one frame with a payload of one byte |
| `init` | One thread reads the tty; parsers assume what the receiver was configured to; a message with a class and id of its own was applied when the next is sent; start-up ends | two retries (5 in the code) and two faults: one message can use up its retries, and an answer can come after its wait; firmwares SPG 3.01, 2.01 and neither, each second system, SBAS on and off; both boards, a bus with no, a foreign, several and unknown devices |
| `init_spg2` | *violated:* a receiver with SPG 2.01 uses the second system it was told to use | GLONASS, no fault |
| `nmea` | The list of a system is its last group, `used` is of the last fix in NMEA 4.1 and 2.3, numbers and the report fit; no field of a location outlives a lost fix, a reported field is of the last sentence of its kind | groups of one and two sentences of four systems, four groups: each may stand before and after each; in NMEA 2.3 a digit that names no system, and two that do; room for 5 of up to 6 satellites; one sentence lost; four epochs: fix, lost, fix again, and one more, any sentence of each dropped |
| `text` | A handler gets the text of a sentence the receiver sent; one that fits its slot is handled | slots of 5 bytes: sentences shorter, as long, and longer by one and two, whole, damaged and run together; three slots: two wait while one is parsed, and the third put overruns it |
| `session` | The HAL calls and watches one client; the fake receiver stays in its memory and on its route; reports obey `Reporting`; they end when no session is opened any more | two clients, also at the same time, three starts or aborts (one may double the route of another); files of 0 to 3 points: none, too few, and enough for the vector to move twice; segments of one and two reports |

Notes on single properties:

- `AtMostOneEarlyLocation`: the gate is read and the location sent in two steps,
  so one location may overtake a session that opens in between.  Two cannot.
- `CrashOnlyInClose`: `close` sets the callback to null and only then joins the
  thread, which may call through it: the model has this crash (`CallReleased`),
  and the property says that it needs a running `close`.
- `ListIsLastGroup` holds while no sentence is lost; after a loss, groups mix
  until the next first sentence, as the code has no check of the sequence.
- `ReaderReturns` is about a receiver that, from some point on, sends messages with
  payloads without bytes that start sentences or frames, none of them empty, as
  the messages which the service enables have a payload.  Under arbitrary payloads
  a reader that is out of step may stay so.
- `ConfigurationAgrees` speaks of every firmware, by what the code gives it.  SPG
  3.01 uses the second system that `mMajorGnssStatus` names and no other.  SPG 2.01
  uses neither, whatever the parsers expect: section 5.  With an unknown firmware
  an uninitialised `mMajorGnssStatus` is excepted.
- `UsedIsOfLastFix` speaks of both protocols.  In NMEA 4.1 the GSA that marks
  a satellite is one of its own system.  In NMEA 2.3, which u-blox 7 speaks, the
  code takes a digit of the dilution of precision for the system, and the property
  says only that the last GSA so taken named the number: section 6.
- `WatchesCurrentClient` is about living clients: one that is dead before
  `linkToDeath` is never noticed.
- `HandledIsIntact` and `FittingIsHandled` except what an overrun does to the
  slot being parsed, and the latter also the slots that a sentence without a
  terminator was cut in: section 6.
- `PointsStayInMemory` excepts a `start` that moves the vector while the thread holds
  references, `WalksTheRoute` a client that starts twice: section 6.
- `CleanIsPutWhole` excepts what is as large as `mReaderBuf`: the reader drops it.
- `OwnAckIsApplied` leaves out the CFG-MSG messages, which share class and id.
- `TypeOK` says more than types where indices meet buffers: `mReaderBufPos`
  within the buffer, `head_` and `tail_` within the ring, svids within a byte,
  the report within `SVS_COUNT`.  In the other modules it would only say types:
  where it stands it is there for the proofs, and no run lists it.  That of
  `GnssHwInit` bounds retries and steps; it is proved (`TypeCorrect`).

### Fairness

No client is obliged to call and, except in `worker` and `reader`, no receiver
to send.

- `GnssMeasurement!Fairness`: a thread that can run is run by the scheduler, a
  binder call once begun goes on (`CloseRest`, the rest of `setCallback`), and
  init restarts the process.  Weak fairness of `WaitTimeout`, as part of
  `CallbackThread`, is the one second of `wait_for`.  Nothing is assumed of
  spurious wakeups or of notifications arriving.
- `WorkerThread!Fairness`: both threads run and the receiver goes on sending.
- `UbxReader`: the receiver goes on sending; faults have none.
- `GnssSession!FairSpec`: the backend's thread runs, and a call to a client, alive or
  dead, returns (a binder call to a dead process returns an error).  Nothing is
  assumed of the binder thread: `StopQuiets` speaks of runs in which no
  session is open from some point on.
- `GnssHwInit!FairSpec`: the init thread runs and a talking receiver answers the
  requests that reach it.  `FallSilent` may happen, and `InitEnds` says that
  only it can hold the init thread.

## 4. Proofs

TLAPS checks the theorems below for all values of the constants that satisfy the
modules' named assumptions.  These say that limits and sizes are natural numbers, and
positive where the code's are (`MaxSize`, `EventsNum`, `RetriesCnt`,
`RepeatedBlockSize`, `PerSentence`, `SVS_COUNT`; `Size` of the ring at least 2); that
fields of messages are unsigned (`FieldsAssumption`, `TimesAssumption`,
`GroupsAssumption`); that the special values lie outside the sets they mark; that
the bytes which mean something to the reader differ (`BytesAssumption`) and a sent
frame fits its buffer (`PayloadsAssumption`); that a text has no `$` and no `*`
(`TextsAssumption`), what the reader puts begins with a `$` (`DamagedAssumption`)
and the ring's memory begins without a star (`MemoryAssumption`, section 2).  One theorem has a
hypothesis more: `ListsAreLastGroups` is about groups of at most `SVS_COUNT` satellites, as
of a larger one `xxGSV` drops those past the room.

Bounds of a run (`MaxSessions`, `MaxGroups`, ...) are constants, so a theorem holds
for any number of sessions, groups, faults or retries.  Almost none of the
properties is inductive alone; each paragraph says what its invariant adds.

**GnssMeasurementProofs.**  `Invariant` proves `Spec => []IInv` by one lemma
per conjunct of `IInv` and one step per action; the safety theorems follow
from `IInv`.  `IInv` adds

- `StepsAgree`: which program counters of binder and callback thread occur
  together with which values of `cb`, `mThreadExit` and `mState`.  It carries
  `CloseLeavesQuiet`: the thread turns the queue off as its last act and `close`
  joins it.
- `PopSafe` needs that between `CheckQueue` and `PopMessage` only the thread itself
  removes messages: the only `SetState(FALSE)` is its own.
- `QueueInOrder`, `QueueIsNew`, `DataIsNew`: the numbers in the queue increase,
  are of this session, and lie above everything in the batch, which lies above the last
  report.  They carry `ReportsAreFresh` as an action property.
- `GateInv`, the strengthening for `GateSafe`: with `UpdateStatus` between its
  load and its store, what it is about to store also counts the reports still owed.
- `EarlyInv`: the NMEA thread is past the gate only with a permission from before
  the session or after its reports.

**WorkerThreadProofs.**  `IInv` adds to the types that a worker which has seen two
different indices faces a ring that is not empty: the reader never empties it, so
the unlocked `empty()` errs on one side only.  `RingIsLossyFifo` proves the
refinement `Spec => FifoSpec`: `AppendContents` and `TailContents` say what
`put` and `get` do to the sequence between `tail_` and `head_` over
a ring of any size, and each action maps to a put, an overrun, a get, a finish or
a stutter.

**GnssSessionProofs.**  For any clients, routes and number of starts.  `IInv` is
checked by TLC as well; its parts are

- `LinksAgree`, which carries `WatchesCurrentClient`: while `setCallback` runs no
  living client is linked to, and otherwise exactly the current one.  The property
  alone speaks of the binder thread at rest, so it is not inductive.
- `VectorInv` and `WalkInv`, which carry `PointsStayInMemory`: the memory holds the
  points and never shrinks, so an index that was below its length stays so, whatever
  `stop` and `start` do to the size.  `LoadGrowsMemory` is the fact on `push_back`.
- `Places`, `CallAgrees` and `TestsAgree`, which carry `SessionIsReporting`, the
  refinement `Spec => ReportingSpec`: what a thread tests before it reports
  (`mEnabled`, the size of the route) is set in a session only, so what is due
  after it can only go down.  `BeginsOrEnds` covers the steps that change the
  session, `StepIsReporting` has a step for every action.
- `RouteInv` and `SegmentInv`, which carry `WalksTheRoute` (`RouteIsWalked`): while no
  `start` has appended the route once more, every place of the memory, also past
  the size of a cleared or half-filled vector, holds the point which the file has there;
  and a thread that nothing has disturbed took its references while the size was
  that of the whole route.  The property alone speaks of the two references only.

**GnssReportProofs.**  What a report carries, in two parts that share nothing but the
report: `GnssClock` and `GnssRxmMeasx`.

- Clock, for any times and any order, repetition and validity of the messages:
  `GpsTimeIsReported` and `StartupTimeIsReported` speak of a turn that reports; the
  invariant has to hold from the first message on.  `BiasAgrees` says that whenever
  the flag of a full bias is set, the time less the bias is the GPS time of the last
  NAV-TIMEGPS: NAV-STATUS moves both by the same amount.  `TimeAgrees` is needed
  for the time that `UpdateTime` makes up.
- Measurements, for any sizes of the two kinds of block, any length of the payload
  and any number of satellites that the message claims: `BlocksTaken` ties the offset
  of the loop to the blocks it took, and these to the number for which the payload
  has room (`RoomForOneMore` is the fact about division); `Retrieved` ties the
  measurements to the blocks.  From them follow `EveryBlockIsInPayload`,
  `EveryBlockIsMeasured`, `SvidIsOfConstellation` and `TimeHasItsState`.

**UbxProofs.**  Reader and parser, side by side, for any base above 4, hence buffers
of any such size, any sentences, payloads and elements, and any number of bytes lost or added.

- Reader: `CleanIsFollowed` says where the reader is while an element that met it at
  rest arrives: its position is the number of bytes sent, and
  `ubx_payload_len`, a static which keeps what the last frame left, has been reset, then
  holds the first byte of the length, then all of it.  `TypeCorrect` bounds the
  position by the buffer whatever bytes come, `CleanIsPut` is `CleanIsPutWhole`.
- Parser: `Placed` bounds, for each state of the machine, how many bytes of the
  element it must have consumed, which gives `PayloadIsInElement`; `InStep` says
  that in an element which began with both sync bytes the state is a function of the
  position, which gives `FrameIsSelected`.

**GnssHwInitProofs.**  For any number of retries, of lost, late and refused messages,
of restarts of the process, and any devices on the bus.

- `Pipeline`: nothing that configures the receiver is sent before `clear`, nor
  acknowledged while a `clear` waits.  With `Applied` it carries `AckMeansApplied`
  (`OwnAckIsApplied`): an ACK in the queue of a message with a key of its own means that
  the receiver has applied it, in this configuration and not in that of a process
  before, which the receiver keeps over a restart.
- `Remembered` says what the service has set for its parsers at each step.  With
  `Applied` it carries `ConfigurationIsAgreed`, whose second half is a computation
  on the bytes of CFG-GNSS: from the compiled-in message (`CompiledIn`) through the
  pokes (`PokeGives`), whose ids stay in place, to the systems a receiver turns on
  (`OwnFlag`).  For SPG 2.01 the same bytes are laid out in entries of 8 while the
  pokes go by 6 (`LaidSpg2`, `CompiledInSpg2`): no poke reaches the flag of a second
  system, and the one id that a poke reaches becomes none of theirs (`PokeMisses`), so
  none is turned on (`NoSecondSystem`, `ToldSpg2`).
- `TypeCorrect` has the bound on how often a message is sent, the last step (the
  configurations have at most 12 messages, `StepsAre`) and what `ScanUsbDevices` may
  pick; it rests on the types and phases above.

**GnssNmeaProofs.**  For any fixes and groups, and any number of epochs, dropped
sentences and lost groups.

- `LocationInv` adds to the two properties of the location that each field is absent or
  of the last sentence of its kind (`FieldsAreHeard`) in every state, not only when
  a location is reported: each handler sets or clears all fields of its sentence.
- `SatelliteTypes` carries `SatellitesTypeCorrect`: numbers stay in the range of
  their system and the report has at most `SVS_COUNT` satellites.
- `UsedAreOfLastGsa` carries the action property `UsedIsOfItsFix`: what is in
  `mSatellitesUsedInFix` of a system was in the last GSA with its digit, in either
  protocol, and with NMEA 4.1 that GSA names the system itself.
- `GroupsInv` carries `ListsAreLastGroups`: what is still to come of a group is the
  rest of it (`RestOfGroup`), sentence by sentence, and the list of its system is the
  part before (`ListsAgree`).  The property names only the states between groups
  and prefixes.

**NmeaTextProofs.**  For a ring and slots of any size, any texts, and sentences of any
length, damaged or run together in any way.  The two properties speak of the end of a
parse; the invariant says what the bytes of the ring are all the time:

- `SlotsInv`: a slot once written begins with a `$` and has the terminator of a sentence
  that fits, whatever terminators are written into it later; `WaitingInv`: what waits is
  as it was put, unless it was cut.  Together they stop a search that runs out of its slot:
  it can pass only a sentence too long for its slot, and comes to a `$` in the next.
- `FoundInv`: a star found in another slot than that of the sentence has such a `$`
  before it.  A text has none, so the bytes up to that star never have the checksum
  of a text (`PassStep`): that is why a sentence without a terminator is dropped
  instead of being handled with what follows it, and it carries `HandledIsSent`.
- `TextInv`: the star, the checksum and the terminator of a whole sentence that fits are
  its own (`OwnStar`), which carries `FittingAreHandled`.

The searches are `CHOOSE`s over addresses: `FirstGives` and `FirstIs` say that what
they find exists and is unique.  They rest on `LeastNatural`, the least element of a
set of numbers, which is had from the well-founded order on finite sets, as the
induction theorems of the library cannot be used.  `SlotsInOrder` and
`AddressSplits` are the arithmetic of slots and addresses.  `PutStep`, `FindStep`,
`CutStep` and `PassStep` prove the step of each action.

Only model-checked are `CloseReturns`, `GateOpens`, `WorkerGoesOn`, `ReaderReturns`,
`InitEnds` and `StopQuiets`: liveness under fairness is out of reach of the prover.
Nothing is proved of what a function computes by recursion over data of any
length; the modules above have none.

## 5. Findings

Three runs show disagreements between code and its own statements:

- `measurement_gate_after_close`: `UpdateStatus` loads `mEventsToWait`, `close` sets it to
  0, `UpdateStatus` stores what it computed: `GnssMeasToLocSync.h:51` "set value of
  number of events to wait" does not hold and, with no session open, no location is sent
  until the next measurement session has made its reports.
- `parser_checksum`: `UBX_ReaderParse` compares the checksums to choose a log
  line and hands the payload on either way (`GnssHwTTY.cpp:1586-1597`).
- `init_spg2`: for SPG 2.01 `PrepareGnssConfig` goes by entries of 6 bytes
  (`GnssHwTTY.cpp:540`), the message has entries of 8 (`598-603`): the bytes written to
  "enable GLONASS" (`559`) land on BEIDOU's flags and QZSS's channels.  The receiver
  acknowledges and goes on without GLONASS, and the parsers filter BEIDOU out.

## 6. Statements the code does not keep

While modelling, more statements of comments turned out not to hold.  The modules state
them as definitions no listed run checks; to see TLC violate one, give the
run of the module that one property, with the constants named here.

| definition | statement | what happens | constants |
|---|---|---|---|
| `GnssClock!ReportGivesBias` | `GnssIParser.h:38` "provide data collected from parsed messages" | NAV-TIMEGPS assigns the flags (`GnssNavTimeGPSParser.cpp:104`) and wipes those of NAV-CLOCK | as in the run |
| `GnssHwInit!AckedIsApplied` | `GnssHwTTY.cpp:1675` "No ACK received even during retries, give up" | a late ACK of one CFG-MSG is taken for that of the next | as in the run |
| `init = "reset" ~> (handle = "reading" \/ ~up)` | `GnssHwTTY.cpp:178` "No UBX ACK received, exit with timeout" | `read()` blocks on a silent receiver, the time is never looked at | as in the run |
| `GnssSatellites!SvidInRange` | `GnssHwTTY.cpp:1278-1284`, `1212` (svid 0 is not acceptable) | the fourteenth GLONASS satellite without a slot gets number 0 | a group of fourteen unknown slots, `PerSentence = 4`, `SVS_COUNT = 64` |
| `GnssSatellites!ExcludedIsNotHandled` | `GnssHwTTY.cpp:1227` "Make sure that GLONASS messages are not handled when BEIDOU is active and vice versa" | the test stands inside `sentence_idx == 1`: later sentences are handled | `MaxLost = 0` |
| `GnssSatellites!UsedIsOfOwnSystem` | `GnssHwTTY.cpp:1406` "GSA is expected to have 19 parts" | NMEA 2.3 has 18; the first digit of VDOP is taken for the system | as in the run |
| `GnssLocation!OnlyFor3DFix` | `GnssHwTTY.cpp:1103` "Provide location only for 3D fix (has altitude)" | the altitude of the epoch before is still flagged when RMC comes | `MaxEpochs = 2` |
| `GnssLocation!OnlyWithSpeedAndBearing` | `GnssHwTTY.cpp:1104` "Provide location only if speed and bearing ... are provided simultaneously" | a location without speed is provided | `MaxEpochs = 2` |
| `GnssSession!DeathStopsReports` | `Gnss.cpp:343` "Stopping all GNSS operations." | the handler only logs | as in the run |
| `GnssSession!CalleeIsHeld` | `Gnss.h:99` "For handling system-server death while GNSS service lives on." | the callback of the last client may be released during a call through it | `OneAtATime = TRUE` |
| `init = "done" /\ handle = "parked" ~> handle = "reading"` in `GnssHwInit` | `GnssHwTTY.cpp:755` the thread waits on `mHandleThreadCv` for a descriptor | only `OpenDevice` notifies, and `start` no longer calls it once `mIsUbloxDevice` is set: a receiver that was unplugged is not read again | as in the run |

More of the kind, which the models contain and the properties of section 3 except:

- Fake receiver: a `start` while the handle thread is inside a segment, also the
  first one with its third point, may move the vector under the thread's
  references (`GnssHwFAKE.cpp:92` against `130-136`).  A second `start` without
  `stop` appends the route once more; after `stop` and `start` the index is where it
  was.  Two calls of `start` with a file of one point make a session, although
  one alone returns false.
- NMEA ring: the star of a sentence of 128 bytes or more is looked for in the next
  slot and the terminator is written there, which may cut a sentence that waits; in the
  last slot the search leaves the ring (`GnssHwTTY.cpp:925-940`).  An overrun of the
  slot being parsed may cut the new sentence, and may hand a text to a handler whose
  checksum was not looked at.

And a few that no module contains: `requestedUpdateIntervalUs` multiplies the pause
by 1000 in 32 bits (`GnssHwFAKE.cpp:190`); `setCallback` announces geofencing and
navigation messages, whose extensions are null; after the last system the loop at
`GnssHwTTY.cpp:1378` asks for the size of an element past the end of `mSatellites`;
`UBX_Wait_MonVer` keeps up to `versionLen + 8` bytes in a buffer of `mUbxBufferSize`,
which a damaged length may exceed; a `start` that finds no u-blox device on the bus
leaves its descriptor open, and the next opens another.

## 7. What is left out

- Payload values no property tells apart: coordinates, accuracies, signal
  strengths, elevations, drift, pseudorange rates, time stamps; the splitting of
  sentences into fields; logging.
- The UTC time parser: `SelectParser` never makes one, only its own test does.
- The content of the fake route (451 points, up to 18 reports from one to the
  next): points are numbers, and the steps of a segment any number up to a bound.
- The firmware that is neither SPG 2.01 nor 3.01 leaves `mMajorGnssStatus`
  uninitialised, `"unset"` in `GnssHwInit`; the satellites module starts from the
  three defined values.
- `GnssHwTTY::UBX_Expect`, `UBX_Wait`, `PollMonVer`, the ring's `reset`, `full`,
  `size`, the queue's `getSize`: no caller.
- A client which calls `close` from inside its measurement callback, or passes a
  null callback.
- Destructors (never run), tests, build files, stub interfaces (section 1).

## 8. Plan

Done: queue, gate and session of measurements with proofs; the ring with its
refinement and proofs; a module for each stage of the data path and the start-up; the
text of sentences in the ring; both backends composed with the client and refining
`Reporting`.  What is reachable in the service is modelled, and every safety
property that a run checks is proved.  Next, in this order:

1. An abstract specification of request and acknowledge that `GnssHwInit`
   implements for messages with a class and id of their own.
2. The composition of `GnssSession` with the gate of `GnssMeasurement`, where
   `mEnabled` and the gate guard the same report.
