# Verification of the remote USB bridge

The firmware in `firmware/` turns a CH582F into a bridge between a Bluetooth voice
remote and a USB host. This directory holds TLA+ models of the parts of it (and of
the Python client) in which state, timing and power loss interact, the TLC runs that
check them on small instances, and TLAPS proofs about the bond journal and the
transactions on it for instances of any size. Paths below are relative to the
repository (`src/` in `PROJECT.json`).

## The system

Everything on the board runs in one cooperative TMOS task plus interrupt handlers.
`main.c` calls the server's tick every 5 ms; the radio controller handles SDK events
and polls in between, and after each GATT message flushes the output. No function is
preempted by another task-level function, but backend calls may call back into the
server synchronously, and this is where most of the interesting orders come from. Only
the USB interrupt preempts the task.

| Part | State | Operations | Talks to |
|---|---|---|---|
| Bond journal, `firmware/wch/board.c` | two EEPROM pages, RAM copy, staged address | begin pair, begin forget, save, clear, load | radio controller, server |
| Radio controller, `firmware/wch/wch_central.c` | link state, pairing and recovery flags | scan, connect, pair, forget, recover, fault | SDK, journal, server, adapter |
| GATT client, `firmware/wch/wch_gatt.c` | the one outstanding procedure, a generation | submit, deliver answers, fail the bearer | SDK, adapter |
| GATT cache store, `firmware/wch/cache_store.inc` | two EEPROM slots | load, save, withdraw | radio controller, adapter |
| RC003 adapter, `firmware/adapters/rc003/rc003_adapter.c`, `cache.inc` | discovery state, handles, cache | discover or restore, subscribe, export, detach | GATT client, engines, server |
| ATVV engine, `rc003_atvv.c` | stream, MIC_OPEN and MIC_CLOSE under way | control messages, audio, voice key, tick | adapter, server |
| Unicom engine, `unicom_runtime.inc` | group being joined, preroll, write under way | voice key, audio, tick | adapter, server |
| Product server, `firmware/product/rbp_server.c` | session, queues, operation, search, voice, keys | one handler per request, one callback per event, tick, flush | host, radio controller, adapter |
| Frame codec, `protocol/src/rbp_frame.c` | receive parser | encode, feed, time out | server, USB |
| USB CDC driver, `firmware/wch/usb_cdc.c` | two rings, endpoint registers, control transfer | interrupt; read, write, flush, take lost | host, main loop |
| Client, `client/python/rbp/` | session, open requests, audio stream, logical keys | requests, frame handler | server |

`PROJECT.json` lists every part, modelled or not, with its files.

What makes it hard to test:

* power can be lost inside any EEPROM write, and the SDK keeps its bond in another
  area, so no single write makes a pairing or a deletion durable;
* a GATT callback submits the next procedure from inside the answer to the last one,
  and the submission may be refused;
* a remote may change its attribute database while the board holds a copy of it, and
  says so in one indication that may come at any time;
* two ends decide about one microphone by messages that cross each other;
* cancelling a pairing inside the teardown of a session calls back and queues frames;
* control, key and media frames wait in three queues that share one order, with a
  burst rule that lets one overtake another, behind a ring that can be full;
* any control frame may find its queue full, which ends the session in mid-handler;
* the USB interrupt comes between any two locked calls of the main loop, and a reset,
  a suspension or a new SETUP between any two packets;
* the client acts on frames that are several steps old.

## Modules

| Module | Models | Lines of the code |
|---|---|---|
| `BoardJournal` | pages, `load_slots`, `write_record`, the callers' operations, power loss and EEPROM failure at every step of a write | `board.c` |
| `DurableRecord` | abstract: one record that changes atomically | the promise of `board.c:72-74` |
| `JournalRefinement`, `JournalProofs` | refinement mapping and inductive invariant; theorems | |
| `PairTransaction` | pairing, deletion, recovery over `BoardJournal` and the SDK's bond storage | `wch_central.c`, handlers of `rbp_server.c` |
| `PairFlashProofs` | inductive invariant of `PairTransaction`; lemmas on what the flash shows | |
| `PairRadioProofs` | lemmas on the steps that leave the journal alone | |
| `PairProofs` | the steps that write the journal; theorems | |
| `GattClient` | submission of procedures, the bearer | `wch_gatt.c` |
| `GattCacheStore` | the two slots of the cache, tombstones, a write that ends early | `cache_store.inc` |
| `RemoteAdapter` | discovery, restoration from the cache, export and import | `rc003_adapter.c`, `cache.inc` |
| `Attachment` | composition of the three with the radio controller, the remote, the link and power | `wch_gatt.c`, `wch_central.c` |
| `VoiceSource` | what both engines use: stopping, the server's reaction to voice events | `rbp_server.c`, `rc003_adapter.c` |
| `AtvvEngine` | the ATVV engine and the code that drives it | `rc003_atvv.c`, `rc003_adapter.c` |
| `UnicomEngine` | the Unicom engine | `unicom_runtime.inc` |
| `VoiceCapture` | composition of an engine with the server's voice fields, the link, the remote and the host | `rc003_adapter.c`, `rbp_server.c` |
| `RbpServer` | the server's functions as operators on its state record: queues, ring, flush rule, sessions, operations, streams, keys | `rbp_server.c` |
| `VoiceDelivery` | voice and link requests, adapter events, deadlines, the stream validator of the client | `rbp_server.c`, `rc003_adapter.c`, `client.py`, `audio_wire.py` |
| `KeyDelivery` | key events, subscription, `LogicalKeys` of the client | `rbp_server.c`, `client.py`, `input.py` |
| `SessionControl` | HELLO, GOODBYE, search, pairing and deletion as operations, the radio's completions | `rbp_server.c`, `wch_central.c`, `client.py` |
| `FrameCodec` | COBS and the receive parser | `rbp_frame.c` |
| `UsbCdc` | what the interrupt and the task-side calls do to the driver | `usb_cdc.c` |
| `UsbLink` | composition of codec, driver and main loop with the bus and the host | `usb_cdc.c`, `main.c`, `rbp_server.c` |
| `MC*` | instances for TLC | |

Where one handler calls back and forth between components (server, GATT callbacks,
engines), the components' functions are operators from state to state, and the
composing module turns the entry points into actions; so a handler with all its
trailing calls is one step. The compositions meet at their borders: `VoiceCapture`
shows that what reaches `rbp_server_on_voice` is a capture in order (`CaptureInOrder`),
which is what `VoiceDelivery` takes its source to be; `Attachment` ends where the link
is READY, which is where `VoiceCapture`, `VoiceDelivery` and `KeyDelivery` begin;
`UsbLink` carries the frames whose order and content are the subject of the server's
modules.

### How state and actions correspond

* **Journal.** A page is how far its programming got: erased, some bytes of the body
  ("torn"), a body with a right CRC but without its commit word ("body"), committed
  ("valid"). `Images(r)` lists what a write of `r` that stops early can leave.
  `MaxGen` and `MaxCounter` stand for `UINT32_MAX`; a write refused there is
  modelled. `LoadUnreadable` is a boot on which the EEPROM cannot be read.
* **Pairing.** One action per handler or SDK event. Each action that writes the
  journal has three outcomes: written, failed, power lost inside. `SdkBonds` and
  `SdkErases` are the SDK (external). `reported`, `kept`, `forgotten` are observers.
* **Attachment.** A handle is the name of the attribute it belongs to, together with
  the version of the remote's database it was read from; a stale handle is one of an
  older version. A GATT message is the sequence of events `wch_gatt_on_msg` hands to
  the adapter; each event runs the adapter to its end, submissions included, and the
  sequence is abandoned when the generation has moved, as in the code. `Adapter` takes
  any input that is possible in the state: an answer, an error, a notification, an
  indication, a timeout, a tick, the start. The SDK's verdicts on the submissions of a
  handler, and the end of an EEPROM write (verified, refused, torn, unproved), are
  chosen with the input. `begin_next`'s tail calls are run by `Settled`.
* **Capture.** The world of a handler is the engine, the server's voice fields, the
  link, the commands accepted by the stack and an observer of `rbp_server_on_voice`.
  The remote is external: `Press`, `Release`, `Obey`, `Play` and `GiveUp` are what the
  adapter expects of one, and the setups add what may go wrong. Commands (`tx`) and
  notifications (`up`) are under way in order, and may cross. ATVV frame numbers are
  "in order", "malformed" or "missing"; Unicom units are numbered, so that order and
  ownership can be stated.
* **Server.** A C function that changes the server is an operator from record to
  record of the same name. Where a C function goes on after a call that may fail or end
  the session, the rest of it is a small operator of the result (`Finished`, `Started`,
  `PairOver`). The three queues are one sequence `pending` in the order of
  `order_counter`, each entry marked with its queue. A frame in `ring` is encoded and
  has its `tx_seq`; `HostRead` takes the oldest. Frames have unit size.
* **Callbacks.** `request_pair_cancel` applies the synchronous callbacks of
  `rb_pair_cancel` inside the step; `Follow` then applies to the radio what the
  backend calls of that step did.
* **Requests.** A request is handled in the step that sends it. The client's
  knowledge lags by the frames it has not read, which is where the races are.
* **Deadlines.** `Tick(due)` takes the set of deadlines that have passed; any set of those
  that are set may have passed at any tick, so every order of timeout and answer is
  explored. In `VoiceCapture`, `TickDue` and `rbp_server_tick` pass one deadline at a time.
* **Flush.** Events that arrive as a GATT message may be followed by a flush
  (`process`), those of the adapter's tick are not: `Reported` allows both.
* **USB.** The main loop is cut where the interrupt can come in: each call under the
  USB lock is a step (`TakeLost`, `Read`, `Drain`, `Flush`). The interrupt handler is
  one step over all its flags. The controller holds a completed token and answers no
  other but SETUP until it is served. Bytes to the board are wire bytes through COBS
  and the parser; bytes to the host are numbered, so that a lost, repeated or spliced
  one shows. Descriptors are their lengths. `rbp_server_on_usb_gone` keeps the parser, and
  the host's next HELLO begins with a delimiter: a frame that had arrived whole but for its
  delimiter when the transport was lost is therefore heard after the loss. The observer
  `old` marks such a record, and `FramesHeardInOrder` speaks of the frames begun since;
  without `old` the run `usb` violates it. The loss has ended the session, so a request
  heard so finds none, and a HELLO opens one that the HELLO behind it replaces.
* **Reconnection.** In `VoiceDelivery` the link comes up as the code brings it up: `poll`
  asks `rbp_server_should_reconnect` (`LinkConnecting`), or the client sends CONNECT_PEER.
  DISCONNECT pauses reconnection; CONNECT_PEER and SET_RECONNECT end the pause, so that a
  link is there again for a host that has revoked its wish for voice.

## Runs

| Run | Question | Result |
|---|---|---|
| `journal` | Do two pages behave as one atomic record, whatever fails? (`JournalInv`, `AtomicRecord`) | holds |
| `pairing` | Are journal and SDK bond consistent at every instant power may fail, are ids fresh and are reported results final? (`CrashConsistent`, `FreshPeerId`, `ReportedPairingKept`, `ForgottenStaysForgotten`) | holds |
| `attach` | Whatever is refused, lost or cut, and although the remote's database changes: one procedure at a time (`AttachInv`), READY only for a remote that is supported and fully subscribed (`ReadyMeansAttached`), a cache that can be used again and is never stale unannounced (`CacheIsSound`) and that a lost link does not destroy (`TransportKeepsCache`), and in the end an attached remote (`Attaches`) | holds |
| `attach_retry` | Is a submission refused with RETRY repeated before the adapter moves on? (`RefusedIsRepeated`) | violated |
| `capture` | Do engine, server and remote keep one idea of a capture (`CaptureInv`, `MicrophoneAgreed`), is every unit delivered in order (`UnitsInOrder`) and to its session (`UnitsAreTheirs`), does no withdrawn request open a microphone (`NoGhostCapture`), and does everything end (`CapturesEnd`)? | holds |
| `voice_stream` | One session: does the client's validator accept every frame (`HostNeverRejects`), is a disabled voice silent (`SilentAfterDisable`), is a microphone nobody hears told to close (`VoiceInv`), do streams close (`StreamCloses`), do captures end and is a deferred disable answered (`VoiceStops`)? | holds |
| `voice_breaks` | Across lost and replaced sessions, lost links, links the client closes and asks for again, and requests that time out: the same validator, no capture nobody wanted (`OnlyWantedCaptures`), and voice resumes only for a host that still wants it (`ResumeNeedsIntent`) | holds |
| `voice_pipelined` | With three requests open at a time, is each of them answered? (`NoRequestForgotten`) | violated |
| `keys` | Overflow, changes of connection, unsubscribing and subscribing again: no stale key (`KeyInv`), no unnoticed loss and no event after unsubscribing (`KeyEventsInOrder`), the client converges (`KeysConverge`), a lost link releases all keys (`KeysReleased`) | holds |
| `session_pairing` | Every accepted operation is announced before its result and the result is not lost (`SessionInv`), the client knows whether a search runs (`SearchKnown`), and everything ends, whatever the radio does (`OperationsEnd`) | holds |
| `session_change` | Sessions replaced, closed or out of sequence numbers while operations run: no gap (`NoSequenceGap`), no frame behind a later HELLO (`FramesInSessionOrder`), `SessionInv` | holds |
| `usb` | Rings, toggles, addresses and control transfers at both ends (`EndsAgree`), bytes to the host (`NoByteLostOrRepeated`), frames from the host since the last loss (`FramesHeardInOrder`), progress (`EverythingArrives`) | holds |

`VoiceInv`, `KeyInv`, `SessionInv`, `AttachInv`, `CaptureInv` and `EndsAgree` include the
type invariant of their module. Every passing run is checked for deadlock too, except
`capture`: there the system rests when the budgets of the remote and the host are used
up. In `attach` the step `Rest` stands for this, and is possible only when nothing is
left to do.

Three more configurations show disagreements described below and are run by hand:
`tlc -config SaveWhileDeleting.cfg MCPairTransaction`,
`tlc -config JournalTornTwice.cfg MCPairTransaction`,
`tlc -config HelloWhilePairing.cfg MCSessionControl`.

### Bounds

Real sizes (6 control slots, burst 4, rings of kilobytes) only repeat what the small
ones do, as long as the small ones can fill up, overflow and wrap:

* journal: 3 generations and 2 peer ids (`pairing`: 6 and 2, two remotes), enough to
  reach both limits; beyond that the theorems hold for all values;
* `attach`: five remotes (everything optional present, the least, Unicom, one whose
  input cannot notify, one that is something else), two report characteristics kept
  (`MaxReports`; one of the remotes has three), Report Maps of one and two responses of
  at most three (`MaxMap`). `Mix` bounds what goes wrong: a fault and a lost link, a
  fault and a power cut, or a power cut and a second pairing, and in each one change of
  the database or of the remote. `MaxGeneration` 9 is not reached;
* `capture`: groups of two parts (`LastPart` 1), group numbers modulo 3 (`SeqWrap`), a
  preroll of two units (`PreMax`), two commands (`MaxTx`) and three notifications
  (`MaxUp`) under way: groups are cut, numbers wrap, preroll and stack refuse. Each of
  the 14 setups gives one engine and one kind of remote a small budget of presses, units,
  host changes, sessions, glitches, refused writes and links;
* `usb`: packets of two bytes, a driver ring of four, a server ring of six, frames of
  three bytes, COBS blocks of at most three bytes (`MaxCode` 4), a parser buffer of seven:
  full packets need an empty one behind them, frames span packets, rings fill, blocks
  reach their limit, and a foreign byte string overflows the parser. Each of the seven
  budgets combines two or three of traffic, loss, foreign bytes, halts and control
  requests; the largest has three frames and a loss, so that a frame is cut between two
  others;
* server: control slots 2 or 3, burst 1 or 2, key and media queues 1 or 2, ring 1 or 2
  frames: every queue fills and overflows, the burst rule fires with frames left behind
  it. Two slots to a burst of one leave more behind than the code's six to four. A
  client with one open request fills a longer queue with little else, and `voice_breaks`
  with `MaxTimeouts = 0` also holds with 4 and with 6 slots;
* two sessions, two connections, two streams where the question is about a successor,
  one otherwise; in `voice_breaks` three of sessions and connections together, and a
  request times out only before the last of them; two DATA frames per unit, so that a
  unit can be cut;
* `MaxTx` 2 tells "first" from "later" frames; `session_change` sets it to 5 and lets
  it stand for `UINT32_MAX`, so sessions end because numbers run out;
* one open request (`MaxPending`), as the Python client waits for each answer
  (`client.py:188`); its record of accepted codecs (`voice_enable`) makes sense only so.
  `voice_pipelined` opens three and asks only what the board does with them;
* `Requests` and `Timers` split the requests over the runs; together the runs fire
  every action.

Three constants keep a passing run away from a disagreement listed below, so that it
says something about everything else: `SaveWhileDeleting` and `ReadbackFaults` in
`pairing`, `RestartsSearch` in `session_pairing`. `session_change` restarts searches
and `journal` has read-back faults. For the same reason `NoGhostCapture` and
`UnwantedIsClosing` leave out remotes that start by themselves (HTT), and
`TransportKeepsCache` and `StoredCacheImports` name their exceptions.

### Fairness

In the server's modules it is written as `[]<>~enabled \/ []<><<A>>_vars`, in `VoiceCapture`
as `<>[]enabled => []<><<A>>_vars`, otherwise as `WF_vars(A)`. It is assumed of

* `Tick`: `main.c` schedules the server every 5 ms for ever;
* `Tick` with the stop, capture, operation and search deadlines passed, and `TickDue` and
  `rbp_server_tick` in `capture`: a deadline that stays set passes, because the tick
  compares it with a running clock. The two that only repeat something, MIC_EXTEND and
  the refresh of a pending write, are not needed and not assumed;
* `HostRead`: an attached host reads what USB offers;
* `HostGivesUp`: the client's heartbeat notices that its session is gone;
* `LinkTerminated`, `Terminated` after a disconnection was asked for: the SDK reports the
  end of a link it was told to close;
* `capture`: notifications that have arrived are heard, the adapter's tick runs while it
  would change something, and the remote receives what the link delivers (`Obey`, which
  includes ignoring it as often as the setup's glitches allow);
* `attach`: as long as something is left to do, something is done. Polls, ticks and
  messages are served for ever, and what may go wrong is bounded, so no fault can take
  the place of an answer for ever. A remote that has changed does not withhold its Service
  Changed indication on every link;
* `usb`: the main loop comes round (`srv_event` starts its own timer again), the
  interrupt is served, and the host polls open endpoints and goes on with a control
  transfer it began.

Nothing is assumed of the user, of pairing or of the radio's other completions.

## Proofs

`JournalProofs`, `PairFlashProofs`, `PairRadioProofs` and `PairProofs` hold theorems and
lemmas; all are checked by `tlapm` without any fact taken on trust.

### The journal

`JournalProofs` proves, for every set of remotes, every `MaxGen`, `MaxCounter` and
with or without read-back faults:

* `JournalTypeCorrect`: types hold, so neither generation nor counter wraps;
* `JournalInvariant`: `JournalInv` holds in every reachable state;
* `JournalIsAtomic`: the journal implements `DurableRecord`.

The assumptions are the named ones of `BoardJournal` and `JournalRefinement`: the two
limits are positive, the markers for "no address", "no record", "empty" and "corrupt"
are not records or addresses. TLC evaluates them in `journal`.

*Why an invariant is needed.* Atomicity is about what `load_slots` would find, but a
step is chosen from what RAM says. `JournalInv` ties the two: unless the store is
unusable, either nothing was ever committed (`Blank`), or RAM is the content of a
committed page and the other page is older or the direct successor that a failed
read-back left (`OnCommitted`), or RAM took up an intent without its commit word
(`OnRemains`). And two committed pages never have equal generations. The second
alternative is why a write may always go to the other page, and why the generation
alone decides at boot.

*The argument.* `StepCases` reduces every step to six: an acknowledged, a failed or a
cut write of a legal record, a power cycle, an unreadable one, or nothing.
`ProgrammedPages` says what a write does to the pages, `LoadInv` that a boot on
distinguishable pages establishes the invariant. For the refinement, `ShownValid` and
`ShownRemains` compute what a boot shows and `ProgrammedOutcome` that an
unacknowledged write is seen whole or not at all. `RefinesAcked`, `RefinesFailed`,
`RefinesCut` and `RefinesStep` map the six cases to the abstract actions.

### The transactions on it

`PairProofs` proves the four properties of the run `pairing` for every set of remotes and
every `MaxGen` and `MaxCounter`: `PairCrashConsistent`, `PairIdsFresh`, `PairIsDurable` and
`ForgetIsFinal`, all from `PairInvariant`. Two hypotheses stand in each theorem, and the
run has the same: `~ReadbackFaults` and `~SaveWhileDeleting`. Without either one
`CrashConsistent` or its companion `EraseUnderIntent` is false, see below.

*Why an invariant is needed.* The properties speak of the flash, the bond and what the
host was told; the steps are guarded by RAM flags of two components. `PairInv` has four
parts. `FlashInv` is `JournalInv` made sharper by the absence of read-back faults: either
the record in use is committed and the other page is no rival (`Settled`), or nothing was
ever committed (`Unsettled`). `Outside` is what a power cycle would meet: the bond fits the
record, a bound record is not a forgotten one, the kept pairing is there, and every id the
host ever heard of is at most the stored counter. `Inside` is what the flags promise: a
pending pairing has its intent on the flash, a counter above all known ids and no peer;
recovery and erasing happen only under an intent; the server's peer is the one on the
flash, or the one being deleted. `PairTypeOK` gives the types.

*The argument.* `FlashView` says what a boot would find from what RAM holds, and
`SettledFlashNext`, `FlashViewNext` say the same of the next state. `AckedFlash`,
`FailedFlash`, `CutFlash` and `LoadFlash` carry `FlashInv` over the four things that can
happen to the flash, and the lemmas named `...Outside` carry `Outside` over them for a
record that fits the bond (`Fits`). One lemma per action (`PairBeginInv` and so on) then
shows that the record it writes does fit, which is where `Inside` is used; `BootInv` that
a boot re-establishes `Inside` from the flash alone. `PairStep` combines them.

Only model-checked: everything else. Liveness is out of the prover's reach;
`RbpServer`, `RemoteAdapter` and the engines use recursive operators or folds over
sequences, and what those compute for every input is out of its reach too. Liveness
properties of the form "P does not last" are written `[]<>~P`, which is `P ~> ~P`.

## Disagreements between code and documentation

Two have a run:

* `attach_retry`: after MTU_UPDATED (`wch_gatt.c:406`) and WRITE_DONE (`:532`) the client
  emits the PROC_DONE of the finished procedure unless the generation has moved. If the
  adapter's next submission inside that callback was refused with RETRY, nothing is
  pending and the generation is unchanged; the PROC_DONE reaches the adapter's next state,
  which takes it for the end of a procedure that was never submitted and does not repeat
  it. `gatt_client.h:19-20` says "Retry only that submission". `attach` shows that the
  adapter still attaches in the end, and never calls a remote READY that is not.
* `voice_pipelined`: one field holds the deferred answer of VOICE_ENABLE(false)
  (`rbp_server.c:1984`). Disable, enable, a new capture and a second disable before the END
  of the first stream is flushed: the first disable is never answered. `docs/wire-protocol.md:92`
  allows four pending requests and `:94` promises a short command its answer within a
  second. The Python client waits for each answer (`client.py:188`) and does not meet it;
  the .NET client lets three ordinary requests be open (`BridgeClient.cs:44`).

Three have a configuration (see Runs):

* `SaveWhileDeleting.cfg`, `EraseUnderIntent`: SET_RECONNECT does not look at a running
  FORGET_PEER (`rbp_server.c:1746`). It saves a state 1 record over the delete intent, and
  the recovery then erases the bond under a record that says the peer is bound.
* `JournalTornTwice.cfg`, `AlwaysRecoverable`: a torn first intent is taken up as slot 0,
  so the next write goes to slot 1. A second cut there leaves a pair of pages `load_slots`
  refuses, where `board.c:121-122` expects slot one to be erased. Nothing clears state 255.
* `HelloWhilePairing.cfg`, `HelloIsFirst`: HELLO during a pairing tears the old session
  down, the cancellation queues a state event of session 0, and that takes `tx_seq` 1. HELLO
  goes out as 2 (`docs/wire-protocol.md:86` says 1) and `client.py:210` drops it.

More were met while modelling. Each can be reproduced by checking the formula on the
named module; none has a run of its own.

| What the code does | Document | Module and formula |
|---|---|---|
| The key snapshot can leave before the OK of EVENTS_ENABLE queued ahead of it, when the control burst is used up (`rbp_server.c:1027`) | `:277` | `KeyDelivery`: while an EVENTS_ENABLE OK is in `pending`, `Count(server, "key") > 0` |
| `pressed_bits` is cleared after `keys_emit` (`rbp_server.c:465`): if the reset of a lost link overflows the queue, the snapshot behind it shows the keys as pressed | `:281` | `KeyDelivery`: the last queued key state has `bits = server.pressed` |
| GOODBYE patches the session of the first control slot (`rbp_server.c:1479`); with a pairing running that slot is the state event of the cancellation, and the answer keeps session 0 | `:102` | `SessionControl`: no queued GOODBYE has session 0 |
| PAIR_BEGIN whose ACCEPTED overflows the control queue loses the session and still starts the radio (`rbp_server.c:1637`): no operation owns the pairing | `:98` | `SessionControl` with `MaxPending = 2`, `CtlSlots = 2`: `pair_pending` implies an active PAIR operation |
| A deletion begun in one session is reported in the next under the old id (`rbp_server.c:305`) | `:96` | `SessionControl`: a queued OPERATION has `of = session` |
| The result of a pairing is queued before the READY event it released (`rbp_server.c:948`) | `:230` | `SessionControl`: in `pending`, READY precedes the PAIRED result |
| FIND_START during a search drops the search, then the radio answers BUSY (`rbp_server.c:1509`, `wch_central.c:430`) | `:194` | `SessionControl`, `SearchKnown` with `RestartsSearch = TRUE` |
| The commit of a pairing succeeds but reading it back fails (`wch_central.c:177`): the roll back erases the bond while the flash names the peer | `:207` | `PairTransaction`, `CrashConsistent` with `ReadbackFaults = TRUE` |
| A bearer that fails before the adapter is started makes the first submission of a restoration fail for good, and the cache of a bonded remote is dropped (`rc003_adapter.c:76`) | `rc003_adapter.c:76`, "Transport loss closes this attempt" | `Attachment`, `TransportKeepsCache` without its third alternative |
| A report characteristic without a Report Reference is exported, and the import refuses the whole image: that remote is discovered anew on every link | `cache.inc` | `Attachment`, `StoredCacheImports` without its second alternative |
| A cache slot that was written whole but could not be read back ("unproved") is the newest after a reboot | `docs/reconnect-0.6.9.md:13` | `Attachment`, `StaleIsAnnounced` without `obs.doubt` |
| A Service Changed indication is confirmed (`wch_gatt.c:338`) before the tombstone is saved, and a save that fails in `rb_disconnect` is not repeated: a power cut between leaves a stale cache the remote will not correct | | `Attachment`, `StaleIsAnnounced` without `obs.lost` |
| A MIC_OPEN that crosses the START of a remote that starts by itself can open a capture after the button was released | | `VoiceCapture`, `NoGhostCapture` for HTT |
| The late BUSY to such a MIC_OPEN clears `closing` of a stream whose MIC_CLOSE was sent (`rc003_atvv.c:152`); the stop deadline still ends it | | `VoiceCapture`, `UnwantedIsClosing` for HTT |
| Suspension and halt drop the rest of a frame that was partly sent, without a delimiter; the client's parser restarts at the next HELLO (`client.py:404`) | `wire-protocol.md:88` | `UsbLink`: the bytes at the host end in a delimiter when `u.lost` is taken |

## Not modelled

* VOICE_START and `rc003_adapter_mic_start`, which only the experimental build has.
* TLV, HID report descriptors, audio decoders: data without control state. The models
  use what they yield.
* Fault and trace rings: diagnostics that no other code depends on.
* The .NET client and the parser of `wire.py`: the Python client and the C parser stand
  for them. Of the Python client the worker thread and the transports are left out.
* Simulator, demos, vendor SDK: test doubles, user interface and third-party code. The
  SDK's callbacks are inputs of the models.
* Radio: the RESOLVE scan that finds the bonded remote, the length of the back-off, address
  matching. `begin_link` reports CONNECTING before it asks the SDK for the link
  (`wch_central.c:193`); a cancellation inside that report is collapsed into CLOSING.
* `SessionControl` leaves out `radio_faulted` (it is in `PairTransaction`) and treats
  the two scans of the radio as one. `session_counter` is bounded, its exhaustion is
  not modelled.
* HELLOs that are refused (`rbp_server.c:1221-1253`): a malformed header, another version, a
  missing nonce. They create no session. The answer to another version goes straight to the
  ring, and is dropped when it does not fit; the answer to a missing nonce goes through the
  control queue like every other, and a full queue ends the session.
* `VoiceDelivery`: a reconnection from `poll` whose scan is rejected (CONNECT_PEER has this
  outcome); requests refused for their arguments. That CONNECT_PEER is BUSY during an
  operation is left out, as no operation runs there.
* `VoiceSource` has the server's reaction to voice events without the queues: the teardown
  when END cannot be queued and the answer to a format nobody accepts are in `VoiceDelivery`.
* Attachment: a second FD00 service (`rc003_adapter.c:654`), which no remote of the runs has;
  a read of the cache slots that fails when a cache is loaded (`cache_store.inc:18`, `:26`).
  Then none is used, and the next access reads the slots again. In a save the failing read
  is the end "unread".
* USB: the constant notification of EP1, a SETUP that arrives inside the interrupt while
  line coding is copied, a host that reads less than it asked for, the split of a write
  at the end of a ring, handshakes lost on the cable, the extra `out_drain` of
  `handle_hello`. A bus reset is taken to withdraw a SETUP that is not yet served. The CRC
  is ideal. At a loss the host gives up what it has not sent (external).
* Capture: the media queue is "has room" or not; its own overflow is in `VoiceDelivery`.
  Of the remote it is assumed that ATVV streams follow the capabilities and that Unicom
  group numbers start again with each capture. `Disable` leaves `stop_requested` alone as
  the code does; the other deadlines cover it.

What is left would add little that a model can decide: the remaining unmapped lines are
byte layout, sample arithmetic, logging, hardware set-up and second implementations of
what is modelled.

## Plan

Done: journal, pairing, attachment, capture, server, keys, sessions and USB, each with its
runs; proofs about the journal and the transactions on it.

Possible next steps: liveness of recovery (every intent in the journal is resolved unless
the radio faults); a refinement from `VoiceCapture` to the source of `VoiceDelivery` in place
of `CaptureInOrder`; a proof that `GattCacheStore` shows either the old or the new record,
along the lines of `JournalProofs`.
