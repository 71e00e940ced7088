------------------------------ MODULE RbpServer ------------------------------
(***************************************************************************)
(* The product server of firmware/product/rbp_server.c as operators on its *)
(* state record.  Every C function that changes the server is an operator  *)
(* from a record to a record; the modules that extend this one turn the    *)
(* entry points into actions and add the host, the adapter and the radio.  *)
(*                                                                         *)
(* The three output queues (control, keys, media) share one order counter. *)
(* They are one sequence here, "pending", in that order; each entry says   *)
(* which queue holds it.  "ring" holds the encoded frames from the output  *)
(* ring to the host, oldest first.  Frames have unit size.                 *)
(***************************************************************************)
EXTENDS Integers, Sequences, SequencesExt

CONSTANTS
    CtlSlots,     \* CTL_SLOTS
    CtlBurst,     \* CTL_FLUSH_BURST
    KeyDepth,     \* RBP_KEY_QUEUE_DEPTH
    MediaDepth,   \* MEDIA_DEPTH, and the bytes of the audio pool
    RingCap,      \* OUT_RING_SIZE, in frames
    OpsCap,       \* RBP_MAX_OPERATION_RESULTS
    MaxTx,        \* tx_seq values told apart: 0 unset, 1 first, ..., MaxTx
    TxExhausts,   \* does MaxTx stand for UINT32_MAX (or for "later")?
    MaxStream,    \* UINT32_MAX of the stream id
    UnitChunks    \* DATA frames of one encoded unit

ASSUME ServerAssumption ==
    /\ {CtlSlots, CtlBurst, KeyDepth, MediaDepth, RingCap, OpsCap, MaxStream,
        UnitChunks} \subseteq Nat \ {0}
    /\ KeyDepth >= 2 /\ MaxTx >= 2
    /\ TxExhausts \in BOOLEAN

LinkDown == {"DISCONNECTED", "UNBOUND", "ERROR", "UNSUPPORTED"}
LinkUp == {"CONNECTING", "PAIRING", "INITIALIZING", "READY"}

\* rbp_server_init.  Three fields belong to no struct member: pair_pending is the
\* flag of wch_central.c, stop_sent and disconnecting record backend calls that are
\* still to take effect.  op_session only observes where the operation began.
ServerInit == [
    session |-> 0, session_counter |-> 0, tx |-> 0, pending |-> <<>>, ring |-> <<>>,
    op_active |-> FALSE, op_kind |-> "NONE", op_id |-> 0, op_session |-> 0, ops_done |-> <<>>,
    pair_ready_pending |-> FALSE, pair_cancel_requested |-> FALSE,
    prompt_active |-> FALSE, find |-> "NONE", cand |-> FALSE,
    link |-> "UNBOUND", conn |-> 0, conn_counter |-> 0, peer |-> FALSE,
    auto |-> TRUE, reconnect_paused |-> FALSE,
    events_enabled |-> FALSE, pressed |-> {}, input_seq |-> 0,
    voice_state |-> "ABSENT", voice_enabled |-> FALSE, voice_denied |-> FALSE,
    resume |-> FALSE, accepted |-> FALSE, waiting_idle |-> FALSE,
    stream |-> 0, next_stream |-> 0, stream_conn |-> 0,
    delivering |-> FALSE, ending |-> FALSE,
    chunks |-> 0, units |-> 0, epoch |-> 0, offset |-> 0,
    d_chunks |-> 0, d_units |-> 0, d_epoch |-> 0,
    source_active |-> FALSE, got_audio |-> FALSE, stop_requested |-> FALSE,
    capture_limited |-> FALSE, ok_deferred |-> 0,
    pair_pending |-> FALSE, stop_sent |-> FALSE, disconnecting |-> FALSE]

Of(s, queue) == SelectSeq(s.pending, LAMBDA e : e.q = queue)
Count(s, queue) == Len(Of(s, queue))

\* Did the function succeed, and the server after it.
Outcome(ok, s) == [ok |-> ok, s |-> s]

-----------------------------------------------------------------------------
\* Queue entries.

\* n is the request id, the operation or the connection the frame is about.
Control(s, op, n, status) ==
    [q |-> "ctl", op |-> op, n |-> n, status |-> status, conn |-> 0,
     session |-> s.session, tx |-> 0]

KeyState(s, kind, bits) ==
    [q |-> "key", op |-> "KEYS_STATE", kind |-> kind, bits |-> bits,
     seq |-> s.input_seq, conn |-> s.conn, session |-> 0, tx |-> 0]

Media(s, op, seq, unit, epoch, offset, reason) ==
    [q |-> "media", op |-> op, stream |-> s.stream, seq |-> seq, unit |-> unit,
     epoch |-> epoch, offset |-> offset, reason |-> reason,
     conn |-> s.stream_conn, session |-> 0, tx |-> 0]

\* send_device_state: the connection and the link state it tells of.
DeviceState(s) == Control(s, "DEVICE_STATE", s.conn, s.link)

-----------------------------------------------------------------------------
\* The fields below are dead once a stream, an operation or a capture is over: the code sets
\* them again before it reads them.  They are cleared here at the end instead,
\* which leaves fewer states to tell apart.

StreamOver(s) ==
    [s EXCEPT !.delivering = FALSE, !.ending = FALSE, !.stream = 0, !.stream_conn = 0,
              !.chunks = 0, !.units = 0, !.epoch = 0, !.offset = 0,
              !.d_chunks = 0, !.d_units = 0, !.d_epoch = 0]

OpOver(s) ==
    [s EXCEPT !.op_active = FALSE, !.op_kind = "NONE", !.op_id = 0, !.op_session = 0]

CaptureOver(s) ==
    [s EXCEPT !.source_active = FALSE, !.got_audio = FALSE, !.capture_limited = FALSE,
              !.stop_sent = FALSE]

-----------------------------------------------------------------------------
\* rbp_server_on_link, once the state is one of LinkDown: what the record loses.
LinkLostFields(s) ==
    [CaptureOver(s) EXCEPT !.conn = 0, !.stop_requested = FALSE,
              !.waiting_idle = FALSE, !.voice_enabled = FALSE,
              !.voice_state = "ABSENT"]

\* The state event at the end of the queue.
Announce(s) == [s EXCEPT !.pending = Append(@, DeviceState(s))]

\* request_pair_cancel out of session_teardown.  rb_pair_cancel calls back at
\* once: rbp_server_on_pair_done finds no operation any more and reports the
\* link as failed.  The queues were just emptied, so the event always fits; it
\* carries session 0.
CancelPairing(s, pairing) ==
    IF ~pairing \/ s.pair_cancel_requested THEN s
    ELSE IF ~s.pair_pending THEN [s EXCEPT !.pair_cancel_requested = TRUE]
    ELSE Announce(LinkLostFields(
            [s EXCEPT !.pair_cancel_requested = TRUE, !.pair_pending = FALSE,
                      !.pair_ready_pending = FALSE, !.link = "ERROR"]))

\* session_stop_delivery, and ctl_clear, which its caller calls just before it.
session_stop_delivery(s) ==
    StreamOver([s EXCEPT !.pending = <<>>, !.accepted = FALSE, !.resume = FALSE,
                         !.ok_deferred = 0, !.events_enabled = FALSE,
                         !.voice_enabled = FALSE, !.voice_denied = FALSE,
                         !.waiting_idle = FALSE, !.stop_requested = FALSE])

\* session_teardown.  Of the ring only the oldest frame survives.
session_teardown(s) ==
    LET stop == (s.source_active \/ s.voice_enabled) /\ ~s.stop_requested
        t == [session_stop_delivery(IF s.op_kind = "PAIR" THEN OpOver(s) ELSE s) EXCEPT
                !.session = 0,
                !.ring = SubSeq(@, 1, IF @ = <<>> THEN 0 ELSE 1),
                !.prompt_active = FALSE, !.ops_done = <<>>,
                !.find = IF @ = "ACTIVE" THEN "NONE" ELSE @,
                !.stop_requested = s.source_active,
                !.stop_sent = @ \/ (stop /\ s.source_active)]
    IN CancelPairing(t, (s.op_active /\ s.op_kind = "PAIR") \/ s.prompt_active)

\* session_create; the session counter is bounded by the callers.
session_create(s) ==
    [session_teardown(s) EXCEPT !.session = s.session_counter + 1,
                                !.session_counter = @ + 1, !.tx = 1]

-----------------------------------------------------------------------------
\* Output.

TxUsable(n) == n # 0 /\ ~(TxExhausts /\ n = MaxTx)
TxNext(n) == IF n = MaxTx THEN n ELSE n + 1

\* out_try_frame: the frame gets its tx_seq and its place in the ring.
OutFrame(s, frame) ==
    [s EXCEPT !.ring = Append(@, [frame EXCEPT !.tx = s.tx]), !.tx = TxNext(@)]

\* The books media_flush_one keeps of the current stream when m has been sent.
Delivered(s, m) ==
    IF m.stream # s.stream THEN s
    ELSE CASE m.op = "DATA" ->
                [s EXCEPT !.d_chunks = s.d_chunks + 1,
                          !.d_units = IF m.offset + 1 = UnitChunks
                                      THEN s.d_units + 1 ELSE s.d_units]
           [] m.op \in {"START", "FORMAT"} -> [s EXCEPT !.d_epoch = m.epoch]
           [] m.op = "END" -> StreamOver(s)

\* ctl_pop, keys_flush_one and media_flush_one for the entry at position i.  A
\* control entry keeps the session it was queued in.
FlushOne(s, i) ==
    LET e == s.pending[i]
        t == [s EXCEPT !.pending = RemoveAt(@, i)]
    IN CASE e.q = "ctl" -> OutFrame(t, e)
         [] e.q = "key" -> OutFrame(t, [e EXCEPT !.session = s.session])
         [] e.q = "media" -> Delivered(OutFrame(t, [e EXCEPT !.session = s.session]), e)

\* Mutant of NextToFlush: control entries overtake the others.
ControlFirst(s, ctl_sent) ==
    LET ctl == {i \in DOMAIN s.pending : s.pending[i].q = "ctl"}
    IN IF ctl = {} THEN 1 ELSE CHOOSE i \in ctl : \A j \in ctl : i <= j

\* The globally oldest entry, unless CtlBurst control entries went out in this
\* flush and keys or media wait.
NextToFlush(s, ctl_sent) ==
    LET others == {i \in DOMAIN s.pending : s.pending[i].q # "ctl"}
    IN IF s.pending[1].q = "ctl" /\ ctl_sent >= CtlBurst /\ others # {}
       THEN CHOOSE i \in others : \A j \in others : i <= j
       ELSE 1

\* Sequence numbers that have run out end the session; a full ring, or media without
\* a session, ends the flush.
RECURSIVE FlushFrom(_, _)
RECURSIVE FlushEntry(_, _, _)
FlushEntry(s, i, ctl_sent) ==
    IF s.pending[i].q = "media" /\ s.session = 0 THEN s
    ELSE IF ~TxUsable(s.tx) THEN session_teardown(s)
    ELSE IF Len(s.ring) >= RingCap THEN s
    ELSE FlushFrom(FlushOne(s, i), IF s.pending[i].q = "ctl" THEN ctl_sent + 1 ELSE ctl_sent)

FlushFrom(s, ctl_sent) ==
    IF s.pending = <<>> THEN s ELSE FlushEntry(s, NextToFlush(s, ctl_sent), ctl_sent)

rbp_server_flush_output(s) == FlushFrom(s, 0)

-----------------------------------------------------------------------------
\* Control queue.  A full queue ends the session.

ctl_enqueue(s, entry) ==
    IF Count(s, "ctl") >= CtlSlots THEN session_teardown(s)
    ELSE [s EXCEPT !.pending = Append(s.pending, entry)]

Respond(s, op, req, status) == ctl_enqueue(s, Control(s, op, req, status))

\* Mutant of send_device_state: a lost link is not told.
DeviceStateConnected(s) == IF s.conn = 0 THEN s ELSE ctl_enqueue(s, DeviceState(s))

send_device_state(s) == ctl_enqueue(s, DeviceState(s))

-----------------------------------------------------------------------------
\* Keys.

\* Mutant of keys_emit: a full queue is replaced by the newest event.
KeysEmitReplaces(s, kind, bits) ==
    LET rest == SelectSeq(s.pending, LAMBDA e : e.q # "key" \/ Count(s, "key") < KeyDepth)
    IN IF ~s.events_enabled THEN s
       ELSE [s EXCEPT !.pending = Append(rest, KeyState(s, kind, bits))]

\* Mutant of keys_emit: a full queue is reset, without a snapshot.
KeysEmitResets(s, kind, bits) ==
    LET none == [s EXCEPT !.pending = SelectSeq(s.pending, LAMBDA e : e.q # "key"),
                          !.input_seq = s.input_seq + 1]
    IN IF ~s.events_enabled THEN s
       ELSE IF Count(s, "key") < KeyDepth
       THEN [s EXCEPT !.pending = Append(s.pending, KeyState(s, kind, bits))]
       ELSE [none EXCEPT !.pending = Append(none.pending, KeyState(none, "RESET", {}))]

\* keys_emit and key_push; s.input_seq was advanced by the caller.
keys_emit(s, kind, bits) ==
    IF ~s.events_enabled THEN s
    ELSE IF Count(s, "key") < KeyDepth
    THEN [s EXCEPT !.pending = Append(s.pending, KeyState(s, kind, bits))]
    ELSE LET t == [s EXCEPT !.pending = SelectSeq(s.pending, LAMBDA e : e.q # "key"),
                            !.input_seq = s.input_seq + 1]
             u == [t EXCEPT !.pending = Append(t.pending, KeyState(t, "RESET", {})),
                            !.input_seq = t.input_seq + 1]
         IN [u EXCEPT !.pending = Append(u.pending, KeyState(u, "SNAPSHOT", u.pressed))]

\* rbp_server_on_keys for a report of the adapter.
OnKeysPhysical(s, bits) ==
    keys_emit([s EXCEPT !.pressed = bits, !.input_seq = s.input_seq + 1],
              "PHYSICAL", bits)

\* rbp_server_on_keys for the reset rbp_server_on_link makes up.
OnKeysReset(s) ==
    LET t == keys_emit([s EXCEPT !.input_seq = s.input_seq + 1], "RESET", {})
    IN [t EXCEPT !.pressed = {}]

-----------------------------------------------------------------------------
\* Voice.

CodecAccepted(s, format) == s.accepted /\ format = "ACCEPTABLE"

\* media_enqueue makes room by flushing before it gives up.
MakeRoom(s) == IF Count(s, "media") >= MediaDepth THEN rbp_server_flush_output(s) ELSE s

MediaFits(s) == s.session # 0 /\ Count(s, "media") < MediaDepth

Enqueued(s, entry) ==
    IF MediaFits(s) THEN Outcome(TRUE, [s EXCEPT !.pending = Append(@, entry)])
    ELSE Outcome(FALSE, s)

media_enqueue(s, entry) == Enqueued(MakeRoom(s), entry)

\* Mutant of media_discard_current: the pending START goes too.
DiscardWithStart(s) ==
    [s EXCEPT !.pending = SelectSeq(s.pending, LAMBDA e :
        ~(e.q = "media" /\ e.stream = s.stream))]

\* media_discard_current: the pending START survives.
media_discard_current(s) ==
    [s EXCEPT !.pending = SelectSeq(s.pending, LAMBDA e :
        ~(e.q = "media" /\ e.stream = s.stream /\ e.op # "START"))]

\* The END of the stream: what was sent, or all that was queued.
EndEntry(s, reason, clear) ==
    IF clear THEN Media(s, "END", s.d_chunks, s.d_units, s.d_epoch, 0, reason)
    ELSE Media(s, "END", s.chunks, s.units, s.epoch, 0, reason)

\* An END that cannot be queued ends the session.
Finished(r, clear) ==
    IF ~r.ok THEN session_teardown(r.s)
    ELSE IF clear THEN StreamOver(r.s) ELSE [r.s EXCEPT !.ending = TRUE]

FinishStream(s, reason, clear) ==
    Finished(media_enqueue(s, EndEntry(s, reason, clear)), clear)

\* A unit that was cut is not drained.
voice_finish_stream(s, reason, clear) ==
    LET cut == ~clear /\ s.offset # 0
    IN IF ~s.delivering \/ (s.ending /\ ~clear /\ ~cut) THEN s
       ELSE FinishStream(IF clear \/ cut THEN media_discard_current(s) ELSE s,
                         IF cut THEN "INVALID_ENCODED_DATA" ELSE reason, clear \/ cut)

\* Mutant of RequestStop: the backend is not called.
RequestStopSilently(s) == [s EXCEPT !.stop_requested = TRUE]

\* stop_requested, its deadline and backend.voice_request_stop.
RequestStop(s) == [s EXCEPT !.stop_requested = TRUE, !.stop_sent = s.source_active]

StopCapture(s) == IF s.source_active /\ ~s.stop_requested THEN RequestStop(s) ELSE s

\* Without a stream to end, or for a format the host does not take, voice is lost.
VoiceLost(s, reason) ==
    send_device_state([s EXCEPT !.resume = FALSE, !.voice_enabled = FALSE,
                                !.voice_state = IF reason = "UNSUPPORTED_FORMAT"
                                                THEN "UNSUPPORTED" ELSE "FAILED"])

Faulted(s, reason, streaming) ==
    IF streaming /\ reason # "UNSUPPORTED_FORMAT" THEN s ELSE VoiceLost(s, reason)

voice_fault(s, reason) ==
    Faulted(StopCapture(voice_finish_stream(s, reason, TRUE)), reason, s.delivering)

\* queue_format.
FormatQueued(r, epoch) == IF r.ok THEN Outcome(TRUE, [r.s EXCEPT !.epoch = epoch]) ELSE r

queue_format(s, format, start) ==
    LET epoch == IF start THEN 1 ELSE s.epoch + 1
        entry == Media(s, IF start THEN "START" ELSE "FORMAT", 0, s.units + 1, epoch, 0,
                       "NONE")
    IN IF ~CodecAccepted(s, format) \/ s.offset # 0
       THEN Outcome(FALSE, voice_fault(s, IF CodecAccepted(s, format) THEN "SOURCE_DATA_LOST"
                                          ELSE "UNSUPPORTED_FORMAT"))
       ELSE FormatQueued(media_enqueue(s, entry), epoch)

-----------------------------------------------------------------------------
\* rbp_server_on_voice, one operator per event.

OnSourceBegin(s) ==
    [s EXCEPT !.source_active = TRUE, !.got_audio = FALSE, !.stop_requested = FALSE,
              !.capture_limited = FALSE, !.stop_sent = FALSE]

NewStream(s) ==
    [s EXCEPT !.stream = s.next_stream + 1, !.next_stream = @ + 1,
              !.stream_conn = s.conn, !.chunks = 0, !.units = 0, !.epoch = 0,
              !.offset = 0, !.d_chunks = 0, !.d_units = 0, !.d_epoch = 1,
              !.delivering = TRUE, !.ending = FALSE]

Started(r) == IF r.ok THEN r.s ELSE voice_fault(StreamOver(r.s), "BUFFER_OVERRUN")

StartStream(s, format) ==
    IF ~CodecAccepted(s, format) THEN voice_fault(s, "UNSUPPORTED_FORMAT")
    ELSE IF s.next_stream = MaxStream THEN session_teardown(s)
    ELSE Started(queue_format(NewStream(s), format, TRUE))

OnStart(s, format) ==
    IF ~s.source_active THEN voice_fault(s, "INVALID_ENCODED_DATA")
    ELSE IF ~s.voice_enabled \/ s.session = 0 \/ s.waiting_idle THEN RequestStop(s)
    ELSE StartStream(IF s.delivering THEN voice_finish_stream(s, "BUFFER_OVERRUN", TRUE)
                     ELSE s, format)

FormatChanged(r) ==
    IF ~r.ok /\ r.s.delivering THEN voice_fault(r.s, "BUFFER_OVERRUN") ELSE r.s

OnFormat(s, format) ==
    IF ~s.delivering \/ s.ending THEN s ELSE FormatChanged(queue_format(s, format, FALSE))

\* The fragments of one ENCODED event, one DATA entry each.
ChunkQueued(s) ==
    LET whole == s.offset + 1 = UnitChunks
    IN [s EXCEPT !.chunks = @ + 1, !.offset = IF whole THEN 0 ELSE @ + 1,
                 !.units = IF whole THEN @ + 1 ELSE @]

RECURSIVE QueueChunks(_, _)
RECURSIVE QueueMore(_, _)
QueueMore(r, n) ==
    IF r.ok THEN QueueChunks(ChunkQueued(r.s), n) ELSE voice_fault(r.s, "BUFFER_OVERRUN")

QueueChunks(s, n) ==
    IF n = 0 \/ ~s.delivering THEN s
    ELSE QueueMore(media_enqueue(s, Media(s, "DATA", s.chunks + 1, s.units + 1, s.epoch,
                                          s.offset, "NONE")), n - 1)

\* n fragments of the current unit, or an event that cannot be part of it: the unit
\* is larger than the format allows, or the offsets do not fit.
OnEncoded(s, n, fault) ==
    LET t == [s EXCEPT !.got_audio = TRUE]
    IN IF ~s.source_active THEN s
       ELSE IF ~s.delivering \/ s.ending THEN t
       ELSE IF fault # "NONE" THEN voice_fault(t, fault)
       ELSE QueueChunks(t, n)

Drains == {"NORMAL", "REQUESTED_STOP", "CAPTURE_LIMIT"}

\* Mutant of OnSourceEnd: the stream is left open.
SourceEndLeavesStream(s, reason) == [CaptureOver(s) EXCEPT !.waiting_idle = FALSE]

OnSourceEnd(s, reason) ==
    LET why == IF reason = "NORMAL" /\ s.capture_limited THEN "CAPTURE_LIMIT"
               ELSE IF reason = "NORMAL" /\ s.stop_requested THEN "REQUESTED_STOP"
               ELSE reason
    IN voice_finish_stream([CaptureOver(s) EXCEPT !.waiting_idle = FALSE],
                           why, why \notin Drains)

\* rbp_server_on_voice_state for a changed state.
rbp_server_on_voice_state(s, state) ==
    LET t == [s EXCEPT !.voice_state = state,
                       !.voice_enabled = s.voice_enabled /\ state = "READY"]
        u == IF state = "READY" /\ s.session # 0 /\ s.peer /\ s.resume
                /\ ~s.reconnect_paused /\ s.accepted
             THEN [t EXCEPT !.voice_enabled = TRUE, !.waiting_idle = s.source_active]
             ELSE t
    IN send_device_state(u)

-----------------------------------------------------------------------------
\* What rbp_server_on_link does when the remote was in use: the stream ends, the
\* keys are released and their events stop.
LeaveReady(s) ==
    [OnKeysReset(voice_finish_stream(s, "LINK_LOST", TRUE)) EXCEPT !.events_enabled = FALSE]

LinkChanged(s, state, fresh) ==
    [s EXCEPT !.link = state,
              !.conn = IF fresh THEN s.conn_counter + 1 ELSE @,
              !.conn_counter = IF fresh THEN @ + 1 ELSE @,
              !.input_seq = IF fresh THEN 0 ELSE @,
              !.pressed = IF fresh THEN {} ELSE @]

LinkSettled(s) == send_device_state(IF s.link \in LinkDown THEN LinkLostFields(s) ELSE s)

LinkMoved(s, was) ==
    LinkSettled(IF was = "READY" /\ s.link # "READY" THEN LeaveReady(s) ELSE s)

\* rbp_server_on_link.  READY is held back while a pairing is being committed.
rbp_server_on_link(s, reported) ==
    LET hold == reported = "READY" /\ s.op_active /\ s.op_kind = "PAIR"
        state == IF hold THEN "INITIALIZING" ELSE reported
        t == [s EXCEPT !.pair_ready_pending = hold \/ (@ /\ state \notin LinkDown)]
    IN LinkMoved(LinkChanged(t, state, s.conn = 0 /\ state \in LinkUp), s.link)

-----------------------------------------------------------------------------
\* Operations: pairing and forgetting.

\* Mutant of op_complete: the event carries the session the operation began in.
OpCompleteOldSession(s, op, result) ==
    LET t == [s EXCEPT !.ops_done = <<[id |-> op.op_id, result |-> result]>>]
    IN ctl_enqueue(t, [Control(t, "OPERATION", op.op_id, result) EXCEPT
                         !.session = op.op_session] @@ [of |-> op.op_session])

\* op_complete for the operation op was about: the last OpsCap results stay
\* available to GET_OPERATION.
op_complete(s, op, result) ==
    LET done == Append(s.ops_done, [id |-> op.op_id, result |-> result])
        kept == IF Len(done) > OpsCap THEN Tail(done) ELSE done
    IN ctl_enqueue([s EXCEPT !.ops_done = kept],
                   Control(s, "OPERATION", op.op_id, result) @@ [of |-> op.op_session])

\* An operation of this kind, if there is one, is over.
OpEnds(s, kind, result) ==
    IF s.op_active /\ s.op_kind = kind THEN op_complete(OpOver(s), s, result) ELSE s

op_begin(s, kind, id) ==
    [s EXCEPT !.op_active = TRUE, !.op_kind = kind, !.op_id = id,
              !.op_session = s.session, !.pair_cancel_requested = FALSE,
              !.pair_ready_pending = FALSE]

\* The state of the link once the pairing is over; ready: READY was held back.
PairOver(s, saved, ready) ==
    IF saved /\ ~ready /\ s.link = "READY" THEN send_device_state(s)
    ELSE rbp_server_on_link(s, CASE ~saved -> "ERROR"
                                 [] saved /\ ready -> "READY"
                                 [] saved /\ ~ready -> "INITIALIZING")

\* rbp_server_on_pair_done; saved: the peer was committed and stored.
rbp_server_on_pair_done(s, saved) ==
    LET t == [s EXCEPT !.pair_ready_pending = FALSE, !.prompt_active = FALSE,
                       !.pair_pending = FALSE, !.peer = @ \/ saved,
                       !.reconnect_paused = @ /\ ~saved]
    IN PairOver(OpEnds(t, "PAIR", IF saved THEN "PAIRED" ELSE "FAILED"),
                saved, s.pair_ready_pending)

\* request_pair_cancel with the callback of rb_pair_cancel.
request_pair_cancel(s) ==
    LET t == [s EXCEPT !.pair_cancel_requested = TRUE, !.prompt_active = FALSE]
    IN IF s.pair_cancel_requested THEN s
       ELSE IF s.pair_pending THEN rbp_server_on_pair_done(t, FALSE) ELSE t

rbp_server_on_pair_prompt(s) ==
    IF ~s.op_active \/ s.op_kind # "PAIR" \/ s.pair_cancel_requested THEN s
    ELSE ctl_enqueue([s EXCEPT !.prompt_active = TRUE],
                     Control(s, "PAIR_PROMPT", s.op_id, "OK"))

\* rbp_server_on_forget_done; cleared: no peer is stored any more.
rbp_server_on_forget_done(s, cleared) ==
    IF cleared
    THEN OpEnds(rbp_server_on_link([s EXCEPT !.peer = FALSE], "UNBOUND"), "FORGET", "FORGOTTEN")
    ELSE send_device_state(OpEnds(s, "FORGET", "FAILED"))

\* Mutant of rbp_server_on_scan_done: the client is not told.
ScanDoneSilent(s) == IF s.find = "ACTIVE" THEN [s EXCEPT !.find = "VALID"] ELSE s

rbp_server_on_scan_done(s) ==
    IF s.find # "ACTIVE" THEN s
    ELSE ctl_enqueue([s EXCEPT !.find = "VALID"], Control(s, "FIND_DONE", 0, "OK"))

\* rbp_server_on_usb_gone.
rbp_server_on_usb_gone(s) == [session_teardown(s) EXCEPT !.ring = <<>>, !.pending = <<>>]

=============================================================================
