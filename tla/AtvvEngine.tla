------------------------------ MODULE AtvvEngine ------------------------------
(***************************************************************************)
(* rc003_atvv.c and the part of rc003_adapter.c that drives it: control    *)
(* messages, audio, the voice key of the HID reports and the tick.  The    *)
(* capabilities have been exchanged (Attachment.tla).                      *)
(***************************************************************************)
EXTENDS VoiceSource

\* Mutant of atvv_on_fault: a MIC_OPEN that failed is dropped and the bearer stays in use.
atvv_on_faultKept(w, reason) ==
    IF reason = "DEVICE_ERROR" /\ ~ w.e.stream THEN w ELSE OnFault(w)

\* atvv_on_fault: a device error with no stream retires the bearer.
atvv_on_fault(w, reason) ==
    IF reason = "DEVICE_ERROR" /\ ~ w.e.stream THEN rbp_server_adapter_failed(w) ELSE OnFault(w)

fault(w, reason) ==
    IF w.e.failed THEN w
    ELSE rc003_atvv_request_stop(
            atvv_on_fault([w EXCEPT !.e.failed = TRUE, !.e.decoder = FALSE], reason))

announce_format(w) ==
    IF w.e.announced THEN OnFormat(w) ELSE OnStart([w EXCEPT !.e.announced = TRUE])

rc003_atvv_request_start(w) ==
    IF w.e.stream \/ w.e.open_pending \/ ~ Wanted(w.v) THEN w
    ELSE [(IF Accepts(w) THEN Sent(w, "OPEN", 0) ELSE w) EXCEPT
            !.e.open_queued = ~ Accepts(w), !.e.open_pending = TRUE, !.e.closing = FALSE]

-----------------------------------------------------------------------------
\* rc003_atvv_on_control, by message.
AudioStart(w, id) ==
    IF w.link # "ready" THEN w
    ELSE IF w.e.stream THEN fault(w, "SOURCE_DATA_LOST")
    ELSE LET stop_after_open == w.e.closing /\ w.e.open_pending
             begun == OnBegin([w EXCEPT
                        !.e.stream = TRUE, !.e.id = id, !.e.decoder = FALSE, !.e.failed = FALSE,
                        !.e.closing = FALSE, !.e.open_pending = FALSE, !.e.open_queued = FALSE,
                        !.e.close_queued = FALSE, !.e.announced = FALSE])
             told == IF w.e.seeded THEN announce_format([begun EXCEPT !.e.decoder = TRUE])
                     ELSE begun
         IN  IF stop_after_open THEN rc003_atvv_request_stop(told) ELSE told

AudioSync(w, x) ==
    CASE ~ w.e.stream \/ w.e.failed -> w
      [] w.e.stream /\ ~ w.e.failed /\ x = "bad" -> fault(w, "INVALID_ENCODED_DATA")
      [] w.e.stream /\ ~ w.e.failed /\ x = "gap" -> fault(w, "SOURCE_DATA_LOST")
      [] OTHER -> announce_format([w EXCEPT !.e.decoder = TRUE])

\* Mutant of AudioStop: the end of a failed capture is not reported.
AudioStopUnreported(w) ==
    LET over == [w EXCEPT !.e.stream = FALSE, !.e.decoder = FALSE, !.e.closing = FALSE,
                          !.e.close_queued = FALSE]
    IN  IF ~ w.e.stream \/ w.e.failed THEN over ELSE OnEnd(over)

AudioStop(w) ==
    IF ~ w.e.stream THEN [w EXCEPT !.e.search = @ /\ w.link = "ready"]
    ELSE OnEnd([w EXCEPT !.e.stream = FALSE, !.e.decoder = FALSE, !.e.closing = FALSE,
                         !.e.close_queued = FALSE])

MicOpenError(w, x) ==
    LET over == [w EXCEPT !.e.open_pending = FALSE, !.e.open_queued = FALSE, !.e.closing = FALSE]
    IN  CASE w.e.open_pending /\ ~ w.e.stream ->
                IF x = "busy" THEN [w EXCEPT !.e.open_queued = FALSE]
                ELSE atvv_on_fault([over EXCEPT !.e.open_queued = FALSE], "DEVICE_ERROR")
          [] w.e.stream /\ x # "busy" -> fault(over, "DEVICE_ERROR")
          [] OTHER -> over

\* rc003_atvv_on_audio.
OnAudio(w, x) ==
    CASE ~ w.e.stream \/ w.e.failed -> w
      [] w.e.stream /\ ~ w.e.failed /\ (x = "bad" \/ ~ w.e.decoder) ->
            fault(w, "INVALID_ENCODED_DATA")
      [] OTHER -> OnEncoded(w, None, w.v.session)

\* recompute_keys, as far as the voice key goes; a report that cannot be decoded stops
\* the capture first and then counts as a release.
VoiceKey(w, x) ==
    LET now == x = "down"
        first == IF x = "bad" /\ w.e.down THEN rc003_atvv_request_stop(w) ELSE w
        acted == CASE w.link # "ready" \/ w.e.interaction = "PTT" \/ now = w.e.down -> first
                   [] w.link = "ready" /\ w.e.interaction # "PTT" /\ now /\ ~ w.e.down ->
                        rc003_atvv_request_start(first)
                   [] OTHER -> rc003_atvv_request_stop(first)
    IN  [acted EXCEPT !.e.down = now, !.e.search = @ /\ (now \/ ~ w.e.down)]

\* A search that comes before the capabilities is kept for finish_voice_ready.
StartSearch(w) ==
    IF w.link = "ready" THEN rc003_atvv_request_start(w) ELSE [w EXCEPT !.e.search = TRUE]

finish_voice_ready(w) ==
    IF w.e.search \/ (w.e.interaction # "PTT" /\ w.e.down)
    THEN rc003_atvv_request_start([w EXCEPT !.e.search = FALSE])
    ELSE w

AtvvHears(w, msg) ==
    CASE msg.m = "START" -> AudioStart(w, msg.id)
      [] msg.m = "SYNC" -> AudioSync(w, msg.x)
      [] msg.m = "STOP" -> AudioStop(w)
      [] msg.m = "SEARCH" -> StartSearch(w)
      [] msg.m = "ERROR" -> MicOpenError(w, msg.x)
      [] msg.m = "AUDIO" -> OnAudio(w, msg.x)
      [] msg.m = "KEY" -> VoiceKey(w, msg.x)

-----------------------------------------------------------------------------
\* rc003_atvv_tick and what rc003_adapter_tick does before it.
AtvvDues(e) ==
    (IF e.open_pending \/ e.close_queued THEN {"deadline"} ELSE {})
        \cup (IF e.stream /\ ~ e.closing /\ ~ e.failed THEN {"extend"} ELSE {})

OpenTick(w, due) ==
    IF w.e.open_pending /\ due = "deadline"
    THEN atvv_on_fault([w EXCEPT !.e.open_pending = FALSE, !.e.open_queued = FALSE,
                                 !.e.closing = FALSE], "DEVICE_ERROR")
    ELSE w

SubmitTick(w) ==
    IF w.e.open_queued /\ Accepts(w) THEN [Sent(w, "OPEN", 0) EXCEPT !.e.open_queued = FALSE]
    ELSE w

CloseTick(w, due) ==
    CASE w.e.close_queued ->
            IF due = "deadline" THEN fault([w EXCEPT !.e.close_queued = FALSE], "DEVICE_ERROR")
            ELSE rc003_atvv_request_stop(w)
      [] ~ w.e.close_queued /\ w.e.failed /\ w.e.stream /\ ~ w.e.closing -> rc003_atvv_request_stop(w)
      [] ~ w.e.close_queued /\ ~ w.e.failed /\ w.e.stream /\ ~ w.e.closing ->
            IF due = "extend" /\ Accepts(w) THEN Sent(w, "EXTEND", w.e.id) ELSE w
      [] OTHER -> w

AtvvTick(w, due) ==
    LET revoked == w.e.open_pending /\ ~ Wanted(w.v)
        asked == IF revoked THEN rc003_atvv_request_stop(w) ELSE w
    IN  CloseTick(SubmitTick(OpenTick(asked, due)), due)
=============================================================================
