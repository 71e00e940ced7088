----------------------------- MODULE VoiceSource -----------------------------
(***************************************************************************)
(* What the two capture engines of the adapter share: the world a callback *)
(* runs in, the two ways to stop a microphone, and the slice of the        *)
(* product server that rbp_server_on_voice and the voice deadlines touch.  *)
(*                                                                         *)
(* A handler of the firmware runs to its end on one thread and calls back  *)
(* and forth (the engine reports a fault, the server asks for a stop, the  *)
(* engine writes MIC_CLOSE), so it is a function from world to world:      *)
(*   e     the engine: rc003_atvv_t, or the unicom part of the adapter;    *)
(*   v     the voice fields of rbp_server_t;                               *)
(*   link  "attach" (the adapter is not ready for voice yet), "ready",      *)
(*         "closing" (rb_disconnect was called) or "down";                 *)
(*   tx    the commands accepted by the stack, not yet with the remote;    *)
(*   ok    how the stack takes a write of this step: ok, retry or reject;  *)
(*   room  whether the server's media queue has room in this step;         *)
(*   obs   what an observer of rbp_server_on_voice has seen: the state of  *)
(*         the capture, the last unit, whether one was missing or foreign. *)
(***************************************************************************)
EXTENDS Naturals, Sequences

CONSTANT MaxTx      \* commands the stack holds before it refuses one

ASSUME MaxTxAssumption == MaxTx \in Nat \ {0}

None == [cap |-> 0, n |-> 0]

-----------------------------------------------------------------------------
\* The engines as the adapter's start on a link leaves them.
Atvv(interaction, seeded) ==
    [kind |-> "atvv", interaction |-> interaction, seeded |-> seeded,
     stream |-> FALSE, id |-> 0, failed |-> FALSE, closing |-> FALSE,
     open_pending |-> FALSE, open_queued |-> FALSE, close_queued |-> FALSE,
     decoder |-> FALSE, announced |-> FALSE, down |-> FALSE, search |-> FALSE]

Unicom ==
    [kind |-> "unicom", active |-> FALSE, started |-> FALSE, closing |-> FALSE,
     announced |-> FALSE, down |-> FALSE, pending |-> FALSE, command |-> "none",
     in_flight |-> "none", part |-> 0, sequence |-> 0, previous |-> 0, previous_valid |-> FALSE,
     preroll |-> <<>>, owner |-> 0]

\* rc003_adapter_detach: stream, held keys and procedures do not survive a link.
rc003_adapter_detach(e) ==
    IF e.kind = "atvv" THEN Atvv(e.interaction, e.seeded) ELSE Unicom

-----------------------------------------------------------------------------
\* atvv_write_tx: an unacknowledged write the stack takes or does not take.
Accepts(w) == w.ok = "ok" /\ Len(w.tx) < MaxTx

Sent(w, command, id) == [w EXCEPT !.tx = Append(@, [c |-> command, id |-> id])]

rc003_atvv_request_stop(w) ==
    CASE w.e.open_pending /\ ~ w.e.stream ->
            IF w.e.open_queued THEN [w EXCEPT !.e.open_queued = FALSE, !.e.open_pending = FALSE]
            ELSE [w EXCEPT !.e.closing = TRUE]
      [] ~ w.e.stream \/ w.e.closing -> w
      [] Accepts(w) ->
            [Sent(w, "CLOSE", w.e.id) EXCEPT !.e.closing = TRUE, !.e.close_queued = FALSE]
      [] OTHER -> [w EXCEPT !.e.close_queued = TRUE]

\* Mutant of unicom_stop: FB=00 is not queued.
unicom_stopUnsent(w) ==
    IF ~ w.e.active \/ w.e.closing THEN w
    ELSE [w EXCEPT !.e.closing = TRUE, !.e.preroll = IF w.e.announced THEN @ ELSE <<>>]

unicom_stop(w) ==
    IF ~ w.e.active \/ w.e.closing THEN w
    ELSE [w EXCEPT !.e.closing = TRUE, !.e.command = "off",
                   !.e.preroll = IF w.e.announced THEN @ ELSE <<>>]

rc003_adapter_mic_stop(w) ==
    IF w.e.kind = "atvv" THEN rc003_atvv_request_stop(w) ELSE unicom_stop(w)

-----------------------------------------------------------------------------
\* rbp_server_voice_wanted and rbp_server_voice_capture_session.
Wanted(v) == v.session # 0 /\ v.enabled /\ ~ v.waiting

CaptureSession(v) ==
    IF ~ v.denied /\ ~ v.waiting /\ v.state # "FAILED" THEN v.session ELSE 0

\* An event of the engine, as the observer sees it.
Seen(w, from, to) ==
    [w EXCEPT !.obs.mic = IF w.link = "ready" /\ @ \in from THEN to ELSE "ERROR"]

StopSource(w) == rc003_adapter_mic_stop([w EXCEPT !.v.stop = TRUE])

voice_fault(w) ==
    LET told == [w EXCEPT !.v.delivering = FALSE]
        stopped == IF w.v.source /\ ~ w.v.stop THEN StopSource(told) ELSE told
    IN  IF w.v.delivering THEN stopped
        ELSE [stopped EXCEPT !.v.enabled = FALSE, !.v.resume = FALSE, !.v.state = "FAILED"]

\* rbp_server_on_voice, by event.
OnBegin(w) ==
    [Seen(w, {"IDLE"}, "BEGUN") EXCEPT
        !.v.source = TRUE, !.v.stop = FALSE, !.v.got = FALSE, !.obs.last = None]

OnStart(w) ==
    LET seen == Seen(w, {"BEGUN"}, "STARTED")
    IN  CASE ~ w.v.source -> voice_fault(seen)
          [] w.v.source /\ ~ Wanted(w.v) -> StopSource(seen)
          [] OTHER -> IF w.room THEN [seen EXCEPT !.v.delivering = TRUE]
                      ELSE voice_fault([seen EXCEPT !.v.delivering = FALSE])

OnFormat(w) ==
    LET seen == Seen(w, {"STARTED"}, "STARTED")
    IN  IF w.v.delivering /\ ~ w.room THEN voice_fault(seen) ELSE seen

\* A unit follows the one before it, and goes to the session whose press opened the
\* microphone, or to nobody.
OnEncoded(w, unit, owner) ==
    LET seen == [Seen(w, {"STARTED"}, "STARTED") EXCEPT
                    !.v.got = @ \/ w.v.source, !.obs.last = unit,
                    !.obs.gap = @ \/ (w.obs.last # None /\ unit.cap # 0
                                      /\ unit # [w.obs.last EXCEPT !.n = @ + 1]),
                    !.obs.foreign = @ \/ (w.v.delivering /\ owner # w.v.session)]
    IN  IF w.v.source /\ w.v.delivering /\ ~ w.room THEN voice_fault(seen) ELSE seen

OnFault(w) == voice_fault(Seen(w, {"BEGUN", "STARTED"}, "FAILED"))

OnEnd(w) ==
    [Seen(w, {"BEGUN", "STARTED", "FAILED"}, "IDLE") EXCEPT
        !.v.source = FALSE, !.v.waiting = FALSE, !.v.delivering = FALSE]

-----------------------------------------------------------------------------
\* rbp_server_on_link with a link that is gone, and with one that has become ready
\* (rbp_server_on_voice_state resumes what this session had negotiated).
LinkGone(v) ==
    [v EXCEPT !.source = FALSE, !.stop = FALSE, !.waiting = FALSE, !.enabled = FALSE,
              !.state = "ABSENT", !.delivering = FALSE]

VoiceReady(v) == [v EXCEPT !.state = "READY", !.enabled = v.resume]

\* rb_disconnect on an established link: the adapter is detached within the call.
rb_disconnect(w) == [w EXCEPT !.link = "closing", !.e = rc003_adapter_detach(@)]

\* fail_transport and fail_initialization of an adapter that is ready.
rbp_server_adapter_failed(w) == rb_disconnect([w EXCEPT !.v = LinkGone(@)])

\* Mutant of Deadlines: no deadline once a stop has been asked for.
DeadlinesUntilStop(v) ==
    IF ~ v.source \/ v.stop THEN {} ELSE {"capture", IF v.got THEN "progress" ELSE "first"}

\* rbp_server_tick: the deadline of a source, by what has run out.
Deadlines(v) ==
    IF ~ v.source THEN {}
    ELSE IF v.stop THEN {"stop"}
    ELSE {"capture", IF v.got THEN "progress" ELSE "first"}

Overdue(w, what) ==
    CASE what = "stop" ->
            rb_disconnect([w EXCEPT !.v.enabled = FALSE, !.v.state = "FAILED",
                                    !.v.delivering = FALSE])
      [] what = "capture" -> StopSource(w)
      [] what = "first" -> voice_fault(w)
      [] what = "progress" -> StopSource([w EXCEPT !.v.delivering = FALSE])
=============================================================================
