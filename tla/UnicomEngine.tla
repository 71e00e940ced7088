----------------------------- MODULE UnicomEngine -----------------------------
(***************************************************************************)
(* unicom_runtime.inc: the capture of a Unicom remote.  The voice key (F8) *)
(* opens the microphone through the report FB, one acknowledged write at a *)
(* time; the audio comes in groups of notifications (FC), is joined to     *)
(* units, and the units wait in a preroll until the host has negotiated.   *)
(***************************************************************************)
EXTENDS VoiceSource

CONSTANTS
    LastPart,   \* number of the last part of a group (2 in the code)
    SeqWrap,     \* group numbers wrap here (2^16 in the code)
    PreMax      \* units the preroll holds (8 in the code)

ASSUME UnicomAssumption ==
    /\ LastPart \in Nat
    /\ SeqWrap \in Nat \ {0, 1}
    /\ PreMax \in Nat \ {0}

unicom_end(w) ==
    LET over == [w EXCEPT !.e.active = FALSE, !.e.started = FALSE, !.e.closing = FALSE,
                          !.e.part = 0, !.e.previous_valid = FALSE, !.e.announced = FALSE,
                          !.e.preroll = <<>>]
    IN  IF w.e.announced THEN OnEnd(over) ELSE over

\* unicom_bad, unicom_stream_fault: they differ in what becomes of the cached database.
unicom_fault(w) == rbp_server_adapter_failed(unicom_end(w))

Announced(w) == OnBegin([w EXCEPT !.e.announced = TRUE])

\* Mutant of unicom_start_pending: the capture belongs to the session that is there when it starts.
StartForWhoever(w) ==
    LET owner == CaptureSession(w.v)
        active == [w EXCEPT !.e.pending = FALSE, !.e.active = TRUE, !.e.started = FALSE,
                            !.e.closing = FALSE, !.e.part = 0, !.e.previous_valid = FALSE,
                            !.e.command = "on", !.e.preroll = <<>>, !.e.announced = FALSE,
                            !.e.owner = owner]
    IN  IF ~ w.e.pending \/ ~ w.e.down \/ w.e.active \/ w.link # "ready" THEN w
        ELSE IF owner = 0 THEN [w EXCEPT !.e.pending = FALSE]
        ELSE IF Wanted(w.v) THEN Announced(active) ELSE active

unicom_start_pending(w) ==
    LET owner == CaptureSession(w.v)
        active == [w EXCEPT !.e.pending = FALSE, !.e.active = TRUE, !.e.started = FALSE,
                            !.e.closing = FALSE, !.e.part = 0, !.e.previous_valid = FALSE,
                            !.e.command = "on", !.e.preroll = <<>>, !.e.announced = FALSE]
    IN  IF ~ w.e.pending \/ ~ w.e.down \/ w.e.active \/ w.link # "ready" THEN w
        ELSE IF owner = 0 \/ owner # w.e.owner THEN [w EXCEPT !.e.pending = FALSE]
        ELSE IF Wanted(w.v) THEN Announced(active) ELSE active

\* unicom_emit: whether it reports the unit, and what it reports.
MayEmit(w) ==
    /\ Wanted(w.v) /\ CaptureSession(w.v) = w.e.owner
    /\ w.e.announced \/ ~ w.e.closing

unicom_emit(w, unit) ==
    LET begun == IF w.e.announced THEN w ELSE Announced(w)
        started == IF begun.e.started THEN begun ELSE OnStart([begun EXCEPT !.e.started = TRUE])
    IN  OnEncoded(started, unit, w.obs.press)

unicom_preroll_cancel(w) == unicom_stop([w EXCEPT !.e.preroll = <<>>])

-----------------------------------------------------------------------------
\* unicom_notify: F8, the voice key.
F8(w, down) ==
    LET edge == down /\ ~ w.e.down
        held == [w EXCEPT !.e.down = down, !.obs.press = IF edge THEN w.v.session ELSE @]
        asked == IF edge /\ ~ w.e.active
                 THEN [held EXCEPT !.e.owner = CaptureSession(w.v),
                                   !.e.pending = CaptureSession(w.v) # 0]
                 ELSE held
    IN  IF down THEN unicom_start_pending(asked)
        ELSE unicom_stop([held EXCEPT !.e.pending = FALSE])

\* unicom_notify: FC, one part of a group; a bad last part fails its trailer.
Continues(e, seq, part) ==
    /\ part = e.part
    /\ part # 0 => seq = e.sequence
    /\ part = 0 /\ e.previous_valid => seq = (e.previous + 1) % SeqWrap

\* Mutant of MayPass: a new unit is reported while older ones wait.
MayOvertake(w) == MayEmit(w)

\* A unit goes straight to the server only when none waits before it.
MayPass(w) == w.e.preroll = <<>> /\ MayEmit(w)

Full(e) == Len(e.preroll) = PreMax

Whole(w, unit) ==
    CASE ~ w.e.announced /\ w.e.closing -> w
      [] (w.e.announced \/ ~ w.e.closing) /\ CaptureSession(w.v) # w.e.owner ->
            unicom_preroll_cancel(w)
      [] OTHER ->
            CASE MayPass(w) -> unicom_emit(w, unit)
              [] w.e.announced /\ ~ Wanted(w.v) -> unicom_stop(w)
              [] OTHER ->
                    IF ~ Full(w.e) THEN [w EXCEPT !.e.preroll = Append(@, unit)]
                    ELSE IF w.e.announced THEN unicom_fault(w) ELSE unicom_preroll_cancel(w)

FC(w, msg) ==
    LET seq == msg.unit.n % SeqWrap
        joined == [w EXCEPT !.e.sequence = IF msg.part = 0 THEN seq ELSE @, !.e.part = @ + 1]
    IN  CASE ~ w.e.active -> w
          [] w.e.active /\ ~ Continues(w.e, seq, msg.part) -> unicom_fault(w)
          [] w.e.active /\ Continues(w.e, seq, msg.part) /\ msg.part # LastPart -> joined
          [] OTHER -> IF msg.x = "bad" THEN unicom_fault(w)
                      ELSE Whole([joined EXCEPT !.e.part = 0, !.e.previous = seq,
                                                !.e.previous_valid = TRUE], msg.unit)

\* A notification, or the answer to the write of FB (rc003_adapter_on_gatt).
UnicomHears(w, msg) ==
    CASE msg.m = "F8" -> F8(w, msg.x = "down")
      [] msg.m = "FC" -> FC(w, msg)
      [] msg.m = "DONE" -> IF msg.x = "bad" THEN unicom_fault(w) ELSE [w EXCEPT !.e.in_flight = "none"]

-----------------------------------------------------------------------------
\* unicom_tick, in the order of the code; due names the clock that has run out.
UnicomDues(e) ==
    (IF e.active /\ ~ e.announced /\ ~ e.closing THEN {"preroll"} ELSE {})
        \cup (IF e.closing /\ e.command # "none" /\ e.in_flight = "none" THEN {"submit"} ELSE {})
        \cup (IF e.in_flight # "none" THEN {"command"} ELSE {})
        \cup (IF e.closing /\ e.command = "none" /\ e.in_flight = "none" THEN {"quiet"} ELSE {})
        \cup (IF e.active /\ ~ e.closing THEN {"audio"} ELSE {})
        \cup (IF e.active /\ ~ e.closing /\ e.started THEN {"refresh"} ELSE {})

Revoked(w) ==
    CaptureSession(w.v) # w.e.owner \/ (w.e.announced /\ ~ Wanted(w.v))

Prerolled(w, due) ==
    LET cancelled == IF Revoked(w) THEN unicom_preroll_cancel(w) ELSE w
        fresh(x) == ~ x.e.announced /\ ~ x.e.closing
        begun == IF fresh(cancelled) /\ Wanted(w.v) THEN Announced(cancelled) ELSE cancelled
        kept == IF fresh(begun) /\ due = "preroll" THEN unicom_preroll_cancel(begun) ELSE begun
    IN  IF kept.e.preroll # <<>> /\ MayEmit(kept)
        THEN [unicom_emit(kept, Head(kept.e.preroll)) EXCEPT !.e.preroll = Tail(kept.e.preroll)]
        ELSE kept

\* The write of FB: refused for now, refused for good, or outstanding.
Submitted(w) ==
    CASE w.e.command = "none" \/ (w.e.command # "none" /\ w.ok = "retry") -> w
      [] w.e.command # "none" /\ w.ok = "reject" -> unicom_fault([w EXCEPT !.e.command = "none"])
      [] OTHER -> [Sent(w, w.e.command, 0) EXCEPT !.e.in_flight = w.e.command, !.e.command = "none"]

Commanded(w, due) ==
    CASE w.e.closing /\ w.e.command # "none" /\ w.e.in_flight = "none" /\ due = "submit" ->
            unicom_fault(w)
      [] w.e.in_flight # "none" -> IF due = "command" THEN unicom_fault(w) ELSE w
      [] w.e.in_flight = "none" /\ w.e.active /\ w.e.closing /\ w.e.command = "none"
            /\ due = "quiet" -> unicom_end(w)
      [] w.e.in_flight = "none" /\ w.e.active /\ ~ w.e.closing /\ due = "audio" -> unicom_fault(w)
      [] OTHER ->
            Submitted([w EXCEPT !.e.command =
                IF w.e.active /\ ~ w.e.closing /\ w.e.started /\ due = "refresh" THEN "on" ELSE @])

UnicomTick(w, due) ==
    LET started == unicom_start_pending(w)
    IN  Commanded(IF started.e.active THEN Prerolled(started, due) ELSE started, due)
=============================================================================
