---------------------------- MODULE VoiceCapture ----------------------------
(***************************************************************************)
(* A microphone from the button to the product server: the remote, the     *)
(* link, one of the two capture engines and the voice part of the server,  *)
(* with a host that opens and closes sessions and allows and refuses       *)
(* voice.  The remote is external: what it does with a command and which   *)
(* messages it sends is taken from what the adapter expects of it.         *)
(***************************************************************************)
EXTENDS AtvvEngine, UnicomEngine

CONSTANTS
    MaxUp,      \* notifications on their way to the board
    Setups      \* a remote, and how often each thing outside the firmware may happen

VARIABLES
    e, v, link, tx, obs,    \* the world of VoiceSource.tla between two handlers
    up,                     \* notifications on their way to the board
    r,                      \* the remote
    left                    \* what is left of the budget

vars == <<e, v, link, tx, obs, up, r, left>>

World(ok, room) ==
    [e |-> e, v |-> v, link |-> link, tx |-> tx, obs |-> obs, ok |-> ok, room |-> room]

Ends(w) == e' = w.e /\ v' = w.v /\ link' = w.link /\ tx' = w.tx /\ obs' = w.obs

Spent(what) == left[what] > 0 /\ left' = [left EXCEPT ![what] = @ - 1]

\* A step in which the stack takes every write and the queue has room, or one in which not.
Faulty(W(_, _)) ==
    \/ UNCHANGED left /\ Ends(W("ok", TRUE))
    \/ /\ Spent("fault")
       /\ \E ok \in {"ok", "retry", "reject"}, room \in BOOLEAN :
             /\ ok # "ok" \/ ~ room
             /\ ok = "reject" => e.kind = "unicom"
             /\ W(ok, room) # [W("ok", TRUE) EXCEPT !.ok = ok, !.room = room]
             /\ Ends(W(ok, room))

Init ==
    /\ \E s \in Setups :
          /\ e = s.engine /\ left = s.left
          /\ v = [session |-> s.sessions, sessions |-> s.sessions, enabled |-> s.enabled,
                  denied |-> FALSE, waiting |-> FALSE, resume |-> s.enabled, source |-> FALSE,
                  stop |-> FALSE, got |-> FALSE, delivering |-> FALSE, state |-> "READY"]
    /\ link = "ready" /\ tx = <<>> /\ up = <<>>
    /\ obs = [mic |-> "IDLE", last |-> None, gap |-> FALSE, foreign |-> FALSE, press |-> 0]
    /\ r = [held |-> FALSE, on |-> "none", id |-> 0, natives |-> 0, unit |-> None, part |-> 0]

-----------------------------------------------------------------------------
\* The board: a notification, a tick of the adapter, a deadline of the server.
Heard(w, msg) == IF e.kind = "atvv" THEN AtvvHears(w, msg) ELSE UnicomHears(w, msg)

Hear ==
    /\ link \in {"attach", "ready"} /\ up # <<>>
    /\ up' = Tail(up) /\ UNCHANGED r
    /\ Faulty(LAMBDA ok, room : Heard(World(ok, room), Head(up)))

Ticked(w, due) == IF e.kind = "atvv" THEN AtvvTick(w, due) ELSE UnicomTick(w, due)

Dues == IF e.kind = "atvv" THEN AtvvDues(e) ELSE UnicomDues(e)

TickOf(due) ==
    /\ link = "ready" /\ UNCHANGED <<up, r>>
    /\ Faulty(LAMBDA ok, room : Ticked(World(ok, room), due))

rc003_adapter_tick == TickOf("none")

TickDue == \E due \in Dues : TickOf(due)

rbp_server_tick ==
    /\ link = "ready" /\ UNCHANGED <<up, r>>
    /\ \E what \in Deadlines(v) : Faulty(LAMBDA ok, room : Overdue(World(ok, room), what))

-----------------------------------------------------------------------------
\* The host: VOICE_ENABLE, VOICE_STOP, HELLO, and a session that ends.
Enable ==
    /\ v.session # 0 /\ link = "ready" /\ v.state = "READY"
    /\ ~ v.enabled \/ v.denied
    /\ v' = [v EXCEPT !.denied = FALSE, !.resume = TRUE, !.enabled = TRUE,
                      !.waiting = IF v.enabled THEN @ ELSE v.source]
    /\ Spent("host")
    /\ UNCHANGED <<e, link, tx, obs, up, r>>

\* The source is stopped without the server's own stop request.
Disabled(w) ==
    LET off == [w EXCEPT !.v.denied = TRUE, !.v.resume = FALSE, !.v.enabled = FALSE,
                         !.v.waiting = FALSE, !.v.delivering = FALSE]
    IN  IF w.v.enabled \/ (w.v.source /\ ~ w.v.delivering) THEN rc003_adapter_mic_stop(off) ELSE off

session_teardown(w) ==
    LET off == [w EXCEPT !.v.session = 0, !.v.delivering = FALSE, !.v.resume = FALSE,
                         !.v.enabled = FALSE, !.v.denied = FALSE, !.v.waiting = FALSE,
                         !.v.stop = w.v.source]
    IN  IF (w.v.source \/ w.v.enabled) /\ ~ w.v.stop THEN rc003_adapter_mic_stop(off) ELSE off

session_create(w) ==
    [session_teardown(w) EXCEPT !.v.sessions = @ + 1, !.v.session = w.v.sessions + 1]

\* A request of the host meets the stack in good order, or refusing the write.
Asked(W(_)) == \E ok \in {"ok", "retry"} : Ends(W(World(ok, TRUE)))

Disable ==
    /\ v.session # 0 /\ ~ v.denied
    /\ Asked(Disabled) /\ Spent("host") /\ UNCHANGED <<up, r>>

VoiceStop ==
    /\ v.session # 0 /\ link = "ready" /\ v.delivering /\ ~ v.stop
    /\ Asked(StopSource) /\ Spent("host") /\ UNCHANGED <<up, r>>

Hello ==
    /\ Asked(session_create) /\ Spent("session") /\ UNCHANGED <<up, r>>

Leave ==
    /\ v.session # 0
    /\ Asked(session_teardown) /\ Spent("host") /\ UNCHANGED <<up, r>>

-----------------------------------------------------------------------------
\* The remote.
Msg(m, x) == [m |-> m, x |-> x, id |-> 0, unit |-> None, part |-> 0]

Says(msgs) == up' = up \o msgs /\ Len(up) + Len(msgs) <= MaxUp

Native == [r EXCEPT !.on = "native", !.natives = (@ + 1) % 2, !.id = r.natives + 1]
Started(id) == <<[Msg("START", "good") EXCEPT !.id = id]>>
Stopped == <<Msg("STOP", "good")>>
Off(s) == [s EXCEPT !.on = "none"]

\* What a press and a release say, and what they do to the microphone.
Pressed ==
    LET key == <<Msg("KEY", "down")>>
        started == Started(r.natives + 1)
        searches == link = "attach" \/ e.interaction = "REQUEST"
    IN  IF e.kind = "unicom" THEN {<<<<Msg("F8", "down")>>, r>>}
        ELSE IF searches THEN {<<key, r>>, <<key \o <<Msg("SEARCH", "good")>>, r>>}
        ELSE IF r.on = "none" THEN {<<key \o started, Native>>, <<started \o key, Native>>}
        ELSE IF e.interaction = "PTT" THEN {<<key \o Stopped, Off(r)>>} ELSE {<<key, r>>}

Released ==
    LET key(x) == <<Msg("KEY", x)>>
    IN  IF e.kind = "unicom" THEN {<<<<Msg("F8", "up")>>, r>>}
        ELSE IF link = "attach" \/ (e.interaction = "HTT" /\ r.on = "native")
        THEN {<<key("up") \o Stopped, Off(r)>>, <<Stopped \o key("up"), Off(r)>>}
        ELSE {<<key("up"), r>>, <<key("bad"), r>>}

Press ==
    /\ link \in {"attach", "ready"} /\ ~ r.held
    /\ \E p \in Pressed : Says(p[1]) /\ r' = [p[2] EXCEPT !.held = TRUE]
    /\ Spent("press")
    /\ UNCHANGED <<e, v, link, tx, obs>>

Release ==
    /\ link \in {"attach", "ready"} /\ r.held
    /\ \E p \in Released : Says(p[1]) /\ r' = [p[2] EXCEPT !.held = FALSE]
    /\ UNCHANGED <<e, v, link, tx, obs, left>>

\* What it makes of a command: the state it takes and what it answers.
Opened == [r EXCEPT !.on = "request", !.id = 0, !.part = 0, !.unit = [cap |-> r.unit.cap + 1, n |-> 1]]

Answers(c) ==
    CASE c.c = "OPEN" /\ r.on = "none" ->
            {<<Started(0), Opened>>, <<<<Msg("ERROR", "busy")>>, r>>, <<<<Msg("ERROR", "bad")>>, r>>}
      [] c.c = "OPEN" /\ r.on # "none" -> {<<<<Msg("ERROR", "busy")>>, r>>}
      [] c.c = "CLOSE" /\ r.on # "none" /\ c.id = r.id -> {<<Stopped, Off(r)>>}
      [] c.c = "on" -> {<<<<Msg("DONE", "good")>>, IF r.on = "none" THEN Opened ELSE r>>,
                        <<<<Msg("DONE", "bad")>>, r>>}
      [] c.c = "off" -> {<<<<Msg("DONE", "good")>>, Off(r)>>, <<<<Msg("DONE", "bad")>>, r>>}
      [] OTHER -> {<<<<>>, r>>}

Refusal(a) == a[1] # <<>> /\ (a[1][1].x = "bad" \/ (a[1][1].x = "busy" /\ r.on = "none"))

Obey ==
    /\ tx # <<>> /\ link = "ready"
    /\ \/ \E a \in Answers(Head(tx)) :
             /\ Says(a[1]) /\ r' = a[2]
             /\ IF Refusal(a) THEN Spent("glitch") ELSE UNCHANGED left
       \/ Spent("glitch") /\ UNCHANGED <<up, r>>
    /\ tx' = Tail(tx)
    /\ UNCHANGED <<e, v, link, obs>>

\* It sends audio: in order, or with something missing or malformed.
Audio(x) ==
    IF e.kind = "atvv" THEN {Msg("SYNC", x), Msg("AUDIO", x)}
    ELSE {[Msg("FC", x) EXCEPT !.unit = r.unit, !.part = r.part]}

Played ==
    IF e.kind = "atvv" THEN r
    ELSE IF r.part < LastPart THEN [r EXCEPT !.part = @ + 1]
    ELSE [r EXCEPT !.part = 0, !.unit.n = @ + 1]

Play ==
    /\ link = "ready" /\ r.on # "none" /\ left.audio > 0
    /\ \/ \E m \in Audio("good") : Says(<<m>>) /\ left' = [left EXCEPT !.audio = @ - 1]
       \/ \E x \in {"bad", "gap"} : \E m \in Audio(x) :
             /\ Says(<<m>>) /\ left.glitch > 0
             /\ left' = [left EXCEPT !.audio = @ - 1, !.glitch = @ - 1]
       \/ e.kind = "unicom" /\ Spent("glitch") /\ UNCHANGED up
    /\ r' = Played
    /\ UNCHANGED <<e, v, link, tx, obs>>

GiveUp ==
    /\ link = "ready" /\ e.kind = "atvv" /\ r.on # "none"
    /\ Says(Stopped) /\ r' = Off(r) /\ Spent("glitch")
    /\ UNCHANGED <<e, v, link, tx, obs>>

-----------------------------------------------------------------------------
\* GAP_LINK_TERMINATED_EVENT, asked for or not, and the next attachment.
Terminate ==
    /\ link' = "down" /\ e' = rc003_adapter_detach(e) /\ v' = LinkGone(v)
    /\ tx' = <<>> /\ up' = <<>> /\ obs' = [obs EXCEPT !.mic = "IDLE"]
    /\ r' = Off(r)

Terminated == link = "closing" /\ Terminate /\ UNCHANGED left

Dropped == link \in {"attach", "ready"} /\ Terminate /\ Spent("link")

Reconnect ==
    /\ link = "down" /\ Spent("link") /\ link' = "attach"
    /\ UNCHANGED <<e, v, tx, obs, up, r>>

\* finish_voice_ready or unicom_ready: the link is ready, and a press before it counts.
Readied(w) ==
    LET ready == [w EXCEPT !.link = "ready", !.v = VoiceReady(@)]
    IN  IF e.kind = "atvv" THEN finish_voice_ready(ready) ELSE ready

Attached ==
    /\ link = "attach"
    /\ Faulty(LAMBDA ok, room : Readied(World(ok, room)))
    /\ UNCHANGED <<up, r>>

-----------------------------------------------------------------------------
Next ==
    \/ Hear \/ rc003_adapter_tick \/ TickDue \/ rbp_server_tick
    \/ Enable \/ Disable \/ VoiceStop \/ Hello \/ Leave
    \/ Press \/ Release \/ Obey \/ Play \/ GiveUp
    \/ Terminated \/ Dropped \/ Reconnect \/ Attached

\* The main loop goes round, so notifications are heard, the adapter gets its turn and
\* clocks run out; the remote takes what the link delivers to it; a link that was closed is
\* reported as closed.  Weak fairness of the board's steps, with the condition under which
\* each of them changes something written out.
Turns == LET w == World("ok", TRUE) IN link = "ready" /\ Ticked(w, "none") # w

HearRuns == <>[](link \in {"attach", "ready"} /\ up # <<>>) => []<><<Hear>>_vars
TickRuns == <>[]Turns => []<><<rc003_adapter_tick>>_vars
ClocksRun == <>[](link = "ready" /\ Dues \ {"extend", "refresh"} # {}) => []<><<TickDue>>_vars
ServerRuns == <>[](link = "ready" /\ Deadlines(v) # {}) => []<><<rbp_server_tick>>_vars

Spec ==
    /\ Init /\ [][Next]_vars
    /\ HearRuns /\ TickRuns /\ ClocksRun /\ ServerRuns
    /\ WF_vars(Obey) /\ WF_vars(Terminated)

-----------------------------------------------------------------------------
\* The engine's flags have their types; a command is outstanding at most once, the
\* preroll never exceeds its eight units, and a capture belongs to a session that exists.
TypeOK ==
    /\ link \in {"attach", "ready", "closing", "down"}
    /\ v.session \in 0..v.sessions
    /\ obs.mic \in {"IDLE", "BEGUN", "STARTED", "FAILED", "ERROR"}
    /\ Len(tx) <= MaxTx /\ Len(up) <= MaxUp
    /\ e.kind = "unicom" => Len(e.preroll) <= PreMax /\ e.part \in 0..LastPart /\ e.owner <= v.sessions

\* What reaches rbp_server_on_voice is always a capture in order: it begins once, starts
\* once, only then carries formats and units, carries nothing after a fault, ends once, and
\* says nothing at all after rb_disconnect.  VoiceDelivery.tla takes its source to be so.
CaptureInOrder == obs.mic # "ERROR"

\* The server's idea of a source is the engine's: with the link up, source_active holds
\* exactly while the engine has a stream it has announced.
SourceIsStream ==
    link = "ready" => (v.source <=> IF e.kind = "atvv" THEN e.stream ELSE e.announced)

\* Within a capture the units of a Unicom remote reach the server one after the other, none
\* missing, doubled or overtaken, whether they waited in the preroll or not.
UnitsInOrder == ~ obs.gap

\* No unit reaches the host of another session than the one in which the voice key was
\* pressed: a session change while units wait in the preroll discards them.
UnitsAreTheirs == ~ obs.foreign

\* When nothing is under way between them, the board and the remote agree whether the
\* microphone is open and which stream it is: no open microphone the board has forgotten.
Quiet ==
    /\ link = "ready" /\ tx = <<>> /\ up = <<>>
    /\ e.kind = "unicom" => e.command = "none" /\ e.in_flight = "none"

MicrophoneAgreed ==
    Quiet =>
        IF e.kind = "atvv" THEN (e.stream <=> r.on # "none") /\ (e.stream => e.id = r.id)
        ELSE r.on # "none" => e.active

\* A microphone the board asked for (MIC_OPEN) begins a capture only while the request is
\* pending: one that timed out, was refused or was withdrawn before it was sent never does.
\* (Not so for a remote that also starts by itself while its button is held: there a
\* MIC_OPEN can reach it after the stream of that press has come and gone.)
NoGhostCapture ==
    [][(e.kind = "atvv" /\ e.interaction # "HTT" /\ ~ e.stream /\ e'.stream /\ e'.id = 0)
          => e.open_pending]_vars

\* A capture that has reached the server and that no session wants is being closed: the
\* close is sent, or queued for the next tick.  (With a remote that starts by itself the
\* BUSY that answers a crossing MIC_OPEN makes the engine forget that it has sent one.)
UnwantedIsClosing ==
    (link = "ready" /\ obs.mic = "STARTED" /\ ~ Wanted(v)) =>
        IF e.kind = "atvv" THEN e.closing \/ e.close_queued \/ e.interaction = "HTT"
        ELSE e.closing

\* rc003_atvv.c, unicom_runtime.inc: engine and server have one idea of the
\* capture: its events come in order, it is a source for the one while it is a stream for
\* the other, and it is being closed when unwanted.
CaptureInv == TypeOK /\ CaptureInOrder /\ SourceIsStream /\ UnwantedIsClosing

\* Whoever opened it and whatever is lost, a microphone does not stay open for ever.
MicrophoneCloses == []<>(r.on = "none")

\* A stop the server has asked for ends the source, at the latest with the link.
StopsEnd == (v.source /\ v.stop) ~> ~ v.source

\* A MIC_OPEN is answered, withdrawn or given up with the link.
OpensEnd == (e.kind = "atvv" /\ e.open_pending) ~> ~ (e.kind = "atvv" /\ e.open_pending)

\* rc003_atvv_tick, unicom_tick: nothing about a microphone lasts for ever: neither that it is open,
\* nor a request to open or to close it.
CapturesEnd == MicrophoneCloses /\ StopsEnd /\ OpensEnd
=============================================================================
