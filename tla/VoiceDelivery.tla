---------------------------- MODULE VoiceDelivery ----------------------------
(***************************************************************************)
(* Voice from the adapter through the server to the host.                  *)
(*                                                                         *)
(* The server is RbpServer's record.  The adapter (rc003_adapter.c with    *)
(* its ATVV and Unicom engines) is reduced to what it reports: a capture   *)
(* begins, starts, carries encoded units and format changes, faults, ends. *)
(* The host is client.py with the stream validator of audio_wire.py: it    *)
(* rejects whatever breaks the stream grammar, the continuity of the data  *)
(* or the totals of END.                                                   *)
(*                                                                         *)
(* A request is handled in the step that sends it; the host's knowledge    *)
(* lags by the frames it has not read.  Deadlines expire at any tick.      *)
(***************************************************************************)
EXTENDS RbpServer, FiniteSets

CONSTANTS
    MaxSession,   \* bound: HELLO requests
    MaxConn,      \* bound: BLE connections
    MaxEpisodes,  \* bound: HELLO requests and connections together
    MaxChunks,    \* bound: DATA frames of one stream
    MaxEpoch,     \* bound: formats of one stream
    MaxPending,   \* requests the host keeps open at a time
    MaxTimeouts,  \* bound: requests of one session that time out, before the last episode
    Requests,     \* the requests of the instance, besides HELLO
    Timers        \* the deadlines that may pass in the instance

ASSUME VoiceAssumption ==
    /\ {MaxSession, MaxConn, MaxEpisodes, MaxChunks, MaxEpoch, MaxPending} \subseteq Nat \ {0}
    /\ MaxTimeouts \in Nat
    /\ Requests \subseteq {"ENABLE", "DISABLE", "STOP", "DISCONNECT", "CONNECT_PEER",
                           "SET_RECONNECT", "GET_DEVICE"}
    /\ Timers \subseteq {"HEARTBEAT", "STOP", "CAPTURE", "AUDIO"}

VARIABLES
    server,
    mic,      \* the adapter's capture: IDLE, BEGUN, STARTED, FAILED
    host,     \* the client
    intent,   \* observer: the host's last voice command of this session was
              \* an enable, and no DISCONNECT followed it
    wanted    \* observer: voice has been enabled ever since the capture began

vars == <<server, mic, host, intent, wanted>>

NoStream == [id |-> 0, seq |-> 0, unit |-> 0, offset |-> 0, epoch |-> 0]

\* _session_broken.
Broken == [session |-> 0, conn |-> 0, stream |-> NoStream, accepted |-> FALSE,
           before |-> FALSE, ignored |-> FALSE, lapsed |-> FALSE, silent |-> FALSE,
           waiting |-> {}, hello |-> 0, rejected |-> FALSE, timeouts |-> 0]

Request(id, op) == [id |-> id, op |-> op]

-----------------------------------------------------------------------------
\* The host: _handle_frame, _handle_event and AudioStream.

\* _reject_audio.  A client whose VOICE_ENABLE timed out refuses the codecs the
\* board was told it accepts ("lapsed"); any other refusal is the board's fault.
Rejects(h) == [h EXCEPT !.rejected = ~h.lapsed, !.ignored = TRUE, !.stream = NoStream]

\* AudioStream.format.
StreamFormat(h, f) ==
    LET st == h.stream
    IN IF /\ h.accepted /\ f.stream = st.id /\ f.epoch = st.epoch + 1
          /\ st.offset = 0 /\ f.unit = st.unit
       THEN [h EXCEPT !.stream.epoch = f.epoch] ELSE Rejects(h)

\* AudioStream.feed.
StreamFeed(h, f) ==
    LET st == h.stream
        whole == f.offset + 1 = UnitChunks
    IN IF /\ f.stream = st.id /\ f.seq = st.seq + 1 /\ f.epoch = st.epoch
          /\ f.unit = st.unit /\ f.offset = st.offset
       THEN [h EXCEPT !.stream.seq = f.seq,
                      !.stream.offset = IF whole THEN 0 ELSE st.offset + 1,
                      !.stream.unit = IF whole THEN st.unit + 1 ELSE st.unit]
       ELSE Rejects(h)

\* AudioStream.end.
StreamEnd(h, f) ==
    LET st == h.stream
    IN IF /\ f.stream = st.id /\ f.seq = st.seq /\ f.unit = st.unit - 1
          /\ f.epoch = st.epoch /\ (f.reason \in Drains => st.offset = 0)
       THEN [h EXCEPT !.stream = NoStream] ELSE Rejects(h)

HostVoice(h, f) ==
    IF h.conn = 0 \/ f.conn # h.conn THEN [h EXCEPT !.rejected = TRUE]
    ELSE IF h.ignored THEN [h EXCEPT !.ignored = f.op # "END"]
    ELSE IF f.op = "START"
    THEN IF h.stream.id # 0 THEN Rejects(h)
         ELSE StreamFormat([h EXCEPT !.stream = [NoStream EXCEPT !.id = f.stream,
                                                                 !.unit = 1]], f)
    ELSE IF h.stream.id = 0 THEN Rejects(h)
    ELSE CASE f.op = "FORMAT" -> StreamFormat(h, f)
           [] f.op = "DATA" -> StreamFeed(h, f)
           [] f.op = "END" -> StreamEnd(h, f)

\* DEVICE_STATE, and GET_DEVICE's answer.
HostDevice(h, conn) ==
    IF conn = h.conn THEN h
    ELSE [h EXCEPT !.conn = conn, !.stream = NoStream]

\* The answer to an open request; an answer nobody waits for is dropped.  A failed
\* enable restores the codecs accepted before it.
HostAnswer(h, f) ==
    LET r == Request(f.n, f.op)
        t == [h EXCEPT !.waiting = h.waiting \ {r}]
    IN IF r \notin h.waiting THEN h
       ELSE CASE f.op = "DISABLE" /\ f.status = "OK" ->
                   [t EXCEPT !.accepted = FALSE, !.silent = TRUE]
              [] f.op = "ENABLE" /\ f.status = "OK" -> [t EXCEPT !.ignored = FALSE, !.before = FALSE]
              [] f.op = "ENABLE" /\ f.status # "OK" -> [t EXCEPT !.accepted = h.before,
                                                            !.before = FALSE]
              [] OTHER -> t

HostReceive(h, f) ==
    IF h.hello # 0
    THEN IF f.q = "ctl" /\ f.op = "HELLO" /\ f.tx = 1 /\ f.session = h.hello
         THEN [Broken EXCEPT !.session = f.session] ELSE h
    ELSE IF h.session = 0 \/ f.session # h.session THEN h
    ELSE IF f.q = "media" THEN HostVoice(h, f)
    ELSE IF f.op = "DEVICE_STATE" THEN HostDevice(h, f.n)
    ELSE IF f.op = "GET_DEVICE" /\ Request(f.n, f.op) \in h.waiting
    THEN HostDevice(HostAnswer(h, f), f.conn)
    ELSE HostAnswer(h, f)

HostRead ==
    /\ server.ring # <<>>
    /\ host' = HostReceive(host, Head(server.ring))
    /\ server' = [server EXCEPT !.ring = Tail(server.ring)]
    /\ UNCHANGED <<mic, intent>>

\* The heartbeat of the client noticed that its session is gone.
HostGivesUp ==
    /\ host.session # 0 /\ server.session # host.session
    /\ host' = Broken
    /\ UNCHANGED <<server, mic, intent>>

-----------------------------------------------------------------------------
\* Requests.  An id is free when nothing on either side refers to it.

Ids == 1..(MaxPending + CtlSlots + RingCap + 2)

UsedIds ==
    {w.id : w \in host.waiting} \cup {server.ok_deferred}
    \cup {e.n : e \in {x \in Range(server.pending) \cup Range(server.ring) :
                         x.q = "ctl" /\ x.op \notin {"DEVICE_STATE", "HELLO"}}}

FreshId == CHOOSE i \in Ids \ UsedIds : \A j \in Ids \ UsedIds : i <= j

Episode == server.session_counter + server.conn_counter < MaxEpisodes

\* handle_hello.
Hello ==
    /\ server.session_counter < MaxSession /\ Episode
    /\ server' = Respond(session_create(server), "HELLO", 1, "OK")
    /\ host' = [Broken EXCEPT !.hello = server.session_counter + 1]
    /\ intent' = FALSE
    /\ UNCHANGED mic

conn_ready_for(s, conn) == s.link = "READY" /\ conn # 0 /\ conn = s.conn

\* Mutant of VoiceEnableTrue: a capture that is already running is taken over.
VoiceEnableAtOnce(s, id, conn, changed) ==
    LET t == [s EXCEPT !.accepted = TRUE, !.voice_denied = FALSE, !.resume = s.peer,
                       !.voice_enabled = TRUE]
    IN IF ~conn_ready_for(s, conn) \/ s.voice_state # "READY"
       THEN Respond(s, "ENABLE", id, "REFUSED") ELSE Respond(t, "ENABLE", id, "OK")

\* VOICE_ENABLE(true) with a list the board can serve; changed: it is not the list in
\* force, which a stream or a capture still waited for may not lose.
VoiceEnableTrue(s, id, conn, changed) ==
    LET t == [s EXCEPT !.accepted = TRUE, !.voice_denied = FALSE, !.resume = s.peer,
                       !.voice_enabled = TRUE,
                       !.waiting_idle = IF s.voice_enabled THEN @ ELSE s.source_active]
    IN IF ~conn_ready_for(s, conn) THEN Respond(s, "ENABLE", id, "REFUSED")
       ELSE IF changed /\ (s.delivering \/ s.waiting_idle)
       THEN Respond(s, "ENABLE", id, "REFUSED")
       ELSE IF s.voice_state # "READY" THEN Respond(s, "ENABLE", id, "REFUSED")
       ELSE Respond(t, "ENABLE", id, "OK")

\* Mutant of VoiceEnableFalse: the answer goes out ahead of the stream's END.
VoiceDisableAnswersFirst(s, id, conn) ==
    LET t == [s EXCEPT !.accepted = FALSE, !.resume = FALSE, !.voice_denied = TRUE,
                       !.voice_enabled = FALSE, !.waiting_idle = FALSE]
        u == Respond([t EXCEPT !.stop_sent = s.source_active], "DISABLE", id, "OK")
    IN IF conn # 0 /\ conn # s.conn THEN Respond(s, "DISABLE", id, "REFUSED")
       ELSE IF s.delivering THEN voice_finish_stream(u, "CONSUMER_DISABLED", TRUE)
       ELSE u

\* VOICE_ENABLE(false).  With a stream being delivered the answer is deferred.
VoiceEnableFalse(s, id, conn) ==
    LET t == [s EXCEPT !.accepted = FALSE, !.resume = FALSE, !.voice_denied = TRUE,
                       !.voice_enabled = FALSE, !.waiting_idle = FALSE]
        u == voice_finish_stream(t, "CONSUMER_DISABLED", TRUE)
        v == [u EXCEPT !.ok_deferred = id]
    IN IF conn # 0 /\ conn # s.conn THEN Respond(s, "DISABLE", id, "REFUSED")
       ELSE IF s.delivering
       THEN [v EXCEPT !.stop_sent = v.stop_sent \/ (s.voice_enabled /\ s.source_active)]
       ELSE Respond([t EXCEPT !.stop_sent = s.source_active],
                    "DISABLE", id, "OK")

VoiceStop(s, id, conn, stream) ==
    IF ~conn_ready_for(s, conn) THEN Respond(s, "STOP", id, "REFUSED")
    ELSE IF ~s.delivering \/ stream # s.stream THEN Respond(s, "STOP", id, "REFUSED")
    ELSE Respond(IF s.stop_requested THEN s ELSE RequestStop(s), "STOP", id, "OK")

\* Mutant of DisconnectRequest: the intent to resume voice survives.
DisconnectKeepsIntent(s, id) ==
    Respond([s EXCEPT !.reconnect_paused = TRUE,
                      !.disconnecting = s.disconnecting \/ s.link \in LinkUp],
            "DISCONNECT", id, "OK")

\* DISCONNECT revokes the intent to resume voice.
DisconnectRequest(s, id) ==
    LET t == [s EXCEPT !.reconnect_paused = TRUE, !.resume = FALSE,
                       !.disconnecting = s.disconnecting \/ s.link \in LinkUp]
    IN Respond(t, "DISCONNECT", id, "OK")

\* CONNECT_PEER.  With the radio idle rb_connect_peer starts to look for the remote and
\* reports CONNECTING, or its scan is rejected and it reports the loss.
ConnectRequest(s, id, scans) ==
    LET t == rbp_server_on_link([s EXCEPT !.reconnect_paused = FALSE],
                                IF scans THEN "CONNECTING" ELSE "DISCONNECTED")
    IN IF s.link = "READY" THEN Respond(s, "CONNECT_PEER", id, "REFUSED")
       ELSE IF s.link \in LinkUp THEN Respond(s, "CONNECT_PEER", id, "OK")
       ELSE Respond(t, "CONNECT_PEER", id, "OK")

\* SET_RECONNECT; saved: the changed record was stored.
SetReconnectRequest(s, id, enabled, saved) ==
    LET t == [s EXCEPT !.auto = enabled, !.reconnect_paused = @ /\ ~enabled]
    IN IF s.auto # enabled /\ ~saved THEN Respond(s, "SET_RECONNECT", id, "REFUSED")
       ELSE Respond(t, "SET_RECONNECT", id, "OK")

\* GET_DEVICE: "conn" is the connection its payload names.
GetDevice(s, id) ==
    ctl_enqueue(s, [Control(s, "GET_DEVICE", id, "OK") EXCEPT !.conn = s.conn])

\* A request of the host; the server ignores those of another session.
Ask(op, handled) ==
    /\ op \in Requests
    /\ host.session # 0
    /\ Cardinality(host.waiting) < MaxPending
    /\ host' = [host EXCEPT !.waiting = @ \cup {Request(FreshId, op)},
                            !.before = op = "ENABLE" /\ host.accepted,
                            !.accepted = host.accepted \/ op = "ENABLE",
                            !.silent = host.silent /\ op # "ENABLE"]
    /\ server' = IF server.session = host.session THEN handled ELSE server
    /\ mic' = IF server'.disconnecting THEN "IDLE" ELSE mic

Enable ==
    /\ host.conn # 0
    /\ \E changed \in BOOLEAN :
          Ask("ENABLE", VoiceEnableTrue(server, FreshId, host.conn, changed))
    /\ intent' = (intent \/ server'.voice_enabled) /\ server'.session # 0

Disable ==
    /\ Ask("DISABLE", VoiceEnableFalse(server, FreshId, host.conn))
    /\ intent' = (intent /\ (\/ server.session # host.session
                             \/ host.conn # 0 /\ host.conn # server.conn))

Stop ==
    /\ host.stream.id # 0
    /\ Ask("STOP", VoiceStop(server, FreshId, host.conn, host.stream.id))
    /\ UNCHANGED intent

Disconnect ==
    /\ Ask("DISCONNECT", DisconnectRequest(server, FreshId))
    /\ intent' = (intent /\ server.session # host.session)

MayConnect == server.conn_counter < MaxConn /\ Episode

\* The client asks for the link when it believes that there is none.
Connect ==
    /\ host.conn = 0
    /\ \E scans \in {FALSE, MayConnect} :
          Ask("CONNECT_PEER", ConnectRequest(server, FreshId, scans))
    /\ UNCHANGED intent

SetReconnect ==
    /\ \E enabled, saved \in BOOLEAN :
          Ask("SET_RECONNECT", SetReconnectRequest(server, FreshId, enabled, saved))
    /\ UNCHANGED intent

QueryDevice ==
    /\ host.conn = 0
    /\ Ask("GET_DEVICE", GetDevice(server, FreshId))
    /\ UNCHANGED intent

\* A request timed out at the client, which goes on without its answer.
HostTimeout ==
    /\ host.timeouts < MaxTimeouts /\ Episode
    /\ host.waiting # {}
    /\ \E w \in host.waiting :
          host' = [host EXCEPT !.waiting = @ \ {w}, !.timeouts = @ + 1,
                               !.lapsed = @ \/ w.op = "ENABLE", !.before = FALSE,
                               !.accepted = IF w.op = "ENABLE" THEN host.before ELSE @]
    /\ UNCHANGED <<server, mic, intent>>

-----------------------------------------------------------------------------
\* The adapter.  A GATT message is followed by a flush (process() of
\* wch_central.c); an event of rc003_adapter_tick is not.

Reported(s) == server' \in {s, rbp_server_flush_output(s)}

\* The adapter reports only while its link is up.
Attached == server.link = "READY" /\ ~server.disconnecting

SourceBegin ==
    /\ Attached /\ mic = "IDLE" /\ mic' = "BEGUN"
    /\ Reported(OnSourceBegin(server))
    /\ UNCHANGED <<host, intent>>

SourceStart ==
    /\ Attached /\ mic = "BEGUN" /\ mic' = "STARTED"
    /\ \E format \in {"ACCEPTABLE", "FOREIGN"} : Reported(OnStart(server, format))
    /\ UNCHANGED <<host, intent>>

SourceFormat ==
    /\ Attached /\ mic = "STARTED" /\ server.epoch < MaxEpoch
    /\ \E format \in {"ACCEPTABLE", "FOREIGN"} : Reported(OnFormat(server, format))
    /\ UNCHANGED <<mic, host, intent>>

SourceEncoded ==
    /\ Attached /\ mic = "STARTED"
    /\ \E n \in 1..(UnitChunks - server.offset),
          fault \in {"NONE", "UNSUPPORTED_FORMAT", "INVALID_ENCODED_DATA"} :
          /\ server.delivering => server.chunks + n <= MaxChunks
          /\ Reported(OnEncoded(server, n, fault))
    /\ UNCHANGED <<mic, host, intent>>

SourceFault ==
    /\ Attached /\ mic \in {"BEGUN", "STARTED"} /\ mic' = "FAILED"
    /\ Reported(voice_fault(server, "SOURCE_DATA_LOST"))
    /\ UNCHANGED <<host, intent>>

SourceEnd ==
    /\ Attached /\ mic # "IDLE" /\ mic' = "IDLE"
    /\ \E reason \in {"NORMAL", "DEVICE_ERROR"} : Reported(OnSourceEnd(server, reason))
    /\ UNCHANGED <<host, intent>>

\* GAP_LINK_TERMINATED, asked for or not.
LinkTerminated ==
    /\ server.link \in LinkUp
    /\ server' = [rbp_server_on_link(server, "DISCONNECTED") EXCEPT !.disconnecting = FALSE]
    /\ mic' = "IDLE"
    /\ UNCHANGED <<host, intent>>

\* poll: rbp_server_should_reconnect, then rb_connect_peer.
LinkConnecting ==
    /\ server.link \in LinkDown /\ server.auto /\ ~server.reconnect_paused
    /\ MayConnect
    /\ server' = rbp_server_on_link(server, "CONNECTING")
    /\ UNCHANGED <<mic, host, intent>>

\* finish_voice_ready.
LinkReady ==
    /\ server.link = "CONNECTING" /\ ~server.disconnecting
    /\ Reported(rbp_server_on_link(rbp_server_on_voice_state(server, "READY"), "READY"))
    /\ UNCHANGED <<mic, host, intent>>

-----------------------------------------------------------------------------
\* rbp_server_tick: the deadlines that have passed are those in "due", out of the ones that
\* are set when it begins.
Deadlines ==
    {"HEARTBEAT"} \cup IF ~server.source_active THEN {}
                      ELSE IF server.stop_requested THEN {"STOP"} ELSE {"CAPTURE", "AUDIO"}

\* Mutant of TickVoice: the deadline of the stop request is not kept.
TickVoiceWaits(s, due) ==
    IF s.source_active /\ ~s.stop_requested /\ "CAPTURE" \in due
    THEN RequestStop([s EXCEPT !.capture_limited = TRUE]) ELSE s

TickVoice(s, due) ==
    LET failed == voice_finish_stream([s EXCEPT !.voice_enabled = FALSE,
                                                !.voice_state = "FAILED"],
                                      "DEVICE_ERROR", TRUE)
        told == send_device_state(failed)
    IN IF ~s.source_active THEN s
       ELSE IF s.stop_requested
       THEN IF "STOP" \in due THEN [told EXCEPT !.disconnecting = TRUE] ELSE s
       ELSE IF "CAPTURE" \in due THEN RequestStop([s EXCEPT !.capture_limited = TRUE])
       ELSE IF "AUDIO" \notin due THEN s
       ELSE IF ~s.got_audio THEN voice_fault(s, "DEVICE_ERROR")
       ELSE RequestStop(voice_finish_stream(s, "DEVICE_ERROR", TRUE))

\* The deferred answer to VOICE_ENABLE(false).
TickDeferred(s) ==
    IF s.ok_deferred # 0 /\ s.session # 0 /\ ~s.delivering /\ Count(s, "media") = 0
    THEN Respond([s EXCEPT !.ok_deferred = 0], "DISABLE", s.ok_deferred, "OK")
    ELSE s

rbp_server_tick(s, due) ==
    LET t == IF "HEARTBEAT" \in due /\ s.session # 0 THEN session_teardown(s) ELSE s
    IN rbp_server_flush_output(TickDeferred(TickVoice(t, due)))

Tick(due) ==
    /\ server' = rbp_server_tick(server, due)
    /\ mic' = IF server'.disconnecting THEN "IDLE" ELSE mic
    /\ intent' = (intent /\ server'.session # 0)
    /\ UNCHANGED host

\* rbp_server_on_usb_gone: suspend, reset or unplug.
UsbGone ==
    /\ server.session # 0
    /\ server' = rbp_server_on_usb_gone(server)
    /\ host' = Broken
    /\ intent' = FALSE
    /\ UNCHANGED mic

-----------------------------------------------------------------------------
\* A board that is bound and has just started.
Init ==
    /\ server = [ServerInit EXCEPT !.peer = TRUE, !.link = "DISCONNECTED"]
    /\ mic = "IDLE"
    /\ host = Broken
    /\ intent = FALSE /\ wanted = FALSE

Step ==
    \/ Hello \/ HostRead \/ HostGivesUp \/ HostTimeout
    \/ Enable \/ Disable \/ Stop \/ Disconnect \/ Connect \/ SetReconnect \/ QueryDevice
    \/ SourceBegin \/ SourceStart \/ SourceFormat \/ SourceEncoded \/ SourceFault
    \/ SourceEnd \/ LinkTerminated \/ LinkConnecting \/ LinkReady
    \/ \E due \in SUBSET (Timers \cap Deadlines) : Tick(due)
    \/ UsbGone

Observe ==
    wanted' = IF mic = "IDLE" /\ mic' = "BEGUN" THEN server.voice_enabled
              ELSE wanted /\ server'.voice_enabled

Next == Step /\ Observe

Spec == Init /\ [][Next]_vars

\* The server task runs every 5 ms and time passes, so that there is always a later run
\* at which the deadlines still set have passed; the client reads and notices a lost
\* session, and a disconnection that was asked for happens.
Moves(due) == rbp_server_tick(server, due) # server

Fairness ==
    /\ []<>(server.ring = <<>>) \/ []<><<HostRead>>_vars
    /\ []<>(host.session = 0 \/ server.session = host.session) \/ []<><<HostGivesUp>>_vars
    /\ []<>~Moves({"CAPTURE", "STOP"}) \/ []<><<Tick({"CAPTURE", "STOP"})>>_vars
    /\ []<>(~server.disconnecting \/ server.link \notin LinkUp) \/ []<><<LinkTerminated>>_vars

FairSpec == Spec /\ Fairness

-----------------------------------------------------------------------------
\* Properties.

\* rbp_server.c: the queues keep their bounds, and a stream id is set exactly while
\* a stream is delivered.
VoiceTypeOK ==
    /\ server.session \in 0..MaxSession /\ server.conn \in 0..MaxConn
    /\ Count(server, "ctl") <= CtlSlots /\ Count(server, "media") <= MediaDepth
    /\ Len(server.ring) <= RingCap
    /\ server.stream \in 0..MaxStream
    /\ server.delivering <=> server.stream # 0
    /\ mic \in {"IDLE", "BEGUN", "STARTED", "FAILED"}

\* media_discard_current, voice_finish_stream, media_flush_one: whatever the host,
\* the remote and the timers do, the validator of audio_wire.py accepts every voice
\* frame: START before data, no overlap, no gap, END totals equal to what was sent.
HostNeverRejects == ~host.rejected

\* VOICE_ENABLE(false) with its deferred answer: once the client has read the OK,
\* and until it enables voice again, no voice frame of the session is queued.
SilentAfterDisable ==
    host.silent /\ host.session = server.session =>
        ~\E e \in Range(server.pending) \cup Range(server.ring) :
            e.q = "media" /\ (e \in Range(server.ring) => e.session = host.session)

\* waiting_idle: what is delivered comes from a capture that began while voice was
\* enabled and that no disable, fault or change of session interrupted.
OnlyWantedCaptures == server.delivering /\ mic = "STARTED" => wanted

\* voice_request_stop: a microphone that is open although nobody receives its audio
\* has been told to close.
UnheardCaptureStopped ==
    mic = "STARTED" /\ server.source_active /\ ~server.delivering => server.stop_sent

\* rbp_server.c and its backend fit together: the queues keep their bounds, what is delivered is
\* wanted, and what nobody hears has been told to close.
VoiceInv == VoiceTypeOK /\ OnlyWantedCaptures /\ UnheardCaptureStopped

\* docs/wire-protocol.md:92 and :94 allow four requests to be open and promise each an
\* answer: a request that is open at the client has its answer on the way, or the server
\* remembers to send it (voice_ok_deferred holds one such debt, rbp_server.c:1984).
NoRequestForgotten ==
    host.session = server.session =>
        \A w \in host.waiting :
            \/ w.id = server.ok_deferred
            \/ \E e \in Range(server.pending) \cup Range(server.ring) :
                  e.q = "ctl" /\ e.op = w.op /\ e.n = w.id

\* rbp_server_on_voice_state: after a reconnection voice comes back by itself only
\* for a host that wanted it last; a disable, a DISCONNECT or a new session ends that.
ResumeNeedsIntent ==
    [][~server.voice_enabled /\ server'.voice_enabled => intent']_vars

\* Every stream the client opened is closed: by END, by the news of a lost
\* connection, or with the session.
StreamCloses == []<>(host.stream.id = 0)

\* The stop and capture deadlines: no capture lasts, even if the remote never
\* answers the request to stop.
CaptureEnds == []<>~server.source_active

\* The deferred answer comes once the stream has ended.
DisableAnswered == []<>(\A w \in host.waiting : w.op # "DISABLE")

\* voice_disable, rbp_server_tick: turning voice off comes to an end on both sides: the
\* capture ends, whatever the remote does, and the client gets its answer.
VoiceStops == CaptureEnds /\ DisableAnswered
=============================================================================
