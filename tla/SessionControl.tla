--------------------------- MODULE SessionControl ---------------------------
(***************************************************************************)
(* Sessions and asynchronous operations: HELLO and GOODBYE, the search for *)
(* remotes, pairing and forgetting, against heartbeat loss, USB loss, the  *)
(* deadlines of the server and the completions of the radio.               *)
(*                                                                         *)
(* Some instances let MaxTx stand for UINT32_MAX, so that a session also   *)
(* ends when its sequence numbers run out.                                 *)
(***************************************************************************)
EXTENDS RbpServer, FiniteSets

CONSTANTS
    MaxSession,   \* bound: HELLO requests
    MaxConn,      \* bound: BLE connections
    MaxPending,   \* requests the host keeps open at a time
    RestartsSearch,  \* does the client start a search while one is running?
    Requests,     \* the requests of the instance, besides HELLO
    Timers        \* the deadlines that may pass in the instance

ASSUME SessionAssumption ==
    /\ {MaxSession, MaxConn, MaxPending} \subseteq Nat \ {0}
    /\ RestartsSearch \in BOOLEAN
    /\ Requests \subseteq {"FIND_START", "FIND_STOP", "PAIR_BEGIN", "PAIR_REPLY",
                           "PAIR_CANCEL", "FORGET", "GOODBYE"}
    /\ Timers \subseteq {"HEARTBEAT", "FIND", "TTL", "PROMPT", "OP"}

VARIABLES
    server,
    radio,  \* wc_state, next_link and recovering (and what for) of wch_central.c
    host

vars == <<server, radio, host>>

\* The client: its session and last tx_seq, the HELLO it waits for (the session
\* it will create), open requests, the operation it started and the search.
Closed == [session |-> 0, rx |-> 0, hello |-> 0, waiting |-> {}, op |-> 0, opstate |-> "NONE",
           prompted |-> FALSE, searching |-> FALSE, broken |-> FALSE]

-----------------------------------------------------------------------------
\* The client.

HostEvent(h, f) ==
    CASE f.op = "OPERATION" /\ f.n = h.op ->
            [h EXCEPT !.op = 0, !.opstate = f.status, !.prompted = FALSE]
      [] f.op = "PAIR_PROMPT" /\ f.n = h.op -> [h EXCEPT !.prompted = TRUE]
      [] f.op = "FIND_DONE" -> [h EXCEPT !.searching = FALSE]
      [] OTHER -> h

HostAnswer(h, f) ==
    LET t == [h EXCEPT !.waiting = h.waiting \ {f.op}]
    IN IF f.op \notin h.waiting THEN h
       ELSE CASE f.op \in {"PAIR_BEGIN", "FORGET"} /\ f.status = "ACCEPTED" ->
                   [t EXCEPT !.opstate = "ACCEPTED", !.op = f.n]
              [] f.op = "FIND_START" /\ f.status = "OK" -> [t EXCEPT !.searching = TRUE]
              [] f.op = "GOODBYE" -> Closed
              [] OTHER -> t

\* _handle_frame: the sequence is checked before anything else of the session.
HostReceive(h, f) ==
    IF h.hello # 0
    THEN IF f.op = "HELLO" /\ f.tx = 1 /\ f.session = h.hello
         THEN [Closed EXCEPT !.session = f.session, !.rx = 1] ELSE h
    ELSE IF h.session = 0 \/ f.session # h.session THEN h
    ELSE IF f.tx # TxNext(h.rx) THEN [Closed EXCEPT !.broken = TRUE]
    ELSE LET t == [h EXCEPT !.rx = f.tx]
         IN IF f.op \in {"OPERATION", "PAIR_PROMPT", "FIND_DONE", "DEVICE_STATE"}
            THEN HostEvent(t, f) ELSE HostAnswer(t, f)

HostRead ==
    /\ server.ring # <<>>
    /\ host' = HostReceive(host, Head(server.ring))
    /\ server' = [server EXCEPT !.ring = Tail(server.ring)]
    /\ UNCHANGED radio

HostGivesUp ==
    /\ host.session # 0 /\ server.session # host.session
    /\ host' = [Closed EXCEPT !.broken = host.broken]
    /\ UNCHANGED <<server, radio>>

-----------------------------------------------------------------------------
\* The radio, as the server's backend calls and the SDK's events move it.

\* rb_disconnect.
Closing(r) ==
    [r EXCEPT !.next = FALSE,
              !.wc = CASE r.wc = "SCAN" -> "SCAN_STOPPING"
                       [] r.wc \in {"CONNECTING", "CONNECTED"} -> "CLOSING"
                       [] OTHER -> r.wc]

\* fail_pair of a pairing that was begun: its journal entry has to be rolled back.
FailPair(r) == [Closing(r) EXCEPT !.recovering = "PAIR"]

\* rb_stop_find.
StopFind(r) == IF r.wc = "SCAN" THEN Closing(r) ELSE r

\* What the backend calls of a server step from s to t do: pair_cancel, stop_find.
Follow(r, s, t) ==
    LET u == IF s.pair_pending /\ ~t.pair_pending /\ ~t.peer THEN FailPair(r) ELSE r
    IN IF s.find = "ACTIVE" /\ t.find # "ACTIVE" THEN StopFind(u) ELSE u

\* disconnected: the link state the journal calls for.
Settled(s, r) ==
    rbp_server_on_link(s, IF s.peer /\ r.recovering # "FORGET" THEN "DISCONNECTED"
                          ELSE "UNBOUND")

\* Frames queued for the client.
Queued == Range(server.pending) \cup Range(server.ring)

MayConnect == server.conn = 0 => server.conn_counter < MaxConn

-----------------------------------------------------------------------------
\* Requests.  Operation ids are request ids: they start over in every session.

\* handle_hello.
Hello ==
    /\ server.session_counter < MaxSession
    /\ server' = Respond(session_create(server), "HELLO", 1, "OK")
    /\ radio' = Follow(radio, server, server')
    /\ host' = [Closed EXCEPT !.hello = server.session_counter + 1, !.broken = host.broken]

\* Mutant of Goodbye: the frames in the ring are dropped with the session.
GoodbyeDropsRing(s) ==
    LET u == Respond(session_teardown(s), "GOODBYE", 0, "OK")
    IN [u EXCEPT !.pending[1].session = s.session]

\* GOODBYE: the ring is kept, and the first control slot, taken to be the answer,
\* gets the session that closes.
Goodbye(s) ==
    LET t == [session_teardown(s) EXCEPT !.ring = s.ring]
        u == Respond(t, "GOODBYE", 0, "OK")
    IN [u EXCEPT !.pending[1].session = s.session]

\* FIND_START; started: the backend took it.
FindStart(s, started) ==
    LET t == [s EXCEPT !.find = IF started THEN "ACTIVE" ELSE "NONE", !.cand = FALSE]
    IN IF s.op_active \/ s.link \in LinkUp THEN Respond(s, "FIND_START", 0, "REFUSED")
       ELSE Respond(t, "FIND_START", 0, IF started THEN "OK" ELSE "REFUSED")

FindStop(s) ==
    LET t == Respond([s EXCEPT !.find = "VALID"], "FIND_STOP", 0, "OK")
    IN IF s.find # "ACTIVE" THEN Respond(s, "FIND_STOP", 0, "REFUSED")
       ELSE ctl_enqueue(t, Control(t, "FIND_DONE", 0, "OK"))

\* PAIR_BEGIN.  A running search is taken over.  rb_pair_begin refuses, waits for the
\* scan to stop, or connects at once.
PairBeginRefused(s) == s.op_active \/ s.link = "READY" \/ s.peer \/ ~s.cand \/ s.find = "NONE"

\* Mutant of PairBegin: the answer follows the backend call.
PairBeginThenAccept(s, id, outcome) ==
    LET t == op_begin([s EXCEPT !.find = "NONE"], "PAIR", id)
        u == CASE outcome = "REFUSES" -> rbp_server_on_pair_done(t, FALSE)
               [] outcome = "CONNECTS" ->
                    rbp_server_on_link([t EXCEPT !.pair_pending = TRUE], "CONNECTING")
               [] OTHER -> [t EXCEPT !.pair_pending = TRUE]
    IN IF PairBeginRefused(s) THEN Respond(s, "PAIR_BEGIN", id, "REFUSED")
       ELSE Respond(u, "PAIR_BEGIN", id, "ACCEPTED")

PairBegin(s, id, outcome) ==
    LET t == IF s.find = "ACTIVE"
             THEN ctl_enqueue([s EXCEPT !.find = "NONE"], Control(s, "FIND_DONE", 0, "OK"))
             ELSE s
        u == Respond(op_begin(t, "PAIR", id), "PAIR_BEGIN", id, "ACCEPTED")
        v == [u EXCEPT !.pair_pending = TRUE]
    IN IF PairBeginRefused(s) THEN Respond(s, "PAIR_BEGIN", id, "REFUSED")
       ELSE CASE outcome = "REFUSES" -> rbp_server_on_pair_done(u, FALSE)
              [] outcome = "WAITS" -> v
              [] outcome = "CONNECTS" -> rbp_server_on_link(v, "CONNECTING")

\* PAIR_REPLY for the current prompt.
PairReply(s, id) ==
    IF ~s.op_active \/ s.op_kind # "PAIR" \/ id # s.op_id \/ ~s.prompt_active
    THEN Respond(s, "PAIR_REPLY", 0, "REFUSED")
    ELSE Respond([s EXCEPT !.prompt_active = FALSE], "PAIR_REPLY", 0, "OK")

PairCancel(s, id) ==
    IF ~s.op_active \/ s.op_kind # "PAIR" \/ id # s.op_id
    THEN Respond(s, "PAIR_CANCEL", 0, "REFUSED")
    ELSE request_pair_cancel(Respond([s EXCEPT !.prompt_active = FALSE],
                                     "PAIR_CANCEL", 0, "OK"))

\* FORGET_PEER; journaled: board_begin_forget wrote the intent.
ForgetPeer(s, id, journaled) ==
    LET t == [op_begin(s, "FORGET", id) EXCEPT !.reconnect_paused = TRUE]
        u == Respond(t, "FORGET", id, "ACCEPTED")
    IN IF s.op_active \/ ~s.peer THEN Respond(s, "FORGET", id, "REFUSED")
       ELSE IF journaled THEN u ELSE rbp_server_on_forget_done(u, FALSE)

\* The client sends a request and waits for the answer.
HostAsks(op) ==
    /\ op \in Requests
    /\ host.session # 0
    /\ op \notin host.waiting /\ Cardinality(host.waiting) < MaxPending
    /\ host' = [host EXCEPT !.waiting = @ \cup {op}]

\* process_frame: a frame of another session is dropped.
Current == server.session = host.session

Dropped == ~Current /\ UNCHANGED <<server, radio>>

\* Request ids grow within a session: a new one is in use nowhere.
NextId ==
    LET used == {e.n : e \in Queued} \cup {r.id : r \in Range(server.ops_done)}
                    \cup {host.op, server.op_id}
    IN CHOOSE n \in 1..(Cardinality(used) + 1) :
          n \notin used /\ \A m \in 1..(n - 1) : m \in used

AskFindStart ==
    /\ HostAsks("FIND_START")
    /\ RestartsSearch \/ ~host.searching
    /\ \/ Dropped
       \/ /\ Current
          /\ \E started \in {FALSE, radio.wc = "IDLE" /\ radio.recovering = "NO"} :
                /\ server' = FindStart(server, started)
                /\ radio' = IF server'.find = "ACTIVE" /\ started
                            THEN [radio EXCEPT !.wc = "SCAN"] ELSE radio

AskFindStop ==
    /\ HostAsks("FIND_STOP") /\ host.searching
    /\ \/ Dropped
       \/ /\ Current
          /\ server' = FindStop(server)
          /\ radio' = Follow(radio, server, server')

\* rb_pair_begin after the takeover; the SDK or the journal may always refuse.
PairOutcomes(r) ==
    {"REFUSES"} \cup (IF r.recovering # "NO" THEN {}
                      ELSE CASE r.wc = "IDLE" -> {"CONNECTS"}
                             [] r.wc = "SCAN_STOPPING" -> {"WAITS"}
                             [] OTHER -> {})

AskPairBegin ==
    /\ HostAsks("PAIR_BEGIN") /\ host.op = 0
    /\ \/ Dropped
       \/ /\ Current
          /\ LET r == IF ~PairBeginRefused(server) /\ server.find = "ACTIVE"
                      THEN StopFind(radio) ELSE radio
             IN \E outcome \in IF PairBeginRefused(server) THEN {"NONE"} ELSE PairOutcomes(r) :
                /\ outcome = "CONNECTS" => MayConnect
                /\ server' = PairBegin(server, NextId, outcome)
                /\ radio' = CASE outcome = "WAITS" -> [r EXCEPT !.next = TRUE]
                              [] outcome = "CONNECTS" ->
                                    LET c == [r EXCEPT !.wc = "CONNECTING"]
                                    IN IF server'.pair_pending THEN c ELSE FailPair(c)
                              [] OTHER -> r

AskPairReply ==
    /\ HostAsks("PAIR_REPLY") /\ host.prompted
    /\ \/ Dropped
       \/ Current /\ server' = PairReply(server, host.op) /\ radio' = Follow(radio, server, server')

AskPairCancel ==
    /\ HostAsks("PAIR_CANCEL") /\ host.op # 0
    /\ \/ Dropped
       \/ Current /\ server' = PairCancel(server, host.op) /\ radio' = Follow(radio, server, server')

AskForget ==
    /\ HostAsks("FORGET") /\ host.op = 0
    /\ \/ Dropped
       \/ /\ Current
          /\ \E journaled \in BOOLEAN :
                LET begun == journaled /\ server.peer /\ ~server.op_active
                    r == Follow(radio, server, server')
                IN /\ server' = ForgetPeer(server, NextId, journaled)
                   /\ radio' = IF begun THEN [Closing(r) EXCEPT !.recovering = "FORGET"] ELSE r

AskGoodbye ==
    /\ HostAsks("GOODBYE")
    /\ \/ Dropped
       \/ Current /\ server' = Goodbye(server) /\ radio' = Follow(radio, server, server')

-----------------------------------------------------------------------------
\* SDK events and the poll of wch_central.c.

\* GAP_DEVICE_INFO_EVENT of a new remote.
Candidate ==
    /\ radio.wc = "SCAN" /\ server.find = "ACTIVE" /\ ~server.cand
    /\ server' = [server EXCEPT !.cand = TRUE]
    /\ UNCHANGED <<radio, host>>

\* GAP_DEVICE_DISCOVERY_EVENT.
ScanEnds ==
    \/ /\ radio.wc = "SCAN"
       /\ server' = rbp_server_on_scan_done(server)
       /\ radio' = [radio EXCEPT !.wc = "IDLE"]
       /\ UNCHANGED host
    \/ /\ radio.wc = "SCAN_STOPPING"
       /\ LET r == [radio EXCEPT !.wc = "IDLE", !.next = FALSE]
              c == [r EXCEPT !.wc = "CONNECTING"]
          IN IF radio.next /\ radio.recovering = "NO"
             THEN /\ MayConnect
                  /\ server' = rbp_server_on_link(server, "CONNECTING")
                  /\ radio' = Follow(c, server, server')
             ELSE /\ server' = Settled(server, r)
                  /\ radio' = Follow(r, server, server')
       /\ UNCHANGED host

\* rb_connect_peer from poll, with the scan that resolves the address left out.
Reconnect ==
    /\ radio.wc = "IDLE" /\ radio.recovering = "NO" /\ MayConnect
    /\ server.peer /\ ~server.reconnect_paused /\ ~server.op_active
    /\ server' = rbp_server_on_link(server, "CONNECTING")
    /\ radio' = Follow([radio EXCEPT !.wc = "CONNECTING"], server, server')
    /\ UNCHANGED host

\* GAP_LINK_ESTABLISHED_EVENT, then the callbacks of the bond manager and the adapter.
LinkProgress ==
    /\ \/ /\ radio.wc = "CONNECTING"
          /\ server' = rbp_server_on_link(server, "INITIALIZING")
       \/ /\ radio.wc = "CONNECTED" /\ server.pair_pending /\ server.link = "INITIALIZING"
          /\ ~server.pair_ready_pending
          /\ server' = rbp_server_on_link(server, "PAIRING")
       \/ /\ radio.wc = "CONNECTED" /\ server.link \in {"PAIRING", "INITIALIZING"}
          /\ ~server.pair_ready_pending
          /\ server' = rbp_server_on_link(server, "READY")
    /\ radio' = Follow([radio EXCEPT !.wc = "CONNECTED"], server, server')
    /\ UNCHANGED host

\* wc_passcode_cb.
PairPrompt ==
    /\ radio.wc = "CONNECTED" /\ server.pair_pending /\ server.link = "PAIRING"
    /\ ~server.prompt_active
    /\ server' = rbp_server_on_pair_prompt(server)
    /\ radio' = Follow(radio, server, server')
    /\ UNCHANGED host

\* finish_pair with the record saved, once the adapter is ready; or fail_pair.
PairDone ==
    /\ server.pair_pending /\ radio.wc \in {"CONNECTING", "CONNECTED"}
    /\ \E saved \in BOOLEAN :
          /\ saved => radio.wc = "CONNECTED" /\ (server.pair_ready_pending \/ server.link = "READY")
          /\ server' = rbp_server_on_pair_done(server, saved)
    /\ radio' = Follow(radio, server, server')
    /\ UNCHANGED host

\* GAP_LINK_TERMINATED_EVENT, or GAP_LINK_ESTABLISHED_EVENT with a failure.
LinkEnds ==
    /\ radio.wc \in {"CONNECTING", "CONNECTED", "CLOSING"}
    /\ LET s == IF server.pair_pending THEN rbp_server_on_pair_done(server, FALSE) ELSE server
           r == [radio EXCEPT !.wc = "IDLE", !.next = FALSE,
                              !.recovering = IF server.pair_pending THEN "PAIR" ELSE @]
       IN server' = Settled(s, r) /\ radio' = Follow(r, s, server')
    /\ UNCHANGED host

\* poll: the bond is erased and the journal cleared, or only the first, or neither in time.
Recovered ==
    /\ radio.recovering # "NO" /\ radio.wc = "IDLE"
    /\ radio' = [radio EXCEPT !.recovering = "NO"]
    /\ \E outcome \in {"ERASED", "NOT_CLEARED", "EXPIRED"} :
          LET forget == radio.recovering = "FORGET"
              t == IF forget THEN rbp_server_on_forget_done(server, outcome = "ERASED") ELSE server
          IN server' = CASE outcome = "ERASED" /\ ~forget -> rbp_server_on_link(t, "UNBOUND")
                         [] outcome = "EXPIRED" \/ (outcome = "NOT_CLEARED" /\ ~forget) ->
                               rbp_server_on_link(t, "ERROR")
                         [] OTHER -> t
    /\ UNCHANGED host

-----------------------------------------------------------------------------
\* rbp_server_tick.

TickFind(s, due) ==
    LET t == IF "FIND" \in due THEN rbp_server_on_scan_done(s) ELSE s
    IN IF t.find = "VALID" /\ "TTL" \in due THEN [t EXCEPT !.find = "NONE", !.cand = FALSE] ELSE t

TickPrompt(s, due) ==
    IF s.prompt_active /\ "PROMPT" \in due
    THEN request_pair_cancel([s EXCEPT !.prompt_active = FALSE]) ELSE s

\* Mutant of TickOperation: an expired operation is dropped without a result.
TickOperationSilent(s, due) ==
    IF s.op_active /\ "OP" \in due
    THEN IF s.op_kind = "PAIR" THEN request_pair_cancel(OpOver(s)) ELSE OpOver(s)
    ELSE s

\* Mutant of TickOperation: an operation does not expire.
TickOperationForever(s, due) == s

TickOperation(s, due) ==
    LET t == OpOver(s)
        u == IF s.op_kind = "PAIR" THEN request_pair_cancel(t) ELSE t
    IN IF s.op_active /\ "OP" \in due THEN op_complete(u, s, "TIMEOUT") ELSE s

rbp_server_tick(s, due) ==
    LET t == IF "HEARTBEAT" \in due /\ s.session # 0 THEN session_teardown(s) ELSE s
    IN rbp_server_flush_output(TickOperation(TickPrompt(TickFind(t, due), due), due))

Tick(due) ==
    /\ server' = rbp_server_tick(server, due)
    /\ radio' = Follow(radio, server, server')
    /\ UNCHANGED host

UsbGone ==
    /\ server.session # 0
    /\ server' = rbp_server_on_usb_gone(server)
    /\ radio' = Follow(radio, server, server')
    /\ host' = [Closed EXCEPT !.broken = host.broken]

-----------------------------------------------------------------------------
\* A board that has just started, bound or not.
Init ==
    /\ \E peer \in BOOLEAN :
          server = [ServerInit EXCEPT !.peer = peer,
                                      !.link = IF peer THEN "DISCONNECTED" ELSE "UNBOUND"]
    /\ radio = [wc |-> "IDLE", next |-> FALSE, recovering |-> "NO"]
    /\ host = Closed

Next ==
    \/ Hello \/ HostRead \/ HostGivesUp
    \/ AskFindStart \/ AskFindStop \/ AskPairBegin \/ AskPairReply \/ AskPairCancel
    \/ AskForget \/ AskGoodbye
    \/ Candidate \/ ScanEnds \/ Reconnect \/ LinkProgress \/ PairPrompt \/ PairDone
    \/ LinkEnds \/ Recovered
    \/ \E due \in SUBSET Timers : Tick(due)
    \/ UsbGone

Spec == Init /\ [][Next]_vars

\* Weak fairness with ENABLED written out.  USB delivers what the ring holds, the
\* server ticks every 5 ms, and a deadline that stays set passes.
Fairness ==
    /\ []<>(server.ring = <<>>) \/ []<><<HostRead>>_vars
    /\ []<>(rbp_server_tick(server, {}) = server) \/ []<><<Tick({})>>_vars
    /\ []<>(~server.op_active) \/ []<><<Tick({"OP"})>>_vars
    /\ []<>(server.find # "ACTIVE") \/ []<><<Tick({"FIND"})>>_vars

FairSpec == Spec /\ Fairness

-----------------------------------------------------------------------------
\* Properties.

\* rbp_server.c, wch_central.c: the queues keep their bounds and the variables their
\* types.
SessionTypeOK ==
    /\ server.session \in 0..MaxSession /\ server.conn \in 0..MaxConn
    /\ Count(server, "ctl") <= CtlSlots /\ Len(server.ring) <= RingCap
    /\ server.tx \in 0..MaxTx /\ Len(server.ops_done) <= OpsCap
    /\ server.find \in {"NONE", "ACTIVE", "VALID"}
    /\ host.session \in 0..MaxSession
    /\ radio.wc \in {"IDLE", "SCAN", "SCAN_STOPPING", "CONNECTING", "CONNECTED", "CLOSING"}
    /\ radio.recovering \in {"NO", "PAIR", "FORGET"} /\ radio.next \in BOOLEAN

\* out_try_frame, session_teardown, GOODBYE: whatever ends and replaces sessions, the
\* frames the client accepts carry consecutive tx_seq.
NoSequenceGap == ~host.broken

\* op_complete: an operation of the client's session that is over has its OPERATION
\* event queued, unless the client has read it; GET_OPERATION can tell its result.
OperationReported ==
    /\ host.session = server.session /\ host.session # 0 /\ host.op # 0
    /\ ~(server.op_active /\ server.op_id = host.op)
    => /\ \E e \in Queued : e.op = "OPERATION" /\ e.n = host.op
       /\ \E r \in Range(server.ops_done) : r.id = host.op

\* ctl_enqueue: prompts and results follow the ACCEPTED answer of their operation.
AcceptedFirst ==
    LET all == server.ring \o server.pending
        About(e, f) ==
            /\ e.n = f.n /\ e.session = f.session
            /\ e.op = "PAIR_PROMPT" \/ (e.op = "OPERATION" /\ e.of = f.session)
    IN \A i, j \in DOMAIN all : i < j /\ all[j].status = "ACCEPTED" => ~About(all[i], all[j])

\* op_complete, ctl_enqueue: the queues keep their bounds; an operation is accepted before
\* anything is said about it and its result is not lost.
SessionInv == SessionTypeOK /\ OperationReported /\ AcceptedFirst

\* session_teardown, GOODBYE, out_try_frame: what is on its way to the client is in
\* the order of the sessions, so that nothing of a session follows its successor's HELLO.
FramesInSessionOrder ==
    LET all == server.ring \o server.pending
    IN \A i, j \in DOMAIN all :
        i < j => all[j].session = 0 \/ all[i].session <= all[j].session

\* FIND_DONE: the client believes in a running search only while there is one, or
\* while the news of its end is queued.
SearchKnown ==
    host.searching /\ host.session = server.session /\ server.find # "ACTIVE" =>
        \E e \in Queued : e.op = "FIND_DONE"

\* rbp_server_tick, op_complete: an accepted operation comes to an end the client
\* reads, whatever the radio does, unless the session is lost.
OperationEnds == []<>(host.op = 0 \/ server.session # host.session)

\* rbp_server_tick: a search the client was told of ends, and the client reads it.
SearchEnds == []<>(~host.searching \/ server.session # host.session)

\* rbp_server_tick: whatever the radio does, operations and searches end for the client.
OperationsEnd == OperationEnds /\ SearchEnds

\* session_create, out_try_frame (wire-protocol.md:86, "HELLO ... seq=1"): the answer
\* to HELLO is the first frame of its session.
HelloIsFirst == \A e \in Range(server.ring) : e.op = "HELLO" => e.tx = 1
=============================================================================
