----------------------------- MODULE KeyDelivery -----------------------------
(***************************************************************************)
(* Keys from the remote through the server to the logical keys of the      *)
(* client.                                                                 *)
(*                                                                         *)
(* The client runs _service_logical_keys of client.py: for a ready device  *)
(* it installs the catalog, enables events, asks for a snapshot and feeds  *)
(* it to LogicalKeys (input.py).  Other traffic of the client is its PING. *)
(* The session exists from the start; once it is lost, this client is done.*)
(***************************************************************************)
EXTENDS RbpServer, FiniteSets

CONSTANTS
    Keys,        \* the slots of the catalog
    MaxConn,     \* bound: BLE connections
    MaxSeq,      \* bound: input_seq at which keys change and events are enabled
    MaxPings     \* bound: PING answers on their way

ASSUME KeyAssumption ==
    /\ {MaxConn, MaxSeq} \subseteq Nat \ {0}
    /\ MaxPings \in Nat

VARIABLES
    server,
    held,    \* the keys the adapter last reported as pressed
    host

vars == <<server, held, host>>

\* phase: of _service_logical_keys.  have, seq and bits are the raw key state of
\* the client; logical and last (0: none) that of LogicalKeys.
HostWith(conn, state) ==
    [conn |-> conn, state |-> state, phase |-> "OFF", asked |-> 0,
     have |-> FALSE, seq |-> 0, logical |-> {}, last |-> -1, failed |-> FALSE]

-----------------------------------------------------------------------------
\* The client.

\* LogicalKeys.reset.
LogicalReset(h) == [h EXCEPT !.phase = "OFF", !.asked = 0, !.logical = {}, !.last = -1]

\* LogicalKeys.feed.
LogicalFeed(h, kind, seq, bits) ==
    IF \/ h.phase = "OFF"
       \/ seq < h.last
       \/ seq = h.last /\ kind # "RESET"
    THEN h
    ELSE [h EXCEPT !.logical = bits, !.last = seq]

\* _handle_event for KEYS_STATE.
HostKeys(h, f) ==
    IF h.conn = 0 \/ f.conn # h.conn \/ (h.have /\ f.seq < h.seq)
    THEN [h EXCEPT !.failed = TRUE]
    ELSE IF h.have /\ f.kind # "RESET" /\ f.seq <= h.seq THEN h
    ELSE LogicalFeed([h EXCEPT !.have = TRUE, !.seq = f.seq], f.kind, f.seq, f.bits)

\* _handle_event for DEVICE_STATE.
HostDevice(h, f) ==
    LET t == IF f.n = h.conn THEN h ELSE [h EXCEPT !.have = FALSE, !.seq = 0]
        u == [t EXCEPT !.conn = f.n, !.state = f.status]
    IN IF f.status # "READY" \/ f.n # h.conn THEN LogicalReset(u) ELSE u

\* keys_snapshot, then LogicalKeys.feed.
HostSnapshot(h, f) ==
    LET t == IF ~h.have \/ f.seq >= h.seq THEN [h EXCEPT !.have = TRUE, !.seq = f.seq] ELSE h
    IN [LogicalFeed(t, "SNAPSHOT", f.seq, f.bits) EXCEPT !.phase = "ON", !.asked = 0]

\* An answer: refused, it resets the logical keys.
HostAnswer(h, f) ==
    IF f.n # h.asked \/ f.n = 0 THEN h
    ELSE IF f.status # "OK" THEN LogicalReset(h)
    ELSE CASE f.op = "EVENTS_ENABLE" -> [h EXCEPT !.phase = "ENABLED", !.asked = 0]
           [] f.op = "KEYS_SNAPSHOT" -> HostSnapshot(h, f)
           [] f.op = "EVENTS_DISABLE" -> [h EXCEPT !.phase = "DISABLED", !.asked = 0]
           [] OTHER -> h

HostReceive(h, f) ==
    IF h.state = "LOST" \/ f.session # 1 THEN h
    ELSE IF f.q = "key" THEN HostKeys(h, f)
    ELSE IF f.op = "DEVICE_STATE" THEN HostDevice(h, f)
    ELSE HostAnswer(h, f)

HostRead ==
    /\ server.ring # <<>>
    /\ host' = HostReceive(host, Head(server.ring))
    /\ server' = [server EXCEPT !.ring = Tail(server.ring)]
    /\ UNCHANGED held

\* The heartbeat of the client noticed that its session is gone.
HostGivesUp ==
    /\ server.session # 1 /\ host.state # "LOST"
    /\ host' = HostWith(0, "LOST")
    /\ UNCHANGED <<server, held>>

-----------------------------------------------------------------------------
\* Requests.

conn_ready_for(s, conn) == s.link = "READY" /\ conn # 0 /\ conn = s.conn

EventsEnable(s, id, conn) ==
    LET t == Respond(s, "EVENTS_ENABLE", id, "OK")
    IN IF ~conn_ready_for(s, conn) THEN Respond(s, "EVENTS_ENABLE", id, "REFUSED")
       ELSE keys_emit([t EXCEPT !.events_enabled = TRUE], "SNAPSHOT", t.pressed)

EventsDisable(s, id, conn) ==
    IF ~conn_ready_for(s, conn) THEN Respond(s, "EVENTS_DISABLE", id, "REFUSED")
    ELSE Respond([s EXCEPT !.events_enabled = FALSE,
                           !.pending = SelectSeq(s.pending, LAMBDA e : e.q # "key")],
                 "EVENTS_DISABLE", id, "OK")

KeysSnapshot(s, id, conn) ==
    IF ~conn_ready_for(s, conn) THEN Respond(s, "KEYS_SNAPSHOT", id, "REFUSED")
    ELSE ctl_enqueue(s, Control(s, "KEYS_SNAPSHOT", id, "OK")
                          @@ [seq |-> s.input_seq, bits |-> s.pressed])

\* An id no answer on its way carries; 0 is for what nobody waits for.
Ids == 1..(CtlSlots + RingCap + 1)
FreshId == CHOOSE i \in Ids :
    /\ \A e \in Range(server.pending) \cup Range(server.ring) :
          e.q = "ctl" /\ e.op # "DEVICE_STATE" => e.n # i
    /\ \A j \in 1..(i - 1) : \E e \in Range(server.pending) \cup Range(server.ring) :
          e.q = "ctl" /\ e.op # "DEVICE_STATE" /\ e.n = j

Ask(from, to, handled) ==
    /\ host.phase = from /\ host.asked = 0 /\ host.conn # 0 /\ host.state = "READY"
    /\ host' = [host EXCEPT !.phase = to, !.asked = FreshId]
    /\ server' = IF server.session = 1 THEN handled ELSE server
    /\ UNCHANGED held

\* _service_logical_keys: install, then events_enable(True).
Install ==
    /\ server.input_seq <= MaxSeq
    /\ Ask("OFF", "ENABLING", EventsEnable(server, FreshId, host.conn))

\* ... then keys_snapshot.
Snapshot == Ask("ENABLED", "SNAPSHOT", KeysSnapshot(server, FreshId, host.conn))

\* events_enable(False) of the user; afterwards the user starts over.
Disable == Ask("ON", "DISABLING", EventsDisable(server, FreshId, host.conn))

Restart ==
    /\ host.phase = "DISABLED"
    /\ host' = LogicalReset(host)
    /\ UNCHANGED <<server, held>>

\* A request timed out.
HostTimeout ==
    /\ host.asked # 0
    /\ host' = LogicalReset(host)
    /\ UNCHANGED <<server, held>>

\* A PING; its answer only takes up room.
Ping ==
    /\ server.session = 1 /\ host.state # "LOST"
    /\ Cardinality({i \in DOMAIN server.pending : server.pending[i].op = "PING"})
       + Cardinality({i \in DOMAIN server.ring : server.ring[i].op = "PING"}) < MaxPings
    /\ server' = Respond(server, "PING", 0, "OK")
    /\ UNCHANGED <<held, host>>

-----------------------------------------------------------------------------
\* The remote and the radio.

Reported(s) == server' \in {s, rbp_server_flush_output(s)}

\* recompute_keys and key_state_send.
KeysChange ==
    /\ server.link = "READY" /\ server.input_seq < MaxSeq
    /\ \E bits \in (SUBSET Keys) \ {held} :
          /\ held' = bits
          /\ Reported(OnKeysPhysical(server, bits))
    /\ UNCHANGED host

LinkTerminated ==
    /\ server.link \in LinkUp
    /\ server' = rbp_server_on_link(server, "DISCONNECTED")
    /\ held' = {}
    /\ UNCHANGED host

LinkConnecting ==
    /\ server.link \in LinkDown /\ server.conn_counter < MaxConn
    /\ server' = rbp_server_on_link(server, "CONNECTING")
    /\ UNCHANGED <<held, host>>

LinkReady ==
    /\ server.link = "CONNECTING"
    /\ Reported(rbp_server_on_link(server, "READY"))
    /\ UNCHANGED <<held, host>>

\* rbp_server_tick: no deadline of the server concerns keys.
Tick ==
    /\ server' = rbp_server_flush_output(server)
    /\ UNCHANGED <<held, host>>

-----------------------------------------------------------------------------
\* A session on a ready link, everything read.
Init ==
    /\ LET up == rbp_server_on_link([ServerInit EXCEPT !.peer = TRUE], "CONNECTING")
           ready == rbp_server_on_link(up, "READY")
       IN server = [session_create(ready) EXCEPT !.tx = MaxTx]
    /\ held = {}
    /\ host = HostWith(1, "READY")

Next ==
    \/ HostRead \/ HostGivesUp \/ HostTimeout
    \/ Install \/ Snapshot \/ Disable \/ Restart \/ Ping
    \/ KeysChange \/ LinkTerminated \/ LinkConnecting \/ LinkReady \/ Tick

Spec == Init /\ [][Next]_vars

\* The server task runs every 5 ms; the client reads and notices a lost session.
\* These are weak fairness conditions with ENABLED written out.
Fairness ==
    /\ []<>(server.ring = <<>>) \/ []<><<HostRead>>_vars
    /\ []<>(server.session = 1 \/ host.state = "LOST") \/ []<><<HostGivesUp>>_vars
    /\ []<>(rbp_server_flush_output(server) = server) \/ []<><<Tick>>_vars

FairSpec == Spec /\ Fairness

-----------------------------------------------------------------------------
\* Properties.

\* rbp_server.c, input.py: the queues keep their bounds and the variables their types.
KeyTypeOK ==
    /\ server.session \in {0, 1} /\ server.conn \in 0..MaxConn
    /\ Count(server, "ctl") <= CtlSlots /\ Count(server, "key") <= KeyDepth
    /\ Len(server.ring) <= RingCap
    /\ server.pressed \subseteq Keys /\ held \subseteq Keys
    /\ host.logical \subseteq Keys
    /\ host.phase \in {"OFF", "ENABLING", "ENABLED", "SNAPSHOT", "ON", "DISABLING", "DISABLED"}

\* rbp_server_flush_output and rbp_server_on_link: the client never sees a key event
\* of another connection than the one it was told of, nor an input_seq going back.
NoStaleKeys == ~host.failed

\* keys_emit, q_push, tx_flush: the queues keep their bounds, and nothing stale reaches the client.
KeyInv == KeyTypeOK /\ NoStaleKeys

\* keys_emit, its overflow included: when everything sent has been read, the keys
\* that a subscribed client holds down are those held on the remote.
KeysConverge ==
    /\ server.session = 1 /\ server.pending = <<>> /\ server.ring = <<>>
    /\ host.phase = "ON"
    => host.logical = held

Applies(f) == f.q = "key" /\ f.session = 1 /\ f.kind = "PHYSICAL"

\* keys_emit: a key change is never lost silently.  The client takes a PHYSICAL report only
\* as the successor of the state it has, unless a reset or a snapshot came between; and
\* after the OK of EVENTS_ENABLE(false) no key event reaches it until it subscribes again.
KeyEventsInOrder ==
    [][HostRead => LET f == Head(server.ring) IN
          /\ Applies(f) /\ host.have /\ host'.seq # host.seq => host'.seq = host.seq + 1
          /\ host.phase = "DISABLED" => f.q # "key"]_vars

\* A lost link releases the keys of the client.
KeysReleased == server.link \in LinkDown ~> host.logical = {}
=============================================================================
