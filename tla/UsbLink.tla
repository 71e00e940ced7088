------------------------------- MODULE UsbLink -------------------------------
(***************************************************************************)
(* The serial link from the server's output ring and receive parser to the *)
(* host: the USB interrupt (USB_IRQHandler) against the main loop          *)
(* (srv_event, main.c), with the bus and the host's driver around them.    *)
(*                                                                         *)
(* The main loop is cut where the USB interrupt can come in: every call    *)
(* that takes the USB lock is one step.  The controller holds a completed  *)
(* token, and answers no other one but SETUP, until the interrupt has been *)
(* served (RB_UC_INT_BUSY).                                                *)
(*                                                                         *)
(* Bytes to the board are wire bytes.  Bytes to the host are numbered from *)
(* 1 since the server last heard that the transport was lost; every frame  *)
(* is BoardFrame bytes and ends in its delimiter.                          *)
(***************************************************************************)
EXTENDS FrameCodec, UsbCdc

CONSTANTS
    Hello, Request,   \* two raw frames
    Probe,            \* wire bytes of a program that is not a client, without a delimiter
    BoardFrame,       \* the size of a frame to the host
    OutRing,          \* OUT_RING_SIZE
    Budgets           \* how often the host and the bus do what they may do, and the control
                      \* requests the host then makes

\* What a host may ask for.
Requests ==
    [r : {"DESCRIPTOR", "ADDRESS", "LINE", "CONFIGURATION", "HALT_IN", "HALT_OUT", "PLAIN", "UNKNOWN"},
     v : Nat, n : Nat]

\* Probe n times over.
Probes(n) == [i \in 1..(n * Len(Probe)) |-> Probe[((i - 1) % Len(Probe)) + 1]]

\* A client's frames fit the parser's buffer, and what the other program sends is no frame,
\* however often it sends it.
ASSUME LinkAssumption ==
    /\ \A raw \in {Hello, Request} : raw \in Frames /\ Len(Wires[raw]) <= RecvMax + 1
    /\ Probe \in Seq(1..MaxCode) \ {<<>>}
    /\ \A n \in 1..RecvMax : rbp_cobs_decode(Probes(n)) \notin Frames
    /\ BoardFrame \in Nat \ {0} /\ OutRing \in Nat
    /\ \A b \in Budgets :
          /\ b = [frames |-> b.frames, probes |-> b.probes, losses |-> b.losses, setups |-> b.setups,
                  requests |-> b.requests]
          /\ b.requests \subseteq Requests

VARIABLES
    u, c,    \* the driver
    bus,     \* what waits for the interrupt, and whether the bus is idle
    s,       \* the main loop and the server
    h,       \* the host
    left     \* what is left of the budget

vars == <<u, c, bus, s, h, left>>

NoToken == [t |-> "none"]
NoRequest == [r |-> "none", v |-> 0, n |-> 0]

Init ==
    /\ u = InitData /\ c = InitControl
    /\ bus = [tok |-> NoToken, setup |-> NoRequest, rst |-> FALSE, sus |-> FALSE, idle |-> FALSE]
    /\ s = [pc |-> "lost", session |-> FALSE, ctl |-> 0, out |-> <<>>, next |-> 1, rx |-> Idle, old |-> FALSE]
    /\ h = [todo |-> <<>>, due |-> <<>>, clean |-> FALSE, wrong |-> FALSE, got |-> 0, short |-> TRUE,
            conf |-> FALSE, otog |-> 0, itog |-> 0, address |-> 0,
            q |-> NoRequest, stage |-> "none", read |-> 0, tog |-> 1]
    /\ left \in Budgets

Spend(what) == left[what] > 0 /\ left' = [left EXCEPT ![what] = @ - 1]

-----------------------------------------------------------------------------
(* The server's two ends of the link.                                      *)

IsDelimiter(b) == b % BoardFrame = 0

\* The output ring of session_teardown: up to the first delimiter.
Cut(out) ==
    LET ends == {i \in 1..Len(out) : IsDelimiter(out[i])}
    IN  IF ends = {} THEN out ELSE Take(out, CHOOSE i \in ends : \A j \in ends : i <= j)

session_teardown(m) ==
    LET out == Cut(m.out)
    IN  [m EXCEPT !.session = FALSE, !.ctl = 0, !.out = out,
                  !.next = IF out = <<>> THEN @ ELSE out[Len(out)] + 1]

session_create(m) == [session_teardown(m) EXCEPT !.session = TRUE]

\* Mutant of rbp_server_on_usb_gone: the rest of a frame survives the loss.
GoneButKept(m) == [session_teardown(m) EXCEPT !.ctl = 0]

\* The parser is left as it is; old marks what it holds.
rbp_server_on_usb_gone(m) ==
    [session_teardown(m) EXCEPT !.ctl = 0, !.out = <<>>, !.next = 1, !.old = m.rx.st # "IDLE"]

\* server_rx_event, and the answer to a request.
Heard(m, ev) ==
    CASE ev.t = "NONE" -> m
      [] ev.t = "FRAME" /\ ev.raw = Hello -> [session_create(m) EXCEPT !.ctl = @ + 1]
      [] ev.t = "FRAME" /\ ev.raw # Hello -> IF m.session THEN [m EXCEPT !.ctl = @ + 1] ELSE m
      [] OTHER -> IF m.session THEN session_teardown(m) ELSE m

\* rbp_rx_drain, one byte; frames collects what was recognised, without what was begun
\* before the loss.
Consumed(r, b) ==
    LET f == Fed(r.m.rx, b)
    IN  [m |-> Heard([r.m EXCEPT !.rx = f.p, !.old = @ /\ b # 0], f.ev),
         frames |-> IF f.ev.t = "FRAME" /\ ~ r.m.old THEN Append(r.frames, f.ev.raw) ELSE r.frames]

rbp_server_on_usb_rx(m, bytes) ==
    LET after[k \in 0..Len(bytes)] == IF k = 0 THEN [m |-> m, frames |-> <<>>]
                                      ELSE Consumed(after[k - 1], bytes[k])
    IN  after[Len(bytes)]

\* ctl_pop while the frame fits.
Popped(m) ==
    LET n == Least(m.ctl, (OutRing - Len(m.out)) \div BoardFrame)
    IN  [m EXCEPT !.ctl = @ - n, !.next = @ + n * BoardFrame,
                  !.out = @ \o [i \in 1..n * BoardFrame |-> m.next + i - 1]]

-----------------------------------------------------------------------------
(* srv_event.                                                              *)

TakeLost ==
    /\ s.pc = "lost"
    /\ s' = [(IF u.lost THEN rbp_server_on_usb_gone(s) ELSE s) EXCEPT !.pc = "read"]
    /\ u' = usb_cdc_take_lost(u)
    /\ UNCHANGED <<c, bus, h, left>>

\* A frame that the host is sending takes no second; a run of bytes that nothing follows
\* may.
Stale(m, due) ==
    /\ m.rx.st = "IN_FRAME"
    /\ IF m.old \/ due = <<>> THEN TRUE ELSE ~ Begins(m.rx.buf, Wires[Head(due)])

\* rbp_server_tick's first check.
Timeout(m) == session_teardown([m EXCEPT !.rx = TimedOut(m.rx)])

Read ==
    /\ s.pc = "read"
    /\ LET r == rbp_server_on_usb_rx(s, u.rx)
           due == Drop(h.due, Len(r.frames))
       IN  /\ \E late \in IF Stale(r.m, due) THEN BOOLEAN ELSE {FALSE} :
                s' = [(IF late THEN Timeout(r.m) ELSE r.m) EXCEPT !.pc = "drain"]
           /\ h' = [h EXCEPT !.due = due, !.wrong = @ \/ ~ Begins(r.frames, h.due)]
    /\ u' = usb_cdc_read(u)
    /\ UNCHANGED <<c, bus, left>>

\* rbp_server_flush_output: out_drain, the queue, out_drain.  A step is one call of
\* usb_cdc_write; the chunk that the ring's end splits is only written in two calls.
AfterDrain(m) == IF m.pc = "drain" THEN [Popped(m) EXCEPT !.pc = "drain2"] ELSE [m EXCEPT !.pc = "flush"]

Drain ==
    /\ s.pc \in {"drain", "drain2"}
    /\ LET chunk == Take(s.out, Packet)
           sent == Room(u, Len(chunk))
           m == [s EXCEPT !.out = Drop(@, sent)]
       IN  IF chunk = <<>> THEN s' = AfterDrain(s) /\ UNCHANGED u
           ELSE /\ u' = usb_cdc_write(u, chunk)
                /\ s' = IF sent < Len(chunk) \/ m.out = <<>> THEN AfterDrain(m) ELSE m
    /\ UNCHANGED <<c, bus, h, left>>

Flush == s.pc = "flush" /\ s' = [s EXCEPT !.pc = "lost"] /\ u' = tx_kick(u) /\ UNCHANGED <<c, bus, h, left>>

MainLoop == TakeLost \/ Read \/ Drain \/ Flush

-----------------------------------------------------------------------------
(* USB_IRQHandler.                                                         *)

Pending == bus.rst \/ bus.sus \/ bus.tok # NoToken \/ bus.setup # NoRequest

\* What is lost with the transport: the host gives up what it has not sent.
Lose == [h EXCEPT !.todo = <<>>, !.due = <<>>, !.clean = FALSE, !.got = 0, !.short = TRUE]

BusReset ==
    /\ u' = Reset(u) /\ c' = ResetControl(c) /\ h' = Lose
    /\ bus' = [bus EXCEPT !.rst = FALSE, !.sus = FALSE, !.tok = NoToken, !.setup = NoRequest]

\* The token's effect.  seen: SETUP was there when the token was served.
TokenData == CASE bus.tok.t = "out2" -> Out2(u, bus.tok) [] bus.tok.t = "in2" -> In2(u) [] OTHER -> u
TokenControl(seen) ==
    CASE bus.tok.t = "in0" -> In0(c, seen) [] bus.tok.t = "out0" -> Out0(c, bus.tok, seen) [] OTHER -> c

Suspended(v) ==
    IF ~ bus.sus THEN v
    ELSE LET w == [v EXCEPT !.suspended = bus.idle] IN IF bus.idle THEN lose_transport(w) ELSE w

\* The token first, then SETUP, then suspend.
Served(seen) ==
    LET setup_q == bus.setup
        v == Suspended(setup_data(TokenData, setup_q))
        d == TokenControl(seen)
        loses == v.lost /\ (~ u.lost \/ setup_q.r \in {"CONFIGURATION", "HALT_IN", "HALT_OUT"})
    IN  /\ u' = v
        /\ c' = IF setup_q = NoRequest THEN d ELSE Setup(d, setup_q)
        /\ h' = IF loses \/ (bus.sus /\ bus.idle) THEN Lose ELSE h
        /\ bus' = [bus EXCEPT !.sus = FALSE, !.tok = NoToken, !.setup = NoRequest]

\* A SETUP may arrive while the token is served, though not on top of line coding that
\* is being copied.
USB_IRQHandler ==
    /\ Pending
    /\ IF bus.rst THEN BusReset
       ELSE \E seen \in IF bus.setup = NoRequest THEN {FALSE}
                        ELSE IF bus.tok.t = "out0" THEN {TRUE} ELSE BOOLEAN : Served(seen)
    /\ UNCHANGED <<s, left>>

-----------------------------------------------------------------------------
(* The bus and the host's driver.                                          *)

\* The controller answers a token for its address, and no token while one is held.
Live == ~ bus.rst /\ ~ bus.idle /\ h.address = c.address
Answers == Live /\ bus.tok = NoToken /\ bus.setup = NoRequest

Ends(q) == q.r \in {"CONFIGURATION", "HALT_IN", "HALT_OUT"}
Uses(dir) == h.conf /\ ~ (h.stage # "none" /\ h.q.r \in {"CONFIGURATION", dir})

HostOut ==
    /\ Answers /\ Uses("HALT_OUT") /\ h.todo # <<>> /\ u.R = "ACK"
    /\ bus' = [bus EXCEPT !.tok = [t |-> "out2", data |-> Take(h.todo, Packet), ok |-> h.otog = u.rtog]]
    /\ h' = [h EXCEPT !.todo = Drop(@, Packet), !.otog = 1 - @]
    /\ UNCHANGED <<u, c, s, left>>

\* A packet with the wrong toggle is acknowledged and ignored: a repetition.
HostIn ==
    /\ Answers /\ Uses("HALT_IN") /\ u.T = "ACK"
    /\ bus' = [bus EXCEPT !.tok = [t |-> "in2"]]
    /\ h' = IF h.itog # u.ttog THEN h
            ELSE [h EXCEPT !.itog = 1 - @, !.got = @ + Len(u.packet), !.short = Len(u.packet) < Packet]
    /\ UNCHANGED <<u, c, s, left>>

\* The client opens a session with a delimiter and HELLO, and then makes requests.
Sends ==
    /\ h.conf /\ Live /\ ~ (h.stage # "none" /\ Ends(h.q)) /\ ~ u.lost
    /\ UNCHANGED <<u, c, bus, s>>
HostHello ==
    /\ Sends /\ Spend("frames")
    /\ h' = [h EXCEPT !.todo = @ \o <<0>> \o Wires[Hello], !.due = Append(@, Hello), !.clean = TRUE]
HostRequest ==
    /\ Sends /\ h.clean /\ Spend("frames")
    /\ h' = [h EXCEPT !.todo = @ \o Wires[Request], !.due = Append(@, Request)]
HostProbe ==
    /\ Sends /\ Spend("probes")
    /\ h' = [h EXCEPT !.todo = @ \o Probe, !.clean = FALSE]

Disturb ==
    /\ Spend("losses") /\ UNCHANGED <<u, c, s>>
    /\ \/ /\ ~ bus.rst
          /\ bus' = [bus EXCEPT !.rst = TRUE, !.idle = FALSE]
          /\ h' = [h EXCEPT !.conf = FALSE, !.address = 0, !.otog = 0, !.itog = 0, !.stage = "none"]
       \/ /\ ~ bus.idle /\ ~ bus.rst
          /\ bus' = [bus EXCEPT !.sus = TRUE, !.idle = TRUE] /\ UNCHANGED h
Resume ==
    /\ bus.idle /\ ~ bus.rst
    /\ bus' = [bus EXCEPT !.sus = TRUE, !.idle = FALSE]
    /\ UNCHANGED <<u, c, s, h, left>>

-----------------------------------------------------------------------------
(* Control transfers, from the host's side.                                *)

\* The host gives up a transfer that leaves no doubt about the endpoints.
HostSetup ==
    /\ Live /\ bus.setup = NoRequest /\ (h.stage = "none" \/ ~ Ends(h.q))
    /\ Spend("setups")
    /\ \E q \in left.requests :
        /\ bus' = [bus EXCEPT !.setup = q]
        /\ h' = [h EXCEPT !.q = q, !.read = 0, !.tog = 1,
                          !.conf = @ /\ q.r # "CONFIGURATION",
                          !.stage = CASE q.r = "DESCRIPTOR" -> "in" [] q.r = "LINE" -> "out" [] OTHER -> "status_in"]
    /\ UNCHANGED <<u, c, s>>

ControlIn ==
    /\ Answers /\ h.stage = "in" /\ c.T = "ACK"
    /\ bus' = [bus EXCEPT !.tok = [t |-> "in0"]]
    /\ LET read == h.read + c.len
       IN  h' = IF h.tog # c.ttog THEN h
                ELSE [h EXCEPT !.read = read, !.tog = 1 - @,
                               !.stage = IF c.len < Packet \/ read = h.q.n THEN "status_out" ELSE @]
    /\ UNCHANGED <<u, c, s, left>>

ControlOut ==
    /\ Answers /\ h.stage \in {"out", "status_out"} /\ c.R = "ACK"
    /\ bus' = [bus EXCEPT !.tok = [t |-> "out0", len |-> IF h.stage = "out" THEN 7 ELSE 0, ok |-> c.rtog = 1]]
    /\ h' = [h EXCEPT !.stage = IF @ = "out" THEN "status_in" ELSE "none"]
    /\ UNCHANGED <<u, c, s, left>>

\* The request is done: the host follows the device's address and toggles.
ControlStatus ==
    /\ Answers /\ h.stage = "status_in" /\ c.T = "ACK"
    /\ bus' = [bus EXCEPT !.tok = [t |-> "in0"]]
    /\ h' = [h EXCEPT !.stage = "none",
                      !.address = IF h.q.r = "ADDRESS" THEN h.q.v ELSE @,
                      !.conf = IF h.q.r = "CONFIGURATION" THEN h.q.v = 1 ELSE @,
                      !.itog = IF h.q.r = "CONFIGURATION" \/ (h.q.r = "HALT_IN" /\ h.q.v = 0) THEN 0 ELSE @,
                      !.otog = IF h.q.r = "CONFIGURATION" \/ (h.q.r = "HALT_OUT" /\ h.q.v = 0) THEN 0 ELSE @]
    /\ UNCHANGED <<u, c, s, left>>

ControlStalled ==
    /\ Answers /\ h.stage # "none"
    /\ (IF h.stage \in {"in", "status_in"} THEN c.T ELSE c.R) = "STALL"
    /\ h' = [h EXCEPT !.stage = "none"]
    /\ UNCHANGED <<u, c, bus, s, left>>

Control == ControlIn \/ ControlOut \/ ControlStatus \/ ControlStalled

Next ==
    \/ MainLoop \/ USB_IRQHandler
    \/ HostOut \/ HostIn \/ HostHello \/ HostRequest \/ HostProbe
    \/ Disturb \/ Resume \/ HostSetup \/ Control

\* srv_event starts its own timer again each time, so the main loop comes round for ever.
MainLoopRuns == []<>(s.pc = "lost") /\ []<>(s.pc = "flush")

\* The interrupt is served, and the host polls what it has open and goes on with what it
\* has begun.
Spec ==
    /\ Init /\ [][Next]_vars
    /\ MainLoopRuns /\ WF_vars(USB_IRQHandler)
    /\ WF_vars(HostOut) /\ WF_vars(HostIn) /\ WF_vars(Control)

-----------------------------------------------------------------------------
\* The rings of driver, server and parser stay within their sizes and every state machine
\* in its states (usb_cdc_write, out_try_frame, rbp_rxparser_feed).
TypeOK ==
    /\ u.T \in {"ACK", "NAK", "STALL"} /\ u.R \in {"ACK", "NAK", "STALL"}
    /\ Len(u.rx) <= Packet /\ Len(u.tx) <= TxRing /\ Len(u.packet) <= Packet
    /\ Len(s.out) <= OutRing /\ s.rx.st \in {"IDLE", "IN_FRAME", "DISCARD"} /\ Len(s.rx.buf) <= RecvMax
    /\ c.state \in {"IDLE", "DATA_IN", "STATUS_OUT", "STATUS_IN", "LINE_OUT"}
    /\ s.pc \in {"lost", "read", "drain", "drain2", "flush"}
    /\ h.stage \in {"none", "in", "out", "status_in", "status_out"}

\* Every byte the server has framed since it last heard of a loss is in exactly one
\* place, in order: at the host, in the packet the controller holds, in the driver's ring
\* or in the server's (out_drain, usb_cdc_write, tx_kick, the IN token).
NoByteLostOrRepeated ==
    ~ u.lost =>
        (IF u.tx_inflight /\ bus.tok.t # "in2" THEN u.packet ELSE <<>>) \o u.tx \o s.out
            = [i \in 1..(s.next - 1 - h.got) |-> h.got + i]

\* No packet is taken that the receive ring has no room for: the branch of the OUT token
\* that gives the transport up is never reached (rx_arm against usb_cdc_read).
RoomForWhatIsAccepted ==
    /\ u.R = "ACK" => Packet - Len(u.rx) >= Packet
    /\ bus.tok.t = "out2" => Packet - Len(u.rx) >= Len(bus.tok.data)

\* The data toggles of board and host agree on every endpoint that is in use, through
\* suspend, halts and configuration, once the interrupt has caught up.
TogglesAgree ==
    /\ (Answers /\ Uses("HALT_IN")) => h.itog = u.ttog
    /\ (Answers /\ Uses("HALT_OUT")) => h.otog = u.rtog

\* The frames the server recognises are the frames the host has sent since the last loss,
\* in that order, each once: what came before a HELLO's delimiter takes no frame with it,
\* and decoding in place gives back what was encoded.  A frame that had come whole but for
\* its delimiter when the transport was lost is left out of the account: that delimiter
\* still ends it, as rbp_server_on_usb_gone keeps the parser.
FramesHeardInOrder == ~ h.wrong

\* The host's read ends when the board has nothing more: after a full packet comes a
\* short one or an empty one (tx_zlp).
TransferIsTerminated ==
    (Usable(u) /\ ~ u.halt_in /\ ~ Pending /\ s.out = <<>> /\ u.tx = <<>> /\ ~ u.tx_inflight /\ s.pc = "lost")
        => h.short

\* A control read brings what was asked for, or all there is of it (ctrl_send, ctrl_next).
ControlReadIsWhole ==
    h.stage = "status_out" /\ h.q.r = "DESCRIPTOR" => h.read = Least(h.q.v, h.q.n)

\* The board answers to the address the host uses: a new one holds from the status stage
\* on, and no earlier.
AddressAgrees == ~ bus.rst /\ bus.tok.t # "in0" => c.address = h.address

\* "SETUP has replaced the EP0 receive buffer and aborts the old control data stage.
\* Never interpret its bytes as line coding."
LineCodingIsLineCoding == c.line = "line"

\* usb_cdc.c: the two ends of the cable agree on rings that have room, on toggles, on where a
\* transfer ends, and on what a control transfer has brought or set.
EndsAgree ==
    /\ TypeOK /\ RoomForWhatIsAccepted /\ TogglesAgree /\ TransferIsTerminated
    /\ ControlReadIsWhole /\ AddressAgrees /\ LineCodingIsLineCoding

\* What the server frames arrives, unless the host has halted the endpoint; a loss of the
\* transport empties both ends.
OutputArrives == []<>(h.got = s.next - 1 \/ u.halt_in)

\* What the client sends is heard, unless the host has halted the endpoint or the
\* transport is lost, and then nothing is awaited.
InputIsHeard == []<>(h.due = <<>> \/ u.halt_out)

\* A control transfer ends, in its status stage or with a STALL.
ControlEnds == []<>(h.stage = "none" \/ bus.idle)

\* tx_kick, ctrl_next, the main loop: everything that is sent arrives, in both directions,
\* and control transfers end.
EverythingArrives == OutputArrives /\ InputIsHeard /\ ControlEnds
=============================================================================
