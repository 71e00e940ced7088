------------------------------- MODULE UsbCdc -------------------------------
(***************************************************************************)
(* The USB CDC driver (wch/usb_cdc.c): what the interrupt handler and the  *)
(* task-side calls do to the driver's state and to the endpoint registers. *)
(*                                                                         *)
(* u, the data endpoints: configured, suspended, halt_in, halt_out, lost,  *)
(* the rings rx and tx, tx_inflight, tx_zlp, and EP2's registers: the      *)
(* responses T and R, the toggles ttog and rtog, and the loaded packet.    *)
(* c, the control endpoint: ctrl_state, the bytes left and zlp, the        *)
(* address and a pending one, line (what line_coding holds), and EP0's     *)
(* registers: T, R, ttog, rtog and the length of the loaded packet.        *)
(*                                                                         *)
(* Descriptors are their lengths; EP1, which carries one constant          *)
(* notification, is left out.                                              *)
(***************************************************************************)
EXTENDS Integers, Sequences

CONSTANTS
    Packet,   \* 64: the size of a packet of every endpoint, and RX_RING
    TxRing    \* TX_RING

ASSUME UsbAssumption == Packet \in Nat \ {0} /\ TxRing \in Nat

None == -1   \* ~ address_pending

Least(a, b) == IF a < b THEN a ELSE b
Take(s, n) == SubSeq(s, 1, Least(n, Len(s)))
Drop(s, n) == SubSeq(s, Least(n, Len(s)) + 1, Len(s))
Begins(x, s) == x = Take(s, Len(x))   \* x is a prefix of s

-----------------------------------------------------------------------------
(* The data endpoints.                                                     *)

Usable(u) == u.configured /\ ~ u.suspended /\ ~ u.lost

rx_arm(u) ==
    [u EXCEPT !.R = IF u.halt_out THEN "STALL"
                    ELSE IF Usable(u) /\ Packet - Len(u.rx) >= Packet THEN "ACK" ELSE "NAK"]

data_reset(u, reset_toggles) ==
    [u EXCEPT !.rx = <<>>, !.tx = <<>>, !.tx_inflight = FALSE, !.tx_zlp = FALSE, !.packet = <<>>,
              !.rtog = IF reset_toggles THEN 0 ELSE @, !.ttog = IF reset_toggles THEN 0 ELSE @,
              !.R = IF u.halt_out THEN "STALL" ELSE "NAK", !.T = IF u.halt_in THEN "STALL" ELSE "NAK"]

\* Mutant of lose_transport: a suspended bus is taken for a reset one.
lose_transportToggles(u) == data_reset([u EXCEPT !.lost = TRUE], TRUE)

lose_transport(u) == data_reset([u EXCEPT !.lost = TRUE], FALSE)

\* Mutant of tx_kick: a packet waits until it is full.
tx_kickFull(u) ==
    IF u.tx_inflight \/ u.halt_in \/ ~ Usable(u) \/ (Len(u.tx) < Packet /\ ~ u.tx_zlp) THEN u
    ELSE [u EXCEPT !.packet = Take(u.tx, Packet), !.tx = Drop(u.tx, Packet),
                   !.tx_zlp = Len(u.tx) >= Packet, !.tx_inflight = TRUE, !.T = "ACK"]

tx_kick(u) ==
    IF u.tx_inflight \/ u.halt_in \/ ~ Usable(u) \/ (u.tx = <<>> /\ ~ u.tx_zlp) THEN u
    ELSE [u EXCEPT !.packet = Take(u.tx, Packet), !.tx = Drop(u.tx, Packet),
                   !.tx_zlp = Len(u.tx) >= Packet, !.tx_inflight = TRUE, !.T = "ACK"]

\* The task side, each under the USB lock.
usb_cdc_take_lost(u) == rx_arm([u EXCEPT !.lost = FALSE])
usb_cdc_read(u) == rx_arm([u EXCEPT !.rx = <<>>])

\* How much of len bytes usb_cdc_write takes, and its effect.
Room(u, len) == IF Usable(u) THEN Least(len, TxRing - Len(u.tx)) ELSE 0
usb_cdc_write(u, bytes) == tx_kick([u EXCEPT !.tx = @ \o Take(bytes, Room(u, Len(bytes)))])

\* The interrupt's tokens of EP2.  A packet whose toggle is wrong is ignored.
Out2(u, tok) ==
    IF ~ tok.ok THEN u
    ELSE LET v == [u EXCEPT !.rtog = 1 - @]
         IN  rx_arm(IF Packet - Len(u.rx) < Len(tok.data) THEN lose_transport(v)
                    ELSE [v EXCEPT !.rx = @ \o tok.data])

In2(u) == tx_kick([u EXCEPT !.ttog = 1 - @, !.T = "NAK", !.tx_inflight = FALSE])

-----------------------------------------------------------------------------
(* Control transfers.                                                      *)

ctrl_stall(c) == [c EXCEPT !.state = "IDLE", !.T = "STALL", !.R = "STALL", !.ttog = 1, !.rtog = 1]

ctrl_next(c) ==
    LET n == Least(c.left, Packet)
    IN  [c EXCEPT !.left = @ - n, !.zlp = @ /\ n # 0, !.len = n, !.R = "NAK", !.T = "ACK"]

ctrl_send(c, actual, requested) ==
    LET n == Least(actual, requested)
    IN  ctrl_next([c EXCEPT !.left = n, !.zlp = actual < requested /\ n % Packet = 0,
                            !.state = "DATA_IN", !.ttog = 1, !.rtog = 1])

ctrl_status(c) ==
    [c EXCEPT !.state = "STATUS_IN", !.len = 0, !.R = "NAK", !.T = "ACK", !.ttog = 1, !.rtog = 1]

EpIdle(c) == [c EXCEPT !.state = "IDLE", !.R = "ACK", !.T = "NAK", !.ttog = 0, !.rtog = 0]

\* USB_IRQHandler's IN token of EP0.
In0(c, setup_pending) ==
    CASE c.state = "DATA_IN" /\ ~ setup_pending ->
            LET d == [c EXCEPT !.ttog = 1 - @]
            IN  IF d.left > 0 \/ d.zlp THEN ctrl_next(d)
                ELSE [d EXCEPT !.state = "STATUS_OUT", !.R = "ACK", !.T = "NAK", !.rtog = 1, !.ttog = 0]
      [] c.state = "STATUS_IN" ->
            EpIdle([c EXCEPT !.address = IF c.pending # None THEN c.pending ELSE @, !.pending = None])
      [] OTHER -> c

\* Its OUT token: line coding or the status stage.  What a SETUP has written over the
\* receive buffer is "setup".
Received0(c, tok, setup_pending) ==
    CASE ~ tok.ok -> c
      [] tok.ok /\ c.state = "LINE_OUT" /\ tok.len = 7 ->
            ctrl_status([c EXCEPT !.line = IF setup_pending THEN "setup" ELSE "line"])
      [] tok.ok /\ c.state = "STATUS_OUT" /\ tok.len = 0 -> EpIdle(c)
      [] OTHER -> ctrl_stall(c)

Out0(c, tok, setup_pending) ==
    IF setup_pending THEN c ELSE Received0(c, tok, setup_pending)

-----------------------------------------------------------------------------
(* setup().  A request is [r, v, n]: what it is, its value and its length. *)

\* Requests that end the transport's epoch.
Configures(u, v) ==
    [data_reset(lose_transport([u EXCEPT !.halt_in = FALSE, !.halt_out = FALSE]), TRUE)
        EXCEPT !.configured = (v = 1)]

\* SET_FEATURE (v = 1) and CLEAR_FEATURE (v = 0) of ENDPOINT_HALT.
Halts(u, dir, v) ==
    LET l == lose_transport(u)
        res == IF v = 1 THEN "STALL" ELSE "NAK"
        tog(t) == IF v = 0 THEN 0 ELSE t
    IN  rx_arm(IF dir = "IN" THEN [l EXCEPT !.halt_in = (v = 1), !.T = res, !.ttog = tog(@)]
               ELSE [l EXCEPT !.halt_out = (v = 1), !.R = res, !.rtog = tog(@)])

setup_data(u, q) ==
    CASE q.r = "CONFIGURATION" -> Configures(u, q.v)
      [] q.r = "HALT_IN" -> Halts(u, "IN", q.v)
      [] q.r = "HALT_OUT" -> Halts(u, "OUT", q.v)
      [] OTHER -> u

setup(c, q) ==
    LET d == [c EXCEPT !.left = 0, !.zlp = FALSE, !.pending = None]
    IN  CASE q.r = "DESCRIPTOR" -> ctrl_send(d, q.v, q.n)
          [] q.r = "ADDRESS" -> ctrl_status([d EXCEPT !.pending = q.v])
          [] q.r = "LINE" -> [d EXCEPT !.state = "LINE_OUT", !.R = "ACK", !.T = "NAK", !.ttog = 1, !.rtog = 1]
          [] q.r \in {"CONFIGURATION", "HALT_IN", "HALT_OUT", "PLAIN"} -> ctrl_status(d)
          [] OTHER -> ctrl_stall(d)

\* A SETUP begins a new transfer whatever the last one left in the registers.
Setup(c, q) == setup([c EXCEPT !.R = "ACK", !.T = "NAK", !.ttog = 1, !.rtog = 1], q)

-----------------------------------------------------------------------------
\* usb_cdc_init, and a bus reset.  lost is left alone by the one and set by the other.
Reset(u) ==
    data_reset(lose_transport([u EXCEPT !.configured = FALSE, !.suspended = FALSE,
                                        !.halt_in = FALSE, !.halt_out = FALSE]), TRUE)
ResetControl(c) == [EpIdle(c) EXCEPT !.address = 0, !.pending = None]

InitData ==
    [configured |-> FALSE, suspended |-> FALSE, halt_in |-> FALSE, halt_out |-> FALSE, lost |-> FALSE,
     rx |-> <<>>, tx |-> <<>>, tx_inflight |-> FALSE, tx_zlp |-> FALSE, packet |-> <<>>,
     T |-> "NAK", R |-> "NAK", ttog |-> 0, rtog |-> 0]
InitControl ==
    [state |-> "IDLE", left |-> 0, zlp |-> FALSE, len |-> 0, address |-> 0, pending |-> None,
     line |-> "line", T |-> "NAK", R |-> "ACK", ttog |-> 0, rtog |-> 0]
=============================================================================
