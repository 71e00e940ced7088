----------------------------- MODULE FrameCodec -----------------------------
(***************************************************************************)
(* The wire format (rbp_frame.c, wire.py): COBS and the receive parser.    *)
(*                                                                         *)
(* Bytes are 0..MaxCode, and MaxCode stands for 0xFF: a block holds at     *)
(* most MaxCode - 1 bytes.  A raw frame is header, payload and CRC in one  *)
(* sequence; Frames are those whose header and CRC are right, so the CRC   *)
(* is taken to be ideal.                                                   *)
(***************************************************************************)
EXTENDS Integers, Sequences

CONSTANTS
    MaxCode,   \* 0xFF
    RecvMax,   \* RBP_COBS_RECV_MAX
    Frames     \* the raw frames that are well formed

ASSUME CodecAssumption ==
    /\ MaxCode \in Nat \ {0, 1} /\ RecvMax \in Nat
    /\ Frames \subseteq Seq(0..MaxCode)

-----------------------------------------------------------------------------
\* encode_payload: one byte of the raw frame.  The code of the open block is written
\* once the block ends.
Closed(s) == [s EXCEPT !.out = Append([@ EXCEPT ![s.codep] = s.code], 0), !.code = 1,
                       !.codep = Len(s.out) + 1]

Encoded(s, b) ==
    IF b = 0 THEN Closed(s)
    ELSE LET t == [s EXCEPT !.out = Append(@, b), !.code = @ + 1]
         IN  IF t.code = MaxCode THEN Closed(t) ELSE t

\* A frame on the wire, with its delimiter.
Wire(raw) ==
    LET after[k \in 0..Len(raw)] == IF k = 0 THEN [out |-> <<0>>, codep |-> 1, code |-> 1]
                                    ELSE Encoded(after[k - 1], raw[k])
        s == after[Len(raw)]
    IN  Append([s.out EXCEPT ![s.codep] = s.code], 0)
Wires == [raw \in Frames |-> Wire(raw)]

\* rbp_cobs_decode with dst = src: one block is moved to where dst stands, byte by byte.
Moved(buf, rd, wr, n) ==
    LET after[k \in 0..n] == IF k = 0 THEN buf
                             ELSE [after[k - 1] EXCEPT ![wr + k - 1] = after[k - 1][rd + k - 1]]
    IN  after[n]

\* Mutant of Block: the zero that a short block stands for is left out.
BlockWithoutZero(s, len) ==
    LET code == s.buf[s.rd]
    IN  [s EXCEPT !.buf = Moved(s.buf, s.rd + 1, s.wr, code - 1),
                  !.rd = @ + code, !.wr = @ + code - 1]

\* A block at s.rd, and the zero it stands for unless it is full or the last one.
Block(s, len) ==
    LET code == s.buf[s.rd]
        moved == Moved(s.buf, s.rd + 1, s.wr, code - 1)
        zero == code < MaxCode /\ s.rd + code # len + 1
    IN  [s EXCEPT !.buf = IF zero THEN [moved EXCEPT ![s.wr + code - 1] = 0] ELSE moved,
                  !.rd = @ + code, !.wr = @ + code - 1 + IF zero THEN 1 ELSE 0]

\* The decoded bytes; empty for a record that is not COBS.
rbp_cobs_decode(buf) ==
    LET len == Len(buf)
        step[n \in 0..len] ==
            IF n = 0 THEN [buf |-> buf, rd |-> 1, wr |-> 1, ok |-> TRUE]
            ELSE LET s == step[n - 1]
                 IN  IF ~ s.ok \/ s.rd > len THEN s
                     ELSE IF s.buf[s.rd] = 0 \/ s.rd + s.buf[s.rd] > len + 1 THEN [s EXCEPT !.ok = FALSE]
                     ELSE Block(s, len)
    IN  IF step[len].ok THEN SubSeq(step[len].buf, 1, step[len].wr - 1) ELSE <<>>

-----------------------------------------------------------------------------
\* The parser: [st, buf].  rbp_rxparser_feed, byte by byte; ev is what it reports, FRAME
\* with the frame, GARBAGE, OVERFLOW or nothing.
Idle == [st |-> "IDLE", buf |-> <<>>]
Nothing == [t |-> "NONE", raw |-> <<>>]

Delimited(p) ==
    IF p.st # "IN_FRAME" THEN Nothing
    ELSE IF rbp_cobs_decode(p.buf) \in Frames THEN [t |-> "FRAME", raw |-> rbp_cobs_decode(p.buf)]
    ELSE [t |-> "GARBAGE", raw |-> <<>>]

Fed(p, b) ==
    CASE b = 0 -> [p |-> Idle, ev |-> Delimited(p)]
      [] b # 0 /\ p.st = "DISCARD" -> [p |-> p, ev |-> Nothing]
      [] b # 0 /\ p.st # "DISCARD" /\ Len(p.buf) >= RecvMax ->
            [p |-> [st |-> "DISCARD", buf |-> <<>>], ev |-> [t |-> "OVERFLOW", raw |-> <<>>]]
      [] OTHER -> [p |-> [st |-> "IN_FRAME", buf |-> Append(p.buf, b)], ev |-> Nothing]

\* A frame that takes longer than a second is dropped up to its delimiter.
TimedOut(p) == [st |-> "DISCARD", buf |-> <<>>]
=============================================================================
