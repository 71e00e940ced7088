----------------------------- MODULE GattClient -----------------------------
(***************************************************************************)
(* The GATT client (wch_gatt.c): submission of procedures and the bearer.  *)
(*                                                                         *)
(* The SDK message handler calls the adapter, which submits its next       *)
(* procedure from inside that call, so one handler is a chain of changes   *)
(* of one state.  The operators therefore take and return a work record w: *)
(*   op, found, off   cur_op, found_service, read_offset                   *)
(*   gen              changes of generation since the handler began        *)
(*   sdk              procedures the SDK has outstanding on this link      *)
(*   rcs              what the SDK says to the submissions of this handler *)
(*   commanded        was a Write Command accepted on this link?           *)
(*   a                the adapter (RemoteAdapter)                          *)
(*   go               does begin_next have to be called (RemoteAdapter)?   *)
(*   wc, bound        the radio's state and the bonded peer (Attachment)   *)
(*   store, end       the cache store and how a write to it ends           *)
(* and observers (confirmed, doubt, misled, blamed: Attachment).  A        *)
(* procedure is [op, st, part]: its kind, the adapter state that asked and *)
(* whether a first part of the answer was delivered.                       *)
(***************************************************************************)
EXTENDS Integers, Sequences, FiniteSets

\* The SDK's verdict on a submission: accepted; refused for want of memory or
\* because it is busy (RBP_GATT_RETRY); refused for good.
Verdicts == {"ok", "retry", "reject"}

Procedures == {"MTU", "SVC", "CHARS", "DESCS", "READ", "LONG", "WRITE"}

\* SDK: the verdicts of a handler's submissions, and acceptance after those.
Verdict(w) == IF w.rcs = <<>> THEN "ok" ELSE Head(w.rcs)
Spent(w) == IF w.rcs = <<>> THEN <<>> ELSE Tail(w.rcs)

-----------------------------------------------------------------------------
\* wch_gatt_set_conn; up is false for GAP_CONNHANDLE_INIT.
set_conn(w, up) ==
    [w EXCEPT !.op = IF up THEN "NONE" ELSE "FAILED", !.gen = @ + 1,
              !.sdk = {}, !.commanded = FALSE]

wch_gatt_quiesce(w) == [w EXCEPT !.op = "FAILED", !.gen = @ + 1]

\* What every op_* answers before it reaches the SDK, and the SDK's verdict.
result(w) ==
    CASE w.op = "FAILED" -> "reject"
      [] w.op # "NONE" -> "retry"
      [] OTHER -> Verdict(w)

asksSdk(w) == w.op = "NONE"

\* op_exchange_mtu ... op_write: an accepted procedure owns the bearer.
Submitted(w, kind) ==
    LET asked == [w EXCEPT !.rcs = IF asksSdk(w) THEN Spent(w) ELSE @]
    IN  IF result(w) # "ok" THEN asked
        ELSE [asked EXCEPT !.op = kind, !.gen = @ + 1,
                           !.found = IF kind = "SVC" THEN FALSE ELSE @,
                           !.off = IF kind = "LONG" THEN w.a.mapLen ELSE @,
                           !.sdk = @ \cup {[op |-> kind, st |-> w.a.st, part |-> FALSE]}]

\* op_command: a Write Command has no answer and owns nothing.
op_command(w) ==
    [w EXCEPT !.rcs = IF asksSdk(w) THEN Spent(w) ELSE @,
              !.commanded = @ \/ result(w) = "ok"]
=============================================================================
