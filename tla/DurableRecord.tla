---------------------------- MODULE DurableRecord ----------------------------
(***************************************************************************)
(* What the bond journal promises its callers: one record that changes     *)
(* atomically.  A write that was acknowledged is what every later power    *)
(* cycle finds; a write that failed or was cut short is found whole or not *)
(* at all.  Until a first record has been committed a cut may leave        *)
(* remains the firmware refuses to interpret (Corrupt).                    *)
(***************************************************************************)
CONSTANTS Values, Empty, Corrupt

VARIABLES
    durable,    \* what a power cycle would find now
    view,       \* what the callers see
    committed   \* is the record the callers see a committed one?

recordVars == <<durable, view, committed>>

Init == durable = Empty /\ view = Empty /\ committed = FALSE

Acknowledge(v) ==
    /\ view # Corrupt
    /\ durable' = v /\ view' = v /\ committed' = TRUE

\* A record the callers have seen committed is never lost.
KeepsCommitted == committed' \in BOOLEAN /\ (committed => committed')

\* An unacknowledged write of v.  What an earlier failed write had left behind
\* may be gone, never the record the callers see.
Outcome(v) ==
    /\ view # Corrupt
    /\ durable' \in {durable, view, v} \cup (IF committed THEN {} ELSE {Corrupt})
    /\ KeepsCommitted

Fail(v) == Outcome(v) /\ UNCHANGED view

PowerLoss(v) == Outcome(v) /\ view' = durable'

PowerCycle == view' = durable /\ UNCHANGED durable /\ KeepsCommitted

Unreadable == view' = Corrupt /\ UNCHANGED durable /\ KeepsCommitted

Next ==
    \/ \E v \in Values : Acknowledge(v) \/ Fail(v) \/ PowerLoss(v)
    \/ PowerCycle
    \/ Unreadable

Spec == Init /\ [][Next]_recordVars
=============================================================================
