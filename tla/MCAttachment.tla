---------------------------- MODULE MCAttachment ----------------------------
(***************************************************************************)
(* Remotes for model checking Attachment: a Xiaomi remote with everything, *)
(* one with the least, a Unicom remote and one that is not supported.      *)
(***************************************************************************)
EXTENDS Attachment, TLC

Rep(id, type, cccd) ==
    [id |-> id, type |-> type, ref |-> TRUE, cccd |-> cccd, room |-> TRUE, fit |-> TRUE]

Common == {"hid", "hidInfo", "map"}
Announces == {"gatt", "changed", "changedCccd"}
Atvv == {"atvv", "tx", "ctl", "ctlCccd", "audio", "audioCccd"}

\* Everything optional is there, and the Report Map takes two responses.
Full ==
    [has |-> Common \cup Announces \cup Atvv \cup {"mode", "bat", "level", "levelCccd"},
     odd |-> {}, twice |-> {}, reports |-> <<Rep(1, 1, TRUE), Rep(2, 2, FALSE)>>,
     map |-> [kind |-> "rc003", inputs |-> {1}], chunks |-> 2, exact |-> FALSE]

\* Nothing optional, a report without a descriptor and one that is not kept, a Report Map
\* that fills a response.
Plain ==
    [has |-> Common \cup Atvv, odd |-> {}, twice |-> {},
     reports |-> <<[Rep(1, 1, FALSE) EXCEPT !.room = FALSE], Rep(1, 1, TRUE), Rep(2, 1, TRUE)>>,
     map |-> [kind |-> "rc003", inputs |-> {1}], chunks |-> 1, exact |-> TRUE]

Unicom ==
    [has |-> Common \cup Announces \cup {"fd00", "fd", "fdCccd", "mode"}, odd |-> {}, twice |-> {},
     reports |-> <<Rep(1, 1, TRUE), Rep(3, 2, FALSE)>>,
     map |-> [kind |-> "unicom", inputs |-> {1}], chunks |-> 1, exact |-> FALSE]

\* An input report that cannot notify.
Deaf == [Plain EXCEPT !.reports = <<Rep(1, 1, FALSE)>>]

\* Another keyboard.
Stranger == [Plain EXCEPT !.map.kind = "other"]

Remotes == [full |-> Full, plain |-> Plain, unicom |-> Unicom, deaf |-> Deaf,
            stranger |-> Stranger]

\* A fault and a lost link; a fault and a power cut; a power cut and a second pairing; the
\* remote changes once in each.
Budget(faults, drops, cuts, changes, peers) ==
    [faults |-> faults, drops |-> drops, cuts |-> cuts, changes |-> changes, peers |-> peers]
OneFault == {Budget(1, 0, 0, 0, 1)}
Mix == {Budget(1, 1, 0, 1, 1), Budget(1, 0, 1, 1, 1), Budget(0, 0, 1, 1, 2)}
=============================================================================
