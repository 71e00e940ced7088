--------------------------- MODULE PairTransaction ---------------------------
(***************************************************************************)
(* Pairing, forgetting and their recovery: the product server              *)
(* (rbp_server.c), the radio controller (wch_central.c) and the bond       *)
(* journal (board.c) around the SDK's own bond storage.                    *)
(*                                                                         *)
(* The SDK keeps its bond in another EEPROM area, so no single write makes *)
(* a pairing or a deletion durable.  The journal records the intent first  *)
(* (state 3 pairing, state 2 deleting), the SDK bond changes under it, and *)
(* the committed record (state 1) ends it.  Power may be lost anywhere.    *)
(*                                                                         *)
(* USB sessions, response frames and BLE discovery are left out: they do   *)
(* not touch what is durable.                                              *)
(***************************************************************************)
EXTENDS BoardJournal

CONSTANT SaveWhileDeleting  \* does the host change auto_reconnect during a deletion?

ASSUME HostAssumption == SaveWhileDeleting \in BOOLEAN

VARIABLES
    bond,             \* the SDK's bond storage: an identity or NoAddr
    wc_state,         \* IDLE, LINK (connecting or connected), CLOSING
    pairing_link,     \* was the link begun by a pairing?
    pair_pending, bond_ready,
    recovering, delete_report, erase_requested,
    radio_faulted, security_blocked,
    peer,             \* the server's peer record: [id, auto], id 0 when invalid
    op,               \* the server's asynchronous operation
    sdk_erasing,      \* the SDK was told to erase a bond it still holds
    reported,         \* observer: peer ids whose pairing was reported OK
    kept,             \* observer: the reported peer no deletion was begun for, or 0
    forgotten         \* observer: peer ids whose deletion was reported OK

observers == <<reported, kept, forgotten>>
centralVars == <<wc_state, pairing_link, pair_pending, bond_ready, recovering,
                 delete_report, erase_requested, radio_faulted, security_blocked>>
vars == <<journalVars, bond, sdk_erasing, centralVars, peer, op, observers>>

Unbound == [id |-> 0, auto |-> FALSE]

-----------------------------------------------------------------------------
\* Power on: rbp_server_init loads the peer and wch_central_init decides whether
\* a transaction has to be rolled back.  A corrupt store is a radio fault.
BootFlags(state, rec) ==
    /\ wc_state' = "IDLE" /\ pairing_link' = FALSE
    /\ pair_pending' = FALSE /\ bond_ready' = FALSE
    /\ recovering' = (state \in {2, 3})
    /\ delete_report' = FALSE /\ erase_requested' = FALSE
    /\ radio_faulted' = (state = 255) /\ security_blocked' = FALSE
    /\ peer' = IF state = 1 THEN [id |-> rec.peer, auto |-> rec.auto] ELSE Unbound
    /\ op' = "NONE"
    /\ sdk_erasing' = FALSE
    /\ UNCHANGED bond

Reboot == BootFlags(load_slots(slots').state, load_slots(slots').rec)

PowerCycle == slots' = slots /\ LoadFrom(slots) /\ Reboot /\ UNCHANGED observers

UnreadableBoot == LoadUnreadable /\ BootFlags(255, NoRecord) /\ UNCHANGED observers

\* Power lost inside the write of r.
Blackout(r) == CutShort(r) /\ Reboot /\ UNCHANGED observers

-----------------------------------------------------------------------------
\* rb_disconnect: a live link is closed; only the terminal event frees the radio.
rb_disconnect == wc_state' = IF wc_state = "LINK" THEN "CLOSING" ELSE wc_state

\* fail_pair: the server learns of the failure, the journal's intent is rolled
\* back from poll().
fail_pair ==
    /\ pair_pending' = FALSE
    /\ recovering' = (storage_state = 3)
    /\ delete_report' = FALSE /\ erase_requested' = FALSE
    /\ op' = IF op = "PAIR" THEN "NONE" ELSE op

\* PAIR_BEGIN and rb_pair_begin.  A busy radio, a faulted one or an occupied bond
\* store refuses and leaves everything as it was.
PairBegin ==
    /\ op = "NONE" /\ peer.id = 0
    /\ ~radio_faulted /\ ~recovering /\ wc_state = "IDLE" /\ bond = NoAddr
    /\ PairAllowed
    /\ \/ /\ Written(PairRecord) /\ staged' = NoAddr
          /\ op' = "PAIR" /\ pair_pending' = TRUE /\ bond_ready' = FALSE
          /\ security_blocked' = FALSE
          /\ wc_state' = "LINK" /\ pairing_link' = TRUE
          /\ UNCHANGED <<bond, sdk_erasing, recovering, delete_report,
                         erase_requested, radio_faulted, peer, observers>>
       \/ /\ NotWritten(PairRecord) /\ staged' = NoAddr
          /\ UNCHANGED <<bond, sdk_erasing, centralVars, peer, op, observers>>
       \/ Blackout(PairRecord)

\* The SDK bonds with the remote on the pairing link (external).  It does not
\* know that the product may have given up meanwhile.
SdkBonds ==
    /\ wc_state \in {"LINK", "CLOSING"} /\ pairing_link /\ bond = NoAddr
    /\ bond' \in Identities
    /\ UNCHANGED <<journalVars, sdk_erasing, centralVars, peer, op, observers>>

\* wc_pair_state_cb, BOND_SAVED.
BondSaved ==
    /\ wc_state = "LINK" /\ pair_pending /\ bond # NoAddr /\ ~bond_ready
    /\ bond_ready' = TRUE
    /\ UNCHANGED <<journalVars, bond, sdk_erasing, wc_state, pairing_link,
                   pair_pending, recovering, delete_report, erase_requested,
                   radio_faulted, security_blocked, peer, op, observers>>

\* A pairing is cancelled, times out, fails to authenticate or reads no identity.
PairFails ==
    /\ pair_pending
    /\ fail_pair /\ rb_disconnect
    /\ UNCHANGED <<journalVars, bond, sdk_erasing, pairing_link, bond_ready,
                   radio_faulted, security_blocked, peer, observers>>

\* finish_pair and rbp_server_on_pair_done: the identity read from the SDK is
\* staged and committed with the peer record.
FinishPair ==
    /\ wc_state = "LINK" /\ pair_pending /\ bond_ready /\ ~radio_faulted
    /\ LET id == board_peer_counter
           r == NewRecord(1, id, TRUE, id, bond)
       IN \/ /\ Written(r) /\ staged' = bond
             /\ pair_pending' = FALSE
             /\ op' = IF op = "PAIR" THEN "NONE" ELSE op
             /\ peer' = [id |-> id, auto |-> TRUE]
             /\ reported' = reported \cup {id} /\ kept' = id
             /\ UNCHANGED <<bond, sdk_erasing, wc_state, pairing_link, bond_ready,
                            recovering, delete_report, erase_requested,
                            radio_faulted, security_blocked, forgotten>>
          \/ /\ NotWritten(r) /\ staged' = bond
             /\ pair_pending' = FALSE
             /\ op' = IF op = "PAIR" THEN "NONE" ELSE op
             /\ recovering' = TRUE /\ delete_report' = FALSE /\ erase_requested' = FALSE
             /\ rb_disconnect
             /\ UNCHANGED <<bond, sdk_erasing, pairing_link, bond_ready,
                            radio_faulted, security_blocked, peer, observers>>
          \/ Blackout(r)

\* rb_connect_peer for the stored peer: the journal's address must be the bond's.
ConnectPeer ==
    /\ peer.id # 0 /\ wc_state = "IDLE"
    /\ ~radio_faulted /\ ~security_blocked /\ ~recovering
    /\ IF storage_state = 1 /\ current.peer # 0 /\ current.addr = bond /\ bond # NoAddr
       THEN wc_state' = "LINK" /\ pairing_link' = FALSE /\ UNCHANGED security_blocked
       ELSE security_blocked' = TRUE /\ UNCHANGED <<wc_state, pairing_link>>
    /\ UNCHANGED <<journalVars, bond, sdk_erasing, pair_pending, bond_ready, recovering,
                   delete_report, erase_requested, radio_faulted, peer, op, observers>>

\* wc_pair_state_cb: an unrequested pairing or a failed encryption on a link
\* that is not pairing.  The bond is kept and the user must act.
SecurityFailure ==
    /\ wc_state = "LINK" /\ ~pair_pending
    /\ security_blocked' = TRUE /\ rb_disconnect
    /\ UNCHANGED <<journalVars, bond, sdk_erasing, pairing_link, pair_pending, bond_ready,
                   recovering, delete_report, erase_requested, radio_faulted, peer, op,
                   observers>>

\* DISCONNECT, an adapter that fails or a deadline that retires the link.  A pairing on it
\* fails when the link is gone.
Disconnect ==
    /\ wc_state = "LINK"
    /\ rb_disconnect
    /\ UNCHANGED <<journalVars, bond, sdk_erasing, pairing_link, pair_pending, bond_ready,
                   recovering, delete_report, erase_requested, radio_faulted,
                   security_blocked, peer, op, observers>>

\* GAP_LINK_TERMINATED, or the failed completion of a connection attempt.
LinkTerminated ==
    /\ wc_state \in {"LINK", "CLOSING"}
    /\ wc_state' = "IDLE"
    /\ IF pair_pending THEN fail_pair
       ELSE UNCHANGED <<pair_pending, recovering, delete_report, erase_requested, op>>
    /\ UNCHANGED <<journalVars, bond, sdk_erasing, pairing_link, bond_ready,
                   radio_faulted, security_blocked, peer, observers>>

\* radio_fault: a cancellation never completed, or the SDK rejected a setup call.
\* Nothing but a reset clears it.
RadioFault ==
    /\ ~radio_faulted /\ radio_faulted' = TRUE
    /\ IF pair_pending THEN fail_pair /\ rb_disconnect
       ELSE UNCHANGED <<wc_state, pair_pending, recovering, delete_report,
                        erase_requested, op>>
    /\ UNCHANGED <<journalVars, bond, sdk_erasing, pairing_link, bond_ready,
                   security_blocked, peer, observers>>

-----------------------------------------------------------------------------
\* FORGET_PEER and rb_forget_peer: the delete intent is durable before anything
\* is erased.
ForgetPeer ==
    /\ op = "NONE" /\ peer.id # 0
    /\ \/ /\ Written(ForgetRecord) /\ UNCHANGED staged
          /\ op' = "FORGET"
          /\ recovering' = TRUE /\ delete_report' = TRUE /\ erase_requested' = FALSE
          /\ rb_disconnect
          /\ kept' = 0
          /\ UNCHANGED <<bond, sdk_erasing, pairing_link, pair_pending, bond_ready,
                         radio_faulted, security_blocked, peer, reported, forgotten>>
       \/ /\ NotWritten(ForgetRecord) /\ UNCHANGED staged
          /\ kept' = IF ReadbackFaults THEN 0 ELSE kept
          /\ UNCHANGED <<bond, sdk_erasing, centralVars, peer, op, reported, forgotten>>
       \/ CutShort(ForgetRecord) /\ Reboot /\ kept' = 0 /\ UNCHANGED <<reported, forgotten>>

\* The server stops waiting for the radio; the radio does not stop.
ForgetTimeout ==
    /\ op = "FORGET" /\ op' = "NONE"
    /\ UNCHANGED <<journalVars, bond, sdk_erasing, centralVars, peer, observers>>

\* SET_RECONNECT with a changed value: committed before it is answered.
SetReconnect ==
    /\ peer.id # 0
    /\ SaveWhileDeleting \/ storage_state = 1
    /\ LET r == SaveRecord(peer.id, ~peer.auto)
       IN \/ /\ Written(r) /\ UNCHANGED staged
             /\ peer' = [peer EXCEPT !.auto = ~peer.auto]
             /\ UNCHANGED <<bond, sdk_erasing, centralVars, op, observers>>
          \/ /\ NotWritten(r) /\ UNCHANGED staged
             /\ UNCHANGED <<bond, sdk_erasing, centralVars, peer, op, observers>>
          \/ Blackout(r)

-----------------------------------------------------------------------------
\* Mutant of CanRecover: the link may still be closing.
CanRecoverOnLink == recovering /\ ~radio_faulted

\* poll() while recovering.  Nothing is erased before the link is gone.
CanRecover == recovering /\ ~radio_faulted /\ wc_state = "IDLE"

RequestErase ==
    /\ CanRecover /\ ~erase_requested
    /\ erase_requested' = TRUE
    /\ sdk_erasing' = (bond # NoAddr)
    /\ UNCHANGED <<journalVars, bond, wc_state, pairing_link, pair_pending, bond_ready,
                   recovering, delete_report, radio_faulted, security_blocked, peer, op,
                   observers>>

\* The SDK erases its bond storage (external).
SdkErases ==
    /\ sdk_erasing
    /\ bond' = NoAddr /\ sdk_erasing' = FALSE
    /\ UNCHANGED <<journalVars, centralVars, peer, op, observers>>

RecoveryEnds == recovering' = FALSE /\ security_blocked' = FALSE

\* Mutant of DropPeer: the server keeps its copy of the peer.
DropPeerLater == UNCHANGED peer

\* The server's copy of the peer, once the record is cleared.
DropPeer == peer' = Unbound

\* The bond count is zero: commit the empty record.  rbp_server_on_forget_done
\* for a requested deletion, board_store.clear otherwise.
FinishRecovery ==
    /\ CanRecover /\ erase_requested /\ bond = NoAddr
    /\ \/ /\ Written(ClearRecord) /\ staged' = NoAddr
          /\ RecoveryEnds
          /\ DropPeer
          /\ op' = IF delete_report /\ op = "FORGET" THEN "NONE" ELSE op
          /\ forgotten' = IF delete_report THEN forgotten \cup {peer.id} ELSE forgotten
          /\ UNCHANGED <<bond, sdk_erasing, wc_state, pairing_link, pair_pending,
                         bond_ready, delete_report, erase_requested, radio_faulted,
                         reported, kept>>
       \/ /\ NotWritten(ClearRecord) /\ staged' = NoAddr
          /\ RecoveryEnds
          /\ op' = IF delete_report /\ op = "FORGET" THEN "NONE" ELSE op
          /\ UNCHANGED <<bond, sdk_erasing, wc_state, pairing_link, pair_pending,
                         bond_ready, delete_report, erase_requested, radio_faulted,
                         peer, observers>>
       \/ Blackout(ClearRecord)

\* A faulted radio, or five seconds without an empty bond store.  The journal
\* keeps its intent for the next boot.
AbandonRecovery ==
    /\ recovering /\ (radio_faulted \/ wc_state = "IDLE")
    /\ recovering' = FALSE
    /\ op' = IF delete_report /\ op = "FORGET" THEN "NONE" ELSE op
    /\ UNCHANGED <<journalVars, bond, sdk_erasing, wc_state, pairing_link, pair_pending,
                   bond_ready, delete_report, erase_requested, radio_faulted,
                   security_blocked, peer, observers>>

-----------------------------------------------------------------------------
Init ==
    /\ JournalInit
    /\ bond = NoAddr /\ sdk_erasing = FALSE
    /\ wc_state = "IDLE" /\ pairing_link = FALSE
    /\ pair_pending = FALSE /\ bond_ready = FALSE
    /\ recovering = FALSE /\ delete_report = FALSE /\ erase_requested = FALSE
    /\ radio_faulted = FALSE /\ security_blocked = FALSE
    /\ peer = Unbound /\ op = "NONE"
    /\ reported = {} /\ kept = 0 /\ forgotten = {}

Next ==
    \/ PairBegin \/ SdkBonds \/ BondSaved \/ PairFails \/ FinishPair
    \/ ConnectPeer \/ SecurityFailure \/ Disconnect \/ LinkTerminated \/ RadioFault
    \/ ForgetPeer \/ ForgetTimeout \/ SetReconnect
    \/ RequestErase \/ SdkErases \/ FinishRecovery \/ AbandonRecovery
    \/ PowerCycle \/ UnreadableBoot

Spec == Init /\ [][Next]_vars

-----------------------------------------------------------------------------
\* What the next boot would find.
OnFlash == load_slots(slots)

Bound(l) == l.state = 1 /\ l.rec.peer # 0
Free(l) == l.state = 0 \/ (l.state = 1 /\ l.rec.peer = 0)

\* board.c, wch_central.c, rbp_server.c: the variables keep their types, peer ids and
\* generations their width.
PairTypeOK ==
    /\ slots \in [0..1 -> Pages]
    /\ current \in Records \cup {NoRecord}
    /\ current_slot \in -1..1
    /\ storage_state \in {0, 1, 2, 3, 255}
    /\ staged \in Addresses
    /\ bond \in Addresses
    /\ wc_state \in {"IDLE", "LINK", "CLOSING"}
    /\ \A b \in {pairing_link, pair_pending, bond_ready, recovering, delete_report,
                 erase_requested, radio_faulted, security_blocked, sdk_erasing} :
          b \in BOOLEAN
    /\ peer \in [id : 0..MaxCounter, auto : BOOLEAN]
    /\ op \in {"NONE", "PAIR", "FORGET"}
    /\ reported \subseteq 1..MaxCounter
    /\ forgotten \subseteq 1..MaxCounter
    /\ kept \in 0..MaxCounter

\* board.c:72-74, wire-protocol.md:209: at every instant a power cycle would find
\* a bound record only together with the SDK bond of the same identity, and a free
\* record only together with an empty bond store.
CrashConsistent ==
    /\ Bound(OnFlash) => bond = OnFlash.rec.addr /\ bond # NoAddr
    /\ Free(OnFlash) => bond = NoAddr

\* board.c:110-112: the SDK's bond is erased only while the EEPROM says that a
\* pairing or a deletion is being rolled back.
EraseUnderIntent == [][bond # NoAddr /\ bond' = NoAddr => OnFlash.state \in {2, 3}]_vars

\* board.c:167 and finish_pair: a pairing in progress owns a peer id that no
\* reported pairing ever had, across power cycles and failed writes.
FreshPeerId == pair_pending => \A id \in reported : id < board_peer_counter

\* wire-protocol.md:207: a pairing that was reported OK is still there after any
\* power cycle, with its bond, until its deletion is begun.
ReportedPairingKept ==
    kept # 0 => Bound(OnFlash) /\ OnFlash.rec.peer = kept /\ bond = OnFlash.rec.addr

\* wire-protocol.md:209: a deletion that was reported OK is never undone.
ForgottenStaysForgotten ==
    peer.id \notin forgotten /\ (Bound(OnFlash) => OnFlash.rec.peer \notin forgotten)

\* board.c:121-122 ("slot one must still be erased") and wire-protocol.md:209: power
\* cuts alone never leave an EEPROM that the firmware refuses to recover.
AlwaysRecoverable == OnFlash.state # 255
=============================================================================
