----------------------------- MODULE PairProofs -----------------------------
(***************************************************************************)
(* Pairing, deletion and their recovery for every number of writes,        *)
(* pairings and remotes: whatever is cut short, the journal and the SDK's  *)
(* bond fit together, reported results last and peer ids are not reused.   *)
(*                                                                         *)
(* The proofs take the host and the EEPROM as the pairing run does: the    *)
(* read that verifies a commit word does not fail, and auto_reconnect is   *)
(* not changed during a deletion.                                          *)
(***************************************************************************)
EXTENDS PairRadioProofs

-----------------------------------------------------------------------------
\* The steps that write the journal.

\* The counter is that of the record in use, and no id in use exceeds it.
LEMMA CounterFacts ==
    ASSUME PairInv, storage_state # 255
    PROVE  /\ board_peer_counter \in 0..MaxCounter
           /\ storage_state # 0 => /\ HasRecord /\ current \in Records
                                   /\ board_peer_counter = current.counter
           /\ \A id \in Known : id <= board_peer_counter
<1>1. FlashFacts
  BY FlashView DEF PairInv
<1>2. storage_state # 0 => /\ HasRecord /\ current \in Records
                           /\ board_peer_counter = current.counter
  BY <1>1 DEF FlashFacts, HasRecord, board_peer_counter
<1>3. storage_state = 0 => board_peer_counter = 0
  BY <1>1 DEF FlashFacts, board_peer_counter
<1>4. board_peer_counter \in 0..MaxCounter
  BY <1>2, <1>3, JournalAssumption DEF Records
<1>5. \A id \in Known : id <= board_peer_counter
  BY <1>1, <1>2 DEF FlashFacts, PairInv, Outside
<1> QED BY <1>2, <1>4, <1>5

\* The fields of the four records.
LEMMA RecordFields ==
    /\ PairRecord.state = 3 /\ PairRecord.counter = board_peer_counter + 1
    /\ ForgetRecord.state = 2 /\ ForgetRecord.counter = board_peer_counter
    /\ ClearRecord.state = 1 /\ ClearRecord.peer = 0 /\ ClearRecord.counter = board_peer_counter
    /\ \A id, auto : /\ SaveRecord(id, auto).state = 1 /\ SaveRecord(id, auto).peer = id
                     /\ SaveRecord(id, auto).counter = board_peer_counter
                     /\ id # 0 => SaveRecord(id, auto).addr = staged
  BY DEF PairRecord, ForgetRecord, ClearRecord, SaveRecord, NewRecord

\* Power lost inside a write of r.
LEMMA BlackoutInv ==
    ASSUME PairInv, NEW r, Legal(r), CutShort(r), Reboot, Fits(r), Observes
    PROVE  PairInv'
<1>1. bond' = bond
  BY DEF Reboot, BootFlags
<1>2. /\ FlashInv' /\ Outside'
      /\ OnFlash' = Loaded(current_slot', current', storage_state')
      /\ staged' = IF current_slot' = -1 THEN NoAddr ELSE current'.addr
  BY <1>1, CutOutside
<1>3. PairTypeOK /\ Ids
  BY JournalAssumption DEF PairInv, PairTypeOK, Observes, Ids
<1> QED BY <1>2, <1>3, BootInv

\* PAIR_BEGIN: the intent is on the flash before the radio is asked for a link.
LEMMA PairBeginInv == ASSUME PairInv, ~ReadbackFaults, PairBegin PROVE PairInv'
<1>1. storage_state # 255 /\ bond = NoAddr /\ peer.id = 0 /\ ~recovering /\ wc_state = "IDLE"
      /\ (storage_state = 1 => current.peer = 0) /\ PairAllowed
  BY DEF PairBegin, PairAllowed
<1>2. kept = 0
  BY <1>1, FlashView DEF PairInv, Outside, FlashFacts
<1>3. /\ board_peer_counter \in 0..MaxCounter
      /\ \A id \in Known : id <= board_peer_counter
  BY <1>1, CounterFacts
<1>4. Writable => Legal(PairRecord)
  BY <1>1, LegalRecords DEF PairInv, FlashInv
<1>5. UNCHANGED observers => Observes /\ Fits(PairRecord) /\ Known' = Known
  <2> SUFFICES ASSUME UNCHANGED observers PROVE Observes /\ Fits(PairRecord) /\ Known' = Known
    OBVIOUS
  <2>1. reported' = reported /\ forgotten' = forgotten /\ kept' = kept
    BY DEF observers
  <2>2. Known' = Known
    BY <2>1 DEF Known
  <2>3. \A id \in Known : id <= board_peer_counter + 1
    <3>1. \A id \in Known : id \in Int
      BY DEF Known, PairInv, PairTypeOK
    <3> QED BY <1>3, <3>1
  <2> QED BY <1>2, <2>1, <2>2, <2>3, RecordFields DEF Observes, Fits
<1>6. NoAddr \in Addresses
  BY DEF Addresses
<1>7. CASE /\ Written(PairRecord) /\ staged' = NoAddr
           /\ op' = "PAIR" /\ pair_pending' = TRUE /\ bond_ready' = FALSE
           /\ security_blocked' = FALSE
           /\ wc_state' = "LINK" /\ pairing_link' = TRUE
           /\ UNCHANGED <<bond, sdk_erasing, recovering, delete_report,
                          erase_requested, radio_faulted, peer, observers>>
  <2>1. Acked(PairRecord)
    BY <1>4, <1>6, <1>7 DEF Acked, Written
  <2>2. /\ FlashInv' /\ Outside'
        /\ current' = PairRecord /\ storage_state' = PairRecord.state
    BY <1>5, <1>7, <2>1, AckedOutside
  <2>3. PairTypeOK'
    <3>1. TypeOK'
      BY <2>2 DEF FlashInv, JournalInv
    <3> QED BY <1>7, <3>1 DEF PairInv, PairTypeOK, TypeOK, observers
  <2>4. /\ storage_state' = 3 /\ current'.counter # 0
        /\ \A id \in Known' : id < current'.counter
    <3>1. \A id \in Known : id \in Int
      BY DEF Known, PairInv, PairTypeOK
    <3> QED BY <1>3, <1>5, <1>7, <2>2, <3>1, RecordFields
  <2>5. ~sdk_erasing'
    BY <1>1, <1>7 DEF PairInv, Inside
  <2>6. Inside'
    BY <1>1, <1>7, <2>4, <2>5 DEF Inside
  <2> QED BY <2>2, <2>3, <2>6 DEF PairInv
<1>8. CASE /\ NotWritten(PairRecord) /\ staged' = NoAddr
           /\ UNCHANGED <<bond, sdk_erasing, centralVars, peer, op, observers>>
  <2>1. /\ FlashInv' /\ Outside' /\ current' = current /\ storage_state' = storage_state
    BY <1>1, <1>4, <1>5, <1>6, <1>8, FailedOutside
  <2>2. PairTypeOK'
    BY <1>8, <2>1 DEF PairInv, PairTypeOK, FlashInv, JournalInv, TypeOK, centralVars, observers
  <2>3. Inside'
    BY <1>1, <1>5, <1>8, <2>1 DEF PairInv, Inside, centralVars, observers
  <2> QED BY <2>1, <2>2, <2>3 DEF PairInv
<1>9. CASE Blackout(PairRecord)
  BY <1>4, <1>5, <1>9, BlackoutInv DEF Blackout, CutShort
<1> QED BY <1>7, <1>8, <1>9 DEF PairBegin

\* The record finish_pair saves.
PeerRecord == NewRecord(1, board_peer_counter, TRUE, board_peer_counter, bond)

\* finish_pair: the committed record names the bond and an id nobody has had.
LEMMA FinishPairInv == ASSUME PairInv, ~ReadbackFaults, FinishPair PROVE PairInv'
<1>1. /\ pair_pending /\ bond_ready /\ wc_state = "LINK" /\ pairing_link
      /\ storage_state = 3 /\ peer.id = 0 /\ bond # NoAddr /\ ~recovering
      /\ current.counter # 0 /\ \A id \in Known : id < current.counter
  BY DEF FinishPair, PairInv, Inside
<1>2. kept = 0
  BY SMTT(60), <1>1, FlashView DEF PairInv, Outside, FlashFacts
<1>3. /\ board_peer_counter \in 1..MaxCounter /\ current \in Records
      /\ board_peer_counter = current.counter /\ HasRecord
  BY <1>1, CounterFacts
<1>4. bond \in Addresses /\ sdk_erasing = FALSE
  BY <1>1 DEF PairInv, PairTypeOK, Inside
<1>5. /\ PeerRecord.state = 1 /\ PeerRecord.peer = current.counter
      /\ PeerRecord.counter = current.counter /\ PeerRecord.addr = bond
  BY <1>3 DEF PeerRecord, NewRecord
<1>6. Writable => Legal(PeerRecord)
  <2>1. Writable => Generation + 1 \in 1..MaxGen
    BY <1>3, JournalAssumption DEF Writable, Generation, Records
  <2>2. Writable => PeerRecord \in Records /\ PeerRecord.gen = Generation + 1
    BY <1>3, <1>4, <2>1 DEF PeerRecord, NewRecord, Records
  <2> QED BY <1>3, <2>2 DEF Legal, HasRecord
<1>7. \A id \in Known : id \in Int
  BY DEF Known, PairInv, PairTypeOK
<1>8. current.counter \notin forgotten
  BY <1>1, <1>3, <1>7 DEF Known
<1>9. CASE /\ Written(PeerRecord) /\ staged' = bond
           /\ pair_pending' = FALSE
           /\ op' = IF op = "PAIR" THEN "NONE" ELSE op
           /\ peer' = [id |-> board_peer_counter, auto |-> TRUE]
           /\ reported' = reported \cup {board_peer_counter} /\ kept' = board_peer_counter
           /\ UNCHANGED <<bond, sdk_erasing, wc_state, pairing_link, bond_ready,
                          recovering, delete_report, erase_requested,
                          radio_faulted, security_blocked, forgotten>>
  <2>1. Acked(PeerRecord)
    BY <1>4, <1>6, <1>9 DEF Acked, Written
  <2>2. \A id \in Known' : id <= current.counter
    <3>1. Known' = Known \cup {current.counter}
      BY <1>3, <1>9 DEF Known
    <3> QED BY <1>1, <1>3, <1>7, <3>1
  <2>3. Fits(PeerRecord)
    BY SMTT(60), <1>1, <1>3, <1>5, <1>8, <1>9, <2>2 DEF Fits
  <2>4. /\ FlashInv' /\ Outside' /\ current' = PeerRecord /\ storage_state' = 1
    BY <1>5, <1>9, <2>1, <2>3, AckedOutside
  <2>5. PairTypeOK'
    <3>1. TypeOK'
      BY <2>4 DEF FlashInv, JournalInv
    <3>2. /\ peer' \in [id : 0..MaxCounter, auto : BOOLEAN]
          /\ reported' \subseteq 1..MaxCounter /\ kept' \in 0..MaxCounter
      <4>1. board_peer_counter \in 0..MaxCounter /\ reported \subseteq 1..MaxCounter
        BY <1>3, JournalAssumption DEF PairInv, PairTypeOK
      <4> QED BY <1>3, <1>9, <4>1
    <3>3. op' \in {"NONE", "PAIR", "FORGET"}
      BY <1>9 DEF PairInv, PairTypeOK
    <3> QED BY ZenonT(60), <1>9, <3>1, <3>2, <3>3 DEF PairInv, PairTypeOK, TypeOK
  <2>6. peer'.id = current.counter
    BY <1>3, <1>9
  <2>7. Inside'
    BY SMTT(60), <1>1, <1>3, <1>4, <1>5, <1>8, <1>9, <2>4, <2>6 DEF Inside
  <2> QED BY <2>4, <2>5, <2>7 DEF PairInv
<1>10. CASE /\ NotWritten(PeerRecord) /\ staged' = bond
            /\ pair_pending' = FALSE
            /\ op' = IF op = "PAIR" THEN "NONE" ELSE op
            /\ recovering' = TRUE /\ delete_report' = FALSE /\ erase_requested' = FALSE
            /\ rb_disconnect
            /\ UNCHANGED <<bond, sdk_erasing, pairing_link, bond_ready,
                           radio_faulted, security_blocked, peer, observers>>
  <2>1. Observes
    BY <1>10 DEF Observes, observers
  <2>2. FlashInv' /\ Outside' /\ current' = current /\ storage_state' = storage_state
    BY <1>1, <1>4, <1>6, <1>10, <2>1, FailedOutside
  <2>3. PairTypeOK'
    <3>1. TypeOK'
      BY <2>2 DEF FlashInv, JournalInv
    <3>2. op' \in {"NONE", "PAIR", "FORGET"} /\ wc_state' \in {"IDLE", "LINK", "CLOSING"}
      BY <1>10 DEF PairInv, PairTypeOK, rb_disconnect
    <3> QED BY <1>10, <3>1, <3>2 DEF PairInv, PairTypeOK, TypeOK, observers
  <2>4. Inside'
    BY SMTT(60), <1>1, <1>4, <1>10, <2>2 DEF Inside
  <2> QED BY <2>2, <2>3, <2>4 DEF PairInv
<1>11. CASE Blackout(PeerRecord)
  <2>1. Observes /\ Known' = Known /\ kept' = 0 /\ forgotten' = forgotten
    BY <1>2, <1>11 DEF Blackout, Observes, observers, Known
  <2>2. Fits(PeerRecord)
    BY <1>1, <1>3, <1>5, <1>7, <1>8, <2>1 DEF Fits, Records
  <2> QED BY <1>6, <1>11, <2>1, <2>2, BlackoutInv DEF Blackout, CutShort
<1> QED BY <1>9, <1>10, <1>11 DEF FinishPair, PeerRecord

\* FORGET_PEER: the intent to delete is on the flash before anything is erased.
LEMMA ForgetPeerInv == ASSUME PairInv, ~ReadbackFaults, ForgetPeer PROVE PairInv'
<1>1. /\ peer.id # 0 /\ storage_state \in {1, 2} /\ peer.id <= current.counter
      /\ peer.id \notin forgotten
  BY DEF ForgetPeer, PairInv, Inside
<1>2. /\ board_peer_counter = current.counter /\ HasRecord /\ current \in Records
      /\ \A id \in Known : id <= current.counter
  BY <1>1, CounterFacts
<1>3. Writable => Legal(ForgetRecord)
  BY <1>2, LegalRecords DEF PairInv, FlashInv
<1>4. pair_pending = FALSE /\ staged \in Addresses
  BY <1>1 DEF PairInv, PairTypeOK, Inside
<1>5. ASSUME kept' = 0, reported' = reported, forgotten' = forgotten
      PROVE  Observes /\ Fits(ForgetRecord) /\ Known' = Known
  BY <1>2, <1>5, RecordFields DEF Observes, Fits, Known
<1>6. CASE /\ Written(ForgetRecord) /\ UNCHANGED staged
           /\ op' = "FORGET"
           /\ recovering' = TRUE /\ delete_report' = TRUE /\ erase_requested' = FALSE
           /\ rb_disconnect
           /\ kept' = 0
           /\ UNCHANGED <<bond, sdk_erasing, pairing_link, pair_pending, bond_ready,
                          radio_faulted, security_blocked, peer, reported, forgotten>>
  <2>1. Acked(ForgetRecord)
    BY <1>3, <1>4, <1>6 DEF Acked, Written
  <2>2. /\ FlashInv' /\ Outside' /\ current' = ForgetRecord
        /\ storage_state' = ForgetRecord.state
    BY <1>5, <1>6, <2>1, AckedOutside
  <2>3. storage_state' = 2 /\ current'.counter = current.counter
    BY <1>2, <2>2, RecordFields
  <2>4. PairTypeOK'
    <3>1. TypeOK'
      BY <2>2 DEF FlashInv, JournalInv
    <3>2. wc_state' \in {"IDLE", "LINK", "CLOSING"} /\ kept' \in 0..MaxCounter
      BY SMTT(60), <1>6, JournalAssumption DEF PairInv, PairTypeOK, rb_disconnect
    <3> QED BY <1>6, <3>1, <3>2 DEF PairInv, PairTypeOK, TypeOK
  <2>5. sdk_erasing' => bond' # NoAddr
    BY <1>6 DEF PairInv, Inside
  <2>6. Inside'
    BY SMTT(60), <1>1, <1>4, <1>6, <2>3, <2>5 DEF Inside
  <2> QED BY <2>2, <2>4, <2>6 DEF PairInv
<1>7. CASE /\ NotWritten(ForgetRecord) /\ UNCHANGED staged
           /\ kept' = IF ReadbackFaults THEN 0 ELSE kept
           /\ UNCHANGED <<bond, sdk_erasing, centralVars, peer, op, reported, forgotten>>
  <2>1. Observes /\ UNCHANGED observers
    BY <1>7 DEF Observes, observers
  <2>2. FlashInv' /\ Outside' /\ current' = current /\ storage_state' = storage_state
    BY <1>1, <1>3, <1>4, <1>7, <2>1, FailedOutside
  <2>3. PairTypeOK'
    <3>1. TypeOK'
      BY <2>2 DEF FlashInv, JournalInv
    <3> QED BY <1>7, <2>1, <3>1, StillTypes DEF PairInv
  <2>4. Inside'
    BY <1>7, <2>1, <2>2, StillInside DEF PairInv
  <2> QED BY <2>2, <2>3, <2>4 DEF PairInv
<1>8. CASE CutShort(ForgetRecord) /\ Reboot /\ kept' = 0 /\ UNCHANGED <<reported, forgotten>>
  BY <1>3, <1>5, <1>8, BlackoutInv DEF CutShort
<1> QED BY <1>6, <1>7, <1>8 DEF ForgetPeer

\* SET_RECONNECT outside a deletion: the same peer with the same address.
LEMMA SetReconnectInv ==
    ASSUME PairInv, ~ReadbackFaults, ~SaveWhileDeleting, SetReconnect
    PROVE  PairInv'
<1> DEFINE r == SaveRecord(peer.id, ~peer.auto)
<1>1. /\ peer.id # 0 /\ storage_state = 1 /\ peer.id <= current.counter
      /\ current.peer = peer.id /\ staged = current.addr /\ peer.id \notin forgotten
  BY DEF SetReconnect, PairInv, Inside
<1>2. /\ board_peer_counter = current.counter /\ HasRecord /\ current \in Records
      /\ \A id \in Known : id <= current.counter
  BY <1>1, CounterFacts
<1>3. peer \in [id : 0..MaxCounter, auto : BOOLEAN] /\ staged \in Addresses
  BY DEF PairInv, PairTypeOK
<1>4. peer.id \in 1..MaxCounter /\ (~peer.auto) \in BOOLEAN
  BY <1>1, <1>3, JournalAssumption
<1>5. Writable => Legal(r)
  BY <1>2, <1>4, LegalRecords DEF PairInv, FlashInv
<1>6. /\ r.state = 1 /\ r.peer = peer.id /\ r.counter = current.counter /\ r.addr = current.addr
  <2>1. r.state = 1 /\ r.peer = peer.id /\ r.counter = board_peer_counter
        /\ (peer.id # 0 => r.addr = staged)
    BY RecordFields
  <2> QED BY <1>1, <1>2, <2>1
<1>7. /\ bond = current.addr /\ bond # NoAddr
      /\ kept # 0 => kept = peer.id
  <2>1. OnFlash = Loaded(current_slot, current, 1)
    BY SMTT(60), <1>1, FlashView DEF PairInv, FlashFacts
  <2>2. OnFlash.state = 1 /\ OnFlash.rec = current /\ Bound(OnFlash)
    BY <1>1, <2>1 DEF Loaded, Bound
  <2> QED BY <1>1, <2>2 DEF PairInv, Outside, CrashConsistent
<1>8. ~pair_pending /\ ~recovering /\ ~sdk_erasing
  BY <1>1 DEF PairInv, Inside
<1> HIDE DEF r
<1>9. UNCHANGED observers => Observes /\ Fits(r) /\ Known' = Known
  BY <1>1, <1>2, <1>6, <1>7 DEF observers, Observes, Fits, Known
<1>10. CASE /\ Written(r) /\ UNCHANGED staged
            /\ peer' = [peer EXCEPT !.auto = ~peer.auto]
            /\ UNCHANGED <<bond, sdk_erasing, centralVars, op, observers>>
  <2>1. Acked(r)
    BY <1>3, <1>5, <1>10 DEF Acked, Written
  <2>2. FlashInv' /\ Outside' /\ current' = r /\ storage_state' = 1
    BY <1>6, <1>9, <1>10, <2>1, AckedOutside
  <2>3. peer' \in [id : 0..MaxCounter, auto : BOOLEAN] /\ peer'.id = peer.id
    BY <1>3, <1>4, <1>10
  <2>4. PairTypeOK'
    <3>1. TypeOK'
      BY <2>2 DEF FlashInv, JournalInv
    <3> QED BY <1>10, <2>3, <3>1 DEF PairInv, PairTypeOK, TypeOK, centralVars, observers
  <2>5. Inside'
    BY <1>1, <1>6, <1>8, <1>10, <2>2, <2>3 DEF PairInv, Inside, centralVars, observers
  <2> QED BY <2>2, <2>4, <2>5 DEF PairInv
<1>11. CASE /\ NotWritten(r) /\ UNCHANGED staged
            /\ UNCHANGED <<bond, sdk_erasing, centralVars, peer, op, observers>>
  <2>1. FlashInv' /\ Outside' /\ current' = current /\ storage_state' = storage_state
    BY <1>1, <1>3, <1>5, <1>9, <1>11, FailedOutside
  <2>2. PairTypeOK'
    <3>1. TypeOK'
      BY <2>1 DEF FlashInv, JournalInv
    <3> QED BY <1>11, <3>1, StillTypes DEF PairInv
  <2>3. Inside'
    BY <1>11, <2>1, StillInside DEF PairInv
  <2> QED BY <2>1, <2>2, <2>3 DEF PairInv
<1>12. CASE Blackout(r)
  BY <1>5, <1>9, <1>12, BlackoutInv DEF Blackout, CutShort
<1> QED BY <1>10, <1>11, <1>12 DEF SetReconnect, r

\* poll(): the record is cleared once the SDK's bond store is empty.
LEMMA FinishRecoveryInv == ASSUME PairInv, ~ReadbackFaults, FinishRecovery PROVE PairInv'
<1>1. /\ recovering /\ wc_state = "IDLE" /\ bond = NoAddr /\ storage_state \in {2, 3}
      /\ delete_report => peer.id # 0
  BY DEF FinishRecovery, CanRecover, PairInv, Inside
<1>2. kept = 0
  BY SMTT(60), <1>1, FlashView DEF PairInv, Outside, FlashFacts
<1>3. /\ board_peer_counter = current.counter /\ HasRecord /\ current \in Records
      /\ \A id \in Known : id <= current.counter
  BY <1>1, CounterFacts
<1>4. Writable => Legal(ClearRecord)
  BY <1>3, LegalRecords DEF PairInv, FlashInv
<1>5. pair_pending = FALSE /\ sdk_erasing = FALSE /\ NoAddr \in Addresses
  BY <1>1 DEF PairInv, PairTypeOK, Inside, Addresses
<1>6. ClearRecord.state = 1 /\ ClearRecord.peer = 0 /\ ClearRecord.counter = current.counter
  BY <1>3, RecordFields
<1>7. CASE /\ Written(ClearRecord) /\ staged' = NoAddr
           /\ RecoveryEnds
           /\ DropPeer
           /\ op' = IF delete_report /\ op = "FORGET" THEN "NONE" ELSE op
           /\ forgotten' = IF delete_report THEN forgotten \cup {peer.id} ELSE forgotten
           /\ UNCHANGED <<bond, sdk_erasing, wc_state, pairing_link, pair_pending,
                          bond_ready, delete_report, erase_requested, radio_faulted,
                          reported, kept>>
  <2>1. Acked(ClearRecord)
    BY <1>4, <1>5, <1>7 DEF Acked, Written
  <2>2. peer.id # 0 => peer.id <= current.counter
    BY DEF PairInv, Inside
  <2>3. \A id \in Known' : id <= current.counter
    BY <1>1, <1>3, <1>7, <2>2 DEF Known
  <2>4. Fits(ClearRecord)
    BY <1>1, <1>2, <1>6, <1>7, <2>3 DEF Fits
  <2>5. FlashInv' /\ Outside' /\ current' = ClearRecord /\ storage_state' = 1
    BY <1>6, <1>7, <2>1, <2>4, AckedOutside
  <2>6. peer'.id = 0 /\ peer' \in [id : 0..MaxCounter, auto : BOOLEAN]
    BY SMTT(60), <1>7, JournalAssumption DEF DropPeer, Unbound
  <2>7. PairTypeOK'
    <3>1. TypeOK'
      BY <2>5 DEF FlashInv, JournalInv
    <3>2. forgotten' \subseteq 1..MaxCounter
      <4>1. delete_report => peer.id \in 1..MaxCounter
        BY SMTT(60), <1>1, JournalAssumption DEF PairInv, PairTypeOK
      <4>2. forgotten \subseteq 1..MaxCounter
        BY DEF PairInv, PairTypeOK
      <4>3. CASE delete_report
        BY <1>7, <4>1, <4>2, <4>3
      <4>4. CASE ~delete_report
        BY <1>7, <4>2, <4>4
      <4> QED BY <4>3, <4>4
    <3>3. op' \in {"NONE", "PAIR", "FORGET"}
      BY <1>7 DEF PairInv, PairTypeOK
    <3>4. recovering' = FALSE /\ security_blocked' = FALSE
      BY <1>7 DEF RecoveryEnds
    <3>5. /\ bond' = bond /\ sdk_erasing' = sdk_erasing /\ wc_state' = wc_state
          /\ pairing_link' = pairing_link /\ pair_pending' = pair_pending
          /\ bond_ready' = bond_ready /\ delete_report' = delete_report
          /\ erase_requested' = erase_requested /\ radio_faulted' = radio_faulted
          /\ reported' = reported /\ kept' = kept
      BY <1>7
    <3>6. /\ bond \in Addresses /\ wc_state \in {"IDLE", "LINK", "CLOSING"}
          /\ sdk_erasing \in BOOLEAN /\ pairing_link \in BOOLEAN /\ pair_pending \in BOOLEAN
          /\ bond_ready \in BOOLEAN /\ delete_report \in BOOLEAN
          /\ erase_requested \in BOOLEAN /\ radio_faulted \in BOOLEAN
          /\ reported \subseteq 1..MaxCounter /\ kept \in 0..MaxCounter
      BY DEF PairInv, PairTypeOK
    <3>7. \A b \in {pairing_link', pair_pending', bond_ready', recovering', delete_report',
                    erase_requested', radio_faulted', security_blocked', sdk_erasing'} :
             b \in BOOLEAN
      BY <3>4, <3>5, <3>6
    <3>8. /\ bond' \in Addresses /\ wc_state' \in {"IDLE", "LINK", "CLOSING"}
          /\ reported' \subseteq 1..MaxCounter /\ kept' \in 0..MaxCounter
      BY <3>5, <3>6
    <3> QED BY <2>6, <3>1, <3>2, <3>3, <3>7, <3>8 DEF PairTypeOK, TypeOK
  <2>8. Inside'
    BY SMTT(60), <1>1, <1>5, <1>7, <2>5, <2>6 DEF Inside, RecoveryEnds
  <2> QED BY <2>5, <2>7, <2>8 DEF PairInv
<1>8. CASE /\ NotWritten(ClearRecord) /\ staged' = NoAddr
           /\ RecoveryEnds
           /\ op' = IF delete_report /\ op = "FORGET" THEN "NONE" ELSE op
           /\ UNCHANGED <<bond, sdk_erasing, wc_state, pairing_link, pair_pending,
                          bond_ready, delete_report, erase_requested, radio_faulted,
                          peer, observers>>
  <2>1. Observes
    BY <1>8 DEF Observes, observers
  <2>2. FlashInv' /\ Outside' /\ current' = current /\ storage_state' = storage_state
    BY <1>1, <1>4, <1>5, <1>8, <2>1, FailedOutside
  <2>3. PairTypeOK'
    <3>1. TypeOK'
      BY <2>2 DEF FlashInv, JournalInv
    <3>2. op' \in {"NONE", "PAIR", "FORGET"}
      BY <1>8 DEF PairInv, PairTypeOK
    <3> QED BY <1>8, <3>1, <3>2 DEF PairInv, PairTypeOK, TypeOK, RecoveryEnds, observers
  <2>4. Inside'
    <3>1. Known' = Known /\ forgotten' = forgotten
      BY <1>8 DEF observers, Known
    <3>2. /\ bond' = bond /\ sdk_erasing' = sdk_erasing /\ wc_state' = wc_state
          /\ pairing_link' = pairing_link /\ pair_pending' = pair_pending
          /\ bond_ready' = bond_ready /\ radio_faulted' = radio_faulted /\ peer' = peer
          /\ staged' = NoAddr /\ recovering' = FALSE
      BY <1>8 DEF RecoveryEnds
    <3>3. Inside
      BY DEF PairInv
    <3> QED BY <1>1, <2>2, <3>1, <3>2, <3>3 DEF Inside
  <2> QED BY <2>2, <2>3, <2>4 DEF PairInv
<1>9. CASE Blackout(ClearRecord)
  <2>1. Observes /\ Known' = Known /\ kept' = 0
    BY <1>2, <1>9 DEF Blackout, Observes, observers, Known
  <2>2. Fits(ClearRecord)
    BY <1>1, <1>3, <1>6, <2>1 DEF Fits
  <2> QED BY <1>4, <1>9, <2>1, <2>2, BlackoutInv DEF Blackout, CutShort
<1> QED BY <1>7, <1>8, <1>9 DEF FinishRecovery

-----------------------------------------------------------------------------
\* Power cycles, and the theorems.

\* A boot takes up what the flash holds and recovers from an intent.
LEMMA PowerCycleInv == ASSUME PairInv, PowerCycle PROVE PairInv'
<1>1. slots' = slots /\ LoadFrom(slots') /\ Reboot /\ UNCHANGED observers
  BY DEF PowerCycle
<1>2. slots' \in [0..1 -> Pages] /\ Distinct(slots')
  BY <1>1 DEF PairInv, FlashInv, JournalInv, TypeOK, Distinct
<1>3. /\ FlashInv' /\ OnFlash' = Loaded(current_slot', current', storage_state')
      /\ staged' = IF current_slot' = -1 THEN NoAddr ELSE current'.addr
  BY <1>1, <1>2, LoadFlash
<1>4. OnFlash' = OnFlash /\ HasValid(slots)' = HasValid(slots) /\ bond' = bond
  BY <1>1 DEF OnFlash, HasValid, Reboot, BootFlags
<1>5. Outside'
  BY <1>1, <1>4 DEF PairInv, Outside, CrashConsistent, Known, observers, Bound, Free
<1>6. PairTypeOK /\ Ids
  BY <1>1 DEF PairInv, PairTypeOK, Ids, observers
<1> QED BY <1>1, <1>3, <1>5, <1>6, BootInv

\* A boot that cannot read the flash starts nothing: the radio is faulted.
LEMMA UnreadableBootInv == ASSUME PairInv, UnreadableBoot PROVE PairInv'
<1>1. slots' = slots /\ storage_state' = 255 /\ BootFlags(255, NoRecord) /\ UNCHANGED observers
  BY DEF UnreadableBoot, LoadUnreadable
<1>2. OnFlash' = OnFlash /\ HasValid(slots)' = HasValid(slots) /\ bond' = bond
  BY <1>1 DEF OnFlash, HasValid, BootFlags
<1>3. Outside'
  BY <1>1, <1>2 DEF PairInv, Outside, CrashConsistent, Known, observers, Bound, Free
<1>4. JournalInv'
  BY StepInv DEF UnreadableBoot, JournalNext, PairInv, FlashInv
<1>5. /\ wc_state' = "IDLE" /\ pairing_link' = FALSE /\ pair_pending' = FALSE
      /\ bond_ready' = FALSE /\ delete_report' = FALSE /\ erase_requested' = FALSE
      /\ security_blocked' = FALSE /\ sdk_erasing' = FALSE /\ op' = "NONE"
      /\ recovering' = FALSE /\ radio_faulted' = TRUE /\ peer' = Unbound
  <2> DEFINE rolls == 255 \in {2, 3}
             corrupt == 255 = 255
  <2>1. recovering' = rolls /\ radio_faulted' = corrupt
    BY <1>1 DEF BootFlags
  <2>2. rolls = FALSE /\ corrupt = TRUE /\ 255 # 1
    OBVIOUS
  <2> HIDE DEF rolls, corrupt
  <2>3. recovering' = FALSE /\ radio_faulted' = TRUE
    BY <2>1, <2>2
  <2> QED BY <1>1, <2>2, <2>3 DEF BootFlags
<1>6. peer'.id = 0 /\ peer' \in [id : 0..MaxCounter, auto : BOOLEAN]
  BY <1>5, JournalAssumption DEF Unbound
<1>7. PairTypeOK'
  <2>1. TypeOK'
    BY <1>4 DEF JournalInv
  <2> QED BY <1>1, <1>2, <1>5, <1>6, <2>1 DEF PairInv, PairTypeOK, TypeOK, observers
<1>8. Inside'
  BY SMTT(60), <1>1, <1>5, <1>6 DEF Inside
<1> QED BY <1>1, <1>3, <1>4, <1>7, <1>8 DEF PairInv, FlashInv

\* Every step keeps the invariant.
LEMMA PairStep ==
    ASSUME ~ReadbackFaults, ~SaveWhileDeleting
    PROVE  PairInv /\ [Next]_vars => PairInv'
<1> SUFFICES ASSUME PairInv, [Next]_vars PROVE PairInv'
  OBVIOUS
<1>1. CASE UNCHANGED vars
  <2>1. UNCHANGED <<journalVars, bond, observers>> /\ UNCHANGED vars
    BY <1>1 DEF vars
  <2>2. FlashInv' /\ Outside'
    BY <2>1, StillOutside DEF PairInv
  <2>3. PairTypeOK'
    <3>1. TypeOK'
      BY <2>2 DEF FlashInv, JournalInv
    <3> QED BY <1>1, <3>1, StillTypes DEF PairInv, vars
  <2>4. Inside'
    BY <1>1, StillInside DEF PairInv, vars, journalVars
  <2> QED BY <2>2, <2>3, <2>4 DEF PairInv
<1> QED
  BY <1>1, PairBeginInv, SdkBondsInv, BondSavedInv, PairFailsInv, FinishPairInv,
     ConnectPeerInv, SecurityFailureInv, DisconnectInv, LinkTerminatedInv, RadioFaultInv,
     ForgetPeerInv, ForgetTimeoutInv, SetReconnectInv, RequestEraseInv, SdkErasesInv,
     FinishRecoveryInv, AbandonRecoveryInv, PowerCycleInv, UnreadableBootInv DEF Next

\* What the invariant says of the four properties.
LEMMA PairConsequences ==
    PairInv => CrashConsistent /\ FreshPeerId /\ ReportedPairingKept /\ ForgottenStaysForgotten
<1> SUFFICES ASSUME PairInv
             PROVE  CrashConsistent /\ FreshPeerId /\ ReportedPairingKept
                    /\ ForgottenStaysForgotten
  OBVIOUS
<1>1. CrashConsistent
  BY DEF PairInv, Outside
<1>2. FreshPeerId
  <2> SUFFICES ASSUME pair_pending PROVE \A id \in reported : id < board_peer_counter
    BY DEF FreshPeerId
  <2>1. storage_state = 3 /\ \A id \in Known : id < current.counter
    BY DEF PairInv, Inside
  <2>2. board_peer_counter = current.counter
    BY <2>1, CounterFacts
  <2> QED BY <2>1, <2>2 DEF Known
<1>3. ReportedPairingKept
  BY <1>1 DEF PairInv, Outside, ReportedPairingKept, CrashConsistent
<1>4. ForgottenStaysForgotten
  <2>1. 0 \notin forgotten
    BY DEF PairInv, PairTypeOK
  <2> QED BY <2>1 DEF PairInv, Outside, Inside, ForgottenStaysForgotten
<1> QED BY <1>1, <1>2, <1>3, <1>4

\* The invariant holds in every reachable state.
THEOREM PairInvariant ==
    ASSUME ~ReadbackFaults, ~SaveWhileDeleting
    PROVE  Spec => []PairInv
<1>1. PairInv /\ [Next]_vars => PairInv'
  BY PairStep
<1> QED BY <1>1, PairInit, PTL DEF Spec

\* board.c:72-74, wire-protocol.md:209: wherever power is lost, the record and the SDK's
\* bond fit together.
THEOREM PairCrashConsistent ==
    ASSUME ~ReadbackFaults, ~SaveWhileDeleting
    PROVE  Spec => []CrashConsistent
<1>1. PairInv => CrashConsistent
  BY PairConsequences
<1> QED BY <1>1, PairInvariant, PTL

\* board.c:167: the id of a pairing in progress has never been reported.
THEOREM PairIdsFresh ==
    ASSUME ~ReadbackFaults, ~SaveWhileDeleting
    PROVE  Spec => []FreshPeerId
<1>1. PairInv => FreshPeerId
  BY PairConsequences
<1> QED BY <1>1, PairInvariant, PTL

\* wire-protocol.md:207: a reported pairing lasts until its deletion is begun.
THEOREM PairIsDurable ==
    ASSUME ~ReadbackFaults, ~SaveWhileDeleting
    PROVE  Spec => []ReportedPairingKept
<1>1. PairInv => ReportedPairingKept
  BY PairConsequences
<1> QED BY <1>1, PairInvariant, PTL

\* wire-protocol.md:209: a reported deletion is final.
THEOREM ForgetIsFinal ==
    ASSUME ~ReadbackFaults, ~SaveWhileDeleting
    PROVE  Spec => []ForgottenStaysForgotten
<1>1. PairInv => ForgottenStaysForgotten
  BY PairConsequences
<1> QED BY <1>1, PairInvariant, PTL
=============================================================================
