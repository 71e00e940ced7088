--------------------------- MODULE PairRadioProofs --------------------------
(***************************************************************************)
(* The steps of the radio controller and of the server's pairing logic     *)
(* that leave the journal alone keep the invariant of PairFlashProofs.     *)
(***************************************************************************)
EXTENDS PairFlashProofs

-----------------------------------------------------------------------------
\* The steps of the radio controller and the server that leave the journal alone.

\* The blank board.
LEMMA PairInit == Init => PairInv
<1> SUFFICES ASSUME Init PROVE PairInv
  OBVIOUS
<1>1. JournalInv /\ Blank /\ ~HasValid(slots) /\ storage_state = 0
  BY InitInv, ErasedType DEF Init, JournalInit, Blank, HasValid
<1>2. FlashInv
  BY <1>1 DEF FlashInv, Unsettled
<1>3. PairTypeOK
  <2>1. TypeOK
    BY <1>1 DEF JournalInv
  <2>2. peer \in [id : 0..MaxCounter, auto : BOOLEAN] /\ kept \in 0..MaxCounter
    BY JournalAssumption DEF Init, Unbound
  <2> QED BY <2>1, <2>2 DEF Init, PairTypeOK, TypeOK, Addresses
<1>4. OnFlash.state = 0
  BY SMTT(60), <1>1, ErasedType DEF Init, JournalInit, OnFlash, HasValid, load_slots, Loaded
<1>5. Outside
  BY <1>4 DEF Init, Outside, CrashConsistent, Bound, Free, Known
<1>6. Inside
  BY <1>1 DEF Init, Inside, Unbound
<1> QED BY <1>2, <1>3, <1>5, <1>6 DEF PairInv

\* fail_pair, called while a pairing is pending.
LEMMA FailPair ==
    ASSUME PairInv, pair_pending, fail_pair
    PROVE  /\ storage_state = 3 /\ peer.id = 0 /\ sdk_erasing = FALSE
           /\ pair_pending' = FALSE /\ recovering' = TRUE
           /\ delete_report' = FALSE /\ erase_requested' = FALSE
           /\ op' \in {"NONE", "PAIR", "FORGET"}
<1>1. storage_state = 3 /\ peer.id = 0 /\ ~sdk_erasing
  BY DEF PairInv, Inside
<1>2. sdk_erasing \in BOOLEAN /\ op \in {"NONE", "PAIR", "FORGET"}
  BY DEF PairInv, PairTypeOK
<1> QED BY <1>1, <1>2 DEF fail_pair

\* wc_pair_state_cb: the SDK has stored the bond; only a flag changes.
LEMMA BondSavedInv == ASSUME PairInv, BondSaved PROVE PairInv'
<1>1. FlashInv' /\ Outside'
  BY StillOutside DEF PairInv, BondSaved
<1>2. PairTypeOK'
  BY DEF PairInv, PairTypeOK, BondSaved, journalVars, observers
<1>3. Inside'
  BY DEF PairInv, PairTypeOK, Inside, Known, BondSaved, journalVars, observers
<1> QED BY <1>1, <1>2, <1>3 DEF PairInv

\* fail_pair closes the link and hands the intent to the recovery.
LEMMA PairFailsInv == ASSUME PairInv, PairFails PROVE PairInv'
<1>1. FlashInv' /\ Outside'
  BY StillOutside DEF PairInv, PairFails
<1>2. /\ storage_state = 3 /\ peer.id = 0 /\ sdk_erasing = FALSE
      /\ pair_pending' = FALSE /\ recovering' = TRUE
      /\ delete_report' = FALSE /\ erase_requested' = FALSE
      /\ op' \in {"NONE", "PAIR", "FORGET"}
  BY FailPair DEF PairFails
<1>3. wc_state' \in {"IDLE", "LINK", "CLOSING"}
  BY DEF PairFails, rb_disconnect, PairInv, PairTypeOK
<1>4. PairTypeOK'
  BY ZenonT(60), <1>2, <1>3 DEF PairInv, PairTypeOK, PairFails, journalVars, observers
<1>5. Inside'
  BY <1>2 DEF PairInv, Inside, PairFails, journalVars, observers
<1> QED BY <1>1, <1>4, <1>5 DEF PairInv

\* A link to the bound peer does not touch the journal.
LEMMA ConnectPeerInv == ASSUME PairInv, ConnectPeer PROVE PairInv'
<1>1. FlashInv' /\ Outside'
  BY StillOutside DEF PairInv, ConnectPeer
<1>2. /\ wc_state' \in {"IDLE", "LINK", "CLOSING"}
      /\ pairing_link' \in BOOLEAN /\ security_blocked' \in BOOLEAN
  BY DEF PairInv, PairTypeOK, ConnectPeer
<1>3. PairTypeOK'
  BY <1>2 DEF PairInv, PairTypeOK, ConnectPeer, journalVars, observers
<1>4. Inside'
  BY DEF PairInv, PairTypeOK, Inside, Known, ConnectPeer, journalVars, observers
<1> QED BY <1>1, <1>3, <1>4 DEF PairInv

\* A refused encryption blocks reconnection and closes the link.
LEMMA SecurityFailureInv == ASSUME PairInv, SecurityFailure PROVE PairInv'
<1>1. FlashInv' /\ Outside'
  BY StillOutside DEF PairInv, SecurityFailure
<1>2. PairTypeOK'
  BY DEF PairInv, PairTypeOK, SecurityFailure, rb_disconnect, journalVars, observers
<1>3. Inside'
  BY DEF PairInv, PairTypeOK, Inside, Known, SecurityFailure, rb_disconnect, journalVars,
         observers
<1> QED BY <1>1, <1>2, <1>3 DEF PairInv

\* A disconnection the host asked for only closes the link.
LEMMA DisconnectInv == ASSUME PairInv, Disconnect PROVE PairInv'
<1>1. FlashInv' /\ Outside'
  BY StillOutside DEF PairInv, Disconnect
<1>2. PairTypeOK'
  BY DEF PairInv, PairTypeOK, Disconnect, rb_disconnect, journalVars, observers
<1>3. Inside'
  BY DEF PairInv, PairTypeOK, Inside, Known, Disconnect, rb_disconnect, journalVars, observers
<1> QED BY <1>1, <1>2, <1>3 DEF PairInv

\* GAP_LINK_TERMINATED: the pairing on the link fails, its intent is rolled back.
LEMMA LinkTerminatedInv == ASSUME PairInv, LinkTerminated PROVE PairInv'
<1>1. FlashInv' /\ Outside'
  BY StillOutside DEF PairInv, LinkTerminated
<1>2. CASE pair_pending
  <2>1. /\ storage_state = 3 /\ peer.id = 0 /\ sdk_erasing = FALSE
        /\ pair_pending' = FALSE /\ recovering' = TRUE
        /\ delete_report' = FALSE /\ erase_requested' = FALSE
        /\ op' \in {"NONE", "PAIR", "FORGET"}
    BY <1>2, FailPair DEF LinkTerminated
  <2>2. PairTypeOK'
    BY ZenonT(60), <2>1 DEF PairInv, PairTypeOK, LinkTerminated, journalVars, observers
  <2>3. Inside'
    BY <2>1 DEF PairInv, Inside, LinkTerminated, journalVars, observers
  <2> QED BY <1>1, <2>2, <2>3 DEF PairInv
<1>3. CASE ~pair_pending
  <2>1. PairTypeOK'
    BY <1>3 DEF PairInv, PairTypeOK, LinkTerminated, journalVars, observers
  <2>2. Inside'
    BY <1>3 DEF PairInv, PairTypeOK, Inside, Known, LinkTerminated, journalVars, observers
  <2> QED BY <1>1, <2>1, <2>2 DEF PairInv
<1> QED BY <1>2, <1>3

\* radio_fault fails the pairing and leaves the flash as it is.
LEMMA RadioFaultInv == ASSUME PairInv, RadioFault PROVE PairInv'
<1>1. FlashInv' /\ Outside'
  BY StillOutside DEF PairInv, RadioFault
<1>2. CASE pair_pending
  <2>1. /\ storage_state = 3 /\ peer.id = 0 /\ sdk_erasing = FALSE
        /\ pair_pending' = FALSE /\ recovering' = TRUE
        /\ delete_report' = FALSE /\ erase_requested' = FALSE
        /\ op' \in {"NONE", "PAIR", "FORGET"}
    BY <1>2, FailPair DEF RadioFault
  <2>2. wc_state' \in {"IDLE", "LINK", "CLOSING"}
    BY <1>2 DEF RadioFault, rb_disconnect, PairInv, PairTypeOK
  <2>3. PairTypeOK'
    BY ZenonT(60), <2>1, <2>2 DEF PairInv, PairTypeOK, RadioFault, journalVars, observers
  <2>4. Inside'
    BY <2>1 DEF PairInv, Inside, RadioFault, journalVars, observers
  <2> QED BY <1>1, <2>3, <2>4 DEF PairInv
<1>3. CASE ~pair_pending
  <2>1. PairTypeOK'
    BY <1>3 DEF PairInv, PairTypeOK, RadioFault, journalVars, observers
  <2>2. Inside'
    BY SMTT(60), <1>3 DEF PairInv, PairTypeOK, Inside, Known, RadioFault, journalVars, observers
  <2> QED BY <1>1, <2>1, <2>2 DEF PairInv
<1> QED BY <1>2, <1>3

\* The server stops waiting for a deletion; the intent stays on the flash.
LEMMA ForgetTimeoutInv == ASSUME PairInv, ForgetTimeout PROVE PairInv'
<1>1. FlashInv' /\ Outside'
  BY StillOutside DEF PairInv, ForgetTimeout
<1>2. PairTypeOK'
  BY DEF PairInv, PairTypeOK, ForgetTimeout, journalVars, centralVars, observers
<1>3. Inside'
  BY StillInside DEF PairInv, ForgetTimeout, journalVars
<1> QED BY <1>1, <1>2, <1>3 DEF PairInv

\* poll() asks the SDK to erase only under a journalled intent.
LEMMA RequestEraseInv == ASSUME PairInv, RequestErase PROVE PairInv'
<1>1. FlashInv' /\ Outside'
  BY StillOutside DEF PairInv, RequestErase
<1>2. /\ sdk_erasing' \in BOOLEAN /\ (sdk_erasing' => bond # NoAddr)
  BY DEF RequestErase
<1>3. PairTypeOK'
  BY <1>2 DEF PairInv, PairTypeOK, RequestErase, CanRecover, journalVars, observers
<1>4. Inside'
  BY <1>2 DEF PairInv, PairTypeOK, Inside, Known, RequestErase, CanRecover, journalVars,
              observers
<1> QED BY <1>1, <1>3, <1>4 DEF PairInv

\* A recovery that gives up leaves the intent for the next boot.
LEMMA AbandonRecoveryInv == ASSUME PairInv, AbandonRecovery PROVE PairInv'
<1>1. FlashInv' /\ Outside'
  BY StillOutside DEF PairInv, AbandonRecovery
<1>2. PairTypeOK'
  BY DEF PairInv, PairTypeOK, AbandonRecovery, journalVars, observers
<1>3. Inside'
  BY DEF PairInv, PairTypeOK, Inside, Known, AbandonRecovery, journalVars, observers
<1> QED BY <1>1, <1>2, <1>3 DEF PairInv

\* The SDK may bond on a pairing link: the flash does not say that the store is free.
LEMMA SdkBondsInv == ASSUME PairInv, SdkBonds PROVE PairInv'
<1>1. FlashInv' /\ OnFlash' = OnFlash /\ HasValid(slots)' = HasValid(slots)
  BY StillFlash DEF PairInv, SdkBonds
<1>2. storage_state \notin {0, 255}
  BY DEF PairInv, Inside, SdkBonds
<1>3. ~Bound(OnFlash) /\ ~Free(OnFlash)
  <2>1. ~Bound(OnFlash)
    BY DEF PairInv, Outside, CrashConsistent, SdkBonds
  <2>2. storage_state = 1 => current.peer # 0
    BY DEF PairInv, Inside, SdkBonds
  <2> QED BY <1>2, <2>1, <2>2, FlashView DEF PairInv, FlashFacts
<1>4. Outside'
  BY <1>1, <1>3 DEF PairInv, Outside, CrashConsistent, Known, SdkBonds, observers, Bound, Free
<1>5. bond' \in Addresses /\ bond' # NoAddr
  BY JournalAssumption DEF SdkBonds, Addresses
<1>6. PairTypeOK'
  BY <1>5 DEF PairInv, PairTypeOK, SdkBonds, journalVars, centralVars, observers
<1>7. Inside'
  BY <1>2, <1>5 DEF PairInv, Inside, Known, SdkBonds, journalVars, centralVars, observers
<1> QED BY <1>1, <1>4, <1>6, <1>7 DEF PairInv

\* The SDK erases while the flash says that a pairing or a deletion is rolled back.
LEMMA SdkErasesInv == ASSUME PairInv, SdkErases PROVE PairInv'
<1>1. FlashInv' /\ OnFlash' = OnFlash /\ HasValid(slots)' = HasValid(slots)
  BY StillFlash DEF PairInv, SdkErases
<1>2. storage_state \in {2, 3} /\ ~pair_pending
  BY DEF PairInv, Inside, SdkErases
<1>3. ~Bound(OnFlash)
  BY <1>2, FlashView DEF PairInv, FlashFacts
<1>4. Outside'
  BY <1>1, <1>3 DEF PairInv, Outside, CrashConsistent, Known, SdkErases, observers, Bound, Free
<1>5. PairTypeOK'
  <2>1. bond' \in Addresses /\ sdk_erasing' \in BOOLEAN
    BY DEF SdkErases, Addresses
  <2> QED BY <2>1 DEF PairInv, PairTypeOK, SdkErases, journalVars, centralVars, observers
<1>6. Inside'
  BY <1>2 DEF PairInv, Inside, Known, SdkErases, journalVars, centralVars, observers
<1> QED BY <1>1, <1>4, <1>5, <1>6 DEF PairInv
=============================================================================
