--------------------------- MODULE PairFlashProofs --------------------------
(***************************************************************************)
(* What the flash shows to a boot while pairing, deletion and recovery     *)
(* write it: the inductive invariant of PairTransaction, and what each     *)
(* kind of write, power cut and boot does to the part of it that speaks of *)
(* the flash.  PairProofs takes the transactions' steps from there.        *)
(***************************************************************************)
EXTENDS PairTransaction, JournalProofs

-----------------------------------------------------------------------------
\* The inductive invariant.  RAM and the flash agree, and the flags of the radio
\* controller say which transaction the flash is in.

\* Some page is committed.
HasValid(sl) == valid(sl[0]) \/ valid(sl[1])

\* The record in use is committed, and the other page is no rival.
Settled ==
    /\ OnCommitted
    /\ valid(slots[Other(current_slot)]) => slots[Other(current_slot)].rec.gen < current.gen

\* Nothing has been committed yet.
Unsettled == (Blank \/ OnRemains) /\ ~HasValid(slots)

\* The journal's invariant without the successor a failed read-back leaves behind.
FlashInv == JournalInv /\ (storage_state # 255 => Settled \/ Unsettled)

\* The ids a host has been told of.
Known == reported \cup forgotten

\* What is on the flash, seen from outside.
Outside ==
    /\ CrashConsistent
    /\ Bound(OnFlash) => /\ OnFlash.rec.peer <= OnFlash.rec.counter
                         /\ OnFlash.rec.peer \notin forgotten
    /\ kept # 0 => Bound(OnFlash) /\ OnFlash.rec.peer = kept
    /\ Known # {} => HasValid(slots)
    /\ \A id \in Known : id <= OnFlash.rec.counter

\* What the firmware has begun.
Inside ==
    /\ storage_state = 255 => /\ wc_state = "IDLE" /\ peer.id = 0 /\ radio_faulted
    /\ storage_state = 0 => bond = NoAddr /\ wc_state = "IDLE" /\ peer.id = 0
    /\ recovering => storage_state \in {2, 3}
    /\ recovering /\ delete_report => peer.id # 0
    /\ sdk_erasing => bond # NoAddr /\ ~pair_pending /\ storage_state \in {2, 3}
    /\ pairing_link /\ wc_state # "IDLE" /\ storage_state = 1 => current.peer # 0
    /\ pair_pending => /\ storage_state = 3 /\ wc_state # "IDLE" /\ pairing_link
                       /\ peer.id = 0 /\ ~recovering
                       /\ bond_ready => bond # NoAddr
                       /\ current.counter # 0
                       /\ \A id \in Known : id < current.counter
    /\ peer.id # 0 => /\ storage_state \in {1, 2} /\ peer.id \notin forgotten
                      /\ peer.id <= current.counter
                      /\ storage_state = 1 => current.peer = peer.id /\ staged = current.addr

PairInv == PairTypeOK /\ FlashInv /\ Outside /\ Inside
-----------------------------------------------------------------------------
\* The flash.

\* What a settled flash shows to a boot.
SettledFacts ==
    /\ OnFlash = Loaded(current_slot, current, storage_state)
    /\ HasValid(slots) /\ current \in Records /\ current_slot \in 0..1
    /\ storage_state = current.state

\* load_slots finds the record in use when it is committed.
LEMMA SettledFlash == JournalInv /\ storage_state # 255 /\ Settled => SettledFacts
<1> SUFFICES ASSUME JournalInv, storage_state # 255, Settled PROVE SettledFacts
  OBVIOUS
<1> USE DEF SettledFacts
<1>1. current \in Records /\ current_slot \in 0..1 /\ slots \in [0..1 -> Pages]
  BY CurrentType DEF Settled, OnCommitted, JournalInv, TypeOK
<1>2. valid(slots[current_slot]) /\ slots[current_slot].rec = current
      /\ storage_state = current.state
  BY DEF Settled, OnCommitted, Page, valid
<1>3. load_slots(slots) = Loaded(current_slot, current, current.state)
  <2>1. valid(slots[1 - current_slot]) =>
           slots[1 - current_slot].rec.gen < slots[current_slot].rec.gen
    BY <1>2 DEF Settled, Other
  <2> QED BY <1>1, <1>2, <2>1, LoadNewest
<1>4. HasValid(slots)
  BY <1>1, <1>2 DEF HasValid
<1> QED BY <1>1, <1>2, <1>3, <1>4 DEF OnFlash

\* Without a committed page load_slots finds at most a pairing intent, and it finds
\* something where one has been begun.
LEMMA UnsettledFlash ==
    ASSUME NEW sl \in [0..1 -> Pages], ~HasValid(sl)
    PROVE  /\ load_slots(sl).state \in {0, 3, 255}
           /\ load_slots(sl).state = 0 => sl[0] = Erased /\ sl[1] = Erased
           /\ sl[1] = Erased /\ (sl[0] = Erased \/ sl[0].rec = InitialPending) =>
                 load_slots(sl).state # 255
  BY DEF HasValid, load_slots, Loaded

\* What either kind of flash shows to a boot.
FlashFacts ==
    /\ storage_state \in {1, 2} => Settled /\ OnFlash = Loaded(current_slot, current, storage_state)
    /\ storage_state = 3 => OnFlash.state \in {3, 255}
    /\ storage_state = 0 => OnFlash.state \in {0, 3} /\ current_slot = -1
    /\ storage_state # 0 => current_slot # -1 /\ current \in Records
    /\ Bound(OnFlash) => storage_state = 1 /\ OnFlash.rec = current /\ current.peer # 0
    /\ Free(OnFlash) => storage_state = 0 \/ (storage_state = 1 /\ current.peer = 0)
    /\ HasValid(slots) => OnFlash.rec = current /\ storage_state # 0

\* What a power cycle would find, from the state of the record in use.
LEMMA FlashView == FlashInv /\ storage_state # 255 => FlashFacts
<1> SUFFICES ASSUME FlashInv, storage_state # 255 PROVE FlashFacts
  OBVIOUS
<1> USE DEF FlashFacts
<1>1. JournalInv /\ slots \in [0..1 -> Pages]
  BY DEF FlashInv, JournalInv, TypeOK
<1>2. CASE Settled
  <2>1. /\ OnFlash = Loaded(current_slot, current, storage_state)
        /\ current \in Records /\ current_slot \in 0..1 /\ storage_state = current.state
    BY <1>1, <1>2, SettledFlash DEF SettledFacts
  <2>2. storage_state \in 1..3
    BY <2>1 DEF Records
  <2>3. OnFlash.state = storage_state /\ OnFlash.rec = current
    BY <2>1 DEF Loaded
  <2> QED BY <1>2, <2>1, <2>2, <2>3 DEF Bound, Free
<1>3. CASE Unsettled /\ Blank
  <2>1. OnFlash.state \in {0, 3} /\ storage_state = 0 /\ current_slot = -1
    BY <1>1, <1>3, UnsettledFlash DEF Unsettled, Blank, OnFlash
  <2> QED BY <1>3, <2>1 DEF Bound, Free, Unsettled
<1>4. CASE Unsettled /\ OnRemains
  <2>1. storage_state = 3 /\ current_slot \in 0..1
    BY <1>4 DEF OnRemains
  <2>2. slots[current_slot] # Erased
    BY <1>4 DEF OnRemains, Page, Erased
  <2>3. OnFlash.state \in {3, 255}
    BY <1>1, <1>4, <2>1, <2>2, UnsettledFlash DEF Unsettled, OnFlash
  <2>4. current \in Records
    BY <1>1, <2>1, CurrentType
  <2> QED BY <1>4, <2>1, <2>3, <2>4 DEF Bound, Free, Unsettled
<1> QED BY <1>2, <1>3, <1>4 DEF FlashInv, Unsettled

\* Both hold after a step as well.
LEMMA SettledFlashNext == (JournalInv /\ storage_state # 255 /\ Settled => SettledFacts)'
  BY SettledFlash, PTL

\* The same of the state after a step.
LEMMA FlashViewNext == (FlashInv /\ storage_state # 255 => FlashFacts)'
  BY FlashView, PTL

\* An acknowledged record is what the next power cycle finds.
LEMMA AckedFlash ==
    ASSUME FlashInv, NEW r, Acked(r)
    PROVE  /\ FlashInv' /\ HasValid(slots)'
           /\ OnFlash' = Loaded(TargetSlot, r, r.state)
           /\ current' = r /\ storage_state' = r.state /\ r \in Records
<1>1. JournalInv /\ JournalInv'
  BY AckedInv DEF FlashInv
<1>2. Writable /\ Legal(r) /\ r \in Records /\ storage_state # 255
  BY DEF Acked, Legal, Written, Writable
<1>3. current' = r /\ current_slot' = TargetSlot /\ storage_state' = r.state /\ r.state \in 1..3
  BY <1>2 DEF Acked, Written, Records
<1>4. /\ slots'[TargetSlot] = Page("valid", r) /\ TargetSlot \in 0..1
      /\ slots'[1 - TargetSlot] = slots[1 - TargetSlot]
  <2>1. Programmed(Page("valid", r))
    BY DEF Acked, Written, Programmed
  <2> QED BY <1>1, <1>2, <2>1, ProgrammedPages
<1>5. valid(slots[1 - TargetSlot]) => slots[1 - TargetSlot].rec.gen < r.gen
  <2>1. CASE Settled
    <3>1. current \in Records /\ current_slot \in 0..1
      BY <1>1, <1>2, <2>1, SettledFlash DEF SettledFacts
    <3>2. slots[1 - TargetSlot].rec = current /\ r.gen = current.gen + 1
      BY <1>2, <2>1, <3>1 DEF Settled, OnCommitted, TargetSlot, Page, Legal, Generation
    <3> QED BY <3>1, <3>2 DEF Records
  <2>2. CASE Unsettled
    BY <1>4, <2>2 DEF Unsettled, HasValid
  <2> QED BY <1>2, <2>1, <2>2 DEF FlashInv
<1>6. Settled'
  BY <1>3, <1>4, <1>5 DEF Settled, OnCommitted, Other
<1>7. SettledFacts'
  BY <1>1, <1>3, <1>6, SettledFlashNext
<1> QED BY <1>1, <1>2, <1>3, <1>6, <1>7 DEF FlashInv, SettledFacts

\* A write that returned false leaves what a power cycle finds as it was once a record
\* has been committed.
LEMMA FailedFlash ==
    ASSUME FlashInv, ~ReadbackFaults, NEW r, Writable => Legal(r), NotWritten(r),
           staged' \in Addresses
    PROVE  /\ FlashInv'
           /\ current' = current /\ storage_state' = storage_state
           /\ Settled => OnFlash' = OnFlash /\ HasValid(slots)'
           /\ Unsettled => Unsettled'
<1>1. current' = current /\ current_slot' = current_slot /\ storage_state' = storage_state
  BY DEF NotWritten
<1>2. CASE slots' = slots
  <2>1. JournalInv'
    BY <1>1, <1>2 DEF FlashInv, JournalInv, TypeOK, Blank, OnCommitted, OnRemains, Other
  <2>2. OnFlash' = OnFlash /\ (Settled => Settled') /\ (Unsettled => Unsettled')
    BY <1>1, <1>2 DEF OnFlash, Settled, Unsettled, Blank, OnCommitted, OnRemains, Other, HasValid
  <2>3. Settled /\ storage_state # 255 => HasValid(slots)
    BY SettledFlash DEF FlashInv, SettledFacts
  <2>4. Settled => storage_state # 255
    BY SMTT(30) DEF Settled, OnCommitted, FlashInv, JournalInv, TypeOK, Records, Pages, Page
  <2> QED BY <1>1, <1>2, <2>1, <2>2, <2>3, <2>4 DEF FlashInv, HasValid
<1>3. CASE slots' # slots
  <2>1. PICK p \in Images(r) : Programmed(p)
    BY <1>3 DEF NotWritten, Programmed
  <2>2. Writable /\ Legal(r) /\ storage_state # 255
    BY <1>3 DEF NotWritten, Writable
  <2>3. JournalInv /\ JournalInv'
    BY <1>1, <2>1, <2>2, FailedInv DEF FlashInv, Failed
  <2>4. /\ TargetSlot \in 0..1 /\ slots'[TargetSlot] = p
        /\ slots'[1 - TargetSlot] = slots[1 - TargetSlot]
    BY <2>1, <2>2, <2>3, ProgrammedPages
  <2>5. p = slots[TargetSlot] \/ ~valid(p)
    BY <2>1, ErasedType DEF Images, Page, valid
  <2>6. Unsettled => Unsettled'
    <3>1. Unsettled => ~HasValid(slots')
      BY <2>4, <2>5 DEF Unsettled, HasValid
    <3>2. Unsettled => (Blank \/ OnRemains)'
      <4>1. CASE Unsettled /\ Blank
        <5>1. current_slot' = -1
          BY <1>1, <4>1 DEF Blank
        <5>2. (Blank \/ OnCommitted \/ OnRemains)'
          BY <1>1, <2>2, <2>3 DEF JournalInv
        <5> QED BY <5>1, <5>2 DEF OnCommitted
      <4>2. CASE Unsettled /\ OnRemains
        BY <1>1, <2>2, <2>4, <4>2 DEF OnRemains, TargetSlot
      <4> QED BY <4>1, <4>2 DEF Unsettled
    <3> QED BY <3>1, <3>2 DEF Unsettled
  <2>7. Settled => Settled'
    <3> SUFFICES ASSUME Settled PROVE Settled'
      OBVIOUS
    <3>1. current_slot \in 0..1 /\ TargetSlot = 1 - current_slot
      BY DEF Settled, OnCommitted, TargetSlot
    <3>2. slots'[current_slot] = slots[current_slot]
      BY <2>4, <3>1
    <3>3. valid(slots'[1 - current_slot]) => slots'[1 - current_slot] = slots[1 - current_slot]
      BY <2>4, <2>5, <3>1
    <3> QED BY <1>1, <3>1, <3>2, <3>3 DEF Settled, OnCommitted, Other
  <2>8. Settled => OnFlash' = OnFlash /\ HasValid(slots)'
    BY <1>1, <2>2, <2>3, <2>7, SettledFlash, SettledFlashNext DEF SettledFacts
  <2> QED BY <1>1, <2>2, <2>3, <2>6, <2>7, <2>8 DEF FlashInv
<1> QED BY <1>2, <1>3

\* RAM after a power cycle is what was on the flash.
LEMMA LoadFlash ==
    ASSUME slots' \in [0..1 -> Pages], Distinct(slots'), LoadFrom(slots')
    PROVE  /\ FlashInv'
           /\ OnFlash' = Loaded(current_slot', current', storage_state')
           /\ staged' = IF current_slot' = -1 THEN NoAddr ELSE current'.addr
<1>1. JournalInv'
  BY LoadInv
<1>2. /\ current' = load_slots(slots').rec /\ current_slot' = load_slots(slots').slot
      /\ storage_state' = load_slots(slots').state
      /\ staged' = IF current_slot' = -1 THEN NoAddr ELSE current'.addr
  BY DEF LoadFrom
<1>3. load_slots(slots') = Loaded(load_slots(slots').slot, load_slots(slots').rec,
                                  load_slots(slots').state)
  BY DEF load_slots, Loaded
<1>4. CASE HasValid(slots')
  <2>1. Newest(slots') \in 0..1 /\ current_slot' = Newest(slots')
        /\ current' = slots'[Newest(slots')].rec
    <3>1. Newest(slots') \in 0..1
      BY DEF Newest
    <3>2. load_slots(slots') = Loaded(Newest(slots'), slots'[Newest(slots')].rec,
                                      slots'[Newest(slots')].rec.state)
      BY <1>4 DEF HasValid, load_slots
    <3> QED BY <1>2, <3>1, <3>2 DEF Loaded
  <2>2. valid(slots'[1 - current_slot']) => slots'[1 - current_slot'].rec.gen < current'.gen
    BY <1>4, <2>1, NewestWins DEF HasValid
  <2>3. valid(slots'[current_slot'])
    BY <1>4, <2>1 DEF HasValid, Newest
  <2>4. storage_state' # 255 => OnCommitted'
    BY <1>1, <2>1, <2>3 DEF JournalInv, Blank, OnRemains, Page, valid
  <2> QED BY <1>1, <1>2, <1>3, <2>2, <2>4 DEF FlashInv, Settled, Other, OnFlash
<1>5. CASE ~HasValid(slots')
  <2>1. ~OnCommitted'
    BY <1>5 DEF OnCommitted, HasValid, Page, valid
  <2> QED BY <1>1, <1>2, <1>3, <1>5, <2>1 DEF FlashInv, JournalInv, Unsettled, OnFlash, HasValid
<1> QED BY <1>4, <1>5

\* A write cut short: a power cycle finds the old record, the new one, or, as long as
\* nothing had been committed, no record at all.
LEMMA CutFlash ==
    ASSUME FlashInv, NEW r, Legal(r), CutShort(r)
    PROVE  /\ FlashInv' /\ LoadFrom(slots')
           /\ OnFlash' = Loaded(current_slot', current', storage_state')
           /\ staged' = IF current_slot' = -1 THEN NoAddr ELSE current'.addr
           /\ \/ Settled /\ OnFlash' = OnFlash /\ HasValid(slots)'
              \/ OnFlash' = Loaded(TargetSlot, r, r.state) /\ HasValid(slots)'
              \/ /\ Unsettled /\ OnFlash'.state \in {0, 3, 255}
                 /\ storage_state = 3 => OnFlash'.state # 0
<1>1. PICK p \in Images(r) \cup {Page("valid", r)} : Programmed(p)
  BY DEF CutShort, Programmed
<1>2. Writable /\ storage_state # 255 /\ LoadFrom(slots') /\ JournalInv /\ r \in Records
  BY DEF CutShort, Writable, FlashInv, Legal
<1>3. /\ TargetSlot \in 0..1 /\ slots' \in [0..1 -> Pages] /\ Distinct(slots')
      /\ slots'[TargetSlot] = p /\ slots'[1 - TargetSlot] = slots[1 - TargetSlot]
  BY <1>1, <1>2, ProgrammedPages
<1>4. /\ FlashInv' /\ OnFlash' = Loaded(current_slot', current', storage_state')
      /\ staged' = IF current_slot' = -1 THEN NoAddr ELSE current'.addr
  BY <1>2, <1>3, LoadFlash
<1>5. CASE p = Page("valid", r)
  <2>1. valid(slots'[TargetSlot]) /\ slots'[TargetSlot].rec = r
    BY <1>3, <1>5 DEF Page, valid
  <2>2. valid(slots'[1 - TargetSlot]) => slots'[1 - TargetSlot].rec.gen < r.gen
    <3>1. CASE Settled
      <4>1. current \in Records /\ current_slot \in 0..1
        BY <1>2, <3>1, SettledFlash DEF SettledFacts
      <4>2. TargetSlot = 1 - current_slot /\ r.gen = current.gen + 1
        BY <4>1 DEF TargetSlot, Legal, Generation
      <4>3. slots'[1 - TargetSlot] = Page("valid", current)
        BY <1>3, <3>1, <4>1, <4>2 DEF Settled, OnCommitted
      <4>4. slots'[1 - TargetSlot].rec = current /\ current.gen \in Int
        BY <4>1, <4>3 DEF Page, Records
      <4> QED BY <4>2, <4>4
    <3>2. CASE Unsettled
      BY <1>3, <3>2 DEF Unsettled, HasValid
    <3> QED BY <1>2, <3>1, <3>2 DEF FlashInv
  <2>3. HasValid(slots')
    BY <1>3, <2>1 DEF HasValid
  <2>4. load_slots(slots') = Loaded(TargetSlot, r, r.state)
    BY <1>3, <2>1, <2>2, LoadNewest
  <2> QED BY <1>2, <1>4, <2>3, <2>4 DEF OnFlash, HasValid
<1>6. CASE p \in Images(r)
  <2>1. p = slots[TargetSlot] \/ ~valid(p)
    BY <1>6, ErasedType DEF Images, Page, valid
  <2>2. CASE Settled
    <3>1. current \in Records /\ current_slot \in 0..1
          /\ OnFlash = Loaded(current_slot, current, current.state)
      BY <1>2, <2>2, SettledFlash DEF SettledFacts
    <3>2. TargetSlot = 1 - current_slot
      BY <3>1 DEF TargetSlot
    <3>3. valid(slots'[current_slot]) /\ slots'[current_slot].rec = current
      <4>1. slots'[current_slot] = Page("valid", current)
        BY <1>3, <2>2, <3>1, <3>2 DEF Settled, OnCommitted
      <4> QED BY <4>1 DEF Page, valid
    <3>4. valid(slots'[1 - current_slot]) => slots'[1 - current_slot].rec.gen < current.gen
      BY <1>3, <2>1, <2>2, <3>1, <3>2 DEF Settled, Other
    <3>5. HasValid(slots')
      BY <3>1, <3>3 DEF HasValid
    <3>6. load_slots(slots') = Loaded(current_slot, current, current.state)
      BY <1>3, <3>1, <3>3, <3>4, LoadNewest
    <3> QED BY <1>2, <1>4, <2>2, <3>1, <3>5, <3>6 DEF OnFlash, HasValid
  <2>3. CASE Unsettled
    <3>1. ~HasValid(slots')
      BY <1>3, <2>1, <2>3 DEF Unsettled, HasValid
    <3>2. storage_state = 3 => current_slot \in 0..1 /\ slots'[current_slot] # Erased
      BY <1>3, <2>3 DEF Unsettled, Blank, OnRemains, TargetSlot, Page, Erased
    <3> QED BY <1>2, <1>3, <1>4, <2>3, <3>1, <3>2, UnsettledFlash DEF OnFlash
  <2> QED BY <1>2, <2>2, <2>3 DEF FlashInv
<1> QED BY <1>1, <1>5, <1>6

-----------------------------------------------------------------------------
\* The outside, and what a step makes of it.

\* A step that leaves the journal alone leaves the flash alone.
LEMMA StillFlash ==
    ASSUME FlashInv, UNCHANGED journalVars
    PROVE  FlashInv' /\ OnFlash' = OnFlash /\ HasValid(slots)' = HasValid(slots)
<1>1. /\ slots' = slots /\ current' = current /\ current_slot' = current_slot
      /\ storage_state' = storage_state /\ staged' = staged
  BY DEF journalVars
<1>2. TypeOK' = TypeOK /\ OnFlash' = OnFlash /\ HasValid(slots)' = HasValid(slots)
  BY <1>1 DEF TypeOK, OnFlash, HasValid
<1>3. Blank' = Blank /\ OnCommitted' = OnCommitted /\ OnRemains' = OnRemains
  BY <1>1 DEF Blank, OnCommitted, OnRemains, Other
<1>4. Settled' = Settled /\ Unsettled' = Unsettled
  BY <1>1, <1>2, <1>3 DEF Settled, Unsettled, Other
<1> QED BY <1>1, <1>2, <1>3, <1>4 DEF FlashInv, JournalInv

\* A step that changes neither journal nor bond nor what has been reported.
LEMMA StillOutside ==
    ASSUME FlashInv, Outside, UNCHANGED <<journalVars, bond, observers>>
    PROVE  FlashInv' /\ Outside'
<1>1. FlashInv' /\ OnFlash' = OnFlash /\ HasValid(slots)' = HasValid(slots)
  BY StillFlash
<1>2. bond' = bond /\ reported' = reported /\ kept' = kept /\ forgotten' = forgotten
  BY DEF observers
<1> QED BY <1>1, <1>2 DEF Outside, CrashConsistent, Known, Bound, Free

\* A step that changes nothing but what the journal holds of RAM keeps the types.
LEMMA StillTypes ==
    ASSUME PairTypeOK, TypeOK', UNCHANGED <<bond, sdk_erasing, centralVars, peer, op, observers>>
    PROVE  PairTypeOK'
<1>1. /\ bond' = bond /\ sdk_erasing' = sdk_erasing /\ peer' = peer /\ op' = op
      /\ wc_state' = wc_state /\ pairing_link' = pairing_link /\ pair_pending' = pair_pending
      /\ bond_ready' = bond_ready /\ recovering' = recovering
      /\ delete_report' = delete_report /\ erase_requested' = erase_requested
      /\ radio_faulted' = radio_faulted /\ security_blocked' = security_blocked
      /\ reported' = reported /\ kept' = kept /\ forgotten' = forgotten
  BY DEF centralVars, observers
<1>2. /\ slots' \in [0..1 -> Pages] /\ current' \in Records \cup {NoRecord}
      /\ current_slot' \in -1..1 /\ storage_state' \in {0, 1, 2, 3, 255}
      /\ staged' \in Addresses
  BY DEF TypeOK
<1> QED BY <1>1, <1>2 DEF PairTypeOK

\* A step that changes neither RAM nor what has been reported.
LEMMA StillInside ==
    ASSUME Inside, UNCHANGED <<current, storage_state, staged, bond, sdk_erasing, centralVars,
                               peer, observers>>
    PROVE  Inside'
<1>1. /\ bond' = bond /\ sdk_erasing' = sdk_erasing /\ peer' = peer
      /\ current' = current /\ storage_state' = storage_state /\ staged' = staged
      /\ wc_state' = wc_state /\ pairing_link' = pairing_link /\ pair_pending' = pair_pending
      /\ bond_ready' = bond_ready /\ recovering' = recovering
      /\ delete_report' = delete_report /\ radio_faulted' = radio_faulted
      /\ forgotten' = forgotten /\ Known' = Known
  BY DEF centralVars, observers, Known
<1> QED BY <1>1 DEF Inside

\* r is what the flash may say after the step.
Fits(r) ==
    /\ r.state = 1 /\ r.peer # 0 => /\ bond = r.addr /\ bond # NoAddr
                                    /\ r.peer <= r.counter /\ r.peer \notin forgotten'
    /\ r.state = 1 /\ r.peer = 0 => bond = NoAddr
    /\ kept' # 0 => r.state = 1 /\ r.peer # 0 /\ r.peer = kept'
    /\ \A id \in Known' : id <= r.counter

\* The flash holds r.
LEMMA RecordOutside ==
    ASSUME NEW r \in Records, Fits(r), bond' = bond, HasValid(slots)',
           OnFlash'.rec = r, OnFlash'.state = r.state
    PROVE  Outside'
  BY DEF Outside, CrashConsistent, Bound, Free, Fits, Records

\* An acknowledged write.
LEMMA AckedOutside ==
    ASSUME PairInv, NEW r, Acked(r), Fits(r), bond' = bond
    PROVE  FlashInv' /\ Outside' /\ r \in Records /\ current' = r /\ storage_state' = r.state
<1>1. /\ FlashInv' /\ HasValid(slots)' /\ r \in Records
      /\ OnFlash' = Loaded(TargetSlot, r, r.state)
      /\ current' = r /\ storage_state' = r.state
  BY AckedFlash DEF PairInv
<1>2. OnFlash'.rec = r /\ OnFlash'.state = r.state
  BY <1>1 DEF Loaded
<1> QED BY <1>1, <1>2, RecordOutside

\* A deletion may have been begun; nothing else has been reported.
Observes == reported' = reported /\ forgotten' = forgotten /\ kept' \in {kept, 0}

\* As long as nothing is committed there is nothing to be lost.
LEMMA UnsettledOutside ==
    ASSUME PairInv, storage_state # 255, Unsettled, Observes
    PROVE  Known' = {} /\ kept' = 0 /\ storage_state \in {0, 3}
<1>1. storage_state \in {0, 3}
  BY DEF Unsettled, Blank, OnRemains
<1>2. kept = 0
  BY <1>1, FlashView DEF PairInv, Outside, FlashFacts
<1>3. Known = {}
  BY DEF PairInv, Outside, Unsettled
<1> QED BY <1>1, <1>2, <1>3 DEF Observes, Known

\* The flash holds what it held.
LEMMA SameOutside ==
    ASSUME Outside, Observes, bond' = bond, OnFlash' = OnFlash, HasValid(slots)'
    PROVE  Outside'
<1>1. kept' # 0 => kept # 0 /\ kept' = kept
  BY DEF Observes
<1>2. Known' = Known /\ forgotten' = forgotten
  BY DEF Observes, Known
<1> QED BY <1>1, <1>2 DEF Outside, CrashConsistent, Bound, Free

\* A write that returned false.
LEMMA FailedOutside ==
    ASSUME PairInv, ~ReadbackFaults, storage_state # 255,
           NEW r, Writable => Legal(r), NotWritten(r), staged' \in Addresses,
           bond' = bond, Observes
    PROVE  FlashInv' /\ Outside' /\ current' = current /\ storage_state' = storage_state
<1>1. /\ FlashInv' /\ current' = current /\ storage_state' = storage_state
      /\ Settled => OnFlash' = OnFlash /\ HasValid(slots)'
      /\ Unsettled => Unsettled'
  BY FailedFlash DEF PairInv
<1>2. CASE Settled
  BY <1>1, <1>2, SameOutside DEF PairInv
<1>3. CASE Unsettled
  <2>1. Known' = {} /\ kept' = 0 /\ storage_state' \in {0, 3}
    BY <1>1, <1>3, UnsettledOutside
  <2>2. ~Bound(OnFlash)' /\ (Free(OnFlash)' => storage_state' = 0)
    BY <1>1, <2>1, FlashViewNext DEF FlashFacts
  <2>3. storage_state' = 0 => bond' = NoAddr
    BY <1>1 DEF PairInv, Inside
  <2>4. CrashConsistent'
    BY <2>2, <2>3 DEF CrashConsistent
  <2> QED BY <1>1, <2>1, <2>2, <2>4 DEF Outside
<1> QED BY <1>1, <1>2, <1>3 DEF PairInv, FlashInv

\* A write cut short.
LEMMA CutOutside ==
    ASSUME PairInv, NEW r, Legal(r), CutShort(r), Fits(r), bond' = bond, Observes
    PROVE  /\ FlashInv' /\ Outside' /\ LoadFrom(slots')
           /\ OnFlash' = Loaded(current_slot', current', storage_state')
           /\ staged' = IF current_slot' = -1 THEN NoAddr ELSE current'.addr
<1>1. storage_state # 255 /\ r \in Records
  BY DEF CutShort, Writable, Legal
<1>2. /\ FlashInv' /\ LoadFrom(slots')
      /\ OnFlash' = Loaded(current_slot', current', storage_state')
      /\ staged' = IF current_slot' = -1 THEN NoAddr ELSE current'.addr
      /\ \/ Settled /\ OnFlash' = OnFlash /\ HasValid(slots)'
         \/ OnFlash' = Loaded(TargetSlot, r, r.state) /\ HasValid(slots)'
         \/ /\ Unsettled /\ OnFlash'.state \in {0, 3, 255}
            /\ storage_state = 3 => OnFlash'.state # 0
  BY CutFlash DEF PairInv
<1>3. CASE Settled /\ OnFlash' = OnFlash /\ HasValid(slots)'
  BY <1>2, <1>3, SameOutside DEF PairInv
<1>4. CASE OnFlash' = Loaded(TargetSlot, r, r.state) /\ HasValid(slots)'
  <2>1. OnFlash'.rec = r /\ OnFlash'.state = r.state
    BY <1>4 DEF Loaded
  <2> QED BY <1>1, <1>2, <1>4, <2>1, RecordOutside
<1>5. CASE /\ Unsettled /\ OnFlash'.state \in {0, 3, 255}
           /\ storage_state = 3 => OnFlash'.state # 0
  <2>1. Known' = {} /\ kept' = 0 /\ storage_state \in {0, 3}
    BY <1>1, <1>5, UnsettledOutside
  <2>2. ~Bound(OnFlash)' /\ (Free(OnFlash)' => storage_state = 0)
    BY <1>5, <2>1 DEF Bound, Free
  <2>3. storage_state = 0 => bond' = NoAddr
    BY DEF PairInv, Inside
  <2> QED BY <1>2, <2>1, <2>2, <2>3 DEF Outside, CrashConsistent
<1> QED BY <1>2, <1>3, <1>4, <1>5

-----------------------------------------------------------------------------
\* Booting.

\* The observers keep their types over a step.
Ids == /\ reported' \subseteq 1..MaxCounter /\ forgotten' \subseteq 1..MaxCounter
       /\ kept' \in 0..MaxCounter

\* rbp_server_init and wch_central_init take up what was on the flash.
LEMMA BootInv ==
    ASSUME PairTypeOK, FlashInv', Outside', Ids, Reboot,
           OnFlash' = Loaded(current_slot', current', storage_state'),
           staged' = IF current_slot' = -1 THEN NoAddr ELSE current'.addr
    PROVE  PairInv'
<1>1. OnFlash'.state = storage_state' /\ OnFlash'.rec = current'
  BY DEF Loaded
<1>2. BootFlags(storage_state', current')
  BY <1>1 DEF Reboot, OnFlash
<1>3. TypeOK'
  BY DEF FlashInv, JournalInv
<1>4. storage_state' = 1 => current' \in Records /\ current_slot' # -1
  BY FlashViewNext DEF FlashFacts
<1>5. peer' = IF storage_state' = 1 THEN [id |-> current'.peer, auto |-> current'.auto]
              ELSE Unbound
  BY <1>2 DEF BootFlags
<1>6. peer' \in [id : 0..MaxCounter, auto : BOOLEAN]
  BY <1>4, <1>5, JournalAssumption DEF Unbound, Records
<1>7. /\ wc_state' = "IDLE" /\ pairing_link' = FALSE /\ pair_pending' = FALSE
      /\ bond_ready' = FALSE /\ delete_report' = FALSE /\ erase_requested' = FALSE
      /\ security_blocked' = FALSE /\ sdk_erasing' = FALSE /\ op' = "NONE" /\ bond' = bond
      /\ recovering' \in BOOLEAN /\ (recovering' => storage_state' \in {2, 3})
      /\ radio_faulted' \in BOOLEAN /\ (storage_state' = 255 => radio_faulted')
  <2>1. recovering' = (storage_state' \in {2, 3}) /\ radio_faulted' = (storage_state' = 255)
    BY <1>2 DEF BootFlags
  <2>2. recovering' \in BOOLEAN /\ (recovering' => storage_state' \in {2, 3})
    <3> DEFINE rolls == storage_state' \in {2, 3}
    <3>1. recovering' = rolls /\ rolls \in BOOLEAN
      BY <2>1
    <3> HIDE DEF rolls
    <3>2. recovering' \in BOOLEAN /\ (recovering' => rolls)
      BY <3>1
    <3> QED BY <3>2 DEF rolls
  <2>3. radio_faulted' \in BOOLEAN /\ (storage_state' = 255 => radio_faulted')
    BY <2>1
  <2> QED BY <1>2, <2>2, <2>3 DEF BootFlags
<1>8. PairTypeOK'
  BY <1>3, <1>6, <1>7 DEF PairTypeOK, TypeOK, Ids
<1>9. peer'.id # 0 => /\ storage_state' = 1 /\ peer'.id = current'.peer
                      /\ Bound(OnFlash)' /\ staged' = current'.addr
  BY <1>1, <1>4, <1>5 DEF Unbound, Bound
<1>10. Inside'
  <2>1. storage_state' = 0 => bond' = NoAddr
    BY <1>1 DEF Outside, CrashConsistent, Free
  <2>2. storage_state' # 1 => peer'.id = 0
    BY <1>5 DEF Unbound
  <2>3. peer'.id # 0 => peer'.id <= current'.counter /\ peer'.id \notin forgotten'
    BY <1>1, <1>9 DEF Outside
  <2> QED BY <1>7, <1>9, <2>1, <2>2, <2>3 DEF Inside
<1> QED BY <1>8, <1>10 DEF PairInv
=============================================================================
