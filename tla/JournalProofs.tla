---------------------------- MODULE JournalProofs ----------------------------
(***************************************************************************)
(* For every size of the EEPROM's counters: the journal keeps its          *)
(* invariant, and it implements DurableRecord.                             *)
(***************************************************************************)
EXTENDS JournalRefinement, TLAPS

-----------------------------------------------------------------------------
\* Records and pages.

\* The first pairing intent on a blank EEPROM is well formed.
LEMMA InitialPendingType == InitialPending \in Records
  BY JournalAssumption DEF InitialPending, Records, Addresses

\* A page image of a record carries that record and is never the erased page.
LEMMA PageType ==
    ASSUME NEW r \in Records, NEW k \in {"torn", "body", "valid"}
    PROVE  /\ Page(k, r) \in Pages
           /\ Page(k, r).kind = k
           /\ Page(k, r).rec = r
           /\ Page(k, r) # Erased
  BY DEF Page, Pages, Erased

\* An erased page is a page, fails valid() and holds no record.
LEMMA ErasedType == Erased \in Pages /\ ~valid(Erased) /\ Erased.rec = NoRecord
  BY DEF Page, Pages, Erased, valid

\* A page that is not erased holds a record, in one of the three stages of a write.
LEMMA WrittenPageType ==
    ASSUME NEW p \in Pages, p # Erased
    PROVE  p.rec \in Records /\ p.kind \in {"torn", "body", "valid"} /\ p = Page(p.kind, p.rec)
  BY DEF Page, Pages, Erased

\* load_slots returns a state of its own only for an empty or a corrupt EEPROM.
LEMMA LoadType ==
    ASSUME NEW sl \in [0..1 -> Pages]
    PROVE  /\ load_slots(sl).slot \in -1..1
           /\ load_slots(sl).rec \in Records \cup {NoRecord}
           /\ load_slots(sl).state \in {0, 1, 2, 3, 255}
           /\ load_slots(sl).slot # -1 =>
                 load_slots(sl).rec \in Records /\ load_slots(sl).state = load_slots(sl).rec.state
<1> USE DEF Loaded
<1>1. sl[0] \in Pages /\ sl[1] \in Pages
  OBVIOUS
<1>2. \A p \in Pages : valid(p) \/ PendingBody(p) => p.rec \in Records
  BY DEF Pages, valid, PendingBody
<1>3. \A r \in Records : r.state \in 1..3
  BY DEF Records
<1>4. CASE valid(sl[0]) \/ valid(sl[1])
  <2>1. Newest(sl) \in 0..1 /\ sl[Newest(sl)].rec \in Records
    BY <1>1, <1>2, <1>4 DEF Newest
  <2> QED BY <1>3, <1>4, <2>1 DEF load_slots
<1>5. CASE ~(valid(sl[0]) \/ valid(sl[1]))
  <2>1. InitialPending.state = 3
    BY DEF InitialPending
  <2>2. \A p : PendingBody(p) => p.rec.state = 3
    BY DEF PendingBody
  <2> QED BY <1>1, <1>2, <1>5, <2>1, <2>2, InitialPendingType DEF load_slots
<1> QED BY <1>4, <1>5

-----------------------------------------------------------------------------
\* Every step is one of six things.

\* The records write_record makes: they fit, they carry the next generation, and on a
\* blank EEPROM there is only one.
Legal(r) ==
    /\ r \in Records /\ r.gen = Generation + 1
    /\ current_slot = -1 => r = InitialPending

\* The target page now holds p.
Programmed(p) == slots' = [slots EXCEPT ![TargetSlot] = p]

Rests == UNCHANGED <<slots, current, current_slot, storage_state>> /\ staged' \in Addresses

Acked(r) == Legal(r) /\ Written(r) /\ staged' \in Addresses

Failed(r) ==
    /\ Legal(r) /\ Writable /\ staged' \in Addresses
    /\ \E p \in Images(r) \cup {Page("valid", r)} : Programmed(p)
    /\ UNCHANGED <<current, current_slot, storage_state>>

Cut(r) == Legal(r) /\ CutShort(r)

\* A record in use is well formed and has a page.
LEMMA CurrentType ==
    ASSUME JournalInv, storage_state # 255, current_slot # -1
    PROVE  current \in Records /\ current_slot \in 0..1
<1>1. current_slot \in 0..1 /\ slots[current_slot] \in Pages
  BY DEF JournalInv, TypeOK
<1>2. CASE OnCommitted
  <2>1. Page("valid", current) \in Pages
    BY <1>1, <1>2 DEF OnCommitted
  <2> QED BY <1>1, <2>1 DEF Page, Pages
<1>3. CASE OnRemains
  <2>1. CASE slots[current_slot] = Page("body", current)
    BY <1>1, <2>1 DEF Page, Pages
  <2>2. CASE current = InitialPending
    BY <1>1, <2>2, InitialPendingType
  <2> QED BY <1>3, <2>1, <2>2 DEF OnRemains
<1> QED BY <1>2, <1>3 DEF JournalInv, Blank

\* Every record a store operation writes is legal: well formed, of the next
\* generation, and on a blank EEPROM the first pairing intent.
LEMMA LegalRecords ==
    ASSUME JournalInv, Writable
    PROVE  /\ PairAllowed => Legal(PairRecord)
           /\ HasRecord => Legal(ForgetRecord) /\ Legal(ClearRecord)
           /\ HasRecord => \A peer \in 1..MaxCounter, auto \in BOOLEAN :
                              Legal(SaveRecord(peer, auto))
<1> USE JournalAssumption
<1>1. current_slot # -1 => current \in Records
  BY CurrentType DEF Writable
<1>2. Generation \in 0..(MaxGen - 1)
  BY <1>1 DEF Generation, Writable, Records
<1>3. board_peer_counter \in 0..MaxCounter
  BY <1>1 DEF board_peer_counter, Records
<1>4. staged \in Addresses
  BY DEF JournalInv, TypeOK
<1>5. \A state \in 1..3, peer \in 0..MaxCounter, auto \in BOOLEAN,
         counter \in 0..MaxCounter, addr \in Addresses :
         /\ NewRecord(state, peer, auto, counter, addr) \in Records
         /\ NewRecord(state, peer, auto, counter, addr).gen = Generation + 1
  BY <1>2 DEF NewRecord, Records, Addresses
<1>6. NoAddr \in Addresses /\ 0 \in 0..MaxCounter /\ FALSE \in BOOLEAN /\ {1, 2, 3} \subseteq 1..3
  BY DEF Addresses
<1>7. PairAllowed => Legal(PairRecord)
  <2> SUFFICES ASSUME PairAllowed PROVE Legal(PairRecord)
    OBVIOUS
  <2>1. board_peer_counter + 1 \in 0..MaxCounter
    BY <1>3 DEF PairAllowed
  <2>2. current_slot = -1 => PairRecord = InitialPending
    BY DEF PairRecord, NewRecord, InitialPending, Generation, board_peer_counter
  <2>3. PairRecord \in Records /\ PairRecord.gen = Generation + 1
    BY <1>5, <1>6, <2>1, Zenon DEF PairRecord
  <2> QED BY <2>2, <2>3 DEF Legal
<1>8. ForgetRecord \in Records /\ ForgetRecord.gen = Generation + 1
  BY <1>3, <1>5, <1>6, Zenon DEF ForgetRecord
<1>9. ClearRecord \in Records /\ ClearRecord.gen = Generation + 1
  BY <1>3, <1>5, <1>6, Zenon DEF ClearRecord
<1>10. \A peer \in 1..MaxCounter, auto \in BOOLEAN :
          /\ SaveRecord(peer, auto) \in Records
          /\ SaveRecord(peer, auto).gen = Generation + 1
  <2> TAKE peer \in 1..MaxCounter, auto \in BOOLEAN
  <2>1. peer \in 0..MaxCounter
    OBVIOUS
  <2> QED BY <1>2, <1>3, <1>4, <2>1 DEF SaveRecord, NewRecord, Records, Addresses
<1> QED
  BY <1>7, <1>8, <1>9, <1>10 DEF Legal, HasRecord

\* A call of write_record is acknowledged, fails with the target page in some stage
\* of the write, or is refused and changes nothing.
LEMMA AttemptCases ==
    ASSUME NEW r, Writable => Legal(r), Attempt(r), staged' \in Addresses
    PROVE  Acked(r) \/ Failed(r) \/ Rests
<1>1. CASE Written(r)
  BY <1>1 DEF Acked, Written
<1>2. CASE NotWritten(r) /\ ~Writable
  BY <1>2 DEF NotWritten, Rests
<1>3. CASE NotWritten(r) /\ Writable
  BY <1>3 DEF NotWritten, Failed, Programmed
<1> QED BY <1>1, <1>2, <1>3 DEF Attempt

\* Every step writes and is acknowledged, fails or is cut short by a power loss, or
\* is a power cycle, with readable pages or not, or leaves the journal alone.
LEMMA StepCases ==
    ASSUME JournalInv, [JournalNext]_journalVars
    PROVE  \/ Rests
           \/ \E r : Acked(r) \/ Failed(r) \/ Cut(r)
           \/ slots' = slots /\ LoadFrom(slots)
           \/ LoadUnreadable
<1>1. staged \in Addresses /\ NoAddr \in Addresses
  BY DEF JournalInv, TypeOK, Addresses
<1>2. CASE UNCHANGED journalVars
  BY <1>1, <1>2 DEF Rests, journalVars
<1>3. CASE board_begin_pair
  BY <1>1, <1>3, LegalRecords, AttemptCases DEF board_begin_pair
<1>4. CASE board_begin_forget
  BY <1>1, <1>4, LegalRecords, AttemptCases DEF board_begin_forget
<1>5. ASSUME NEW peer \in 1..MaxCounter, NEW auto \in BOOLEAN, store_save(peer, auto)
      PROVE  \/ Rests
             \/ \E r : Acked(r) \/ Failed(r) \/ Cut(r)
  BY <1>1, <1>5, LegalRecords, AttemptCases DEF store_save
<1>6. CASE store_clear
  BY <1>1, <1>6, LegalRecords, AttemptCases DEF store_clear
<1>7. ASSUME NEW addr \in Identities, board_addr_stage(addr)
      PROVE  Rests
  BY <1>7 DEF board_addr_stage, Rests, Addresses
<1>8. CASE PowerLoss
  <2>1. \A r : CutShort(r) => Writable
    BY DEF CutShort
  <2> QED BY <1>8, <2>1, LegalRecords DEF PowerLoss, Cut
<1> QED BY <1>2, <1>3, <1>4, <1>5, <1>6, <1>7, <1>8 DEF JournalNext

-----------------------------------------------------------------------------
\* The invariant.

\* The committed pages can be told apart.
Distinct(sl) == valid(sl[0]) /\ valid(sl[1]) => sl[0].rec.gen # sl[1].rec.gen

\* A write leaves pages of the right type that can be told apart, the page of the
\* current record as it was.
LEMMA ProgrammedPages ==
    ASSUME JournalInv, Writable, NEW r, Legal(r),
           NEW p \in Images(r) \cup {Page("valid", r)}, Programmed(p)
    PROVE  /\ TargetSlot \in 0..1 /\ p \in Pages
           /\ slots' \in [0..1 -> Pages] /\ Distinct(slots')
           /\ slots'[TargetSlot] = p /\ slots'[1 - TargetSlot] = slots[1 - TargetSlot]
           /\ p = slots[TargetSlot] \/ p = Erased
                 \/ (p # Erased /\ ~valid(p) /\ p.rec \in {r, slots[TargetSlot].rec})
                 \/ p = Page("valid", r)
           /\ current_slot = -1 => p = Erased \/ p.rec = InitialPending
<1>1. r \in Records /\ slots \in [0..1 -> Pages] /\ current_slot \in -1..1 /\ storage_state # 255
  BY DEF Legal, JournalInv, TypeOK, Writable
<1>2. TargetSlot \in 0..1
  BY <1>1 DEF TargetSlot
<1>3. \A k \in {"torn", "body"} : Page(k, r) \in Pages /\ Page(k, r) # Erased
                                  /\ ~valid(Page(k, r)) /\ Page(k, r).rec = r
  BY <1>1 DEF Page, Pages, Erased, valid
<1>4. slots[TargetSlot] \in Pages
  BY <1>1, <1>2
<1>5. slots[TargetSlot] # Erased =>
         LET q == Page("torn", slots[TargetSlot].rec)
         IN q \in Pages /\ q # Erased /\ ~valid(q) /\ q.rec = slots[TargetSlot].rec
  BY <1>4 DEF Page, Pages, Erased, valid
<1>6. Page("valid", r) \in Pages /\ Page("valid", r).rec = r
  BY <1>1, PageType
<1>7. \/ p = slots[TargetSlot] \/ p = Erased \/ p = Page("valid", r)
      \/ (p \in Pages /\ p # Erased /\ ~valid(p) /\ p.rec \in {r, slots[TargetSlot].rec})
  BY <1>3, <1>5 DEF Images
<1>8. p \in Pages
  BY <1>4, <1>6, <1>7, ErasedType
<1>9. /\ slots' \in [0..1 -> Pages]
      /\ slots'[TargetSlot] = p /\ slots'[1 - TargetSlot] = slots[1 - TargetSlot]
  BY <1>1, <1>2, <1>8 DEF Programmed
<1>10. current_slot = -1 => p = Erased \/ p.rec = InitialPending
  <2> SUFFICES ASSUME current_slot = -1 PROVE p = Erased \/ p.rec = InitialPending
    OBVIOUS
  <2>1. r = InitialPending /\ TargetSlot = 0
    BY DEF Legal, TargetSlot
  <2>2. slots[0] = Erased \/ slots[0].rec = InitialPending
    BY <1>1 DEF JournalInv, Blank, OnCommitted, OnRemains
  <2>3. slots[0] = Erased => p = Erased \/ p.rec = r
    BY <1>3, <1>6, <2>1 DEF Images
  <2> QED BY <1>6, <1>7, <2>1, <2>2, <2>3
<1>11. Distinct(slots')
  <2>1. CASE p = slots[TargetSlot] \/ ~valid(p)
    BY <1>2, <1>9, <2>1 DEF Distinct, JournalInv
  <2>2. CASE p = Page("valid", r)
    <3>1. p.rec.gen = Generation + 1
      BY <1>6, <2>2 DEF Legal
    <3>2. CASE Blank
      BY <1>2, <1>9, <3>2, ErasedType DEF Blank, TargetSlot, Distinct
    <3>3. CASE OnCommitted
      <4>1. current \in Records /\ slots[current_slot].rec = current
        BY <1>1, <3>3, CurrentType DEF OnCommitted, Page
      <4>2. slots'[current_slot].rec.gen = Generation /\ Generation \in Int
        BY <1>9, <3>3, <4>1 DEF OnCommitted, TargetSlot, Generation, Records
      <4> QED BY <1>9, <3>1, <3>3, <4>2 DEF OnCommitted, TargetSlot, Distinct
    <3>4. CASE OnRemains
      <4>1. ~valid(slots[current_slot])
        BY <3>4 DEF OnRemains, Page, valid
      <4> QED BY <1>9, <3>4, <4>1 DEF OnRemains, TargetSlot, Distinct
    <3> QED BY <1>1, <3>2, <3>3, <3>4 DEF JournalInv
  <2> QED BY <1>7, <2>1, <2>2, ErasedType
<1> QED BY <1>2, <1>7, <1>8, <1>9, <1>10, <1>11

\* Of two valid pages that can be told apart, the newest has the larger generation.
LEMMA NewestWins ==
    ASSUME NEW sl \in [0..1 -> Pages], Distinct(sl), valid(sl[0]) \/ valid(sl[1])
    PROVE  valid(sl[1 - Newest(sl)]) =>
              /\ sl[1 - Newest(sl)].rec \in Records
              /\ sl[1 - Newest(sl)].rec.gen < sl[Newest(sl)].rec.gen
<1> DEFINE g(i) == sl[i].rec.gen
<1>1. \A i \in 0..1 : valid(sl[i]) => sl[i].rec \in Records
  BY DEF valid, Pages
<1>2. \A i \in 0..1 : valid(sl[i]) => g(i) \in Int
  BY <1>1 DEF Records
<1>3. CASE valid(sl[0]) /\ valid(sl[1])
  <2>1. g(0) \in Int /\ g(1) \in Int /\ g(0) # g(1)
    BY <1>2, <1>3 DEF Distinct
  <2>2. CASE g(1) < g(0)
    <3>1. Newest(sl) = 0 /\ 1 - Newest(sl) = 1
      BY <1>3, <2>1, <2>2 DEF Newest
    <3> QED BY <1>1, <1>3, <2>2, <3>1
  <2>3. CASE g(0) < g(1)
    <3>1. Newest(sl) = 1 /\ 1 - Newest(sl) = 0
      BY <1>3, <2>1, <2>3 DEF Newest
    <3> QED BY <1>1, <1>3, <2>3, <3>1
  <2>4. g(0) < g(1) \/ g(1) < g(0)
    BY <2>1
  <2> QED BY <2>2, <2>3, <2>4
<1>4. CASE valid(sl[0]) /\ ~valid(sl[1])
  <2>1. Newest(sl) = 0 /\ 1 - Newest(sl) = 1
    BY <1>4 DEF Newest
  <2> QED BY <1>4, <2>1
<1>5. CASE ~valid(sl[0])
  <2>1. Newest(sl) = 1 /\ 1 - Newest(sl) = 0
    BY <1>5 DEF Newest
  <2> QED BY <1>5, <2>1
<1> QED BY <1>3, <1>4, <1>5

\* load_slots establishes the invariant on any pages that can be told apart.
LEMMA LoadInv ==
    ASSUME slots' \in [0..1 -> Pages], Distinct(slots'), LoadFrom(slots')
    PROVE  JournalInv'
<1> DEFINE sl == slots'
           l == load_slots(sl)
<1>1. current' = l.rec /\ current_slot' = l.slot /\ storage_state' = l.state
  BY DEF LoadFrom
<1>2. staged' = IF l.slot = -1 THEN NoAddr ELSE l.rec.addr
  BY DEF LoadFrom
<1>3. TypeOK'
  <2>1. staged' \in Addresses
    BY <1>2, LoadType DEF Records, Addresses
  <2> QED BY <1>1, <2>1, LoadType DEF TypeOK
<1>4. sl[0] \in Pages /\ sl[1] \in Pages
  OBVIOUS
<1>5. storage_state' # 255 => (Blank \/ OnCommitted \/ OnRemains)'
  <2> SUFFICES ASSUME storage_state' # 255 PROVE (Blank \/ OnCommitted \/ OnRemains)'
    OBVIOUS
  <2>1. CASE valid(sl[0]) \/ valid(sl[1])
    <3> DEFINE n == Newest(sl)
    <3>1. n \in 0..1 /\ valid(sl[n])
      BY <2>1 DEF Newest
    <3>2. l = Loaded(n, sl[n].rec, sl[n].rec.state)
      BY <2>1 DEF load_slots
    <3>3. sl[n].rec \in Records /\ sl[n] = Page("valid", sl[n].rec)
      BY <1>4, <3>1 DEF valid, Pages, Page
    <3>4. valid(sl[1 - n]) => sl[1 - n].rec \in Records /\ sl[1 - n].rec.gen < sl[n].rec.gen
      BY <2>1, NewestWins
    <3> QED BY <1>1, <3>1, <3>2, <3>3, <3>4 DEF OnCommitted, Loaded, Other
  <2>2. CASE ~valid(sl[0]) /\ ~valid(sl[1]) /\ sl[0] = Erased /\ sl[1] = Erased
    BY <1>1, <2>2 DEF load_slots, Loaded, Blank
  <2>3. CASE ~valid(sl[0]) /\ ~valid(sl[1]) /\ ~(sl[0] = Erased /\ sl[1] = Erased)
    <3>1. ASSUME NEW i \in 0..1, PendingBody(sl[i]), l = Loaded(i, sl[i].rec, 3)
          PROVE  OnRemains'
      <4>1. sl[i] = Page("body", sl[i].rec) /\ sl[i].rec.state = 3
        BY <1>4, <3>1 DEF PendingBody, Pages, Page
      <4> QED BY <1>1, <3>1, <4>1 DEF OnRemains, Loaded
    <3>2. CASE PendingBody(sl[0])
      BY <2>3, <3>1, <3>2 DEF load_slots
    <3>3. CASE ~PendingBody(sl[0]) /\ PendingBody(sl[1])
      BY <2>3, <3>1, <3>3 DEF load_slots
    <3>4. CASE ~PendingBody(sl[0]) /\ ~PendingBody(sl[1])
      <4>1. sl[0].rec = InitialPending /\ l = Loaded(0, InitialPending, 3)
        BY <1>1, <2>3, <3>4 DEF load_slots, Loaded
      <4>2. sl[0] = Page("torn", InitialPending)
        <5>1. sl[0] # Erased
          BY <4>1, ErasedType, InitialPendingType, NoRecordAssumption
        <5>2. sl[0].kind # "body"
          BY <3>4, <4>1 DEF PendingBody, InitialPending
        <5> QED BY <1>4, <2>3, <4>1, <5>1, <5>2, WrittenPageType DEF valid
      <4>3. current' = InitialPending /\ current_slot' = 0 /\ storage_state' = 3
        BY <1>1, <4>1 DEF Loaded
      <4>4. InitialPending.state = 3
        BY DEF InitialPending
      <4> QED BY <2>3, <4>2, <4>3, <4>4 DEF OnRemains
    <3> QED BY <3>2, <3>3, <3>4
  <2> QED BY <2>1, <2>2, <2>3
<1> QED BY <1>3, <1>5 DEF JournalInv, Distinct

\* The initial state satisfies the invariant.
LEMMA InitInv == JournalInit => JournalInv
  BY ErasedType DEF JournalInit, JournalInv, TypeOK, Blank, Addresses, valid

\* An acknowledged write keeps the invariant.
LEMMA AckedInv ==
    ASSUME JournalInv, NEW r, Acked(r)
    PROVE  JournalInv'
<1>1. Writable /\ Legal(r) /\ r \in Records /\ staged' \in Addresses
  BY DEF Acked, Legal, Written
<1>2. Programmed(Page("valid", r)) /\ Page("valid", r) \in Images(r) \cup {Page("valid", r)}
  BY DEF Acked, Written, Programmed
<1>3. /\ TargetSlot \in 0..1 /\ slots' \in [0..1 -> Pages] /\ Distinct(slots')
      /\ slots'[TargetSlot] = Page("valid", r)
      /\ slots'[1 - TargetSlot] = slots[1 - TargetSlot]
  BY <1>1, <1>2, ProgrammedPages
<1>4. current' = r /\ current_slot' = TargetSlot /\ storage_state' = r.state
  BY DEF Acked, Written
<1>5. TypeOK'
  BY <1>1, <1>3, <1>4 DEF TypeOK, Records
<1>6. valid(slots[1 - TargetSlot]) => slots[1 - TargetSlot].rec.gen < r.gen
  <2>1. CASE current_slot = -1
    BY <1>1, <2>1, ErasedType
       DEF JournalInv, Blank, OnCommitted, OnRemains, TargetSlot, Writable
  <2>2. CASE current_slot # -1
    <3>1. current \in Records /\ current_slot \in 0..1 /\ 1 - TargetSlot = current_slot
      BY <1>1, <2>2, CurrentType DEF Writable, TargetSlot
    <3>2. valid(slots[current_slot]) => slots[current_slot].rec = current
      BY <1>1, <2>2 DEF JournalInv, Blank, OnCommitted, OnRemains, Writable, Page, valid
    <3> QED BY <1>1, <2>2, <3>1, <3>2 DEF Legal, Generation, Records
  <2> QED BY <2>1, <2>2
<1>7. OnCommitted'
  BY <1>3, <1>4, <1>6 DEF OnCommitted, Other
<1> QED BY <1>3, <1>5, <1>7 DEF JournalInv, Distinct

\* A write that save reports as failed keeps the invariant.
LEMMA FailedInv ==
    ASSUME JournalInv, NEW r, Failed(r)
    PROVE  JournalInv'
<1>1. Writable /\ Legal(r) /\ r \in Records /\ storage_state # 255
  BY DEF Failed, Legal, Writable
<1>2. PICK p \in Images(r) \cup {Page("valid", r)} : Programmed(p)
  BY DEF Failed
<1>3. /\ TargetSlot \in 0..1 /\ slots' \in [0..1 -> Pages] /\ Distinct(slots')
      /\ slots'[TargetSlot] = p /\ slots'[1 - TargetSlot] = slots[1 - TargetSlot]
      /\ p = slots[TargetSlot] \/ ~valid(p) \/ p = Page("valid", r)
      /\ current_slot = -1 => p = Erased \/ p.rec = InitialPending
  BY <1>1, <1>2, ProgrammedPages, ErasedType
<1>4. current' = current /\ current_slot' = current_slot /\ storage_state' = storage_state
  BY DEF Failed
<1>5. TypeOK'
  BY <1>3, <1>4 DEF TypeOK, JournalInv, Failed
<1>6. (Blank \/ OnCommitted \/ OnRemains)'
  <2>1. CASE Blank
    BY <1>3, <1>4, <2>1 DEF Blank, TargetSlot
  <2>2. CASE OnCommitted
    <3>1. current \in Records /\ current_slot \in 0..1 /\ TargetSlot = 1 - current_slot
      BY <1>1, <2>2, CurrentType DEF OnCommitted, TargetSlot
    <3>2. Page("valid", r).rec.gen = current.gen + 1
      BY <1>1, <3>1 DEF Page, Legal, Generation
    <3> QED BY <1>3, <1>4, <2>2, <3>1, <3>2, SMTT(30) DEF OnCommitted, Other
  <2>3. CASE OnRemains
    BY <1>3, <1>4, <2>3 DEF OnRemains, TargetSlot
  <2> QED BY <1>1, <2>1, <2>2, <2>3 DEF JournalInv
<1> QED BY <1>3, <1>5, <1>6 DEF JournalInv, Distinct

\* A write cut short by a power loss, and the load that follows, keep the invariant.
LEMMA CutInv ==
    ASSUME JournalInv, NEW r, Cut(r)
    PROVE  JournalInv'
<1>1. Writable /\ Legal(r) /\ LoadFrom(slots')
  BY DEF Cut, CutShort
<1>2. PICK p \in Images(r) \cup {Page("valid", r)} : Programmed(p)
  BY DEF Cut, CutShort, Programmed
<1> QED BY <1>1, <1>2, ProgrammedPages, LoadInv

\* Every step keeps the invariant.
LEMMA StepInv == JournalInv /\ [JournalNext]_journalVars => JournalInv'
<1> SUFFICES ASSUME JournalInv, [JournalNext]_journalVars PROVE JournalInv'
  OBVIOUS
<1>1. CASE Rests
  BY <1>1 DEF Rests, JournalInv, TypeOK, Blank, OnCommitted, OnRemains, Other
<1>2. CASE slots' = slots /\ LoadFrom(slots)
  BY <1>2, LoadInv DEF JournalInv, TypeOK, Distinct
<1>3. CASE LoadUnreadable
  <2>1. slots' = slots /\ storage_state' = 255
    BY <1>3 DEF LoadUnreadable
  <2>2. valid(slots[0]) => slots[0].rec \in Records
    BY DEF valid, JournalInv, TypeOK, Pages
  <2>3. TypeOK'
    BY <1>3, <2>1, <2>2 DEF LoadUnreadable, JournalInv, TypeOK, Addresses
  <2> QED BY <2>1, <2>3 DEF JournalInv
<1> QED BY <1>1, <1>2, <1>3, StepCases, AckedInv, FailedInv, CutInv

\* board.c: RAM, the two pages and load_slots agree in every reachable state.
THEOREM JournalInvariant == JournalSpec => []JournalInv
  BY InitInv, StepInv, PTL DEF JournalSpec

\* board.c: the variables keep their types, generations and counters their width.
THEOREM JournalTypeCorrect == JournalSpec => []TypeOK
<1>1. JournalInv => TypeOK
  BY DEF JournalInv
<1> QED BY <1>1, JournalInvariant, PTL

-----------------------------------------------------------------------------
\* The refinement.

\* What a power cycle would show the callers on the pages sl.
Shown(sl) == Visible(load_slots(sl).state, load_slots(sl).slot, load_slots(sl).rec)

\* What the callers see of a record is a value of the abstract record, not Corrupt.
LEMMA ValueType ==
    ASSUME NEW r \in Records
    PROVE  Value(r) \in Values /\ Value(r) # Empty /\ Value(r) # Corrupt
<1>1. Value(r) \in Values
  BY DEF Value, Values, Records
<1> QED BY <1>1, VisibleAssumption

\* load_slots takes a committed page unless the other one is committed and not older.
LEMMA LoadNewest ==
    ASSUME NEW sl \in [0..1 -> Pages], NEW i \in 0..1, valid(sl[i]),
           valid(sl[1 - i]) => sl[1 - i].rec.gen < sl[i].rec.gen
    PROVE  Newest(sl) = i /\ load_slots(sl) = Loaded(i, sl[i].rec, sl[i].rec.state)
<1>1. \A j \in 0..1 : valid(sl[j]) => sl[j].rec \in Records
  BY DEF valid, Pages
<1>2. \A j \in 0..1 : valid(sl[j]) => sl[j].rec.gen \in Int
  BY <1>1 DEF Records
<1>3. Newest(sl) = i
  BY <1>2 DEF Newest
<1> QED BY <1>3 DEF load_slots

\* A power cycle shows the value of that page.
LEMMA ShownValid ==
    ASSUME NEW sl \in [0..1 -> Pages], NEW i \in 0..1, valid(sl[i]),
           valid(sl[1 - i]) => sl[1 - i].rec.gen < sl[i].rec.gen
    PROVE  Shown(sl) = Value(sl[i].rec)
<1>1. load_slots(sl) = Loaded(i, sl[i].rec, sl[i].rec.state)
  BY LoadNewest
<1>2. sl[i].rec \in Records
  BY DEF valid, Pages
<1>3. sl[i].rec.state \in 1..3
  BY <1>2 DEF Records
<1> QED BY <1>1, <1>3 DEF Shown, Visible, Loaded

\* What a power cycle shows when neither page is committed: nothing, a pairing
\* intent without its commit word, the torn first intent, or Corrupt.
LEMMA ShownRemains ==
    ASSUME NEW sl \in [0..1 -> Pages], ~valid(sl[0]), ~valid(sl[1])
    PROVE  /\ sl[0] = Erased /\ sl[1] = Erased => Shown(sl) = Empty
           /\ PendingBody(sl[0]) => Shown(sl) = Value(sl[0].rec)
           /\ ~PendingBody(sl[0]) /\ PendingBody(sl[1]) => Shown(sl) = Value(sl[1].rec)
           /\ ~PendingBody(sl[0]) /\ ~PendingBody(sl[1]) =>
                 /\ sl[0].rec = InitialPending /\ sl[1] = Erased =>
                       Shown(sl) = Value(InitialPending)
                 /\ sl[0] # Erased \/ sl[1] # Erased =>
                       Shown(sl) \in {Value(InitialPending), Corrupt}
                 /\ sl[1] # Erased => Shown(sl) = Corrupt
<1>1. ~PendingBody(Erased)
  BY DEF PendingBody, Erased, Page
<1>2. Erased.rec # InitialPending
  BY ErasedType, InitialPendingType, NoRecordAssumption
<1>3. load_slots(sl) = IF sl[0] = Erased /\ sl[1] = Erased
                         THEN Loaded(-1, NoRecord, 0)
                         ELSE IF PendingBody(sl[0]) THEN Loaded(0, sl[0].rec, 3)
                         ELSE IF PendingBody(sl[1]) THEN Loaded(1, sl[1].rec, 3)
                         ELSE IF sl[1] = Erased /\ sl[0].rec = InitialPending
                         THEN Loaded(0, InitialPending, 3)
                         ELSE Loaded(-1, NoRecord, 255)
  BY DEF load_slots
<1>4. \A slot \in 0..1 : \A r : load_slots(sl) = Loaded(slot, r, 3) => Shown(sl) = Value(r)
  BY DEF Shown, Visible, Loaded
<1>5. load_slots(sl) = Loaded(-1, NoRecord, 0) => Shown(sl) = Empty
  BY DEF Shown, Visible, Loaded
<1>6. load_slots(sl) = Loaded(-1, NoRecord, 255) => Shown(sl) = Corrupt
  BY DEF Shown, Visible, Loaded
<1> QED BY <1>1, <1>2, <1>3, <1>4, <1>5, <1>6

\* What the callers see is not Corrupt while they can write.
LEMMA ViewUsable ==
    ASSUME JournalInv, storage_state # 255
    PROVE  /\ View # Corrupt
           /\ current_slot = -1 => View = Empty
           /\ current_slot # -1 => View = Value(current) /\ current \in Records
  BY CurrentType, ValueType, VisibleAssumption DEF View, Visible

\* A write that was not acknowledged is seen whole or not at all by a power cycle.
LEMMA ProgrammedOutcome ==
    ASSUME JournalInv, Writable, NEW r, Legal(r),
           NEW p \in Images(r) \cup {Page("valid", r)}, Programmed(p)
    PROVE  \/ Shown(slots') \in {Shown(slots), View, Value(r)}
           \/ ~Committed /\ Shown(slots') = Corrupt
<1>1. r \in Records /\ storage_state # 255
  BY DEF Legal, Writable
<1>2. /\ TargetSlot \in 0..1 /\ slots' \in [0..1 -> Pages] /\ slots \in [0..1 -> Pages]
      /\ slots'[TargetSlot] = p /\ slots'[1 - TargetSlot] = slots[1 - TargetSlot]
      /\ \/ p = slots[TargetSlot] \/ p = Erased \/ p = Page("valid", r)
         \/ (p # Erased /\ ~valid(p) /\ p.rec \in {r, slots[TargetSlot].rec})
      /\ current_slot = -1 => p = Erased \/ p.rec = InitialPending
  <2>1. slots \in [0..1 -> Pages]
    BY DEF JournalInv, TypeOK
  <2> QED BY <2>1, ProgrammedPages
<1>3. CASE p = slots[TargetSlot]
  <2>1. slots' = slots
    BY <1>2, <1>3 DEF Programmed
  <2> QED BY <2>1
<1>4. CASE Blank
  <2>1. TargetSlot = 0 /\ slots'[0] = p /\ slots'[1] = Erased /\ r = InitialPending
        /\ View = Empty
    <3>1. current_slot = -1 /\ slots[1] = Erased
      BY <1>4 DEF Blank
    <3>2. TargetSlot = 0 /\ r = InitialPending /\ View = Empty
      BY <1>1, <3>1, ViewUsable DEF TargetSlot, Legal
    <3> QED BY <1>2, <3>1, <3>2
  <2>2. CASE p = Erased
    BY <1>2, <2>1, <2>2, ErasedType, ShownRemains
  <2>3. CASE p # Erased /\ valid(p)
    <3>1. slots'[0].rec = r
      BY <1>2, <2>1, <2>3, <1>4 DEF Blank
    <3>2. valid(slots'[0]) /\ ~valid(slots'[1 - 0])
      BY <2>1, <2>3, ErasedType
    <3>3. Shown(slots') = Value(slots'[0].rec)
      BY <1>2, <3>2, ShownValid, SMTT(30)
    <3> QED BY <3>1, <3>3
  <2>4. CASE p # Erased /\ ~valid(p)
    <3>1. ~PendingBody(slots'[1]) /\ ~valid(slots'[1])
      BY <2>1 DEF PendingBody, Erased, Page, valid
    <3>2. p.rec = r /\ slots'[0].rec = r /\ ~valid(slots'[0])
      BY <1>2, <1>4, <2>1, <2>4 DEF Blank
    <3>3. Shown(slots') = Value(r)
      BY <1>2, <2>1, <3>1, <3>2, ShownRemains
    <3> QED BY <3>3
  <2> QED BY <2>2, <2>3, <2>4
<1>5. CASE OnCommitted /\ p # slots[TargetSlot]
  <2>1. /\ current \in Records /\ current_slot \in 0..1 /\ TargetSlot = 1 - current_slot
        /\ valid(slots'[current_slot]) /\ slots'[current_slot].rec = current
        /\ View = Value(current)
    BY <1>1, <1>2, <1>5, CurrentType, ViewUsable DEF OnCommitted, TargetSlot, Page, valid
  <2>2. CASE p = Page("valid", r)
    <3>1. valid(p) /\ p.rec = r /\ current.gen < r.gen
      BY <1>1, <2>1, <2>2 DEF Page, valid, Legal, Generation, Records
    <3>2. 1 - TargetSlot = current_slot /\ slots'[TargetSlot] = p
      BY <1>2, <2>1
    <3>3. slots'[1 - TargetSlot].rec.gen < slots'[TargetSlot].rec.gen
      BY <2>1, <3>1, <3>2
    <3>4. Shown(slots') = Value(slots'[TargetSlot].rec)
      BY <1>2, <3>1, <3>2, <3>3, ShownValid
    <3> QED BY <3>1, <3>2, <3>4
  <2>3. CASE ~valid(p)
    BY <1>2, <2>1, <2>3, ShownValid
  <2> QED BY <1>2, <1>5, <2>2, <2>3, ErasedType
<1>6. CASE OnRemains /\ p # slots[TargetSlot]
  <2>1. /\ current \in Records /\ current_slot \in 0..1 /\ TargetSlot = 1 - current_slot
        /\ slots'[current_slot] = slots[current_slot] /\ ~valid(slots'[current_slot])
        /\ View = Value(current) /\ ~Committed
    BY <1>1, <1>2, <1>6, CurrentType, ViewUsable
       DEF OnRemains, TargetSlot, Page, valid, Committed
  <2>2. CASE p = Page("valid", r)
    <3>1. valid(p) /\ p.rec = r
      BY <2>2 DEF Page, valid
    <3>2. ~valid(slots'[1 - TargetSlot]) /\ slots'[TargetSlot] = p
      BY <1>2, <2>1
    <3>3. Shown(slots') = Value(slots'[TargetSlot].rec)
      BY <1>2, <3>1, <3>2, ShownValid
    <3> QED BY <3>1, <3>2, <3>3
  <2>3. CASE ~valid(p) /\ slots[current_slot] = Page("body", current)
    <3>1. PendingBody(slots'[current_slot]) /\ slots'[current_slot].rec = current
      BY <1>6, <2>1, <2>3 DEF OnRemains, PendingBody, Page
    <3>2. PendingBody(p) => p.rec = r
      BY <1>1, <1>2, <2>3, <1>6 DEF PendingBody, Images, Page, valid, Erased
    <3> QED BY <1>2, <2>1, <2>3, <3>1, <3>2, ShownRemains, SMTT(30)
  <2>4. CASE ~valid(p) /\ slots[0] = Page("torn", InitialPending) /\ current_slot = 0
    <3>1. ~PendingBody(slots'[0]) /\ slots'[0].rec = InitialPending /\ current = InitialPending
      BY <1>6, <2>1, <2>4 DEF OnRemains, PendingBody, Page
    <3>2. PendingBody(p) => p.rec = r
      BY <1>1, <1>2, <2>4, <1>6, SMTT(30) DEF PendingBody, Images, Page, valid, Erased
    <3> QED BY <1>2, <2>1, <2>4, <3>1, <3>2, ShownRemains
  <2> QED BY <1>2, <1>6, <2>2, <2>3, <2>4, ErasedType DEF OnRemains
<1> QED BY <1>1, <1>3, <1>4, <1>5, <1>6 DEF JournalInv

\* A power cycle that finds a committed page has a committed record in use.
LEMMA LoadCommitted ==
    ASSUME slots' \in [0..1 -> Pages], LoadFrom(slots')
    PROVE  /\ View' = Shown(slots')
           /\ Committed' \in BOOLEAN
           /\ valid(slots'[0]) \/ valid(slots'[1]) => Committed'
<1>1. View' = Shown(slots')
  BY DEF LoadFrom, View, Shown
<1>2. Committed' \in BOOLEAN
  BY DEF Committed, valid, HasRecord
<1>3. ASSUME valid(slots'[0]) \/ valid(slots'[1]) PROVE Committed'
  <2> DEFINE n == Newest(slots')
  <2>1. n \in 0..1 /\ valid(slots'[n]) /\ slots'[n] \in Pages
    BY <1>3 DEF Newest
  <2>2. slots'[n].rec.state \in 1..3
    BY <2>1 DEF valid, Pages, Records
  <2>3. current_slot' = n /\ storage_state' = slots'[n].rec.state
    BY <1>3 DEF LoadFrom, load_slots, Loaded
  <2> QED BY <2>1, <2>2, <2>3 DEF Committed, HasRecord
<1> QED BY <1>1, <1>2, <1>3

\* A blank EEPROM maps to the empty abstract record.
LEMMA RefinesInit == JournalInit => Abstract!Init
<1> SUFFICES ASSUME JournalInit PROVE Abstract!Init
  OBVIOUS
<1>1. slots \in [0..1 -> Pages] /\ slots[0] = Erased /\ slots[1] = Erased
  BY ErasedType DEF JournalInit
<1>2. Durable = Empty
  BY <1>1, ErasedType, ShownRemains DEF Durable, Shown
<1>3. View = Empty /\ Committed = FALSE
  BY DEF JournalInit, View, Visible, Committed, HasRecord
<1> QED BY <1>2, <1>3 DEF Abstract!Init

\* An acknowledged write maps to Acknowledge.
LEMMA RefinesAcked ==
    ASSUME JournalInv, JournalInv', NEW r, Acked(r)
    PROVE  Abstract!Next
<1>1. Writable /\ Legal(r) /\ r \in Records /\ storage_state # 255
  BY DEF Acked, Legal, Written, Writable
<1>2. /\ current' = r /\ current_slot' = TargetSlot /\ storage_state' = r.state
      /\ slots'[TargetSlot] = Page("valid", r) /\ TargetSlot \in 0..1
      /\ slots' \in [0..1 -> Pages]
  <2>1. Programmed(Page("valid", r))
    BY DEF Acked, Written, Programmed
  <2> QED BY <1>1, <2>1, ProgrammedPages DEF Acked, Written
<1>3. r.state \in 1..3 /\ valid(slots'[TargetSlot]) /\ slots'[TargetSlot].rec = r
  BY <1>1, <1>2 DEF Records, Page, valid
<1>4. View' = Value(r) /\ Committed' = TRUE
  BY <1>2, <1>3 DEF View, Visible, Committed, HasRecord
<1>5. valid(slots'[1 - TargetSlot]) => slots'[1 - TargetSlot].rec.gen < r.gen
  <2>1. 1 - TargetSlot \in 0..1 /\ slots'[1 - TargetSlot] = slots[1 - TargetSlot]
    BY <1>2 DEF Acked, Written, JournalInv, TypeOK
  <2>2. CASE Blank
    <3>1. TargetSlot = 0 /\ slots[1] = Erased
      BY <2>2 DEF Blank, TargetSlot
    <3> QED BY <2>1, <3>1, ErasedType
  <2>3. CASE OnCommitted
    <3>1. current \in Records /\ current_slot \in 0..1
      BY <1>1, <2>3, CurrentType DEF OnCommitted
    <3>2. slots[1 - TargetSlot] = Page("valid", current) /\ Generation = current.gen
      BY <2>3, <3>1 DEF OnCommitted, TargetSlot, Generation
    <3> QED BY <1>1, <2>1, <3>1, <3>2 DEF Legal, Records, Page
  <2>4. CASE OnRemains
    <3>1. ~valid(slots[1 - TargetSlot])
      BY <2>4, SMTT(30) DEF OnRemains, TargetSlot, Page, valid
    <3> QED BY <2>1, <3>1
  <2> QED BY <1>1, <2>2, <2>3, <2>4 DEF JournalInv
<1>6. Durable' = Value(r)
  BY <1>2, <1>3, <1>5, ShownValid DEF Durable, Shown
<1>7. Abstract!Acknowledge(Value(r))
  BY <1>1, <1>4, <1>6, ViewUsable DEF Abstract!Acknowledge
<1> QED BY <1>1, <1>7, ValueType DEF Abstract!Next

\* A committed record stays on its page while another one is written.
LEMMA ProgrammedCommitted ==
    ASSUME JournalInv, Writable, NEW r, Legal(r), Committed,
           NEW p \in Images(r) \cup {Page("valid", r)}, Programmed(p)
    PROVE  current_slot \in 0..1 /\ valid(slots'[current_slot])
<1>1. storage_state # 255 /\ current_slot # -1 /\ valid(slots[current_slot])
  BY DEF Writable, Committed, HasRecord
<1>2. current_slot \in 0..1 /\ 1 - TargetSlot = current_slot
  BY <1>1, CurrentType DEF TargetSlot
<1> QED BY <1>1, <1>2, ProgrammedPages

\* A failed write maps to Fail.
LEMMA RefinesFailed ==
    ASSUME JournalInv, JournalInv', NEW r, Failed(r)
    PROVE  Abstract!Next
<1>1. Writable /\ Legal(r) /\ r \in Records /\ storage_state # 255
  BY DEF Failed, Legal, Writable
<1>2. PICK p \in Images(r) \cup {Page("valid", r)} : Programmed(p)
  BY DEF Failed
<1>3. current' = current /\ current_slot' = current_slot /\ storage_state' = storage_state
  BY DEF Failed
<1>4. View' = View
  BY <1>3 DEF View
<1>5. Committed' \in BOOLEAN /\ (Committed => Committed')
  <2>1. Committed' \in BOOLEAN
    BY DEF Committed, valid, HasRecord
  <2>2. Committed => Committed'
    BY <1>1, <1>2, <1>3, ProgrammedCommitted DEF Committed, HasRecord
  <2> QED BY <2>1, <2>2
<1>6. Abstract!Fail(Value(r))
  <2>1. \/ Durable' \in {Durable, View, Value(r)}
        \/ ~Committed /\ Durable' = Corrupt
    BY <1>1, <1>2, ProgrammedOutcome DEF Durable, Shown
  <2> QED
    BY <1>1, <1>4, <1>5, <2>1, ViewUsable
       DEF Abstract!Fail, Abstract!Outcome, Abstract!KeepsCommitted
<1> QED BY <1>1, <1>6, ValueType DEF Abstract!Next

\* A power cut maps to PowerLoss.
LEMMA RefinesCut ==
    ASSUME JournalInv, JournalInv', NEW r, Cut(r)
    PROVE  Abstract!Next
<1>1. Writable /\ Legal(r) /\ r \in Records /\ storage_state # 255 /\ LoadFrom(slots')
  BY DEF Cut, CutShort, Legal, Writable
<1>2. PICK p \in Images(r) \cup {Page("valid", r)} : Programmed(p)
  BY DEF Cut, CutShort, Programmed
<1>3. View' = Durable' /\ Committed' \in BOOLEAN
  BY <1>1, LoadCommitted DEF JournalInv, TypeOK, Durable, Shown
<1>4. Committed => Committed'
  <2>1. Committed => valid(slots'[0]) \/ valid(slots'[1])
    <3> SUFFICES ASSUME Committed PROVE valid(slots'[0]) \/ valid(slots'[1])
      OBVIOUS
    <3>1. current_slot \in 0..1 /\ valid(slots'[current_slot])
      BY <1>1, <1>2, ProgrammedCommitted
    <3> QED BY <3>1
  <2> QED BY <1>1, <2>1, LoadCommitted DEF JournalInv, TypeOK
<1>5. Abstract!PowerLoss(Value(r))
  <2>1. \/ Durable' \in {Durable, View, Value(r)}
        \/ ~Committed /\ Durable' = Corrupt
    BY <1>1, <1>2, ProgrammedOutcome DEF Durable, Shown
  <2> QED
    BY <1>1, <1>3, <1>4, <2>1, ViewUsable
       DEF Abstract!PowerLoss, Abstract!Outcome, Abstract!KeepsCommitted
<1> QED BY <1>1, <1>5, ValueType DEF Abstract!Next

\* Every step of the journal maps to a step of the abstract record or to a stutter.
LEMMA RefinesStep ==
    JournalInv /\ JournalInv' /\ [JournalNext]_journalVars
        => [Abstract!Next]_(Abstract!recordVars)
<1> SUFFICES ASSUME JournalInv, JournalInv', [JournalNext]_journalVars
             PROVE  Abstract!Next \/ UNCHANGED Abstract!recordVars
  OBVIOUS
<1>1. CASE Rests
  BY <1>1 DEF Rests, Abstract!recordVars, Durable, View, Committed, HasRecord
<1>2. Committed => valid(slots[0]) \/ valid(slots[1])
  <2>1. CASE storage_state = 255
    BY <2>1 DEF Committed
  <2>2. CASE storage_state # 255 /\ Committed
    <3>1. current_slot \in 0..1 /\ valid(slots[current_slot])
      BY <2>2, CurrentType DEF Committed, HasRecord
    <3> QED BY <3>1
  <2> QED BY <2>1, <2>2
<1>3. CASE slots' = slots /\ LoadFrom(slots)
  <2>1. LoadFrom(slots') /\ slots' \in [0..1 -> Pages]
    BY <1>3 DEF JournalInv, TypeOK
  <2>2. View' = Durable /\ Durable' = Durable
    BY <1>3, <2>1, LoadCommitted DEF Durable, Shown
  <2>3. Committed' \in BOOLEAN /\ (Committed => Committed')
    BY <1>2, <1>3, <2>1, LoadCommitted
  <2> QED BY <2>2, <2>3 DEF Abstract!Next, Abstract!PowerCycle, Abstract!KeepsCommitted
<1>4. CASE LoadUnreadable
  <2>1. View' = Corrupt /\ Durable' = Durable
    BY <1>4 DEF LoadUnreadable, View, Visible, Durable
  <2>2. Committed' \in BOOLEAN /\ (Committed => Committed')
    BY <1>2, <1>4 DEF LoadUnreadable, Committed, valid
  <2> QED BY <2>1, <2>2 DEF Abstract!Next, Abstract!Unreadable, Abstract!KeepsCommitted
<1> QED
  BY <1>1, <1>3, <1>4, StepCases, RefinesAcked, RefinesFailed, RefinesCut

\* board.c:72-74, 94-161: the two-page journal implements one record that changes
\* atomically, for every number of writes, identities and power cuts.
THEOREM JournalIsAtomic == JournalSpec => AtomicRecord
  BY RefinesInit, RefinesStep, JournalInvariant, PTL DEF JournalSpec, AtomicRecord, Abstract!Spec

=============================================================================
