---------------------------- MODULE BoardJournal ----------------------------
(***************************************************************************)
(* The bond journal of firmware/wch/board.c: one record kept in two EEPROM *)
(* pages.  A write erases the page that does not hold the current record,  *)
(* programs the body with its CRC, verifies it, and programs the commit    *)
(* word last.  After a power cycle load_slots picks the newest committed   *)
(* page, or recognises the torn remains of the very first pairing intent.  *)
(*                                                                         *)
(* A page is abstracted to how far its programming got.  The EEPROM fails  *)
(* or loses power at any byte; what load_slots can tell apart is listed in *)
(* Images.                                                                 *)
(***************************************************************************)
EXTENDS Integers, FiniteSets

CONSTANTS
    Identities,      \* addresses of the remotes that may be bonded
    NoAddr,          \* staged_valid = false
    NoRecord,        \* current_slot = -1
    MaxGen,          \* UINT32_MAX of the generation word
    MaxCounter,      \* UINT32_MAX of the peer counter
    ReadbackFaults   \* may the read that verifies a programmed commit fail?

ASSUME JournalAssumption ==
    /\ MaxGen \in Nat \ {0}
    /\ MaxCounter \in Nat \ {0}
    /\ ReadbackFaults \in BOOLEAN
    /\ NoAddr \notin Identities

VARIABLES
    slots,          \* the two EEPROM pages
    current,        \* RAM copy of the record in use
    current_slot,   \* its page, -1 when there is none
    storage_state,  \* 0 empty, 1 committed, 2 deleting, 3 pairing, 255 corrupt
    staged          \* address the next saved record will carry

journalVars == <<slots, current, current_slot, storage_state, staged>>

Addresses == Identities \cup {NoAddr}

Records == [gen : 1..MaxGen, state : 1..3, counter : 0..MaxCounter,
            peer : 0..MaxCounter, auto : BOOLEAN, addr : Addresses]

ASSUME NoRecordAssumption == NoRecord \notin Records

\* "torn": some bytes of the body, CRC wrong.  "body": CRC right, commit word
\* missing or partial.  "valid": the commit word is there.
Pages == [kind : {"erased"}, rec : {NoRecord}]
         \cup [kind : {"torn", "body", "valid"}, rec : Records]

Page(k, r) == [kind |-> k, rec |-> r]
Erased == Page("erased", NoRecord)

valid(p) == p.kind = "valid"

-----------------------------------------------------------------------------
\* load_slots.

\* The record board_begin_pair writes on a blank EEPROM.
InitialPending == [gen |-> 1, state |-> 3, counter |-> 1, peer |-> 0,
                   auto |-> FALSE, addr |-> NoAddr]

\* Mutant of Newest: the generations are not compared.
NewestFirstPage(sl) == IF valid(sl[0]) THEN 0 ELSE 1

\* Page 0 is tried first and page 1 replaces it only with a higher generation.
Newest(sl) == IF valid(sl[0]) /\ (valid(sl[1]) => sl[1].rec.gen <= sl[0].rec.gen)
              THEN 0 ELSE 1

PendingBody(p) == p.kind = "body" /\ p.rec.state = 3

Loaded(slot, rec, state) == [slot |-> slot, rec |-> rec, state |-> state]

\* What a faultless load_slots finds on the pages sl.
load_slots(sl) ==
    IF valid(sl[0]) \/ valid(sl[1])
    THEN Loaded(Newest(sl), sl[Newest(sl)].rec, sl[Newest(sl)].rec.state)
    ELSE IF sl[0] = Erased /\ sl[1] = Erased
    THEN Loaded(-1, NoRecord, 0)
    ELSE IF PendingBody(sl[0]) THEN Loaded(0, sl[0].rec, 3)
    ELSE IF PendingBody(sl[1]) THEN Loaded(1, sl[1].rec, 3)
    ELSE IF sl[1] = Erased /\ sl[0].rec = InitialPending
    THEN Loaded(0, InitialPending, 3)
    ELSE Loaded(-1, NoRecord, 255)

\* RAM after a power cycle that finds the pages sl.
LoadFrom(sl) ==
    /\ current' = load_slots(sl).rec
    /\ current_slot' = load_slots(sl).slot
    /\ storage_state' = load_slots(sl).state
    /\ staged' = IF load_slots(sl).slot = -1 THEN NoAddr ELSE load_slots(sl).rec.addr

\* A page that cannot be read makes the store unusable until the next reset;
\* page 0 may already have been taken when page 1 fails.
LoadUnreadable ==
    /\ \/ current' = NoRecord /\ current_slot' = -1 /\ staged' = NoAddr
       \/ /\ valid(slots[0])
          /\ current' = slots[0].rec /\ current_slot' = 0 /\ staged' = NoAddr
    /\ storage_state' = 255
    /\ UNCHANGED slots

-----------------------------------------------------------------------------
\* write_record.

board_peer_counter == IF current_slot = -1 THEN 0 ELSE current.counter
Generation == IF current_slot = -1 THEN 0 ELSE current.gen

\* Mutant of TargetSlot: the record in use is overwritten in place.
TargetSlotInPlace == IF current_slot = -1 THEN 0 ELSE current_slot

TargetSlot == IF current_slot = -1 THEN 0 ELSE 1 - current_slot

Writable == storage_state # 255 /\ Generation < MaxGen

\* The record of write_record(state, rec, counter); rec is the pair peer, auto,
\* or peer = 0 for a NULL rec.
NewRecord(state, peer, auto, counter, addr) ==
    [gen |-> Generation + 1, state |-> state, counter |-> counter, peer |-> peer,
     auto |-> auto, addr |-> IF peer = 0 THEN NoAddr ELSE addr]

\* What the target page may hold when the erase, the body, the verification
\* or the commit word of r is cut short.
Images(r) ==
    {slots[TargetSlot], Erased, Page("torn", r), Page("body", r)}
    \cup (IF slots[TargetSlot] = Erased THEN {}
          ELSE {Page("torn", slots[TargetSlot].rec)})

\* write_record returned true.
Written(r) ==
    /\ Writable
    /\ slots' = [slots EXCEPT ![TargetSlot] = Page("valid", r)]
    /\ current' = r
    /\ current_slot' = TargetSlot
    /\ storage_state' = r.state

\* write_record returned false: refused, or an EEPROM call failed part way.
\* Only a failing read back leaves a committed page behind.
NotWritten(r) ==
    /\ \/ ~Writable /\ slots' = slots
       \/ /\ Writable
          /\ \E p \in Images(r)
                      \cup (IF ReadbackFaults THEN {Page("valid", r)} ELSE {}) :
                slots' = [slots EXCEPT ![TargetSlot] = p]
    /\ UNCHANGED <<current, current_slot, storage_state>>

\* Power was lost inside write_record, the commit word programmed or not.
CutShort(r) ==
    /\ Writable
    /\ \E p \in Images(r) \cup {Page("valid", r)} :
          slots' = [slots EXCEPT ![TargetSlot] = p]
    /\ LoadFrom(slots')

-----------------------------------------------------------------------------
\* The callers' operations.  board_begin_pair and store_clear drop the staged
\* address before they write, whatever the write then does.  The product forgets,
\* saves and clears only what a pairing has begun, so the first record of a blank
\* EEPROM is always a pairing intent.

HasRecord == current_slot # -1

PairRecord == NewRecord(3, 0, FALSE, board_peer_counter + 1, NoAddr)
ForgetRecord == NewRecord(2, 0, FALSE, board_peer_counter, NoAddr)
SaveRecord(peer, auto) == NewRecord(1, peer, auto, board_peer_counter, staged)

\* Mutant of ClearRecord: the peer counter is cleared too.
ClearRecordAndCounter == NewRecord(1, 0, FALSE, 0, NoAddr)

ClearRecord == NewRecord(1, 0, FALSE, board_peer_counter, NoAddr)

PairAllowed ==
    /\ storage_state # 255
    /\ storage_state = 1 => current.peer = 0
    /\ board_peer_counter < MaxCounter

Attempt(r) == Written(r) \/ NotWritten(r)

board_begin_pair == PairAllowed /\ staged' = NoAddr /\ Attempt(PairRecord)
board_begin_forget == HasRecord /\ Attempt(ForgetRecord) /\ UNCHANGED staged
store_save(peer, auto) ==
    HasRecord /\ Attempt(SaveRecord(peer, auto)) /\ UNCHANGED staged
store_clear == HasRecord /\ staged' = NoAddr /\ Attempt(ClearRecord)

board_addr_stage(addr) ==
    /\ staged' = addr
    /\ UNCHANGED <<slots, current, current_slot, storage_state>>

\* Power is lost at rest, or inside the write of r.
PowerLoss ==
    \/ slots' = slots /\ LoadFrom(slots)
    \/ PairAllowed /\ CutShort(PairRecord)
    \/ HasRecord /\ CutShort(ForgetRecord)
    \/ HasRecord /\ CutShort(ClearRecord)
    \/ \E peer \in 1..MaxCounter, auto \in BOOLEAN :
          HasRecord /\ CutShort(SaveRecord(peer, auto))

\* A blank EEPROM, loaded.
JournalInit ==
    /\ slots = [i \in 0..1 |-> Erased]
    /\ current = NoRecord
    /\ current_slot = -1
    /\ storage_state = 0
    /\ staged = NoAddr

JournalNext ==
    \/ board_begin_pair
    \/ board_begin_forget
    \/ \E peer \in 1..MaxCounter, auto \in BOOLEAN : store_save(peer, auto)
    \/ store_clear
    \/ \E addr \in Identities : board_addr_stage(addr)
    \/ PowerLoss
    \/ LoadUnreadable

JournalSpec == JournalInit /\ [][JournalNext]_journalVars
=============================================================================
