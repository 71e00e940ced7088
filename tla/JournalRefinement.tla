-------------------------- MODULE JournalRefinement --------------------------
(***************************************************************************)
(* The refinement mapping from BoardJournal to DurableRecord, and the      *)
(* inductive invariant of the journal.                                     *)
(***************************************************************************)
EXTENDS BoardJournal

CONSTANTS Empty, Corrupt   \* what a caller sees in states 0 and 255

\* A record without its generation: the callers never see that.
Value(rec) == [state |-> rec.state, counter |-> rec.counter, peer |-> rec.peer,
               auto |-> rec.auto, addr |-> rec.addr]

Values == [state : 1..3, counter : 0..MaxCounter, peer : 0..MaxCounter,
           auto : BOOLEAN, addr : Addresses]

ASSUME VisibleAssumption ==
    Empty # Corrupt /\ Empty \notin Values /\ Corrupt \notin Values

Visible(state, slot, rec) ==
    IF state = 255 THEN Corrupt ELSE IF slot = -1 THEN Empty ELSE Value(rec)

Durable == Visible(load_slots(slots).state, load_slots(slots).slot, load_slots(slots).rec)
View == Visible(storage_state, current_slot, current)
Committed == IF storage_state = 255 THEN valid(slots[0]) \/ valid(slots[1])
             ELSE HasRecord /\ valid(slots[current_slot])

Abstract == INSTANCE DurableRecord WITH
                durable <- Durable, view <- View, committed <- Committed

\* board.c:72-74: whatever the EEPROM loses, the two pages behave as one record
\* that changes atomically, from the first commit on.
AtomicRecord == Abstract!Spec

-----------------------------------------------------------------------------
\* The variables of board.c keep their types.
TypeOK ==
    /\ slots \in [0..1 -> Pages]
    /\ current \in Records \cup {NoRecord}
    /\ current_slot \in -1..1
    /\ storage_state \in {0, 1, 2, 3, 255}
    /\ staged \in Addresses

-----------------------------------------------------------------------------
\* The inductive invariant.

Other(slot) == 1 - slot

\* Nothing has been committed or recovered yet: write_record has at most begun the
\* first pairing intent, on page 0.
Blank ==
    /\ current_slot = -1 /\ current = NoRecord /\ storage_state = 0
    /\ slots[1] = Erased
    /\ slots[0] = Erased \/ slots[0].rec = InitialPending

\* current is on its page.  The other page, if committed, holds an older record or the
\* one successor whose write failed after its commit word.
OnCommitted ==
    /\ current_slot \in 0..1 /\ storage_state = current.state
    /\ slots[current_slot] = Page("valid", current)
    /\ valid(slots[Other(current_slot)]) =>
          \/ slots[Other(current_slot)].rec.gen < current.gen
          \/ slots[Other(current_slot)].rec.gen = current.gen + 1

\* load_slots took up a pairing intent whose commit word is missing.
OnRemains ==
    /\ current_slot \in 0..1 /\ storage_state = 3 /\ current.state = 3
    /\ \/ slots[current_slot] = Page("body", current)
       \/ /\ current_slot = 0 /\ current = InitialPending
          /\ slots[0] = Page("torn", InitialPending)

\* write_record and load_slots: RAM and the two pages agree, and two committed pages
\* can always be told apart by their generations.
JournalInv ==
    /\ TypeOK
    /\ valid(slots[0]) /\ valid(slots[1]) => slots[0].rec.gen # slots[1].rec.gen
    /\ storage_state # 255 => Blank \/ OnCommitted \/ OnRemains
=============================================================================
