--------------------------- MODULE GattCacheStore ---------------------------
(***************************************************************************)
(* The EEPROM copy of the GATT cache (cache_store.inc): two slots, the     *)
(* newest valid one counts, and a record without data is a tombstone.      *)
(*                                                                         *)
(* A store is [slots, cur, gen]: the slots and the RAM copy of gac_slot    *)
(* and gac_generation.  A slot is NoPage (blank, torn or a bad CRC) or     *)
(* [gen, peer, data].  The bond journal the code asks first (storage_state *)
(* and the current peer) is the parameter bound: the bonded peer or 0.     *)
(***************************************************************************)
EXTENDS Integers

CONSTANTS
    NoPage,        \* an EEPROM slot gac_valid refuses
    Tombstone,     \* a record of length zero
    MaxGeneration  \* UINT32_MAX

\* How a write of the other slot ends: verified; refused before it is erased; torn
\* by a failed call; or complete in EEPROM while the last read-back failed.
WriteEnds == {"ok", "unread", "torn", "unproved"}

Newest(slots) ==
    LET valid == {i \in 0..1 : slots[i] # NoPage}
    IN  IF valid = {} THEN -1
        ELSE CHOOSE i \in valid : \A j \in valid \ {i} :
                slots[j].gen < slots[i].gen \/ (slots[j].gen = slots[i].gen /\ i < j)

\* gac_read_latest after a reboot: choose the slot to trust.
Loaded(slots) ==
    [slots |-> slots, cur |-> Newest(slots),
     gen |-> IF Newest(slots) = -1 THEN 0 ELSE slots[Newest(slots)].gen]

\* gac_read_latest: the record the RAM copy points at.
Latest(s) == IF s.cur = -1 THEN NoPage ELSE s.slots[s.cur]

\* board_cache_load: the data of the bonded peer, Tombstone when there is none.
board_cache_load(s, bound) ==
    IF bound # 0 /\ Latest(s) # NoPage /\ Latest(s).peer = bound
    THEN Latest(s).data ELSE Tombstone

\* board_cache_save: the same content again, or nothing to delete, writes nothing.
SaveNeeded(s, peer, data) ==
    IF Latest(s) = NoPage THEN data # Tombstone
    ELSE Latest(s).peer # peer \/ Latest(s).data # data

SaveAllowed(s, peer, bound) == peer # 0 /\ bound = peer /\ s.gen < MaxGeneration

Other(s) == IF s.cur = -1 THEN 0 ELSE 1 - s.cur

board_cache_save(s, peer, data, bound, end) ==
    IF ~ SaveAllowed(s, peer, bound) \/ ~ SaveNeeded(s, peer, data) \/ end = "unread" THEN s
    ELSE [slots |-> [s.slots EXCEPT ![Other(s)] =
                        IF end = "torn" THEN NoPage
                        ELSE [gen |-> s.gen + 1, peer |-> peer, data |-> data]],
          cur |-> IF end = "ok" THEN Other(s) ELSE s.cur,
          gen |-> IF end = "ok" THEN s.gen + 1 ELSE s.gen]
=============================================================================
