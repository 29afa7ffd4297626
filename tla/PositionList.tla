---------------------------- MODULE PositionList ----------------------------
(***************************************************************************)
(* The position registry inside a margin account                           *)
(* (programs/margin/src/state/account/positions.rs, AccountPositionList):  *)
(* a fixed array of position slots, a fixed array of keys whose first      *)
(* `length' entries are sorted by mint so that they can be binary          *)
(* searched, and the length.  The operations of MarginAccount that write   *)
(* to it are the actions.                                                  *)
(*                                                                         *)
(* A Pubkey is a natural number: only equality and order are used, and     *)
(* Pubkey::default() (all zero bytes) is the least one.  An instruction    *)
(* that returns an error is rolled back by the runtime, so an error path   *)
(* is a step that is not enabled.                                          *)
(***************************************************************************)
EXTENDS Integers

CONSTANTS
    Mint,             \* the token mints a position can be registered for
    Address,          \* the addresses of the token accounts
    Capacity,         \* the number of slots of the two arrays, 32
    MaxUserPositions, \* MAX_USER_POSITIONS, 24
    MaxBalance        \* bound: the largest token balance

ASSUME PositionListAssumption ==
    /\ Mint \subseteq Nat \ {0}
    /\ Address \subseteq Nat \ {0}
    /\ Capacity \in Nat \ {0}
    /\ MaxUserPositions \in Nat
    /\ MaxBalance \in Nat

VARIABLES
    length,       \* AccountPositionList::length
    map,          \* AccountPositionList::map, sorted by mint up to length
    positions,    \* AccountPositionList::positions
    liquidating   \* MarginAccount::is_liquidating()

vars == <<length, map, positions, liquidating>>

-----------------------------------------------------------------------------

Default == 0                          \* Pubkey::default()

Slot == 0 .. Capacity - 1

AccountPositionKey == [mint : Mint \cup {Default}, index : Slot]

AccountPosition == [token    : Mint \cup {Default},
                    address  : Address \cup {Default},
                    balance  : 0 .. MaxBalance,
                    required : BOOLEAN]

ZeroedKey == [mint |-> Default, index |-> 0]

ZeroedPosition == [token |-> Default, address |-> Default,
                   balance |-> 0, required |-> FALSE]

Registered(m) == \E i \in 0 .. length - 1 : map[i].mint = m

\* The search of add() for an existing key, over the whole array.
HasKey(m) == \E i \in Slot : map[i].mint = m

\* The binary search over map[..length]; its contract needs that prefix to
\* be sorted, which is what MapSorted below is about.
GetMapIndex(m) == CHOOSE i \in 0 .. length - 1 : map[i].mint = m

\* The slot of the position for a registered mint.
GetSlot(m) == map[GetMapIndex(m)].index

\* The slot that holds the position of a key obtained earlier: the key's own
\* index if that slot still belongs to the mint, the searched one otherwise.
GetSlotByKey(key) ==
    IF positions[key.index].token = key.mint THEN key.index
                                             ELSE GetSlot(key.mint)

IsFree(s) == positions[s].token = Default

FirstFree == CHOOSE s \in Slot : IsFree(s) /\ \A t \in Slot : t < s => ~IsFree(t)

\* Mutant: the sort after the append is forgotten.
SortPrefixUnsorted(keys, n) == keys

\* keys[..n].sort_by_key(|p| p.mint): a rearrangement of the first n keys in
\* ascending order of mint; the other keys stay.
SortPrefix(keys, n) ==
    LET p == CHOOSE p \in [0 .. n - 1 -> 0 .. n - 1] :
                /\ \A i, j \in 0 .. n - 1 : p[i] = p[j] => i = j
                /\ \A i, j \in 0 .. n - 1 :
                        i < j => keys[p[i]].mint <= keys[p[j]].mint
    IN  [i \in Slot |-> IF i < n THEN keys[p[i]] ELSE keys[i]]

\* Mutant: the last entry in use is not cleared after the shift.
RemoveEntryKeepingLast(keys, k, n) ==
    [i \in Slot |-> IF k <= i /\ i < n - 1 THEN keys[i + 1] ELSE keys[i]]

\* Mutant: the shift moves the mints and leaves the indexes behind.
RemoveEntryMintsOnly(keys, k, n) ==
    [i \in Slot |-> CASE i < k               -> keys[i]
                      [] k <= i /\ i < n - 1 -> [keys[i] EXCEPT !.mint = keys[i + 1].mint]
                      [] i = n - 1           -> ZeroedKey
                      [] OTHER               -> keys[i]]

\* The map after the entry at index k is removed: copy_within moves the
\* later entries up by one and the last entry in use is cleared.
RemoveEntry(keys, k, n) ==
    [i \in Slot |-> CASE i < k               -> keys[i]
                      [] k <= i /\ i < n - 1 -> keys[i + 1]
                      [] i = n - 1           -> ZeroedKey
                      [] OTHER               -> keys[i]]

-----------------------------------------------------------------------------

Init ==
    /\ length = 0
    /\ map = [i \in Slot |-> ZeroedKey]
    /\ positions = [s \in Slot |-> ZeroedPosition]
    /\ liquidating = FALSE

\* MarginAccount::register_position for a mint that has no position yet.
\* For a mint that has one, add() returns the existing key and nothing
\* changes, whatever the address in the request.
RegisterPosition(m, a) ==
    /\ liquidating \/ length < MaxUserPositions
    /\ ~HasKey(m)
    /\ \E s \in Slot : IsFree(s)
    /\ LET index == FirstFree
       IN  /\ map' = SortPrefix([map EXCEPT ![length] = [mint |-> m, index |-> index]],
                                length + 1)
           /\ positions' = [positions EXCEPT
                               ![index] = [token |-> m, address |-> a,
                                           balance |-> 0, required |-> FALSE]]
    /\ length' = length + 1
    /\ UNCHANGED liquidating

\* Mutant: remove() does not decrement the length.
UnregisterPositionKeepingLength(m, a) ==
    /\ Registered(m)
    /\ positions[GetSlot(m)] = [token |-> m, address |-> a, balance |-> 0, required |-> FALSE]
    /\ positions' = [positions EXCEPT ![GetSlot(m)] = ZeroedPosition]
    /\ map' = RemoveEntry(map, GetMapIndex(m), length)
    /\ UNCHANGED <<length, liquidating>>

\* Mutant: the balance of the removed position is not checked.
UnregisterPositionUnchecked(m, a) ==
    /\ Registered(m)
    /\ LET k == GetMapIndex(m)
           removed == positions[map[k].index]
       IN  /\ removed.address = a
           /\ ~removed.required
           /\ positions' = [positions EXCEPT ![map[k].index] = ZeroedPosition]
           /\ map' = RemoveEntry(map, k, length)
    /\ length' = length - 1
    /\ UNCHANGED liquidating

\* MarginAccount::unregister_position: remove() frees the slot, then a
\* position with a balance or with the REQUIRED flag fails the instruction.
UnregisterPosition(m, a) ==
    /\ Registered(m)
    /\ LET k == GetMapIndex(m)
           removed == positions[map[k].index]
       IN  /\ removed.address = a
           /\ removed.balance = 0
           /\ ~removed.required
           /\ positions' = [positions EXCEPT ![map[k].index] = ZeroedPosition]
           /\ map' = RemoveEntry(map, k, length)
    /\ length' = length - 1
    /\ UNCHANGED liquidating

\* MarginAccount::set_position_balance
SetPositionBalance(m, a, b) ==
    /\ Registered(m)
    /\ positions[GetSlot(m)].address = a
    /\ positions' = [positions EXCEPT ![GetSlot(m)].balance = b]
    /\ UNCHANGED <<length, map, liquidating>>

\* PositionChange::Flags(REQUIRED, _) applied by an adapter through the key.
SetRequired(m, flag) ==
    /\ Registered(m)
    /\ positions' = [positions EXCEPT
                        ![GetSlotByKey(map[GetMapIndex(m)])].required = flag]
    /\ UNCHANGED <<length, map, liquidating>>

\* MarginAccount::start_liquidation and end_liquidation
StartLiquidation ==
    /\ ~liquidating
    /\ liquidating' = TRUE
    /\ UNCHANGED <<length, map, positions>>

EndLiquidation ==
    /\ liquidating
    /\ liquidating' = FALSE
    /\ UNCHANGED <<length, map, positions>>

Next ==
    \/ \E m \in Mint, a \in Address : RegisterPosition(m, a)
    \/ \E m \in Mint, a \in Address : UnregisterPosition(m, a)
    \/ \E m \in Mint, a \in Address, b \in 0 .. MaxBalance : SetPositionBalance(m, a, b)
    \/ \E m \in Mint, flag \in BOOLEAN : SetRequired(m, flag)
    \/ StartLiquidation
    \/ EndLiquidation

Spec == Init /\ [][Next]_vars

-----------------------------------------------------------------------------

TypeOK ==
    /\ length \in 0 .. Capacity
    /\ map \in [Slot -> AccountPositionKey]
    /\ positions \in [Slot -> AccountPosition]
    /\ liquidating \in BOOLEAN

\* The precondition of every lookup: binary_search_by_key in get_map_index
\* finds a mint only if map[..length] is strictly ascending, through any
\* sequence of registrations and removals.
MapSorted == \A i, j \in 0 .. length - 1 : i < j => map[i].mint < map[j].mint

\* The two arrays stay in step: the keys in use are exactly the mints of the
\* occupied slots, each pointing at its own slot, and the unused keys are
\* zeroed (add() scans the whole map for an existing mint, so a stale key
\* would be returned as a live position).
KeysMatchSlots ==
    /\ \A i \in 0 .. length - 1 :
          map[i].mint # Default /\ positions[map[i].index].token = map[i].mint
    /\ \A s \in Slot : ~IsFree(s) => \E i \in 0 .. length - 1 : map[i].index = s
    /\ \A i \in Slot : i >= length => map[i] = ZeroedKey

\* add() looks for a free slot in `positions' and then writes map[length]: a
\* free slot must mean that the key array has room, or the write panics.
FreeSlotMeansRoom == (\E s \in Slot : IsFree(s)) => length < Capacity

\* A key obtained before other positions are added or removed stays valid:
\* no operation moves the position of a mint to another slot, or changes a
\* position while it removes another (adapter results are applied through
\* keys held across several changes).
StableSlots ==
    [][\A i \in 0 .. length - 1, j \in 0 .. length' - 1 :
          map[i].mint = map'[j].mint => map[i].index = map'[j].index]_vars

\* The array implementation is a map from mint to position.
Abstract == INSTANCE PositionMap WITH
    registry <- [m \in {x \in Mint : Registered(x)} |->
                    [address  |-> positions[GetSlot(m)].address,
                     balance  |-> positions[GetSlot(m)].balance,
                     required |-> positions[GetSlot(m)].required]]

\* Every behaviour of the arrays is one of the map: lookups by binary search,
\* first-free-slot allocation and the shifting of keys lose, duplicate or
\* confuse no position, and the limits are the ones of the map.
RefinesPositionMap == Abstract!Spec
=============================================================================
