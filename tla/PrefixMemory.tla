---------------------------- MODULE PrefixMemory ----------------------------
(***************************************************************************)
(* PrefixCacheMemory as operators on the value of the tier: its entries,   *)
(* their order of use (the oldest first) and _used_bytes.                  *)
(***************************************************************************)
EXTENDS PrefixKeys

CONSTANT MemoryBudget   \* memory_budget_bytes

ASSUME MemoryAssumption == MemoryBudget \in Nat

VARIABLE memory   \* [entries, order, used]

EmptyMemory == [entries |-> << >>, order |-> << >>, used |-> 0]

\* lookup_sync: the keys that match; the longest of them is the hit.
Matches(m, hashes, type) ==
  {k \in Keys(hashes) \cap DOMAIN m.entries : m.entries[k].type = type}

\* Slip: a hit does not count as a use.
TouchedNot(m, k) == m

\* A hit becomes the most recently used entry.
Touched(m, k) == [m EXCEPT !.order = Append(Removed(@, {k}), k)]

SizeOf(m, S) == SumFunctionOnSet([k \in DOMAIN m.entries |-> m.entries[k].size], S)

\* Slip: one entry goes, whether that makes enough room or not.
WithRoomOnce(m, needed) ==
  IF m.order = << >> \/ m.used + needed <= MemoryBudget THEN m
  ELSE LET rest == Tail(m.order)
       IN [entries |-> Restrict(m.entries, ToSet(rest)), order |-> rest,
           used |-> m.used - m.entries[Head(m.order)].size]

\* _evict_until_room: the oldest entries go until needed bytes fit, or all.
WithRoom(m, needed) ==
  LET Left(n) == m.used - SizeOf(m, ToSet(SubSeq(m.order, 1, n)))
      enough == {n \in 0..Len(m.order) : Left(n) + needed <= MemoryBudget \/ n = Len(m.order)}
      n == CHOOSE x \in enough : \A y \in enough : x <= y
      rest == SubSeq(m.order, n + 1, Len(m.order))
  IN [entries |-> Restrict(m.entries, ToSet(rest)), order |-> rest, used |-> Left(n)]

\* One turn of the loop of store_sync: the first n tokens of the state.
StoredPrefix(m, hashes, state, type, n) ==
  LET key == SubSeq(hashes, 1, ChunksOf(n))
      size == n * BytesPer[type]
      roomy == WithRoom(m, size)
  IN IF key = << >> \/ key \in DOMAIN m.entries THEN m
     ELSE IF size > MemoryBudget THEN roomy
     ELSE [entries |-> With(roomy.entries, key,
                            [state |-> SubSeq(state, 1, n), n |-> n, size |-> size, type |-> type]),
           order |-> Append(roomy.order, key),
           used |-> roomy.used + size]

\* Slip: the chunk boundaries are visited upwards, the whole prompt last.
PrefixLengthsUpwards(n) == [i \in 1..(n - 1) \div BlockSize |-> i * BlockSize] \o <<n>>

\* The lengths store_sync visits: all of the prompt first, then the chunk
\* boundaries downwards.
PrefixLengths(n) ==
  <<n>> \o Reverse([i \in 1..(n - 1) \div BlockSize |-> i * BlockSize])

Stored(m, hashes, state, type, n) ==
  LET lengths == PrefixLengths(n)
      after[i \in 0..Len(lengths)] ==
        IF i = 0 THEN m ELSE StoredPrefix(after[i - 1], hashes, state, type, lengths[i])
  IN IF hashes \in DOMAIN m.entries \/ n <= 0 THEN m ELSE after[Len(lengths)]

------------------------------------------------------------------------------
\* _used_bytes is the size of the entries and never above the budget.
MemoryAccounted ==
  /\ memory.used = SizeOf(memory, DOMAIN memory.entries)
  /\ memory.used <= MemoryBudget
  /\ ToSet(memory.order) = DOMAIN memory.entries
  /\ IsInjective(memory.order)
==============================================================================
