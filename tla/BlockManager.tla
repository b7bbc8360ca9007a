---------------------------- MODULE BlockManager ----------------------------
(***************************************************************************)
(* The pool of blocks behind paged attention: a free list and a reference  *)
(* count for each block.  The operators say what a call does to the pool;  *)
(* the specification lets any caller make any call, legal or not, and      *)
(* covers the calls that raise an exception half way.                      *)
(*                                                                         *)
(* The order of the free list is left open: pool.free[b] is the number of  *)
(* its entries that name block b.  A list a caller passes names no block   *)
(* twice, as all lists do that the code builds.                            *)
(***************************************************************************)
EXTENDS Integers, FiniteSets, Functions

CONSTANT Blocks   \* the indices of the pool

ASSUME PoolAssumption == IsFiniteSet(Blocks) /\ Blocks # {}

VARIABLE pool     \* the free list and the reference counts

Pool == [free : [Blocks -> Nat], refcount : [Blocks -> Nat]]

PoolInit == pool = [free |-> [b \in Blocks |-> 1], refcount |-> [b \in Blocks |-> 0]]

FreeBlocks(p) == {b \in Blocks : p.free[b] > 0}
FreeCount(p) == SumFunction(p.free)

\* What allocate(n) may pop; nothing when fewer than n entries are free.
Allocations(p, n) == {S \in SUBSET FreeBlocks(p) : Cardinality(S) = n /\ n <= FreeCount(p)}

\* The pool after allocate popped the blocks S.
Allocated(p, S) ==
  [free |-> [b \in Blocks |-> IF b \in S THEN p.free[b] - 1 ELSE p.free[b]],
   refcount |-> [b \in Blocks |-> IF b \in S THEN 1 ELSE p.refcount[b]]]

\* Slip: a block goes back to the free list while one reference is left.
FreedEarly(p, S) ==
  [free |-> [b \in Blocks |-> IF b \in S /\ p.refcount[b] <= 2 THEN p.free[b] + 1 ELSE p.free[b]],
   refcount |-> [b \in Blocks |-> IF b \in S THEN p.refcount[b] - 1 ELSE p.refcount[b]]]

\* The pool after the blocks S lost one reference each.
Freed(p, S) ==
  [free |-> [b \in Blocks |-> IF b \in S /\ p.refcount[b] = 1 THEN p.free[b] + 1 ELSE p.free[b]],
   refcount |-> [b \in Blocks |-> IF b \in S THEN p.refcount[b] - 1 ELSE p.refcount[b]]]

\* The pool after the blocks S got one reference more.
Referenced(p, S) ==
  [p EXCEPT !.refcount = [b \in Blocks |-> IF b \in S THEN p.refcount[b] + 1 ELSE p.refcount[b]]]

Held(p, S) == \A b \in S : p.refcount[b] > 0

\* What free and incref reach of a list whose blocks are S: all of it, or, when a
\* block has no reference left, the blocks ahead of the first such one.
Reached(p, S) == IF Held(p, S) THEN {S} ELSE SUBSET {b \in S : p.refcount[b] > 0}

\* Slip: a block counts as unshared while a second reference is left.
UnsharedNearly(p, b) == p.refcount[b] <= 2

\* Slip: the original keeps the reference of the user that got a copy.
CopiedOnly(p, b, c) == Allocated(p, {c})

\* copy_on_write(b) either keeps an unshared block or takes c for it.
Unshared(p, b) == p.refcount[b] = 1
Copied(p, b, c) == [Allocated(p, {c}) EXCEPT !.refcount[b] = @ - 1]

------------------------------------------------------------------------------
Allocate == \E n \in 0..Cardinality(Blocks) : \E S \in Allocations(pool, n) :
  pool' = Allocated(pool, S)

Free == \E S \in SUBSET Blocks : \E R \in Reached(pool, S) :
  pool' = Freed(pool, R)

IncRef == \E S \in SUBSET Blocks : \E R \in Reached(pool, S) :
  pool' = Referenced(pool, R)

CopyOnWrite == \E b \in Blocks :
  /\ pool.refcount[b] > 1
  /\ \E S \in Allocations(pool, 1) : \E c \in S : pool' = Copied(pool, b, c)

PoolNext == Allocate \/ Free \/ IncRef \/ CopyOnWrite

PoolSpec == PoolInit /\ [][PoolNext]_pool

------------------------------------------------------------------------------
PoolTypeOK == pool \in Pool

\* "No leaks: free_blocks + sum(refcount > 0) == total_blocks", block by block: a
\* block is on the free list exactly once or referenced, never both and never
\* neither, also after a call that raised in the middle of its list.
FreeOrReferenced ==
  \A b \in Blocks : pool.free[b] = (IF pool.refcount[b] = 0 THEN 1 ELSE 0)
==============================================================================
