------------------------------- MODULE PagedKV -------------------------------
(***************************************************************************)
(* PagedKVCache over a BlockManager: sequences whose tokens lie in blocks, *)
(* found through a table of blocks and an offset.  Forks are the other     *)
(* users of the pool, as prefix sharing uses it: they take a reference to  *)
(* every block of a sequence, and copy a shared block before they write.   *)
(***************************************************************************)
EXTENDS BlockManager, SequencesExt

CONSTANTS SeqIds, Forks, Tokens,
          BlockSize,
          MaxAppend,    \* bounds the tokens of one append_kv
          MaxInitial,   \* bounds initial_blocks
          MaxForgotten, \* bounds how often a live sequence is allocated again
          Blank         \* the content of a cell nobody has written

ASSUME PagedAssumption ==
  /\ BlockSize \in Nat \ {0}
  /\ MaxAppend \in Nat \ {0} /\ MaxInitial \in Nat /\ MaxForgotten \in Nat
  /\ Blank \notin Tokens
  /\ SeqIds \cap Forks = {}

VARIABLES table,     \* _block_tables, and the blocks of each fork
          offset,    \* _offsets, and the length of each fork
          cells,     \* the key and value pools
          forgotten  \* ghost: references whose table was replaced

vars == <<pool, table, offset, cells, forgotten>>

Cell == 0..BlockSize - 1
Used == DOMAIN table
SetOf(bs) == {bs[i] : i \in DOMAIN bs}
Users(t, b) == {x \in DOMAIN t : b \in SetOf(t[x])}

Init ==
  /\ PoolInit
  /\ table = << >> /\ offset = << >>
  /\ cells = [b \in Blocks |-> [c \in Cell |-> Blank]]
  /\ forgotten = [b \in Blocks |-> 0]

\* Where the token at position p (from 0) lies.
BlockAt(bs, p) == bs[p \div BlockSize + 1]

\* get_kv: the tokens of the first blocks, up to the offset.
Gathered(x) == [i \in 1..offset[x] |-> cells[BlockAt(table[x], i - 1)][(i - 1) % BlockSize]]

\* The cells after append_kv wrote the tokens ts behind position n through bs.
Written(bs, n, ts) ==
  [b \in Blocks |-> [c \in Cell |->
     LET hits == {i \in DOMAIN ts : BlockAt(bs, n + i - 1) = b /\ (n + i - 1) % BlockSize = c}
     IN IF hits = {} THEN cells[b][c] ELSE ts[CHOOSE i \in hits : \A j \in hits : j <= i]]]

\* A table in which x has the value v, new or not.
With(f, x, v) == [y \in DOMAIN f \cup {x} |-> IF y = x THEN v ELSE f[y]]

\* The lists that name every block of S, once.
Lists(S) == {bs \in [1..Cardinality(S) -> S] : IsInjective(bs) /\ SetOf(bs) = S}

AllocateSequence(s) == \E n \in 0..MaxInitial : \E S \in Allocations(pool, n) : \E bs \in Lists(S) :
  /\ pool' = Allocated(pool, S)
  /\ table' = With(table, s, bs)
  /\ offset' = With(offset, s, 0)
  /\ forgotten' = [b \in Blocks |->
       forgotten[b] + (IF s \in Used /\ b \in SetOf(table[s]) THEN 1 ELSE 0)]
  /\ \A b \in Blocks : forgotten'[b] <= MaxForgotten
  /\ UNCHANGED cells

\* Slip: the table of a freed sequence goes, its offset stays.
DroppedTable(x) ==
  /\ \E R \in Reached(pool, SetOf(table[x])) : pool' = Freed(pool, R)
  /\ table' = Restrict(table, Used \ {x})
  /\ UNCHANGED offset

\* free raises when a block has no reference left; the offset is not reached then.
Dropped(x) ==
  /\ \E R \in Reached(pool, SetOf(table[x])) : pool' = Freed(pool, R)
  /\ table' = Restrict(table, Used \ {x})
  /\ offset' = IF Held(pool, SetOf(table[x])) THEN Restrict(offset, Used \ {x}) ELSE offset

FreeSequence(s) == s \in Used /\ Dropped(s) /\ UNCHANGED <<cells, forgotten>>

Missing(s, n) == LET blocks == (offset[s] + n + BlockSize - 1) \div BlockSize
                 IN IF blocks > Len(table[s]) THEN blocks - Len(table[s]) ELSE 0

AppendKV(s, ts) ==
  /\ s \in Used
  /\ \E S \in Allocations(pool, Missing(s, Len(ts))) : \E more \in Lists(S) :
       /\ pool' = Allocated(pool, S)
       /\ table' = [table EXCEPT ![s] = @ \o more]
       /\ cells' = Written(table[s] \o more, offset[s], ts)
  /\ offset' = [offset EXCEPT ![s] = @ + Len(ts)]
  /\ UNCHANGED forgotten

\* The pool runs out in the middle: blocks and cells stay as they are by then,
\* the offset is not reached.
AppendOutOfBlocks(s, ts) ==
  /\ s \in Used
  /\ FreeCount(pool) < Missing(s, Len(ts))
  /\ \E S \in Allocations(pool, FreeCount(pool)) : \E more \in Lists(S) :
       LET bs == table[s] \o more
           fit == Len(bs) * BlockSize - offset[s]
       IN /\ pool' = Allocated(pool, S)
          /\ table' = [table EXCEPT ![s] = bs]
          /\ cells' = Written(bs, offset[s], SubSeq(ts, 1, fit))
  /\ UNCHANGED <<offset, forgotten>>

------------------------------------------------------------------------------
(* The other users of the pool. *)

Share(f, s) ==
  /\ f \notin Used /\ s \in Used
  /\ \E R \in Reached(pool, SetOf(table[s])) : pool' = Referenced(pool, R)
  /\ table' = With(table, f, table[s])
  /\ offset' = With(offset, f, offset[s])
  /\ UNCHANGED <<cells, forgotten>>

Release(f) == f \in Used /\ Dropped(f) /\ UNCHANGED <<cells, forgotten>>

\* A fork rewrites its token at position p: copy_on_write, the copy of the
\* content that is left to the caller, the write.
Rewrite(f, p, t) ==
  /\ f \in Used /\ p < offset[f]
  /\ LET b == BlockAt(table[f], p) IN
     \/ /\ Unshared(pool, b)
        /\ cells' = [cells EXCEPT ![b][p % BlockSize] = t]
        /\ UNCHANGED <<pool, table>>
     \/ /\ pool.refcount[b] > 1
        /\ \E S \in Allocations(pool, 1) : \E c \in S :
             /\ pool' = Copied(pool, b, c)
             /\ table' = [table EXCEPT ![f][p \div BlockSize + 1] = c]
             /\ cells' = [cells EXCEPT ![c] = [cells[b] EXCEPT ![p % BlockSize] = t]]
  /\ UNCHANGED <<offset, forgotten>>

Appends == {ts \in BoundedSeq(Tokens, MaxAppend) : ts # << >>}

Next ==
  \/ \E s \in SeqIds : \/ AllocateSequence(s)
                       \/ FreeSequence(s)
                       \/ \E ts \in Appends : AppendKV(s, ts) \/ AppendOutOfBlocks(s, ts)
  \/ \E f \in Forks : \/ \E s \in SeqIds : Share(f, s)
                      \/ Release(f)
                      \/ \E p \in 0..Cardinality(Blocks) * BlockSize, t \in Tokens : Rewrite(f, p, t)

Spec == Init /\ [][Next]_vars

------------------------------------------------------------------------------
TypeOK ==
  /\ PoolTypeOK
  /\ Used \subseteq SeqIds \cup Forks /\ DOMAIN offset = Used
  /\ \A x \in Used : table[x] \in Seq(Blocks) /\ offset[x] \in 0..Len(table[x]) * BlockSize
  /\ cells \in [Blocks -> [Cell -> Tokens \cup {Blank}]]
  /\ forgotten \in [Blocks -> 0..MaxForgotten]

\* The reference count of a block is the number of tables that name it (plus the
\* tables that allocate_sequence replaced): no call frees a block that another
\* user still reads, and none leaves one behind.  Hence free never raises.
ReferencesAreExact ==
  \A b \in Blocks :
    pool.refcount[b] = Cardinality(Users(table, b)) + forgotten[b]

\* Each sequence and each fork is a value of its own, an append that runs out of
\* blocks leaves it as it was, and copy-on-write returns an independent block.
Store == INSTANCE SequenceStore WITH content <- [x \in Used |-> Gathered(x)]
ImplementsSequences == Store!Spec
==============================================================================
