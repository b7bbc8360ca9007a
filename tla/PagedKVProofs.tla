--------------------------- MODULE PagedKVProofs ---------------------------
(***************************************************************************)
(* For every pool, block size and set of users: a block is free or         *)
(* referenced, its reference count is the number of tables that name it,   *)
(* the cache implements SequenceStore, and its types are respected.        *)
(***************************************************************************)
EXTENDS PagedKV, FiniteSetTheorems, SequenceTheorems, TLAPS

(* The invariant, as predicates on values: the lemmas on the operators use    *)
(* them for the pool and the tables before and after a call.                  *)

Sound(p) ==
  /\ p \in Pool
  /\ \A b \in Blocks : p.free[b] = (IF p.refcount[b] = 0 THEN 1 ELSE 0)

Exact(p, t, g) == \A b \in Blocks : p.refcount[b] = Cardinality(Users(t, b)) + g[b]

TableOf(bs, n) == bs \in Seq(Blocks) /\ IsInjective(bs) /\ n \in 0..Len(bs) * BlockSize

Tables(t, o) ==
  /\ IsFiniteSet(DOMAIN t)
  /\ DOMAIN o = DOMAIN t
  /\ \A x \in DOMAIN t : TableOf(t[x], o[x])

IInv ==
  /\ Sound(pool)
  /\ Exact(pool, table, forgotten)
  /\ Tables(table, offset)
  /\ forgotten \in [Blocks -> Nat]

------------------------------------------------------------------------------
(* Arithmetic of positions and blocks. *)

\* Division with rest.
LEMMA DivMod ==
  ASSUME NEW a \in Nat, NEW B \in Nat \ {0}
  PROVE /\ a \div B \in Nat
        /\ a % B \in 0..B - 1
        /\ a = B * (a \div B) + (a % B)
  OBVIOUS

\* A factor is smaller when the product is.
LEMMA SmallerFactor ==
  ASSUME NEW q \in Nat, NEW L \in Nat, NEW B \in Nat \ {0}, B * q < L * B
  PROVE  q < L
<1>1. SUFFICES ASSUME q >= L PROVE FALSE
  OBVIOUS
<1>2. PICK d \in Nat : q = L + d
  BY <1>1
<1>3. B * q = B * L + B * d
  BY <1>2
<1>4. B * d >= 0
  OBVIOUS
<1> QED BY <1>3, <1>4

\* A position below the room of L blocks lies in one of them.
LEMMA BlockOfPosition ==
  ASSUME NEW p \in Nat, NEW L \in Nat, NEW B \in Nat \ {0}, p < L * B
  PROVE  p \div B + 1 \in 1..L
<1> DEFINE q == p \div B
           r == p % B
<1>1. q \in Nat /\ r \in 0..B - 1 /\ p = B * q + r
  BY DivMod
<1> HIDE DEF q, r
<1>2. B * q < L * B
  BY <1>1
<1>3. q < L
  BY <1>1, <1>2, SmallerFactor
<1> QED BY <1>1, <1>3 DEF q

\* The blocks an append asks for have room for all its tokens.
LEMMA RoundedUp ==
  ASSUME NEW k \in Nat, NEW B \in Nat \ {0}
  PROVE  /\ (k + B - 1) \div B \in Nat
         /\ k <= ((k + B - 1) \div B) * B
<1> DEFINE q == (k + B - 1) \div B
<1>1. k + B - 1 \in Nat
  OBVIOUS
<1>2. q \in Nat /\ (k + B - 1) % B \in 0..B - 1 /\ k + B - 1 = B * q + ((k + B - 1) % B)
  BY <1>1, DivMod
<1> HIDE DEF q
<1>3. k + B - 1 <= B * q + B - 1
  BY <1>2
<1> QED BY <1>2, <1>3 DEF q

------------------------------------------------------------------------------
(* The pool. *)

\* allocate keeps the pool sound.
LEMMA AllocatedSound ==
  ASSUME NEW p, Sound(p), NEW S \in SUBSET FreeBlocks(p)
  PROVE  Sound(Allocated(p, S))
BY DEF Sound, Pool, FreeBlocks, Allocated

\* free keeps it sound too, when every block it reaches has a reference: the count it
\* lowers is not zero, and a block enters the free list when its last reference goes.
LEMMA FreedSound ==
  ASSUME NEW p, Sound(p), NEW S, \A b \in S \cap Blocks : p.refcount[b] > 0
  PROVE  Sound(Freed(p, S))
BY DEF Sound, Pool, Freed

\* And incref, which only raises the count of a block that is not free.
LEMMA ReferencedSound ==
  ASSUME NEW p, Sound(p), NEW S, \A b \in S \cap Blocks : p.refcount[b] > 0
  PROVE  Sound(Referenced(p, S))
BY DEF Sound, Pool, Referenced

\* And copy_on_write of a shared block: the original keeps a reference, the copy comes
\* from the free list.
LEMMA CopiedSound ==
  ASSUME NEW p, Sound(p), NEW b \in Blocks, p.refcount[b] > 1, NEW c \in FreeBlocks(p)
  PROVE  Sound(Copied(p, b, c))
<1> DEFINE q == Allocated(p, {c})
<1>1. Sound(q)
  BY AllocatedSound
<1>2. c # b
  BY DEF Sound, Pool, FreeBlocks
<1>3. q.refcount[b] > 1
  BY <1>2 DEF Allocated
<1> HIDE DEF q
<1>4. Copied(p, b, c) = [q EXCEPT !.refcount[b] = @ - 1]
  BY DEF Copied, q
<1> QED BY <1>1, <1>3, <1>4 DEF Sound, Pool

\* What free and incref reach has references.
LEMMA ReachedIsHeld ==
  ASSUME NEW p, NEW S, NEW R \in Reached(p, S)
  PROVE  \A b \in R : p.refcount[b] > 0
BY DEF Reached, Held

\* The pool alone: whatever allocate, free, incref and copy_on_write are called with, in
\* whatever order, also when they raise in the middle of their list, each block is on the
\* free list exactly once or referenced.
THEOREM PoolIsSound == PoolSpec => [](PoolTypeOK /\ FreeOrReferenced)
<1>1. PoolInit => Sound(pool)
  BY DEF PoolInit, Sound, Pool
<1>2. Sound(pool) /\ [PoolNext]_pool => Sound(pool)'
  <2> SUFFICES ASSUME Sound(pool), [PoolNext]_pool PROVE Sound(pool')
    BY DEF Sound
  <2>1. CASE Allocate
    BY <2>1, AllocatedSound DEF Allocate, Allocations
  <2>2. CASE Free
    BY <2>2, FreedSound, ReachedIsHeld DEF Free
  <2>3. CASE IncRef
    BY <2>3, ReferencedSound, ReachedIsHeld DEF IncRef
  <2>4. CASE CopyOnWrite
    BY <2>4, CopiedSound DEF CopyOnWrite, Allocations
  <2>5. CASE UNCHANGED pool
    BY <2>5
  <2> QED BY <2>1, <2>2, <2>3, <2>4, <2>5 DEF PoolNext
<1>3. Sound(pool) => PoolTypeOK /\ FreeOrReferenced
  BY DEF Sound, PoolTypeOK, FreeOrReferenced
<1> QED BY <1>1, <1>2, <1>3, PTL DEF PoolSpec

------------------------------------------------------------------------------
(* Who uses a block, before and after a call. *)

\* The list of a set of blocks names these blocks, each once.
LEMMA ListOfBlocks ==
  ASSUME NEW S \in SUBSET Blocks, NEW bs \in Lists(S)
  PROVE  bs \in Seq(Blocks) /\ IsInjective(bs) /\ SetOf(bs) = S /\ Len(bs) = Cardinality(S)
<1>1. Cardinality(S) \in Nat
  BY PoolAssumption, FS_Subset, FS_CardinalityType
<1>2. bs \in [1..Cardinality(S) -> Blocks] /\ IsInjective(bs) /\ SetOf(bs) = S
  BY DEF Lists
<1> QED BY <1>1, <1>2

\* A fresh block has no user and no forgotten reference.
LEMMA FreshBlock ==
  ASSUME NEW p, NEW t, NEW g \in [Blocks -> Nat], NEW b \in FreeBlocks(p),
         Sound(p), Exact(p, t, g), IsFiniteSet(DOMAIN t)
  PROVE  Users(t, b) = {} /\ g[b] = 0 /\ p.refcount[b] = 0
<1>1. b \in Blocks /\ p.refcount[b] = 0
  BY DEF Sound, Pool, FreeBlocks
<1>2. IsFiniteSet(Users(t, b))
  BY FS_Subset DEF Users
<1>3. Cardinality(Users(t, b)) \in Nat
  BY <1>2, FS_CardinalityType
<1>4. Cardinality(Users(t, b)) = 0 /\ g[b] = 0
  BY <1>1, <1>3 DEF Exact
<1> QED BY <1>1, <1>2, <1>4, FS_EmptySet

\* The blocks of a table have references: free and incref reach all of them.
LEMMA TableIsHeld ==
  ASSUME NEW p, NEW t, NEW o, NEW g \in [Blocks -> Nat], NEW x \in DOMAIN t,
         Sound(p), Exact(p, t, g), Tables(t, o)
  PROVE  /\ \A b \in SetOf(t[x]) : b \in Blocks /\ p.refcount[b] > 0
         /\ Reached(p, SetOf(t[x])) = {SetOf(t[x])}
<1>1. \A b \in SetOf(t[x]) : b \in Blocks /\ p.refcount[b] > 0
  <2> SUFFICES ASSUME NEW b \in SetOf(t[x])
               PROVE  b \in Blocks /\ p.refcount[b] > 0
    OBVIOUS
  <2>1. b \in Blocks
    BY DEF Tables, TableOf, SetOf
  <2>2. x \in Users(t, b)
    BY DEF Users
  <2>3. IsFiniteSet(Users(t, b))
    BY FS_Subset DEF Users, Tables
  <2>4. Cardinality(Users(t, b)) \in Nat /\ Cardinality(Users(t, b)) # 0
    BY <2>2, <2>3, FS_CardinalityType, FS_EmptySet
  <2> QED BY <2>1, <2>4 DEF Exact
<1> QED BY <1>1 DEF Reached, Held

\* Replacing, adding or removing one user changes the number of users by one.
LEMMA CountOfUsers ==
  ASSUME NEW U, NEW s, IsFiniteSet(U)
  PROVE  /\ Cardinality(U) \in Nat
         /\ Cardinality(U \ {s}) = IF s \in U THEN Cardinality(U) - 1 ELSE Cardinality(U)
         /\ Cardinality(U \cup {s}) = IF s \in U THEN Cardinality(U) ELSE Cardinality(U) + 1
BY FS_CardinalityType, FS_AddElement, FS_RemoveElement

\* A table t2 that is t but for the list of s.
LEMMA UsersChanged ==
  ASSUME NEW t, NEW t2, NEW s, NEW b,
         DOMAIN t2 = DOMAIN t \cup {s},
         \A x \in DOMAIN t \ {s} : t2[x] = t[x]
  PROVE  Users(t2, b) = IF b \in SetOf(t2[s]) THEN Users(t, b) \cup {s} ELSE Users(t, b) \ {s}
BY DEF Users

\* A table t2 that is t without s.
LEMMA UsersDropped ==
  ASSUME NEW t, NEW s, NEW b
  PROVE  Users(Restrict(t, DOMAIN t \ {s}), b) = Users(t, b) \ {s}
BY DEF Users, Restrict

------------------------------------------------------------------------------
(* The reference counts stay exact. *)

\* The list of s in the tables t becomes another one in t2: it keeps the blocks
\* "kept" of its old ones, gets those of S, and the rest of the old ones is forgotten.
OldBlocks(t, s) == IF s \in DOMAIN t THEN SetOf(t[s]) ELSE {}
GetsBlocks(p, t, g, s, S, kept, t2, g2) ==
  /\ S \in SUBSET FreeBlocks(p)
  /\ kept \in SUBSET OldBlocks(t, s)
  /\ DOMAIN t2 = DOMAIN t \cup {s}
  /\ \A x \in DOMAIN t \ {s} : t2[x] = t[x]
  /\ SetOf(t2[s]) = kept \cup S
  /\ \A b \in Blocks : g2[b] = g[b] + (IF b \in OldBlocks(t, s) \ kept THEN 1 ELSE 0)

\* After allocate.
LEMMA AllocatedExact ==
  ASSUME NEW p, NEW t, NEW g \in [Blocks -> Nat], Sound(p), Exact(p, t, g),
         IsFiniteSet(DOMAIN t),
         NEW s, NEW S, NEW kept, NEW t2, NEW g2, GetsBlocks(p, t, g, s, S, kept, t2, g2)
  PROVE  Exact(Allocated(p, S), t2, g2)
<1> DEFINE old == OldBlocks(t, s)
<1>0. /\ S \in SUBSET FreeBlocks(p) /\ kept \in SUBSET old
      /\ DOMAIN t2 = DOMAIN t \cup {s} /\ \A x \in DOMAIN t \ {s} : t2[x] = t[x]
      /\ SetOf(t2[s]) = kept \cup S
      /\ \A b \in Blocks : g2[b] = g[b] + (IF b \in old \ kept THEN 1 ELSE 0)
  BY DEF GetsBlocks
<1> SUFFICES ASSUME NEW b \in Blocks
             PROVE  Allocated(p, S).refcount[b] = Cardinality(Users(t2, b)) + g2[b]
  BY DEF Exact
<1>1. IsFiniteSet(Users(t, b))
  BY FS_Subset DEF Users
<1>2. Users(t2, b) = IF b \in kept \cup S THEN Users(t, b) \cup {s} ELSE Users(t, b) \ {s}
  <2>1. Users(t2, b) = IF b \in SetOf(t2[s]) THEN Users(t, b) \cup {s} ELSE Users(t, b) \ {s}
    BY <1>0, UsersChanged
  <2> QED BY <1>0, <2>1
<1>3. s \in Users(t, b) <=> b \in old
  BY DEF Users, OldBlocks
<1>4. p.refcount[b] = Cardinality(Users(t, b)) + g[b]
  BY DEF Exact
<1>5. Cardinality(Users(t, b)) \in Nat /\ g[b] \in Nat
  BY <1>1, CountOfUsers
<1>6. /\ Cardinality(Users(t, b) \cup {s})
           = IF b \in old THEN Cardinality(Users(t, b)) ELSE Cardinality(Users(t, b)) + 1
      /\ Cardinality(Users(t, b) \ {s})
           = IF b \in old THEN Cardinality(Users(t, b)) - 1 ELSE Cardinality(Users(t, b))
  BY <1>1, <1>3, CountOfUsers
<1>7. CASE b \in S
  <2>1. Users(t, b) = {} /\ g[b] = 0
    BY <1>0, <1>7, FreshBlock
  <2>2. Cardinality(Users(t2, b)) = 1
    <3>1. Users(t2, b) = {s}
      BY <1>2, <1>7, <2>1
    <3> QED BY <3>1, FS_Singleton
  <2>3. g2[b] = 0
    BY <1>0, <1>3, <2>1
  <2>4. Allocated(p, S).refcount[b] = 1
    BY <1>7 DEF Allocated
  <2> QED BY <2>2, <2>3, <2>4
<1>8. CASE b \notin S
  <2>1. Allocated(p, S).refcount[b] = p.refcount[b]
    BY <1>8 DEF Allocated
  <2>2. CASE b \in kept
    <3>1. Cardinality(Users(t2, b)) = Cardinality(Users(t, b))
      BY <1>0, <1>2, <1>6, <2>2
    <3> QED BY <1>0, <1>4, <1>5, <2>1, <2>2, <3>1
  <2>3. CASE b \in old \ kept
    <3>1. Cardinality(Users(t2, b)) = Cardinality(Users(t, b)) - 1
      BY <1>0, <1>2, <1>6, <1>8, <2>3
    <3> QED BY <1>0, <1>4, <1>5, <2>1, <2>3, <3>1
  <2>4. CASE b \notin old
    <3>1. Cardinality(Users(t2, b)) = Cardinality(Users(t, b))
      BY <1>0, <1>2, <1>6, <1>8, <2>4
    <3> QED BY <1>0, <1>4, <1>5, <2>1, <2>4, <3>1
  <2> QED BY <2>2, <2>3, <2>4
<1> QED BY <1>7, <1>8

\* After free, when x is gone.
LEMMA FreedExact ==
  ASSUME NEW p, NEW t, NEW o, NEW g \in [Blocks -> Nat], Sound(p), Exact(p, t, g),
         Tables(t, o), NEW x \in DOMAIN t
  PROVE  Exact(Freed(p, SetOf(t[x])), Restrict(t, DOMAIN t \ {x}), g)
<1> SUFFICES ASSUME NEW b \in Blocks
             PROVE  Freed(p, SetOf(t[x])).refcount[b]
                      = Cardinality(Users(Restrict(t, DOMAIN t \ {x}), b)) + g[b]
  BY DEF Exact
<1>1. IsFiniteSet(Users(t, b))
  BY FS_Subset DEF Users, Tables
<1>2. Users(Restrict(t, DOMAIN t \ {x}), b) = Users(t, b) \ {x}
  BY UsersDropped
<1>3. x \in Users(t, b) <=> b \in SetOf(t[x])
  BY DEF Users
<1>4. p.refcount[b] = Cardinality(Users(t, b)) + g[b]
  BY DEF Exact
<1>5. Freed(p, SetOf(t[x])).refcount[b]
        = IF b \in SetOf(t[x]) THEN p.refcount[b] - 1 ELSE p.refcount[b]
  BY DEF Freed
<1>6. Cardinality(Users(t, b)) \in Nat /\ g[b] \in Nat
  BY <1>1, CountOfUsers
<1>7. Cardinality(Users(t, b) \ {x})
        = IF b \in SetOf(t[x]) THEN Cardinality(Users(t, b)) - 1 ELSE Cardinality(Users(t, b))
  BY <1>1, <1>3, CountOfUsers
<1>8. CASE b \in SetOf(t[x])
  <2>1. Freed(p, SetOf(t[x])).refcount[b] = p.refcount[b] - 1
    BY <1>5, <1>8
  <2>2. Cardinality(Users(Restrict(t, DOMAIN t \ {x}), b)) = Cardinality(Users(t, b)) - 1
    BY <1>2, <1>7, <1>8
  <2> QED BY <1>4, <1>6, <2>1, <2>2
<1>9. CASE b \notin SetOf(t[x])
  <2>1. Freed(p, SetOf(t[x])).refcount[b] = p.refcount[b]
    BY <1>5, <1>9
  <2>2. Cardinality(Users(Restrict(t, DOMAIN t \ {x}), b)) = Cardinality(Users(t, b))
    BY <1>2, <1>7, <1>9
  <2> QED BY <1>4, <1>6, <2>1, <2>2
<1> QED BY <1>8, <1>9

\* After incref, when the fork f got the list of s.
LEMMA ReferencedExact ==
  ASSUME NEW p, NEW t, NEW g \in [Blocks -> Nat], Sound(p), Exact(p, t, g),
         IsFiniteSet(DOMAIN t), NEW s \in DOMAIN t, NEW f, f \notin DOMAIN t,
         NEW t2, DOMAIN t2 = DOMAIN t \cup {f}, t2[f] = t[s],
         \A x \in DOMAIN t \ {f} : t2[x] = t[x]
  PROVE  Exact(Referenced(p, SetOf(t[s])), t2, g)
<1> SUFFICES ASSUME NEW b \in Blocks
             PROVE  Referenced(p, SetOf(t[s])).refcount[b] = Cardinality(Users(t2, b)) + g[b]
  BY DEF Exact
<1>1. IsFiniteSet(Users(t, b))
  BY FS_Subset DEF Users
<1>2. Users(t2, b) = IF b \in SetOf(t[s]) THEN Users(t, b) \cup {f} ELSE Users(t, b) \ {f}
  <2>1. Users(t2, b) = IF b \in SetOf(t2[f]) THEN Users(t, b) \cup {f} ELSE Users(t, b) \ {f}
    BY DEF Users
  <2> QED BY <2>1
<1>3. f \notin Users(t, b)
  BY DEF Users
<1>4. p.refcount[b] = Cardinality(Users(t, b)) + g[b]
  BY DEF Exact
<1>5. Referenced(p, SetOf(t[s])).refcount[b]
        = IF b \in SetOf(t[s]) THEN p.refcount[b] + 1 ELSE p.refcount[b]
  BY DEF Referenced, Sound, Pool
<1>6. Cardinality(Users(t, b)) \in Nat /\ g[b] \in Nat
  BY <1>1, CountOfUsers
<1>7. Cardinality(Users(t2, b))
        = IF b \in SetOf(t[s]) THEN Cardinality(Users(t, b)) + 1 ELSE Cardinality(Users(t, b))
  <2>1. /\ Cardinality(Users(t, b) \cup {f}) = Cardinality(Users(t, b)) + 1
        /\ Cardinality(Users(t, b) \ {f}) = Cardinality(Users(t, b))
    BY <1>1, <1>3, CountOfUsers
  <2> QED BY <1>2, <2>1
<1> QED BY <1>4, <1>5, <1>6, <1>7

\* After copy_on_write, when f has c in the place of b.
LEMMA CopiedExact ==
  ASSUME NEW p, NEW t, NEW g \in [Blocks -> Nat], Sound(p), Exact(p, t, g),
         IsFiniteSet(DOMAIN t), NEW f \in DOMAIN t,
         NEW b \in SetOf(t[f]) \cap Blocks, NEW c \in FreeBlocks(p), p.refcount[b] > 1,
         NEW t2, DOMAIN t2 = DOMAIN t, \A x \in DOMAIN t \ {f} : t2[x] = t[x],
         SetOf(t2[f]) = (SetOf(t[f]) \ {b}) \cup {c}
  PROVE  Exact(Copied(p, b, c), t2, g)
<1> SUFFICES ASSUME NEW a \in Blocks
             PROVE  Copied(p, b, c).refcount[a] = Cardinality(Users(t2, a)) + g[a]
  BY DEF Exact
<1>1. IsFiniteSet(Users(t, a))
  BY FS_Subset DEF Users
<1>2. Users(t2, a) = IF a \in SetOf(t2[f]) THEN Users(t, a) \cup {f} ELSE Users(t, a) \ {f}
  BY UsersChanged
<1>3. f \in Users(t, a) <=> a \in SetOf(t[f])
  BY DEF Users
<1>4. p.refcount[a] = Cardinality(Users(t, a)) + g[a]
  BY DEF Exact
<1>5. Cardinality(Users(t, a)) \in Nat /\ g[a] \in Nat
  BY <1>1, CountOfUsers
<1>6. c \in Blocks /\ c # b /\ p.refcount[c] = 0
  BY DEF Sound, Pool, FreeBlocks
<1>7. Copied(p, b, c).refcount[a]
        = IF a = c THEN 1 ELSE IF a = b THEN p.refcount[b] - 1 ELSE p.refcount[a]
  BY <1>6 DEF Copied, Allocated
<1>8. /\ Cardinality(Users(t, a) \cup {f})
           = IF f \in Users(t, a) THEN Cardinality(Users(t, a)) ELSE Cardinality(Users(t, a)) + 1
      /\ Cardinality(Users(t, a) \ {f})
           = IF f \in Users(t, a) THEN Cardinality(Users(t, a)) - 1 ELSE Cardinality(Users(t, a))
  BY <1>1, CountOfUsers
<1>9. CASE a = c
  <2>1. Users(t, a) = {} /\ g[a] = 0
    BY <1>9, FreshBlock
  <2>2. Cardinality(Users(t2, a)) = 1
    BY <1>2, <1>9, <2>1, FS_Singleton
  <2> QED BY <1>7, <1>9, <2>1, <2>2
<1>10. CASE a = b
  <2>1. Cardinality(Users(t2, a)) = Cardinality(Users(t, a)) - 1
    BY <1>2, <1>3, <1>6, <1>8, <1>10
  <2> QED BY <1>4, <1>5, <1>6, <1>7, <1>10, <2>1
<1>11. CASE a # b /\ a # c
  <2>1. Cardinality(Users(t2, a)) = Cardinality(Users(t, a))
    BY <1>2, <1>3, <1>8, <1>11
  <2> QED BY <1>4, <1>5, <1>7, <1>11, <2>1
<1> QED BY <1>9, <1>10, <1>11

------------------------------------------------------------------------------
(* The tables keep their form. *)

\* A list that is continued by the list of other blocks.
LEMMA ContinuedList ==
  ASSUME NEW bs \in Seq(Blocks), IsInjective(bs),
         NEW more \in Seq(Blocks), IsInjective(more), SetOf(bs) \cap SetOf(more) = {}
  PROVE  /\ bs \o more \in Seq(Blocks)
         /\ IsInjective(bs \o more)
         /\ SetOf(bs \o more) = SetOf(bs) \cup SetOf(more)
         /\ Len(bs \o more) = Len(bs) + Len(more)
<1> DEFINE cat == bs \o more
<1>1. /\ cat \in Seq(Blocks)
      /\ Len(cat) = Len(bs) + Len(more)
      /\ \A i \in 1..Len(cat) : cat[i] = IF i <= Len(bs) THEN bs[i] ELSE more[i - Len(bs)]
  BY ConcatProperties
<1>2. /\ DOMAIN cat = 1..Len(bs) + Len(more) /\ Len(bs) \in Nat /\ Len(more) \in Nat
      /\ DOMAIN bs = 1..Len(bs) /\ DOMAIN more = 1..Len(more)
  BY <1>1
<1> HIDE DEF cat
<1>3. \A i \in DOMAIN cat : i \in DOMAIN bs \/ i - Len(bs) \in DOMAIN more
  BY <1>2
<1>4. /\ \A i \in DOMAIN bs : i \in DOMAIN cat /\ cat[i] = bs[i]
      /\ \A i \in DOMAIN more : i + Len(bs) \in DOMAIN cat /\ cat[i + Len(bs)] = more[i]
  BY <1>1, <1>2
<1>5. SetOf(cat) \subseteq SetOf(bs) \cup SetOf(more)
  BY <1>1, <1>2, <1>3 DEF SetOf
<1>6. SetOf(bs) \cup SetOf(more) \subseteq SetOf(cat)
  BY <1>4 DEF SetOf
<1>7. IsInjective(cat)
  <2> SUFFICES ASSUME NEW i \in DOMAIN cat, NEW j \in DOMAIN cat, cat[i] = cat[j]
               PROVE  i = j
    BY DEF IsInjective
  <2>1. CASE i <= Len(bs) /\ j <= Len(bs)
    <3>1. i \in DOMAIN bs /\ j \in DOMAIN bs /\ bs[i] = bs[j]
      BY <1>1, <1>2, <2>1
    <3> QED BY <3>1 DEF IsInjective
  <2>2. CASE i > Len(bs) /\ j > Len(bs)
    <3>1. /\ i - Len(bs) \in DOMAIN more /\ j - Len(bs) \in DOMAIN more
          /\ more[i - Len(bs)] = more[j - Len(bs)]
      BY <1>1, <1>2, <2>2
    <3>2. i - Len(bs) = j - Len(bs)
      BY <3>1 DEF IsInjective
    <3> QED BY <1>2, <3>2
  <2>3. CASE i <= Len(bs) /\ j > Len(bs)
    <3>1. i \in DOMAIN bs /\ j - Len(bs) \in DOMAIN more /\ bs[i] = more[j - Len(bs)]
      BY <1>1, <1>2, <2>3
    <3> QED BY <3>1 DEF SetOf
  <2>4. CASE i > Len(bs) /\ j <= Len(bs)
    <3>1. j \in DOMAIN bs /\ i - Len(bs) \in DOMAIN more /\ bs[j] = more[i - Len(bs)]
      BY <1>1, <1>2, <2>4
    <3> QED BY <3>1 DEF SetOf
  <2> QED BY <1>2, <2>1, <2>2, <2>3, <2>4
<1> QED BY <1>1, <1>5, <1>6, <1>7 DEF cat

\* A list in which a fresh block takes the place of one of its blocks.
LEMMA ReplacedInList ==
  ASSUME NEW bs \in Seq(Blocks), IsInjective(bs), NEW i \in DOMAIN bs,
         NEW c \in Blocks, c \notin SetOf(bs)
  PROVE  /\ [bs EXCEPT ![i] = c] \in Seq(Blocks)
         /\ IsInjective([bs EXCEPT ![i] = c])
         /\ SetOf([bs EXCEPT ![i] = c]) = (SetOf(bs) \ {bs[i]}) \cup {c}
         /\ Len([bs EXCEPT ![i] = c]) = Len(bs)
<1> DEFINE new == [bs EXCEPT ![i] = c]
<1>1. /\ new \in Seq(Blocks) /\ Len(new) = Len(bs) /\ DOMAIN new = DOMAIN bs
      /\ \A j \in DOMAIN bs : new[j] = IF j = i THEN c ELSE bs[j]
  OBVIOUS
<1> HIDE DEF new
<1>2. IsInjective(new)
  BY <1>1 DEF IsInjective, SetOf
<1>3. SetOf(new) = (SetOf(bs) \ {bs[i]}) \cup {c}
  BY <1>1 DEF IsInjective, SetOf
<1> QED BY <1>1, <1>2, <1>3 DEF new

\* More blocks have more room.
LEMMA MoreRoom ==
  ASSUME NEW L \in Nat, NEW k \in Nat, NEW B \in Nat \ {0}, NEW n \in 0..L * B
  PROVE  n \in 0..(L + k) * B
<1>1. (L + k) * B = L * B + k * B /\ k * B \in Nat /\ L * B \in Nat
  OBVIOUS
<1> QED BY <1>1

\* An append gets the blocks its tokens need.
LEMMA MissingIsEnough ==
  ASSUME NEW s \in DOMAIN table, NEW n \in Nat, Len(table[s]) \in Nat,
         offset[s] \in Nat
  PROVE  /\ Missing(s, n) \in Nat
         /\ offset[s] + n \in 0..(Len(table[s]) + Missing(s, n)) * BlockSize
<1> DEFINE k == offset[s] + n
           q == (k + BlockSize - 1) \div BlockSize
           L == Len(table[s])
<1>1. k \in Nat /\ L \in Nat
  OBVIOUS
<1>2. q \in Nat /\ k <= q * BlockSize
  BY <1>1, PagedAssumption, RoundedUp
<1>3. Missing(s, n) = IF q > L THEN q - L ELSE 0
  BY DEF Missing
<1> HIDE DEF k, q, L
<1>4. CASE q > L
  <2>1. Missing(s, n) \in Nat /\ L + Missing(s, n) = q
    BY <1>1, <1>2, <1>3, <1>4
  <2>2. k \in 0..q * BlockSize
    BY <1>1, <1>2, PagedAssumption
  <2> QED BY <2>1, <2>2 DEF k, L
<1>5. CASE ~(q > L)
  <2>1. Missing(s, n) = 0 /\ L + Missing(s, n) = L
    BY <1>1, <1>3, <1>5
  <2>2. k \in 0..q * BlockSize
    BY <1>1, <1>2, PagedAssumption
  <2>3. PICK d \in Nat : L = q + d
    <3>1. L - q \in Nat /\ L = q + (L - q)
      BY <1>1, <1>2, <1>5
    <3> QED BY <3>1
  <2>4. k \in 0..L * BlockSize
    BY <1>2, <2>2, <2>3, MoreRoom, PagedAssumption
  <2> QED BY <2>1, <2>4 DEF k, L
<1> QED BY <1>4, <1>5

------------------------------------------------------------------------------
(* The steps. *)

\* allocate_sequence keeps the invariant, also for a sequence that exists: the references of
\* the table it replaces are counted as forgotten.
LEMMA AllocateSequenceKeeps ==
  ASSUME IInv, NEW s \in SeqIds, AllocateSequence(s)
  PROVE  IInv'
<1>1. PICK n \in 0..MaxInitial : \E S \in Allocations(pool, n) : \E bs \in Lists(S) :
        /\ pool' = Allocated(pool, S)
        /\ table' = With(table, s, bs)
        /\ offset' = With(offset, s, 0)
        /\ forgotten' = [b \in Blocks |->
             forgotten[b] + (IF s \in Used /\ b \in SetOf(table[s]) THEN 1 ELSE 0)]
  BY DEF AllocateSequence
<1>2. PICK S \in Allocations(pool, n) : \E bs \in Lists(S) :
        /\ pool' = Allocated(pool, S)
        /\ table' = With(table, s, bs)
        /\ offset' = With(offset, s, 0)
        /\ forgotten' = [b \in Blocks |->
             forgotten[b] + (IF s \in Used /\ b \in SetOf(table[s]) THEN 1 ELSE 0)]
  BY <1>1
<1>3. PICK bs \in Lists(S) :
        /\ pool' = Allocated(pool, S)
        /\ table' = With(table, s, bs)
        /\ offset' = With(offset, s, 0)
        /\ forgotten' = [b \in Blocks |->
             forgotten[b] + (IF s \in Used /\ b \in SetOf(table[s]) THEN 1 ELSE 0)]
  BY <1>2
<1>4. S \in SUBSET FreeBlocks(pool) /\ S \in SUBSET Blocks
  BY DEF Allocations, FreeBlocks
<1>5. bs \in Seq(Blocks) /\ IsInjective(bs) /\ SetOf(bs) = S /\ Len(bs) \in Nat
  BY <1>4, ListOfBlocks
<1>6. /\ DOMAIN table' = DOMAIN table \cup {s} /\ DOMAIN offset' = DOMAIN offset \cup {s}
      /\ table'[s] = bs /\ offset'[s] = 0
      /\ \A x \in DOMAIN table \ {s} : table'[x] = table[x]
      /\ \A x \in DOMAIN offset \ {s} : offset'[x] = offset[x]
  BY <1>3 DEF With
<1>7. Sound(pool')
  BY <1>3, <1>4, AllocatedSound DEF IInv
<1>8. TableOf(bs, 0)
  <2>1. Len(bs) * BlockSize \in Nat
    BY <1>5, PagedAssumption
  <2> QED BY <1>5, <2>1 DEF TableOf
<1>9. Tables(table', offset')
  <2>1. IsFiniteSet(DOMAIN table')
    BY <1>6, FS_AddElement DEF IInv, Tables
  <2>2. DOMAIN offset' = DOMAIN table'
    BY <1>6 DEF IInv, Tables
  <2>3. \A x \in DOMAIN table' : TableOf(table'[x], offset'[x])
    BY <1>6, <1>8 DEF IInv, Tables
  <2> QED BY <2>1, <2>2, <2>3 DEF Tables
<1>10. Exact(pool', table', forgotten')
  <2>1. IsFiniteSet(DOMAIN table) /\ Sound(pool) /\ Exact(pool, table, forgotten)
        /\ forgotten \in [Blocks -> Nat]
    BY DEF IInv, Tables
  <2>2. \A b \in Blocks :
          forgotten'[b] = forgotten[b] + (IF b \in OldBlocks(table, s) \ {} THEN 1 ELSE 0)
    BY <1>3 DEF Used, OldBlocks
  <2>3. SetOf(table'[s]) = {} \cup S
    BY <1>5, <1>6
  <2>4. GetsBlocks(pool, table, forgotten, s, S, {}, table', forgotten')
    BY <1>4, <1>6, <2>2, <2>3 DEF GetsBlocks
  <2>5. Exact(Allocated(pool, S), table', forgotten')
    BY <2>1, <2>4, AllocatedExact
  <2> QED BY <1>3, <2>5
<1>11. forgotten' \in [Blocks -> Nat]
  BY <1>3 DEF IInv
<1> QED BY <1>7, <1>9, <1>10, <1>11 DEF IInv, Sound, Exact, Tables

\* What both kinds of append do to the pool and the tables.
LEMMA ExtendKeeps ==
  ASSUME IInv, NEW s \in Used, NEW n \in Nat,
         NEW S \in Allocations(pool, n), NEW more \in Lists(S),
         pool' = Allocated(pool, S),
         table' = [table EXCEPT ![s] = table[s] \o more],
         DOMAIN offset' = DOMAIN offset,
         \A x \in DOMAIN offset \ {s} : offset'[x] = offset[x],
         offset'[s] \in 0..(Len(table[s]) + n) * BlockSize,
         forgotten' = forgotten
  PROVE  IInv'
<1>1. S \in SUBSET FreeBlocks(pool) /\ S \in SUBSET Blocks /\ Cardinality(S) = n
  BY DEF Allocations, FreeBlocks
<1>2. /\ more \in Seq(Blocks) /\ IsInjective(more) /\ SetOf(more) = S /\ Len(more) = n
  BY <1>1, ListOfBlocks
<1>3. /\ IsFiniteSet(DOMAIN table) /\ Sound(pool) /\ Exact(pool, table, forgotten)
      /\ forgotten \in [Blocks -> Nat]
      /\ s \in DOMAIN table /\ table[s] \in Seq(Blocks) /\ IsInjective(table[s])
  BY DEF IInv, Tables, TableOf, Used
<1>4. SetOf(table[s]) \cap SetOf(more) = {}
  <2> SUFFICES ASSUME NEW b \in SetOf(table[s]), b \in S PROVE FALSE
    BY <1>2
  <2>1. Users(table, b) = {}
    BY <1>1, <1>3, FreshBlock
  <2> QED BY <1>3, <2>1 DEF Users
<1>5. LET new == table[s] \o more
      IN /\ new \in Seq(Blocks) /\ IsInjective(new)
         /\ SetOf(new) = SetOf(table[s]) \cup S
         /\ Len(new) = Len(table[s]) + n
  BY <1>2, <1>3, <1>4, ContinuedList
<1>6. /\ DOMAIN table' = DOMAIN table /\ table'[s] = table[s] \o more
      /\ \A x \in DOMAIN table \ {s} : table'[x] = table[x]
  BY <1>3
<1>7. Sound(pool')
  BY <1>1, <1>3, AllocatedSound
<1>8. Tables(table', offset')
  <2>1. IsFiniteSet(DOMAIN table') /\ DOMAIN offset' = DOMAIN table'
    BY <1>3, <1>6 DEF IInv, Tables
  <2>2. TableOf(table'[s], offset'[s])
    BY <1>5, <1>6 DEF TableOf
  <2>3. \A x \in DOMAIN table \ {s} : TableOf(table'[x], offset'[x])
    BY <1>6 DEF IInv, Tables
  <2> QED BY <1>6, <2>1, <2>2, <2>3 DEF Tables
<1>9. Exact(pool', table', forgotten')
  <2>1. OldBlocks(table, s) = SetOf(table[s])
    BY <1>3 DEF OldBlocks
  <2>2. \A b \in Blocks : forgotten[b] =
          forgotten[b] + (IF b \in OldBlocks(table, s) \ OldBlocks(table, s) THEN 1 ELSE 0)
    BY <1>3
  <2>3. SetOf(table'[s]) = OldBlocks(table, s) \cup S
    BY <1>5, <1>6, <2>1
  <2>4. GetsBlocks(pool, table, forgotten, s, S, OldBlocks(table, s), table', forgotten)
    BY <1>1, <1>3, <1>6, <2>2, <2>3 DEF GetsBlocks
  <2>5. Exact(Allocated(pool, S), table', forgotten)
    BY <1>3, <2>4, AllocatedExact
  <2> QED BY <2>5
<1> QED BY <1>3, <1>7, <1>8, <1>9 DEF IInv, Sound, Exact, Tables

\* append_kv keeps the invariant: the blocks it adds have room for the new offset.
LEMMA AppendKVKeeps ==
  ASSUME IInv, NEW s \in SeqIds, NEW ts \in Appends, AppendKV(s, ts)
  PROVE  IInv'
<1>1. Len(ts) \in Nat
  BY PagedAssumption DEF Appends, BoundedSeq
<1>2. PICK S \in Allocations(pool, Missing(s, Len(ts))) : \E more \in Lists(S) :
        /\ pool' = Allocated(pool, S)
        /\ table' = [table EXCEPT ![s] = table[s] \o more]
  BY DEF AppendKV
<1>3. PICK more \in Lists(S) :
        /\ pool' = Allocated(pool, S)
        /\ table' = [table EXCEPT ![s] = table[s] \o more]
  BY <1>2
<1>4. /\ s \in Used /\ forgotten' = forgotten
      /\ offset' = [offset EXCEPT ![s] = offset[s] + Len(ts)]
  BY DEF AppendKV
<1>5. /\ s \in DOMAIN table /\ s \in DOMAIN offset /\ DOMAIN offset = DOMAIN table
      /\ Len(table[s]) \in Nat
  BY <1>4 DEF Used, IInv, Tables, TableOf
<1>6. offset[s] \in Nat
  <2>1. offset[s] \in 0..Len(table[s]) * BlockSize
    BY <1>5 DEF IInv, Tables, TableOf
  <2> QED BY <1>5, <2>1, PagedAssumption
<1>7. /\ Missing(s, Len(ts)) \in Nat
      /\ offset[s] + Len(ts) \in 0..(Len(table[s]) + Missing(s, Len(ts))) * BlockSize
  BY <1>1, <1>5, <1>6, MissingIsEnough
<1>8. /\ DOMAIN offset' = DOMAIN offset /\ offset'[s] = offset[s] + Len(ts)
      /\ \A x \in DOMAIN offset \ {s} : offset'[x] = offset[x]
  BY <1>4, <1>5
<1>9. offset'[s] \in 0..(Len(table[s]) + Missing(s, Len(ts))) * BlockSize
  BY <1>7, <1>8
<1> QED BY <1>3, <1>4, <1>7, <1>8, <1>9, ExtendKeeps

\* So does an append_kv that raises when the pool runs out: the blocks it took stay in the
\* table, the offset stays where it was.
LEMMA AppendOutOfBlocksKeeps ==
  ASSUME IInv, NEW s \in SeqIds, NEW ts \in Appends, AppendOutOfBlocks(s, ts)
  PROVE  IInv'
<1>1. PICK S \in Allocations(pool, FreeCount(pool)) : \E more \in Lists(S) :
        /\ pool' = Allocated(pool, S)
        /\ table' = [table EXCEPT ![s] = table[s] \o more]
  BY DEF AppendOutOfBlocks
<1>2. PICK more \in Lists(S) :
        /\ pool' = Allocated(pool, S)
        /\ table' = [table EXCEPT ![s] = table[s] \o more]
  BY <1>1
<1>3. s \in Used /\ forgotten' = forgotten /\ offset' = offset
  BY DEF AppendOutOfBlocks
<1>4. FreeCount(pool) = Cardinality(S) /\ Cardinality(S) \in Nat
  <2>1. S \in SUBSET Blocks /\ Cardinality(S) = FreeCount(pool)
    BY DEF Allocations, FreeBlocks
  <2> QED BY <2>1, PoolAssumption, FS_Subset, FS_CardinalityType
<1>5. Len(table[s]) \in Nat /\ offset[s] \in 0..Len(table[s]) * BlockSize
  BY <1>3 DEF Used, IInv, Tables, TableOf
<1>6. offset[s] \in 0..(Len(table[s]) + FreeCount(pool)) * BlockSize
  BY <1>4, <1>5, MoreRoom, PagedAssumption
<1> QED BY <1>2, <1>3, <1>4, <1>6, ExtendKeeps

\* free_sequence keeps the invariant: every block of the table has a reference, so free does
\* not raise half way and all of them are given back.
LEMMA DroppedKeeps ==
  ASSUME IInv, NEW x \in Used, Dropped(x), forgotten' = forgotten
  PROVE  IInv'
<1>1. /\ Sound(pool) /\ Exact(pool, table, forgotten) /\ Tables(table, offset)
      /\ forgotten \in [Blocks -> Nat] /\ x \in DOMAIN table
  BY DEF IInv, Used
<1>2. /\ Reached(pool, SetOf(table[x])) = {SetOf(table[x])}
      /\ \A b \in SetOf(table[x]) : b \in Blocks /\ pool.refcount[b] > 0
  BY <1>1, TableIsHeld
<1>3. /\ pool' = Freed(pool, SetOf(table[x]))
      /\ table' = Restrict(table, DOMAIN table \ {x})
      /\ offset' = Restrict(offset, DOMAIN table \ {x})
  BY <1>2 DEF Dropped, Held, Used
<1>4. Sound(pool')
  BY <1>1, <1>2, <1>3, FreedSound
<1>5. Exact(pool', table', forgotten')
  BY <1>1, <1>3, FreedExact
<1>6. Tables(table', offset')
  <2>1. DOMAIN table' = DOMAIN table \ {x} /\ DOMAIN offset' = DOMAIN table \ {x}
    BY <1>3 DEF Restrict
  <2>2. IsFiniteSet(DOMAIN table')
    BY <1>1, <2>1, FS_RemoveElement DEF Tables
  <2>3. \A y \in DOMAIN table' : TableOf(table'[y], offset'[y])
    BY <1>1, <1>3, <2>1 DEF Tables, Restrict
  <2> QED BY <2>1, <2>2, <2>3 DEF Tables
<1> QED BY <1>1, <1>4, <1>5, <1>6 DEF IInv, Sound, Exact, Tables

\* incref of all blocks of a sequence, with a fork that reads them, keeps the invariant.
LEMMA ShareKeeps ==
  ASSUME IInv, NEW f \in Forks, NEW s \in SeqIds, Share(f, s)
  PROVE  IInv'
<1>1. /\ Sound(pool) /\ Exact(pool, table, forgotten) /\ Tables(table, offset)
      /\ forgotten \in [Blocks -> Nat] /\ s \in DOMAIN table /\ f \notin DOMAIN table
  BY DEF IInv, Share, Used
<1>2. /\ Reached(pool, SetOf(table[s])) = {SetOf(table[s])}
      /\ \A b \in SetOf(table[s]) : b \in Blocks /\ pool.refcount[b] > 0
  BY <1>1, TableIsHeld
<1>3. /\ pool' = Referenced(pool, SetOf(table[s]))
      /\ table' = With(table, f, table[s]) /\ offset' = With(offset, f, offset[s])
      /\ forgotten' = forgotten
  BY <1>2 DEF Share
<1>4. /\ DOMAIN table' = DOMAIN table \cup {f} /\ DOMAIN offset' = DOMAIN offset \cup {f}
      /\ table'[f] = table[s] /\ offset'[f] = offset[s]
      /\ \A x \in DOMAIN table \ {f} : table'[x] = table[x]
      /\ \A x \in DOMAIN offset \ {f} : offset'[x] = offset[x]
  BY <1>3 DEF With
<1>5. Sound(pool')
  BY <1>1, <1>2, <1>3, ReferencedSound
<1>6. Exact(pool', table', forgotten')
  <2>1. IsFiniteSet(DOMAIN table)
    BY <1>1 DEF Tables
  <2>2. Exact(Referenced(pool, SetOf(table[s])), table', forgotten)
    BY <1>1, <1>4, <2>1, ReferencedExact
  <2> QED BY <1>3, <2>2
<1>7. Tables(table', offset')
  <2>1. IsFiniteSet(DOMAIN table')
    BY <1>1, <1>4, FS_AddElement DEF Tables
  <2>2. DOMAIN offset' = DOMAIN table'
    BY <1>1, <1>4 DEF Tables
  <2>3. \A x \in DOMAIN table' : TableOf(table'[x], offset'[x])
    BY <1>1, <1>4 DEF Tables
  <2> QED BY <2>1, <2>2, <2>3 DEF Tables
<1> QED BY <1>1, <1>3, <1>5, <1>6, <1>7 DEF IInv, Sound, Exact, Tables

\* copy_on_write by a fork keeps the invariant: it takes the reference of the fork from the
\* shared block and gives it to the copy.
LEMMA RewriteKeeps ==
  ASSUME IInv, NEW f \in Forks, NEW p \in Nat, NEW t \in Tokens, Rewrite(f, p, t)
  PROVE  IInv'
<1> DEFINE i == p \div BlockSize + 1
           b == table[f][i]
<1>1. /\ Sound(pool) /\ Exact(pool, table, forgotten) /\ Tables(table, offset)
      /\ forgotten \in [Blocks -> Nat] /\ f \in DOMAIN table
      /\ table[f] \in Seq(Blocks) /\ IsInjective(table[f])
      /\ offset[f] \in 0..Len(table[f]) * BlockSize
  BY DEF IInv, Rewrite, Used, Tables, TableOf
<1>2. offset' = offset /\ forgotten' = forgotten /\ p < offset[f]
  BY DEF Rewrite
<1>3. i \in DOMAIN table[f]
  <2>1. Len(table[f]) \in Nat /\ DOMAIN table[f] = 1..Len(table[f])
    BY <1>1
  <2>2. Len(table[f]) * BlockSize \in Nat
    BY <2>1, PagedAssumption
  <2>3. p < Len(table[f]) * BlockSize
    BY <1>1, <1>2, <2>2
  <2> QED BY <2>1, <2>3, BlockOfPosition, PagedAssumption
<1>4. b \in SetOf(table[f]) \cap Blocks
  BY <1>1, <1>3 DEF SetOf
<1>5. BlockAt(table[f], p) = b
  BY DEF BlockAt
<1>6. CASE UNCHANGED <<pool, table>>
  BY <1>1, <1>2, <1>6 DEF IInv, Sound, Exact, Tables
<1>7. ASSUME pool.refcount[b] > 1, NEW S \in Allocations(pool, 1), NEW c \in S,
             pool' = Copied(pool, b, c), table' = [table EXCEPT ![f][i] = c]
      PROVE  IInv'
  <2> HIDE DEF i, b
  <2>1. c \in FreeBlocks(pool) /\ c \in Blocks
    BY <1>7 DEF Allocations, FreeBlocks
  <2>2. IsFiniteSet(DOMAIN table)
    BY <1>1 DEF Tables
  <2>3. c \notin SetOf(table[f])
    <3>1. Users(table, c) = {}
      BY <1>1, <2>1, <2>2, FreshBlock
    <3> QED BY <1>1, <3>1 DEF Users
  <2>4. /\ DOMAIN table' = DOMAIN table /\ table'[f] = [table[f] EXCEPT ![i] = c]
        /\ \A x \in DOMAIN table \ {f} : table'[x] = table[x]
    BY <1>1, <1>7
  <2>5. /\ table'[f] \in Seq(Blocks) /\ IsInjective(table'[f])
        /\ SetOf(table'[f]) = (SetOf(table[f]) \ {table[f][i]}) \cup {c}
        /\ Len(table'[f]) = Len(table[f])
    <3>1. PICK bs : bs = table[f]
      OBVIOUS
    <3>2. bs \in Seq(Blocks) /\ IsInjective(bs) /\ i \in DOMAIN bs /\ c \notin SetOf(bs)
      BY <1>1, <1>3, <2>3, <3>1
    <3>3. /\ [bs EXCEPT ![i] = c] \in Seq(Blocks)
          /\ IsInjective([bs EXCEPT ![i] = c])
          /\ SetOf([bs EXCEPT ![i] = c]) = (SetOf(bs) \ {bs[i]}) \cup {c}
          /\ Len([bs EXCEPT ![i] = c]) = Len(bs)
      BY <2>1, <3>2, ReplacedInList
    <3> QED BY <2>4, <3>1, <3>3
  <2>6. Sound(pool')
    BY <1>1, <1>4, <1>7, <2>1, CopiedSound
  <2>7. SetOf(table'[f]) = (SetOf(table[f]) \ {b}) \cup {c}
    BY <2>5 DEF b
  <2>8. Exact(Copied(pool, b, c), table', forgotten)
    BY <1>1, <1>4, <1>7, <2>1, <2>2, <2>4, <2>7, CopiedExact
  <2>9. Tables(table', offset')
    BY <1>1, <1>2, <2>4, <2>5 DEF Tables, TableOf
  <2> QED BY <1>1, <1>2, <1>7, <2>6, <2>8, <2>9 DEF IInv, Sound, Exact, Tables
<1>8. \/ UNCHANGED <<pool, table>>
      \/ /\ pool.refcount[b] > 1
         /\ \E S \in Allocations(pool, 1) : \E c \in S :
              pool' = Copied(pool, b, c) /\ table' = [table EXCEPT ![f][i] = c]
  BY <1>5 DEF Rewrite
<1> QED BY <1>6, <1>7, <1>8

------------------------------------------------------------------------------
\* The invariant holds in the initial state.
LEMMA InvariantInit == Init => IInv
<1> SUFFICES ASSUME Init PROVE IInv
  OBVIOUS
<1>1. Sound(pool)
  BY DEF Init, PoolInit, Sound, Pool
<1>2. DOMAIN table = {} /\ DOMAIN offset = {}
  BY DEF Init
<1>3. Tables(table, offset)
  BY <1>2, FS_EmptySet DEF Tables
<1>4. \A b \in Blocks : Users(table, b) = {}
  BY <1>2 DEF Users
<1>5. Exact(pool, table, forgotten)
  <2>1. \A b \in Blocks : pool.refcount[b] = 0 /\ forgotten[b] = 0
    BY DEF Init, PoolInit
  <2>2. \A b \in Blocks : Cardinality(Users(table, b)) = 0
    BY <1>4, FS_EmptySet
  <2> QED BY <2>1, <2>2 DEF Exact
<1>6. forgotten \in [Blocks -> Nat]
  BY DEF Init
<1> QED BY <1>1, <1>3, <1>5, <1>6 DEF IInv

\* And every step keeps it.
LEMMA InvariantStep == IInv /\ [Next]_vars => IInv'
<1> SUFFICES ASSUME IInv, [Next]_vars PROVE IInv'
  OBVIOUS
<1>1. ASSUME NEW s \in SeqIds, AllocateSequence(s) PROVE IInv'
  BY <1>1, AllocateSequenceKeeps
<1>2. ASSUME NEW s \in SeqIds, FreeSequence(s) PROVE IInv'
  BY <1>2, DroppedKeeps DEF FreeSequence
<1>3. ASSUME NEW s \in SeqIds, NEW ts \in Appends, AppendKV(s, ts) PROVE IInv'
  BY <1>3, AppendKVKeeps
<1>4. ASSUME NEW s \in SeqIds, NEW ts \in Appends, AppendOutOfBlocks(s, ts) PROVE IInv'
  BY <1>4, AppendOutOfBlocksKeeps
<1>5. ASSUME NEW f \in Forks, NEW s \in SeqIds, Share(f, s) PROVE IInv'
  BY <1>5, ShareKeeps
<1>6. ASSUME NEW f \in Forks, Release(f) PROVE IInv'
  BY <1>6, DroppedKeeps DEF Release
<1>7. ASSUME NEW f \in Forks, NEW p \in 0..Cardinality(Blocks) * BlockSize, NEW t \in Tokens,
             Rewrite(f, p, t)
      PROVE  IInv'
  <2>1. Cardinality(Blocks) * BlockSize \in Nat
    BY PoolAssumption, PagedAssumption, FS_CardinalityType
  <2> QED BY <1>7, <2>1, RewriteKeeps
<1>8. CASE UNCHANGED vars
  BY <1>8 DEF vars, IInv, Sound, Exact, Tables
<1> QED BY <1>1, <1>2, <1>3, <1>4, <1>5, <1>6, <1>7, <1>8 DEF Next

\* The inductive invariant holds in every reachable state of the paged cache: the pool is
\* sound, the tables name each block once and have room for their offset, and reference
\* counts are exact.
THEOREM PagedInvariant == Spec => []IInv
BY InvariantInit, InvariantStep, PTL DEF Spec

\* Under the calls of the paged cache and its forks no block is lost or handed out twice:
\* each is on the free list once, or has a reference.
THEOREM BlocksAreFreeOrReferenced == Spec => []FreeOrReferenced
<1>1. IInv => FreeOrReferenced
  BY DEF IInv, Sound, FreeOrReferenced
<1> QED BY <1>1, PagedInvariant, PTL

\* The reference count of every block is the number of tables that name it, plus the tables
\* that allocate_sequence replaced: no call frees a block another user still reads.
THEOREM ReferenceCountsAreExact == Spec => []ReferencesAreExact
<1>1. IInv => ReferencesAreExact
  BY DEF IInv, Exact, ReferencesAreExact
<1> QED BY <1>1, PagedInvariant, PTL

------------------------------------------------------------------------------
(***************************************************************************)
(* PagedKV implements SequenceStore, for every pool, block size and set of *)
(* users: the tokens get_kv reads for a sequence or a fork change only by  *)
(* a call on it.  Blocks are shared, so what has to be shown is that no    *)
(* call writes a cell that another user reads.                             *)
(***************************************************************************)


\* Users of one block have it at the same place of their tables; what a
\* sequence shares, it shares with forks that end no later than itself.
SamePlace(t) ==
  \A x, y \in DOMAIN t : \A i \in DOMAIN t[x], j \in DOMAIN t[y] : t[x][i] = t[y][j] => i = j
ForksEndFirst(t, o) ==
  \A s \in SeqIds \cap DOMAIN t : \A y \in DOMAIN t \ {s} :
    \A i \in DOMAIN t[s], j \in DOMAIN t[y] :
      t[s][i] = t[y][j] => y \notin SeqIds /\ o[y] <= o[s]

Shaped(cs) == DOMAIN cs = Blocks /\ \A b \in Blocks : DOMAIN cs[b] = Cell

Good(t, o, cs) == SamePlace(t) /\ ForksEndFirst(t, o) /\ Shaped(cs)

RInv == IInv /\ Good(table, offset, cells)

\* The tokens a list of blocks holds, and the contents of all users.
Read(bs, n, cs) == [i \in 1..n |-> cs[BlockAt(bs, i - 1)][(i - 1) % BlockSize]]
Contents(t, o, cs) == [x \in DOMAIN t |-> Read(t[x], o[x], cs)]

------------------------------------------------------------------------------
(* Positions and cells. *)

\* A position is its block and its cell.
LEMMA OnePosition ==
  ASSUME NEW p \in Nat, NEW q \in Nat, NEW B \in Nat \ {0},
         p \div B = q \div B, p % B = q % B
  PROVE  p = q
<1>1. p = B * (p \div B) + (p % B) /\ q = B * (q \div B) + (q % B)
  BY DivMod
<1> QED BY <1>1

\* Fewer blocks than an append is short of leave it short of room.
LEMMA NotEnough ==
  ASSUME NEW k \in Nat, NEW B \in Nat \ {0}, NEW m \in Nat, m < (k + B - 1) \div B
  PROVE  m * B < k
<1> DEFINE q == (k + B - 1) \div B
<1>1. k + B - 1 \in Nat
  OBVIOUS
<1>2. q \in Nat /\ (k + B - 1) % B \in 0..B - 1 /\ k + B - 1 = B * q + ((k + B - 1) % B)
  BY <1>1, DivMod
<1>3. m < q
  OBVIOUS
<1> HIDE DEF q
<1>4. PICK d \in Nat : q = m + 1 + d
  <2>1. q - (m + 1) \in Nat /\ q = m + 1 + (q - (m + 1))
    BY <1>2, <1>3
  <2> QED BY <2>1
<1>5. B * q = m * B + B + B * d
  BY <1>4
<1>6. B * d \in Nat
  BY <1>4
<1>7. PICK x : x = m * B /\ x \in Nat
  OBVIOUS
<1>8. B * q >= x + B
  BY <1>5, <1>6, <1>7
<1>9. B * q <= k + B - 1
  BY <1>2
<1>10. B * q \in Nat
  BY <1>2
<1> QED BY <1>7, <1>8, <1>9, <1>10

\* A position in the room of a list has a block of it and a cell.
LEMMA PositionInList ==
  ASSUME NEW bs \in Seq(Blocks), NEW p \in Nat, p < Len(bs) * BlockSize
  PROVE  /\ p \div BlockSize + 1 \in DOMAIN bs
         /\ BlockAt(bs, p) \in Blocks
         /\ BlockAt(bs, p) \in SetOf(bs)
         /\ p % BlockSize \in Cell
<1>0. Len(bs) \in Nat /\ DOMAIN bs = 1..Len(bs)
  OBVIOUS
<1>1. p \div BlockSize + 1 \in DOMAIN bs
  BY <1>0, BlockOfPosition, PagedAssumption
<1>2. p % BlockSize \in Cell
  BY DivMod, PagedAssumption DEF Cell
<1>3. PICK i : i = p \div BlockSize + 1
  OBVIOUS
<1>4. i \in DOMAIN bs /\ BlockAt(bs, p) = bs[i]
  BY <1>1, <1>3 DEF BlockAt
<1>5. bs[i] \in Blocks /\ bs[i] \in SetOf(bs)
  BY <1>4 DEF SetOf
<1> QED BY <1>2, <1>3, <1>4, <1>5

\* A position below the offset is in the room.
LEMMA BelowOffset ==
  ASSUME NEW bs, NEW n, TableOf(bs, n), NEW i \in 1..n
  PROVE  /\ n \in Nat /\ i - 1 \in Nat /\ i - 1 < n
         /\ i - 1 < Len(bs) * BlockSize
         /\ bs \in Seq(Blocks) /\ IsInjective(bs)
<1>1. bs \in Seq(Blocks) /\ IsInjective(bs) /\ n \in 0..Len(bs) * BlockSize
  BY DEF TableOf
<1>2. Len(bs) * BlockSize \in Nat
  BY <1>1, PagedAssumption
<1> QED BY <1>1, <1>2

\* Two reads that find the same cells are equal.
LEMMA SameRead ==
  ASSUME NEW bs, NEW bs2, NEW n, NEW cs, NEW cs2,
         \A i \in 1..n : cs2[BlockAt(bs2, i - 1)][(i - 1) % BlockSize]
                           = cs[BlockAt(bs, i - 1)][(i - 1) % BlockSize]
  PROVE  Read(bs2, n, cs2) = Read(bs, n, cs)
BY DEF Read

------------------------------------------------------------------------------
(* What a write reaches. *)

\* The cells after the tokens ts were written behind position n through bs.
Overwritten(cs, bs, n, ts) ==
  [b \in Blocks |-> [c \in Cell |->
     LET hits == {i \in DOMAIN ts : BlockAt(bs, n + i - 1) = b /\ (n + i - 1) % BlockSize = c}
     IN IF hits = {} THEN cs[b][c] ELSE ts[CHOOSE i \in hits : \A j \in hits : j <= i]]]

\* The tokens fit in the blocks.
Fits(bs, n, ts) ==
  /\ bs \in Seq(Blocks) /\ IsInjective(bs) /\ n \in Nat
  /\ \A i \in DOMAIN ts : i \in Nat /\ i >= 1 /\ n + i - 1 \in Nat
                          /\ n + i - 1 < Len(bs) * BlockSize

\* A cell none of the written positions has keeps its content.
LEMMA UntouchedCell ==
  ASSUME NEW cs, NEW bs, NEW n, NEW ts, NEW b \in Blocks, NEW c \in Cell,
         \A i \in DOMAIN ts : ~(BlockAt(bs, n + i - 1) = b /\ (n + i - 1) % BlockSize = c)
  PROVE  Overwritten(cs, bs, n, ts)[b][c] = cs[b][c]
<1>1. {i \in DOMAIN ts : BlockAt(bs, n + i - 1) = b /\ (n + i - 1) % BlockSize = c} = {}
  OBVIOUS
<1> QED BY <1>1 DEF Overwritten

\* Different positions of one list are different cells.
LEMMA DistinctCells ==
  ASSUME NEW bs \in Seq(Blocks), IsInjective(bs), NEW p \in Nat, NEW q \in Nat,
         p < Len(bs) * BlockSize, q < Len(bs) * BlockSize,
         BlockAt(bs, p) = BlockAt(bs, q), p % BlockSize = q % BlockSize
  PROVE  p = q
<1>1. p \div BlockSize + 1 \in DOMAIN bs /\ q \div BlockSize + 1 \in DOMAIN bs
  BY PositionInList
<1>2. p \div BlockSize + 1 = q \div BlockSize + 1
  BY <1>1 DEF IsInjective, BlockAt
<1>3. p \div BlockSize \in Nat /\ q \div BlockSize \in Nat
  BY DivMod, PagedAssumption
<1>4. p \div BlockSize = q \div BlockSize
  BY <1>2, <1>3
<1> QED BY <1>4, OnePosition, PagedAssumption

\* A written position holds its token.
LEMMA WrittenCell ==
  ASSUME NEW cs, NEW bs, NEW n, NEW ts, Fits(bs, n, ts), NEW i \in DOMAIN ts
  PROVE  Overwritten(cs, bs, n, ts)[BlockAt(bs, n + i - 1)][(n + i - 1) % BlockSize] = ts[i]
<1> DEFINE b == BlockAt(bs, n + i - 1)
           c == (n + i - 1) % BlockSize
           hits == {j \in DOMAIN ts : BlockAt(bs, n + j - 1) = b /\ (n + j - 1) % BlockSize = c}
<1>1. b \in Blocks /\ c \in Cell
  BY PositionInList DEF Fits
<1>2. ASSUME NEW j \in hits PROVE j = i
  <2>1. n + j - 1 = n + i - 1
    BY <1>2, DistinctCells DEF Fits
  <2> QED BY <1>2, <2>1 DEF Fits
<1>3. hits = {i}
  BY <1>2
<1>4. i \in Nat
  BY DEF Fits
<1>5. (CHOOSE k \in {i} : \A j \in {i} : j <= k) = i
  BY <1>4
<1>6. Overwritten(cs, bs, n, ts)[b][c]
        = IF hits = {} THEN cs[b][c] ELSE ts[CHOOSE k \in hits : \A j \in hits : j <= k]
  BY <1>1 DEF Overwritten
<1> HIDE DEF hits, b, c
<1>7. Overwritten(cs, bs, n, ts)[b][c] = ts[CHOOSE k \in {i} : \A j \in {i} : j <= k]
  BY <1>3, <1>6
<1> QED BY <1>5, <1>7 DEF b, c

\* A write keeps the form of the cells.
LEMMA OverwrittenShaped ==
  ASSUME NEW cs, NEW bs, NEW n, NEW ts
  PROVE  Shaped(Overwritten(cs, bs, n, ts))
BY DEF Shaped, Overwritten

------------------------------------------------------------------------------
(* Sharing, before and after a call. *)

\* The list of s in t becomes another one in t2: what is not fresh stays in its place.
NewList(t, o, s, t2, o2) ==
  /\ DOMAIN t2 = DOMAIN t \cup {s}
  /\ \A x \in DOMAIN t \ {s} : t2[x] = t[x] /\ o2[x] = o[x]
  /\ IsInjective(t2[s])
  /\ \A j \in DOMAIN t2[s] :
       \/ Users(t, t2[s][j]) = {}
       \/ s \in DOMAIN t /\ j \in DOMAIN t[s] /\ t2[s][j] = t[s][j]
  /\ s \in DOMAIN t => (IF s \in SeqIds THEN o[s] \in Nat /\ o2[s] \in Nat /\ o[s] <= o2[s]
                                        ELSE o2[s] = o[s])

\* A block another user has is not fresh: it was in its place before.
LEMMA SharedIsOld ==
  ASSUME NEW t, NEW o, NEW s, NEW t2, NEW o2, NewList(t, o, s, t2, o2),
         NEW x \in DOMAIN t \ {s}, NEW i \in DOMAIN t[x], NEW j \in DOMAIN t2[s],
         t2[s][j] = t[x][i]
  PROVE  s \in DOMAIN t /\ j \in DOMAIN t[s] /\ t[s][j] = t[x][i]
<1>1. x \in Users(t, t2[s][j])
  BY DEF Users, SetOf
<1>2. \/ Users(t, t2[s][j]) = {}
      \/ s \in DOMAIN t /\ j \in DOMAIN t[s] /\ t2[s][j] = t[s][j]
  BY DEF NewList
<1> QED BY <1>1, <1>2

\* A call that gives a user fresh blocks keeps shared blocks in their places.
LEMMA NewListSamePlace ==
  ASSUME NEW t, NEW o, NEW s, NEW t2, NEW o2, NewList(t, o, s, t2, o2), SamePlace(t)
  PROVE  SamePlace(t2)
<1>1. /\ DOMAIN t2 = DOMAIN t \cup {s} /\ \A x \in DOMAIN t \ {s} : t2[x] = t[x]
      /\ IsInjective(t2[s])
  BY DEF NewList
<1> SUFFICES ASSUME NEW x \in DOMAIN t2, NEW y \in DOMAIN t2,
                    NEW i \in DOMAIN t2[x], NEW j \in DOMAIN t2[y], t2[x][i] = t2[y][j]
             PROVE  i = j
  BY DEF SamePlace
<1>2. CASE x = s /\ y = s
  BY <1>1, <1>2 DEF IsInjective
<1>3. CASE x # s /\ y # s
  BY <1>1, <1>3 DEF SamePlace
<1>4. CASE x = s /\ y # s
  <2>1. y \in DOMAIN t \ {s} /\ j \in DOMAIN t[y] /\ i \in DOMAIN t2[s] /\ t2[s][i] = t[y][j]
    BY <1>1, <1>4
  <2>2. s \in DOMAIN t /\ i \in DOMAIN t[s] /\ t[s][i] = t[y][j]
    BY <2>1, SharedIsOld
  <2> QED BY <2>1, <2>2 DEF SamePlace
<1>5. CASE x # s /\ y = s
  <2>1. x \in DOMAIN t \ {s} /\ i \in DOMAIN t[x] /\ j \in DOMAIN t2[s] /\ t2[s][j] = t[x][i]
    BY <1>1, <1>5
  <2>2. s \in DOMAIN t /\ j \in DOMAIN t[s] /\ t[s][j] = t[x][i]
    BY <2>1, SharedIsOld
  <2> QED BY <2>1, <2>2 DEF SamePlace
<1> QED BY <1>2, <1>3, <1>4, <1>5

\* And the forks of a sequence end no later than it.
LEMMA NewListForksEndFirst ==
  ASSUME NEW t, NEW o, NEW s, NEW t2, NEW o2, NewList(t, o, s, t2, o2), ForksEndFirst(t, o),
         \A x \in DOMAIN t : o[x] \in Nat
  PROVE  ForksEndFirst(t2, o2)
<1>1. /\ DOMAIN t2 = DOMAIN t \cup {s}
      /\ \A x \in DOMAIN t \ {s} : t2[x] = t[x] /\ o2[x] = o[x]
      /\ s \in DOMAIN t => (IF s \in SeqIds THEN o[s] \in Nat /\ o2[s] \in Nat /\ o[s] <= o2[s]
                                            ELSE o2[s] = o[s])
  BY DEF NewList
<1> SUFFICES ASSUME NEW x \in SeqIds \cap DOMAIN t2, NEW y \in DOMAIN t2 \ {x},
                    NEW i \in DOMAIN t2[x], NEW j \in DOMAIN t2[y], t2[x][i] = t2[y][j]
             PROVE  y \notin SeqIds /\ o2[y] <= o2[x]
  BY DEF ForksEndFirst
<1>2. CASE x # s /\ y # s
  BY <1>1, <1>2 DEF ForksEndFirst
<1>3. CASE x = s
  <2>1. y \in DOMAIN t \ {s} /\ j \in DOMAIN t[y] /\ i \in DOMAIN t2[s] /\ t2[s][i] = t[y][j]
    BY <1>1, <1>3
  <2>2. s \in DOMAIN t /\ i \in DOMAIN t[s] /\ t[s][i] = t[y][j]
    BY <2>1, SharedIsOld
  <2>3. y \notin SeqIds /\ o[y] <= o[s]
    BY <1>3, <2>1, <2>2 DEF ForksEndFirst
  <2>4. o[s] <= o2[s] /\ o[s] \in Nat /\ o2[s] \in Nat /\ o2[y] = o[y] /\ o[y] \in Nat
    BY <1>1, <1>3, <2>1, <2>2
  <2> QED BY <1>3, <2>3, <2>4
<1>4. CASE x # s /\ y = s
  <2>1. x \in DOMAIN t \ {s} /\ i \in DOMAIN t[x] /\ j \in DOMAIN t2[s] /\ t2[s][j] = t[x][i]
    BY <1>1, <1>4
  <2>2. s \in DOMAIN t /\ j \in DOMAIN t[s] /\ t[s][j] = t[x][i]
    BY <2>1, SharedIsOld
  <2>3. s \notin SeqIds /\ o[s] <= o[x]
    BY <2>1, <2>2 DEF ForksEndFirst
  <2> QED BY <1>1, <1>4, <2>1, <2>2, <2>3
<1> QED BY <1>2, <1>3, <1>4

------------------------------------------------------------------------------
(* Contents. *)

\* The tokens ts behind the end of s, and another user x.
Behind(t, o, cs, s, x, n, ts) ==
  /\ s \in DOMAIN t /\ x \in DOMAIN t \ {s} /\ n = o[s] /\ Fits(t[s], n, ts)
  /\ SamePlace(t) /\ ForksEndFirst(t, o) /\ TableOf(t[x], o[x])

\* What append_kv writes behind the end of a sequence no other user reads.
LEMMA AppendSparesOthers ==
  ASSUME NEW t, NEW o, NEW cs, NEW s \in SeqIds, NEW x, NEW n, NEW ts,
         Behind(t, o, cs, s, x, n, ts)
  PROVE  Read(t[x], o[x], Overwritten(cs, t[s], n, ts)) = Read(t[x], o[x], cs)
<1> SUFFICES ASSUME NEW i \in 1..o[x]
             PROVE  Overwritten(cs, t[s], n, ts)[BlockAt(t[x], i - 1)][(i - 1) % BlockSize]
                      = cs[BlockAt(t[x], i - 1)][(i - 1) % BlockSize]
  BY SameRead
<1> DEFINE b == BlockAt(t[x], i - 1)
           c == (i - 1) % BlockSize
<1>0. /\ s \in DOMAIN t /\ x \in DOMAIN t \ {s} /\ n = o[s] /\ Fits(t[s], n, ts)
      /\ SamePlace(t) /\ ForksEndFirst(t, o) /\ TableOf(t[x], o[x])
  BY DEF Behind
<1>1. /\ i - 1 \in Nat /\ i - 1 < o[x] /\ i - 1 < Len(t[x]) * BlockSize
      /\ t[x] \in Seq(Blocks) /\ o[x] \in Nat
  BY <1>0, BelowOffset
<1>2. b \in Blocks /\ c \in Cell /\ (i - 1) \div BlockSize + 1 \in DOMAIN t[x]
  BY <1>1, PositionInList
<1>3. ASSUME NEW j \in DOMAIN ts, BlockAt(t[s], n + j - 1) = b, (n + j - 1) % BlockSize = c
      PROVE  FALSE
  <2>1. /\ n + j - 1 \in Nat /\ n + j - 1 < Len(t[s]) * BlockSize /\ t[s] \in Seq(Blocks)
        /\ n \in Nat /\ j \in Nat /\ j >= 1
    BY <1>0 DEF Fits
  <2>2. (n + j - 1) \div BlockSize + 1 \in DOMAIN t[s]
    BY <2>1, PositionInList
  <2>3. t[s][(n + j - 1) \div BlockSize + 1] = t[x][(i - 1) \div BlockSize + 1]
    BY <1>3 DEF BlockAt
  <2>4. (n + j - 1) \div BlockSize + 1 = (i - 1) \div BlockSize + 1
    BY <1>0, <1>2, <2>2, <2>3 DEF SamePlace
  <2>5. o[x] <= n
    BY <1>0, <1>2, <2>2, <2>3 DEF ForksEndFirst
  <2>6. (n + j - 1) \div BlockSize \in Nat /\ (i - 1) \div BlockSize \in Nat
    BY <1>1, <2>1, DivMod, PagedAssumption
  <2>7. (n + j - 1) \div BlockSize = (i - 1) \div BlockSize
    BY <2>4, <2>6
  <2>8. n + j - 1 = i - 1
    BY <1>1, <1>3, <2>1, <2>7, OnePosition, PagedAssumption
  <2> QED BY <1>1, <2>1, <2>5, <2>8
<1> QED BY <1>2, <1>3, UntouchedCell

\* The sequence itself keeps the tokens it had.
LEMMA AppendKeepsOld ==
  ASSUME NEW cs, NEW bs, NEW more, NEW n, NEW ts, TableOf(bs, n), Fits(bs \o more, n, ts),
         more \in Seq(Blocks)
  PROVE  Read(bs \o more, n, Overwritten(cs, bs \o more, n, ts)) = Read(bs, n, cs)
<1> DEFINE cat == bs \o more
<1> SUFFICES ASSUME NEW i \in 1..n
             PROVE  Overwritten(cs, cat, n, ts)[BlockAt(cat, i - 1)][(i - 1) % BlockSize]
                      = cs[BlockAt(bs, i - 1)][(i - 1) % BlockSize]
  BY SameRead
<1>1. /\ i - 1 \in Nat /\ i - 1 < n /\ i - 1 < Len(bs) * BlockSize /\ bs \in Seq(Blocks)
      /\ n \in Nat
  BY BelowOffset
<1>2. (i - 1) \div BlockSize + 1 \in DOMAIN bs
  BY <1>1, PositionInList
<1>3. BlockAt(cat, i - 1) = BlockAt(bs, i - 1) /\ Len(cat) = Len(bs) + Len(more)
      /\ Len(bs) \in Nat /\ Len(more) \in Nat
  BY <1>1, <1>2, ConcatProperties DEF BlockAt
<1> HIDE DEF cat
<1>4. BlockAt(bs, i - 1) \in Blocks /\ (i - 1) % BlockSize \in Cell
  BY <1>1, PositionInList
<1>5. i - 1 < Len(cat) * BlockSize
  <2>1. (Len(bs) + Len(more)) * BlockSize = Len(bs) * BlockSize + Len(more) * BlockSize
        /\ Len(more) * BlockSize \in Nat /\ Len(bs) * BlockSize \in Nat
    BY <1>3, PagedAssumption
  <2> QED BY <1>1, <1>3, <2>1
<1>6. ASSUME NEW j \in DOMAIN ts, BlockAt(cat, n + j - 1) = BlockAt(bs, i - 1),
             (n + j - 1) % BlockSize = (i - 1) % BlockSize
      PROVE  FALSE
  <2>1. /\ n + j - 1 \in Nat /\ n + j - 1 < Len(cat) * BlockSize /\ cat \in Seq(Blocks)
        /\ IsInjective(cat) /\ j \in Nat /\ j >= 1
    BY DEF Fits, cat
  <2>2. n + j - 1 = i - 1
    BY <1>1, <1>3, <1>5, <1>6, <2>1, DistinctCells
  <2> QED BY <1>1, <2>1, <2>2
<1> QED BY <1>3, <1>4, <1>6, UntouchedCell

\* And reads the appended tokens behind them.
LEMMA AppendAddsTokens ==
  ASSUME NEW cs, NEW bs, NEW more, NEW n, NEW ts \in Seq(Tokens), TableOf(bs, n),
         Fits(bs \o more, n, ts), more \in Seq(Blocks)
  PROVE  Read(bs \o more, n + Len(ts), Overwritten(cs, bs \o more, n, ts))
           = Read(bs, n, cs) \o ts
<1> DEFINE cat == bs \o more
           cs2 == Overwritten(cs, cat, n, ts)
           old == Read(bs, n, cs)
           new == Read(cat, n + Len(ts), cs2)
           V == {old[i] : i \in 1..n} \cup Tokens
<1>1. n \in Nat /\ Len(ts) \in Nat /\ DOMAIN ts = 1..Len(ts)
  BY DEF Fits
<1>2. old \in Seq(V) /\ Len(old) = n /\ DOMAIN old = 1..n
  <2>1. old \in [1..n -> V] /\ DOMAIN old = 1..n
    BY DEF Read
  <2> HIDE DEF old, V
  <2> QED BY <1>1, <2>1
<1>3. ts \in Seq(V)
  <2>1. Tokens \subseteq V
    OBVIOUS
  <2> HIDE DEF V
  <2> QED BY <2>1
<1>4. Read(cat, n, cs2) = old
  BY AppendKeepsOld
<1>5. \A i \in 1..n : cs2[BlockAt(cat, i - 1)][(i - 1) % BlockSize] = old[i]
  <2> SUFFICES ASSUME NEW i \in 1..n
               PROVE  cs2[BlockAt(cat, i - 1)][(i - 1) % BlockSize] = old[i]
    OBVIOUS
  <2>1. Read(cat, n, cs2)[i] = cs2[BlockAt(cat, i - 1)][(i - 1) % BlockSize]
    BY DEF Read
  <2> HIDE DEF cat, cs2, old
  <2> QED BY <1>4, <2>1
<1>6. \A j \in DOMAIN ts : cs2[BlockAt(cat, n + j - 1)][(n + j - 1) % BlockSize] = ts[j]
  BY WrittenCell
<1>7. new = [i \in 1..n + Len(ts) |-> cs2[BlockAt(cat, i - 1)][(i - 1) % BlockSize]]
  BY DEF Read
<1> HIDE DEF cat, cs2, old, new, V
<1>8. \A i \in 1..n + Len(ts) : new[i] = IF i <= n THEN old[i] ELSE ts[i - n]
  <2> SUFFICES ASSUME NEW i \in 1..n + Len(ts)
               PROVE  new[i] = IF i <= n THEN old[i] ELSE ts[i - n]
    OBVIOUS
  <2>1. new[i] = cs2[BlockAt(cat, i - 1)][(i - 1) % BlockSize]
    BY <1>7
  <2>2. CASE i <= n
    <3>1. i \in 1..n
      BY <1>1, <2>2
    <3> QED BY <1>5, <2>1, <2>2, <3>1
  <2>3. CASE ~(i <= n)
    <3>1. PICK j : j = i - n
      OBVIOUS
    <3>2. j \in DOMAIN ts /\ n + j = i
      BY <1>1, <2>3, <3>1
    <3>3. n + j - 1 = i - 1
      BY <1>1, <3>2
    <3>4. cs2[BlockAt(cat, i - 1)][(i - 1) % BlockSize] = ts[j]
      BY <1>6, <3>2, <3>3
    <3> QED BY <2>1, <2>3, <3>1, <3>4
  <2> QED BY <2>2, <2>3
<1>9. /\ old \o ts \in Seq(V) /\ Len(old \o ts) = n + Len(ts)
      /\ \A i \in 1..n + Len(ts) : (old \o ts)[i] = IF i <= n THEN old[i] ELSE ts[i - n]
  BY <1>2, <1>3, ConcatProperties
<1>10. PICK u : u = old \o ts
  OBVIOUS
<1>11. u \in Seq(V) /\ DOMAIN u = 1..n + Len(ts)
  BY <1>9, <1>10
<1>12. u = [i \in 1..n + Len(ts) |-> u[i]]
  BY <1>11
<1>13. \A i \in 1..n + Len(ts) : new[i] = u[i]
  BY <1>8, <1>9, <1>10
<1>14. new = u
  BY <1>7, <1>12, <1>13
<1> QED BY <1>10, <1>14 DEF new, cat, cs2, old

\* A call that changes one block spares the users that do not have it.
LEMMA BlockSparesOthers ==
  ASSUME NEW bs, NEW n, TableOf(bs, n), NEW b, b \notin SetOf(bs), NEW cs, NEW cs2,
         \A d \in Blocks \ {b} : cs2[d] = cs[d]
  PROVE  Read(bs, n, cs2) = Read(bs, n, cs)
<1> SUFFICES ASSUME NEW i \in 1..n
             PROVE  cs2[BlockAt(bs, i - 1)][(i - 1) % BlockSize]
                      = cs[BlockAt(bs, i - 1)][(i - 1) % BlockSize]
  BY SameRead
<1>1. i - 1 \in Nat /\ i - 1 < Len(bs) * BlockSize /\ bs \in Seq(Blocks)
  BY BelowOffset
<1>2. BlockAt(bs, i - 1) \in Blocks /\ BlockAt(bs, i - 1) \in SetOf(bs)
  BY <1>1, PositionInList
<1> QED BY <1>2

ChangedAt(bs, bs2, n, p, t, cs, cs2) ==
  \A q \in 0..n - 1 : cs2[BlockAt(bs2, q)][q % BlockSize]
                        = IF q = p THEN t ELSE cs[BlockAt(bs, q)][q % BlockSize]

\* One position changes, the others do not.
LEMMA OneTokenChanged ==
  ASSUME NEW bs, NEW bs2, NEW n \in Nat, NEW p \in Nat, p < n, NEW t, NEW cs, NEW cs2,
         ChangedAt(bs, bs2, n, p, t, cs, cs2)
  PROVE  Read(bs2, n, cs2) = [Read(bs, n, cs) EXCEPT ![p + 1] = t]
<1> SUFFICES ASSUME NEW i \in 1..n
             PROVE  Read(bs2, n, cs2)[i] = IF i = p + 1 THEN t ELSE Read(bs, n, cs)[i]
  BY DEF Read
<1>1. PICK q \in 0..n - 1 : q = i - 1
  OBVIOUS
<1>2. Read(bs2, n, cs2)[i] = cs2[BlockAt(bs2, q)][q % BlockSize]
  BY <1>1 DEF Read
<1>3. Read(bs, n, cs)[i] = cs[BlockAt(bs, q)][q % BlockSize]
  BY <1>1 DEF Read
<1>4. q = p <=> i = p + 1
  BY <1>1
<1>5. cs2[BlockAt(bs2, q)][q % BlockSize]
        = IF q = p THEN t ELSE cs[BlockAt(bs, q)][q % BlockSize]
  BY DEF ChangedAt
<1> QED BY <1>5, <1>2, <1>3, <1>4

\* A write into the block b of position p; one into a copy of it, which takes its place.
WrittenInPlace(bs, n, p, t, cs, cs2, b) ==
  /\ TableOf(bs, n) /\ p < n /\ Shaped(cs) /\ b = BlockAt(bs, p)
  /\ cs2 = [cs EXCEPT ![b][p % BlockSize] = t]
WrittenToCopy(bs, bs2, n, p, t, cs, cs2, b, c) ==
  /\ TableOf(bs, n) /\ p < n /\ Shaped(cs) /\ b = BlockAt(bs, p) /\ c \notin SetOf(bs)
  /\ bs2 = [bs EXCEPT ![p \div BlockSize + 1] = c]
  /\ cs2 = [cs EXCEPT ![c] = [cs[b] EXCEPT ![p % BlockSize] = t]]

\* A fork that has its block alone writes its token into it.
LEMMA RewriteInPlace ==
  ASSUME NEW bs, NEW n, NEW p \in Nat, NEW t, NEW cs, NEW cs2, NEW b,
         WrittenInPlace(bs, n, p, t, cs, cs2, b)
  PROVE  /\ Read(bs, n, cs2) = [Read(bs, n, cs) EXCEPT ![p + 1] = t]
         /\ Shaped(cs2)
<1>0. /\ TableOf(bs, n) /\ p < n /\ Shaped(cs) /\ b = BlockAt(bs, p)
      /\ cs2 = [cs EXCEPT ![b][p % BlockSize] = t]
  BY DEF WrittenInPlace
<1>1. n \in Nat /\ bs \in Seq(Blocks) /\ IsInjective(bs)
      /\ \A q \in 0..n - 1 : q \in Nat /\ q < Len(bs) * BlockSize
  <2>1. bs \in Seq(Blocks) /\ IsInjective(bs) /\ n \in 0..Len(bs) * BlockSize
    BY <1>0 DEF TableOf
  <2>2. Len(bs) * BlockSize \in Nat
    BY <2>1, PagedAssumption
  <2> QED BY <2>1, <2>2
<1>2. \A q \in 0..n - 1 : cs2[BlockAt(bs, q)][q % BlockSize]
                            = IF q = p THEN t ELSE cs[BlockAt(bs, q)][q % BlockSize]
  <2> SUFFICES ASSUME NEW q \in 0..n - 1
               PROVE  cs2[BlockAt(bs, q)][q % BlockSize]
                        = IF q = p THEN t ELSE cs[BlockAt(bs, q)][q % BlockSize]
    OBVIOUS
  <2>1. p \in 0..n - 1
    BY <1>0, <1>1
  <2>2. BlockAt(bs, q) \in Blocks /\ q % BlockSize \in Cell /\ b \in Blocks /\ p % BlockSize \in Cell
    BY <1>0, <1>1, <2>1, PositionInList
  <2>3. BlockAt(bs, q) = b /\ q % BlockSize = p % BlockSize => q = p
    BY <1>0, <1>1, <2>1, DistinctCells
  <2>4. cs2[BlockAt(bs, q)][q % BlockSize]
          = IF BlockAt(bs, q) = b /\ q % BlockSize = p % BlockSize THEN t
            ELSE cs[BlockAt(bs, q)][q % BlockSize]
    BY <1>0, <2>2 DEF Shaped
  <2> QED BY <1>0, <2>3, <2>4
<1>3. Shaped(cs2)
  BY <1>0 DEF Shaped
<1>4. ChangedAt(bs, bs, n, p, t, cs, cs2)
  BY <1>2 DEF ChangedAt
<1>5. Read(bs, n, cs2) = [Read(bs, n, cs) EXCEPT ![p + 1] = t]
  <2>1. n \in Nat /\ p < n
    BY <1>0, <1>1
  <2> QED BY <1>4, <2>1, OneTokenChanged
<1> QED BY <1>3, <1>5

\* A fork that shares the block writes its token into the copy.
LEMMA RewriteCopy ==
  ASSUME NEW bs, NEW bs2, NEW n, NEW p \in Nat, NEW t, NEW cs, NEW cs2, NEW b,
         NEW c \in Blocks, WrittenToCopy(bs, bs2, n, p, t, cs, cs2, b, c)
  PROVE  /\ Read(bs2, n, cs2) = [Read(bs, n, cs) EXCEPT ![p + 1] = t]
         /\ Shaped(cs2)
<1>0. /\ TableOf(bs, n) /\ p < n /\ Shaped(cs) /\ b = BlockAt(bs, p) /\ c \notin SetOf(bs)
      /\ bs2 = [bs EXCEPT ![p \div BlockSize + 1] = c]
      /\ cs2 = [cs EXCEPT ![c] = [cs[b] EXCEPT ![p % BlockSize] = t]]
  BY DEF WrittenToCopy
<1>1. n \in Nat /\ bs \in Seq(Blocks) /\ IsInjective(bs)
      /\ \A q \in 0..n - 1 : q \in Nat /\ q < Len(bs) * BlockSize
  <2>1. bs \in Seq(Blocks) /\ IsInjective(bs) /\ n \in 0..Len(bs) * BlockSize
    BY <1>0 DEF TableOf
  <2>2. Len(bs) * BlockSize \in Nat
    BY <2>1, PagedAssumption
  <2> QED BY <2>1, <2>2
<1>2. p \in 0..n - 1 /\ b \in Blocks /\ p % BlockSize \in Cell
  <2>1. p \in 0..n - 1
    BY <1>0, <1>1
  <2> QED BY <1>0, <1>1, <2>1, PositionInList
<1>3. \A q \in 0..n - 1 : cs2[BlockAt(bs2, q)][q % BlockSize]
                            = IF q = p THEN t ELSE cs[BlockAt(bs, q)][q % BlockSize]
  <2> SUFFICES ASSUME NEW q \in 0..n - 1
               PROVE  cs2[BlockAt(bs2, q)][q % BlockSize]
                        = IF q = p THEN t ELSE cs[BlockAt(bs, q)][q % BlockSize]
    OBVIOUS
  <2>1. /\ BlockAt(bs, q) \in Blocks /\ BlockAt(bs, q) \in SetOf(bs) /\ q % BlockSize \in Cell
        /\ q \div BlockSize + 1 \in DOMAIN bs
    BY <1>1, PositionInList
  <2>2. q \div BlockSize \in Nat /\ p \div BlockSize \in Nat
    BY <1>1, DivMod, PagedAssumption
  <2>3. CASE q \div BlockSize = p \div BlockSize
    <3>1. BlockAt(bs2, q) = c /\ BlockAt(bs, q) = b
      BY <1>0, <2>1, <2>3 DEF BlockAt
    <3>2. cs2[c] = [cs[b] EXCEPT ![p % BlockSize] = t]
      BY <1>0 DEF Shaped
    <3>3. cs2[c][q % BlockSize] = IF q % BlockSize = p % BlockSize THEN t
                                  ELSE cs[b][q % BlockSize]
      BY <1>0, <1>2, <2>1, <3>2 DEF Shaped
    <3>4. q % BlockSize = p % BlockSize => q = p
      BY <1>1, <2>3, OnePosition, PagedAssumption
    <3> QED BY <3>1, <3>3, <3>4
  <2>4. CASE q \div BlockSize # p \div BlockSize
    <3>1. BlockAt(bs2, q) = BlockAt(bs, q)
      BY <1>0, <2>1, <2>2, <2>4 DEF BlockAt
    <3>2. cs2[BlockAt(bs, q)] = cs[BlockAt(bs, q)]
      BY <1>0, <2>1 DEF Shaped
    <3>3. q # p
      BY <2>4
    <3> QED BY <3>1, <3>2, <3>3
  <2> QED BY <2>3, <2>4
<1>4. Shaped(cs2)
  BY <1>0, <1>2 DEF Shaped
<1>5. ChangedAt(bs, bs2, n, p, t, cs, cs2)
  BY <1>3 DEF ChangedAt
<1>6. Read(bs2, n, cs2) = [Read(bs, n, cs) EXCEPT ![p + 1] = t]
  <2>1. n \in Nat /\ p < n
    BY <1>0, <1>1
  <2> QED BY <1>5, <2>1, OneTokenChanged
<1> QED BY <1>4, <1>6

------------------------------------------------------------------------------
(* The steps. *)

\* What the invariant says of a user.
LEMMA UserFacts ==
  ASSUME RInv
  PROVE  /\ DOMAIN offset = DOMAIN table /\ IsFiniteSet(DOMAIN table)
         /\ \A x \in DOMAIN table : TableOf(table[x], offset[x]) /\ offset[x] \in Nat
         /\ SamePlace(table) /\ ForksEndFirst(table, offset) /\ Shaped(cells)
         /\ Sound(pool) /\ Exact(pool, table, forgotten) /\ forgotten \in [Blocks -> Nat]
<1>1. /\ DOMAIN offset = DOMAIN table /\ IsFiniteSet(DOMAIN table)
      /\ \A x \in DOMAIN table : TableOf(table[x], offset[x])
      /\ Sound(pool) /\ Exact(pool, table, forgotten) /\ forgotten \in [Blocks -> Nat]
  BY DEF RInv, IInv, Tables
<1>2. ASSUME NEW x \in DOMAIN table PROVE offset[x] \in Nat
  <2>1. table[x] \in Seq(Blocks) /\ offset[x] \in 0..Len(table[x]) * BlockSize
    BY <1>1 DEF TableOf
  <2>2. Len(table[x]) * BlockSize \in Nat
    BY <2>1, PagedAssumption
  <2> QED BY <2>1, <2>2
<1> QED BY <1>1, <1>2 DEF RInv, Good

\* allocate_sequence starts an empty sequence.
LEMMA AllocateStep ==
  ASSUME RInv, NEW s \in SeqIds, AllocateSequence(s)
  PROVE  /\ Good(table', offset', cells')
         /\ Contents(table', offset', cells') = With(Contents(table, offset, cells), s, << >>)
<1>1. PICK n \in 0..MaxInitial : \E S \in Allocations(pool, n) : \E bs \in Lists(S) :
        table' = With(table, s, bs)
  BY DEF AllocateSequence
<1>2. PICK S \in Allocations(pool, n) : \E bs \in Lists(S) : table' = With(table, s, bs)
  BY <1>1
<1>3. PICK bs \in Lists(S) : table' = With(table, s, bs)
  BY <1>2
<1>4. offset' = With(offset, s, 0) /\ cells' = cells
  BY DEF AllocateSequence
<1>5. S \in SUBSET FreeBlocks(pool) /\ S \in SUBSET Blocks
  BY DEF Allocations, FreeBlocks
<1>6. bs \in Seq(Blocks) /\ IsInjective(bs) /\ SetOf(bs) = S
  BY <1>5, ListOfBlocks
<1>7. /\ DOMAIN table' = DOMAIN table \cup {s} /\ table'[s] = bs /\ offset'[s] = 0
      /\ \A x \in DOMAIN table \ {s} : table'[x] = table[x] /\ offset'[x] = offset[x]
  BY <1>3, <1>4, UserFacts DEF With
<1>8. \A j \in DOMAIN bs : Users(table, bs[j]) = {}
  <2> SUFFICES ASSUME NEW j \in DOMAIN bs PROVE Users(table, bs[j]) = {}
    OBVIOUS
  <2>1. bs[j] \in FreeBlocks(pool)
    BY <1>5, <1>6 DEF SetOf
  <2> QED BY <2>1, FreshBlock, UserFacts
<1> DEFINE old == IF s \in DOMAIN table THEN offset[s] ELSE 0
<1>9. SamePlace(table')
  <2>1. PICK o : o = [offset' EXCEPT ![s] = old]
    OBVIOUS
  <2>2. DOMAIN offset' = DOMAIN table \cup {s}
    BY <1>4, UserFacts DEF With
  <2>3. o[s] = old /\ \A x \in DOMAIN table \ {s} : o[x] = offset[x]
    BY <1>7, <2>1, <2>2
  <2>4. NewList(table, offset, s, table', o)
    BY <1>6, <1>7, <1>8, <2>3, UserFacts DEF NewList
  <2> QED BY <2>4, NewListSamePlace, UserFacts
<1>10. ForksEndFirst(table', offset')
  <2> SUFFICES ASSUME NEW x \in SeqIds \cap DOMAIN table', NEW y \in DOMAIN table' \ {x},
                      NEW i \in DOMAIN table'[x], NEW j \in DOMAIN table'[y],
                      table'[x][i] = table'[y][j]
               PROVE  y \notin SeqIds /\ offset'[y] <= offset'[x]
    BY DEF ForksEndFirst
  <2>1. CASE x # s /\ y # s
    BY <1>7, <2>1, UserFacts DEF ForksEndFirst
  <2>2. CASE x = s
    <3>1. y \in Users(table, bs[i])
      BY <1>7, <2>2 DEF Users, SetOf
    <3> QED BY <1>7, <1>8, <2>2, <3>1
  <2>3. CASE y = s /\ x # s
    <3>1. x \in Users(table, bs[j])
      BY <1>7, <2>3 DEF Users, SetOf
    <3> QED BY <1>7, <1>8, <2>3, <3>1
  <2> QED BY <2>1, <2>2, <2>3
<1>11. Good(table', offset', cells')
  BY <1>4, <1>9, <1>10, UserFacts DEF Good
<1>12. Read(table'[s], offset'[s], cells') = << >>
  BY <1>7 DEF Read
<1>13. Contents(table', offset', cells')
         = [x \in DOMAIN table \cup {s} |-> IF x = s THEN Read(table'[s], offset'[s], cells')
                                            ELSE Contents(table, offset, cells)[x]]
  BY <1>4, <1>7 DEF Contents
<1>14. DOMAIN Contents(table, offset, cells) = DOMAIN table
  BY DEF Contents
<1> QED BY <1>11, <1>12, <1>13, <1>14 DEF With

\* free_sequence, and a fork that ends, remove one user.
LEMMA DropStep ==
  ASSUME RInv, NEW x \in Used, Dropped(x), cells' = cells
  PROVE  /\ Good(table', offset', cells')
         /\ Contents(table', offset', cells')
              = Restrict(Contents(table, offset, cells),
                         DOMAIN Contents(table, offset, cells) \ {x})
<1>1. table' = Restrict(table, DOMAIN table \ {x}) /\ offset' = Restrict(offset, DOMAIN table \ {x})
  <2>1. \A b \in SetOf(table[x]) : pool.refcount[b] > 0
    BY TableIsHeld DEF RInv, IInv, Used
  <2> QED BY <2>1 DEF Dropped, Held, Used
<1>2. /\ DOMAIN table' = DOMAIN table \ {x}
      /\ \A y \in DOMAIN table \ {x} : table'[y] = table[y] /\ offset'[y] = offset[y]
  BY <1>1, UserFacts DEF Restrict
<1>3. SamePlace(table')
  BY <1>2, UserFacts DEF SamePlace
<1>4. ForksEndFirst(table', offset')
  BY <1>2, UserFacts DEF ForksEndFirst
<1>5. Good(table', offset', cells')
  BY <1>3, <1>4, UserFacts DEF Good
<1> QED BY <1>2, <1>5 DEF Contents, Restrict

\* A fork starts with the tokens of its sequence.
LEMMA ShareStep ==
  ASSUME RInv, NEW f \in Forks, NEW s \in SeqIds, Share(f, s)
  PROVE  /\ Good(table', offset', cells')
         /\ s \in DOMAIN Contents(table, offset, cells)
         /\ Contents(table', offset', cells')
              = With(Contents(table, offset, cells), f, Contents(table, offset, cells)[s])
<1>1. /\ table' = With(table, f, table[s]) /\ offset' = With(offset, f, offset[s])
      /\ cells' = cells /\ s \in DOMAIN table /\ f \notin DOMAIN table
  BY DEF Share, Used
<1>2. /\ DOMAIN table' = DOMAIN table \cup {f} /\ table'[f] = table[s] /\ offset'[f] = offset[s]
      /\ \A x \in DOMAIN table \ {f} : table'[x] = table[x] /\ offset'[x] = offset[x]
      /\ f \notin SeqIds /\ f # s
  BY <1>1, UserFacts, PagedAssumption DEF With
<1>3. SamePlace(table')
  <2> SUFFICES ASSUME NEW x \in DOMAIN table', NEW y \in DOMAIN table',
                      NEW i \in DOMAIN table'[x], NEW j \in DOMAIN table'[y],
                      table'[x][i] = table'[y][j]
               PROVE  i = j
    BY DEF SamePlace
  <2>1. PICK u \in DOMAIN table : u = (IF x = f THEN s ELSE x)
    BY <1>1, <1>2
  <2>2. PICK v \in DOMAIN table : v = (IF y = f THEN s ELSE y)
    BY <1>1, <1>2
  <2>3. table[u] = table'[x] /\ table[v] = table'[y]
    BY <1>2, <2>1, <2>2
  <2> QED BY <2>3, UserFacts DEF SamePlace
<1>4. ForksEndFirst(table', offset')
  <2> SUFFICES ASSUME NEW x \in SeqIds \cap DOMAIN table', NEW y \in DOMAIN table' \ {x},
                      NEW i \in DOMAIN table'[x], NEW j \in DOMAIN table'[y],
                      table'[x][i] = table'[y][j]
               PROVE  y \notin SeqIds /\ offset'[y] <= offset'[x]
    BY DEF ForksEndFirst
  <2>1. x \in SeqIds \cap DOMAIN table /\ table'[x] = table[x] /\ offset'[x] = offset[x]
    BY <1>2
  <2>2. CASE y # f
    BY <1>2, <2>1, <2>2, UserFacts DEF ForksEndFirst
  <2>3. CASE y = f /\ x = s
    BY <1>1, <1>2, <2>1, <2>3, UserFacts
  <2>4. CASE y = f /\ x # s
    <3>1. s \in DOMAIN table \ {x} /\ j \in DOMAIN table[s] /\ i \in DOMAIN table[x]
          /\ table[x][i] = table[s][j]
      BY <1>1, <1>2, <2>1, <2>4
    <3> QED BY <2>1, <3>1, UserFacts DEF ForksEndFirst
  <2> QED BY <2>2, <2>3, <2>4
<1>5. Good(table', offset', cells')
  BY <1>1, <1>3, <1>4, UserFacts DEF Good
<1> QED BY <1>1, <1>2, <1>5 DEF Contents, With

\* An append that gets the n blocks "more" and writes the tokens ts into what it has then.
Extended(s, n, more, ts) ==
  /\ s \in Used
  /\ table' = [table EXCEPT ![s] = table[s] \o more]
  /\ cells' = Overwritten(cells, table[s] \o more, offset[s], ts)
  /\ offset'[s] \in Nat /\ offset[s] <= offset'[s]
  /\ \A x \in DOMAIN offset \ {s} : offset'[x] = offset[x]
  /\ \A i \in DOMAIN ts : i \in Nat /\ i >= 1 /\ offset[s] + i - 1 \in Nat
       /\ offset[s] + i - 1 < (Len(table[s]) + n) * BlockSize

\* It shares nothing new and spares the other users.
LEMMA ExtendStep ==
  ASSUME RInv, NEW s \in SeqIds, NEW n \in Nat,
         NEW S \in Allocations(pool, n), NEW more \in Lists(S), NEW ts,
         Extended(s, n, more, ts)
  PROVE  /\ Good(table', offset', cells')
         /\ Fits(table[s] \o more, offset[s], ts) /\ more \in Seq(Blocks)
         /\ TableOf(table[s], offset[s])
         /\ Contents(table', offset', cells')
              = [Contents(table, offset, cells) EXCEPT
                   ![s] = Read(table[s] \o more, offset'[s], cells')]
<1>0. /\ s \in Used
      /\ table' = [table EXCEPT ![s] = table[s] \o more]
      /\ cells' = Overwritten(cells, table[s] \o more, offset[s], ts)
      /\ offset'[s] \in Nat /\ offset[s] <= offset'[s]
      /\ \A x \in DOMAIN offset \ {s} : offset'[x] = offset[x]
      /\ \A i \in DOMAIN ts : i \in Nat /\ i >= 1 /\ offset[s] + i - 1 \in Nat
           /\ offset[s] + i - 1 < (Len(table[s]) + n) * BlockSize
  BY DEF Extended
<1>1. S \in SUBSET FreeBlocks(pool) /\ S \in SUBSET Blocks /\ Cardinality(S) = n
  BY DEF Allocations, FreeBlocks
<1>2. more \in Seq(Blocks) /\ IsInjective(more) /\ SetOf(more) = S /\ Len(more) = n
  BY <1>1, ListOfBlocks
<1>3. /\ s \in DOMAIN table /\ table[s] \in Seq(Blocks) /\ IsInjective(table[s])
      /\ TableOf(table[s], offset[s]) /\ offset[s] \in Nat
  BY <1>0, UserFacts DEF Used, TableOf
<1>4. \A b \in S : Users(table, b) = {}
  BY <1>1, FreshBlock, UserFacts
<1>5. SetOf(table[s]) \cap SetOf(more) = {}
  BY <1>2, <1>3, <1>4 DEF Users
<1>6. PICK new : new = table[s] \o more
  OBVIOUS
<1>7. /\ new \in Seq(Blocks) /\ IsInjective(new) /\ Len(new) = Len(table[s]) + n
  BY <1>2, <1>3, <1>5, <1>6, ContinuedList
<1>8. \A j \in DOMAIN new : \/ Users(table, new[j]) = {}
                            \/ j \in DOMAIN table[s] /\ new[j] = table[s][j]
  <2> SUFFICES ASSUME NEW j \in DOMAIN new, j \notin DOMAIN table[s] \/ new[j] # table[s][j]
               PROVE  Users(table, new[j]) = {}
    OBVIOUS
  <2>1. PICK k \in 1..Len(table[s]) + Len(more) : k = j
    BY <1>2, <1>7
  <2>2. new[k] = IF k <= Len(table[s]) THEN table[s][k] ELSE more[k - Len(table[s])]
    BY <1>2, <1>3, <1>6, ConcatProperties
  <2>3. Len(table[s]) \in Nat /\ DOMAIN table[s] = 1..Len(table[s]) /\ Len(more) \in Nat
        /\ DOMAIN more = 1..Len(more)
    BY <1>2, <1>3
  <2>4. ~(k <= Len(table[s]))
    BY <2>1, <2>2, <2>3
  <2>5. k - Len(table[s]) \in DOMAIN more /\ new[j] = more[k - Len(table[s])]
    BY <2>1, <2>2, <2>3, <2>4
  <2>6. new[j] \in S
    BY <1>2, <2>5 DEF SetOf
  <2> QED BY <1>4, <2>6
<1>9. /\ DOMAIN table' = DOMAIN table /\ table'[s] = new
      /\ \A x \in DOMAIN table \ {s} : table'[x] = table[x]
  BY <1>0, <1>3, <1>6
<1>10. NewList(table, offset, s, table', offset) /\ NewList(table, offset, s, table', offset')
  <2>1. IsInjective(table'[s]) /\ DOMAIN table' = DOMAIN table \cup {s}
    BY <1>3, <1>7, <1>9
  <2>2. \A j \in DOMAIN table'[s] :
          \/ Users(table, table'[s][j]) = {}
          \/ s \in DOMAIN table /\ j \in DOMAIN table[s] /\ table'[s][j] = table[s][j]
    BY <1>3, <1>8, <1>9
  <2>3. \A x \in DOMAIN table \ {s} : table'[x] = table[x] /\ offset'[x] = offset[x]
    BY <1>0, <1>9, UserFacts
  <2>4. NewList(table, offset, s, table', offset)
    BY <1>3, <2>1, <2>2, <2>3 DEF NewList
  <2>5. NewList(table, offset, s, table', offset')
    BY <1>0, <1>3, <2>1, <2>2, <2>3 DEF NewList
  <2> QED BY <2>4, <2>5
<1>11. SamePlace(table') /\ ForksEndFirst(table', offset) /\ ForksEndFirst(table', offset')
  BY <1>10, NewListSamePlace, NewListForksEndFirst, UserFacts
<1>12. Fits(new, offset[s], ts)
  BY <1>0, <1>3, <1>7 DEF Fits
<1>13. cells' = Overwritten(cells, new, offset[s], ts)
  BY <1>0, <1>6
<1>14. \A x \in DOMAIN table \ {s} : Read(table[x], offset[x], cells') = Read(table[x], offset[x], cells)
  <2> SUFFICES ASSUME NEW x \in DOMAIN table \ {s}
               PROVE  Read(table[x], offset[x], cells') = Read(table[x], offset[x], cells)
    OBVIOUS
  <2>1. PICK t : t = table'
    OBVIOUS
  <2>2. Behind(t, offset, cells, s, x, offset[s], ts)
    BY <1>3, <1>9, <1>11, <1>12, <2>1, UserFacts DEF Behind
  <2>3. Read(t[x], offset[x], Overwritten(cells, t[s], offset[s], ts))
          = Read(t[x], offset[x], cells)
    <3>1. PICK o, n0, cs : o = offset /\ n0 = offset[s] /\ cs = cells
      OBVIOUS
    <3>2. Behind(t, o, cs, s, x, n0, ts)
      BY <2>2, <3>1
    <3>3. Read(t[x], o[x], Overwritten(cs, t[s], n0, ts)) = Read(t[x], o[x], cs)
      BY <3>2, AppendSparesOthers
    <3> QED BY <3>1, <3>3
  <2>4. t[x] = table[x] /\ t[s] = new
    BY <1>9, <2>1
  <2> QED BY <1>13, <2>3, <2>4
<1>15. Shaped(cells')
  BY <1>13, OverwrittenShaped
<1>16. Good(table', offset', cells')
  BY <1>11, <1>15 DEF Good
<1>17. Contents(table', offset', cells')
         = [Contents(table, offset, cells) EXCEPT ![s] = Read(new, offset'[s], cells')]
  BY <1>0, <1>3, <1>9, <1>14, UserFacts DEF Contents
<1> QED BY <1>2, <1>3, <1>6, <1>12, <1>16, <1>17

\* What such a call does to the cells: it writes tokens through blocks they fit in.
Writes(s) ==
  \E bs, ts : /\ Fits(bs, offset[s], ts) /\ \A i \in DOMAIN ts : ts[i] \in Tokens
              /\ cells' = Overwritten(cells, bs, offset[s], ts)

\* append_kv adds its tokens to its sequence.
LEMMA AppendStep ==
  ASSUME RInv, NEW s \in SeqIds, NEW ts \in Appends, AppendKV(s, ts)
  PROVE  /\ Good(table', offset', cells')
         /\ Writes(s)
         /\ Contents(table', offset', cells')
              = [Contents(table, offset, cells) EXCEPT ![s] = @ \o ts]
<1>1. ts \in Seq(Tokens) /\ Len(ts) \in Nat /\ DOMAIN ts = 1..Len(ts)
  BY PagedAssumption DEF Appends, BoundedSeq, SeqOf
<1>2. /\ s \in Used /\ s \in DOMAIN table /\ offset' = [offset EXCEPT ![s] = offset[s] + Len(ts)]
  BY DEF AppendKV, Used
<1>3. PICK S \in Allocations(pool, Missing(s, Len(ts))) : \E more \in Lists(S) :
        /\ table' = [table EXCEPT ![s] = table[s] \o more]
        /\ cells' = Written(table[s] \o more, offset[s], ts)
  BY DEF AppendKV
<1>4. PICK more \in Lists(S) :
        /\ table' = [table EXCEPT ![s] = table[s] \o more]
        /\ cells' = Written(table[s] \o more, offset[s], ts)
  BY <1>3
<1>5. cells' = Overwritten(cells, table[s] \o more, offset[s], ts)
  BY <1>4 DEF Written, Overwritten
<1>6. offset[s] \in Nat /\ Len(table[s]) \in Nat /\ TableOf(table[s], offset[s])
  BY <1>2, UserFacts DEF TableOf
<1>7. /\ Missing(s, Len(ts)) \in Nat
      /\ offset[s] + Len(ts) \in 0..(Len(table[s]) + Missing(s, Len(ts))) * BlockSize
  BY <1>1, <1>2, <1>6, MissingIsEnough
<1>8. (Len(table[s]) + Missing(s, Len(ts))) * BlockSize \in Nat
  BY <1>6, <1>7, PagedAssumption
<1>9. \A i \in DOMAIN ts : i \in Nat /\ i >= 1 /\ offset[s] + i - 1 \in Nat
        /\ offset[s] + i - 1 < (Len(table[s]) + Missing(s, Len(ts))) * BlockSize
  BY <1>1, <1>6, <1>7, <1>8
<1>10. /\ offset'[s] = offset[s] + Len(ts)
       /\ \A x \in DOMAIN offset \ {s} : offset'[x] = offset[x]
  BY <1>2, UserFacts
<1>11. offset'[s] \in Nat /\ offset[s] <= offset'[s]
  BY <1>1, <1>6, <1>10
<1>12. Extended(s, Missing(s, Len(ts)), more, ts)
  BY <1>2, <1>4, <1>5, <1>9, <1>10, <1>11 DEF Extended
<1>13. /\ Good(table', offset', cells')
       /\ Fits(table[s] \o more, offset[s], ts) /\ more \in Seq(Blocks)
       /\ Contents(table', offset', cells')
            = [Contents(table, offset, cells) EXCEPT
                 ![s] = Read(table[s] \o more, offset'[s], cells')]
  BY <1>7, <1>12, ExtendStep
<1>14. Read(table[s] \o more, offset[s] + Len(ts),
            Overwritten(cells, table[s] \o more, offset[s], ts))
         = Read(table[s], offset[s], cells) \o ts
  BY <1>1, <1>6, <1>13, AppendAddsTokens
<1>15. Read(table[s] \o more, offset'[s], cells') = Contents(table, offset, cells)[s] \o ts
  BY <1>2, <1>5, <1>10, <1>14 DEF Contents
<1>16. Writes(s)
  <2>1. \A i \in DOMAIN ts : ts[i] \in Tokens
    BY <1>1
  <2> QED BY <1>5, <1>13, <2>1 DEF Writes
<1> QED BY <1>13, <1>15, <1>16

\* An append that runs out of blocks leaves all contents as they were.
LEMMA OutOfBlocksStep ==
  ASSUME RInv, NEW s \in SeqIds, NEW ts \in Appends, AppendOutOfBlocks(s, ts)
  PROVE  /\ Good(table', offset', cells')
         /\ Writes(s)
         /\ Contents(table', offset', cells') = Contents(table, offset, cells)
<1>1. s \in Used /\ s \in DOMAIN table /\ offset' = offset
  BY DEF AppendOutOfBlocks, Used
<1>2. PICK S \in Allocations(pool, FreeCount(pool)) : \E more \in Lists(S) :
        /\ table' = [table EXCEPT ![s] = table[s] \o more]
        /\ cells' = Written(table[s] \o more, offset[s],
                            SubSeq(ts, 1, Len(table[s] \o more) * BlockSize - offset[s]))
  BY DEF AppendOutOfBlocks
<1>3. PICK more \in Lists(S) :
        /\ table' = [table EXCEPT ![s] = table[s] \o more]
        /\ cells' = Written(table[s] \o more, offset[s],
                            SubSeq(ts, 1, Len(table[s] \o more) * BlockSize - offset[s]))
  BY <1>2
<1>4. S \in SUBSET Blocks /\ Cardinality(S) = FreeCount(pool)
  BY DEF Allocations, FreeBlocks
<1>5. Cardinality(S) \in Nat
  BY <1>4, PoolAssumption, FS_Subset, FS_CardinalityType
<1>6. more \in Seq(Blocks) /\ Len(more) = FreeCount(pool)
  BY <1>4, ListOfBlocks
<1>7. /\ TableOf(table[s], offset[s]) /\ offset[s] \in Nat
      /\ table[s] \in Seq(Blocks) /\ Len(table[s]) \in Nat
      /\ offset[s] \in 0..Len(table[s]) * BlockSize
  BY <1>1, UserFacts DEF TableOf
<1>8. Len(table[s] \o more) = Len(table[s]) + FreeCount(pool)
  <2>1. Len(table[s] \o more) = Len(table[s]) + Len(more)
    BY <1>6, <1>7, ConcatProperties
  <2> QED BY <1>6, <2>1
<1> DEFINE room == (Len(table[s]) + FreeCount(pool)) * BlockSize
           fit == room - offset[s]
           part == SubSeq(ts, 1, fit)
<1>9. offset[s] \in 0..room /\ room \in Nat
  <2>1. offset[s] \in 0..room
    BY <1>4, <1>5, <1>7, MoreRoom, PagedAssumption
  <2> QED BY <1>4, <1>5, <1>7, <2>1, PagedAssumption
<1>10. cells' = Overwritten(cells, table[s] \o more, offset[s], part)
  BY <1>3, <1>8 DEF Written, Overwritten
<1>11. DOMAIN part = 1..fit /\ \A i \in 1..fit : part[i] = ts[i]
  <2>1. fit \in Nat
    BY <1>9
  <2> HIDE DEF fit
  <2>2. \A i \in 1..fit : ts[i] \in {ts[j] : j \in 1..fit}
    OBVIOUS
  <2>3. PICK u : u = part
    OBVIOUS
  <2>4. u \in Seq({ts[j] : j \in 1..fit}) /\ Len(u) = fit
    BY <2>1, <2>2, <2>3, SubSeqProperties
  <2> QED BY <2>3, <2>4
<1>12. \A i \in DOMAIN part : i \in Nat /\ i >= 1 /\ offset[s] + i - 1 \in Nat
         /\ offset[s] + i - 1 < room
  BY <1>7, <1>9, <1>11
<1> HIDE DEF part, fit
<1>13. Extended(s, FreeCount(pool), more, part)
  BY <1>1, <1>3, <1>7, <1>10, <1>12 DEF Extended
<1>14. FreeCount(pool) \in Nat
  BY <1>4, <1>5
<1>15. /\ Good(table', offset', cells')
       /\ Fits(table[s] \o more, offset[s], part) /\ more \in Seq(Blocks)
       /\ Contents(table', offset', cells')
            = [Contents(table, offset, cells) EXCEPT
                 ![s] = Read(table[s] \o more, offset'[s], cells')]
  BY <1>13, <1>14, ExtendStep
<1>16. Read(table[s] \o more, offset[s], Overwritten(cells, table[s] \o more, offset[s], part))
         = Read(table[s], offset[s], cells)
  BY <1>7, <1>15, AppendKeepsOld
<1>17. Read(table[s] \o more, offset'[s], cells') = Contents(table, offset, cells)[s]
  BY <1>1, <1>10, <1>16 DEF Contents
<1>18. [Contents(table, offset, cells) EXCEPT ![s] = Contents(table, offset, cells)[s]]
         = Contents(table, offset, cells)
  BY <1>1 DEF Contents
<1>19. room < offset[s] + Len(ts)
  <2>1. Len(ts) \in Nat /\ FreeCount(pool) < Missing(s, Len(ts))
    BY PagedAssumption DEF Appends, BoundedSeq, AppendOutOfBlocks
  <2>2. PICK k \in Nat : k = offset[s] + Len(ts)
    BY <1>7, <2>1
  <2>3. PICK q \in Nat : q = (k + BlockSize - 1) \div BlockSize
    BY RoundedUp, PagedAssumption
  <2>4. Len(table[s]) + FreeCount(pool) < q
    BY <1>7, <1>14, <2>1, <2>2, <2>3 DEF Missing
  <2>5. PICK m \in Nat : m = Len(table[s]) + FreeCount(pool)
    BY <1>7, <1>14
  <2>6. m * BlockSize < k
    BY <2>3, <2>4, <2>5, NotEnough, PagedAssumption
  <2> QED BY <2>2, <2>5, <2>6
<1>20. \A i \in DOMAIN part : part[i] \in Tokens
  <2>1. ts \in Seq(Tokens) /\ Len(ts) \in Nat
    BY PagedAssumption DEF Appends, BoundedSeq, SeqOf
  <2>2. fit <= Len(ts) /\ fit \in Int
    <3> USE DEF fit
    <3> HIDE DEF room
    <3> QED BY <1>7, <1>9, <1>19, <2>1
  <2> QED BY <1>11, <2>1, <2>2
<1>21. Writes(s)
  BY <1>10, <1>15, <1>20 DEF Writes
<1> QED BY <1>15, <1>17, <1>18, <1>21

\* A block with one reference has no second user.
LEMMA UnsharedIsOwn ==
  ASSUME RInv, NEW f \in DOMAIN table, NEW b \in SetOf(table[f]), b \in Blocks,
         pool.refcount[b] = 1, NEW x \in DOMAIN table \ {f}
  PROVE  b \notin SetOf(table[x])
<1>1. IsFiniteSet(Users(table, b))
  BY FS_Subset, UserFacts DEF Users
<1>2. f \in Users(table, b)
  BY DEF Users
<1>3. pool.refcount[b] = Cardinality(Users(table, b)) + forgotten[b] /\ forgotten[b] \in Nat
  BY UserFacts DEF Exact
<1>4. Cardinality(Users(table, b)) \in Nat
  BY <1>1, FS_CardinalityType
<1>5. /\ Cardinality(Users(table, b) \ {f}) = Cardinality(Users(table, b)) - 1
      /\ IsFiniteSet(Users(table, b) \ {f}) /\ Cardinality(Users(table, b) \ {f}) \in Nat
  BY <1>1, <1>2, FS_RemoveElement, FS_CardinalityType
<1>6. Cardinality(Users(table, b) \ {f}) = 0
  BY <1>3, <1>4, <1>5
<1>7. Users(table, b) \ {f} = {}
  BY <1>5, <1>6, FS_EmptySet
<1> QED BY <1>7 DEF Users

\* A fork that rewrites its token changes no other user.
LEMMA RewriteStep ==
  ASSUME RInv, NEW f \in Forks, NEW p \in Nat, NEW t \in Tokens, Rewrite(f, p, t)
  PROVE  /\ Good(table', offset', cells')
         /\ f \in DOMAIN Contents(table, offset, cells)
         /\ p + 1 \in DOMAIN Contents(table, offset, cells)[f]
         /\ Contents(table', offset', cells')
              = [Contents(table, offset, cells) EXCEPT ![f][p + 1] = t]
<1>1. f \in DOMAIN table /\ p < offset[f] /\ offset' = offset
  BY DEF Rewrite, Used
<1>2. /\ TableOf(table[f], offset[f]) /\ offset[f] \in Nat /\ table[f] \in Seq(Blocks)
      /\ IsInjective(table[f]) /\ p < Len(table[f]) * BlockSize
  <2>1. /\ TableOf(table[f], offset[f]) /\ offset[f] \in Nat /\ table[f] \in Seq(Blocks)
        /\ IsInjective(table[f]) /\ offset[f] \in 0..Len(table[f]) * BlockSize
    BY <1>1, UserFacts DEF TableOf
  <2>2. Len(table[f]) * BlockSize \in Nat
    BY <2>1, PagedAssumption
  <2> QED BY <1>1, <2>1, <2>2
<1>3. PICK b : b = BlockAt(table[f], p)
  OBVIOUS
<1>4. PICK i : i = p \div BlockSize + 1
  OBVIOUS
<1>5. b \in Blocks /\ b \in SetOf(table[f]) /\ i \in DOMAIN table[f] /\ p % BlockSize \in Cell
      /\ b = table[f][i]
  BY <1>2, <1>3, <1>4, PositionInList DEF BlockAt
<1>6. p + 1 \in 1..offset[f]
  BY <1>1, <1>2
<1>7. /\ f \in DOMAIN Contents(table, offset, cells)
      /\ p + 1 \in DOMAIN Contents(table, offset, cells)[f]
  BY <1>1, <1>6 DEF Contents, Read
<1>8. ASSUME pool.refcount[b] = 1, table' = table,
             cells' = [cells EXCEPT ![b][p % BlockSize] = t]
      PROVE  /\ Good(table', offset', cells')
             /\ Contents(table', offset', cells')
                  = [Contents(table, offset, cells) EXCEPT ![f][p + 1] = t]
  <2>1. /\ Read(table[f], offset[f], cells') = [Read(table[f], offset[f], cells) EXCEPT ![p + 1] = t]
        /\ Shaped(cells')
    <3>1. WrittenInPlace(table[f], offset[f], p, t, cells, cells', b)
      BY <1>1, <1>2, <1>3, <1>8, UserFacts DEF WrittenInPlace
    <3> QED BY <3>1, RewriteInPlace
  <2>2. \A d \in Blocks \ {b} : cells'[d] = cells[d]
    BY <1>8, UserFacts DEF Shaped
  <2>3. ASSUME NEW x \in DOMAIN table \ {f}
        PROVE  Read(table[x], offset[x], cells') = Read(table[x], offset[x], cells)
    <3>1. b \notin SetOf(table[x])
      BY <1>1, <1>5, <1>8, UnsharedIsOwn
    <3>2. TableOf(table[x], offset[x])
      BY UserFacts
    <3> QED BY <2>2, <3>1, <3>2, BlockSparesOthers
  <2>4. Contents(table, offset, cells')
          = [Contents(table, offset, cells) EXCEPT ![f][p + 1] = t]
    BY <1>1, <2>1, <2>3 DEF Contents
  <2>5. Good(table', offset', cells')
    BY <1>1, <1>8, <2>1, UserFacts DEF Good
  <2> QED BY <1>1, <1>8, <2>4, <2>5
<1>9. ASSUME NEW c \in FreeBlocks(pool), table' = [table EXCEPT ![f][i] = c],
             cells' = [cells EXCEPT ![c] = [cells[b] EXCEPT ![p % BlockSize] = t]]
      PROVE  /\ Good(table', offset', cells')
             /\ Contents(table', offset', cells')
                  = [Contents(table, offset, cells) EXCEPT ![f][p + 1] = t]
  <2>1. c \in Blocks /\ Users(table, c) = {}
    BY FreshBlock, UserFacts DEF FreeBlocks
  <2>2. \A x \in DOMAIN table : c \notin SetOf(table[x])
    BY <2>1 DEF Users
  <2>3. PICK bs : bs = table[f]
    OBVIOUS
  <2>4. PICK new : new = [bs EXCEPT ![i] = c]
    OBVIOUS
  <2>5. new \in Seq(Blocks) /\ IsInjective(new) /\ DOMAIN new = DOMAIN bs
        /\ \A j \in DOMAIN bs : new[j] = IF j = i THEN c ELSE bs[j]
    <3>1. bs \in Seq(Blocks) /\ IsInjective(bs) /\ i \in DOMAIN bs /\ c \notin SetOf(bs)
      BY <1>1, <1>2, <1>5, <2>2, <2>3
    <3>2. new \in Seq(Blocks) /\ IsInjective(new)
      BY <2>1, <2>4, <3>1, ReplacedInList
    <3> QED BY <2>4, <3>2
  <2>6. /\ DOMAIN table' = DOMAIN table /\ table'[f] = new
        /\ \A x \in DOMAIN table \ {f} : table'[x] = table[x]
    BY <1>1, <1>9, <2>3, <2>4
  <2>7. NewList(table, offset, f, table', offset')
    <3>1. IsInjective(table'[f]) /\ DOMAIN table' = DOMAIN table \cup {f}
      BY <1>1, <2>5, <2>6
    <3>2. \A j \in DOMAIN table'[f] :
            \/ Users(table, table'[f][j]) = {}
            \/ f \in DOMAIN table /\ j \in DOMAIN table[f] /\ table'[f][j] = table[f][j]
      BY <1>1, <2>1, <2>3, <2>5, <2>6
    <3>3. \A x \in DOMAIN table \ {f} : table'[x] = table[x] /\ offset'[x] = offset[x]
      BY <1>1, <2>6
    <3> QED BY <1>1, <1>2, <3>1, <3>2, <3>3 DEF NewList
  <2>8. SamePlace(table') /\ ForksEndFirst(table', offset')
    BY <2>7, NewListSamePlace, NewListForksEndFirst, UserFacts
  <2>9. /\ Read(new, offset[f], cells') = [Read(bs, offset[f], cells) EXCEPT ![p + 1] = t]
        /\ Shaped(cells')
    <3>1. TableOf(bs, offset[f]) /\ b = BlockAt(bs, p) /\ c \notin SetOf(bs) /\ Shaped(cells)
      BY <1>1, <1>2, <1>3, <2>2, <2>3, UserFacts
    <3>2. WrittenToCopy(bs, new, offset[f], p, t, cells, cells', b, c)
      BY <1>1, <1>4, <1>9, <2>4, <3>1 DEF WrittenToCopy
    <3> QED BY <2>1, <3>2, RewriteCopy
  <2>10. \A d \in Blocks \ {c} : cells'[d] = cells[d]
    BY <1>9, UserFacts DEF Shaped
  <2>11. ASSUME NEW x \in DOMAIN table \ {f}
         PROVE  Read(table[x], offset[x], cells') = Read(table[x], offset[x], cells)
    <3>1. TableOf(table[x], offset[x]) /\ c \notin SetOf(table[x])
      BY <2>2, UserFacts
    <3> QED BY <2>10, <3>1, BlockSparesOthers
  <2>12. Contents(table', offset, cells')
           = [Contents(table, offset, cells) EXCEPT ![f][p + 1] = t]
    BY <1>1, <2>3, <2>6, <2>9, <2>11 DEF Contents
  <2>13. Good(table', offset', cells')
    BY <2>8, <2>9 DEF Good
  <2> QED BY <1>1, <2>12, <2>13
<1>10. \/ /\ pool.refcount[b] = 1 /\ table' = table
          /\ cells' = [cells EXCEPT ![b][p % BlockSize] = t]
       \/ \E c \in FreeBlocks(pool) :
            /\ table' = [table EXCEPT ![f][i] = c]
            /\ cells' = [cells EXCEPT ![c] = [cells[b] EXCEPT ![p % BlockSize] = t]]
  BY <1>3, <1>4 DEF Rewrite, Unshared, Allocations
<1> QED BY <1>7, <1>8, <1>9, <1>10

------------------------------------------------------------------------------
\* What the refinement mapping shows of the state.
LEMMA MappedContents ==
  /\ [x \in Used |-> Gathered(x)] = Contents(table, offset, cells)
  /\ [x \in Used |-> Gathered(x)]' = Contents(table', offset', cells')
BY DEF Used, Gathered, Contents, Read, BlockAt

\* Every step of the cache is a call on one sequence or fork, or changes no content.
LEMMA SequencesStep ==
  RInv /\ [Next]_vars
    => RInv' /\ [Store!Next]_([x \in Used |-> Gathered(x)])
<1> SUFFICES ASSUME RInv, [Next]_vars
             PROVE  RInv' /\ [Store!Next]_([x \in Used |-> Gathered(x)])
  OBVIOUS
<1> DEFINE K == Contents(table, offset, cells)
           KNext == Contents(table', offset', cells')
<1>1. IInv'
  BY InvariantStep DEF RInv
<1>2. SUFFICES Good(table', offset', cells') /\ (Store!Next \/ KNext = K)
  <2>1. ASSUME Good(table', offset', cells') PROVE RInv'
    BY <1>1, <2>1 DEF RInv, Good, SamePlace, ForksEndFirst, Shaped
  <2> QED BY <1>2, <2>1, MappedContents
<1>3. ASSUME NEW s \in SeqIds, AllocateSequence(s)
      PROVE  Good(table', offset', cells') /\ Store!Next
  <2>1. Good(table', offset', cells') /\ KNext = With(K, s, << >>)
    BY <1>3, AllocateStep
  <2> HIDE DEF K, KNext
  <2>2. Store!Create(s)
    BY <2>1, MappedContents DEF Store!Create, Store!With, With, K, KNext
  <2> QED BY <2>1, <2>2 DEF Store!Next
<1>4. ASSUME NEW x \in SeqIds \cup Forks, x \in Used, Dropped(x), cells' = cells
      PROVE  Good(table', offset', cells') /\ Store!Next
  <2>1. /\ Good(table', offset', cells') /\ KNext = Restrict(K, DOMAIN K \ {x})
        /\ x \in DOMAIN K
    BY <1>4, DropStep DEF Contents, Used
  <2> HIDE DEF K, KNext
  <2>2. Store!Drop(x)
    BY <2>1, MappedContents DEF Store!Drop, Store!Restrict, Restrict, K, KNext
  <2> QED BY <2>1, <2>2 DEF Store!Next
<1>5. ASSUME NEW s \in SeqIds, NEW ts \in Appends, AppendKV(s, ts)
      PROVE  Good(table', offset', cells') /\ Store!Next
  <2>1. /\ Good(table', offset', cells') /\ KNext = [K EXCEPT ![s] = @ \o ts] /\ s \in DOMAIN K
    BY <1>5, AppendStep DEF AppendKV, Contents, Used
  <2>2. ts \in Store!BoundedSeq(Tokens, MaxAppend)
    BY DEF Appends, BoundedSeq, SeqOf, Store!BoundedSeq, Store!SeqOf
  <2> HIDE DEF K, KNext
  <2>3. Store!Extend(s, ts)
    BY <2>1, MappedContents DEF Store!Extend, K, KNext
  <2> QED BY <2>1, <2>2, <2>3 DEF Store!Next
<1>6. ASSUME NEW s \in SeqIds, NEW ts \in Appends, AppendOutOfBlocks(s, ts)
      PROVE  Good(table', offset', cells') /\ KNext = K
  BY <1>6, OutOfBlocksStep
<1>7. ASSUME NEW f \in Forks, NEW s \in SeqIds, Share(f, s)
      PROVE  Good(table', offset', cells') /\ Store!Next
  <2>1. Good(table', offset', cells') /\ KNext = With(K, f, K[s]) /\ s \in DOMAIN K
    BY <1>7, ShareStep
  <2> HIDE DEF K, KNext
  <2>2. Store!Fork(f, s)
    BY <2>1, MappedContents DEF Store!Fork, Store!With, With, K, KNext
  <2> QED BY <2>1, <2>2 DEF Store!Next
<1>8. ASSUME NEW f \in Forks, NEW p \in 0..Cardinality(Blocks) * BlockSize, NEW t \in Tokens,
             Rewrite(f, p, t)
      PROVE  Good(table', offset', cells') /\ Store!Next
  <2>1. p \in Nat
    <3>1. Cardinality(Blocks) * BlockSize \in Nat
      BY PoolAssumption, PagedAssumption, FS_CardinalityType
    <3> QED BY <3>1
  <2>2. /\ Good(table', offset', cells') /\ f \in DOMAIN K /\ p + 1 \in DOMAIN K[f]
        /\ KNext = [K EXCEPT ![f][p + 1] = t]
    BY <1>8, <2>1, RewriteStep
  <2> HIDE DEF K, KNext
  <2>3. Store!Overwrite(f, p + 1, t)
    BY <2>2, MappedContents DEF Store!Overwrite, K, KNext
  <2>4. f \in DOMAIN [x \in Used |-> Gathered(x)]
        /\ p + 1 \in DOMAIN [x \in Used |-> Gathered(x)][f]
    BY <2>2, MappedContents DEF K
  <2> QED BY <2>2, <2>3, <2>4 DEF Store!Next
<1>9. CASE UNCHANGED vars
  BY <1>9, UserFacts DEF vars, Good
<1>10. ASSUME NEW s \in SeqIds, FreeSequence(s) PROVE Good(table', offset', cells') /\ Store!Next
  BY <1>4, <1>10 DEF FreeSequence
<1>11. ASSUME NEW f \in Forks, Release(f) PROVE Good(table', offset', cells') /\ Store!Next
  BY <1>4, <1>11 DEF Release
<1> QED BY <1>3, <1>5, <1>6, <1>7, <1>8, <1>9, <1>10, <1>11 DEF Next

\* The invariant behind the theorems that follow.
LEMMA RefinementInvariant == Spec => []RInv
<1>1. Init => RInv
  <2> SUFFICES ASSUME Init PROVE RInv
    OBVIOUS
  <2>1. DOMAIN table = {}
    BY DEF Init
  <2>2. Shaped(cells)
    BY DEF Init, Shaped
  <2> QED BY <2>1, <2>2, InvariantInit DEF RInv, Good, SamePlace, ForksEndFirst
<1> QED BY <1>1, SequencesStep, PTL DEF Spec

\* Each sequence and each fork is a value of its own, whatever blocks they share: no call
\* changes the tokens another user reads, an append that runs out of blocks changes none,
\* and copy-on-write gives the fork that writes an independent block.
THEOREM SequencesAreImplemented == Spec => ImplementsSequences
<1>1. Init => Store!Init
  BY DEF Init, Store!Init, Used
<1> QED BY <1>1, RefinementInvariant, SequencesStep, PTL
        DEF Spec, ImplementsSequences, Store!Spec

------------------------------------------------------------------------------
(* Types. *)

\* What is stored are tokens, or nothing yet.
Typed(cs) == cs \in [Blocks -> [Cell -> Tokens \cup {Blank}]]

\* Writing tokens that fit keeps the pools typed.
LEMMA OverwrittenTyped ==
  ASSUME NEW cs, Typed(cs), NEW bs, NEW n, NEW ts, Fits(bs, n, ts),
         \A i \in DOMAIN ts : ts[i] \in Tokens
  PROVE  Typed(Overwritten(cs, bs, n, ts))
<1> DEFINE new == Overwritten(cs, bs, n, ts)
<1>1. ASSUME NEW b \in Blocks, NEW c \in Cell
      PROVE  new[b][c] \in Tokens \cup {Blank}
  <2>1. CASE \E i \in DOMAIN ts : BlockAt(bs, n + i - 1) = b /\ (n + i - 1) % BlockSize = c
    BY <2>1, WrittenCell
  <2>2. CASE ~ \E i \in DOMAIN ts : BlockAt(bs, n + i - 1) = b /\ (n + i - 1) % BlockSize = c
    <3>1. new[b][c] = cs[b][c]
      BY <2>2, UntouchedCell
    <3> QED BY <3>1 DEF Typed
  <2> QED BY <2>1, <2>2
<1>2. /\ new = [b \in Blocks |-> new[b]]
      /\ \A b \in Blocks : new[b] = [c \in Cell |-> new[b][c]]
  BY DEF Overwritten
<1> HIDE DEF new
<1>3. \A b \in Blocks : new[b] \in [Cell -> Tokens \cup {Blank}]
  BY <1>1, <1>2
<1>4. new \in [Blocks -> [Cell -> Tokens \cup {Blank}]]
  BY <1>2, <1>3
<1> QED BY <1>4 DEF Typed, new

\* Writing one cell of a block that was copied or not.
LEMMA CellTyped ==
  ASSUME NEW cs, Typed(cs), NEW b \in Blocks, NEW d \in Blocks, NEW c, NEW t \in Tokens
  PROVE  /\ Typed([cs EXCEPT ![b][c] = t])
         /\ Typed([cs EXCEPT ![d] = [cs[b] EXCEPT ![c] = t]])
BY DEF Typed

TInv == Used \subseteq SeqIds \cup Forks /\ Typed(cells) /\ forgotten \in [Blocks -> 0..MaxForgotten]

\* With types, the invariant of the refinement is all of TypeOK.
LEMMA InvariantIsTyped == RInv /\ TInv => TypeOK
<1> SUFFICES ASSUME RInv, TInv PROVE TypeOK
  OBVIOUS
<1>1. Sound(pool) /\ Tables(table, offset)
  BY DEF RInv, IInv
<1>2. PoolTypeOK
  BY <1>1 DEF Sound, PoolTypeOK
<1>3. /\ DOMAIN offset = Used
      /\ \A x \in Used : table[x] \in Seq(Blocks) /\ offset[x] \in 0..Len(table[x]) * BlockSize
  BY <1>1 DEF Tables, TableOf, Used
<1> QED BY <1>2, <1>3 DEF TypeOK, TInv, Typed

\* A call that adds a user keeps the users known ones.
LEMMA StillUsers ==
  ASSUME Used \subseteq SeqIds \cup Forks, NEW x \in SeqIds \cup Forks, NEW v,
         table' = With(table, x, v)
  PROVE  Used' \subseteq SeqIds \cup Forks
BY DEF Used, With

\* A write of tokens where they fit keeps the pools typed, and leaves the rest.
LEMMA WritesTyped ==
  ASSUME Typed(cells), NEW s, Writes(s)
  PROVE  Typed(cells')
<1>1. PICK bs, ts : /\ Fits(bs, offset[s], ts) /\ \A i \in DOMAIN ts : ts[i] \in Tokens
                    /\ cells' = Overwritten(cells, bs, offset[s], ts)
  BY DEF Writes
<1>2. PICK cs, n : cs = cells /\ n = offset[s]
  OBVIOUS
<1>3. Typed(Overwritten(cs, bs, n, ts))
  BY <1>1, <1>2, OverwrittenTyped
<1> QED BY <1>1, <1>2, <1>3

\* A fork writes its token into a block of the pool.
LEMMA RewriteTyped ==
  ASSUME RInv, Typed(cells), NEW f \in Forks, NEW p \in Nat, NEW t \in Tokens, Rewrite(f, p, t)
  PROVE  Typed(cells') /\ DOMAIN table' = DOMAIN table
<1>1. f \in DOMAIN table /\ p < offset[f]
  BY DEF Rewrite, Used
<1>2. table[f] \in Seq(Blocks) /\ offset[f] \in 0..Len(table[f]) * BlockSize
  BY <1>1, UserFacts DEF TableOf
<1>3. p < Len(table[f]) * BlockSize
  <2>1. Len(table[f]) * BlockSize \in Nat
    BY <1>2, PagedAssumption
  <2> QED BY <1>1, <1>2, <2>1
<1>4. PICK b \in Blocks : b = BlockAt(table[f], p)
  BY <1>2, <1>3, PositionInList
<1>5. \/ cells' = [cells EXCEPT ![b][p % BlockSize] = t] /\ table' = table
      \/ \E c \in Blocks :
           /\ cells' = [cells EXCEPT ![c] = [cells[b] EXCEPT ![p % BlockSize] = t]]
           /\ table' = [table EXCEPT ![f][p \div BlockSize + 1] = c]
  BY <1>4 DEF Rewrite, Allocations, FreeBlocks
<1>6. PICK cs, c0 : cs = cells /\ c0 = p % BlockSize
  OBVIOUS
<1>7. \A d \in Blocks : /\ Typed([cs EXCEPT ![b][c0] = t])
                        /\ Typed([cs EXCEPT ![d] = [cs[b] EXCEPT ![c0] = t]])
  BY <1>6, CellTyped
<1> QED BY <1>5, <1>6, <1>7

\* Every step keeps the types: what runs out of blocks half way too.
LEMMA TypedStep == RInv /\ TInv /\ [Next]_vars => TInv'
<1> SUFFICES ASSUME RInv, TInv, [Next]_vars PROVE TInv'
  OBVIOUS
<1>0. /\ Used \subseteq SeqIds \cup Forks /\ Typed(cells)
      /\ forgotten \in [Blocks -> 0..MaxForgotten]
  BY DEF TInv
<1>a. ASSUME Used' \subseteq SeqIds \cup Forks, Typed(cells'),
             forgotten' \in [Blocks -> 0..MaxForgotten]
      PROVE  TInv'
  BY <1>a DEF TInv, Typed
<1>1. ASSUME NEW s \in SeqIds, AllocateSequence(s) PROVE TInv'
  <2>1. /\ \E bs : table' = With(table, s, bs)
        /\ forgotten' = [b \in Blocks |->
             forgotten[b] + (IF s \in Used /\ b \in SetOf(table[s]) THEN 1 ELSE 0)]
        /\ \A b \in Blocks : forgotten'[b] <= MaxForgotten
        /\ cells' = cells
    BY <1>1 DEF AllocateSequence
  <2>2. forgotten' \in [Blocks -> 0..MaxForgotten]
    <3>1. \A b \in Blocks : forgotten'[b] \in 0..MaxForgotten
      BY <1>0, <2>1, PagedAssumption
    <3> QED BY <2>1, <3>1
  <2>3. Used' \subseteq SeqIds \cup Forks
    BY <1>0, <2>1, StillUsers
  <2> QED BY <1>0, <1>a, <2>1, <2>2, <2>3
<1>2. ASSUME NEW x \in Used, Dropped(x), UNCHANGED <<cells, forgotten>> PROVE TInv'
  <2>1. Used' \subseteq SeqIds \cup Forks
    BY <1>0, <1>2 DEF Dropped, Restrict, Used
  <2> QED BY <1>0, <1>2, <1>a, <2>1
<1>3. ASSUME NEW s \in SeqIds, NEW ts \in Appends, AppendKV(s, ts) \/ AppendOutOfBlocks(s, ts)
      PROVE  TInv'
  <2>1. Writes(s)
    BY <1>3, AppendStep, OutOfBlocksStep
  <2>2. DOMAIN table' = DOMAIN table /\ forgotten' = forgotten
    BY <1>3 DEF AppendKV, AppendOutOfBlocks
  <2> QED BY <1>0, <1>a, <2>1, <2>2, WritesTyped DEF Used
<1>4. ASSUME NEW f \in Forks, NEW s \in SeqIds, Share(f, s) PROVE TInv'
  <2>1. table' = With(table, f, table[s]) /\ UNCHANGED <<cells, forgotten>>
    BY <1>4 DEF Share
  <2>2. Used' \subseteq SeqIds \cup Forks
    BY <1>0, <2>1, StillUsers
  <2> QED BY <1>0, <1>a, <2>1, <2>2
<1>5. ASSUME NEW f \in Forks, NEW p \in 0..Cardinality(Blocks) * BlockSize, NEW t \in Tokens,
             Rewrite(f, p, t)
      PROVE  TInv'
  <2>1. p \in Nat
    <3>1. Cardinality(Blocks) * BlockSize \in Nat
      BY PoolAssumption, PagedAssumption, FS_CardinalityType
    <3> QED BY <3>1
  <2>2. Typed(cells') /\ DOMAIN table' = DOMAIN table
    BY <1>0, <1>5, <2>1, RewriteTyped
  <2>3. forgotten' = forgotten
    BY <1>5 DEF Rewrite
  <2> QED BY <1>0, <1>a, <2>2, <2>3 DEF Used
<1>6. ASSUME NEW s \in SeqIds, FreeSequence(s) PROVE TInv'
  BY <1>2, <1>6 DEF FreeSequence
<1>7. ASSUME NEW f \in Forks, Release(f) PROVE TInv'
  BY <1>2, <1>7 DEF Release
<1>8. CASE UNCHANGED vars
  BY <1>0, <1>8, <1>a DEF vars, Used
<1> QED BY <1>1, <1>3, <1>4, <1>5, <1>6, <1>7, <1>8 DEF Next

\* Type correctness: the blocks of a sequence are blocks of the pool and have room for its
\* offset, also after an append that ran out of blocks half way, and the pools hold tokens.
THEOREM TypesAreRespected == Spec => []TypeOK
<1>1. Init => TInv
  <2> SUFFICES ASSUME Init PROVE TInv
    OBVIOUS
  <2>1. DOMAIN table = {} /\ Typed(cells)
    BY DEF Init, Typed
  <2>2. forgotten \in [Blocks -> 0..MaxForgotten]
    BY PagedAssumption DEF Init
  <2> QED BY <2>1, <2>2 DEF TInv, Used
<1> QED BY <1>1, RefinementInvariant, TypedStep, InvariantIsTyped, PTL DEF Spec
==============================================================================
