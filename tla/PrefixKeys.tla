----------------------------- MODULE PrefixKeys -----------------------------
(***************************************************************************)
(* What the tiers of the prefix cache share: the hasher, the keys made of  *)
(* its hashes, and the kinds of cache whose state they hold.  A hash is    *)
(* the chunk it is taken of: SHA-256 maps different chunks to different    *)
(* digests, partial last chunks included.                                  *)
(***************************************************************************)
EXTENDS SequencesExt, Integers, FiniteSets, Functions

CONSTANTS BlockSize,    \* tokens of a chunk
          CacheTypes,   \* the names cache_type_name can return
          BytesPer      \* BytesPer[type]: bytes of the state of one token

ASSUME KeysAssumption ==
  /\ BlockSize \in Nat \ {0}
  /\ BytesPer \in [CacheTypes -> Nat \ {0}]

ChunksOf(n) == (n + BlockSize - 1) \div BlockSize
HashChunks(tokens) ==
  [i \in 1..ChunksOf(Len(tokens)) |->
     SubSeq(tokens, (i - 1) * BlockSize + 1,
            IF i * BlockSize < Len(tokens) THEN i * BlockSize ELSE Len(tokens))]

\* The keys a lookup tries, and the one it tries first among some of them.
Keys(hashes) == {SubSeq(hashes, 1, i) : i \in 1..Len(hashes)}
LongestOf(keys) == CHOOSE k \in keys : \A j \in keys : Len(j) <= Len(k)

\* f with the value v for k, new or not.
With(f, k, v) == [x \in DOMAIN f \cup {k} |-> IF x = k THEN v ELSE f[x]]

\* What is left of an order of use when the keys D are taken out.
Removed(s, D) ==
  LET left[i \in 0..Len(s)] ==
        IF i = 0 THEN << >> ELSE IF s[i] \in D THEN left[i - 1] ELSE Append(left[i - 1], s[i])
  IN left[Len(s)]
==============================================================================
