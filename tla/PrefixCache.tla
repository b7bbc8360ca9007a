----------------------------- MODULE PrefixCache -----------------------------
(***************************************************************************)
(* The two tiers of the prefix cache as the prefill of an engine uses      *)
(* them: memory first, then disk, the rest of the prompt computed, and the *)
(* result stored in memory after a complete miss.  What a cache of the     *)
(* model holds is the sequence of tokens it was fed.  A request runs on a  *)
(* plain or a quantized cache, by its length and limit.                    *)
(*                                                                         *)
(* No engine stores to disk: the caller of PrefixCacheDisk.store_sync is   *)
(* whoever holds the cache after a prefill.                                *)
(***************************************************************************)
EXTENDS PrefixMemory, PrefixDisk

CONSTANTS Prompts,     \* the prompts of requests
          OnDisk       \* the prompts whose state is stored to disk

ASSUME PrefixAssumption ==
  /\ Prompts \subseteq Seq(Nat) /\ << >> \notin Prompts
  /\ OnDisk \subseteq Prompts

VARIABLES alive,   \* the engine thread has not died of an exception
          done     \* the last prefill: what was asked, found and computed

vars == <<memory, diskVars, alive, done>>

Nothing == [tier |-> "none"]

Init == memory = EmptyMemory /\ DiskInit /\ alive = TRUE /\ done = Nothing

\* The cache after the model ran what the restored state lacks; on a full hit the
\* last token is trimmed and run again.
Resumed(state, prompt) ==
  IF Len(state) >= Len(prompt)
  THEN SubSeq(state, 1, Len(state) - 1) \o <<Last(prompt)>>
  ELSE state \o SubSeq(prompt, Len(state) + 1, Len(prompt))

\* "holds" is the type of the state in the cache, "type" that of the cache itself.
Finished(prompt, type, tier, key, cache, holds) ==
  [prompt |-> prompt, type |-> type, tier |-> tier, key |-> key, cache |-> cache, holds |-> holds]

\* The state of an entry is restored by reference: the token that is run again on
\* a full hit is written into the entry.
MemoryHit(prompt, type) ==
  LET found == Matches(memory, HashChunks(prompt), type)
      k == LongestOf(found)
      cache == Resumed(memory.entries[k].state, prompt)
  IN /\ alive /\ writer = Idle
     /\ found # {}
     /\ memory' = [Touched(memory, k) EXCEPT
                     !.entries[k].state = SubSeq(cache, 1, memory.entries[k].n)]
     /\ done' = Finished(prompt, type, "memory", k, cache, memory.entries[k].type)
     /\ UNCHANGED <<diskVars, alive>>

MissInMemory(prompt, type) ==
  alive /\ writer = Idle /\ Matches(memory, HashChunks(prompt), type) = {}

\* lookup_sync of the disk tier, the longest key first.  An entry that fails to
\* validate is deleted and the next one tried; so is, whatever it holds, one that
\* cannot be read or touched.  What is deleted on the way to keys of n chunks:
PassedOver(hashes, type, n) ==
  LET seen == {k \in Keys(hashes) : Present(k) /\ Len(k) > n}
      tried == {k \in seen : Considered(k, type)}
  IN {S \in SUBSET seen : /\ tried \subseteq S
                           /\ \/ MayFailIO
                              \/ S = tried /\ \A k \in S : ~Valid(k)}

Deleted(S) ==
  /\ tensors' = Restrict(tensors, DOMAIN tensors \ S)
  /\ sidecar' = Restrict(sidecar, DOMAIN sidecar \ S)

DiskHit(prompt, type) ==
  LET hashes == HashChunks(prompt) IN
  /\ MissInMemory(prompt, type)
  /\ \E k \in Keys(hashes) : \E S \in PassedOver(hashes, type, Len(k)) :
       /\ Considered(k, type) /\ Valid(k)
       /\ Deleted(S)
       /\ age' = Append(Removed(age, S \cup {k}), k)
       /\ IF Restorable(k)
          THEN /\ done' = Finished(prompt, type, "disk", k, Resumed(Loaded(k).state, prompt),
                                   Loaded(k).type)
               /\ UNCHANGED alive
          ELSE alive' = FALSE /\ done' = Nothing
  /\ UNCHANGED <<memory, writer, forced>>

Miss(prompt, type) ==
  LET hashes == HashChunks(prompt) IN
  /\ MissInMemory(prompt, type)
  /\ \E S \in PassedOver(hashes, type, 0) : Deleted(S) /\ age' = Removed(age, S)
  /\ memory' = Stored(memory, hashes, prompt, type, Len(prompt))
  /\ done' = Finished(prompt, type, "miss", << >>, prompt, type)
  /\ UNCHANGED <<writer, alive, forced>>

\* A lookup that ends while it deletes: of the entry at hand the tensors are gone and
\* the sidecar is not, or both are still there.
DeletedInPart(prompt, type) ==
  LET hashes == HashChunks(prompt) IN
  /\ MissInMemory(prompt, type)
  /\ \E k \in Keys(hashes) : \E S \in PassedOver(hashes, type, Len(k)), T \in SUBSET {k} :
       /\ Present(k)
       /\ \/ MayFailIO
          \/ Considered(k, type) /\ ~Valid(k)
       /\ tensors' = Restrict(tensors, DOMAIN tensors \ (S \cup T))
       /\ sidecar' = Restrict(sidecar, DOMAIN sidecar \ S)
       /\ age' = Removed(age, S \cup T)
  /\ UNCHANGED <<writer, forced>>

\* A deletion raises, and the exception leaves lookup_sync.
DiskRaises(prompt, type) ==
  /\ MayFailIO
  /\ DeletedInPart(prompt, type)
  /\ alive' = FALSE /\ done' = Nothing
  /\ UNCHANGED memory

Prefill(prompt, type) ==
  \/ MemoryHit(prompt, type)
  \/ DiskHit(prompt, type)
  \/ DiskRaises(prompt, type)
  \/ Miss(prompt, type)

StoreToDisk ==
  /\ alive
  /\ done # Nothing /\ done.prompt \in OnDisk
  /\ StoreCalled(HashChunks(done.prompt), done.cache, done.type)
  /\ UNCHANGED <<memory, alive, done>>

WriterStep == StoreStep /\ UNCHANGED <<memory, alive, done>>

\* The process dies, at any step of a store or of its own exception, and starts
\* again with the files that are there.
Restart ==
  /\ CrashedOnDisk
  /\ memory' = EmptyMemory /\ alive' = TRUE /\ done' = Nothing

\* It dies while a lookup deletes.
RestartInRemoval ==
  /\ \E p \in Prompts, type \in CacheTypes : DeletedInPart(p, type)
  /\ memory' = EmptyMemory /\ alive' = TRUE /\ done' = Nothing

Next ==
  \/ \E p \in Prompts, type \in CacheTypes : Prefill(p, type)
  \/ StoreToDisk
  \/ WriterStep
  \/ Restart
  \/ RestartInRemoval

Spec == Init /\ [][Next]_vars

------------------------------------------------------------------------------
\* "Deterministic hit -> deterministic logits": whatever was found in whichever
\* tier, after torn writes, stale sidecars and crashes too, the cache of the model
\* holds the prompt, and every entry in memory what its key stands for.
PrefillIsExact ==
  /\ done # Nothing => done.cache = done.prompt /\ done.holds = done.type
  /\ \A k \in DOMAIN memory.entries : memory.entries[k].state = FlattenSeq(k)

\* A prompt that was computed is found again at once, in part at least, if its
\* first chunk fits the tier at all; unless an entry of the other cache type has
\* the key of the prompt or of that chunk.
RepeatHits ==
  done.tier \in {"memory", "miss"} =>
    LET hashes == HashChunks(done.prompt)
        first == SubSeq(hashes, 1, 1)
    IN \/ Matches(memory, hashes, done.type) # {}
       \/ Len(hashes[1]) * BytesPer[done.type] > MemoryBudget
       \/ \E k \in {hashes, first} \cap DOMAIN memory.entries :
            memory.entries[k].type # done.type

\* "LRU coherence": the entry the last request hit is evicted by a store only
\* when everything that was there before is.
HitSurvives ==
  [][LET before == DOMAIN memory.entries
         after == DOMAIN memory'.entries
     IN done.tier = "memory" /\ done.key \in before \ after =>
          \A k \in before \cap after : k \in Keys(HashChunks(done'.prompt))]_vars

\* Both tiers keep their budgets, and the memory tier its books.
TiersWithinBudget == MemoryAccounted /\ DiskBounded
==============================================================================
