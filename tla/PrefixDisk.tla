----------------------------- MODULE PrefixDisk -----------------------------
(***************************************************************************)
(* PrefixCacheDisk: for each key a file of tensors and a sidecar, written  *)
(* one after the other by a process that may crash at any point, found     *)
(* again by the next one, which may run with another kind of cache.        *)
(***************************************************************************)
EXTENDS PrefixKeys

CONSTANTS DiskBudget,    \* disk_budget_bytes
          HeaderBytes,   \* what a safetensors file holds besides its tensors
          MayFailIO,     \* whether files may fail to be read, touched or deleted
          Torn           \* the content of a file whose write was cut off

ASSUME DiskAssumption == DiskBudget \in Nat /\ HeaderBytes \in Nat /\ MayFailIO \in BOOLEAN

VARIABLES tensors,   \* the .safetensors files: key -> content, or Torn
          sidecar,   \* the .meta.json files: key -> content, or Torn
          age,       \* the keys of tensors by modification time, the oldest first
          writer,    \* where store_sync stands, and what it is called with
          forced     \* history: the last file was written without room for it

diskVars == <<tensors, sidecar, age, writer, forced>>

Idle == [at |-> "idle"]

DiskInit ==
  tensors = << >> /\ sidecar = << >> /\ age = << >> /\ writer = Idle /\ forced = FALSE

\* st_size counts the header, which the size of the tensors of a new entry does not.
FileSize(k) == tensors[k].bytes + HeaderBytes
Usage == SumFunction([k \in DOMAIN tensors |-> FileSize(k)])

\* lookup_sync looks at a key when both files exist and the sidecar can be read
\* and names the type, or cannot be read.
Present(k) == k \in DOMAIN tensors \cap DOMAIN sidecar
Considered(k, type) == Present(k) /\ (sidecar[k] # Torn => sidecar[k].type = type)
\* Slip: the checksum is not compared.
ValidIfReadable(k) == sidecar[k] # Torn /\ tensors[k].data # Torn

\* The checksum of the tensors, the only validation there is.
Valid(k) == sidecar[k] # Torn /\ tensors[k].data = sidecar[k].checksum

\* _load_entry: a plain layer comes back as the pair it was, the two triples of a
\* quantized one as six arrays, which no cache accepts as its state.
Loaded(k) == [state |-> tensors[k].data.state, type |-> tensors[k].data.type]
Restorable(k) == Loaded(k).type # "QuantizedKVCache"

Without(f, k) == Restrict(f, DOMAIN f \ {k})

------------------------------------------------------------------------------
(* store_sync, step by step as far as a crash can tell the steps apart. *)

\* What _evict_until_room waits for: the files there are, and the tensors to come.
HasRoom(bytes) == Usage + bytes <= DiskBudget
RoomMade == age = << >> \/ HasRoom(writer.bytes)

\* "already on disk" when there is a file of that name, whatever is in it.
StoreCalled(key, state, type) ==
  /\ writer = Idle
  /\ key \notin DOMAIN tensors
  /\ writer' = [at |-> "evict", key |-> key,
                data |-> [state |-> state, type |-> type], bytes |-> Len(state) * BytesPer[type]]
  /\ UNCHANGED <<tensors, sidecar, age, forced>>

\* _evict_until_room deletes the tensors of the oldest key, then its sidecar.
EvictTensors ==
  /\ writer.at = "evict"
  /\ ~RoomMade
  /\ tensors' = Without(tensors, Head(age))
  /\ age' = Tail(age)
  /\ writer' = [at |-> "evict_sidecar", key |-> writer.key, data |-> writer.data,
                bytes |-> writer.bytes, victim |-> Head(age)]
  /\ UNCHANGED <<sidecar, forced>>

EvictSidecar ==
  /\ writer.at = "evict_sidecar"
  /\ sidecar' = Without(sidecar, writer.victim)
  /\ writer' = [at |-> "evict", key |-> writer.key, data |-> writer.data, bytes |-> writer.bytes]
  /\ UNCHANGED <<tensors, age, forced>>

\* Room is made; or the size of a file cannot be read or a file not be deleted, which
\* _evict_until_room takes for its end: the store goes on with the room there is.
EvictionOver ==
  \/ writer.at = "evict" /\ (RoomMade \/ MayFailIO)
  \/ writer.at = "evict_sidecar" /\ MayFailIO

Saving(content) ==
  /\ EvictionOver
  /\ tensors' = With(tensors, writer.key, [data |-> content, bytes |-> writer.bytes])
  /\ age' = Append(age, writer.key)
  /\ forced' = ~RoomMade

SaveTensors ==
  /\ Saving(writer.data)
  /\ writer' = [at |-> "sidecar", key |-> writer.key, data |-> writer.data,
                bytes |-> writer.bytes]
  /\ UNCHANGED sidecar

SaveSidecar ==
  /\ writer.at = "sidecar"
  /\ sidecar' = With(sidecar, writer.key,
                     [n |-> Len(writer.data.state), type |-> writer.data.type,
                      checksum |-> writer.data])
  /\ writer' = Idle
  /\ UNCHANGED <<tensors, age, forced>>

\* The disk is full or fails: the exception is swallowed, the file that was being
\* written stays as it is.
SaveFails ==
  /\ writer' = Idle
  /\ \/ Saving(Torn) /\ UNCHANGED sidecar
     \/ /\ writer.at = "sidecar"
        /\ sidecar' = With(sidecar, writer.key, Torn)
        /\ UNCHANGED <<tensors, age, forced>>

\* The process dies between two steps of a store; the files stay.
CrashedOnDisk == writer' = Idle /\ UNCHANGED <<tensors, sidecar, age, forced>>

StoreStep == EvictTensors \/ EvictSidecar \/ SaveTensors \/ SaveSidecar \/ SaveFails

------------------------------------------------------------------------------
\* The files exceed the budget by no more than the header of the last one, or there is
\* one file, or the last one was written after its eviction had failed.
DiskBounded ==
  forced \/ Usage <= DiskBudget + HeaderBytes \/ Cardinality(DOMAIN tensors) = 1
==============================================================================
