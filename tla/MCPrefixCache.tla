---------------------------- MODULE MCPrefixCache ----------------------------
EXTENDS PrefixCache

\* A chunk, two prompts that continue it (in a partial chunk and in a whole one), and
\* a prompt with nothing in common.
SharedPrompts == {<<1, 2>>, <<1, 2, 3>>, <<1, 2, 3, 4>>, <<5>>}
ChunkAndMore == {<<1, 2>>, <<1, 2, 3>>}
Bytes == [KVCache |-> 2, QuantizedKVCache |-> 1]
Types == {"KVCache", "QuantizedKVCache"}
==============================================================================
