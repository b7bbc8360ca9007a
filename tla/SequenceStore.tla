---------------------------- MODULE SequenceStore ----------------------------
(***************************************************************************)
(* What a paged cache promises its users: every sequence, and every fork   *)
(* taken of one, is a value of its own.  A call changes the sequence it    *)
(* names and no other, and an append adds all its tokens or none.          *)
(***************************************************************************)
EXTENDS SequencesExt, Integers

CONSTANTS SeqIds, Forks, Tokens,
          MaxAppend   \* bounds the tokens of one append

VARIABLE content   \* the tokens of each sequence and fork that exists

Init == content = << >>

\* The sequences with the value v for x, new or not.
With(f, x, v) == [y \in DOMAIN f \cup {x} |-> IF y = x THEN v ELSE f[y]]

Create(s) == content' = With(content, s, << >>)
Extend(s, ts) == s \in DOMAIN content /\ content' = [content EXCEPT ![s] = @ \o ts]
Drop(x) == x \in DOMAIN content /\ content' = Restrict(content, DOMAIN content \ {x})
Fork(f, s) == s \in DOMAIN content /\ content' = With(content, f, content[s])
Overwrite(f, i, t) == /\ f \in DOMAIN content
                      /\ i \in DOMAIN content[f]
                      /\ content' = [content EXCEPT ![f][i] = t]

Next == \/ \E s \in SeqIds : Create(s) \/ \E ts \in BoundedSeq(Tokens, MaxAppend) : Extend(s, ts)
        \/ \E x \in SeqIds \cup Forks : Drop(x)
        \/ \E f \in Forks, s \in SeqIds : Fork(f, s)
        \/ \E f \in Forks, t \in Tokens :
             f \in DOMAIN content /\ \E i \in DOMAIN content[f] : Overwrite(f, i, t)

Spec == Init /\ [][Next]_content
==============================================================================
