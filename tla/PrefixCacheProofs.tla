-------------------------- MODULE PrefixCacheProofs --------------------------
(***************************************************************************)
(* Proofs about PrefixCache, for every block size, budget, set of prompts  *)
(* and kinds of cache.  PrefixInv is inductive: the books of the memory    *)
(* tier are in order, its entries and the readable sidecars on disk hold   *)
(* what their keys stand for, and so does the store under way.  That a key *)
(* is an order of chunks, a store a loop of turns and a removal one of     *)
(* elements are recursive functions: each is shown to exist by induction   *)
(* over its domain (Upwards), and its values by another.                   *)
(***************************************************************************)
EXTENDS PrefixCache, SumLemmas, SequenceTheorems

------------------------------------------------------------------------------
(* Recursive functions: that they exist, and induction over their domains. *)

\* What holds at 0 and is kept by every step up to n holds up to n; B are the exceptions.
LEMMA Upwards ==
  ASSUME NEW n \in Nat, NEW B \in SUBSET (0..n), 0 \notin B,
         \A i \in 1..n : i - 1 \notin B => i \notin B
  PROVE  B = {}
<1> SUFFICES ASSUME B # {} PROVE FALSE
  OBVIOUS
<1>1. PICK i \in B : \A j \in B : i <= j
  BY LeastNat
<1>2. i \in 1..n /\ i - 1 \notin B
  BY <1>1
<1> QED BY <1>1, <1>2

\* Removed: one turn, and the function up to n.
TakenOut(s, D, i, x) == IF s[i] \in D THEN x ELSE Append(x, s[i])
Left(s, D, n, g) == g = [i \in 0..n |-> IF i = 0 THEN << >> ELSE TakenOut(s, D, i, g[i - 1])]

\* There is such a function.
LEMMA LeftExists ==
  ASSUME NEW s, NEW D, NEW n \in Nat
  PROVE  \E g : Left(s, D, n, g)
<1> DEFINE P(m) == \E g : Left(s, D, m, g)
           B == {m \in 0..n : ~P(m)}
<1>1. P(0)
  <2> DEFINE g == [i \in 0..0 |-> << >>]
  <2>1. Left(s, D, 0, g)
    BY DEF Left
  <2> QED BY <2>1
<1>2. ASSUME NEW m \in 1..n, P(m - 1) PROVE P(m)
  <2>1. PICK g : Left(s, D, m - 1, g)
    BY <1>2
  <2>2. \A i \in 0..m - 1 : g[i] = IF i = 0 THEN << >> ELSE TakenOut(s, D, i, g[i - 1])
    BY <2>1 DEF Left
  <2> DEFINE h == [i \in 0..m |-> IF i = m THEN TakenOut(s, D, m, g[m - 1]) ELSE g[i]]
  <2>3. /\ h[m] = TakenOut(s, D, m, g[m - 1]) /\ h[m - 1] = g[m - 1]
        /\ \A i \in 0..m - 1 : h[i] = g[i] /\ (i # 0 => h[i - 1] = g[i - 1])
    OBVIOUS
  <2>4. h = [i \in 0..m |-> h[i]]
    OBVIOUS
  <2> HIDE DEF h
  <2>5. \A i \in 0..m : h[i] = IF i = 0 THEN << >> ELSE TakenOut(s, D, i, h[i - 1])
    BY <2>2, <2>3
  <2>6. Left(s, D, m, h)
    BY <2>4, <2>5 DEF Left
  <2> QED BY <2>6
<1> HIDE DEF P
<1>3. B \in SUBSET (0..n) /\ 0 \notin B
  BY <1>1
<1>4. \A i \in 1..n : i - 1 \notin B => i \notin B
  BY <1>2
<1>5. n \notin B
  <2> HIDE DEF B
  <2> QED BY <1>3, <1>4, Upwards
<1>6. P(n)
  BY <1>5
<1> QED BY <1>6 DEF P

\* Removed is its last value.
LEMMA RemovedBy ==
  ASSUME NEW s, Len(s) \in Nat, NEW D
  PROVE  \E g : /\ g[0] = << >>
                /\ \A i \in 1..Len(s) : g[i] = TakenOut(s, D, i, g[i - 1])
                /\ Removed(s, D) = g[Len(s)]
<1> DEFINE g == CHOOSE h : Left(s, D, Len(s), h)
<1>1. Left(s, D, Len(s), g)
  BY LeftExists
<1>2. Removed(s, D) = g[Len(s)]
  BY DEF Removed, Left, TakenOut
<1> HIDE DEF g
<1>3. \A i \in 0..Len(s) : g[i] = IF i = 0 THEN << >> ELSE TakenOut(s, D, i, g[i - 1])
  BY <1>1 DEF Left
<1> QED BY <1>2, <1>3

\* FlattenSeq: a sequence of sequences, one after the other.
Joined(seqs, n, g) == g = [i \in 1..n |-> IF i = 1 THEN seqs[i] ELSE g[i - 1] \o seqs[i]]

\* There is such a function.
LEMMA JoinedExists ==
  ASSUME NEW seqs, NEW n \in Nat
  PROVE  \E g : Joined(seqs, n, g)
<1> DEFINE P(m) == \E g : Joined(seqs, m, g)
           B == {m \in 0..n : ~P(m)}
<1>1. P(0)
  <2> DEFINE g == [i \in 1..0 |-> seqs[i]]
  <2>1. Joined(seqs, 0, g)
    BY DEF Joined
  <2> QED BY <2>1
<1>2. ASSUME NEW m \in 1..n, P(m - 1) PROVE P(m)
  <2>1. PICK g : Joined(seqs, m - 1, g)
    BY <1>2
  <2>2. \A i \in 1..m - 1 : g[i] = IF i = 1 THEN seqs[i] ELSE g[i - 1] \o seqs[i]
    BY <2>1 DEF Joined
  <2>a. PICK v : v = IF m = 1 THEN seqs[m] ELSE g[m - 1] \o seqs[m]
    OBVIOUS
  <2> DEFINE h == [i \in 1..m |-> IF i = m THEN v ELSE g[i]]
  <2>b. \A i \in 1..m : h[i] = IF i = m THEN v ELSE g[i]
    OBVIOUS
  <2>3. /\ h[m] = v /\ (m # 1 => h[m - 1] = g[m - 1])
        /\ \A i \in 1..m - 1 : h[i] = g[i] /\ (i # 1 => h[i - 1] = g[i - 1])
    <3> HIDE DEF h
    <3> QED BY <2>b
  <2>4. h = [i \in 1..m |-> h[i]]
    OBVIOUS
  <2> HIDE DEF h
  <2>5. \A i \in 1..m : h[i] = IF i = 1 THEN seqs[i] ELSE h[i - 1] \o seqs[i]
    BY <2>2, <2>3, <2>a
  <2>6. Joined(seqs, m, h)
    BY <2>4, <2>5 DEF Joined
  <2> QED BY <2>6
<1> HIDE DEF P
<1>3. B \in SUBSET (0..n) /\ 0 \notin B
  BY <1>1
<1>4. \A i \in 1..n : i - 1 \notin B => i \notin B
  BY <1>2
<1>5. n \notin B
  <2> HIDE DEF B
  <2> QED BY <1>3, <1>4, Upwards
<1>6. P(n)
  BY <1>5
<1> QED BY <1>6 DEF P

\* FlattenSeq is its last value, for one sequence at least.
LEMMA FlattenedBy ==
  ASSUME NEW seqs, Len(seqs) \in Nat \ {0}
  PROVE  \E g : /\ g[1] = seqs[1]
                /\ \A i \in 2..Len(seqs) : g[i] = g[i - 1] \o seqs[i]
                /\ FlattenSeq(seqs) = g[Len(seqs)]
<1> DEFINE g == CHOOSE h : Joined(seqs, Len(seqs), h)
<1>1. Joined(seqs, Len(seqs), g)
  BY JoinedExists
<1>2. FlattenSeq(seqs) = g[Len(seqs)]
  BY DEF FlattenSeq, Joined
<1> HIDE DEF g
<1>3. \A i \in 1..Len(seqs) : g[i] = IF i = 1 THEN seqs[i] ELSE g[i - 1] \o seqs[i]
  BY <1>1 DEF Joined
<1>4. 1 \in 1..Len(seqs) /\ \A i \in 2..Len(seqs) : i \in 1..Len(seqs) /\ i # 1
  OBVIOUS
<1>5. g[1] = seqs[1] /\ \A i \in 2..Len(seqs) : g[i] = g[i - 1] \o seqs[i]
  BY <1>3, <1>4
<1> QED BY <1>2, <1>5

\* Stored: the entries after each turn.
Turn(hashes, state, type, lengths, i, x) == StoredPrefix(x, hashes, state, type, lengths[i])
Turns(m0, hashes, state, type, lengths, n, g) ==
  g = [i \in 0..n |-> IF i = 0 THEN m0 ELSE Turn(hashes, state, type, lengths, i, g[i - 1])]

\* There is such a function.
LEMMA TurnsExists ==
  ASSUME NEW m0, NEW hashes, NEW state, NEW type, NEW lengths, NEW n \in Nat
  PROVE  \E g : Turns(m0, hashes, state, type, lengths, n, g)
<1> DEFINE P(m) == \E g : Turns(m0, hashes, state, type, lengths, m, g)
           B == {m \in 0..n : ~P(m)}
<1>1. P(0)
  <2> DEFINE g == [i \in 0..0 |-> m0]
  <2>1. Turns(m0, hashes, state, type, lengths, 0, g)
    BY DEF Turns
  <2> QED BY <2>1
<1>2. ASSUME NEW m \in 1..n, P(m - 1) PROVE P(m)
  <2>1. PICK g : Turns(m0, hashes, state, type, lengths, m - 1, g)
    BY <1>2
  <2>2. \A i \in 0..m - 1 : g[i] = IF i = 0 THEN m0 ELSE Turn(hashes, state, type, lengths, i, g[i - 1])
    BY <2>1 DEF Turns
  <2> DEFINE h == [i \in 0..m |-> IF i = m THEN Turn(hashes, state, type, lengths, m, g[m - 1]) ELSE g[i]]
  <2>3. /\ h[m] = Turn(hashes, state, type, lengths, m, g[m - 1]) /\ h[m - 1] = g[m - 1]
        /\ \A i \in 0..m - 1 : h[i] = g[i] /\ (i # 0 => h[i - 1] = g[i - 1])
    OBVIOUS
  <2>4. h = [i \in 0..m |-> h[i]]
    OBVIOUS
  <2> HIDE DEF h
  <2>5. \A i \in 0..m : h[i] = IF i = 0 THEN m0 ELSE Turn(hashes, state, type, lengths, i, h[i - 1])
    BY <2>2, <2>3
  <2>6. Turns(m0, hashes, state, type, lengths, m, h)
    BY <2>4, <2>5 DEF Turns
  <2> QED BY <2>6
<1> HIDE DEF P
<1>3. B \in SUBSET (0..n) /\ 0 \notin B
  BY <1>1
<1>4. \A i \in 1..n : i - 1 \notin B => i \notin B
  BY <1>2
<1>5. n \notin B
  <2> HIDE DEF B
  <2> QED BY <1>3, <1>4, Upwards
<1>6. P(n)
  BY <1>5
<1> QED BY <1>6 DEF P

\* Stored is its last value when the loop runs.
LEMMA StoredBy ==
  ASSUME NEW m, NEW hashes, NEW state, NEW type, NEW n \in Nat \ {0},
         hashes \notin DOMAIN m.entries, Len(PrefixLengths(n)) \in Nat
  PROVE  \E g : /\ g[0] = m
                /\ \A i \in 1..Len(PrefixLengths(n)) :
                     g[i] = StoredPrefix(g[i - 1], hashes, state, type, PrefixLengths(n)[i])
                /\ Stored(m, hashes, state, type, n) = g[Len(PrefixLengths(n))]
<1> DEFINE ls == PrefixLengths(n)
           g == CHOOSE h : Turns(m, hashes, state, type, ls, Len(ls), h)
<1>1. Turns(m, hashes, state, type, ls, Len(ls), g)
  <2> HIDE DEF ls
  <2> QED BY TurnsExists
<1>2. Stored(m, hashes, state, type, n) = g[Len(ls)]
  BY DEF Stored, Turns, Turn
<1> HIDE DEF g, ls
<1>3. \A i \in 0..Len(ls) : g[i] = IF i = 0 THEN m ELSE Turn(hashes, state, type, ls, i, g[i - 1])
  BY <1>1 DEF Turns
<1> QED BY <1>2, <1>3 DEF Turn, ls

------------------------------------------------------------------------------
(* Orders of use: sequences that name each of some keys once. *)

OrderOf(s, K) == s \in Seq(K) /\ IsInjective(s) /\ ToSet(s) = K

\* A key that is not in it comes last.
LEMMA OrderAppend ==
  ASSUME NEW K, NEW s, OrderOf(s, K), NEW e, e \notin K
  PROVE  /\ OrderOf(Append(s, e), K \cup {e})
         /\ Append(s, e) # << >> /\ Last(Append(s, e)) = e
         /\ Len(Append(s, e)) = Len(s) + 1 /\ \A i \in DOMAIN s : Append(s, e)[i] = s[i]
<1> DEFINE t == Append(s, e)
<1>1. s \in Seq(K) /\ s \in Seq(K \cup {e}) /\ Len(s) \in Nat /\ DOMAIN s = 1..Len(s)
  BY DEF OrderOf
<1>2. /\ t \in Seq(K \cup {e}) /\ t # << >> /\ Len(t) = Len(s) + 1
      /\ \A i \in 1..Len(s) : t[i] = s[i] /\ t[Len(s) + 1] = e
  BY <1>1, AppendProperties
<1>3. t[Len(s) + 1] = e
  BY <1>1
<1> HIDE DEF t
<1>4. DOMAIN t = 1..Len(s) + 1
  BY <1>1, <1>2
<1>5. \A i \in DOMAIN t : \/ i \in DOMAIN s /\ t[i] = s[i] /\ s[i] \in K
                          \/ i = Len(s) + 1 /\ t[i] = e
  <2>1. \A i \in DOMAIN t : i \in 1..Len(s) \/ i = Len(s) + 1
    BY <1>1, <1>4
  <2>2. \A i \in 1..Len(s) : i \in DOMAIN s /\ s[i] \in K /\ t[i] = s[i]
    BY <1>1, <1>2
  <2> QED BY <1>3, <2>1, <2>2
<1>6. IsInjective(t)
  <2>1. \A i, j \in DOMAIN s : s[i] = s[j] => i = j
    BY DEF OrderOf, IsInjective
  <2> QED BY <1>5, <2>1 DEF IsInjective
<1>7. ToSet(t) = K \cup {e}
  <2>1. \A x \in K : \E i \in DOMAIN s : s[i] = x
    BY DEF OrderOf, ToSet
  <2>2. \A i \in DOMAIN s : i \in DOMAIN t /\ t[i] = s[i]
    BY <1>1, <1>2, <1>4
  <2>3. Len(s) + 1 \in DOMAIN t
    BY <1>1, <1>4
  <2>4. K \cup {e} \subseteq ToSet(t)
    BY <1>3, <2>1, <2>2, <2>3 DEF ToSet
  <2>5. ToSet(t) \subseteq K \cup {e}
    BY <1>5 DEF ToSet
  <2> QED BY <2>4, <2>5
<1>8. Last(t) = e
  BY <1>2, <1>3 DEF Last
<1> QED BY <1>1, <1>2, <1>6, <1>7, <1>8 DEF OrderOf, t

\* Taking keys out leaves an order of the others.
LEMMA OrderRemoved ==
  ASSUME NEW K, NEW s, OrderOf(s, K), NEW D
  PROVE  OrderOf(Removed(s, D), K \ D)
<1>1. s \in Seq(K) /\ Len(s) \in Nat /\ DOMAIN s = 1..Len(s) /\ \A i \in 1..Len(s) : s[i] \in K
  BY DEF OrderOf
<1>2. PICK g : /\ g[0] = << >>
               /\ \A i \in 1..Len(s) : g[i] = TakenOut(s, D, i, g[i - 1])
               /\ Removed(s, D) = g[Len(s)]
  BY <1>1, RemovedBy
<1> DEFINE Seen(i) == {s[j] : j \in 1..i} \ D
           B == {i \in 0..Len(s) : ~OrderOf(g[i], Seen(i))}
<1>3. 0 \notin B
  <2>1. OrderOf(g[0], {})
    BY <1>2 DEF OrderOf, IsInjective, ToSet
  <2>2. Seen(0) = {}
    OBVIOUS
  <2> QED BY <2>1, <2>2
<1>4. ASSUME NEW i \in 1..Len(s), i - 1 \notin B PROVE i \notin B
  <2>1. OrderOf(g[i - 1], Seen(i - 1)) /\ g[i] = TakenOut(s, D, i, g[i - 1])
    BY <1>1, <1>2, <1>4
  <2>2. CASE s[i] \in D
    <3>1. Seen(i) = Seen(i - 1)
      <4>1. \A j \in 1..i : j \in 1..i - 1 \/ j = i
        OBVIOUS
      <4>2. \A j \in 1..i - 1 : j \in 1..i
        OBVIOUS
      <4> QED BY <2>2, <4>1, <4>2
    <3> HIDE DEF Seen
    <3> QED BY <2>1, <2>2, <3>1 DEF TakenOut
  <2>3. CASE s[i] \notin D
    <3>1. Seen(i) = Seen(i - 1) \cup {s[i]}
      <4>1. \A j \in 1..i : j \in 1..i - 1 \/ j = i
        OBVIOUS
      <4>2. (\A j \in 1..i - 1 : j \in 1..i) /\ i \in 1..i
        OBVIOUS
      <4> QED BY <2>3, <4>1, <4>2
    <3>2. s[i] \notin Seen(i - 1)
      <4>1. \A j \in 1..i - 1 : j \in DOMAIN s /\ i \in DOMAIN s /\ j # i
        BY <1>1
      <4> QED BY <4>1 DEF OrderOf, IsInjective
    <3> HIDE DEF Seen
    <3>3. OrderOf(Append(g[i - 1], s[i]), Seen(i - 1) \cup {s[i]})
      BY <2>1, <3>2, OrderAppend
    <3> QED BY <2>1, <2>3, <3>1, <3>3 DEF TakenOut
  <2> QED BY <2>2, <2>3
<1>5. B \in SUBSET (0..Len(s)) /\ \A i \in 1..Len(s) : i - 1 \notin B => i \notin B
  BY <1>4
<1>6. Len(s) \notin B
  <2> HIDE DEF B
  <2> QED BY <1>1, <1>3, <1>5, Upwards
<1>7. OrderOf(Removed(s, D), Seen(Len(s)))
  <2> HIDE DEF Seen
  <2> QED BY <1>1, <1>2, <1>6
<1>8. Seen(Len(s)) = K \ D
  BY <1>1 DEF OrderOf, ToSet
<1> QED BY <1>7, <1>8

\* Behind the first n keys is an order of the others.
LEMMA OrderRest ==
  ASSUME NEW K, NEW s, OrderOf(s, K), NEW n \in 0..Len(s)
  PROVE  LET first == ToSet(SubSeq(s, 1, n))
             rest == SubSeq(s, n + 1, Len(s))
         IN /\ OrderOf(rest, K \ first) /\ first \subseteq K
            /\ Len(rest) = Len(s) - n /\ \A i \in 1..Len(s) - n : rest[i] = s[n + i]
            /\ \A i \in 1..n : s[i] \in first
<1>1. s \in Seq(K) /\ Len(s) \in Nat /\ DOMAIN s = 1..Len(s) /\ \A i \in 1..Len(s) : s[i] \in K
  BY DEF OrderOf
<1> DEFINE head == SubSeq(s, 1, n)
           rest == SubSeq(s, n + 1, Len(s))
<1>2. head \in Seq(K) /\ Len(head) = n /\ \A i \in 1..n : head[i] = s[i]
  BY <1>1, SubSeqProperties
<1>3. /\ rest \in Seq(K) /\ Len(rest) = Len(s) - n
      /\ \A i \in 1..Len(s) - n : rest[i] = s[n + i]
  <2>1. \A i \in n + 1..Len(s) : s[i] \in K
    BY <1>1
  <2>2. /\ rest \in Seq(K) /\ Len(rest) = IF n + 1 <= Len(s) THEN Len(s) - (n + 1) + 1 ELSE 0
        /\ \A i \in 1..Len(s) - (n + 1) + 1 : rest[i] = s[n + 1 + i - 1]
    BY <1>1, <2>1, SubSeqProperties
  <2> HIDE DEF rest
  <2>3. Len(rest) = Len(s) - n
    <3>1. Len(s) \in Nat /\ n \in Nat /\ n <= Len(s)
      BY <1>1
    <3>2. CASE n + 1 <= Len(s)
      <4>1. Len(rest) = Len(s) - (n + 1) + 1
        BY <2>2, <3>2
      <4> QED BY <3>1, <4>1
    <3>3. CASE ~(n + 1 <= Len(s))
      <4>1. Len(rest) = 0
        BY <2>2, <3>3
      <4> QED BY <3>1, <3>3, <4>1
    <3> QED BY <3>2, <3>3
  <2>4. \A i \in 1..Len(s) - n : i \in 1..Len(s) - (n + 1) + 1 /\ n + 1 + i - 1 = n + i
    BY <1>1
  <2> QED BY <2>2, <2>3, <2>4
<1> HIDE DEF head, rest
<1>4. DOMAIN head = 1..n /\ DOMAIN rest = 1..Len(s) - n
  BY <1>1, <1>2, <1>3
<1>5. ToSet(head) = {s[i] : i \in 1..n} /\ ToSet(rest) = {s[n + i] : i \in 1..Len(s) - n}
  <2>1. ToSet(head) = {head[i] : i \in 1..n} /\ ToSet(rest) = {rest[i] : i \in 1..Len(s) - n}
    BY <1>4 DEF ToSet
  <2>2. {head[i] : i \in 1..n} = {s[i] : i \in 1..n}
    BY <1>2
  <2>3. {rest[i] : i \in 1..Len(s) - n} = {s[n + i] : i \in 1..Len(s) - n}
    BY <1>3
  <2> QED BY <2>1, <2>2, <2>3
<1>6. \A i, j \in 1..Len(s) : s[i] = s[j] => i = j
  BY <1>1 DEF OrderOf, IsInjective
<1>7. ToSet(rest) = K \ ToSet(head)
  <2>1. ASSUME NEW x \in ToSet(rest) PROVE x \in K \ ToSet(head)
    <3>1. PICK i \in 1..Len(s) - n : x = s[n + i]
      BY <1>5
    <3>2. n + i \in 1..Len(s) /\ \A j \in 1..n : j \in 1..Len(s) /\ j # n + i
      BY <1>1
    <3> QED BY <1>1, <1>5, <1>6, <3>1, <3>2
  <2>2. ASSUME NEW x \in K \ ToSet(head) PROVE x \in ToSet(rest)
    <3>1. PICK i \in 1..Len(s) : x = s[i]
      BY <1>1 DEF OrderOf, ToSet
    <3>2. ~(i <= n)
      BY <1>5, <3>1
    <3>3. i - n \in 1..Len(s) - n /\ n + (i - n) = i
      BY <1>1, <3>2
    <3> QED BY <1>5, <3>1, <3>3
  <2> QED BY <2>1, <2>2
<1>8. ToSet(head) \subseteq K
  BY <1>1, <1>5
<1>9. IsInjective(rest)
  <2>1. \A i \in 1..Len(s) - n : n + i \in 1..Len(s)
    BY <1>1
  <2>2. \A i, j \in 1..Len(s) - n : n + i = n + j => i = j
    BY <1>1
  <2> QED BY <1>3, <1>4, <1>6, <2>1, <2>2 DEF IsInjective
<1>10. rest \in Seq(ToSet(rest))
  BY <1>3, <1>4 DEF ToSet
<1>11. \A i \in 1..n : s[i] \in ToSet(head)
  BY <1>5
<1> QED BY <1>3, <1>7, <1>8, <1>9, <1>10, <1>11 DEF OrderOf, head, rest

\* Without its oldest key.
LEMMA OrderTail ==
  ASSUME NEW K, NEW s, OrderOf(s, K), s # << >>
  PROVE  Head(s) \in K /\ OrderOf(Tail(s), K \ {Head(s)})
<1>1. s \in Seq(K) /\ Len(s) \in Nat /\ 1 \in 0..Len(s) /\ Head(s) = s[1] /\ Head(s) \in K
  BY DEF OrderOf
<1>2. Tail(s) = SubSeq(s, 1 + 1, Len(s))
  BY <1>1, TailIsSubSeq
<1>3. ToSet(SubSeq(s, 1, 1)) = {Head(s)}
  <2>1. SubSeq(s, 1, 1) \in Seq(K) /\ Len(SubSeq(s, 1, 1)) = 1 /\ SubSeq(s, 1, 1)[1] = s[1]
    <3>1. \A i \in 1..1 : s[i] \in K
      BY <1>1
    <3> QED BY <3>1, SubSeqProperties
  <2>2. DOMAIN SubSeq(s, 1, 1) = {1}
    BY <2>1
  <2> QED BY <1>1, <2>1, <2>2 DEF ToSet
<1>4. OrderOf(SubSeq(s, 1 + 1, Len(s)), K \ ToSet(SubSeq(s, 1, 1)))
  BY <1>1, OrderRest
<1> QED BY <1>1, <1>2, <1>3, <1>4

------------------
(* Sums over parts of a set; to be with the other sums. *)

\* A set falls into a part and the rest.
LEMMA SumParts ==
  ASSUME NEW S, IsFiniteSet(S), NEW T \in SUBSET S, NEW f, \A x \in S : f[x] \in Int
  PROVE  SumOf(f, S) = SumOf(f, T) + SumOf(f, S \ T)
<1> DEFINE B == {U \in SUBSET S : SumOf(f, S) # SumOf(f, U) + SumOf(f, S \ U)}
<1> SUFFICES ASSUME B # {} PROVE FALSE
  OBVIOUS
<1>1. \A s \in SUBSET S : IsFiniteSet(s) /\ SumOf(f, s) \in Int
  BY FS_Subset, SumType
<1>2. PICK U \in B : IsFiniteSet(U) /\ \A V \in B : V \subseteq U => V = U
  <2>1. B \in SUBSET SUBSET S
    OBVIOUS
  <2> HIDE DEF B
  <2> QED BY <2>1, SmallestSet
<1>3. U # {}
  <2> SUFFICES ASSUME U = {} PROVE FALSE
    OBVIOUS
  <2>1. SumOf(f, S) # SumOf(f, {}) + SumOf(f, S \ {})
    OBVIOUS
  <2>2. S \ {} = S /\ SumOf(f, {}) = 0
    BY SumEmpty
  <2>3. SumOf(f, S) # 0 + SumOf(f, S) /\ SumOf(f, S) \in Int
    BY <1>1, <2>1, <2>2
  <2> QED BY <2>3
<1>4. PICK x \in U : TRUE
  BY <1>3
<1> DEFINE V == U \ {x}
           W == S \ V
<1>5. V \in SUBSET S /\ W \in SUBSET S /\ x \in W /\ x \in S /\ W \ {x} = S \ U /\ V # U
  BY <1>4
<1>6. SumOf(f, S) = SumOf(f, V) + SumOf(f, W)
  BY <1>2, <1>5
<1>7. SumOf(f, U) = f[x] + SumOf(f, V)
  BY <1>1, <1>4, SumSplit
<1>8. SumOf(f, W) = f[x] + SumOf(f, W \ {x})
  <2>1. IsFiniteSet(W) /\ \A y \in W : f[y] \in Int
    BY <1>1, <1>5
  <2> HIDE DEF W
  <2> QED BY <1>5, <2>1, SumSplit
<1>9. SumOf(f, V) \in Int /\ SumOf(f, S \ U) \in Int /\ f[x] \in Int
  BY <1>1, <1>5
<1>10. SumOf(f, S) # SumOf(f, U) + SumOf(f, S \ U)
  OBVIOUS
<1> HIDE DEF V, W, B
<1>11. SumOf(f, W) = f[x] + SumOf(f, S \ U)
  BY <1>5, <1>8
<1> QED BY <1>6, <1>7, <1>9, <1>10, <1>11

\* One more element.
LEMMA SumMore ==
  ASSUME NEW S, IsFiniteSet(S), NEW x, x \notin S, NEW f, \A y \in S \cup {x} : f[y] \in Int
  PROVE  SumOf(f, S \cup {x}) = SumOf(f, S) + f[x]
<1>1. IsFiniteSet(S \cup {x}) /\ x \in S \cup {x} /\ (S \cup {x}) \ {x} = S
  BY FS_AddElement
<1>2. SumOf(f, S \cup {x}) = f[x] + SumOf(f, S)
  BY <1>1, SumSplit
<1>3. SumOf(f, S) \in Int /\ f[x] \in Int
  BY SumType
<1> QED BY <1>2, <1>3

------------------------------------------------------------------------------
(* The bytes of the entries in memory, and of the files on disk. *)

Sizes(m) == [k \in DOMAIN m.entries |-> m.entries[k].size]
BytesOf(files) == [k \in DOMAIN files |-> files[k].bytes + HeaderBytes]

\* The sizes of entries as the sum SumLemmas speaks of.
LEMMA SizeIsSum ==
  ASSUME NEW m, NEW S
  PROVE  SizeOf(m, S) = SumOf(Sizes(m), S)
  BY DEF SizeOf, SumFunctionOnSet, FoldFunctionOnSet, SumOf, MapThenSumSet, Sizes

\* The bytes on disk likewise.
LEMMA UsageIsSum ==
  Usage = SumOf(BytesOf(tensors), DOMAIN tensors)
  BY DEF Usage, FileSize, SumFunction, SumFunctionOnSet, FoldFunctionOnSet, SumOf, MapThenSumSet, BytesOf

------------------------------------------------------------------------------
(* The memory tier. *)

\* Its books: an order of use of all entries, and the bytes they take.
Books(m) ==
  /\ m = [entries |-> m.entries, order |-> m.order, used |-> m.used]
  /\ IsFiniteSet(DOMAIN m.entries)
  /\ \A k \in DOMAIN m.entries : m.entries[k].size \in Nat
  /\ OrderOf(m.order, DOMAIN m.entries)
  /\ m.used = SizeOf(m, DOMAIN m.entries) /\ m.used <= MemoryBudget

\* r is m without its n oldest entries.
LacksOldest(m, r, n) ==
  /\ r.order = SubSeq(m.order, n + 1, Len(m.order))
  /\ DOMAIN r.entries = DOMAIN m.entries \ ToSet(SubSeq(m.order, 1, n))
  /\ \A k \in DOMAIN r.entries : r.entries[k] = m.entries[k]

\* Of a finite set of sized entries all that is used is a natural.
LEMMA UsedNat ==
  ASSUME NEW m, Books(m), NEW S \in SUBSET DOMAIN m.entries
  PROVE  /\ IsFiniteSet(S) /\ SizeOf(m, S) \in Nat
         /\ m.used = SizeOf(m, S) + SizeOf(m, DOMAIN m.entries \ S)
<1> DEFINE D == DOMAIN m.entries
           f == Sizes(m)
<1>1. IsFiniteSet(D) /\ IsFiniteSet(S) /\ \A k \in D : f[k] \in Nat
  BY FS_Subset DEF Books, Sizes
<1>2. m.used = SumOf(f, D) /\ SizeOf(m, S) = SumOf(f, S) /\ SizeOf(m, D \ S) = SumOf(f, D \ S)
  BY SizeIsSum DEF Books
<1> HIDE DEF D, f
<1>3. S \in SUBSET D
  BY DEF D
<1>4. SumOf(f, S) \in Nat
  BY <1>1, <1>3, SumNat
<1>5. SumOf(f, D) = SumOf(f, S) + SumOf(f, D \ S)
  BY <1>1, <1>3, SumParts
<1> QED BY <1>1, <1>2, <1>4, <1>5 DEF D

\* _evict_until_room takes the oldest entries, as many as it needs.
LEMMA RoomFound ==
  ASSUME NEW m, Books(m), NEW needed \in Nat
  PROVE  \E n \in 0..Len(m.order) :
           /\ Books(WithRoom(m, needed)) /\ LacksOldest(m, WithRoom(m, needed), n)
           /\ WithRoom(m, needed).used + needed <= MemoryBudget \/ n = Len(m.order)
<1> DEFINE s == m.order
           D == DOMAIN m.entries
           First(n) == ToSet(SubSeq(s, 1, n))
           After(n) == m.used - SizeOf(m, First(n))
           enough == {n \in 0..Len(s) : After(n) + needed <= MemoryBudget \/ n = Len(s)}
           n == CHOOSE x \in enough : \A y \in enough : x <= y
           rest == SubSeq(s, n + 1, Len(s))
           r == [entries |-> Restrict(m.entries, ToSet(rest)), order |-> rest, used |-> After(n)]
<1>1. WithRoom(m, needed) = r
  BY DEF WithRoom
<1>2. OrderOf(s, D) /\ Len(s) \in Nat
  BY DEF Books, OrderOf
<1>3. n \in 0..Len(s) /\ (After(n) + needed <= MemoryBudget \/ n = Len(s))
  <2>1. enough \in SUBSET Nat /\ Len(s) \in enough
    BY <1>2
  <2>2. \E x \in enough : \A y \in enough : x <= y
    <3> HIDE DEF enough
    <3> QED BY <2>1, LeastNat
  <2>3. n \in enough
    <3> HIDE DEF enough
    <3> QED BY <2>2
  <2> HIDE DEF n
  <2> QED BY <2>3
<1> HIDE DEF n
<1>4. /\ OrderOf(rest, D \ First(n)) /\ First(n) \in SUBSET D /\ ToSet(rest) = D \ First(n)
  <2>1. OrderOf(rest, D \ First(n)) /\ First(n) \subseteq D
    BY <1>2, <1>3, OrderRest
  <2> QED BY <2>1 DEF OrderOf
<1> HIDE DEF rest
<1>5. /\ DOMAIN r.entries = D \ First(n) /\ r.order = rest /\ r.used = After(n)
      /\ \A k \in DOMAIN r.entries : r.entries[k] = m.entries[k]
      /\ r = [entries |-> r.entries, order |-> r.order, used |-> r.used]
  BY <1>4 DEF Restrict
<1> HIDE DEF r
<1>6. /\ m.used = SizeOf(m, First(n)) + SizeOf(m, D \ First(n))
      /\ SizeOf(m, First(n)) \in Nat /\ SizeOf(m, D \ First(n)) \in Nat
      /\ IsFiniteSet(D \ First(n))
  <2>1. First(n) \in SUBSET DOMAIN m.entries /\ D \ First(n) \in SUBSET DOMAIN m.entries
    BY <1>4
  <2> HIDE DEF First
  <2> QED BY <2>1, UsedNat
<1>7. SizeOf(r, D \ First(n)) = SizeOf(m, D \ First(n))
  <2> HIDE DEF First
  <2>1. \A k \in D \ First(n) : Sizes(r)[k] = Sizes(m)[k]
    BY <1>5 DEF Sizes
  <2>2. SumOf(Sizes(r), D \ First(n)) = SumOf(Sizes(m), D \ First(n))
    BY <1>6, <2>1, SumSame
  <2> QED BY <2>2, SizeIsSum
<1>8. m.used \in Nat /\ m.used <= MemoryBudget /\ MemoryBudget \in Nat
  <2>1. m.used \in Nat
    <3> HIDE DEF First
    <3> QED BY <1>6
  <2> QED BY <2>1, MemoryAssumption DEF Books
<1>9. r.used = SizeOf(m, D \ First(n)) /\ r.used <= MemoryBudget
  <2> HIDE DEF First
  <2>1. After(n) = m.used - SizeOf(m, First(n))
    OBVIOUS
  <2>2. r.used = m.used - SizeOf(m, First(n))
    BY <1>5
  <2> HIDE DEF After
  <2> QED BY <1>6, <1>8, <2>2
<1>10. \A k \in DOMAIN r.entries : r.entries[k].size \in Nat
  <2> HIDE DEF First
  <2> QED BY <1>5 DEF Books
<1>11. Books(r)
  <2> HIDE DEF First
  <2> QED BY <1>4, <1>5, <1>6, <1>7, <1>9, <1>10 DEF Books
<1>12. LacksOldest(m, r, n)
  BY <1>5 DEF LacksOldest, rest
<1>13. r.used + needed <= MemoryBudget \/ n = Len(s)
  BY <1>3, <1>5
<1> HIDE DEF First
<1> QED BY <1>1, <1>3, <1>11, <1>12, <1>13

------------------------------------------------------------------------------
(* Chunks: how many, where they end, what a prefix of them stands for. *)

\* What a quotient is.
LEMMA Quotient ==
  ASSUME NEW x \in Nat, NEW b \in Nat \ {0}
  PROVE  /\ x \div b \in Nat
         /\ (x \div b) * b <= x /\ x < (x \div b) * b + b
  OBVIOUS

\* Multiples of a block.
LEMMA Multiples ==
  ASSUME NEW i \in Nat, NEW j \in Nat, NEW b \in Nat \ {0}
  PROVE  /\ i * b \in Nat /\ j * b \in Nat
         /\ (i + 1) * b = i * b + b
         /\ i <= j => i * b <= j * b
         /\ i * b < j * b => i < j
         /\ i < j => i * b + b <= j * b
  OBVIOUS

\* The quotient is the number of blocks that fit.
LEMMA QuotientIs ==
  ASSUME NEW x \in Nat, NEW b \in Nat \ {0}, NEW q \in Nat, q * b <= x, x < q * b + b
  PROVE  x \div b = q
  OBVIOUS

\* The chunks of L tokens: each starts before the end, and the last one reaches it.
LEMMA ChunkEnds ==
  ASSUME NEW L \in Nat \ {0}
  PROVE  /\ ChunksOf(L) \in Nat \ {0}
         /\ L <= ChunksOf(L) * BlockSize
         /\ \A i \in 1..ChunksOf(L) : /\ (i - 1) * BlockSize \in Nat
                                      /\ (i - 1) * BlockSize < L
                                      /\ i * BlockSize = (i - 1) * BlockSize + BlockSize
<1> DEFINE b == BlockSize
           c == ChunksOf(L)
<1>1. b \in Nat \ {0}
  BY KeysAssumption
<1>2. c \in Nat /\ c * b <= L + b - 1 /\ L + b - 1 < c * b + b
  <2>1. L + b - 1 \in Nat
    BY <1>1
  <2> HIDE DEF b
  <2> QED BY <1>1, <2>1, Quotient DEF ChunksOf, b
<1> HIDE DEF c
<1>3. c # 0
  BY <1>1, <1>2
<1>4. c * b \in Nat
  BY <1>1, <1>2
<1>5. L <= c * b
  <2> HIDE DEF b
  <2> QED BY <1>1, <1>2, <1>4
<1>6. ASSUME NEW i \in 1..c
      PROVE  (i - 1) * b \in Nat /\ (i - 1) * b < L /\ i * b = (i - 1) * b + b
  <2>1. i - 1 \in Nat /\ i - 1 < c
    BY <1>2
  <2>2. (i - 1) * b \in Nat /\ (i - 1) * b + b <= c * b
    BY <1>1, <1>2, <2>1, Multiples
  <2>3. ((i - 1) + 1) * b = (i - 1) * b + b
    BY <1>1, <2>1, Multiples
  <2>4. (i - 1) + 1 = i
    BY <1>2
  <2>5. (i - 1) * b < L
    <3> HIDE DEF b
    <3> QED BY <1>1, <1>2, <1>4, <2>2
  <2> QED BY <2>2, <2>3, <2>4, <2>5
<1> QED BY <1>2, <1>3, <1>5, <1>6 DEF c

\* Where the first i chunks of the tokens p end.
Cut(p, i) == IF i * BlockSize < Len(p) THEN i * BlockSize ELSE Len(p)

\* The chunks of a prompt are those of HashChunks, and sequences of tokens.
LEMMA ChunksAre ==
  ASSUME NEW p \in Seq(Nat), p # << >>
  PROVE  /\ Len(p) \in Nat \ {0} /\ Len(HashChunks(p)) = ChunksOf(Len(p))
         /\ \A i \in 1..Len(HashChunks(p)) :
              HashChunks(p)[i] = SubSeq(p, (i - 1) * BlockSize + 1, Cut(p, i))
         /\ HashChunks(p) \in Seq(Seq(Nat))
<1> DEFINE c == ChunksOf(Len(p))
           h == HashChunks(p)
<1>1. Len(p) \in Nat \ {0} /\ \A i \in 1..Len(p) : p[i] \in Nat
  BY EmptySeq
<1>2. /\ c \in Nat \ {0}
      /\ \A i \in 1..c : /\ (i - 1) * BlockSize \in Nat
                         /\ (i - 1) * BlockSize < Len(p)
                         /\ i * BlockSize = (i - 1) * BlockSize + BlockSize
  BY <1>1, ChunkEnds
<1> HIDE DEF c
<1>3. h = [i \in 1..c |-> SubSeq(p, (i - 1) * BlockSize + 1, Cut(p, i))]
  BY DEF HashChunks, Cut, c
<1>4. ASSUME NEW i \in 1..c PROVE SubSeq(p, (i - 1) * BlockSize + 1, Cut(p, i)) \in Seq(Nat)
  <2> DEFINE a == (i - 1) * BlockSize
             z == Cut(p, i)
  <2>1. a \in Nat /\ z \in Nat /\ z <= Len(p)
    <3>1. i * BlockSize \in Nat
      BY <1>2, KeysAssumption
    <3> QED BY <1>1, <1>2, <3>1 DEF Cut
  <2> HIDE DEF a, z
  <2>2. \A j \in a + 1..z : p[j] \in Nat
    BY <1>1, <2>1
  <2>3. SubSeq(p, a + 1, z) \in Seq(Nat)
    BY <2>1, <2>2, SubSeqProperties
  <2> QED BY <2>3 DEF a, z
<1> HIDE DEF h
<1>5. h \in Seq(Seq(Nat)) /\ Len(h) = c
  <2> DEFINE T == Seq(Nat)
  <2>1. DOMAIN h = 1..c /\ \A i \in 1..c : h[i] \in T
    BY <1>3, <1>4
  <2> HIDE DEF T
  <2>2. h \in [1..c -> T]
    BY <1>3, <2>1
  <2>3. h \in Seq(T) /\ Len(h) = c
    BY <1>2, <2>2
  <2> QED BY <2>3 DEF T
<1> QED BY <1>1, <1>3, <1>5 DEF h, c

\* A key stands for the tokens up to the end of its last chunk.
LEMMA KeyStands ==
  ASSUME NEW p \in Seq(Nat), p # << >>, NEW n \in 1..Len(HashChunks(p))
  PROVE  /\ Cut(p, n) \in 1..Len(p)
         /\ FlattenSeq(SubSeq(HashChunks(p), 1, n)) = SubSeq(p, 1, Cut(p, n))
<1> DEFINE h == HashChunks(p)
           key == SubSeq(h, 1, n)
           b == BlockSize
<1>1. /\ Len(p) \in Nat \ {0} /\ Len(h) = ChunksOf(Len(p)) /\ h \in Seq(Seq(Nat))
      /\ \A i \in 1..Len(h) : h[i] = SubSeq(p, (i - 1) * b + 1, Cut(p, i))
  BY ChunksAre
<1> HIDE DEF h
<1>2. /\ Len(h) \in Nat \ {0} /\ n \in Nat \ {0} /\ n <= Len(h)
      /\ \A i \in 1..n : i \in 1..Len(h)
  BY <1>1 DEF h
<1>3. \A i \in 1..Len(h) : /\ (i - 1) * b \in Nat /\ (i - 1) * b < Len(p)
                           /\ i * b = (i - 1) * b + b
  BY <1>1, ChunkEnds
<1>4. b \in Nat \ {0}
  BY KeysAssumption
<1>5. ASSUME NEW i \in 1..Len(h)
      PROVE  Cut(p, i) \in 1..Len(p) /\ (i - 1) * b <= Cut(p, i)
  <2>1. i * b = (i - 1) * b + b /\ (i - 1) * b \in Nat /\ (i - 1) * b < Len(p)
    BY <1>3
  <2> HIDE DEF b
  <2>2. PICK a \in Nat : a = (i - 1) * b
    BY <2>1
  <2>3. PICK z \in Nat : z = i * b
    BY <2>1, <1>4
  <2>4. z = a + b /\ a < Len(p)
    BY <2>1, <2>2, <2>3
  <2>5. Cut(p, i) = IF z < Len(p) THEN z ELSE Len(p)
    BY <2>3 DEF Cut, b
  <2>6. Cut(p, i) \in 1..Len(p) /\ a <= Cut(p, i)
    BY <1>1, <1>4, <2>4, <2>5
  <2> QED BY <2>2, <2>6
<1>6. ASSUME NEW i \in 2..Len(h)
      PROVE  Cut(p, i - 1) = (i - 1) * b
  BY <1>3 DEF Cut
<1>7. Len(key) = n /\ \A i \in 1..n : key[i] = h[i]
  <2>1. \A i \in 1..n : h[i] \in Seq(Nat)
    BY <1>1, <1>2
  <2> QED BY <1>2, <2>1, SubSeqProperties
<1> HIDE DEF key
<1>8. PICK g : /\ g[1] = key[1]
               /\ \A i \in 2..n : g[i] = g[i - 1] \o key[i]
               /\ FlattenSeq(key) = g[n]
  BY <1>2, <1>7, FlattenedBy
<1> DEFINE Bad == {i \in 1..n : g[i] # SubSeq(p, 1, Cut(p, i))}
<1>9. 1 \notin Bad
  <2>1. h[1] = SubSeq(p, (1 - 1) * b + 1, Cut(p, 1))
    BY <1>1, <1>2
  <2>2. (1 - 1) * b + 1 = 1
    BY <1>4
  <2> QED BY <1>2, <1>7, <1>8, <2>1, <2>2
<1>10. ASSUME NEW i \in 1..n, i - 1 \notin Bad PROVE i \notin Bad
  <2>1. CASE i = 1
    BY <1>9, <2>1
  <2>2. CASE i # 1
    <3>1. i \in 2..n /\ i \in 2..Len(h) /\ i - 1 \in 1..n /\ i \in 1..Len(h)
      BY <1>2, <2>2
    <3>2. g[i] = SubSeq(p, 1, Cut(p, i - 1)) \o h[i]
      BY <1>7, <1>8, <1>10, <3>1
    <3> DEFINE a == (i - 1) * b
               z == Cut(p, i)
    <3>3. h[i] = SubSeq(p, a + 1, z) /\ Cut(p, i - 1) = a
      BY <1>1, <1>6, <3>1
    <3>4. a \in Nat /\ a <= z /\ z \in 1..Len(p)
      BY <1>3, <1>5, <3>1
    <3> HIDE DEF a, z
    <3>5. SubSeq(p, 1, a) \o SubSeq(p, a + 1, z) = SubSeq(p, 1, z)
      <4>1. /\ 1 \in 1..Len(p) + 1 /\ a \in 1 - 1..Len(p) /\ z \in a..Len(p)
        BY <1>1, <3>4
      <4> QED BY <4>1, ConcatAdjacentSubSeq
    <3> QED BY <3>2, <3>3, <3>5 DEF z
  <2> QED BY <2>1, <2>2
<1>11. Bad = {}
  <2>1. Bad \in SUBSET (0..n) /\ 0 \notin Bad
    BY <1>2
  <2> HIDE DEF Bad
  <2> QED BY <1>2, <1>10, <2>1, Upwards
<1>12. n \in 1..n /\ n \in 1..Len(h)
  BY <1>2
<1>13. FlattenSeq(key) = SubSeq(p, 1, Cut(p, n))
  BY <1>8, <1>11, <1>12
<1> QED BY <1>5, <1>12, <1>13 DEF key, h

\* What store_sync visits: the whole prompt, then chunk boundaries, the first one last.
LEMMA LengthsVisited ==
  ASSUME NEW n \in Nat \ {0}
  PROVE  /\ Len(PrefixLengths(n)) \in Nat \ {0}
         /\ \A i \in 1..Len(PrefixLengths(n)) :
              \/ PrefixLengths(n)[i] = n
              \/ \E j \in Nat \ {0} : PrefixLengths(n)[i] = j * BlockSize /\ j * BlockSize < n
         /\ PrefixLengths(n)[Len(PrefixLengths(n))] = IF BlockSize < n THEN BlockSize ELSE n
<1> DEFINE b == BlockSize
           q == (n - 1) \div b
           f == [i \in 1..q |-> i * b]
           r == [i \in 1..q |-> (q - i + 1) * b]
           ls == PrefixLengths(n)
<1>1. b \in Nat \ {0}
  BY KeysAssumption
<1>2. q \in Nat /\ q * b <= n - 1 /\ n - 1 < q * b + b
  <2>1. n - 1 \in Nat
    OBVIOUS
  <2> HIDE DEF b
  <2> QED BY <1>1, <2>1, Quotient
<1> HIDE DEF q
<1>3. f \in Seq(Nat) /\ Len(f) = q
  BY <1>1, <1>2
<1>4. ASSUME NEW i \in 1..q PROVE q - i + 1 \in 1..q /\ (q - i + 1) * b \in Nat
  <2>1. q - i + 1 \in 1..q
    BY <1>2
  <2> QED BY <1>1, <2>1
<1>5. Reverse(f) = r
  <2>1. Reverse(f) = [i \in 1..q |-> f[(q - i) + 1]]
    <3> HIDE DEF f
    <3> QED BY <1>3 DEF Reverse
  <2>2. \A i \in 1..q : f[(q - i) + 1] = (q - i + 1) * b
    BY <1>4
  <2> QED BY <2>1, <2>2
<1>6. /\ r \in Seq(Nat) /\ Len(r) = q /\ \A i \in 1..q : r[i] = (q - i + 1) * b
      /\ <<n>> \in Seq(Nat) /\ Len(<<n>>) = 1 /\ <<n>>[1] = n
  <2>1. r \in [1..q -> Nat]
    BY <1>4
  <2> QED BY <1>2, <2>1
<1> HIDE DEF r
<1>7. ls = <<n>> \o r
  BY <1>5 DEF PrefixLengths, q
<1>8. /\ Len(ls) = 1 + q
      /\ \A i \in 1..1 + q : ls[i] = IF i <= 1 THEN n ELSE r[i - 1]
  <2>1. /\ Len(<<n>> \o r) = Len(<<n>>) + Len(r)
        /\ \A i \in 1..Len(<<n>>) + Len(r) :
             (<<n>> \o r)[i] = IF i <= Len(<<n>>) THEN <<n>>[i] ELSE r[i - Len(<<n>>)]
    BY <1>6, ConcatProperties
  <2> QED BY <1>6, <1>7, <2>1
<1> HIDE DEF ls
<1>9. ls[1] = n
  BY <1>2, <1>8
<1>10. ASSUME NEW i \in 2..1 + q PROVE ls[i] = (q - i + 2) * b
  <2>1. i - 1 \in 1..q /\ i \in 1..1 + q /\ ~(i <= 1)
    BY <1>2
  <2>2. ls[i] = (q - (i - 1) + 1) * b
    BY <1>6, <1>8, <2>1
  <2>3. q - (i - 1) + 1 = q - i + 2
    BY <1>2
  <2> QED BY <2>2, <2>3
<1>11. ASSUME NEW i \in 2..1 + q PROVE \E j \in Nat \ {0} : ls[i] = j * b /\ j * b < n
  <2> DEFINE j == q - i + 2
  <2>1. j \in Nat \ {0} /\ j <= q
    BY <1>2
  <2> HIDE DEF j
  <2>2. j * b <= q * b /\ j * b \in Nat /\ q * b \in Nat
    BY <1>1, <1>2, <2>1, Multiples
  <2>3. j * b < n
    <3> HIDE DEF b
    <3> QED BY <1>2, <2>2
  <2> QED BY <1>10, <2>1, <2>3 DEF j
<1>12. ls[1 + q] = IF b < n THEN b ELSE n
  <2>1. CASE q = 0
    <3>1. ~(b < n)
      BY <1>1, <1>2, <2>1
    <3> QED BY <1>9, <2>1, <3>1
  <2>2. CASE q # 0
    <3>1. 1 + q \in 2..1 + q /\ q - (1 + q) + 2 = 1 /\ 1 <= q
      BY <1>2, <2>2
    <3>2. ls[1 + q] = 1 * b
      BY <1>10, <3>1
    <3>3. 1 * b = b
      BY <1>1
    <3>4. 1 * b <= q * b /\ q * b \in Nat
      BY <1>1, <1>2, <3>1, Multiples
    <3>5. b < n
      <4> HIDE DEF b
      <4> QED BY <1>1, <1>2, <3>3, <3>4
    <3> QED BY <3>2, <3>3, <3>5
  <2> QED BY <2>1, <2>2
<1>13. \A i \in 1..1 + q : i = 1 \/ i \in 2..1 + q
  BY <1>2
<1> QED BY <1>2, <1>8, <1>9, <1>11, <1>12, <1>13 DEF ls

\* The key of a visited length ends where the length does.
LEMMA LengthOfKey ==
  ASSUME NEW p \in Seq(Nat), p # << >>, NEW n,
         n = Len(p) \/ \E j \in Nat \ {0} : n = j * BlockSize /\ j * BlockSize < Len(p)
  PROVE  /\ n \in 1..Len(p)
         /\ ChunksOf(n) \in 1..Len(HashChunks(p)) /\ Cut(p, ChunksOf(n)) = n
         /\ n = Len(p) => ChunksOf(n) = Len(HashChunks(p))
<1> DEFINE b == BlockSize
           L == Len(p)
<1>1. L \in Nat \ {0} /\ Len(HashChunks(p)) = ChunksOf(L) /\ b \in Nat \ {0}
  BY ChunksAre, KeysAssumption
<1>2. /\ ChunksOf(L) \in Nat \ {0} /\ L <= ChunksOf(L) * b
  BY <1>1, ChunkEnds
<1>3. CASE n = L
  <2>1. ChunksOf(L) \in 1..ChunksOf(L)
    BY <1>2
  <2>2. ChunksOf(L) * b \in Nat
    BY <1>1, <1>2
  <2> HIDE DEF L, b
  <2>3. ~(ChunksOf(L) * b < L)
    BY <1>1, <1>2, <2>2
  <2>4. Cut(p, ChunksOf(L)) = L
    BY <2>3 DEF Cut, L, b
  <2>5. L \in 1..L
    BY <1>1
  <2> QED BY <1>1, <1>3, <2>1, <2>4, <2>5 DEF L
<1>4. CASE n # L
  <2>1. PICK j \in Nat \ {0} : n = j * b /\ j * b < L
    BY <1>4
  <2>2. n \in Nat /\ n # 0
    BY <1>1, <2>1
  <2>3. ChunksOf(n) = j
    <3>1. n + b - 1 \in Nat /\ j * b <= n + b - 1 /\ n + b - 1 < j * b + b
      BY <1>1, <2>1, <2>2
    <3>2. (n + b - 1) \div b = j
      <4> HIDE DEF b
      <4> QED BY <1>1, <2>1, <3>1, QuotientIs
    <3> QED BY <3>2 DEF ChunksOf
  <2>4. j <= ChunksOf(L)
    <3>1. ChunksOf(L) * b \in Nat /\ j * b \in Nat
      BY <1>1, <1>2, <2>1
    <3>2. j * b < ChunksOf(L) * b
      <4> HIDE DEF b, L
      <4> QED BY <1>1, <1>2, <2>1, <3>1
    <3>3. j < ChunksOf(L)
      <4> HIDE DEF b, L
      <4> QED BY <1>1, <1>2, <2>1, <3>2, Multiples
    <3> HIDE DEF L
    <3> QED BY <1>2, <2>1, <3>3
  <2>5. Cut(p, j) = n
    BY <2>1 DEF Cut
  <2>6. j \in 1..ChunksOf(L)
    <3> HIDE DEF L
    <3> QED BY <1>2, <2>1, <2>4
  <2>7. n \in 1..L
    <3> HIDE DEF L
    <3> QED BY <1>1, <2>1, <2>2
  <2> QED BY <1>1, <1>4, <2>3, <2>5, <2>6, <2>7
<1> QED BY <1>3, <1>4

------------------------------------------------------------------------------
(* Storing in memory: one turn, and all of them. *)

\* An entry of a key holds the tokens the key stands for.
Holds(key, state, type) == state \in Seq(Nat) /\ state = FlattenSeq(key) /\ type \in CacheTypes

Faithful(m) ==
  \A k \in DOMAIN m.entries :
    LET e == m.entries[k]
    IN /\ e = [state |-> e.state, n |-> e.n, size |-> e.size, type |-> e.type]
       /\ Holds(k, e.state, e.type) /\ e.n = Len(e.state)

\* m and the entry e for a new key.
Entered(m, key, e) ==
  [entries |-> With(m.entries, key, e), order |-> Append(m.order, key), used |-> m.used + e.size]

\* A new entry that fits keeps the books.
LEMMA EnteredKeepsBooks ==
  ASSUME NEW m, Books(m), NEW key, key \notin DOMAIN m.entries, NEW e,
         e.size \in Nat, m.used + e.size <= MemoryBudget
  PROVE  /\ Books(Entered(m, key, e))
         /\ DOMAIN Entered(m, key, e).entries = DOMAIN m.entries \cup {key}
         /\ Entered(m, key, e).entries[key] = e
         /\ \A k \in DOMAIN m.entries : Entered(m, key, e).entries[k] = m.entries[k]
<1> DEFINE r == Entered(m, key, e)
           D == DOMAIN m.entries
<1>1. /\ r = [entries |-> r.entries, order |-> r.order, used |-> r.used]
      /\ r.order = Append(m.order, key) /\ r.used = m.used + e.size
      /\ DOMAIN r.entries = D \cup {key} /\ r.entries[key] = e
      /\ \A k \in D : r.entries[k] = m.entries[k]
  BY DEF Entered, With
<1> HIDE DEF r
<1>2. IsFiniteSet(D) /\ IsFiniteSet(D \cup {key})
  BY FS_AddElement DEF Books
<1>3. \A k \in D \cup {key} : r.entries[k].size \in Nat
  BY <1>1 DEF Books
<1>4. OrderOf(r.order, D \cup {key})
  BY <1>1, OrderAppend DEF Books
<1>5. SumOf(Sizes(r), D \cup {key}) = SumOf(Sizes(m), D) + e.size
  <2> DEFINE f == Sizes(r)
  <2>1. \A k \in D \cup {key} : f[k] \in Int
    BY <1>1, <1>3 DEF Sizes
  <2>2. f[key] = e.size /\ \A k \in D : f[k] = Sizes(m)[k]
    BY <1>1 DEF Sizes
  <2> HIDE DEF f, D
  <2>3. SumOf(f, D \cup {key}) = SumOf(f, D) + f[key]
    BY <1>2, <2>1, SumMore DEF D
  <2>4. SumOf(f, D) = SumOf(Sizes(m), D)
    BY <1>2, <2>2, SumSame
  <2> QED BY <2>2, <2>3, <2>4 DEF f
<1>6. m.used = SumOf(Sizes(m), D)
  BY SizeIsSum DEF Books
<1>7. r.used = SizeOf(r, DOMAIN r.entries)
  BY <1>1, <1>5, <1>6, SizeIsSum
<1>8. r.used <= MemoryBudget
  BY <1>1
<1>9. \A k \in DOMAIN r.entries : r.entries[k].size \in Nat
  BY <1>1, <1>3
<1>10. OrderOf(r.order, DOMAIN r.entries) /\ IsFiniteSet(DOMAIN r.entries)
  BY <1>1, <1>2, <1>4
<1>11. Books(r)
  BY <1>1, <1>7, <1>8, <1>9, <1>10 DEF Books
<1> QED BY <1>1, <1>11 DEF r

\* The length of a prefix of p that store_sync may visit.
Visited(p, n) ==
  n = Len(p) \/ \E j \in Nat \ {0} : n = j * BlockSize /\ j * BlockSize < Len(p)

KeyOf(p, n) == SubSeq(HashChunks(p), 1, ChunksOf(n))
EntryOf(p, type, n) ==
  [state |-> SubSeq(p, 1, n), n |-> n, size |-> n * BytesPer[type], type |-> type]

\* What a turn makes of m: nothing if the key is there, room for an entry that is too
\* large all the same, or room and the entry.
TurnedTo(m, p, type, n, r) ==
  \/ KeyOf(p, n) \in DOMAIN m.entries /\ r = m
  \/ /\ KeyOf(p, n) \notin DOMAIN m.entries
     /\ \E a \in 0..Len(m.order) :
          \/ n * BytesPer[type] > MemoryBudget /\ LacksOldest(m, r, a)
          \/ \E roomy : /\ Books(roomy) /\ LacksOldest(m, roomy, a)
                        /\ roomy.used + n * BytesPer[type] <= MemoryBudget
                        /\ r = Entered(roomy, KeyOf(p, n), EntryOf(p, type, n))

\* The key of a visited length stands for as many tokens.
LEMMA KeyOfProperties ==
  ASSUME NEW p \in Seq(Nat), p # << >>, NEW n, Visited(p, n)
  PROVE  /\ n \in 1..Len(p) /\ KeyOf(p, n) # << >> /\ KeyOf(p, n) \in Keys(HashChunks(p))
         /\ FlattenSeq(KeyOf(p, n)) = SubSeq(p, 1, n)
         /\ SubSeq(p, 1, n) \in Seq(Nat) /\ Len(SubSeq(p, 1, n)) = n
<1> DEFINE h == HashChunks(p)
           c == ChunksOf(n)
<1>1. n \in 1..Len(p) /\ c \in 1..Len(h) /\ Cut(p, c) = n
  BY LengthOfKey DEF Visited
<1>2. FlattenSeq(KeyOf(p, n)) = SubSeq(p, 1, n)
  BY <1>1, KeyStands DEF KeyOf
<1>3. h \in Seq(Seq(Nat)) /\ Len(h) \in Nat /\ Len(p) \in Nat
  BY ChunksAre
<1> HIDE DEF h, c
<1>4. Len(SubSeq(h, 1, c)) = c
  <2>1. \A i \in 1..c : h[i] \in Seq(Nat)
    BY <1>1, <1>3
  <2> QED BY <1>1, <1>3, <2>1, SubSeqProperties
<1>5. SubSeq(h, 1, c) # << >>
  BY <1>1, <1>4
<1>6. SubSeq(h, 1, c) \in Keys(h)
  BY <1>1 DEF Keys
<1>7. SubSeq(p, 1, n) \in Seq(Nat) /\ Len(SubSeq(p, 1, n)) = n
  <2>1. \A i \in 1..n : p[i] \in Nat
    BY <1>1, <1>3
  <2> QED BY <1>1, <1>3, <2>1, SubSeqProperties
<1> QED BY <1>1, <1>2, <1>5, <1>6, <1>7 DEF KeyOf, h, c

\* What is left of faithful entries is faithful.
LEMMA FaithfulLess ==
  ASSUME NEW m, Faithful(m), NEW r, NEW a, LacksOldest(m, r, a)
  PROVE  Faithful(r)
  BY DEF Faithful, LacksOldest

\* One turn of store_sync keeps the books and the entries faithful.
LEMMA TurnKeepsBooks ==
  ASSUME NEW m, Books(m), Faithful(m), NEW p \in Seq(Nat), p # << >>,
         NEW type \in CacheTypes, NEW n, Visited(p, n)
  PROVE  LET r == StoredPrefix(m, HashChunks(p), p, type, n)
         IN Books(r) /\ Faithful(r) /\ TurnedTo(m, p, type, n, r)
<1> DEFINE r == StoredPrefix(m, HashChunks(p), p, type, n)
           key == KeyOf(p, n)
           e == EntryOf(p, type, n)
           size == n * BytesPer[type]
           roomy == WithRoom(m, size)
<1> SUFFICES Books(r) /\ Faithful(r) /\ TurnedTo(m, p, type, n, r)
  OBVIOUS
<1>1. /\ n \in 1..Len(p) /\ key # << >>
      /\ FlattenSeq(key) = SubSeq(p, 1, n)
      /\ SubSeq(p, 1, n) \in Seq(Nat) /\ Len(SubSeq(p, 1, n)) = n
  BY KeyOfProperties
<1>2. size \in Nat
  <2>1. n \in Nat /\ BytesPer[type] \in Nat
    BY <1>1, KeysAssumption
  <2> QED BY <2>1
<1>3. r = IF key \in DOMAIN m.entries THEN m
          ELSE IF size > MemoryBudget THEN roomy ELSE Entered(roomy, key, e)
  <2>1. r = IF key = << >> \/ key \in DOMAIN m.entries THEN m
            ELSE IF size > MemoryBudget THEN roomy
            ELSE [entries |-> With(roomy.entries, key, e), order |-> Append(roomy.order, key),
                  used |-> roomy.used + size]
    BY DEF StoredPrefix, KeyOf, EntryOf
  <2>2. e.size = size
    BY DEF EntryOf
  <2> HIDE DEF r, key, e, size, roomy
  <2> QED BY <1>1, <2>1, <2>2 DEF Entered
<1>4. PICK a \in 0..Len(m.order) :
        /\ Books(roomy) /\ LacksOldest(m, roomy, a)
        /\ roomy.used + size <= MemoryBudget \/ a = Len(m.order)
  <2> HIDE DEF size
  <2> QED BY <1>2, RoomFound
<1>5. Faithful(roomy)
  <2> HIDE DEF roomy
  <2> QED BY <1>4, FaithfulLess
<1>6. /\ e = [state |-> e.state, n |-> e.n, size |-> e.size, type |-> e.type]
      /\ Holds(key, e.state, e.type) /\ e.n = Len(e.state) /\ e.size = size
  BY <1>1 DEF EntryOf, Holds
<1>7. CASE key \in DOMAIN m.entries
  <2>1. r = m
    <3> HIDE DEF r, key, size, roomy, e
    <3> QED BY <1>3, <1>7
  <2> HIDE DEF r
  <2> QED BY <1>7, <2>1 DEF TurnedTo
<1>8. CASE key \notin DOMAIN m.entries /\ size > MemoryBudget
  <2>1. r = roomy
    <3> HIDE DEF r, key, size, roomy, e
    <3> QED BY <1>3, <1>8
  <2> HIDE DEF r, roomy
  <2> QED BY <1>4, <1>5, <1>8, <2>1 DEF TurnedTo
<1>9. CASE key \notin DOMAIN m.entries /\ ~(size > MemoryBudget)
  <2>1. r = Entered(roomy, key, e)
    <3> HIDE DEF r, key, size, roomy, e
    <3> QED BY <1>3, <1>9
  <2> HIDE DEF r
  <2>2. roomy.used + size <= MemoryBudget
    <3>1. CASE a = Len(m.order)
      <4> HIDE DEF roomy
      <4>1. DOMAIN roomy.entries = {}
        <5>1. OrderOf(m.order, DOMAIN m.entries) /\ m.order \in Seq(DOMAIN m.entries)
          BY DEF Books, OrderOf
        <5>2. SubSeq(m.order, 1, Len(m.order)) = m.order
          BY <5>1, SubSeqFull
        <5> QED BY <1>4, <3>1, <5>1, <5>2 DEF LacksOldest, OrderOf
      <4>2. roomy.used = 0
        BY <1>4, <4>1, SizeIsSum, SumEmpty DEF Books
      <4> HIDE DEF size
      <4> QED BY <1>2, <1>9, <4>2, MemoryAssumption
    <3> QED BY <1>4, <3>1
  <2>3. key \notin DOMAIN roomy.entries
    <3> HIDE DEF roomy
    <3> QED BY <1>4, <1>9 DEF LacksOldest
  <2> HIDE DEF roomy, size
  <2>4. /\ Books(r) /\ DOMAIN r.entries = DOMAIN roomy.entries \cup {key}
        /\ r.entries[key] = e /\ \A k \in DOMAIN roomy.entries : r.entries[k] = roomy.entries[k]
    <3> HIDE DEF key, e
    <3> QED BY <1>2, <1>4, <1>6, <2>1, <2>2, <2>3, EnteredKeepsBooks
  <2>5. Faithful(r)
    <3> HIDE DEF key, e
    <3> QED BY <1>5, <1>6, <2>4 DEF Faithful
  <2>6. TurnedTo(m, p, type, n, r)
    <3>1. roomy.used + n * BytesPer[type] <= MemoryBudget
      BY <2>2 DEF size
    <3> QED BY <1>4, <1>9, <2>1, <3>1 DEF TurnedTo
  <2> QED BY <2>4, <2>5, <2>6
<1> QED BY <1>7, <1>8, <1>9

\* store_sync, turn by turn: g[i] are the entries after i of n turns.
InTurns(m, p, type, n, g) ==
  /\ g[0] = m /\ g[n] = Stored(m, HashChunks(p), p, type, Len(p))
  /\ \A i \in 0..n : Books(g[i]) /\ Faithful(g[i])
  /\ \A i \in 1..n : /\ Visited(p, PrefixLengths(Len(p))[i])
                     /\ TurnedTo(g[i - 1], p, type, PrefixLengths(Len(p))[i], g[i])
  /\ PrefixLengths(Len(p))[n] = IF BlockSize < Len(p) THEN BlockSize ELSE Len(p)

\* Such turns there are, and they keep the books.
LEMMA StoredInTurns ==
  ASSUME NEW m, Books(m), Faithful(m), NEW p \in Seq(Nat), p # << >>,
         NEW type \in CacheTypes, HashChunks(p) \notin DOMAIN m.entries
  PROVE  \E n \in Nat \ {0} : \E g : InTurns(m, p, type, n, g)
<1> DEFINE h == HashChunks(p)
           L == Len(p)
           ls == PrefixLengths(L)
           n == Len(ls)
<1>1. L \in Nat \ {0}
  BY EmptySeq
<1>2. /\ n \in Nat \ {0} /\ ls[n] = IF BlockSize < L THEN BlockSize ELSE L
      /\ \A i \in 1..n : Visited(p, ls[i])
  <2> HIDE DEF L
  <2>1. /\ Len(ls) \in Nat \ {0} /\ ls[Len(ls)] = IF BlockSize < L THEN BlockSize ELSE L
        /\ \A i \in 1..Len(ls) :
              \/ ls[i] = L
              \/ \E j \in Nat \ {0} : ls[i] = j * BlockSize /\ j * BlockSize < L
    BY <1>1, LengthsVisited
  <2> QED BY <2>1 DEF Visited, L
<1>3. PICK g : /\ g[0] = m
               /\ \A i \in 1..n : g[i] = StoredPrefix(g[i - 1], h, p, type, ls[i])
               /\ Stored(m, h, p, type, L) = g[n]
  <2> HIDE DEF h, L
  <2> QED BY <1>1, <1>2, StoredBy DEF h
<1> HIDE DEF L, ls, n
<1> DEFINE B == {i \in 0..n : ~(Books(g[i]) /\ Faithful(g[i]))}
<1>4. ASSUME NEW i \in 1..n, Books(g[i - 1]), Faithful(g[i - 1])
      PROVE  Books(g[i]) /\ Faithful(g[i]) /\ TurnedTo(g[i - 1], p, type, ls[i], g[i])
  <2>1. Visited(p, ls[i]) /\ g[i] = StoredPrefix(g[i - 1], HashChunks(p), p, type, ls[i])
    BY <1>2, <1>3
  <2> QED BY <1>4, <2>1, TurnKeepsBooks
<1>5. B = {}
  <2>1. B \in SUBSET (0..n) /\ 0 \notin B
    BY <1>3
  <2>2. \A i \in 1..n : i - 1 \in 0..n
    BY <1>2
  <2>3. \A i \in 1..n : i - 1 \notin B => i \notin B
    BY <1>4, <2>2
  <2> HIDE DEF B
  <2> QED BY <1>2, <2>1, <2>3, Upwards
<1>6. \A i \in 1..n : i - 1 \in 0..n
  BY <1>2
<1>7. \A i \in 0..n : Books(g[i]) /\ Faithful(g[i])
  BY <1>5
<1>8. \A i \in 1..n : TurnedTo(g[i - 1], p, type, ls[i], g[i])
  BY <1>4, <1>6, <1>7
<1>9. /\ g[0] = m /\ g[n] = Stored(m, h, p, type, L)
      /\ \A i \in 1..n : Visited(p, ls[i]) /\ TurnedTo(g[i - 1], p, type, ls[i], g[i])
  BY <1>2, <1>3, <1>8
<1> QED
  <2>1. InTurns(m, p, type, n, g)
    BY <1>2, <1>7, <1>9 DEF ls, L, InTurns
  <2> QED BY <1>2, <2>1

\* The books are kept.
LEMMA StoredKeepsBooks ==
  ASSUME NEW m, Books(m), Faithful(m), NEW p \in Seq(Nat), p # << >>, NEW type \in CacheTypes
  PROVE  /\ Books(Stored(m, HashChunks(p), p, type, Len(p)))
         /\ Faithful(Stored(m, HashChunks(p), p, type, Len(p)))
<1>1. CASE HashChunks(p) \in DOMAIN m.entries
  <2>1. Stored(m, HashChunks(p), p, type, Len(p)) = m
    BY <1>1 DEF Stored
  <2> QED BY <2>1
<1>2. CASE HashChunks(p) \notin DOMAIN m.entries
  <2>1. PICK n \in Nat \ {0} : \E g : InTurns(m, p, type, n, g)
    BY <1>2, StoredInTurns
  <2>2. PICK g : InTurns(m, p, type, n, g)
    BY <2>1
  <2>3. n \in 0..n
    OBVIOUS
  <2> QED BY <2>2, <2>3 DEF InTurns
<1> QED BY <1>1, <1>2

\* After a store there is an entry for the first chunk, or it does not fit at all.
LEMMA StoredFirstChunk ==
  ASSUME NEW m, Books(m), Faithful(m), NEW p \in Seq(Nat), p # << >>,
         NEW type \in CacheTypes, HashChunks(p) \notin DOMAIN m.entries
  PROVE  LET h == HashChunks(p)
         IN \/ SubSeq(h, 1, 1) \in DOMAIN Stored(m, h, p, type, Len(p)).entries
            \/ Len(h[1]) * BytesPer[type] > MemoryBudget
<1> DEFINE h == HashChunks(p)
           r == Stored(m, h, p, type, Len(p))
           x == IF BlockSize < Len(p) THEN BlockSize ELSE Len(p)
<1>1. PICK n \in Nat \ {0} : \E g : InTurns(m, p, type, n, g)
  BY StoredInTurns
<1>2. PICK g : InTurns(m, p, type, n, g)
  BY <1>1
<1>3. Visited(p, x) /\ TurnedTo(g[n - 1], p, type, x, r)
  <2>1. n \in 1..n
    OBVIOUS
  <2> QED BY <1>2, <2>1 DEF InTurns
<1>4. /\ h \in Seq(Seq(Nat)) /\ Len(h) = ChunksOf(Len(p)) /\ Len(p) \in Nat \ {0}
      /\ \A i \in 1..Len(h) : h[i] = SubSeq(p, (i - 1) * BlockSize + 1, Cut(p, i))
      /\ BlockSize \in Nat \ {0}
  BY ChunksAre, KeysAssumption
<1>5. x \in 1..Len(p) /\ ChunksOf(x) \in 1..Len(h) /\ Cut(p, ChunksOf(x)) = x
  BY <1>3, LengthOfKey DEF Visited
<1>6. ChunksOf(x) = 1
  <2>1. x \in Nat \ {0} /\ x <= BlockSize
    BY <1>4
  <2> HIDE DEF x
  <2>2. x + BlockSize - 1 \in Nat /\ 1 * BlockSize <= x + BlockSize - 1 /\ x + BlockSize - 1 < 1 * BlockSize + BlockSize
    BY <1>4, <2>1
  <2> QED BY <1>4, <2>2, QuotientIs DEF ChunksOf
<1> HIDE DEF x, r
<1>7. Len(h[1]) = x
  <2>1. h[1] = SubSeq(p, (1 - 1) * BlockSize + 1, x)
    <3> HIDE DEF h
    <3> QED BY <1>4, <1>5, <1>6
  <2>2. (1 - 1) * BlockSize + 1 = 1
    BY <1>4
  <2>3. Len(SubSeq(p, 1, x)) = x
    BY <1>3, KeyOfProperties
  <2> QED BY <2>1, <2>2, <2>3
<1>8. KeyOf(p, x) = SubSeq(h, 1, 1)
  BY <1>6 DEF KeyOf
<1>9. SubSeq(h, 1, 1) \in DOMAIN r.entries \/ x * BytesPer[type] > MemoryBudget
  <2>1. \A roomy, e : SubSeq(h, 1, 1) \in DOMAIN Entered(roomy, SubSeq(h, 1, 1), e).entries
    <3> HIDE DEF h
    <3> QED BY DEF Entered, With
  <2> HIDE DEF h
  <2> QED BY <1>3, <1>8, <2>1 DEF TurnedTo
<1> HIDE DEF h
<1> QED BY <1>7, <1>9 DEF h, r

------------------------------------------------------------------------------
(* Hits. *)

\* There is a longest one among some of the keys of a prompt.
LEMMA LongestExists ==
  ASSUME NEW p \in Seq(Nat), p # << >>, NEW S \in SUBSET Keys(HashChunks(p)), S # {}
  PROVE  LongestOf(S) \in S
<1> DEFINE h == HashChunks(p)
           T == {Len(h) - Len(k) : k \in S}
<1>1. h \in Seq(Seq(Nat)) /\ Len(h) \in Nat
  BY ChunksAre
<1>2. \A k \in S : Len(k) \in Nat /\ Len(k) <= Len(h)
  <2> HIDE DEF h
  <2>1. ASSUME NEW i \in 1..Len(h) PROVE Len(SubSeq(h, 1, i)) = i
    <3>1. \A j \in 1..i : h[j] \in Seq(Nat)
      BY <1>1
    <3> QED BY <1>1, <3>1, SubSeqProperties
  <2>2. \A k \in S : \E i \in 1..Len(h) : k = SubSeq(h, 1, i)
    BY DEF Keys, h
  <2> QED BY <1>1, <2>1, <2>2
<1> HIDE DEF h
<1>3. T \in SUBSET Nat /\ T # {}
  BY <1>1, <1>2
<1>4. PICK t \in T : \A u \in T : t <= u
  <2> HIDE DEF T
  <2> QED BY <1>3, LeastNat
<1>5. PICK k \in S : t = Len(h) - Len(k)
  OBVIOUS
<1>6. ASSUME NEW j \in S PROVE Len(j) <= Len(k)
  <2>1. t <= Len(h) - Len(j)
    BY <1>4
  <2>2. Len(j) \in Nat /\ Len(k) \in Nat
    BY <1>2
  <2> QED BY <1>1, <1>5, <2>1, <2>2
<1> QED BY <1>6 DEF LongestOf

\* A key of a prompt has a length.
LEMMA KeyLength ==
  ASSUME NEW p \in Seq(Nat), p # << >>, NEW k \in Keys(HashChunks(p))
  PROVE  Len(k) \in Nat
<1> DEFINE h == HashChunks(p)
<1>1. h \in Seq(Seq(Nat))
  BY ChunksAre
<1> HIDE DEF h
<1>2. PICK i \in 1..Len(h) : k = SubSeq(h, 1, i)
  BY DEF Keys, h
<1>3. \A j \in 1..i : h[j] \in Seq(Nat)
  BY <1>1
<1> QED BY <1>1, <1>2, <1>3, SubSeqProperties

\* A key of a prompt is that of one of its beginnings.
LEMMA KeyOfPrompt ==
  ASSUME NEW p \in Seq(Nat), p # << >>, NEW k \in Keys(HashChunks(p))
  PROVE  \E c \in 1..Len(p) : FlattenSeq(k) = SubSeq(p, 1, c) /\ Len(SubSeq(p, 1, c)) = c
<1>1. PICK i \in 1..Len(HashChunks(p)) : k = SubSeq(HashChunks(p), 1, i)
  BY DEF Keys
<1>2. Cut(p, i) \in 1..Len(p) /\ FlattenSeq(k) = SubSeq(p, 1, Cut(p, i))
  BY <1>1, KeyStands
<1>3. Len(SubSeq(p, 1, Cut(p, i))) = Cut(p, i)
  <2> DEFINE c == Cut(p, i)
  <2> HIDE DEF c
  <2>1. Len(p) \in Nat /\ c \in 1..Len(p)
    BY <1>2 DEF c
  <2>2. \A j \in 1..c : p[j] \in Nat
    BY <2>1
  <2>3. Len(SubSeq(p, 1, c)) = c
    BY <2>1, <2>2, SubSeqProperties
  <2> QED BY <2>3 DEF c
<1> QED BY <1>2, <1>3

\* The whole prompt is the key of all of its chunks.
LEMMA KeyOfAll ==
  ASSUME NEW p \in Seq(Nat), p # << >>
  PROVE  /\ HashChunks(p) \in Keys(HashChunks(p)) /\ FlattenSeq(HashChunks(p)) = p
         /\ SubSeq(HashChunks(p), 1, 1) \in Keys(HashChunks(p))
<1> DEFINE h == HashChunks(p)
<1>1. Visited(p, Len(p)) /\ KeyOf(p, Len(p)) = SubSeq(h, 1, Len(h)) /\ Len(h) \in Nat \ {0}
  <2>1. Visited(p, Len(p))
    BY DEF Visited
  <2>2. ChunksOf(Len(p)) = Len(h) /\ ChunksOf(Len(p)) \in 1..Len(h) /\ Len(h) \in Nat
    BY ChunksAre, LengthOfKey
  <2> QED BY <2>1, <2>2 DEF KeyOf
<1>2. SubSeq(h, 1, Len(h)) = h /\ SubSeq(p, 1, Len(p)) = p
  BY ChunksAre, SubSeqFull
<1>3. h \in Keys(h) /\ FlattenSeq(h) = p
  <2>1. KeyOf(p, Len(p)) \in Keys(HashChunks(p)) /\ FlattenSeq(KeyOf(p, Len(p))) = SubSeq(p, 1, Len(p))
    BY <1>1, KeyOfProperties
  <2> HIDE DEF h
  <2> QED BY <1>1, <1>2, <2>1 DEF h
<1>4. SubSeq(h, 1, 1) \in Keys(h)
  <2> HIDE DEF h
  <2> QED BY <1>1 DEF Keys
<1> QED BY <1>3, <1>4

\* What a beginning of the prompt lacks is run; of all of it, the last token.
LEMMA ResumedIsPrompt ==
  ASSUME NEW p \in Seq(Nat), p # << >>, NEW c \in 1..Len(p), Len(SubSeq(p, 1, c)) = c
  PROVE  Resumed(SubSeq(p, 1, c), p) = p
<1>1. Len(p) \in Nat /\ SubSeq(p, 1, Len(p)) = p
  BY SubSeqFull
<1>2. CASE c = Len(p)
  <2>1. Resumed(p, p) = SubSeq(p, 1, Len(p) - 1) \o <<Last(p)>>
    <3>1. Len(p) \in Nat
      BY <1>1
    <3>2. Len(p) >= Len(p)
      BY <3>1
    <3> QED BY <3>2 DEF Resumed
  <2>2. SubSeq(p, 1, Len(p)) = SubSeq(p, 1, Len(p) - 1) \o <<p[Len(p)]>>
    <3>1. 1 \in 1..Len(p) /\ Len(p) \in 1..Len(p)
      BY <1>1
    <3> QED BY <3>1, SubSeqRecursiveSecond
  <2> QED BY <1>1, <1>2, <2>1, <2>2 DEF Last
<1>3. CASE c # Len(p)
  <2>1. ~(c >= Len(p))
    <3>1. Len(p) \in Nat
      BY <1>1
    <3> QED BY <3>1, <1>3
  <2>2. Resumed(SubSeq(p, 1, c), p) = SubSeq(p, 1, c) \o SubSeq(p, c + 1, Len(p))
    BY <2>1 DEF Resumed
  <2>3. SubSeq(p, 1, c) \o SubSeq(p, c + 1, Len(p)) = SubSeq(p, 1, Len(p))
    <3>1. 1 \in 1..Len(p) + 1 /\ c \in 1 - 1..Len(p) /\ Len(p) \in c..Len(p)
      BY <1>1
    <3> QED BY <3>1, ConcatAdjacentSubSeq
  <2> QED BY <1>1, <2>2, <2>3
<1> QED BY <1>2, <1>3

\* What is restored for a key of the prompt becomes the prompt.
LEMMA RestoredIsPrompt ==
  ASSUME NEW p \in Seq(Nat), p # << >>, NEW k \in Keys(HashChunks(p)),
         NEW state, state = FlattenSeq(k)
  PROVE  Resumed(state, p) = p /\ SubSeq(p, 1, Len(state)) = state
<1>1. PICK c \in 1..Len(p) : FlattenSeq(k) = SubSeq(p, 1, c) /\ Len(SubSeq(p, 1, c)) = c
  BY KeyOfPrompt
<1>2. Resumed(SubSeq(p, 1, c), p) = p
  BY <1>1, ResumedIsPrompt
<1> QED BY <1>1, <1>2

\* A hit writes what was there, and makes the entry the one used last.
LEMMA HitKeepsBooks ==
  ASSUME NEW m, Books(m), Faithful(m), NEW k \in DOMAIN m.entries
  PROVE  LET r == [Touched(m, k) EXCEPT !.entries[k].state = m.entries[k].state]
         IN /\ Books(r) /\ Faithful(r) /\ r.order # << >> /\ Last(r.order) = k
            /\ DOMAIN r.entries = DOMAIN m.entries
            /\ \A x \in DOMAIN m.entries : r.entries[x] = m.entries[x]
<1> DEFINE D == DOMAIN m.entries
           e == m.entries[k]
           s == Append(Removed(m.order, {k}), k)
           r == [Touched(m, k) EXCEPT !.entries[k].state = m.entries[k].state]
<1> SUFFICES /\ Books(r) /\ Faithful(r) /\ r.order # << >> /\ Last(r.order) = k
             /\ DOMAIN r.entries = DOMAIN m.entries
             /\ \A x \in DOMAIN m.entries : r.entries[x] = m.entries[x]
  OBVIOUS
<1>1. Touched(m, k) = [entries |-> m.entries, order |-> s, used |-> m.used]
  <2>1. Touched(m, k) = [m EXCEPT !.order = s]
    BY DEF Touched
  <2>2. m = [entries |-> m.entries, order |-> m.order, used |-> m.used]
    BY DEF Books
  <2> HIDE DEF s
  <2> QED BY <2>1, <2>2
<1>2. r = [entries |-> [m.entries EXCEPT ![k].state = e.state], order |-> s, used |-> m.used]
  <2> HIDE DEF s
  <2> QED BY <1>1
<1>3. [e EXCEPT !.state = e.state] = e
  BY DEF Faithful
<1>4. [m.entries EXCEPT ![k].state = e.state] = [x \in D |-> m.entries[x]]
  <2>1. [m.entries EXCEPT ![k].state = e.state]
          = [x \in D |-> IF x = k THEN [e EXCEPT !.state = e.state] ELSE m.entries[x]]
    OBVIOUS
  <2> HIDE DEF D
  <2> QED BY <1>3, <2>1
<1> HIDE DEF s
<1>5. /\ r.order = s /\ r.used = m.used /\ DOMAIN r.entries = D
      /\ \A x \in D : r.entries[x] = m.entries[x]
      /\ r = [entries |-> r.entries, order |-> r.order, used |-> r.used]
  BY <1>2, <1>4
<1> HIDE DEF r
<1>6. OrderOf(s, D) /\ s # << >> /\ Last(s) = k
  <2>1. OrderOf(Removed(m.order, {k}), D \ {k})
    BY OrderRemoved DEF Books
  <2>2. /\ OrderOf(s, (D \ {k}) \cup {k}) /\ s # << >> /\ Last(s) = k
    <3> DEFINE q == Removed(m.order, {k})
               K == D \ {k}
    <3>1. OrderOf(q, K) /\ k \notin K /\ s = Append(q, k)
      BY <2>1 DEF s
    <3> HIDE DEF q, K
    <3>2. OrderOf(s, K \cup {k}) /\ s # << >> /\ Last(s) = k
      BY <3>1, OrderAppend
    <3> QED BY <3>2 DEF K
  <2>3. (D \ {k}) \cup {k} = D
    OBVIOUS
  <2> QED BY <2>2, <2>3
<1>7. SumOf(Sizes(r), D) = SumOf(Sizes(m), D)
  <2>1. IsFiniteSet(D) /\ \A x \in D : Sizes(r)[x] = Sizes(m)[x]
    BY <1>5 DEF Books, Sizes
  <2> QED BY <2>1, SumSame
<1>8. r.used = SizeOf(r, DOMAIN r.entries) /\ r.used <= MemoryBudget
  BY <1>5, <1>7, SizeIsSum DEF Books
<1>9. \A x \in DOMAIN r.entries : r.entries[x].size \in Nat
  BY <1>5 DEF Books
<1>10. IsFiniteSet(DOMAIN r.entries) /\ OrderOf(r.order, DOMAIN r.entries)
  BY <1>5, <1>6 DEF Books
<1>11. Books(r)
  BY <1>5, <1>8, <1>9, <1>10 DEF Books
<1>12. Faithful(r)
  BY <1>5 DEF Faithful
<1> QED BY <1>5, <1>6, <1>11, <1>12

------------------------------------------------------------------------------
(* The disk tier. *)

\* The files of tensors fit the budget and a header, or there is one, or the last
\* was forced in.
Sized(files, exempt) ==
  /\ IsFiniteSet(DOMAIN files) /\ \A k \in DOMAIN files : files[k].bytes \in Nat
  /\ \/ exempt
     \/ SumOf(BytesOf(files), DOMAIN files) <= DiskBudget + HeaderBytes
     \/ Cardinality(DOMAIN files) = 1

\* A sidecar that can be read describes the tensors its key stands for, whatever
\* lies next to it.
Descriptive(cards) ==
  \A k \in DOMAIN cards :
    \/ cards[k] = Torn
    \/ /\ Holds(k, cards[k].checksum.state, cards[k].checksum.type)
       /\ cards[k].type = cards[k].checksum.type

\* Deleting files does not cost room.
LEMMA SizedLess ==
  ASSUME NEW files, NEW exempt, Sized(files, exempt), NEW S
  PROVE  Sized(Restrict(files, DOMAIN files \ S), exempt)
<1> DEFINE D == DOMAIN files
           R == D \ S
           r == Restrict(files, R)
           f == BytesOf(files)
<1>1. DOMAIN r = R /\ \A k \in R : r[k] = files[k]
  BY DEF Restrict
<1>2. IsFiniteSet(D) /\ \A k \in D : f[k] \in Nat
  BY DiskAssumption DEF Sized, BytesOf
<1>3. R \in SUBSET D /\ IsFiniteSet(R) /\ IsFiniteSet(D \ R)
  <2>1. R \in SUBSET D /\ D \ R \in SUBSET D
    OBVIOUS
  <2> HIDE DEF R, D
  <2> QED BY <1>2, <2>1, FS_Subset
<1> HIDE DEF r, R, D
<1>4. SumOf(BytesOf(r), R) = SumOf(f, R)
  <2>1. \A k \in R : BytesOf(r)[k] = f[k]
    BY <1>1, <1>3 DEF BytesOf, D
  <2> HIDE DEF f
  <2> QED BY <1>3, <2>1, SumSame
<1> HIDE DEF f
<1>5. SumOf(f, D) = SumOf(f, R) + SumOf(f, D \ R)
  BY <1>2, <1>3, SumParts
<1>6. SumOf(f, R) \in Nat /\ SumOf(f, D \ R) \in Nat
  <2>1. \A k \in D \ R : f[k] \in Nat
    BY <1>2
  <2>2. \A k \in R : f[k] \in Nat
    BY <1>2, <1>3
  <2> QED BY <1>3, <2>1, <2>2, SumNat
<1>7. exempt \/ SumOf(f, R) <= DiskBudget + HeaderBytes \/ Cardinality(R) = 1
  <2>1. CASE SumOf(f, D) <= DiskBudget + HeaderBytes
    BY <1>5, <1>6, <2>1, DiskAssumption
  <2>2. CASE Cardinality(D) = 1
    <3>1. CASE R = D
      BY <2>2, <3>1
    <3>2. CASE R # D
      <4>1. /\ Cardinality(R) \in Nat /\ Cardinality(R) < 1
        BY <1>2, <1>3, <2>2, <3>2, FS_Subset, FS_CardinalityType
      <4>2. Cardinality(R) = 0
        BY <4>1
      <4>3. R = {}
        BY <1>3, <4>2, FS_EmptySet
      <4>4. SumOf(f, R) = 0
        BY <4>3, SumEmpty
      <4> QED BY <4>4, DiskAssumption
    <3> QED BY <3>1, <3>2
  <2> QED BY <2>1, <2>2 DEF Sized, D, f
<1>8. \A k \in R : r[k].bytes \in Nat
  BY <1>1, <1>3 DEF Sized, D
<1>9. Sized(r, exempt)
  BY <1>1, <1>3, <1>4, <1>7, <1>8 DEF Sized
<1> QED BY <1>9 DEF r, R, D

\* A file is written when there is room for its tensors or nothing else, or forced in.
LEMMA SizedMore ==
  ASSUME NEW files, NEW before, Sized(files, before), NEW key, key \notin DOMAIN files,
         NEW c, NEW b \in Nat, NEW exempt,
         \/ exempt
         \/ DOMAIN files = {}
         \/ SumOf(BytesOf(files), DOMAIN files) + b <= DiskBudget
  PROVE  Sized(With(files, key, [data |-> c, bytes |-> b]), exempt)
<1> DEFINE D == DOMAIN files
           r == With(files, key, [data |-> c, bytes |-> b])
           f == BytesOf(r)
<1>1. /\ DOMAIN r = D \cup {key} /\ r[key].bytes = b
      /\ \A k \in D : r[k] = files[k]
  BY DEF With
<1> HIDE DEF r
<1>2. IsFiniteSet(D) /\ IsFiniteSet(D \cup {key}) /\ \A k \in D \cup {key} : f[k] \in Nat
  BY <1>1, FS_AddElement, DiskAssumption DEF Sized, BytesOf
<1>3. f[key] = b + HeaderBytes /\ \A k \in D : f[k] = BytesOf(files)[k]
  BY <1>1 DEF BytesOf
<1> HIDE DEF f, D
<1>4. SumOf(f, D \cup {key}) = SumOf(BytesOf(files), D) + (b + HeaderBytes)
  <2>1. SumOf(f, D \cup {key}) = SumOf(f, D) + f[key]
    <3>1. key \notin D /\ \A k \in D \cup {key} : f[k] \in Int
      BY <1>2 DEF D
    <3> QED BY <1>2, <3>1, SumMore
  <2>2. SumOf(f, D) = SumOf(BytesOf(files), D)
    BY <1>2, <1>3, SumSame
  <2> QED BY <1>3, <2>1, <2>2
<1>5. \/ exempt
      \/ SumOf(f, D \cup {key}) <= DiskBudget + HeaderBytes
      \/ Cardinality(D \cup {key}) = 1
  <2>1. CASE D = {}
    <3>1. D \cup {key} = {key}
      BY <2>1
    <3> QED BY <3>1, FS_Singleton
  <2>2. CASE SumOf(BytesOf(files), D) + b <= DiskBudget
    <3>1. SumOf(BytesOf(files), D) \in Int
      <4>1. \A k \in D : BytesOf(files)[k] \in Int
        BY <1>2, <1>3
      <4> QED BY <1>2, <4>1, SumType
    <3> QED BY <1>4, <2>2, <3>1, DiskAssumption
  <2> QED BY <2>1, <2>2 DEF D
<1>6. \A k \in D \cup {key} : r[k].bytes \in Nat
  BY <1>1 DEF Sized, D
<1> QED BY <1>1, <1>2, <1>5, <1>6 DEF Sized, r, f

\* The rest of the sidecars describes what it did.
LEMMA DescriptiveLess ==
  ASSUME NEW cards, Descriptive(cards), NEW S
  PROVE  Descriptive(Restrict(cards, DOMAIN cards \ S))
  BY DEF Descriptive, Restrict

\* Likewise with a new one that is torn, or describes the state of its key.
LEMMA DescriptiveMore ==
  ASSUME NEW cards, Descriptive(cards), NEW key, NEW c,
         c # Torn => Holds(key, c.checksum.state, c.checksum.type) /\ c.type = c.checksum.type
  PROVE  Descriptive(With(cards, key, c))
  BY DEF Descriptive, With

------------------------------------------------------------------------------
(* The invariant. *)

\* What a store is at is what its key stands for, and not on disk yet.
Storing ==
  \/ writer = Idle
  \/ /\ writer.at \in {"evict", "evict_sidecar", "sidecar"}
     /\ writer.at = "evict" => writer = [at |-> "evict", key |-> writer.key,
                                         data |-> writer.data, bytes |-> writer.bytes]
     /\ writer.bytes \in Nat
     /\ Holds(writer.key, writer.data.state, writer.data.type)
     /\ writer.at # "sidecar" => writer.key \notin DOMAIN tensors

\* The last prefill ended with the prompt in a cache of the right type; what it
\* found in memory is the entry used last.
Answered ==
  \/ done = Nothing
  \/ /\ done.prompt \in Prompts /\ done.type \in CacheTypes
     /\ done.tier \in {"memory", "disk", "miss"}
     /\ done = Finished(done.prompt, done.type, done.tier, done.key, done.prompt, done.type)
     /\ done.tier = "memory" =>
          /\ done.key \in DOMAIN memory.entries
          /\ memory.order # << >> /\ Last(memory.order) = done.key

InMemory == Books(memory) /\ Faithful(memory)
InFiles == Sized(tensors, forced) /\ OrderOf(age, DOMAIN tensors) /\ Descriptive(sidecar)

PrefixInv == InMemory /\ InFiles /\ Storing /\ Answered

\* A prompt is a sequence of tokens, and has one.
LEMMA PromptIs ==
  ASSUME NEW p \in Prompts
  PROVE  p \in Seq(Nat) /\ p # << >>
  BY PrefixAssumption

\* It holds at the start.
LEMMA InvInit == Init => PrefixInv
<1> SUFFICES ASSUME Init PROVE PrefixInv
  OBVIOUS
<1>1. /\ memory.entries = << >> /\ memory.order = << >> /\ memory.used = 0
      /\ memory = [entries |-> memory.entries, order |-> memory.order, used |-> memory.used]
      /\ tensors = << >> /\ sidecar = << >> /\ age = << >> /\ writer = Idle /\ done = Nothing
  BY DEF Init, EmptyMemory, DiskInit
<1>2. DOMAIN << >> = {} /\ IsFiniteSet({})
  BY FS_EmptySet
<1>3. OrderOf(<< >>, {})
  BY DEF OrderOf, IsInjective, ToSet
<1>4. /\ SizeOf(memory, DOMAIN memory.entries) = 0
      /\ 0 <= MemoryBudget /\ 0 <= DiskBudget + HeaderBytes
  BY <1>1, <1>2, SizeIsSum, SumEmpty, MemoryAssumption, DiskAssumption
<1>5. SumOf(BytesOf(tensors), DOMAIN tensors) = 0
  BY <1>1, <1>2, SumEmpty
<1>6. Books(memory)
  BY <1>1, <1>2, <1>3, <1>4 DEF Books
<1>7. Sized(tensors, forced)
  BY <1>1, <1>2, <1>4, <1>5 DEF Sized
<1>8. Faithful(memory) /\ Descriptive(sidecar) /\ OrderOf(age, DOMAIN tensors)
  BY <1>1, <1>2, <1>3 DEF Faithful, Descriptive
<1> QED BY <1>1, <1>6, <1>7, <1>8 DEF PrefixInv, InMemory, InFiles, Storing, Answered

\* A hit in memory: the entry k is used, and none is changed.
LEMMA MemoryHitDoes ==
  ASSUME PrefixInv, NEW p \in Prompts, NEW type \in CacheTypes, MemoryHit(p, type)
  PROVE  \E k \in Matches(memory, HashChunks(p), type) :
           /\ InMemory' /\ memory'.order # << >> /\ Last(memory'.order) = k
           /\ DOMAIN memory'.entries = DOMAIN memory.entries
           /\ \A x \in DOMAIN memory.entries : memory'.entries[x] = memory.entries[x]
           /\ done' = Finished(p, type, "memory", k, p, type)
           /\ UNCHANGED <<diskVars, alive>>
<1> DEFINE found == Matches(memory, HashChunks(p), type)
           k == LongestOf(found)
           e == memory.entries[k]
<1>1. Books(memory) /\ Faithful(memory) /\ p \in Seq(Nat) /\ p # << >>
  BY PromptIs DEF PrefixInv, InMemory
<1>2. k \in found
  <2>1. found \in SUBSET Keys(HashChunks(p)) /\ found # {}
    BY DEF Matches, MemoryHit
  <2> HIDE DEF found
  <2> QED BY <1>1, <2>1, LongestExists
<1>3. k \in Keys(HashChunks(p)) /\ k \in DOMAIN memory.entries /\ e.type = type
  BY <1>2 DEF Matches
<1>4. /\ memory' = [Touched(memory, k) EXCEPT
                      !.entries[k].state = SubSeq(Resumed(e.state, p), 1, e.n)]
      /\ done' = Finished(p, type, "memory", k, Resumed(e.state, p), e.type)
      /\ UNCHANGED <<diskVars, alive>>
  BY DEF MemoryHit
<1> HIDE DEF k
<1>5. e.state = FlattenSeq(k) /\ e.n = Len(e.state)
  BY <1>1, <1>3 DEF Faithful, Holds
<1>6. Resumed(e.state, p) = p /\ SubSeq(p, 1, Len(e.state)) = e.state
  <2> HIDE DEF e
  <2> QED BY <1>1, <1>3, <1>5, RestoredIsPrompt
<1>7. /\ memory' = [Touched(memory, k) EXCEPT !.entries[k].state = e.state]
      /\ done' = Finished(p, type, "memory", k, p, type)
  <2> HIDE DEF e
  <2> QED BY <1>3, <1>4, <1>5, <1>6
<1>8. /\ Books(memory') /\ Faithful(memory') /\ memory'.order # << >> /\ Last(memory'.order) = k
      /\ DOMAIN memory'.entries = DOMAIN memory.entries
      /\ \A x \in DOMAIN memory.entries : memory'.entries[x] = memory.entries[x]
  BY <1>1, <1>3, <1>7, HitKeepsBooks
<1> QED BY <1>2, <1>4, <1>7, <1>8 DEF InMemory

\* A hit in memory keeps it.
LEMMA InvMemoryHit ==
  ASSUME PrefixInv, NEW p \in Prompts, NEW type \in CacheTypes, MemoryHit(p, type)
  PROVE  PrefixInv'
<1>1. PICK k \in Matches(memory, HashChunks(p), type) :
        /\ InMemory' /\ memory'.order # << >> /\ Last(memory'.order) = k
        /\ DOMAIN memory'.entries = DOMAIN memory.entries
        /\ done' = Finished(p, type, "memory", k, p, type)
        /\ UNCHANGED <<diskVars, alive>>
  BY MemoryHitDoes
<1>2. k \in DOMAIN memory.entries
  BY DEF Matches
<1>3. /\ done'.prompt = p /\ done'.type = type /\ done'.tier = "memory" /\ done'.key = k
      /\ done' = Finished(p, type, "memory", k, p, type)
  BY <1>1 DEF Finished
<1>4. Answered'
  BY <1>1, <1>2, <1>3 DEF Answered
<1>5. InFiles' /\ Storing'
  BY <1>1 DEF PrefixInv, InFiles, Storing, diskVars
<1> QED BY <1>1, <1>4, <1>5 DEF PrefixInv

\* Files and sidecars of some keys go, and so do the keys from the order of age.
LEMMA FilesDeleted ==
  ASSUME InFiles, NEW S, Deleted(S), forced' = forced
  PROVE  /\ Sized(tensors', forced') /\ Descriptive(sidecar') /\ DOMAIN tensors' = DOMAIN tensors \ S
         /\ OrderOf(Removed(age, S), DOMAIN tensors')
<1>1. tensors' = Restrict(tensors, DOMAIN tensors \ S) /\ sidecar' = Restrict(sidecar, DOMAIN sidecar \ S)
  BY DEF Deleted
<1>2. Sized(tensors', forced') /\ Descriptive(sidecar')
  BY <1>1, SizedLess, DescriptiveLess DEF InFiles
<1>3. DOMAIN tensors' = DOMAIN tensors \ S
  BY <1>1 DEF Restrict
<1>4. OrderOf(Removed(age, S), DOMAIN tensors \ S)
  BY OrderRemoved DEF InFiles
<1> QED BY <1>2, <1>3, <1>4

\* A valid entry on disk holds what its key stands for.
LEMMA DiskHolds ==
  ASSUME InFiles, NEW type \in CacheTypes, NEW k, Considered(k, type), Valid(k)
  PROVE  /\ k \in DOMAIN tensors
         /\ Loaded(k).state = FlattenSeq(k) /\ Loaded(k).type = type
<1>1. sidecar[k] # Torn /\ sidecar[k].type = type /\ tensors[k].data = sidecar[k].checksum
  BY DEF Considered, Valid
<1>2. k \in DOMAIN sidecar /\ k \in DOMAIN tensors
  BY DEF Considered, Present
<1>3. /\ Holds(k, sidecar[k].checksum.state, sidecar[k].checksum.type)
      /\ sidecar[k].type = sidecar[k].checksum.type
  BY <1>1, <1>2 DEF InFiles, Descriptive
<1> QED BY <1>1, <1>2, <1>3 DEF Holds, Loaded

\* A hit on disk keeps it, whether the state can be restored or not.
LEMMA InvDiskHit ==
  ASSUME PrefixInv, NEW p \in Prompts, NEW type \in CacheTypes, DiskHit(p, type)
  PROVE  PrefixInv'
<1> DEFINE h == HashChunks(p)
<1>1. InFiles /\ InMemory /\ p \in Seq(Nat) /\ p # << >>
  BY PromptIs DEF PrefixInv
<1>2. PICK k \in Keys(h) : \E S \in PassedOver(h, type, Len(k)) :
        /\ Considered(k, type) /\ Valid(k) /\ Deleted(S)
        /\ age' = Append(Removed(age, S \cup {k}), k)
        /\ \/ done' = Finished(p, type, "disk", k, Resumed(Loaded(k).state, p), Loaded(k).type)
           \/ done' = Nothing
  BY DEF DiskHit
<1>3. UNCHANGED <<memory, writer, forced>> /\ writer = Idle
  BY DEF DiskHit, MissInMemory
<1>a. PICK dead \in PassedOver(h, type, Len(k)) :
        Deleted(dead) /\ age' = Append(Removed(age, dead \cup {k}), k)
  BY <1>2
<1>b. k \notin dead
  <2>1. dead \in SUBSET {x \in Keys(h) : Present(x) /\ Len(x) > Len(k)}
    BY DEF PassedOver
  <2>2. k \notin {x \in Keys(h) : Present(x) /\ Len(x) > Len(k)}
    <3>1. Len(k) \in Nat
      BY <1>1, KeyLength
    <3> QED BY <3>1
  <2> QED BY <2>1, <2>2
<1> HIDE DEF h
<1>4. /\ k \in Keys(h) /\ k \in DOMAIN tensors /\ k \notin dead
      /\ Loaded(k).state = FlattenSeq(k) /\ Loaded(k).type = type
  BY <1>1, <1>2, <1>b, DiskHolds
<1>5. Resumed(Loaded(k).state, p) = p
  BY <1>1, <1>4, RestoredIsPrompt DEF h
<1>6. Sized(tensors', forced') /\ Descriptive(sidecar') /\ DOMAIN tensors' = DOMAIN tensors \ dead
  BY <1>1, <1>3, <1>a, FilesDeleted
<1>7. OrderOf(age', DOMAIN tensors')
  <2> DEFINE K == DOMAIN tensors \ (dead \cup {k})
             s == Removed(age, dead \cup {k})
  <2>1. OrderOf(s, K) /\ k \notin K
    BY <1>1, OrderRemoved DEF InFiles
  <2>2. age' = Append(s, k) /\ DOMAIN tensors' = K \cup {k}
    BY <1>a, <1>4, <1>6
  <2> HIDE DEF K, s
  <2> QED BY <2>1, <2>2, OrderAppend
<1>8. Answered'
  <2>1. CASE done' = Nothing
    BY <2>1 DEF Answered
  <2>2. CASE done' = Finished(p, type, "disk", k, Resumed(Loaded(k).state, p), Loaded(k).type)
    <3>1. done' = Finished(p, type, "disk", k, p, type)
      BY <1>4, <1>5, <2>2
    <3>2. done'.prompt = p /\ done'.type = type /\ done'.tier = "disk" /\ done'.key = k
      BY <3>1 DEF Finished
    <3> QED BY <3>1, <3>2 DEF Answered
  <2> QED BY <1>2, <2>1, <2>2
<1>9. Storing' /\ InMemory'
  BY <1>1, <1>3 DEF Storing, InMemory
<1> QED BY <1>6, <1>7, <1>8, <1>9 DEF PrefixInv, InFiles

\* A miss keeps it, and with it the store that follows.
LEMMA InvMiss ==
  ASSUME PrefixInv, NEW p \in Prompts, NEW type \in CacheTypes, Miss(p, type)
  PROVE  PrefixInv'
<1> DEFINE h == HashChunks(p)
<1>1. InFiles /\ Books(memory) /\ Faithful(memory) /\ p \in Seq(Nat) /\ p # << >>
  BY PromptIs DEF PrefixInv, InMemory
<1>2. /\ forced' = forced /\ writer' = writer /\ writer = Idle
      /\ memory' = Stored(memory, h, p, type, Len(p))
      /\ done' = Finished(p, type, "miss", << >>, p, type)
  BY DEF Miss, MissInMemory
<1>3. InFiles'
  <2>1. PICK S \in PassedOver(h, type, 0) : Deleted(S) /\ age' = Removed(age, S)
    BY DEF Miss
  <2> QED BY <1>1, <1>2, <2>1, FilesDeleted DEF InFiles
<1>4. InMemory'
  BY <1>1, <1>2, StoredKeepsBooks DEF InMemory
<1>5. Storing'
  BY <1>2 DEF Storing
<1>6. Answered'
  <2>1. done'.prompt = p /\ done'.type = type /\ done'.tier = "miss" /\ done'.key = << >>
    BY <1>2 DEF Finished
  <2> QED BY <1>2, <2>1 DEF Answered
<1> QED BY <1>3, <1>4, <1>5, <1>6 DEF PrefixInv

\* What is left of the files when a lookup ends while it deletes.
LEMMA FilesDeletedInPart ==
  ASSUME InFiles, NEW p, NEW type, DeletedInPart(p, type)
  PROVE  InFiles' /\ writer = Idle /\ writer' = Idle
<1>1. PICK S, T : /\ tensors' = Restrict(tensors, DOMAIN tensors \ (S \cup T))
                  /\ sidecar' = Restrict(sidecar, DOMAIN sidecar \ S)
                  /\ age' = Removed(age, S \cup T)
  BY DEF DeletedInPart
<1>2. forced' = forced /\ writer' = writer /\ writer = Idle
  BY DEF DeletedInPart, MissInMemory
<1>3. Sized(tensors', forced') /\ Descriptive(sidecar')
  BY <1>1, <1>2, SizedLess, DescriptiveLess DEF InFiles
<1>4. DOMAIN tensors' = DOMAIN tensors \ (S \cup T)
  BY <1>1 DEF Restrict
<1>5. OrderOf(age', DOMAIN tensors')
  BY <1>1, <1>4, OrderRemoved DEF InFiles
<1> QED BY <1>2, <1>3, <1>5 DEF InFiles

\* A lookup that raises keeps it.
LEMMA InvDiskRaises ==
  ASSUME PrefixInv, NEW p \in Prompts, NEW type \in CacheTypes, DiskRaises(p, type)
  PROVE  PrefixInv'
<1>1. InFiles' /\ writer' = Idle
  BY FilesDeletedInPart DEF PrefixInv, DiskRaises
<1>2. memory' = memory /\ done' = Nothing
  BY DEF DiskRaises
<1> QED BY <1>1, <1>2 DEF PrefixInv, InMemory, Storing, Answered

\* A store to disk starts with the state of its key.
LEMMA InvStoreToDisk ==
  ASSUME PrefixInv, StoreToDisk
  PROVE  PrefixInv'
<1>1. /\ done # Nothing /\ writer = Idle
      /\ HashChunks(done.prompt) \notin DOMAIN tensors
      /\ writer' = [at |-> "evict", key |-> HashChunks(done.prompt),
                    data |-> [state |-> done.cache, type |-> done.type],
                    bytes |-> Len(done.cache) * BytesPer[done.type]]
      /\ UNCHANGED <<tensors, sidecar, age, forced, memory, done>>
  BY DEF StoreToDisk, StoreCalled
<1>2. done.prompt \in Prompts /\ done.type \in CacheTypes /\ done.cache = done.prompt
  BY <1>1 DEF PrefixInv, Answered, Finished
<1>3. /\ done.prompt \in Seq(Nat) /\ done.prompt # << >>
      /\ FlattenSeq(HashChunks(done.prompt)) = done.prompt
  BY <1>2, PromptIs, KeyOfAll
<1>4. Len(done.cache) * BytesPer[done.type] \in Nat
  <2>1. Len(done.cache) \in Nat /\ BytesPer[done.type] \in Nat
    BY <1>2, <1>3, KeysAssumption
  <2> QED BY <2>1
<1>5. Holds(writer'.key, writer'.data.state, writer'.data.type) /\ writer'.bytes \in Nat
  BY <1>1, <1>2, <1>3, <1>4 DEF Holds
<1>6. /\ writer'.at = "evict" /\ writer'.key = HashChunks(done.prompt)
      /\ writer' = [at |-> "evict", key |-> writer'.key,
                    data |-> writer'.data, bytes |-> writer'.bytes]
  BY <1>1
<1>7. Storing'
  BY <1>1, <1>5, <1>6 DEF Storing
<1> QED BY <1>1, <1>7 DEF PrefixInv, InMemory, InFiles, Answered

\* What a writer that is not idle knows.
LEMMA AtWork ==
  ASSUME PrefixInv, writer.at # "idle"
  PROVE  /\ InFiles /\ writer.bytes \in Nat
         /\ Holds(writer.key, writer.data.state, writer.data.type)
         /\ writer.at = "evict" => writer = [at |-> "evict", key |-> writer.key,
                                             data |-> writer.data, bytes |-> writer.bytes]
         /\ writer.at # "sidecar" => writer.key \notin DOMAIN tensors
  BY DEF PrefixInv, Storing, Idle

\* The oldest tensors go.
LEMMA InvEvictTensors ==
  ASSUME PrefixInv, EvictTensors
  PROVE  InFiles' /\ Storing'
<1> DEFINE k == Head(age)
<1>1. /\ writer.at = "evict" /\ age # << >> /\ tensors' = Restrict(tensors, DOMAIN tensors \ {k})
      /\ age' = Tail(age) /\ sidecar' = sidecar /\ forced' = forced
      /\ writer' = [at |-> "evict_sidecar", key |-> writer.key, data |-> writer.data,
                    bytes |-> writer.bytes, victim |-> k]
  BY DEF EvictTensors, RoomMade, Without
<1>2. /\ InFiles /\ writer.bytes \in Nat /\ writer.key \notin DOMAIN tensors
      /\ Holds(writer.key, writer.data.state, writer.data.type)
  BY <1>1, AtWork
<1> HIDE DEF k
<1>3. Sized(tensors', forced') /\ DOMAIN tensors' = DOMAIN tensors \ {k}
  BY <1>1, <1>2, SizedLess DEF InFiles, Restrict
<1>4. OrderOf(age', DOMAIN tensors \ {k})
  BY <1>1, <1>2, OrderTail DEF InFiles, k
<1>5. Storing'
  BY <1>1, <1>2, <1>3 DEF Storing
<1> QED BY <1>1, <1>2, <1>3, <1>4, <1>5 DEF InFiles

\* Their sidecar goes.
LEMMA InvEvictSidecar ==
  ASSUME PrefixInv, EvictSidecar
  PROVE  InFiles' /\ Storing'
<1>1. /\ writer.at = "evict_sidecar"
      /\ sidecar' = Restrict(sidecar, DOMAIN sidecar \ {writer.victim})
      /\ writer' = [at |-> "evict", key |-> writer.key, data |-> writer.data, bytes |-> writer.bytes]
      /\ UNCHANGED <<tensors, age, forced>>
  BY DEF EvictSidecar, Without
<1>2. /\ InFiles /\ writer.bytes \in Nat /\ writer.key \notin DOMAIN tensors
      /\ Holds(writer.key, writer.data.state, writer.data.type)
  BY <1>1, AtWork
<1>3. Descriptive(sidecar')
  BY <1>1, <1>2, DescriptiveLess DEF InFiles
<1>4. Storing'
  BY <1>1, <1>2 DEF Storing
<1> QED BY <1>1, <1>2, <1>3, <1>4 DEF InFiles

\* Writing the tensors, whatever of them gets there.
LEMMA TensorsSaved ==
  ASSUME PrefixInv, Saving(writer.data) \/ Saving(Torn), sidecar' = sidecar
  PROVE  InFiles'
<1> DEFINE k == writer.key
<1>a. writer.at \in {"evict", "evict_sidecar"}
  BY DEF Saving, EvictionOver
<1>1. /\ InFiles /\ writer.bytes \in Nat /\ k \notin DOMAIN tensors
  BY <1>a, AtWork
<1>2. /\ forced' = ~RoomMade
      /\ \E content : tensors' = With(tensors, k, [data |-> content, bytes |-> writer.bytes])
      /\ age' = Append(age, k)
  BY DEF Saving
<1>3. OrderOf(age, DOMAIN tensors)
  BY <1>1 DEF InFiles
<1>4. \/ forced'
      \/ DOMAIN tensors = {}
      \/ SumOf(BytesOf(tensors), DOMAIN tensors) + writer.bytes <= DiskBudget
  <2>1. CASE age = << >>
    <3>1. DOMAIN age = {} /\ ToSet(age) = DOMAIN tensors
      BY <1>3, <2>1 DEF OrderOf
    <3>2. DOMAIN tensors = {}
      BY <3>1 DEF ToSet
    <3> QED BY <3>2
  <2>2. CASE HasRoom(writer.bytes)
    BY <2>2, UsageIsSum DEF HasRoom
  <2>3. CASE ~RoomMade
    BY <1>2, <2>3
  <2> QED BY <2>1, <2>2, <2>3 DEF RoomMade
<1>5. Sized(tensors', forced')
  BY <1>1, <1>2, <1>4, SizedMore DEF InFiles
<1>6. OrderOf(age', DOMAIN tensors')
  <2>1. DOMAIN tensors' = DOMAIN tensors \cup {k}
    BY <1>2 DEF With
  <2> HIDE DEF k
  <2> QED BY <1>1, <1>2, <1>3, <2>1, OrderAppend
<1> QED BY <1>1, <1>5, <1>6 DEF InFiles

\* The tensors are written.
LEMMA InvSaveTensors ==
  ASSUME PrefixInv, SaveTensors
  PROVE  InFiles' /\ Storing'
<1>1. /\ writer.at \in {"evict", "evict_sidecar"}
      /\ writer' = [at |-> "sidecar", key |-> writer.key, data |-> writer.data,
                    bytes |-> writer.bytes]
  BY DEF SaveTensors, Saving, EvictionOver
<1>2. InFiles'
  BY TensorsSaved DEF SaveTensors
<1>3. writer.bytes \in Nat /\ Holds(writer.key, writer.data.state, writer.data.type)
  BY <1>1, AtWork
<1>4. /\ writer'.at = "sidecar" /\ writer'.key = writer.key /\ writer'.data = writer.data
      /\ writer'.bytes = writer.bytes
  BY <1>1
<1>5. Storing'
  BY <1>3, <1>4 DEF Storing
<1> QED BY <1>2, <1>5

\* The sidecar is written: it describes the state of its key.
LEMMA InvSaveSidecar ==
  ASSUME PrefixInv, SaveSidecar
  PROVE  InFiles' /\ Storing'
<1> DEFINE c == [n |-> Len(writer.data.state), type |-> writer.data.type, checksum |-> writer.data]
<1>1. /\ writer.at = "sidecar" /\ sidecar' = With(sidecar, writer.key, c) /\ writer' = Idle
      /\ UNCHANGED <<tensors, age, forced>>
  BY DEF SaveSidecar
<1>2. InFiles /\ Holds(writer.key, writer.data.state, writer.data.type)
  BY <1>1, AtWork
<1>3. c.checksum = writer.data /\ c.type = writer.data.type
  OBVIOUS
<1> HIDE DEF c
<1>4. Descriptive(sidecar')
  BY <1>1, <1>2, <1>3, DescriptiveMore DEF InFiles
<1> QED BY <1>1, <1>2, <1>4 DEF InFiles, Storing

\* A write is cut off and the store given up.
LEMMA InvSaveFails ==
  ASSUME PrefixInv, SaveFails
  PROVE  InFiles' /\ Storing'
<1>1. writer' = Idle
  BY DEF SaveFails
<1>2. CASE Saving(Torn) /\ sidecar' = sidecar
  <2>1. InFiles'
    BY <1>2, TensorsSaved
  <2> QED BY <1>1, <2>1 DEF Storing
<1>3. CASE /\ writer.at = "sidecar" /\ sidecar' = With(sidecar, writer.key, Torn)
           /\ UNCHANGED <<tensors, age, forced>>
  <2>1. InFiles
    BY DEF PrefixInv
  <2>2. Descriptive(sidecar')
    BY <1>3, <2>1, DescriptiveMore DEF InFiles
  <2> QED BY <1>1, <1>3, <2>1, <2>2 DEF InFiles, Storing
<1> QED BY <1>2, <1>3 DEF SaveFails

\* So every step of a store keeps it.
LEMMA InvWriterStep ==
  ASSUME PrefixInv, WriterStep
  PROVE  PrefixInv'
<1>1. StoreStep /\ UNCHANGED <<memory, done>>
  BY DEF WriterStep
<1>2. InFiles' /\ Storing'
  BY <1>1, InvEvictTensors, InvEvictSidecar, InvSaveTensors, InvSaveSidecar, InvSaveFails DEF StoreStep
<1>3. InMemory' /\ Answered'
  BY <1>1 DEF PrefixInv, InMemory, Answered
<1> QED BY <1>2, <1>3 DEF PrefixInv

\* The tier in memory starts empty.
LEMMA StartsEmpty ==
  ASSUME memory' = EmptyMemory
  PROVE  InMemory' /\ memory'.entries = << >>
<1>1. /\ memory'.entries = << >> /\ memory'.order = << >> /\ memory'.used = 0
      /\ memory' = [entries |-> memory'.entries, order |-> memory'.order, used |-> memory'.used]
  BY DEF EmptyMemory
<1>2. DOMAIN << >> = {} /\ IsFiniteSet({}) /\ OrderOf(<< >>, {})
  BY FS_EmptySet DEF OrderOf, IsInjective, ToSet
<1>3. SizeOf(memory', DOMAIN memory'.entries) = 0 /\ 0 <= MemoryBudget
  BY <1>1, <1>2, SizeIsSum, SumEmpty, MemoryAssumption
<1>4. Books(memory') /\ Faithful(memory')
  BY <1>1, <1>2, <1>3 DEF Books, Faithful
<1> QED BY <1>1, <1>4 DEF InMemory

\* The files of a process that died are left, nothing else.
LEMMA InvRestart ==
  ASSUME PrefixInv, Restart
  PROVE  PrefixInv'
<1>1. /\ memory' = EmptyMemory /\ writer' = Idle /\ done' = Nothing
      /\ UNCHANGED <<tensors, sidecar, age, forced>>
  BY DEF Restart, CrashedOnDisk
<1>2. InMemory'
  BY <1>1, StartsEmpty
<1> QED BY <1>1, <1>2 DEF PrefixInv, InFiles, Storing, Answered

\* The same, with what a lookup had deleted gone.
LEMMA InvRestartInRemoval ==
  ASSUME PrefixInv, RestartInRemoval
  PROVE  PrefixInv'
<1>1. InFiles' /\ writer' = Idle
  BY FilesDeletedInPart DEF PrefixInv, RestartInRemoval
<1>2. memory' = EmptyMemory /\ done' = Nothing
  BY DEF RestartInRemoval
<1>3. InMemory'
  BY <1>2, StartsEmpty
<1> QED BY <1>1, <1>2, <1>3 DEF PrefixInv, Storing, Answered

\* It is inductive.
LEMMA InvNext ==
  ASSUME PrefixInv, [Next]_vars
  PROVE  PrefixInv'
<1>1. ASSUME NEW p \in Prompts, NEW type \in CacheTypes, Prefill(p, type) PROVE PrefixInv'
  BY <1>1, InvMemoryHit, InvDiskHit, InvDiskRaises, InvMiss DEF Prefill
<1>2. CASE UNCHANGED vars
  BY <1>2 DEF vars, diskVars, PrefixInv, InMemory, InFiles, Storing, Answered
<1> QED BY <1>1, <1>2, InvStoreToDisk, InvWriterStep, InvRestart, InvRestartInRemoval DEF Next

------------------------------------------------------------------------------
(* What the invariant does not say by itself: repeats and survivors. *)

\* A prompt is found again after it was answered from memory or computed.
LEMMA RepeatStep ==
  ASSUME PrefixInv, RepeatHits, [Next]_vars
  PROVE  RepeatHits'
<1> DEFINE Again(m, p, type) ==
             \/ Matches(m, HashChunks(p), type) # {}
             \/ Len(HashChunks(p)[1]) * BytesPer[type] > MemoryBudget
             \/ \E k \in {HashChunks(p), SubSeq(HashChunks(p), 1, 1)} \cap DOMAIN m.entries :
                  m.entries[k].type # type
<1>1. RepeatHits' <=> (done'.tier \in {"memory", "miss"} => Again(memory', done'.prompt, done'.type))
  BY DEF RepeatHits
<1>2. RepeatHits <=> (done.tier \in {"memory", "miss"} => Again(memory, done.prompt, done.type))
  BY DEF RepeatHits
<1>3. ASSUME NEW p \in Prompts, NEW type \in CacheTypes, MemoryHit(p, type) PROVE RepeatHits'
  <2>1. PICK k \in Matches(memory, HashChunks(p), type) :
          /\ DOMAIN memory'.entries = DOMAIN memory.entries
          /\ \A x \in DOMAIN memory.entries : memory'.entries[x] = memory.entries[x]
          /\ done' = Finished(p, type, "memory", k, p, type)
    BY <1>3, MemoryHitDoes
  <2>2. k \in Matches(memory', HashChunks(p), type)
    BY <2>1 DEF Matches
  <2>3. done'.prompt = p /\ done'.type = type
    BY <2>1 DEF Finished
  <2>4. Again(memory', p, type)
    BY <2>2
  <2> HIDE DEF Again
  <2> QED BY <1>1, <2>3, <2>4
<1>4. ASSUME NEW p \in Prompts, NEW type \in CacheTypes, Miss(p, type) PROVE RepeatHits'
  <2> DEFINE h == HashChunks(p)
             first == SubSeq(h, 1, 1)
  <2>1. /\ memory' = Stored(memory, h, p, type, Len(p)) /\ Matches(memory, h, type) = {}
        /\ done' = Finished(p, type, "miss", << >>, p, type)
    BY <1>4 DEF Miss, MissInMemory
  <2>2. done'.prompt = p /\ done'.type = type
    BY <2>1 DEF Finished
  <2>3. /\ Books(memory) /\ Faithful(memory) /\ p \in Seq(Nat) /\ p # << >>
        /\ h \in Keys(h) /\ first \in Keys(h)
    BY PromptIs, KeyOfAll DEF PrefixInv, InMemory
  <2>4. CASE h \in DOMAIN memory.entries
    <3>1. memory' = memory
      BY <2>1, <2>4 DEF Stored
    <3> HIDE DEF h
    <3>2. memory.entries[h].type # type
      BY <2>1, <2>3, <2>4 DEF Matches
    <3>3. Again(memory', p, type)
      BY <2>4, <3>1, <3>2 DEF h
    <3> HIDE DEF Again
    <3> QED BY <1>1, <2>2, <3>3
  <2>5. CASE h \notin DOMAIN memory.entries
    <3>1. first \in DOMAIN memory'.entries \/ Len(h[1]) * BytesPer[type] > MemoryBudget
      BY <2>1, <2>3, <2>5, StoredFirstChunk
    <3>2. CASE Len(h[1]) * BytesPer[type] > MemoryBudget
      <4>1. Again(memory', p, type)
        BY <3>2
      <4> HIDE DEF Again
      <4> QED BY <1>1, <2>2, <4>1
    <3>3. CASE first \in DOMAIN memory'.entries /\ memory'.entries[first].type = type
      <4>1. first \in Matches(memory', h, type)
        <5> HIDE DEF h
        <5> QED BY <2>3, <3>3 DEF Matches
      <4>2. Again(memory', p, type)
        BY <4>1
      <4> HIDE DEF Again
      <4> QED BY <1>1, <2>2, <4>2
    <3>4. CASE first \in DOMAIN memory'.entries /\ memory'.entries[first].type # type
      <4>1. Again(memory', p, type)
        BY <3>4
      <4> HIDE DEF Again
      <4> QED BY <1>1, <2>2, <4>1
    <3> HIDE DEF first, h
    <3> QED BY <3>1, <3>2, <3>3, <3>4
  <2> QED BY <2>4, <2>5
<1>5. CASE done'.tier \notin {"memory", "miss"}
  <2> HIDE DEF Again
  <2> QED BY <1>1, <1>5
<1>6. CASE UNCHANGED <<memory, done>>
  BY <1>6 DEF RepeatHits
<1>7. ASSUME NEW p \in Prompts, NEW type \in CacheTypes, DiskHit(p, type) \/ DiskRaises(p, type)
      PROVE  done'.tier \notin {"memory", "miss"}
  <2>1. done' = Nothing \/ \E k, c, t : done' = Finished(p, type, "disk", k, c, t)
    BY <1>7 DEF DiskHit, DiskRaises
  <2> QED BY <2>1 DEF Nothing, Finished
<1>8. Restart \/ RestartInRemoval => done'.tier \notin {"memory", "miss"}
  BY DEF Restart, RestartInRemoval, Nothing
<1>9. StoreToDisk \/ WriterStep \/ UNCHANGED vars => UNCHANGED <<memory, done>>
  BY DEF StoreToDisk, WriterStep, vars
<1> HIDE DEF Again
<1> QED BY <1>3, <1>4, <1>5, <1>6, <1>7, <1>8, <1>9 DEF Next, Prefill

\* The entry d is there and no other of the old entries was used after it; or only
\* old entries with a key in mine are left.
Behind(x, d, old, mine) ==
  \/ /\ d \in DOMAIN x.entries
     /\ \A a, b \in DOMAIN x.order : x.order[a] \in old \ mine /\ x.order[b] = d => a <= b
  \/ \A k \in DOMAIN x.entries \cap old : k \in mine

\* Making room does not change that: it goes by the order of use.
LEMMA BehindLess ==
  ASSUME NEW x, Books(x), NEW d, NEW old, NEW mine, Behind(x, d, old, mine),
         NEW n \in 0..Len(x.order), NEW y, LacksOldest(x, y, n)
  PROVE  Behind(y, d, old, mine)
<1> DEFINE s == x.order
           D == DOMAIN x.entries
           first == ToSet(SubSeq(s, 1, n))
<1>1. /\ s \in Seq(D) /\ Len(s) \in Nat /\ DOMAIN s = 1..Len(s) /\ ToSet(s) = D
      /\ \A i, j \in 1..Len(s) : s[i] = s[j] => i = j
  BY DEF Books, OrderOf, IsInjective
<1>2. /\ y.order = SubSeq(s, n + 1, Len(s)) /\ DOMAIN y.entries = D \ first
  BY DEF LacksOldest
<1>3. /\ Len(y.order) = Len(s) - n /\ \A i \in 1..Len(s) - n : y.order[i] = s[n + i]
      /\ \A i \in 1..n : s[i] \in first /\ y.order \in Seq(D \ first)
  BY <1>2, OrderRest DEF Books, OrderOf
<1>8. OrderOf(y.order, D \ first)
  BY <1>2, OrderRest DEF Books
<1>4. DOMAIN y.order = 1..Len(s) - n
  <2> HIDE DEF first, D, s
  <2> QED BY <1>3, <1>8 DEF OrderOf
<1>5. \A k \in D : \E i \in 1..Len(s) : s[i] = k
  BY <1>1 DEF ToSet
<1>6. CASE \A k \in D \cap old : k \in mine
  BY <1>2, <1>6 DEF Behind
<1>7. CASE /\ d \in D
           /\ \A a, b \in DOMAIN s : s[a] \in old \ mine /\ s[b] = d => a <= b
  <2>1. PICK b \in 1..Len(s) : s[b] = d
    BY <1>5, <1>7
  <2> HIDE DEF first, D, s
  <2>2. CASE b <= n
    <3>1. ASSUME NEW k \in DOMAIN y.entries \cap old, k \notin mine PROVE FALSE
      <4>1. PICK i \in 1..Len(s) : s[i] = k
        BY <1>2, <1>5
      <4>2. i <= b
        BY <1>1, <1>7, <2>1, <3>1, <4>1
      <4>3. i \in 1..n
        BY <1>1, <2>2, <4>2
      <4> QED BY <1>2, <1>3, <4>1, <4>3
    <3> QED BY <3>1 DEF Behind
  <2>3. CASE ~(b <= n)
    <3>1. d \in DOMAIN y.entries
      <4>1. b - n \in 1..Len(s) - n /\ n + (b - n) = b
        BY <1>1, <2>3
      <4>2. y.order[b - n] = d /\ b - n \in DOMAIN y.order
        BY <1>3, <1>4, <2>1, <4>1
      <4> QED BY <1>2, <1>8, <4>2 DEF OrderOf, ToSet
    <3>2. ASSUME NEW i \in DOMAIN y.order, NEW j \in DOMAIN y.order,
                 y.order[i] \in old \ mine, y.order[j] = d
          PROVE  i <= j
      <4>1. i \in 1..Len(s) - n /\ j \in 1..Len(s) - n
        BY <1>4
      <4>2. s[n + i] \in old \ mine /\ s[n + j] = d
        BY <1>3, <3>2, <4>1
      <4>3. n + i \in DOMAIN s /\ n + j \in DOMAIN s
        BY <1>1, <4>1
      <4>4. n + i <= n + j
        BY <1>7, <4>2, <4>3
      <4> QED BY <1>1, <4>1, <4>4
    <3> QED BY <3>1, <3>2 DEF Behind
  <2> QED BY <2>2, <2>3
<1> QED BY <1>6, <1>7 DEF Behind

\* Nor does a new entry whose key is mine.
LEMMA BehindMore ==
  ASSUME NEW x, Books(x), NEW d, NEW old, NEW mine, Behind(x, d, old, mine),
         NEW key \in mine, key \notin DOMAIN x.entries, NEW e
  PROVE  Behind(Entered(x, key, e), d, old, mine)
<1> DEFINE y == Entered(x, key, e)
           s == x.order
           t == Append(s, key)
           D == DOMAIN x.entries
<1> SUFFICES Behind(y, d, old, mine)
  OBVIOUS
<1>1. DOMAIN y.entries = D \cup {key} /\ y.order = t
  BY DEF Entered, With
<1> HIDE DEF y
<1>2. OrderOf(s, D) /\ key \notin D
  BY DEF Books
<1>3. /\ OrderOf(t, D \cup {key}) /\ Len(t) = Len(s) + 1
      /\ \A i \in DOMAIN s : t[i] = s[i]
      /\ t # << >> /\ Last(t) = key
  <2> HIDE DEF s, D
  <2> QED BY <1>2, OrderAppend
<1> HIDE DEF t
<1>4. /\ DOMAIN s = 1..Len(s) /\ Len(s) \in Nat /\ DOMAIN t = 1..Len(s) + 1
  BY <1>2, <1>3 DEF OrderOf
<1>5. t[Len(s) + 1] = key
  BY <1>3 DEF Last
<1>6. CASE \A k \in D \cap old : k \in mine
  BY <1>1, <1>6 DEF Behind
<1>7. CASE /\ d \in D
           /\ \A a, b \in DOMAIN s : s[a] \in old \ mine /\ s[b] = d => a <= b
  <2>1. ASSUME NEW a \in DOMAIN t, NEW b \in DOMAIN t, t[a] \in old \ mine, t[b] = d
        PROVE  a <= b
    <3>1. a # Len(s) + 1 /\ b # Len(s) + 1
      BY <1>5, <1>7, <2>1
    <3>2. a \in DOMAIN s /\ b \in DOMAIN s
      BY <1>4, <3>1
    <3> QED BY <1>3, <1>7, <2>1, <3>2
  <2> QED BY <1>1, <1>7, <2>1 DEF Behind
<1> QED BY <1>6, <1>7 DEF Behind

\* So it stays so through all turns of a store.
LEMMA BehindStored ==
  ASSUME NEW m, Books(m), Faithful(m), NEW p \in Seq(Nat), p # << >>,
         NEW type \in CacheTypes, NEW d, NEW old,
         Behind(m, d, old, Keys(HashChunks(p)))
  PROVE  Behind(Stored(m, HashChunks(p), p, type, Len(p)), d, old, Keys(HashChunks(p)))
<1> DEFINE mine == Keys(HashChunks(p))
           r == Stored(m, HashChunks(p), p, type, Len(p))
<1>1. CASE HashChunks(p) \in DOMAIN m.entries
  BY <1>1 DEF Stored
<1>2. CASE HashChunks(p) \notin DOMAIN m.entries
  <2>1. PICK n \in Nat \ {0} : \E g : InTurns(m, p, type, n, g)
    BY <1>2, StoredInTurns
  <2>2. PICK g : InTurns(m, p, type, n, g)
    BY <2>1
  <2>3. g[0] = m /\ g[n] = r /\ \A i \in 0..n : Books(g[i])
    BY <2>2 DEF InTurns
  <2> DEFINE B == {i \in 0..n : ~Behind(g[i], d, old, mine)}
  <2>4. ASSUME NEW i \in 1..n, Behind(g[i - 1], d, old, mine) PROVE Behind(g[i], d, old, mine)
    <3>1. PICK l : Visited(p, l) /\ TurnedTo(g[i - 1], p, type, l, g[i])
      BY <2>2 DEF InTurns
    <3>2. KeyOf(p, l) \in mine
      BY <3>1, KeyOfProperties
    <3>3. Books(g[i - 1])
      <4>1. i - 1 \in 0..n
        OBVIOUS
      <4> QED BY <2>3, <4>1
    <3> HIDE DEF mine
    <3>4. PICK x : x = g[i - 1]
      OBVIOUS
    <3>5. PICK z : z = g[i]
      OBVIOUS
    <3>6. CASE z = x
      BY <2>4, <3>4, <3>5, <3>6
    <3>7. CASE z # x
      <4>1. KeyOf(p, l) \notin DOMAIN x.entries
        BY <3>1, <3>4, <3>5, <3>7 DEF TurnedTo
      <4>2. PICK a \in 0..Len(x.order) :
              \/ LacksOldest(x, z, a)
              \/ \E roomy : /\ Books(roomy) /\ LacksOldest(x, roomy, a)
                            /\ z = Entered(roomy, KeyOf(p, l), EntryOf(p, type, l))
        BY <3>1, <3>4, <3>5, <3>7 DEF TurnedTo
      <4>3. Books(x) /\ Behind(x, d, old, mine)
        BY <2>4, <3>3, <3>4
      <4>4. CASE LacksOldest(x, z, a)
        BY <4>3, <4>4, <3>5, BehindLess
      <4>5. ASSUME NEW roomy, Books(roomy), LacksOldest(x, roomy, a),
                   z = Entered(roomy, KeyOf(p, l), EntryOf(p, type, l))
            PROVE  Behind(z, d, old, mine)
        <5>1. Behind(roomy, d, old, mine)
          BY <4>3, <4>5, BehindLess
        <5>2. KeyOf(p, l) \notin DOMAIN roomy.entries
          BY <4>1, <4>5 DEF LacksOldest
        <5> QED BY <3>2, <4>5, <5>1, <5>2, BehindMore
      <4> QED BY <3>5, <4>2, <4>4, <4>5
    <3> QED BY <3>6, <3>7
  <2>5. B \in SUBSET (0..n) /\ 0 \notin B
    BY <2>3
  <2>6. \A i \in 1..n : i - 1 \notin B => i \notin B
    <3>1. \A i \in 1..n : i - 1 \in 0..n
      OBVIOUS
    <3> HIDE DEF mine
    <3> QED BY <2>4, <3>1
  <2>7. B = {}
    <3> HIDE DEF B
    <3>1. n \in Nat
      OBVIOUS
    <3> QED BY <2>5, <2>6, <3>1, Upwards
  <2>8. Behind(g[n], d, old, mine)
    <3>1. n \in 0..n
      OBVIOUS
    <3> QED BY <2>7, <3>1
  <2> HIDE DEF r, mine
  <2> QED BY <2>3, <2>8 DEF r, mine
<1> QED BY <1>1, <1>2

\* A hit that is gone after a step took everything older with it, but for keys of the
\* prompt just stored.
LEMMA SurvivesStep ==
  ASSUME PrefixInv, [Next]_vars, done.tier = "memory",
         done.key \in DOMAIN memory.entries \ DOMAIN memory'.entries,
         NEW k \in DOMAIN memory.entries \cap DOMAIN memory'.entries
  PROVE  k \in Keys(HashChunks(done'.prompt))
<1> DEFINE d == done.key
           old == DOMAIN memory.entries
<1>1. Books(memory) /\ Faithful(memory) /\ memory.order # << >> /\ Last(memory.order) = d
  BY DEF PrefixInv, InMemory, Answered, Nothing
<1>2. memory' # memory
  OBVIOUS
<1>3. ASSUME NEW p \in Prompts, NEW type \in CacheTypes, MemoryHit(p, type) PROVE FALSE
  <2>1. DOMAIN memory'.entries = DOMAIN memory.entries
    BY <1>3, MemoryHitDoes
  <2> QED BY <2>1
<1>4. ASSUME NEW p \in Prompts, NEW type \in CacheTypes, Miss(p, type)
      PROVE  k \in Keys(HashChunks(done'.prompt))
  <2> DEFINE h == HashChunks(p)
  <2>1. /\ memory' = Stored(memory, h, p, type, Len(p))
        /\ done' = Finished(p, type, "miss", << >>, p, type)
    BY <1>4 DEF Miss
  <2>2. done'.prompt = p
    BY <2>1 DEF Finished
  <2>3. Behind(memory, d, old, Keys(h))
    <3>1. /\ OrderOf(memory.order, old) /\ memory.order \in Seq(old)
          /\ IsInjective(memory.order)
      BY <1>1 DEF Books, OrderOf
    <3>2. /\ DOMAIN memory.order = 1..Len(memory.order) /\ Len(memory.order) \in Nat
          /\ Len(memory.order) # 0
      BY <1>1, <3>1
    <3>3. memory.order[Len(memory.order)] = d /\ Len(memory.order) \in DOMAIN memory.order
      BY <1>1, <3>2 DEF Last
    <3>4. ASSUME NEW a \in DOMAIN memory.order, NEW b \in DOMAIN memory.order, memory.order[b] = d
          PROVE  a <= b
      <4>1. b = Len(memory.order)
        BY <3>1, <3>3, <3>4 DEF IsInjective
      <4> QED BY <3>2, <4>1
    <3> QED BY <3>4 DEF Behind
  <2>4. Behind(memory', d, old, Keys(h))
    <3>1. p \in Seq(Nat) /\ p # << >>
      BY PromptIs
    <3> QED BY <1>1, <2>1, <2>3, <3>1, BehindStored
  <2> HIDE DEF h
  <2> QED BY <2>2, <2>4 DEF Behind, h
<1>5. ~(Restart \/ RestartInRemoval)
  BY DEF Restart, RestartInRemoval, EmptyMemory
<1>6. /\ ~StoreToDisk /\ ~WriterStep /\ ~UNCHANGED vars
      /\ \A p \in Prompts, type \in CacheTypes : ~DiskHit(p, type) /\ ~DiskRaises(p, type)
  BY <1>2 DEF StoreToDisk, WriterStep, vars, DiskHit, DiskRaises
<1> QED BY <1>3, <1>4, <1>5, <1>6 DEF Next, Prefill

------------------------------------------------------------------------------
(* The properties. *)

\* The invariant of the prefix cache.
LEMMA Invariant == Spec => []PrefixInv
  BY InvInit, InvNext, PTL DEF Spec

\* Deterministic hits: after every prefill the cache of the model holds the prompt, and
\* every entry in memory what its key stands for, whatever was torn, stale or evicted.
THEOREM PrefillStaysExact == Spec => []PrefillIsExact
<1>1. PrefixInv => PrefillIsExact
  <2> SUFFICES ASSUME PrefixInv PROVE PrefillIsExact
    OBVIOUS
  <2>1. done # Nothing => done.cache = done.prompt /\ done.holds = done.type
    BY DEF PrefixInv, Answered, Finished
  <2>2. \A k \in DOMAIN memory.entries : memory.entries[k].state = FlattenSeq(k)
    BY DEF PrefixInv, InMemory, Faithful, Holds
  <2> QED BY <2>1, <2>2 DEF PrefillIsExact
<1> QED BY <1>1, Invariant, PTL

\* _used_bytes is the size of the entries and within the budget; the files on disk exceed
\* theirs by no more than the header of the last, or are one, or the last was forced in.
THEOREM BudgetsAreKept == Spec => []TiersWithinBudget
<1>1. PrefixInv => TiersWithinBudget
  <2> SUFFICES ASSUME PrefixInv PROVE TiersWithinBudget
    OBVIOUS
  <2>1. MemoryAccounted
    BY DEF PrefixInv, InMemory, Books, OrderOf, MemoryAccounted
  <2>2. DiskBounded
    BY UsageIsSum DEF PrefixInv, InFiles, Sized, DiskBounded
  <2> QED BY <2>1, <2>2 DEF TiersWithinBudget
<1> QED BY <1>1, Invariant, PTL

\* A prompt that was computed, or found in memory, is found again at once: store_sync
\* ends with the first chunk.
THEOREM RepeatsAreFound == Spec => []RepeatHits
<1>1. Init => RepeatHits
  BY DEF Init, RepeatHits, Nothing
<1>2. PrefixInv /\ RepeatHits /\ [Next]_vars => RepeatHits'
  BY RepeatStep
<1> QED BY <1>1, <1>2, Invariant, PTL DEF Spec

\* LRU coherence: _evict_until_room never takes the entry last hit and leaves an older one.
THEOREM HitsSurvive == Spec => HitSurvives
<1>1. PrefixInv /\ [Next]_vars =>
        [LET before == DOMAIN memory.entries
             after == DOMAIN memory'.entries
         IN done.tier = "memory" /\ done.key \in before \ after =>
              \A k \in before \cap after : k \in Keys(HashChunks(done'.prompt))]_vars
  BY SurvivesStep
<1> QED BY <1>1, Invariant, PTL DEF Spec, HitSurvives
==============================================================================
