--------------------------- MODULE ProtocolProofs ---------------------------
(***************************************************************************)
(* Proofs of CopyGenuine and TxArrives of Protocol.tla: whatever is typed  *)
(* as a receiver, and however the parser misreads it, the peer's chain     *)
(* agrees with the payer's in all that the hashes cover; and a payment is  *)
(* read as it was made.                                                    *)
(*                                                                         *)
(* Typed text has no key in it.  So in every line that is sent, wherever   *)
(* the parser finds the key of a hash the hash of a block of the chain     *)
(* follows (Sane), also in a piece that was cut at the wrong braces        *)
(* (CutFrom), and a block read from it has such a hash or none (ParsedIs). *)
(* A block that passes chain_add_block or chain_replace has the hash of    *)
(* what it covers: it is alike to that block of the chain, and its link    *)
(* and its number leave it one place (AcceptedBlock, AcceptedChain).  The  *)
(* text of the first block of a chain, which chain_replace does not        *)
(* validate, comes before anything typed and is read as it was written     *)
(* (HeadParsed, ChainRead).  GenuineInv says this of every state.          *)
(*                                                                         *)
(* In the text of a payment the quotes that were typed are escaped         *)
(* (QuotesEscaped), and the receiver stands behind an odd number of bare   *)
(* ones: no brace in it ends the payload (PaymentCut), and the unescaping  *)
(* stops where the name does (ReadBack, PaymentRead).                      *)
(***************************************************************************)
EXTENDS Protocol, DataLemmas

-----------------------------------------------------------------------------
(* Recursive functions *)

\* Induction on the rank of the elements of a set.
LEMMA RankInduction ==
    ASSUME NEW D, NEW m \in [D -> Nat], NEW S,
           \A x \in D : (\A y \in D : m[y] < m[x] => y \in S) => x \in S
    PROVE  D \subseteq S
<1> DEFINE T == {n \in Nat : \A x \in D : m[x] < n => x \in S}
<1>1. 0 \in T
  OBVIOUS
<1>2. ASSUME NEW n \in Nat, n \in T
      PROVE  n + 1 \in T
  <2> SUFFICES ASSUME NEW x \in D, m[x] < n + 1 PROVE x \in S
    OBVIOUS
  <2>1. \A y \in D : m[y] < m[x] => y \in S
    BY <1>2
  <2> QED BY <2>1
<1>3. Nat \subseteq T
  <2> HIDE DEF T
  <2> QED BY <1>1, <1>2, SetInduction
<1> SUFFICES ASSUME NEW x \in D PROVE x \in S
  OBVIOUS
<1>4. m[x] + 1 \in T /\ m[x] < m[x] + 1
  BY <1>3
<1> QED BY <1>4

\* A recursion on D with values in V, the rank m going up to N: g gives the next
\* approximation, and its value at x depends on values at elements of lower rank.
Recursion(N, D, m, V, g) ==
    /\ N \in Nat /\ m \in [D -> 0 .. N] /\ V # {}
    /\ g \in [[D -> V] -> [D -> V]]
    /\ \A f, h \in [D -> V], x \in D :
         (\A y \in D : m[y] < m[x] => f[y] = h[y]) => g[f][x] = g[h][x]

\* A function that is defined by recursion on a bounded rank exists.
LEMMA RecursionExists ==
    ASSUME NEW N, NEW D, NEW m, NEW V, NEW g, Recursion(N, D, m, V, g)
    PROVE  \E f \in [D -> V] : f = g[f]
<1>0. /\ N \in Nat /\ m \in [D -> 0 .. N] /\ g \in [[D -> V] -> [D -> V]]
      /\ \E v : v \in V
  BY DEF Recursion
<1> DEFINE T == {n \in Nat : \E f \in [D -> V] : \A x \in D : m[x] < n => f[x] = g[f][x]}
<1>1. 0 \in T
  <2>1. PICK v : v \in V
    BY <1>0
  <2>2. [x \in D |-> v] \in [D -> V] /\ \A x \in D : ~ (m[x] < 0)
    BY <1>0, <2>1
  <2> QED BY <2>2
<1>2. ASSUME NEW n \in Nat, n \in T
      PROVE  n + 1 \in T
  <2>1. PICK f \in [D -> V] : \A x \in D : m[x] < n => f[x] = g[f][x]
    BY <1>2
  <2>2. g[f] \in [D -> V]
    BY <1>0
  <2>3. ASSUME NEW x \in D, m[x] < n + 1
        PROVE  g[f][x] = g[g[f]][x]
    <3>1. \A y \in D : m[y] < m[x] => f[y] = g[f][y]
      BY <1>0, <2>1, <2>3
    <3> QED BY <2>2, <3>1 DEF Recursion
  <2> QED BY <2>2, <2>3
<1>3. N + 1 \in T
  <2> HIDE DEF T
  <2> QED BY <1>0, <1>1, <1>2, SetInduction
<1>4. PICK f \in [D -> V] : \A x \in D : m[x] < N + 1 => f[x] = g[f][x]
  BY <1>3
<1>5. \A x \in D : f[x] = g[f][x]
  BY <1>0, <1>4
<1>6. g[f] \in [D -> V]
  BY <1>0
<1> QED BY <1>5, <1>6

-----------------------------------------------------------------------------
(* Texts *)

Text(s) == s \in Seq(Range(s))

\* A sequence over any set is a text.
LEMMA TextIs ==
    ASSUME NEW S, NEW s \in Seq(S)
    PROVE  Text(s)
BY OverItsRange DEF Text

\* The tokens of a text.
LEMMA TextFields ==
    ASSUME NEW s, Text(s)
    PROVE  /\ Len(s) \in Nat /\ DOMAIN s = 1 .. Len(s)
           /\ \A i \in 1 .. Len(s) : s[i] \in Range(s)
           /\ s \in [1 .. Len(s) -> Range(s)]
BY LenProperties, ElementOfSeq DEF Text

\* Two texts are equal when their tokens are.
LEMMA TextEqual ==
    ASSUME NEW s, NEW t, Text(s), Text(t), Len(s) = Len(t),
           \A i \in 1 .. Len(s) : s[i] = t[i]
    PROVE  s = t
BY TextFields

\* A function on 1 .. n is a text.
LEMMA TextOf ==
    ASSUME NEW n \in Nat, NEW S, NEW s \in [1 .. n -> S]
    PROVE  Text(s) /\ Len(s) = n
<1>1. s \in Seq(S)
  BY SeqDef
<1> QED BY <1>1, TextIs, LenProperties

\* A text after another one.
LEMMA TextJoined ==
    ASSUME NEW s, NEW t, Text(s), Text(t)
    PROVE  /\ Text(s \o t) /\ Len(s \o t) = Len(s) + Len(t)
           /\ \A i \in 1 .. Len(s) : (s \o t)[i] = s[i]
           /\ \A i \in 1 .. Len(t) : (s \o t)[Len(s) + i] = t[i]
           /\ \A i \in 1 .. Len(s) + Len(t) :
                 i \in 1 .. Len(s) \/ i - Len(s) \in 1 .. Len(t)
<1> DEFINE S == Range(s) \cup Range(t)
<1>1. Len(s) \in Nat /\ Len(t) \in Nat
  BY TextFields
<1>2. s \in Seq(S) /\ t \in Seq(S)
  BY SeqMonotonic DEF Text
<1> HIDE DEF S
<1>3. /\ s \o t \in Seq(S) /\ Len(s \o t) = Len(s) + Len(t)
      /\ \A i \in 1 .. Len(s) + Len(t) :
            (s \o t)[i] = IF i <= Len(s) THEN s[i] ELSE t[i - Len(s)]
  BY <1>2, ConcatProperties
<1>4. Text(s \o t)
  BY <1>3, TextIs
<1>5. ASSUME NEW i \in 1 .. Len(t)
      PROVE  (s \o t)[Len(s) + i] = t[i]
  <2>1. /\ Len(s) + i \in 1 .. Len(s) + Len(t) /\ ~ (Len(s) + i <= Len(s))
        /\ Len(s) + i - Len(s) = i
    BY <1>1
  <2> QED BY <1>3, <2>1
<1>6. \A i \in 1 .. Len(s) : i \in 1 .. Len(s) + Len(t) /\ i <= Len(s)
  BY <1>1
<1>7. \A i \in 1 .. Len(s) + Len(t) : i \in 1 .. Len(s) \/ i - Len(s) \in 1 .. Len(t)
  BY <1>1
<1> QED BY <1>3, <1>4, <1>5, <1>6, <1>7

\* It does not matter which two are joined first.
LEMMA TextAssociative ==
    ASSUME NEW s, NEW t, NEW u, Text(s), Text(t), Text(u)
    PROVE  (s \o t) \o u = s \o (t \o u)
<1> DEFINE S == Range(s) \cup Range(t) \cup Range(u)
<1>1. s \in Seq(S) /\ t \in Seq(S) /\ u \in Seq(S)
  BY SeqMonotonic DEF Text
<1> HIDE DEF S
<1> QED BY <1>1, ConcatAssociative

\* The tokens are of four kinds.
LEMMA Kinds ==
    ASSUME NEW x
    PROVE  /\ Char(x)[1] = "char" /\ Word(x)[1] = "word" /\ Word(x)[2] = x
           /\ Key(x)[1] = "key" /\ Key(x)[2] = x
           /\ Number(x)[1] = "number" /\ Number(x)[2] = x
BY DEF Char, Word, Key, Number

\* The characters.
LEMMA Chars ==
    /\ Open[1] = "char" /\ Close[1] = "char" /\ OpenList[1] = "char" /\ CloseList[1] = "char"
    /\ Comma[1] = "char" /\ Quote[1] = "char" /\ Backslash[1] = "char" /\ NUL[1] = "char"
    /\ Quote \notin {NUL, Backslash, Open} /\ Backslash # NUL
BY DEF Open, Close, OpenList, CloseList, Comma, Quote, Backslash, NUL, Char

-----------------------------------------------------------------------------
(* FlattenSeq *)

\* The function by which FlattenSeq joins n sequences.
Joins(F, n, f) == f = [i \in 1 .. n |-> IF i = 1 THEN F[i] ELSE f[i - 1] \o F[i]]

\* It exists.
LEMMA JoinsExist ==
    ASSUME NEW n \in Nat \ {0}, NEW F, \A i \in 1 .. n : Text(F[i])
    PROVE  \E f : Joins(F, n, f)
<1> DEFINE S == UNION {Range(F[i]) : i \in 1 .. n}
           D == 1 .. n
           m == [i \in D |-> i]
           V == Seq(S)
           g == [f \in [D -> V] |-> [i \in D |-> IF i = 1 THEN F[i] ELSE f[i - 1] \o F[i]]]
<1>1. ASSUME NEW i \in D PROVE F[i] \in V
  <2>1. Range(F[i]) \subseteq S
    OBVIOUS
  <2>2. F[i] \in Seq(Range(F[i]))
    BY DEF Text
  <2> HIDE DEF S
  <2> QED BY <2>1, <2>2, SeqMonotonic
<1>2. << >> \in V
  BY EmptySeq
<1>3. \A s, t \in V : s \o t \in V
  <2> HIDE DEF S
  <2> QED BY ConcatProperties
<1> HIDE DEF S, V
<1>4. ASSUME NEW f \in [D -> V], NEW i \in D
      PROVE  (IF i = 1 THEN F[i] ELSE f[i - 1] \o F[i]) \in V
  <2>1. CASE i = 1
    BY <1>1, <2>1
  <2>2. CASE i # 1
    <3>1. i - 1 \in D
      BY <2>2
    <3> QED BY <1>1, <1>3, <2>2, <3>1
  <2> QED BY <2>1, <2>2
<1>5. g \in [[D -> V] -> [D -> V]]
  BY <1>4
<1>6. m \in [D -> 0 .. n]
  OBVIOUS
<1>7. ASSUME NEW f \in [D -> V], NEW h \in [D -> V], NEW i \in D,
             \A j \in D : m[j] < m[i] => f[j] = h[j]
      PROVE  g[f][i] = g[h][i]
  <2>1. CASE i = 1
    BY <2>1
  <2>2. CASE i # 1
    <3>1. i - 1 \in D /\ m[i - 1] < m[i]
      BY <2>2
    <3> QED BY <1>7, <2>2, <3>1
  <2> QED BY <2>1, <2>2
<1>8. \E f \in [D -> V] : f = g[f]
  <2>1. n \in Nat
    OBVIOUS
  <2> HIDE DEF D, m, g
  <2>2. Recursion(n, D, m, V, g)
    BY <1>2, <1>5, <1>6, <1>7, <2>1 DEF Recursion
  <2> QED BY <2>2, RecursionExists
<1>9. PICK f \in [D -> V] : f = g[f]
  BY <1>8
<1> QED BY <1>9 DEF Joins

\* What FlattenSeq makes of a sequence of texts.
LEMMA FlattenRuns ==
    ASSUME NEW F, Text(F), Len(F) # 0, \A i \in 1 .. Len(F) : Text(F[i])
    PROVE  \E f : /\ f[1] = F[1]
                  /\ \A i \in 2 .. Len(F) : f[i] = f[i - 1] \o F[i]
                  /\ FlattenSeq(F) = f[Len(F)]
<1> DEFINE n == Len(F)
           f == CHOOSE f : Joins(F, n, f)
<1>1. n \in Nat \ {0}
  BY TextFields
<1>2. FlattenSeq(F) = f[n]
  BY DEF FlattenSeq, Joins
<1>3. Joins(F, n, f)
  <2>1. \E h : Joins(F, n, h)
    BY <1>1, JoinsExist
  <2> QED BY <2>1
<1> HIDE DEF f
<1>4. \A i \in 1 .. n : f[i] = IF i = 1 THEN F[i] ELSE f[i - 1] \o F[i]
  BY <1>3 DEF Joins
<1>5. f[1] = F[1]
  <2>1. 1 \in 1 .. n
    BY <1>1
  <2> QED BY <1>4, <2>1
<1>6. ASSUME NEW i \in 2 .. n PROVE f[i] = f[i - 1] \o F[i]
  <2>1. i \in 1 .. n /\ i # 1
    BY <1>1
  <2> QED BY <1>4, <2>1, Zenon
<1> QED BY <1>2, <1>5, <1>6

-----------------------------------------------------------------------------
(* Texts in which the fields that matter are what they should be *)

\* The token at p of s is no key, or its field is as it should be: a hash in H
\* with its quotes, a number of transactions.
FieldAt(s, p, H) ==
    /\ s[p] = Key("hash") =>
         /\ p + 3 <= Len(s) /\ s[p + 1] = Quote /\ s[p + 3] = Quote
         /\ \E h \in H : s[p + 2] = Word(h)
    /\ s[p] = Key("tx_count") => p + 1 <= Len(s) /\ \E n \in Nat : s[p + 1] = Number(n)

Sane(s, H) == Text(s) /\ \A p \in 1 .. Len(s) : FieldAt(s, p, H)

\* A text without these keys.
LEMMA SanePlain ==
    ASSUME NEW s, NEW H, Text(s),
           \A p \in 1 .. Len(s) : s[p] \notin {Key("hash"), Key("tx_count")}
    PROVE  Sane(s, H)
BY DEF Sane, FieldAt

\* Token by token: what stands in s stands in a longer text.
LEMMA FieldMoves ==
    ASSUME NEW s, NEW t, NEW H, NEW d \in Nat, NEW p \in 1 .. Len(s), Text(s), Text(t),
           d + Len(s) <= Len(t), \A i \in 1 .. Len(s) : t[d + i] = s[i],
           FieldAt(s, p, H)
    PROVE  FieldAt(t, d + p, H)
<1>1. Len(s) \in Nat /\ Len(t) \in Nat /\ t[d + p] = s[p]
  BY TextFields
<1>2. ASSUME t[d + p] = Key("hash")
      PROVE  /\ d + p + 3 <= Len(t) /\ t[d + p + 1] = Quote /\ t[d + p + 3] = Quote
             /\ \E h \in H : t[d + p + 2] = Word(h)
  <2>1. /\ p + 3 <= Len(s) /\ s[p + 1] = Quote /\ s[p + 3] = Quote
        /\ \E h \in H : s[p + 2] = Word(h)
    BY <1>1, <1>2 DEF FieldAt
  <2>2. /\ t[d + (p + 1)] = s[p + 1] /\ t[d + (p + 2)] = s[p + 2]
        /\ t[d + (p + 3)] = s[p + 3]
    <3>1. p + 1 \in 1 .. Len(s) /\ p + 2 \in 1 .. Len(s) /\ p + 3 \in 1 .. Len(s)
      BY <1>1, <2>1
    <3> QED BY <3>1
  <2>3. d + (p + 1) = d + p + 1 /\ d + (p + 2) = d + p + 2 /\ d + (p + 3) = d + p + 3
    OBVIOUS
  <2>4. d + p + 3 <= Len(t)
    BY <1>1, <2>1
  <2> QED BY <2>1, <2>2, <2>3, <2>4
<1>3. ASSUME t[d + p] = Key("tx_count")
      PROVE  d + p + 1 <= Len(t) /\ \E n \in Nat : t[d + p + 1] = Number(n)
  <2>1. p + 1 <= Len(s) /\ \E n \in Nat : s[p + 1] = Number(n)
    BY <1>1, <1>3 DEF FieldAt
  <2>2. p + 1 \in 1 .. Len(s) /\ d + (p + 1) = d + p + 1 /\ d + p + 1 <= Len(t)
    BY <1>1, <2>1
  <2>3. t[d + (p + 1)] = s[p + 1]
    BY <2>2
  <2> QED BY <2>1, <2>2, <2>3
<1> QED BY <1>2, <1>3 DEF FieldAt

\* One after the other.
LEMMA SaneJoined ==
    ASSUME NEW s, NEW t, NEW H, Sane(s, H), Sane(t, H)
    PROVE  Sane(s \o t, H)
<1>0. Text(s) /\ Text(t)
  BY DEF Sane
<1>1. /\ Text(s \o t) /\ Len(s \o t) = Len(s) + Len(t)
      /\ \A i \in 1 .. Len(s) : (s \o t)[i] = s[i]
      /\ \A i \in 1 .. Len(t) : (s \o t)[Len(s) + i] = t[i]
      /\ \A i \in 1 .. Len(s) + Len(t) : i \in 1 .. Len(s) \/ i - Len(s) \in 1 .. Len(t)
  BY <1>0, TextJoined
<1>2. PICK u : u = s \o t
  OBVIOUS
<1>3. Len(s) \in Nat /\ Len(t) \in Nat
  BY <1>0, TextFields
<1>4. ASSUME NEW p \in 1 .. Len(s)
      PROVE  FieldAt(u, p, H)
  <2>1. 0 + Len(s) <= Len(u) /\ \A i \in 1 .. Len(s) : u[0 + i] = s[i]
    BY <1>1, <1>2, <1>3
  <2>2. FieldAt(s, p, H)
    BY DEF Sane
  <2>3. FieldAt(u, 0 + p, H)
    BY <1>0, <1>1, <1>2, <2>1, <2>2, FieldMoves
  <2> QED BY <2>3
<1>5. ASSUME NEW p \in 1 .. Len(t)
      PROVE  FieldAt(u, Len(s) + p, H)
  <2>1. Len(s) + Len(t) <= Len(u) /\ \A i \in 1 .. Len(t) : u[Len(s) + i] = t[i]
    BY <1>1, <1>2, <1>3
  <2>2. FieldAt(t, p, H)
    BY DEF Sane
  <2> QED BY <1>0, <1>1, <1>2, <1>3, <2>1, <2>2, FieldMoves
<1>6. ASSUME NEW p \in 1 .. Len(u)
      PROVE  FieldAt(u, p, H)
  <2>1. CASE p \in 1 .. Len(s)
    BY <1>4, <2>1
  <2>2. CASE p - Len(s) \in 1 .. Len(t)
    <3>1. FieldAt(u, Len(s) + (p - Len(s)), H)
      BY <1>5, <2>2
    <3>2. Len(s) + (p - Len(s)) = p
      BY <1>3
    <3> QED BY <3>1, <3>2
  <2>3. p \in 1 .. Len(s) + Len(t)
    BY <1>1, <1>2
  <2> QED BY <1>1, <2>1, <2>2, <2>3
<1> QED BY <1>1, <1>2, <1>6 DEF Sane

\* All of them joined; and the first one comes first.
LEMMA FlattenSane ==
    ASSUME NEW F, NEW H, Text(F), \A i \in 1 .. Len(F) : Sane(F[i], H)
    PROVE  /\ Sane(FlattenSeq(F), H)
           /\ Len(F) # 0 => /\ Len(F[1]) <= Len(FlattenSeq(F))
                            /\ \A i \in 1 .. Len(F[1]) : FlattenSeq(F)[i] = F[1][i]
<1>0. Len(F) \in Nat
  BY TextFields
<1>1. CASE Len(F) = 0
  <2>1. FlattenSeq(F) = F
    BY <1>1 DEF FlattenSeq
  <2> QED BY <1>1, <2>1, SanePlain
<1>2. CASE Len(F) # 0
  <2>1. \A i \in 1 .. Len(F) : Text(F[i])
    BY DEF Sane
  <2>2. PICK f : /\ f[1] = F[1]
                 /\ \A i \in 2 .. Len(F) : f[i] = f[i - 1] \o F[i]
                 /\ FlattenSeq(F) = f[Len(F)]
    BY <1>2, <2>1, FlattenRuns
  <2> DEFINE G(t) == /\ Sane(t, H) /\ Len(F[1]) <= Len(t)
                     /\ \A i \in 1 .. Len(F[1]) : t[i] = F[1][i]
             T == {k \in Nat : k + 1 <= Len(F) => G(f[k + 1])}
  <2>3. 0 \in T
    <3>1. 1 \in 1 .. Len(F)
      BY <1>0, <1>2
    <3>2. Sane(F[1], H) /\ Len(F[1]) \in Nat
      BY <2>1, <3>1, TextFields
    <3> QED BY <2>2, <3>2
  <2>4. ASSUME NEW k \in Nat, k \in T
        PROVE  k + 1 \in T
    <3> SUFFICES ASSUME k + 2 <= Len(F) PROVE G(f[k + 2])
      <4>1. k + 1 + 1 = k + 2 /\ k + 1 \in Nat
        OBVIOUS
      <4> QED BY <4>1
    <3>1. k + 2 \in 2 .. Len(F) /\ k + 2 \in 1 .. Len(F) /\ k + 2 - 1 = k + 1
      BY <1>0
    <3>2. f[k + 2] = f[k + 1] \o F[k + 2]
      <4>1. PICK i \in 2 .. Len(F) : i = k + 2 /\ i - 1 = k + 1
        BY <3>1
      <4>2. f[i] = f[i - 1] \o F[i]
        BY <2>2
      <4> QED BY <4>1, <4>2
    <3>3. G(f[k + 1])
      BY <1>0, <2>4
    <3>4. PICK s, t : s = f[k + 1] /\ t = F[k + 2]
      OBVIOUS
    <3>5. Sane(s, H) /\ Sane(t, H) /\ Text(s) /\ Text(t)
      BY <3>1, <3>3, <3>4 DEF Sane
    <3>6. Sane(s \o t, H)
      BY <3>5, SaneJoined
    <3>7. /\ Len(s \o t) = Len(s) + Len(t) /\ Len(s) \in Nat /\ Len(t) \in Nat
          /\ \A i \in 1 .. Len(s) : (s \o t)[i] = s[i]
      BY <3>5, TextJoined, TextFields
    <3>8. Len(F[1]) \in Nat
      BY <1>0, <1>2, <2>1, TextFields
    <3>9. /\ Len(F[1]) <= Len(s) /\ \A i \in 1 .. Len(F[1]) : s[i] = F[1][i]
      BY <3>3, <3>4
    <3>10. Len(F[1]) <= Len(s \o t) /\ \A i \in 1 .. Len(F[1]) : (s \o t)[i] = F[1][i]
      BY <3>7, <3>8, <3>9
    <3> QED BY <3>2, <3>4, <3>6, <3>10
  <2>5. Len(F) - 1 \in T
    <3> HIDE DEF T
    <3> QED BY <1>0, <1>2, <2>3, <2>4, SetInduction
  <2>6. G(f[Len(F)])
    <3>1. Len(F) - 1 + 1 = Len(F) /\ Len(F) <= Len(F)
      BY <1>0
    <3> QED BY <2>5, <3>1
  <2> QED BY <2>2, <2>6
<1> QED BY <1>1, <1>2

-----------------------------------------------------------------------------
(* Serialized transactions, blocks and chains are such texts *)

\* A token of another kind than the two keys of FieldAt.
Other(t) == t \notin {Key("hash"), Key("tx_count")}

\* The other tokens that the serializers write.
LEMMA Others ==
    /\ \A t : t[1] # "key" => Other(t)
    /\ \A k : k \notin {"hash", "tx_count"} => Other(Key(k))
    /\ Other(Open) /\ Other(Close) /\ Other(OpenList) /\ Other(CloseList)
    /\ Other(Comma) /\ Other(Quote) /\ Other(Backslash)
    /\ \A x : Other(Word(x)) /\ Other(Number(x))
<1>1. ASSUME NEW t, t[1] # "key" PROVE Other(t)
  BY <1>1, Kinds DEF Other
<1>2. ASSUME NEW k, k \notin {"hash", "tx_count"} PROVE Other(Key(k))
  <2>1. Key(k)[2] = k /\ Key("hash")[2] = "hash" /\ Key("tx_count")[2] = "tx_count"
    BY Kinds
  <2> QED BY <1>2, <2>1 DEF Other
<1>3. \A x : Word(x)[1] # "key" /\ Number(x)[1] # "key"
  BY Kinds
<1> QED BY <1>1, <1>2, <1>3, Chars

\* Sequences of one, two, five, six and eight such tokens.
LEMMA SaneOne ==
    ASSUME NEW H, NEW a,
           Other(a)
    PROVE  Sane(<<a>>, H)
<1> DEFINE s == <<a>>
<1>1. s \in Seq({a})
  OBVIOUS
<1>2. \A p \in 1 .. Len(s) : Other(s[p])
  OBVIOUS
<1> QED BY <1>1, <1>2, TextIs, SanePlain DEF Other

\* Two.
LEMMA SaneTwo ==
    ASSUME NEW H, NEW a, NEW b,
           Other(a), Other(b)
    PROVE  Sane(<<a, b>>, H)
<1> DEFINE s == <<a, b>>
<1>1. s \in Seq({a, b})
  OBVIOUS
<1>2. \A p \in 1 .. Len(s) : Other(s[p])
  OBVIOUS
<1> QED BY <1>1, <1>2, TextIs, SanePlain DEF Other

\* Five.
LEMMA SaneFive ==
    ASSUME NEW H, NEW a, NEW b, NEW c, NEW d, NEW e,
           Other(a), Other(b), Other(c), Other(d), Other(e)
    PROVE  Sane(<<a, b, c, d, e>>, H)
<1> DEFINE s == <<a, b, c, d, e>>
<1>1. s \in Seq({a, b, c, d, e})
  OBVIOUS
<1>2. \A p \in 1 .. Len(s) : Other(s[p])
  OBVIOUS
<1> QED BY <1>1, <1>2, TextIs, SanePlain DEF Other

\* Six.
LEMMA SaneSix ==
    ASSUME NEW H, NEW a, NEW b, NEW c, NEW d, NEW e, NEW f,
           Other(a), Other(b), Other(c), Other(d), Other(e), Other(f)
    PROVE  Sane(<<a, b, c, d, e, f>>, H)
<1> DEFINE s == <<a, b, c, d, e, f>>
<1>1. s \in Seq({a, b, c, d, e, f})
  OBVIOUS
<1>2. \A p \in 1 .. Len(s) : Other(s[p])
  OBVIOUS
<1> QED BY <1>1, <1>2, TextIs, SanePlain DEF Other

\* Eight.
LEMMA SaneEight ==
    ASSUME NEW H, NEW a, NEW b, NEW c, NEW d, NEW e, NEW f, NEW g, NEW h,
           Other(a), Other(b), Other(c), Other(d), Other(e), Other(f), Other(g), Other(h)
    PROVE  Sane(<<a, b, c, d, e, f, g, h>>, H)
<1> DEFINE s == <<a, b, c, d, e, f, g, h>>
<1>1. s \in Seq({a, b, c, d, e, f, g, h})
  OBVIOUS
<1>2. \A p \in 1 .. Len(s) : Other(s[p])
  OBVIOUS
<1> QED BY <1>1, <1>2, TextIs, SanePlain DEF Other

\* What a user can type, and what stands for it in a transaction: no key.
Typed(s) == Text(s) /\ \A i \in 1 .. Len(s) : s[i][1] # "key"

\* json_escape puts no key into it.
LEMMA EscapeSane ==
    ASSUME NEW s, NEW H, Typed(s)
    PROVE  Sane(s, H) /\ Sane(JsonEscape(s), H)
<1> DEFINE F == [i \in 1 .. Len(s) |->
                   IF s[i] \in {Quote, Backslash} THEN <<Backslash, s[i]>> ELSE <<s[i]>>]
<1>1. Text(s) /\ Len(s) \in Nat /\ \A i \in 1 .. Len(s) : Other(s[i])
  BY Others, TextFields DEF Typed
<1>2. Sane(s, H)
  BY <1>1, SanePlain DEF Other
<1>3. \A i \in 1 .. Len(s) : Sane(<<Backslash, s[i]>>, H) /\ Sane(<<s[i]>>, H)
  BY <1>1, Others, SaneOne, SaneTwo
<1>4. F \in [1 .. Len(s) -> {F[i] : i \in 1 .. Len(s)}]
  OBVIOUS
<1>5. Text(F) /\ Len(F) = Len(s)
  BY <1>1, <1>4, TextOf
<1>6. \A i \in 1 .. Len(F) : Sane(F[i], H)
  BY <1>3, <1>5
<1>7. Sane(FlattenSeq(F), H)
  <2> HIDE DEF F
  <2> QED BY <1>5, <1>6, FlattenSane
<1> QED BY <1>2, <1>7 DEF JsonEscape

\* Quotes around a text.
LEMMA QuotedSane ==
    ASSUME NEW s, NEW H, Sane(s, H)
    PROVE  Sane(Quoted(s), H)
<1>1. Sane(<<Quote>>, H)
  BY Others, SaneOne
<1>2. Sane(<<Quote>> \o s, H)
  BY <1>1, SaneJoined
<1>3. Sane((<<Quote>> \o s) \o <<Quote>>, H)
  BY <1>1, <1>2, SaneJoined
<1> QED BY <1>3 DEF Quoted

\* The digits of a digest.
LEMMA HexSane ==
    ASSUME NEW d, NEW H
    PROVE  Sane(Hex(d), H)
<1>1. Sane(<<Word(d)>>, H)
  BY Others, SaneOne
<1>2. Sane(<< >>, H)
  <2>1. PICK e : e = << >>
    OBVIOUS
  <2>2. e \in Seq({}) /\ Len(e) = 0
    BY <2>1
  <2>3. Text(e)
    BY <2>2, TextIs
  <2>4. Sane(e, H)
    BY <2>2, <2>3, SanePlain
  <2> QED BY <2>1, <2>4
<1> QED BY <1>1, <1>2 DEF Hex

\* A transaction whose strings were typed or made by the program.
TypedTx(t) == Typed(t.sender) /\ Typed(t.receiver) /\ Typed(t.signature)

\* protocol_serialize_tx.
LEMMA TxSane ==
    ASSUME NEW t, NEW H, TypedTx(t)
    PROVE  Sane(SerializeTx(t), H)
<1> DEFINE p1 == <<Open, Key("sender")>>
           q1 == Quoted(JsonEscape(t.sender))
           p2 == <<Comma, Key("receiver")>>
           q2 == Quoted(JsonEscape(t.receiver))
           p3 == <<Comma, Key("amount"), Number(t.amount), Comma, Key("fee"), Number(t.fee)>>
           p4 == <<Comma, Key("signature")>>
           q4 == Quoted(t.signature)
           p5 == <<Comma, Key("tx_hash")>>
           q5 == Quoted(Hex(t.tx_hash))
           p6 == <<Close>>
<1>1. /\ Other(Key("sender")) /\ Other(Key("receiver")) /\ Other(Key("amount"))
      /\ Other(Key("fee")) /\ Other(Key("signature")) /\ Other(Key("tx_hash"))
  BY Others
<1>2. Sane(p1, H) /\ Sane(p2, H) /\ Sane(p4, H) /\ Sane(p5, H) /\ Sane(p6, H)
  BY <1>1, Others, SaneOne, SaneTwo
<1>3. Sane(p3, H)
  BY <1>1, Others, SaneSix
<1>4. Sane(q1, H) /\ Sane(q2, H) /\ Sane(q4, H)
  BY EscapeSane, QuotedSane DEF TypedTx
<1>5. Sane(q5, H)
  BY HexSane, QuotedSane
<1>6. SerializeTx(t) = ((((((((p1 \o q1) \o p2) \o q2) \o p3) \o p4) \o q4) \o p5) \o q5) \o p6
  BY DEF SerializeTx
<1> HIDE DEF p1, q1, p2, q2, p3, p4, q4, p5, q5, p6
<1>7. Sane(((p1 \o q1) \o p2) \o q2, H)
  BY <1>2, <1>4, SaneJoined
<1>8. Sane((((((p1 \o q1) \o p2) \o q2) \o p3) \o p4) \o q4, H)
  BY <1>2, <1>3, <1>4, <1>7, SaneJoined
<1> QED BY <1>2, <1>5, <1>6, <1>8, SaneJoined

\* Texts in a list; the first one stands behind the bracket.
LEMMA ListSane ==
    ASSUME NEW F, NEW H, Text(F), \A i \in 1 .. Len(F) : Sane(F[i], H)
    PROVE  /\ Sane(List(F), H) /\ List(F)[1] = OpenList
           /\ Len(F) # 0 => /\ 1 + Len(F[1]) <= Len(List(F))
                            /\ \A i \in 1 .. Len(F[1]) : List(F)[1 + i] = F[1][i]
<1> DEFINE G == [i \in 1 .. Len(F) |-> IF i = 1 THEN F[i] ELSE <<Comma>> \o F[i]]
           t == FlattenSeq(G)
           u == <<OpenList>> \o t
<1>0. Len(F) \in Nat
  BY TextFields
<1>1. G \in [1 .. Len(F) -> {G[i] : i \in 1 .. Len(F)}]
  OBVIOUS
<1>2. Text(G) /\ Len(G) = Len(F)
  BY <1>0, <1>1, TextOf
<1>3. Sane(<<Comma>>, H) /\ Sane(<<OpenList>>, H) /\ Sane(<<CloseList>>, H)
  BY Others, SaneOne
<1>4. ASSUME NEW i \in 1 .. Len(G)
      PROVE  Sane(G[i], H)
  <2>1. i \in 1 .. Len(F)
    BY <1>2
  <2>2. Sane(<<Comma>> \o F[i], H) /\ Sane(F[i], H)
    BY <1>3, <2>1, SaneJoined
  <2> QED BY <2>1, <2>2
<1>5. Len(F) # 0 => G[1] = F[1]
  BY <1>0
<1> HIDE DEF G
<1>6. /\ Sane(t, H)
      /\ Len(F) # 0 => /\ Len(F[1]) <= Len(t)
                       /\ \A i \in 1 .. Len(F[1]) : t[i] = F[1][i]
  BY <1>2, <1>4, <1>5, FlattenSane
<1> HIDE DEF t
<1>7. Sane(u, H) /\ Sane(u \o <<CloseList>>, H)
  BY <1>3, <1>6, SaneJoined
<1>8. /\ Len(u) = 1 + Len(t) /\ Len(t) \in Nat /\ u[1] = OpenList
      /\ \A i \in 1 .. Len(t) : u[1 + i] = t[i]
  <2>1. Text(<<OpenList>>) /\ Text(t) /\ Len(<<OpenList>>) = 1 /\ <<OpenList>>[1] = OpenList
    BY <1>3, <1>6 DEF Sane
  <2> QED BY <2>1, TextJoined, TextFields
<1> HIDE DEF u
<1>9. /\ Len(u \o <<CloseList>>) = Len(u) + 1
      /\ \A i \in 1 .. Len(u) : (u \o <<CloseList>>)[i] = u[i]
  <2>1. Text(u) /\ Text(<<CloseList>>) /\ Len(<<CloseList>>) = 1
    BY <1>3, <1>7 DEF Sane
  <2> QED BY <2>1, TextJoined
<1>10. List(F) = u \o <<CloseList>>
  BY DEF List, G, t, u
<1>11. PICK v : v = u \o <<CloseList>>
  OBVIOUS
<1>12. v[1] = OpenList /\ Len(v) = Len(t) + 2
  BY <1>8, <1>9, <1>11
<1>13. ASSUME Len(F) # 0
       PROVE  1 + Len(F[1]) <= Len(v) /\ \A i \in 1 .. Len(F[1]) : v[1 + i] = F[1][i]
  <2>0. Len(F[1]) \in Nat
    BY <1>0, <1>13, TextFields DEF Sane
  <2>1. Len(F[1]) <= Len(t) /\ \A i \in 1 .. Len(F[1]) : t[i] = F[1][i]
    BY <1>6, <1>13
  <2>2. ASSUME NEW i \in 1 .. Len(F[1])
        PROVE  v[1 + i] = F[1][i]
    <3>1. i \in 1 .. Len(t) /\ 1 + i \in 1 .. Len(u)
      BY <1>8, <2>0, <2>1
    <3> QED BY <1>8, <1>9, <1>11, <2>1, <3>1
  <2> QED BY <1>8, <1>12, <2>0, <2>1, <2>2
<1> QED BY <1>7, <1>10, <1>11, <1>12, <1>13

\* The digits of a digest in quotes.
LEMMA QuotedWord ==
    ASSUME NEW d, d # Unset
    PROVE  /\ Text(Quoted(Hex(d))) /\ Len(Quoted(Hex(d))) = 3
           /\ Quoted(Hex(d))[1] = Quote /\ Quoted(Hex(d))[2] = Word(d)
           /\ Quoted(Hex(d))[3] = Quote
<1>1. PICK w, q : w = Word(d) /\ q = Quote
  OBVIOUS
<1>2. <<q>> \in Seq({q}) /\ <<w>> \in Seq({w})
  OBVIOUS
<1>3. Text(<<q>>) /\ Text(<<w>>)
  BY <1>2, TextIs
<1>4. /\ Text(<<q>> \o <<w>>) /\ Len(<<q>> \o <<w>>) = 2
      /\ (<<q>> \o <<w>>)[1] = q /\ (<<q>> \o <<w>>)[2] = w
  BY <1>3, TextJoined
<1>5. PICK s : s = <<q>> \o <<w>>
  OBVIOUS
<1>6. /\ Text(s \o <<q>>) /\ Len(s \o <<q>>) = 3
      /\ (s \o <<q>>)[1] = q /\ (s \o <<q>>)[2] = w /\ (s \o <<q>>)[3] = q
  BY <1>3, <1>4, <1>5, TextJoined
<1>7. Quoted(Hex(d)) = s \o <<q>>
  BY <1>1, <1>5 DEF Quoted, Hex
<1> QED BY <1>1, <1>6, <1>7

\* t stands in s behind its first d tokens.
Stands(t, s, d) == d + Len(t) <= Len(s) /\ \A i \in 1 .. Len(t) : s[d + i] = t[i]

\* It still does when more is appended.
LEMMA StandsJoined ==
    ASSUME NEW s, NEW t, Text(s), Text(t)
    PROVE  /\ Stands(t, s \o t, Len(s))
           /\ \A u, d : Text(u) /\ d \in Nat /\ Stands(u, s, d) => Stands(u, s \o t, d)
<1>1. /\ Len(s \o t) = Len(s) + Len(t)
      /\ \A i \in 1 .. Len(s) : (s \o t)[i] = s[i]
      /\ \A i \in 1 .. Len(t) : (s \o t)[Len(s) + i] = t[i]
  BY TextJoined
<1>2. Len(s) \in Nat /\ Len(t) \in Nat
  BY TextFields
<1>3. PICK w : w = s \o t
  OBVIOUS
<1>4. Stands(t, w, Len(s))
  BY <1>1, <1>2, <1>3 DEF Stands
<1>5. ASSUME NEW u, NEW d, Text(u), d \in Nat, Stands(u, s, d)
      PROVE  Stands(u, w, d)
  <2>1. Len(u) \in Nat /\ d + Len(u) <= Len(s) /\ \A i \in 1 .. Len(u) : s[d + i] = u[i]
    BY <1>5, TextFields DEF Stands
  <2>2. d + Len(u) <= Len(w)
    BY <1>1, <1>2, <1>3, <1>5, <2>1
  <2>3. ASSUME NEW i \in 1 .. Len(u) PROVE w[d + i] = u[i]
    <3>1. d + i \in 1 .. Len(s)
      BY <1>2, <1>5, <2>1
    <3> QED BY <1>1, <1>3, <2>1, <3>1
  <2> QED BY <2>2, <2>3 DEF Stands
<1> QED BY <1>3, <1>4, <1>5

\* The nonce and the hash.
LEMMA HashSane ==
    ASSUME NEW H, NEW h \in H, h # Unset, NEW n
    PROVE  Sane(<<Comma, Key("nonce"), Number(n), Comma, Key("hash")>> \o Quoted(Hex(h)), H)
<1>1. PICK a, b, c, e : a = Comma /\ b = Key("nonce") /\ c = Number(n) /\ e = Key("hash")
  OBVIOUS
<1>2. PICK s : s = <<a, b, c, a, e>>
  OBVIOUS
<1>3. PICK q : q = Quoted(Hex(h))
  OBVIOUS
<1>4. s \in Seq({a, b, c, e}) /\ Len(s) = 5
  BY <1>2
<1>5. Text(q) /\ Len(q) = 3 /\ q[1] = Quote /\ q[2] = Word(h) /\ q[3] = Quote
  BY <1>3, QuotedWord
<1>6. Text(s)
  BY <1>4, TextIs
<1>7. /\ Text(s \o q) /\ Len(s \o q) = 8
      /\ \A i \in 1 .. 5 : (s \o q)[i] = s[i]
      /\ (s \o q)[6] = q[1] /\ (s \o q)[7] = q[2] /\ (s \o q)[8] = q[3]
  <2>1. /\ Text(s \o q) /\ Len(s \o q) = Len(s) + Len(q)
        /\ \A i \in 1 .. Len(s) : (s \o q)[i] = s[i]
        /\ \A i \in 1 .. Len(q) : (s \o q)[Len(s) + i] = q[i]
    <3>1. Text(s) /\ Text(q)
      BY <1>5, <1>6
    <3> QED BY <3>1, TextJoined
  <2> QED BY <1>4, <1>5, <2>1
<1>8. PICK w : w = s \o q
  OBVIOUS
<1>9. Other(a) /\ Other(b) /\ Other(c) /\ Other(Quote) /\ Other(Word(h))
  BY <1>1, Others
<1>10. e # Key("tx_count")
  BY <1>1, Kinds
<1>11. w[1] = a /\ w[2] = b /\ w[3] = c /\ w[4] = a /\ w[5] = e
  BY <1>2, <1>7, <1>8
<1>12. \A p \in 1 .. 8 : FieldAt(w, p, H)
  <2>1. \A p \in {1, 2, 3, 4, 6, 7, 8} : FieldAt(w, p, H)
    BY <1>5, <1>7, <1>8, <1>9, <1>11 DEF FieldAt, Other
  <2>2. FieldAt(w, 5, H)
    BY <1>5, <1>7, <1>8, <1>10, <1>11 DEF FieldAt
  <2> QED BY <2>1, <2>2
<1>13. Sane(w, H)
  BY <1>7, <1>8, <1>12 DEF Sane
<1> QED BY <1>1, <1>2, <1>3, <1>8, <1>13

\* The number of transactions.
LEMMA CountSane ==
    ASSUME NEW H, NEW n \in Nat
    PROVE  Sane(<<Comma, Key("tx_count"), Number(n), Comma, Key("transactions")>>, H)
<1>1. PICK a, b, c, e : /\ a = Comma /\ b = Key("tx_count") /\ c = Number(n)
                        /\ e = Key("transactions")
  OBVIOUS
<1>2. PICK s : s = <<a, b, c, a, e>>
  OBVIOUS
<1>3. s \in Seq({a, b, c, e}) /\ Len(s) = 5
  BY <1>2
<1>4. Other(a) /\ Other(c) /\ Other(e)
  BY <1>1, Others
<1>5. b # Key("hash")
  BY <1>1, Kinds
<1>6. s[1] = a /\ s[2] = b /\ s[3] = c /\ s[4] = a /\ s[5] = e
  BY <1>2
<1>7. FieldAt(s, 2, H)
  BY <1>1, <1>3, <1>5, <1>6 DEF FieldAt
<1>8. \A p \in {1, 3, 4, 5} : FieldAt(s, p, H)
  BY <1>4, <1>6 DEF FieldAt, Other
<1>9. Text(s)
  BY <1>3, TextIs
<1> QED BY <1>1, <1>2, <1>3, <1>7, <1>8, <1>9 DEF Sane

\* A block as the program makes one: its strings were typed or made by the
\* program, and its hash is one of H.
Serializable(b, H) ==
    /\ Text(b.transactions)
    /\ \A i \in 1 .. Len(b.transactions) : TypedTx(b.transactions[i])
    /\ b.hash \in H \ {Unset}

\* protocol_serialize_block.
LEMMA BlockSane ==
    ASSUME NEW H, NEW b, Serializable(b, H)
    PROVE  Sane(SerializeBlock(b), H)
<1> DEFINE p1 == <<Open, Key("index"), Number(b.index), Comma, Key("timestamp"),
                   Number(b.timestamp), Comma, Key("prev_hash")>>
           q1 == Quoted(Hex(b.prev_hash))
           p2 == <<Comma, Key("nonce"), Number(b.nonce), Comma, Key("hash")>>
           q2 == Quoted(Hex(b.hash))
           p3 == <<Comma, Key("tx_count"), Number(Len(b.transactions)), Comma,
                   Key("transactions")>>
           F == [i \in DOMAIN b.transactions |-> SerializeTx(b.transactions[i])]
           q3 == List(F)
           p4 == <<Close>>
<1>1. Sane(p1, H)
  <2>1. Other(Key("index")) /\ Other(Key("timestamp")) /\ Other(Key("prev_hash"))
    BY Others
  <2> QED BY <2>1, Others, SaneEight
<1>2. Sane(q1, H) /\ Sane(p4, H)
  BY HexSane, QuotedSane, Others, SaneOne
<1>3. Sane(p2 \o q2, H)
  BY HashSane DEF Serializable
<1>4. Sane(p3, H)
  BY CountSane, TextFields DEF Serializable
<1>5. Sane(q3, H)
  <2> DEFINE n == Len(b.transactions)
  <2>1. n \in Nat /\ DOMAIN b.transactions = 1 .. n
    BY TextFields DEF Serializable
  <2>2. PICK S : S = {F[i] : i \in 1 .. n}
    OBVIOUS
  <2>3. Text(F) /\ Len(F) = n
    <3>1. F \in [1 .. n -> S]
      BY <2>1, <2>2
    <3> HIDE DEF F, n
    <3> QED BY <2>1, <3>1, TextOf
  <2>4. \A i \in 1 .. Len(F) : Sane(F[i], H)
    BY <2>1, <2>3, TxSane DEF Serializable
  <2> HIDE DEF F
  <2> QED BY <2>3, <2>4, ListSane
<1>6. SerializeBlock(b) = (((((p1 \o q1) \o p2) \o q2) \o p3) \o q3) \o p4
  BY DEF SerializeBlock
<1>7. Text(p2) /\ Text(q2)
  <2>1. \A k : Key(k) \in {Key(k)}
    OBVIOUS
  <2>2. PICK a, c, d, e : a = Comma /\ c = Key("nonce") /\ d = Number(b.nonce) /\ e = Key("hash")
    OBVIOUS
  <2>3. <<a, c, d, a, e>> \in Seq({a, c, d, e})
    OBVIOUS
  <2>4. Text(<<a, c, d, a, e>>)
    BY <2>3, TextIs
  <2> QED BY <2>2, <2>4, QuotedWord DEF Serializable
<1> HIDE DEF p1, q1, p2, q2, p3, q3, p4
<1>8. Sane(p1 \o q1, H)
  BY <1>1, <1>2, SaneJoined
<1>9. ((p1 \o q1) \o p2) \o q2 = (p1 \o q1) \o (p2 \o q2)
  BY <1>7, <1>8, TextAssociative DEF Sane
<1>10. Sane(((p1 \o q1) \o p2) \o q2, H)
  BY <1>3, <1>8, <1>9, SaneJoined
<1>11. Sane(((((p1 \o q1) \o p2) \o q2) \o p3) \o q3, H)
  BY <1>4, <1>5, <1>10, SaneJoined
<1> QED BY <1>2, <1>6, <1>11, SaneJoined

-----------------------------------------------------------------------------
(* Looking into a text *)

\* A piece of a text, cut anywhere.
CutFrom(s, t) ==
    /\ Text(s)
    /\ \E d \in Nat : d + Len(s) <= Len(t) /\ \A i \in 1 .. Len(s) : s[i] = t[d + i]

\* SubSeq cuts.
LEMMA SubSeqCuts ==
    ASSUME NEW t, Text(t), NEW a \in Nat \ {0}, NEW b \in Nat, b <= Len(t)
    PROVE  /\ CutFrom(SubSeq(t, a, b), t)
           /\ Len(SubSeq(t, a, b)) = IF a <= b THEN b - a + 1 ELSE 0
           /\ \A i \in 1 .. Len(SubSeq(t, a, b)) : SubSeq(t, a, b)[i] = t[a - 1 + i]
<1>0. Len(t) \in Nat /\ \A i \in 1 .. Len(t) : t[i] \in Range(t)
  BY TextFields
<1>1. \A i \in a .. b : t[i] \in Range(t)
  BY <1>0
<1>2. PICK s : s = SubSeq(t, a, b)
  OBVIOUS
<1>3. /\ s \in Seq(Range(t)) /\ Len(s) = IF a <= b THEN b - a + 1 ELSE 0
      /\ \A i \in 1 .. b - a + 1 : s[i] = t[a + i - 1]
  BY <1>1, <1>2, SubSeqProperties
<1>4. Text(s)
  BY <1>3, TextIs
<1>5. ASSUME NEW i \in 1 .. Len(s)
      PROVE  s[i] = t[a - 1 + i]
  <2>1. i \in 1 .. b - a + 1 /\ a + i - 1 = a - 1 + i
    BY <1>3
  <2> QED BY <1>3, <2>1
<1>6. CutFrom(s, t)
  <2>1. CASE a <= b
    <3>1. a - 1 \in Nat /\ a - 1 + Len(s) <= Len(t)
      BY <1>0, <1>3, <2>1
    <3> QED BY <1>4, <1>5, <3>1 DEF CutFrom
  <2>2. CASE ~ (a <= b)
    <3>1. Len(s) = 0 /\ 0 + Len(s) <= Len(t)
      BY <1>0, <1>3, <2>2
    <3> QED BY <1>4, <3>1 DEF CutFrom
  <2> QED BY <2>1, <2>2
<1> QED BY <1>2, <1>3, <1>5, <1>6

\* A piece of a piece.
LEMMA CutOfCut ==
    ASSUME NEW s, NEW t, NEW u, Text(u), CutFrom(s, t), CutFrom(t, u)
    PROVE  CutFrom(s, u)
<1>1. PICK d \in Nat : d + Len(s) <= Len(t) /\ \A i \in 1 .. Len(s) : s[i] = t[d + i]
  BY DEF CutFrom
<1>2. PICK e \in Nat : e + Len(t) <= Len(u) /\ \A i \in 1 .. Len(t) : t[i] = u[e + i]
  BY DEF CutFrom
<1>3. Len(s) \in Nat /\ Len(t) \in Nat /\ Len(u) \in Nat /\ Text(s)
  BY TextFields DEF CutFrom
<1>4. PICK c \in Nat : c = e + d
  OBVIOUS
<1>6. c + Len(s) <= e + Len(t)
  BY <1>1, <1>3, <1>4
<1>7. ASSUME NEW i \in 1 .. Len(s) PROVE s[i] = u[c + i]
  <2>1. d + i \in 1 .. Len(t) /\ e + (d + i) = c + i
    BY <1>1, <1>3, <1>4
  <2>2. s[i] = t[d + i] /\ t[d + i] = u[e + (d + i)]
    BY <1>1, <1>2, <2>1
  <2> QED BY <2>1, <2>2
<1>8. c + Len(s) <= Len(u)
  BY <1>2, <1>3, <1>4, <1>6
<1> QED BY <1>3, <1>4, <1>7, <1>8 DEF CutFrom

\* json_find_key.
LEMMA KeyFound ==
    ASSUME NEW s, Text(s), NEW k
    PROVE  /\ FindKey(s, k) \in Nat
           /\ FindKey(s, k) = 0 <=> \A i \in 1 .. Len(s) : s[i] # Key(k)
           /\ FindKey(s, k) # 0 =>
                 \E p \in 1 .. Len(s) : /\ FindKey(s, k) = p + 1 /\ s[p] = Key(k)
                                        /\ \A i \in 1 .. p - 1 : s[i] # Key(k)
<1> DEFINE I == {i \in 1 .. Len(s) : s[i] = Key(k)}
           f == IF I # {} THEN Min(I) ELSE 0
<1>0. Len(s) \in Nat
  BY TextFields
<1>1. FindKey(s, k) = IF f = 0 THEN 0 ELSE f + 1
  BY DEF FindKey, SelectInSeq
<1>2. CASE I = {}
  BY <1>1, <1>2
<1>3. CASE I # {}
  <2>1. I \subseteq Nat
    OBVIOUS
  <2>2. Min(I) \in I /\ \A y \in I : Min(I) <= y
    <3> HIDE DEF I
    <3> QED BY <1>3, <2>1, MinProperties
  <2>3. PICK p : p = Min(I)
    OBVIOUS
  <2>4. p \in 1 .. Len(s) /\ s[p] = Key(k) /\ FindKey(s, k) = p + 1
    BY <1>1, <1>3, <2>2, <2>3
  <2>5. ASSUME NEW i \in 1 .. p - 1 PROVE s[i] # Key(k)
    <3>1. i \in 1 .. Len(s) /\ ~ (p <= i)
      BY <1>0, <2>4
    <3>2. i \notin I
      BY <2>2, <2>3, <3>1
    <3> QED BY <3>1, <3>2
  <2> QED BY <2>4, <2>5
<1> QED BY <1>2, <1>3

\* The first key is found.
LEMMA FirstKey ==
    ASSUME NEW s, Text(s), NEW k, NEW p \in 1 .. Len(s), s[p] = Key(k),
           \A i \in 1 .. p - 1 : s[i] # Key(k)
    PROVE  FindKey(s, k) = p + 1
<1>1. Len(s) \in Nat
  BY TextFields
<1>2. PICK q \in 1 .. Len(s) : /\ FindKey(s, k) = q + 1 /\ s[q] = Key(k)
                               /\ \A i \in 1 .. q - 1 : s[i] # Key(k)
  BY KeyFound
<1>3. ~ (q < p) /\ ~ (p < q)
  BY <1>1, <1>2
<1>4. q = p
  BY <1>3
<1> QED BY <1>2, <1>4

\* How json_get_string reads on.
Reads(s, f) ==
    f = [p \in Nat |->
           CASE At(s, p) \in {Quote, NUL} -> << >>
             [] At(s, p) = Backslash /\ At(s, p + 1) # NUL
                   -> <<At(s, p + 1)>> \o f[p + 2]
             [] OTHER -> <<At(s, p)>> \o f[p + 1]]

\* The end of a text.
LEMMA AtIs ==
    ASSUME NEW s, Text(s), NEW p \in Nat \ {0}
    PROVE  /\ p <= Len(s) => At(s, p) = s[p]
           /\ ~ (p <= Len(s)) => At(s, p) = NUL
BY DEF At

\* It exists.
LEMMA ReadsExist ==
    ASSUME NEW s, Text(s)
    PROVE  \E f : Reads(s, f)
<1> DEFINE S == {At(s, p) : p \in Nat}
           V == Seq(S)
           N == Len(s) + 1
           m == [p \in Nat |-> IF p <= Len(s) THEN Len(s) + 1 - p ELSE 0]
           at(p) == At(s, p)
           g == [f \in [Nat -> V] |-> [p \in Nat |->
                   CASE at(p) \in {Quote, NUL} -> << >>
                     [] at(p) = Backslash /\ at(p + 1) # NUL -> <<at(p + 1)>> \o f[p + 2]
                     [] OTHER -> <<at(p)>> \o f[p + 1]]]
<1>0. Len(s) \in Nat
  BY TextFields
<1>1. << >> \in V /\ \A p \in Nat : <<at(p)>> \in V
  OBVIOUS
<1>2. \A x, y \in V : x \o y \in V
  <2> HIDE DEF S
  <2> QED BY ConcatProperties
<1>3. \A p \in Nat : ~ (p <= Len(s)) => at(p) = NUL
  BY DEF At
<1> HIDE DEF S, V, at
<1>4. ASSUME NEW f \in [Nat -> V], NEW p \in Nat
      PROVE  (CASE at(p) \in {Quote, NUL} -> << >>
                [] at(p) = Backslash /\ at(p + 1) # NUL -> <<at(p + 1)>> \o f[p + 2]
                [] OTHER -> <<at(p)>> \o f[p + 1]) \in V
  <2>1. /\ <<at(p)>> \in V /\ <<at(p + 1)>> \in V
        /\ f[p + 1] \in V /\ f[p + 2] \in V
    BY <1>1
  <2>2. << >> \in V /\ <<at(p + 1)>> \o f[p + 2] \in V /\ <<at(p)>> \o f[p + 1] \in V
    BY <1>1, <1>2, <2>1
  <2> QED BY <2>2
<1>5. g \in [[Nat -> V] -> [Nat -> V]]
  BY <1>4
<1>6. N \in Nat /\ m \in [Nat -> 0 .. N]
  BY <1>0
<1>7. ASSUME NEW f \in [Nat -> V], NEW h \in [Nat -> V], NEW p \in Nat,
             \A q \in Nat : m[q] < m[p] => f[q] = h[q]
      PROVE  g[f][p] = g[h][p]
  <2>1. CASE at(p) \in {Quote, NUL}
    BY <2>1, Chars
  <2>2. CASE at(p) \notin {Quote, NUL}
    <3>1. p <= Len(s)
      BY <1>3, <2>2
    <3>2. p + 1 \in Nat /\ p + 2 \in Nat /\ m[p + 1] < m[p] /\ m[p + 2] < m[p]
      BY <1>0, <3>1
    <3>3. f[p + 1] = h[p + 1] /\ f[p + 2] = h[p + 2]
      BY <1>7, <3>2
    <3> QED BY <3>3
  <2> QED BY <2>1, <2>2
<1>8. Recursion(N, Nat, m, V, g)
  <2> HIDE DEF N, m, g
  <2> QED BY <1>1, <1>5, <1>6, <1>7 DEF Recursion
<1>9. PICK f \in [Nat -> V] : f = g[f]
  <2> HIDE DEF N, m, g
  <2> QED BY <1>8, RecursionExists
<1> QED BY <1>9 DEF Reads, at

\* A string of one word, or of nothing, and what a text that ends in it leaves.
LEMMA StringIs ==
    ASSUME NEW s, Text(s), NEW k
    PROVE  /\ ~ HasString(s, k) => GetString(s, k) = << >>
           /\ \A p \in Nat \ {0} :
                 FindKey(s, k) + 1 = p /\ At(s, p) \in {Quote, NUL}
                    => GetString(s, k) = << >>
           /\ \A p \in Nat \ {0} :
                 HasString(s, k) /\ FindKey(s, k) + 1 = p
                    => (At(s, p) \notin {Quote, NUL, Backslash} /\ At(s, p + 1) \in {Quote, NUL}
                          => GetString(s, k) = <<At(s, p)>>)
<1> DEFINE f == CHOOSE f : Reads(s, f)
<1>1. GetString(s, k) = IF HasString(s, k) THEN f[FindKey(s, k) + 1] ELSE << >>
  BY DEF GetString, Reads
<1>2. Reads(s, f)
  <2>1. \E h : Reads(s, h)
    BY ReadsExist
  <2> QED BY <2>1
<1> HIDE DEF f
<1>3. \A p \in Nat : At(s, p) \in {Quote, NUL} => f[p] = << >>
  BY <1>2, Chars DEF Reads
<1>4. \A p \in Nat : At(s, p) \notin {Quote, NUL, Backslash} => f[p] = <<At(s, p)>> \o f[p + 1]
  BY <1>2 DEF Reads
<1>5. ASSUME NEW p \in Nat \ {0}, At(s, p) \notin {Quote, NUL, Backslash},
             At(s, p + 1) \in {Quote, NUL}
      PROVE  f[p] = <<At(s, p)>>
  <2>1. f[p] = <<At(s, p)>> \o << >>
    <3>1. p \in Nat /\ p + 1 \in Nat
      OBVIOUS
    <3>2. f[p + 1] = << >>
      BY <1>3, <1>5, <3>1
    <3> QED BY <1>4, <1>5, <3>1, <3>2
  <2>2. PICK w : w = At(s, p)
    OBVIOUS
  <2>3. <<w>> \in Seq({w})
    OBVIOUS
  <2>4. <<w>> \o << >> = <<w>>
    BY <2>3, ConcatEmptySeq
  <2> QED BY <2>1, <2>2, <2>4
<1>6. ASSUME NEW p \in Nat \ {0}, FindKey(s, k) + 1 = p, At(s, p) \in {Quote, NUL}
      PROVE  GetString(s, k) = << >>
  <2>1. f[FindKey(s, k) + 1] = << >>
    BY <1>3, <1>6
  <2> QED BY <1>1, <2>1
<1>7. ASSUME NEW p \in Nat \ {0}, HasString(s, k), FindKey(s, k) + 1 = p,
             At(s, p) \notin {Quote, NUL, Backslash}, At(s, p + 1) \in {Quote, NUL}
      PROVE  GetString(s, k) = <<At(s, p)>>
  <2>1. f[FindKey(s, k) + 1] = <<At(s, p)>>
    BY <1>5, <1>7
  <2> QED BY <1>1, <1>7, <2>1
<1>8. ~ HasString(s, k) => GetString(s, k) = << >>
  BY <1>1
<1> QED BY <1>6, <1>7, <1>8

\* The two fields of a piece, wherever it was cut.
LEMMA FieldsOfCut ==
    ASSUME NEW H, NEW t, NEW s, Sane(t, H), CutFrom(s, t)
    PROVE  GetNumber(s, "tx_count") \in Nat /\ GetDigest(s, "hash") \in H \cup {Unset}
<1>0. Text(s) /\ Text(t) /\ Len(s) \in Nat /\ Len(t) \in Nat
  BY TextFields DEF CutFrom, Sane
<1>1. PICK d \in Nat : d + Len(s) <= Len(t) /\ \A i \in 1 .. Len(s) : s[i] = t[d + i]
  BY DEF CutFrom
<1>2. ASSUME NEW p \in 1 .. Len(s) PROVE FieldAt(t, d + p, H) /\ t[d + p] = s[p]
  <2>1. d + p \in 1 .. Len(t)
    BY <1>0, <1>1
  <2> QED BY <1>1, <2>1 DEF Sane
<1>3. GetNumber(s, "tx_count") \in Nat
  <2> DEFINE f == FindKey(s, "tx_count")
  <2>0. f \in Nat
    BY <1>0, KeyFound
  <2>1. CASE f = 0
    BY <2>1 DEF GetNumber
  <2>2. CASE f # 0
    <3>1. PICK p \in 1 .. Len(s) : f = p + 1 /\ s[p] = Key("tx_count")
      BY <1>0, <2>2, KeyFound
    <3>2. PICK n \in Nat : t[d + p + 1] = Number(n)
      BY <1>2, <3>1 DEF FieldAt
    <3>3. CASE p + 1 <= Len(s)
      <4>1. p + 1 \in 1 .. Len(s) /\ d + (p + 1) = d + p + 1
        BY <3>3
      <4>2. At(s, f) = Number(n)
        BY <1>0, <1>1, <3>1, <3>2, <3>3, <4>1, AtIs
      <4> QED BY <2>2, <4>2, Kinds DEF GetNumber
    <3>4. CASE ~ (p + 1 <= Len(s))
      <4>1. At(s, f) = NUL
        BY <1>0, <3>1, <3>4, AtIs
      <4> QED BY <4>1, Chars DEF GetNumber
    <3> QED BY <3>3, <3>4
  <2> QED BY <2>1, <2>2
<1>4. GetDigest(s, "hash") \in H \cup {Unset}
  <2> DEFINE f == FindKey(s, "hash")
             u == GetString(s, "hash")
  <2>1. u = << >> => GetDigest(s, "hash") = Unset
    BY DEF GetDigest
  <2>2. CASE ~ HasString(s, "hash")
    BY <1>0, <2>1, <2>2, StringIs
  <2>3. CASE HasString(s, "hash")
    <3>1. PICK p \in 1 .. Len(s) : f = p + 1 /\ s[p] = Key("hash")
      BY <1>0, <2>3, KeyFound DEF HasString
    <3>2. PICK h \in H : t[d + p + 2] = Word(h) /\ t[d + p + 3] = Quote
      BY <1>2, <3>1 DEF FieldAt
    <3>3. f + 1 = p + 2 /\ p + 2 \in Nat \ {0} /\ p + 3 \in Nat \ {0} /\ p + 2 + 1 = p + 3
      BY <3>1
    <3>4. CASE p + 2 <= Len(s)
      <4>1. p + 2 \in 1 .. Len(s) /\ d + (p + 2) = d + p + 2
        BY <3>4
      <4>2. At(s, p + 2) = Word(h)
        <5>1. s[p + 2] = t[d + (p + 2)]
          BY <1>1, <4>1
        <5> QED BY <1>0, <3>2, <3>3, <3>4, <4>1, <5>1, AtIs
      <4>3. At(s, p + 3) \in {Quote, NUL}
        <5>1. CASE p + 3 <= Len(s)
          <6>1. p + 3 \in 1 .. Len(s) /\ d + (p + 3) = d + p + 3
            BY <5>1
          <6>2. s[p + 3] = t[d + (p + 3)]
            BY <1>1, <6>1
          <6> QED BY <1>0, <3>2, <3>3, <5>1, <6>1, <6>2, AtIs
        <5>2. CASE ~ (p + 3 <= Len(s))
          BY <1>0, <3>3, <5>2, AtIs
        <5> QED BY <5>1, <5>2
      <4>4. Word(h) \notin {Quote, NUL, Backslash}
        BY Kinds, Chars
      <4>5. u = <<Word(h)>>
        <5>1. PICK q \in Nat \ {0} : q = p + 2 /\ q + 1 = p + 3
          BY <3>3
        <5>2. /\ FindKey(s, "hash") + 1 = q /\ At(s, q) \notin {Quote, NUL, Backslash}
              /\ At(s, q + 1) \in {Quote, NUL} /\ At(s, q) = Word(h)
          BY <3>3, <4>2, <4>3, <4>4, <5>1
        <5> QED BY <1>0, <2>3, <5>2, StringIs
      <4>6. GetDigest(s, "hash") = h
        <5>1. PICK w : w = Word(h)
          OBVIOUS
        <5>2. <<w>> # << >> /\ <<w>>[1] = w
          OBVIOUS
        <5> QED BY <4>5, <5>1, <5>2, Kinds DEF GetDigest
      <4> QED BY <4>6
    <3>5. CASE ~ (p + 2 <= Len(s))
      <4>1. At(s, p + 2) = NUL
        BY <1>0, <3>3, <3>5, AtIs
      <4>2. u = << >>
        BY <1>0, <3>3, <4>1, StringIs
      <4> QED BY <2>1, <4>2
    <3> QED BY <3>4, <3>5
  <2> QED BY <2>2, <2>3
<1> QED BY <1>3, <1>4

\* The loop over the braces ends behind the object, or behind the text.
LEMMA ObjectEndIs ==
    ASSUME NEW s, Text(s), NEW from \in 1 .. Len(s)
    PROVE  ObjectEnd(s, from) \in from + 1 .. Len(s) + 1
<1> DEFINE opens == {i \in from .. Len(s) : s[i] = Open}
           closes == {i \in from .. Len(s) : s[i] = Close}
           depth(p) == Cardinality(opens \cap (from .. p)) - Cardinality(closes \cap (from .. p))
           T == {p \in closes : depth(p) <= 0} \cup {Len(s)}
<1>1. Len(s) \in Nat
  BY TextFields
<1>2. T \subseteq from .. Len(s) /\ T \subseteq Nat /\ T # {}
  BY <1>1
<1>3. ObjectEnd(s, from) = Min(T) + 1
  BY DEF ObjectEnd
<1> HIDE DEF T
<1>4. PICK a : a = Min(T)
  OBVIOUS
<1>5. a \in from .. Len(s)
  BY <1>2, <1>4, MinProperties
<1>6. a + 1 \in from + 1 .. Len(s) + 1
  BY <1>1, <1>5
<1> QED BY <1>3, <1>4, <1>6

\* How the loop over the objects goes on.
Starts(s, from) == {i \in from .. Len(s) : s[i] = Open}

Finds(s, f) ==
    f = [from \in 1 .. Len(s) + 1 |->
           IF Starts(s, from) = {} THEN << >>
           ELSE <<SubSeq(s, Min(Starts(s, from)), ObjectEnd(s, Min(Starts(s, from))) - 1)>>
                  \o f[ObjectEnd(s, Min(Starts(s, from)))]]

\* The first object from a position on.
LEMMA StartIs ==
    ASSUME NEW s, Text(s), NEW from \in 1 .. Len(s) + 1, Starts(s, from) # {}
    PROVE  /\ Min(Starts(s, from)) \in from .. Len(s) /\ Min(Starts(s, from)) \in 1 .. Len(s)
           /\ s[Min(Starts(s, from))] = Open
           /\ \A i \in Starts(s, from) : Min(Starts(s, from)) <= i
           /\ ObjectEnd(s, Min(Starts(s, from))) \in from + 1 .. Len(s) + 1
           /\ ObjectEnd(s, Min(Starts(s, from))) \in 1 .. Len(s) + 1
           /\ CutFrom(SubSeq(s, Min(Starts(s, from)), ObjectEnd(s, Min(Starts(s, from))) - 1), s)
<1> DEFINE T == Starts(s, from)
<1>0. Len(s) \in Nat
  BY TextFields
<1>1. T \subseteq Nat /\ T \subseteq from .. Len(s) /\ T # {}
  BY <1>0 DEF Starts
<1>2. Min(T) \in T /\ \A i \in T : Min(T) <= i
  <2> HIDE DEF T
  <2> QED BY <1>1, MinProperties
<1>3. PICK a : a = Min(T)
  OBVIOUS
<1>4. a \in from .. Len(s) /\ a \in 1 .. Len(s) /\ s[a] = Open
  BY <1>0, <1>1, <1>2, <1>3 DEF Starts
<1>5. PICK e : e = ObjectEnd(s, a)
  OBVIOUS
<1>6. e \in a + 1 .. Len(s) + 1
  BY <1>4, <1>5, ObjectEndIs
<1>7. e \in from + 1 .. Len(s) + 1 /\ e \in 1 .. Len(s) + 1
  BY <1>0, <1>4, <1>6
<1>8. CutFrom(SubSeq(s, a, e - 1), s)
  <2>1. PICK b : b = e - 1
    OBVIOUS
  <2>2. a \in Nat \ {0} /\ b \in Nat /\ b <= Len(s)
    BY <1>0, <1>4, <1>6, <2>1
  <2>3. CutFrom(SubSeq(s, a, b), s)
    BY <2>2, SubSeqCuts
  <2> QED BY <2>1, <2>3
<1> QED BY <1>2, <1>3, <1>4, <1>5, <1>7, <1>8

\* The function exists.
LEMMA FindsExist ==
    ASSUME NEW s, Text(s)
    PROVE  \E f : Finds(s, f)
<1> DEFINE D == 1 .. Len(s) + 1
           start(i) == Min(Starts(s, i))
           end(i) == ObjectEnd(s, start(i))
           piece(i) == SubSeq(s, start(i), end(i) - 1)
           S == {piece(i) : i \in D}
           V == Seq(S)
           N == Len(s) + 1
           m == [i \in D |-> Len(s) + 1 - i]
           g == [f \in [D -> V] |-> [i \in D |->
                   IF Starts(s, i) = {} THEN << >> ELSE <<piece(i)>> \o f[end(i)]]]
<1>0. Len(s) \in Nat
  BY TextFields
<1>1. << >> \in V /\ \A i \in D : <<piece(i)>> \in V
  <2>1. \A i \in D : piece(i) \in S
    OBVIOUS
  <2> HIDE DEF D, S, piece
  <2>2. \A x \in S : <<x>> \in Seq(S)
    OBVIOUS
  <2>3. << >> \in Seq(S)
    BY EmptySeq
  <2> QED BY <2>1, <2>2, <2>3
<1>2. \A x, y \in V : x \o y \in V
  <2> HIDE DEF S
  <2> QED BY ConcatProperties
<1>3. ASSUME NEW i \in D, Starts(s, i) # {}
      PROVE  end(i) \in D /\ end(i) \in i + 1 .. Len(s) + 1
  BY <1>3, StartIs
<1> HIDE DEF S, V, start, end, piece
<1>4. ASSUME NEW f \in [D -> V], NEW i \in D
      PROVE  (IF Starts(s, i) = {} THEN << >> ELSE <<piece(i)>> \o f[end(i)]) \in V
  <2>1. CASE Starts(s, i) = {}
    BY <1>1, <2>1
  <2>2. CASE Starts(s, i) # {}
    <3>1. f[end(i)] \in V
      BY <1>3, <2>2
    <3> QED BY <1>1, <1>2, <2>2, <3>1
  <2> QED BY <2>1, <2>2
<1>5. g \in [[D -> V] -> [D -> V]]
  BY <1>4
<1>6. N \in Nat /\ m \in [D -> 0 .. N]
  BY <1>0
<1>7. ASSUME NEW f \in [D -> V], NEW h \in [D -> V], NEW i \in D,
             \A j \in D : m[j] < m[i] => f[j] = h[j]
      PROVE  g[f][i] = g[h][i]
  <2>1. CASE Starts(s, i) = {}
    BY <2>1
  <2>2. CASE Starts(s, i) # {}
    <3>1. end(i) \in D /\ m[end(i)] < m[i]
      BY <1>0, <1>3, <2>2
    <3>2. f[end(i)] = h[end(i)]
      BY <1>7, <3>1
    <3> QED BY <3>2
  <2> QED BY <2>1, <2>2
<1>8. Recursion(N, D, m, V, g)
  <2> HIDE DEF N, D, m, g
  <2> QED BY <1>1, <1>5, <1>6, <1>7 DEF Recursion
<1>9. PICK f \in [D -> V] : f = g[f]
  <2> HIDE DEF N, D, m, g
  <2> QED BY <1>8, RecursionExists
<1> QED BY <1>9 DEF Finds, start, end, piece

\* The lesser of two numbers.
LEMMA MinOfTwo ==
    ASSUME NEW a \in Nat, NEW b \in Nat
    PROVE  Min({a, b}) \in Nat /\ Min({a, b}) <= b /\ (a # 0 /\ b # 0 => Min({a, b}) # 0)
<1>1. PICK T : T = {a, b}
  OBVIOUS
<1>2. T \subseteq Nat /\ T # {}
  BY <1>1
<1>3. Min(T) \in T /\ \A y \in T : Min(T) <= y
  BY <1>2, MinProperties
<1> QED BY <1>1, <1>3

\* The objects that are found are cut from the text; when the first one begins
\* where the search does, it is the first one found.
LEMMA ObjectsAre ==
    ASSUME NEW s, Text(s), NEW p \in 1 .. Len(s) + 1, NEW n \in Nat
    PROVE  /\ Text(Objects(s, p, n))
           /\ \A i \in 1 .. Len(Objects(s, p, n)) : CutFrom(Objects(s, p, n)[i], s)
           /\ Len(Objects(s, p, n)) # 0 => p <= Len(s)
           /\ n # 0 /\ p <= Len(s) /\ s[p] = Open =>
                 \E e \in p + 1 .. Len(s) + 1 : Objects(s, p, n)[1] = SubSeq(s, p, e - 1)
<1> DEFINE D == 1 .. Len(s) + 1
           P == {SubSeq(s, a, b) : a \in 1 .. Len(s) + 1, b \in 0 .. Len(s)}
           m == [i \in D |-> Len(s) + 1 - i]
           f == CHOOSE f : Finds(s, f)
           k == Min({n, Len(f[p])})
           start(i) == Min(Starts(s, i))
           end(i) == ObjectEnd(s, start(i))
           piece(i) == SubSeq(s, start(i), end(i) - 1)
           T == {i \in D : f[i] \in Seq(P)}
<1>0. Len(s) \in Nat
  BY TextFields
<1>1. Objects(s, p, n) = SubSeq(f[p], 1, k)
  BY DEF Objects, Finds, Starts
<1>2. Finds(s, f)
  <2>1. \E h : Finds(s, h)
    BY FindsExist
  <2> QED BY <2>1
<1> HIDE DEF f
<1>3. \A i \in D : f[i] = IF Starts(s, i) = {} THEN << >> ELSE <<piece(i)>> \o f[end(i)]
  BY <1>2 DEF Finds
<1>4. \A x \in P : CutFrom(x, s)
  <2> SUFFICES ASSUME NEW x \in P PROVE CutFrom(x, s)
    OBVIOUS
  <2>1. PICK a \in 1 .. Len(s) + 1, b \in 0 .. Len(s) : x = SubSeq(s, a, b)
    OBVIOUS
  <2>2. a \in Nat \ {0} /\ b \in Nat /\ b <= Len(s)
    BY <1>0
  <2> HIDE DEF D, P, m, k, start, end, piece, T
  <2>3. CutFrom(SubSeq(s, a, b), s)
    BY <2>2, SubSeqCuts
  <2> QED BY <2>1, <2>3
<1>5. ASSUME NEW i \in D, Starts(s, i) # {}
      PROVE  /\ end(i) \in D /\ end(i) \in i + 1 .. Len(s) + 1 /\ piece(i) \in P
             /\ start(i) \in i .. Len(s) /\ \A j \in Starts(s, i) : start(i) <= j
  <2>1. /\ start(i) \in i .. Len(s) /\ start(i) \in 1 .. Len(s)
        /\ \A j \in Starts(s, i) : start(i) <= j
        /\ end(i) \in i + 1 .. Len(s) + 1 /\ end(i) \in 1 .. Len(s) + 1
    BY <1>5, StartIs
  <2>2. PICK a, b : a = start(i) /\ b = end(i) - 1
    OBVIOUS
  <2>3. a \in 1 .. Len(s) + 1 /\ b \in 0 .. Len(s)
    <3> HIDE DEF start, end
    <3> QED BY <1>0, <2>1, <2>2
  <2>4. SubSeq(s, a, b) \in P
    BY <2>3
  <2> HIDE DEF P
  <2> QED BY <2>1, <2>2, <2>4
<1>6. \A i : i \in T <=> i \in D /\ f[i] \in Seq(P)
  OBVIOUS
<1>7. \A i \in D : m[i] = Len(s) + 1 - i
  OBVIOUS
<1>8. \A i \in D : i \in Nat /\ i <= Len(s) + 1
  BY <1>0
<1>9. \A i \in D : end(i) \in D /\ end(i) \in i + 1 .. Len(s) + 1 => m[end(i)] < m[i]
  <2> HIDE DEF D, m, end
  <2> QED BY <1>0, <1>7, <1>8
<1>10. \A x \in P : \A u \in Seq(P) : <<x>> \o u \in Seq(P) /\ << >> \in Seq(P)
  <2> HIDE DEF P
  <2>1. \A x \in P : <<x>> \in Seq(P)
    OBVIOUS
  <2> QED BY <2>1, ConcatProperties, EmptySeq
<1>11. << >> \in Seq(P) /\ p \in D
  BY EmptySeq
<1>12. D \subseteq T
  <2>1. m \in [D -> Nat]
    BY <1>0
  <2> HIDE DEF D, P, m, T, start, end, piece
  <2>2. ASSUME NEW i \in D, \A j \in D : m[j] < m[i] => j \in T
        PROVE  i \in T
    <3>1. CASE Starts(s, i) = {}
      BY <1>3, <1>6, <1>11, <3>1
    <3>2. CASE Starts(s, i) # {}
      <4>1. end(i) \in D /\ m[end(i)] < m[i] /\ piece(i) \in P
        BY <1>5, <1>9, <3>2
      <4>2. f[end(i)] \in Seq(P)
        BY <1>6, <2>2, <4>1
      <4>3. <<piece(i)>> \o f[end(i)] \in Seq(P)
        BY <1>10, <4>1, <4>2
      <4> QED BY <1>3, <1>6, <3>2, <4>3
    <3> QED BY <3>1, <3>2
  <2> QED BY <2>1, <2>2, RankInduction
<1> HIDE DEF D, P, m, T, start, end, piece
<1>13. f[p] \in Seq(P) /\ p \in D
  BY <1>12, <1>11, <1>6
<1>14. PICK F : F = f[p]
  OBVIOUS
<1>15. F \in Seq(P) /\ Len(F) \in Nat
  BY <1>13, <1>14, LenProperties
<1>16. k \in Nat /\ k <= Len(F) /\ (n # 0 /\ Len(F) # 0 => k # 0)
  BY <1>14, <1>15, MinOfTwo
<1> HIDE DEF k
<1>17. PICK r : r = SubSeq(F, 1, k)
  OBVIOUS
<1>18. r \in Seq(P) /\ Len(r) = k /\ \A i \in 1 .. k : r[i] = F[i]
  BY <1>15, <1>16, <1>17, InitialSegment
<1>19. Text(r)
  BY <1>18, TextIs
<1>20. \A i \in 1 .. Len(r) : CutFrom(r[i], s)
  <2>1. \A i \in 1 .. Len(r) : r[i] \in P
    BY <1>18, ElementOfSeq
  <2> QED BY <1>4, <2>1
<1>21. ASSUME n # 0, p <= Len(s), s[p] = Open
       PROVE  \E e \in p + 1 .. Len(s) + 1 : r[1] = SubSeq(s, p, e - 1)
  <2>1. p \in Starts(s, p)
    BY <1>0, <1>21 DEF Starts
  <2>2. Starts(s, p) # {}
    BY <2>1
  <2>3. start(p) = p
    <3>1. start(p) \in p .. Len(s) /\ start(p) <= p
      BY <1>5, <1>13, <2>1, <2>2
    <3> QED BY <1>0, <3>1
  <2>4. end(p) \in p + 1 .. Len(s) + 1 /\ piece(p) \in P /\ f[end(p)] \in Seq(P)
    BY <1>5, <1>12, <1>13, <2>2, <1>6
  <2>5. PICK x, q : x = piece(p) /\ q = f[end(p)]
    OBVIOUS
  <2>6. F = <<x>> \o q /\ x \in P /\ q \in Seq(P)
    BY <1>3, <1>13, <1>14, <2>2, <2>4, <2>5
  <2>7. <<x>> \in Seq(P) /\ Len(<<x>>) = 1 /\ <<x>>[1] = x
    BY <2>6
  <2>8. Len(F) # 0 /\ F[1] = x
    BY <2>6, <2>7, ConcatProperties, LenProperties
  <2>9. r[1] = x
    BY <1>16, <1>18, <1>21, <2>8
  <2> QED BY <2>3, <2>4, <2>5, <2>9 DEF piece
<1>22. Len(r) # 0 => p <= Len(s)
  <2> SUFFICES ASSUME ~ (p <= Len(s)) PROVE Len(r) = 0
    OBVIOUS
  <2>1. Starts(s, p) = {}
    BY <1>0 DEF Starts
  <2>2. F = << >>
    BY <1>3, <1>13, <1>14, <2>1
  <2>3. Len(F) = 0
    BY <2>2
  <2> QED BY <1>16, <1>18, <2>3
<1> QED BY <1>1, <1>14, <1>17, <1>19, <1>20, <1>21, <1>22

\* The elements of an array.
LEMMA ElementsAre ==
    ASSUME NEW s, Text(s), NEW p \in Nat, NEW n \in Nat
    PROVE  /\ Text(Elements(s, p, n))
           /\ \A i \in 1 .. Len(Elements(s, p, n)) : CutFrom(Elements(s, p, n)[i], s)
           /\ Len(Elements(s, p, n)) # 0 => p + 1 <= Len(s)
           /\ n # 0 /\ p \in 1 .. Len(s) - 1 /\ s[p] = OpenList /\ s[p + 1] = Open =>
                 \E e \in p + 2 .. Len(s) + 1 : Elements(s, p, n)[1] = SubSeq(s, p + 1, e - 1)
<1>0. Len(s) \in Nat
  BY TextFields
<1>1. CASE p # 0 /\ At(s, p) = OpenList
  <2>1. p <= Len(s)
    BY <1>0, <1>1 DEF At, NUL, OpenList, Char
  <2>2. PICK q \in 1 .. Len(s) + 1 : q = p + 1
    BY <1>0, <1>1, <2>1
  <2>3. Elements(s, p, n) = Objects(s, q, n)
    BY <1>1, <2>2 DEF Elements
  <2>4. p + 2 = q + 1
    BY <2>2
  <2>5. p \in 1 .. Len(s) - 1 => q <= Len(s)
    BY <1>0, <2>2
  <2> QED BY <2>2, <2>3, <2>4, <2>5, ObjectsAre
<1>2. CASE ~ (p # 0 /\ At(s, p) = OpenList)
  <2>1. PICK e : e = << >>
    OBVIOUS
  <2>2. e \in Seq({}) /\ Len(e) = 0
    BY <2>1
  <2>3. Elements(s, p, n) = e
    BY <1>2, <2>1 DEF Elements
  <2>4. Text(e)
    BY <2>2, TextIs
  <2>5. p \in 1 .. Len(s) - 1 => At(s, p) = s[p]
    BY <1>0, AtIs
  <2> QED BY <1>2, <2>2, <2>3, <2>4, <2>5
<1> QED BY <1>1, <1>2

\* The scan for the payload leaves a beginning of what follows the key.
LEMMA PayloadIs ==
    ASSUME NEW line, Text(line), NEW q \in 1 .. Len(line), FindKey(line, "payload") = q
    PROVE  \E e \in q .. Len(line) : ParsePayload(line) = SubSeq(line, q, e)
<1> DEFINE start == FindKey(line, "payload")
           places == start .. Len(line)
           quotes == {p \in places : line[p] = Quote /\ (p = start \/ line[p - 1] # Backslash)}
           outside == {p \in places \ quotes : Cardinality(quotes \cap (start .. p)) % 2 = 0}
           opens == {p \in outside : line[p] \in {Open, OpenList}}
           closes == {p \in outside : line[p] \in {Close, CloseList}}
           depth(p) == Cardinality(opens \cap (start .. p))
                         - Cardinality(closes \cap (start .. p))
           T == {p \in closes : depth(p) <= 0} \cup {Len(line)}
<1>0. Len(line) \in Nat
  BY TextFields
<1>1. T \subseteq places /\ T \subseteq q .. Len(line)
  BY <1>0
<1>2. T \subseteq Nat /\ T # {}
  BY <1>0, <1>1
<1>3. ParsePayload(line) = SubSeq(line, q, Min(T))
  <2>1. ParsePayload(line) = IF start = 0 THEN << >> ELSE SubSeq(line, start, Min(T))
    BY DEF ParsePayload
  <2>2. q # 0
    BY <1>0
  <2>3. PICK M : M = Min(T)
    OBVIOUS
  <2> HIDE DEF T
  <2>4. ParsePayload(line) = SubSeq(line, q, M)
    BY <2>1, <2>2, <2>3
  <2> QED BY <2>3, <2>4
<1> HIDE DEF T
<1>4. Min(T) \in T
  BY <1>2, MinProperties
<1> QED BY <1>1, <1>3, <1>4

-----------------------------------------------------------------------------
(* Blocks that are alike *)

\* A record with the fields of block_t.
Block(b) ==
    /\ b = [index |-> b.index, timestamp |-> b.timestamp, transactions |-> b.transactions,
            prev_hash |-> b.prev_hash, nonce |-> b.nonce, hash |-> b.hash]
    /\ Text(b.transactions)

\* p and b agree in their hash and in what a hash covers.
Alike(p, b) ==
    /\ p.index = b.index /\ p.timestamp = b.timestamp /\ p.prev_hash = b.prev_hash
    /\ p.nonce = b.nonce /\ p.hash = b.hash
    /\ Len(p.transactions) = Len(b.transactions)
    /\ \A i \in 1 .. Len(b.transactions) : p.transactions[i].tx_hash = b.transactions[i].tx_hash

\* Then what a hash covers is the same.
LEMMA AlikeCovered ==
    ASSUME NEW p, NEW b, Block(p), Block(b), Alike(p, b)
    PROVE  Covered(p) = Covered(b)
<1> DEFINE F(c) == [i \in DOMAIN c.transactions |-> c.transactions[i].tx_hash]
           R(c, f) == [index |-> c.index, timestamp |-> c.timestamp, transactions |-> f,
                       prev_hash |-> c.prev_hash, nonce |-> c.nonce, hash |-> c.hash]
<1>1. DOMAIN p.transactions = 1 .. Len(p.transactions) /\ DOMAIN b.transactions = 1 .. Len(b.transactions)
  BY TextFields DEF Block
<1>2. F(p) = F(b)
  BY <1>1 DEF Alike
<1>3. ASSUME NEW c, Block(c)
      PROVE  Covered(c) = R(c, F(c))
  <2>1. PICK f : f = F(c)
    OBVIOUS
  <2>2. Covered(c) = [c EXCEPT !.transactions = f]
    BY <2>1 DEF Covered
  <2>3. PICK i, t, x, h, n, d : /\ i = c.index /\ t = c.timestamp /\ x = c.transactions
                                /\ h = c.prev_hash /\ n = c.nonce /\ d = c.hash
    OBVIOUS
  <2>4. c = [index |-> i, timestamp |-> t, transactions |-> x, prev_hash |-> h,
             nonce |-> n, hash |-> d]
    BY <1>3, <2>3 DEF Block
  <2>5. [c EXCEPT !.transactions = f] = [index |-> i, timestamp |-> t, transactions |-> f,
                                         prev_hash |-> h, nonce |-> n, hash |-> d]
    BY <2>4
  <2> QED BY <2>1, <2>2, <2>3, <2>5
<1>4. Covered(p) = R(p, F(p)) /\ Covered(b) = R(b, F(b))
  BY <1>3
<1> HIDE DEF F
<1> QED BY <1>2, <1>4 DEF Alike

\* Blocks with one hash are alike.
LEMMA HashesAlike ==
    ASSUME NEW p, NEW b, Block(p), Block(b), BlockHash(p) = BlockHash(b), p.hash = b.hash
    PROVE  Alike(p, b)
<1> DEFINE f == [i \in 1 .. Len(p.transactions) |-> p.transactions[i].tx_hash]
           g == [i \in 1 .. Len(b.transactions) |-> b.transactions[i].tx_hash]
<1>1. /\ p.index = b.index /\ p.timestamp = b.timestamp /\ p.prev_hash = b.prev_hash
      /\ p.nonce = b.nonce /\ f = g
  <2>1. /\ BlockHash(p).index = p.index /\ BlockHash(b).index = b.index
        /\ BlockHash(p).timestamp = p.timestamp /\ BlockHash(b).timestamp = b.timestamp
        /\ BlockHash(p).prev_hash = p.prev_hash /\ BlockHash(b).prev_hash = b.prev_hash
        /\ BlockHash(p).nonce = p.nonce /\ BlockHash(b).nonce = b.nonce
        /\ BlockHash(p).tx_hashes = f /\ BlockHash(b).tx_hashes = g
    BY DEF BlockHash
  <2> QED BY <2>1
<1>2. Len(p.transactions) \in Nat /\ Len(b.transactions) \in Nat
  BY TextFields DEF Block
<1>3. Len(p.transactions) = Len(b.transactions)
  <2>1. PICK k, n : k = Len(p.transactions) /\ n = Len(b.transactions)
    OBVIOUS
  <2>2. k \in Nat /\ n \in Nat /\ 1 .. k = 1 .. n
    BY <1>1, <1>2, <2>1
  <2>3. ~ (k < n)
    <3>1. k < n => k + 1 \in 1 .. n /\ ~ (k + 1 \in 1 .. k)
      BY <2>2
    <3> QED BY <2>2, <3>1
  <2>4. ~ (n < k)
    <3>1. n < k => n + 1 \in 1 .. k /\ ~ (n + 1 \in 1 .. n)
      BY <2>2
    <3> QED BY <2>2, <3>1
  <2> QED BY <2>1, <2>2, <2>3, <2>4
<1>4. \A i \in 1 .. Len(b.transactions) : p.transactions[i].tx_hash = b.transactions[i].tx_hash
  <2> SUFFICES ASSUME NEW i \in 1 .. Len(b.transactions)
               PROVE  p.transactions[i].tx_hash = b.transactions[i].tx_hash
    OBVIOUS
  <2>1. f[i] = p.transactions[i].tx_hash /\ g[i] = b.transactions[i].tx_hash
    BY <1>3
  <2> QED BY <1>1, <2>1
<1> QED BY <1>1, <1>3, <1>4 DEF Alike

\* What protocol_deserialize_block makes of a piece of a sane text.
LEMMA ParsedIs ==
    ASSUME NEW H, NEW t, NEW s, Sane(t, H), CutFrom(s, t)
    PROVE  Block(ParseBlock(s)) /\ ParseBlock(s).hash \in H \cup {Unset}
<1> DEFINE count == GetNumber(s, "tx_count")
           limit == IF count < MAX_TX_PER_BLOCK THEN count ELSE MAX_TX_PER_BLOCK
           objects == Elements(s, FindKey(s, "transactions"), limit)
           item(i) == ParseTx(IF i <= Len(objects) THEN objects[i] ELSE << >>)
           txs == [i \in 1 .. count |-> item(i)]
           S == {item(i) : i \in 1 .. count}
<1>1. count \in Nat /\ GetDigest(s, "hash") \in H \cup {Unset}
  BY FieldsOfCut
<1>2. ParseBlock(s) = [index |-> GetNumber(s, "index"), timestamp |-> GetNumber(s, "timestamp"),
                       transactions |-> txs, prev_hash |-> GetDigest(s, "prev_hash"),
                       nonce |-> GetNumber(s, "nonce"), hash |-> GetDigest(s, "hash")]
  BY DEF ParseBlock
<1> HIDE DEF item
<1>3. txs \in [1 .. count -> S]
  OBVIOUS
<1> HIDE DEF txs, S, count
<1>4. Text(txs)
  BY <1>1, <1>3, TextOf
<1>5. PICK b : b = ParseBlock(s)
  OBVIOUS
<1>6. /\ b.index = GetNumber(s, "index") /\ b.timestamp = GetNumber(s, "timestamp")
      /\ b.transactions = txs /\ b.prev_hash = GetDigest(s, "prev_hash")
      /\ b.nonce = GetNumber(s, "nonce") /\ b.hash = GetDigest(s, "hash")
  BY <1>2, <1>5
<1>7. Block(b)
  BY <1>2, <1>4, <1>5, <1>6 DEF Block
<1> QED BY <1>1, <1>5, <1>6, <1>7

-----------------------------------------------------------------------------
(* The payer's chain, and what the peer takes over *)

\* A digest is never the string of zeros or an empty field.
DigestsApart ==
    /\ ZeroHash # Unset
    /\ \A b : BlockHash(b) # ZeroHash /\ BlockHash(b) # Unset

Hashes(c) == {c[i].hash : i \in 1 .. Len(c)}

\* A chain that its owner has mined.
Made(c) ==
    /\ Text(c) /\ Len(c) # 0 /\ c[1] = Genesis
    /\ \A i \in 1 .. Len(c) : /\ Block(c[i]) /\ c[i].index = i - 1
                              /\ c[i].hash = BlockHash(c[i])
                              /\ \A k \in 1 .. Len(c[i].transactions) :
                                    TypedTx(c[i].transactions[k])
    /\ \A i \in 2 .. Len(c) : c[i].prev_hash = c[i - 1].hash

\* s is a beginning of c, block by block alike.
Copied(s, c) ==
    /\ Text(s) /\ Len(s) \in 1 .. Len(c)
    /\ \A i \in 1 .. Len(s) : Block(s[i]) /\ Alike(s[i], c[i])

\* A valid block with a hash from the line is alike to a block of the chain.
LEMMA KnownBlock ==
    ASSUME DigestsApart, NEW c, Made(c), NEW p, Block(p), p.hash \in Hashes(c) \cup {Unset},
           p.hash = BlockHash(p)
    PROVE  \E j \in 1 .. Len(c) : Alike(p, c[j]) /\ c[j].index = j - 1
<1>1. p.hash \in Hashes(c)
  BY DEF DigestsApart
<1>2. PICK j \in 1 .. Len(c) : p.hash = c[j].hash
  BY <1>1 DEF Hashes
<1>3. PICK b : b = c[j]
  OBVIOUS
<1>4. Block(b) /\ b.index = j - 1 /\ b.hash = BlockHash(b)
  BY <1>3 DEF Made
<1>5. BlockHash(p) = BlockHash(b) /\ p.hash = b.hash
  BY <1>2, <1>3, <1>4
<1>6. Alike(p, b)
  BY <1>4, <1>5, HashesAlike
<1> QED BY <1>3, <1>4, <1>6

\* chain_add_block takes only the next block.
LEMMA AcceptedBlock ==
    ASSUME DigestsApart, NEW c, Made(c), NEW s, Copied(s, c), NEW p, Block(p),
           p.hash \in Hashes(c) \cup {Unset}
    PROVE  Copied(AddBlock(s, p), c)
<1>0. Len(s) \in Nat /\ Len(c) \in Nat /\ s \in Seq(Range(s)) /\ Len(s) \in 1 .. Len(c)
  BY TextFields DEF Copied, Made, Text
<1>1. CASE AddBlockAccepts(s, p)
  <2>1. p.hash = BlockHash(p) /\ p.index = Last(s).index + 1
    BY <1>1 DEF AddBlockAccepts, BlockValidate
  <2>2. PICK j \in 1 .. Len(c) : Alike(p, c[j]) /\ c[j].index = j - 1
    BY <2>1, KnownBlock
  <2>3. Last(s).index = Len(s) - 1
    <3>1. Last(s) = s[Len(s)]
      BY DEF Last
    <3>2. Len(s) \in 1 .. Len(s)
      BY <1>0
    <3>3. s[Len(s)].index = c[Len(s)].index
      BY <3>2 DEF Copied, Alike
    <3>4. c[Len(s)].index = Len(s) - 1
      BY <1>0 DEF Made
    <3> QED BY <3>1, <3>3, <3>4
  <2>4. j = Len(s) + 1
    <3>1. p.index = j - 1
      BY <2>2 DEF Alike
    <3> QED BY <1>0, <2>1, <2>3, <3>1
  <2>5. PICK u : u = Append(s, p)
    OBVIOUS
  <2>6. /\ u \in Seq(Range(u)) /\ Len(u) = Len(s) + 1
        /\ \A i \in 1 .. Len(s) : u[i] = s[i]
        /\ u[Len(s) + 1] = p
    BY <1>0, <2>5, AppendChain, AppendProperties
  <2>7. ASSUME NEW i \in 1 .. Len(u)
        PROVE  Block(u[i]) /\ Alike(u[i], c[i])
    <3>1. CASE i \in 1 .. Len(s)
      BY <2>6, <3>1 DEF Copied
    <3>2. CASE i = Len(s) + 1
      BY <2>2, <2>4, <2>6, <3>2
    <3> QED BY <1>0, <2>6, <3>1, <3>2
  <2>8. Copied(u, c)
    BY <1>0, <2>2, <2>4, <2>6, <2>7 DEF Copied, Text
  <2> QED BY <1>1, <2>5, <2>8 DEF AddBlock
<1>2. CASE ~ AddBlockAccepts(s, p)
  BY <1>2 DEF AddBlock
<1> QED BY <1>1, <1>2

\* In the chain no hash occurs twice, and the first block links to no other.
LEMMA LinksOf ==
    ASSUME DigestsApart, NEW c, Made(c)
    PROVE  /\ \A i, j \in 1 .. Len(c) : c[i].hash = c[j].hash => i = j
           /\ \A i, j \in 1 .. Len(c) : c[j].prev_hash = c[i].hash => j = i + 1
<1>0. Len(c) \in Nat
  BY TextFields DEF Made
<1>1. ASSUME NEW i \in 1 .. Len(c), NEW j \in 1 .. Len(c), c[i].hash = c[j].hash
      PROVE  i = j
  <2>1. PICK a, b : a = c[i] /\ b = c[j]
    OBVIOUS
  <2>2. /\ Block(a) /\ a.index = i - 1 /\ a.hash = BlockHash(a)
        /\ Block(b) /\ b.index = j - 1 /\ b.hash = BlockHash(b)
    BY <2>1 DEF Made
  <2>3. BlockHash(a) = BlockHash(b) /\ a.hash = b.hash
    BY <1>1, <2>1, <2>2
  <2>4. Alike(a, b)
    BY <2>2, <2>3, HashesAlike
  <2>5. i - 1 = j - 1
    BY <2>2, <2>4 DEF Alike
  <2> QED BY <1>0, <2>5
<1>2. ASSUME NEW i \in 1 .. Len(c), NEW j \in 1 .. Len(c), c[j].prev_hash = c[i].hash
      PROVE  j = i + 1
  <2>1. CASE j = 1
    <3>1. c[i].hash = BlockHash(c[i])
      BY DEF Made
    <3>2. c[1].prev_hash = ZeroHash
      BY DEF Made, Genesis, BlockMine
    <3> QED BY <1>2, <2>1, <3>1, <3>2 DEF DigestsApart
  <2>2. CASE j # 1
    <3>1. PICK k : k = j - 1
      OBVIOUS
    <3>2. k \in 1 .. Len(c) /\ j \in 2 .. Len(c) /\ k + 1 = j
      BY <1>0, <2>2, <3>1
    <3>3. c[j].prev_hash = c[k].hash
      BY <3>1, <3>2 DEF Made
    <3>4. k = i
      BY <1>1, <1>2, <3>2, <3>3
    <3> QED BY <3>2, <3>4
  <2> QED BY <2>1, <2>2
<1> QED BY <1>1, <1>2

\* chain_replace takes only a beginning of the chain, if it begins with genesis.
LEMMA AcceptedChain ==
    ASSUME DigestsApart, NEW c, Made(c), NEW s, Copied(s, c), NEW o, Text(o),
           \A i \in 1 .. Len(o) : Block(o[i]) /\ o[i].hash \in Hashes(c) \cup {Unset},
           Len(o) # 0 => Alike(o[1], c[1])
    PROVE  Copied(ChainReplace(s, o), c)
<1>0. Len(s) \in Nat /\ Len(c) \in Nat /\ Len(o) \in Nat /\ Len(s) # 0
  BY TextFields DEF Copied, Made
<1>1. CASE ReplaceAccepts(s, o)
  <2>1. Len(o) > Len(s) /\ ChainValidate(o)
    BY <1>1 DEF ReplaceAccepts
  <2> DEFINE T == {k \in Nat : k + 1 <= Len(o) => k + 1 <= Len(c) /\ Alike(o[k + 1], c[k + 1])}
  <2>2. 0 \in T
    BY <1>0, <2>1 DEF Made
  <2>3. ASSUME NEW k \in Nat, k \in T
        PROVE  k + 1 \in T
    <3> SUFFICES ASSUME k + 2 <= Len(o)
                 PROVE  k + 2 <= Len(c) /\ Alike(o[k + 2], c[k + 2])
      <4>1. k + 1 + 1 = k + 2 /\ k + 1 \in Nat
        OBVIOUS
      <4> QED BY <4>1
    <3>1. PICK i, l : i = k + 2 /\ l = k + 1
      OBVIOUS
    <3>2. i \in 2 .. Len(o) /\ i \in 1 .. Len(o) /\ i - 1 = l /\ l \in 1 .. Len(o)
      BY <1>0, <3>1
    <3>3. l \in 1 .. Len(c) /\ Alike(o[l], c[l])
      BY <1>0, <2>3, <3>1, <3>2
    <3>4. o[i].prev_hash = o[i - 1].hash /\ o[i].hash = BlockHash(o[i])
      BY <2>1, <3>2 DEF ChainValidate, BlockValidate
    <3>5. PICK p : p = o[i]
      OBVIOUS
    <3>6. Block(p) /\ p.hash \in Hashes(c) \cup {Unset} /\ p.hash = BlockHash(p)
      BY <3>2, <3>4, <3>5
    <3>7. PICK j \in 1 .. Len(c) : Alike(p, c[j]) /\ c[j].index = j - 1
      BY <3>6, KnownBlock
    <3>8. c[j].prev_hash = c[l].hash
      BY <3>2, <3>3, <3>4, <3>5, <3>7 DEF Alike
    <3>9. j = l + 1
      BY <3>3, <3>8, LinksOf
    <3>10. j = k + 2 /\ j <= Len(c)
      BY <1>0, <3>1, <3>9
    <3> QED BY <3>1, <3>5, <3>7, <3>10
  <2>4. Nat \subseteq T
    <3> HIDE DEF T
    <3> QED BY <2>2, <2>3, SetInduction
  <2>5. ASSUME NEW i \in 1 .. Len(o)
        PROVE  i <= Len(c) /\ Alike(o[i], c[i])
    <3>1. PICK k : k = i - 1
      OBVIOUS
    <3>2. k \in Nat /\ k + 1 = i /\ i <= Len(o)
      BY <1>0, <3>1
    <3>3. k \in T
      BY <2>4, <3>2
    <3> QED BY <3>2, <3>3
  <2>6. Len(o) \in 1 .. Len(c)
    <3>1. Len(o) \in 1 .. Len(o)
      BY <1>0, <2>1
    <3> QED BY <1>0, <2>5, <3>1
  <2>7. Copied(o, c)
    BY <2>5, <2>6 DEF Copied
  <2> QED BY <1>1, <2>7 DEF ChainReplace
<1>2. CASE ~ ReplaceAccepts(s, o)
  BY <1>2 DEF ChainReplace
<1> QED BY <1>1, <1>2

-----------------------------------------------------------------------------
(* The text of the first block *)

\* Tokens of different kinds differ, and keys of different names.
LEMMA KeysApart ==
    /\ \A k : Open # Key(k) /\ Comma # Key(k) /\ Quote # Key(k)
    /\ \A k, x : Number(x) # Key(k) /\ Word(x) # Key(k)
    /\ \A k, l : k # l => Key(k) # Key(l)
    /\ \A x : Word(x) \notin {Quote, NUL, Backslash}
BY DEF Open, Comma, Quote, NUL, Backslash, Char, Key, Number, Word

\* The first tokens of the text of a block.
Header(b) ==
    <<Open, Key("index"), Number(b.index), Comma, Key("timestamp"), Number(b.timestamp),
      Comma, Key("prev_hash"), Quote, Word(b.prev_hash), Quote, Comma, Key("nonce"),
      Number(b.nonce), Comma, Key("hash"), Quote, Word(b.hash), Quote, Comma,
      Key("tx_count"), Number(Len(b.transactions))>>

\* One by one.
LEMMA HeaderTokens ==
    ASSUME NEW b
    PROVE  /\ Header(b)[1] = Open /\ Header(b)[2] = Key("index")
           /\ Header(b)[3] = Number(b.index) /\ Header(b)[4] = Comma
           /\ Header(b)[5] = Key("timestamp") /\ Header(b)[6] = Number(b.timestamp)
           /\ Header(b)[7] = Comma /\ Header(b)[8] = Key("prev_hash")
           /\ Header(b)[9] = Quote /\ Header(b)[10] = Word(b.prev_hash)
           /\ Header(b)[11] = Quote /\ Header(b)[12] = Comma
           /\ Header(b)[13] = Key("nonce") /\ Header(b)[14] = Number(b.nonce)
           /\ Header(b)[15] = Comma /\ Header(b)[16] = Key("hash")
           /\ Header(b)[17] = Quote /\ Header(b)[18] = Word(b.hash)
           /\ Header(b)[19] = Quote /\ Header(b)[20] = Comma
           /\ Header(b)[21] = Key("tx_count") /\ Header(b)[22] = Number(Len(b.transactions))
BY DEF Header

\* s begins with them, unless it ends before.
HeadOf(s, b) == \A i \in 1 .. 22 : i <= Len(s) => s[i] = Header(b)[i]

\* w is s and then t.
Extends(w, s, t) ==
    /\ Text(w) /\ Len(w) = Len(s) + Len(t) /\ Stands(t, w, Len(s))
    /\ \A u, d : Text(u) /\ d \in Nat /\ Stands(u, s, d) => Stands(u, w, d)

\* As when the two are joined.
LEMMA JoinedExtends ==
    ASSUME NEW s, NEW t, Text(s), Text(t)
    PROVE  Extends(s \o t, s, t)
BY TextJoined, StandsJoined DEF Extends

\* protocol_serialize_block writes the header.
LEMMA HeadWritten ==
    ASSUME NEW H, NEW b, Serializable(b, H), b.prev_hash # Unset
    PROVE  HeadOf(SerializeBlock(b), b) /\ 22 <= Len(SerializeBlock(b))
<1> DEFINE p1 == <<Open, Key("index"), Number(b.index), Comma, Key("timestamp"),
                   Number(b.timestamp), Comma, Key("prev_hash")>>
           q1 == Quoted(Hex(b.prev_hash))
           p2 == <<Comma, Key("nonce"), Number(b.nonce), Comma, Key("hash")>>
           q2 == Quoted(Hex(b.hash))
           p3 == <<Comma, Key("tx_count"), Number(Len(b.transactions)), Comma,
                   Key("transactions")>>
           q3 == List([i \in DOMAIN b.transactions |-> SerializeTx(b.transactions[i])])
           p4 == <<Close>>
<1>1. /\ Text(p1) /\ Len(p1) = 8 /\ p1[1] = Open /\ p1[2] = Key("index")
      /\ p1[3] = Number(b.index) /\ p1[4] = Comma /\ p1[5] = Key("timestamp")
      /\ p1[6] = Number(b.timestamp) /\ p1[7] = Comma /\ p1[8] = Key("prev_hash")
  <2>1. PICK o, k, x, c, l, y, h : /\ o = Open /\ k = Key("index") /\ x = Number(b.index)
                                   /\ c = Comma /\ l = Key("timestamp")
                                   /\ y = Number(b.timestamp) /\ h = Key("prev_hash")
    OBVIOUS
  <2>2. PICK s : s = <<o, k, x, c, l, y, c, h>>
    OBVIOUS
  <2>3. s \in Seq({o, k, x, c, l, y, h}) /\ Len(s) = 8
    BY <2>2
  <2>4. Text(s)
    BY <2>3, TextIs
  <2>5. /\ s[1] = o /\ s[2] = k /\ s[3] = x /\ s[4] = c /\ s[5] = l /\ s[6] = y
        /\ s[7] = c /\ s[8] = h
    BY <2>2
  <2>6. s = p1
    BY <2>1, <2>2
  <2> HIDE DEF p1
  <2> QED BY <2>1, <2>3, <2>4, <2>5, <2>6
<1>2. /\ Text(q1) /\ Len(q1) = 3 /\ q1[1] = Quote /\ q1[2] = Word(b.prev_hash) /\ q1[3] = Quote
  BY QuotedWord
<1>3. /\ Text(p2) /\ Len(p2) = 5 /\ p2[1] = Comma /\ p2[2] = Key("nonce")
      /\ p2[3] = Number(b.nonce) /\ p2[4] = Comma /\ p2[5] = Key("hash")
  <2>1. PICK c, k, x, l : /\ c = Comma /\ k = Key("nonce") /\ x = Number(b.nonce)
                          /\ l = Key("hash")
    OBVIOUS
  <2>2. PICK s : s = <<c, k, x, c, l>>
    OBVIOUS
  <2>3. s \in Seq({c, k, x, l}) /\ Len(s) = 5
    BY <2>2
  <2>4. Text(s)
    BY <2>3, TextIs
  <2>5. s[1] = c /\ s[2] = k /\ s[3] = x /\ s[4] = c /\ s[5] = l
    BY <2>2
  <2>6. s = p2
    BY <2>1, <2>2
  <2> HIDE DEF p2
  <2> QED BY <2>1, <2>3, <2>4, <2>5, <2>6
<1>4. /\ Text(q2) /\ Len(q2) = 3 /\ q2[1] = Quote /\ q2[2] = Word(b.hash) /\ q2[3] = Quote
  BY QuotedWord DEF Serializable
<1>5. /\ Text(p3) /\ Len(p3) = 5 /\ p3[1] = Comma /\ p3[2] = Key("tx_count")
      /\ p3[3] = Number(Len(b.transactions))
  <2>1. PICK c, k, x, l : /\ c = Comma /\ k = Key("tx_count")
                          /\ x = Number(Len(b.transactions)) /\ l = Key("transactions")
    OBVIOUS
  <2>2. PICK s : s = <<c, k, x, c, l>>
    OBVIOUS
  <2>3. s \in Seq({c, k, x, l}) /\ Len(s) = 5
    BY <2>2
  <2>4. Text(s)
    BY <2>3, TextIs
  <2>5. s[1] = c /\ s[2] = k /\ s[3] = x
    BY <2>2
  <2>6. s = p3
    BY <2>1, <2>2
  <2> HIDE DEF p3
  <2> QED BY <2>1, <2>3, <2>4, <2>5, <2>6
<1>6. SerializeBlock(b) = (((((p1 \o q1) \o p2) \o q2) \o p3) \o q3) \o p4
  BY DEF SerializeBlock
<1>7. Text(q3) /\ Text(p4)
  <2> DEFINE F == [i \in DOMAIN b.transactions |-> SerializeTx(b.transactions[i])]
             n == Len(b.transactions)
  <2>1. n \in Nat /\ DOMAIN b.transactions = 1 .. n
    BY TextFields DEF Serializable
  <2>2. PICK S : S = {F[i] : i \in 1 .. n}
    OBVIOUS
  <2>3. Text(F) /\ Len(F) = n
    <3>1. F \in [1 .. n -> S]
      BY <2>1, <2>2
    <3> HIDE DEF F, n
    <3> QED BY <2>1, <3>1, TextOf
  <2>4. \A i \in 1 .. Len(F) : Sane(F[i], H)
    BY <2>1, <2>3, TxSane DEF Serializable
  <2> HIDE DEF F
  <2>5. Text(List(F))
    BY <2>3, <2>4, ListSane DEF Sane
  <2>6. Text(p4)
    BY Others, SaneOne DEF Sane
  <2> QED BY <2>5, <2>6 DEF F
<1> HIDE DEF p1, q1, p2, q2, p3, q3, p4
<1>8. PICK a : a = p1 \o q1
  OBVIOUS
<1>9. Text(a) /\ Len(a) = 11 /\ Stands(p1, a, 0) /\ Stands(q1, a, 8)
  <2>1. Stands(p1, p1, 0)
    BY <1>1 DEF Stands
  <2>2. Extends(a, p1, q1)
    BY <1>1, <1>2, <1>8, JoinedExtends
  <2> QED BY <1>1, <1>2, <2>1, <2>2 DEF Extends
<1>10. PICK c : c = a \o p2
  OBVIOUS
<1>11. Text(c) /\ Len(c) = 16 /\ Stands(p1, c, 0) /\ Stands(q1, c, 8) /\ Stands(p2, c, 11)
  <2>1. Extends(c, a, p2)
    BY <1>3, <1>9, <1>10, JoinedExtends
  <2> QED BY <1>1, <1>2, <1>3, <1>9, <2>1 DEF Extends
<1>12. PICK d : d = c \o q2
  OBVIOUS
<1>13. /\ Text(d) /\ Len(d) = 19 /\ Stands(p1, d, 0) /\ Stands(q1, d, 8)
       /\ Stands(p2, d, 11) /\ Stands(q2, d, 16)
  <2>1. Extends(d, c, q2)
    BY <1>4, <1>11, <1>12, JoinedExtends
  <2> QED BY <1>1, <1>2, <1>3, <1>4, <1>11, <2>1 DEF Extends
<1>14. PICK e : e = d \o p3
  OBVIOUS
<1>15. /\ Text(e) /\ Len(e) = 24 /\ Stands(p1, e, 0) /\ Stands(q1, e, 8)
       /\ Stands(p2, e, 11) /\ Stands(q2, e, 16) /\ Stands(p3, e, 19)
  <2>1. Extends(e, d, p3)
    BY <1>5, <1>13, <1>14, JoinedExtends
  <2> QED BY <1>1, <1>2, <1>3, <1>4, <1>5, <1>13, <2>1 DEF Extends
<1>16. PICK t : t = (e \o q3) \o p4
  OBVIOUS
<1>17. Text(t) /\ 24 <= Len(t) /\ Stands(e, t, 0)
  <2>1. Stands(e, e, 0)
    BY <1>15 DEF Stands
  <2>5. PICK f : f = e \o q3
    OBVIOUS
  <2>6. Extends(f, e, q3)
    BY <1>7, <1>15, <2>5, JoinedExtends
  <2>2. Text(f) /\ Len(f) = 24 + Len(q3) /\ Stands(e, f, 0)
    BY <1>15, <2>1, <2>6 DEF Extends
  <2>7. Extends(t, f, p4)
    BY <1>7, <1>16, <2>2, <2>5, JoinedExtends
  <2>3. Text(t) /\ Len(t) = Len(f) + Len(p4) /\ Stands(e, t, 0)
    BY <1>15, <2>2, <2>7 DEF Extends
  <2>4. Len(q3) \in Nat /\ Len(p4) \in Nat
    BY <1>7, TextFields
  <2> QED BY <2>2, <2>3, <2>4
<1>18. t = SerializeBlock(b)
  BY <1>6, <1>8, <1>10, <1>12, <1>14, <1>16
<1>19. \A i \in 1 .. 24 : t[i] = e[i]
  <2>1. \A i \in 1 .. 24 : t[0 + i] = e[i]
    BY <1>15, <1>17 DEF Stands
  <2> QED BY <2>1
<1>20. /\ t[1] = p1[1]
       /\ t[2] = p1[2]
       /\ t[3] = p1[3]
       /\ t[4] = p1[4]
       /\ t[5] = p1[5]
       /\ t[6] = p1[6]
       /\ t[7] = p1[7]
       /\ t[8] = p1[8]
  <2>1. \A i \in 1 .. 8 : e[0 + i] = p1[i]
    BY <1>15, <1>1 DEF Stands
  <2>2. /\ e[0 + 1] = p1[1] /\ 0 + 1 = 1
        /\ e[0 + 2] = p1[2] /\ 0 + 2 = 2
        /\ e[0 + 3] = p1[3] /\ 0 + 3 = 3
        /\ e[0 + 4] = p1[4] /\ 0 + 4 = 4
        /\ e[0 + 5] = p1[5] /\ 0 + 5 = 5
        /\ e[0 + 6] = p1[6] /\ 0 + 6 = 6
        /\ e[0 + 7] = p1[7] /\ 0 + 7 = 7
        /\ e[0 + 8] = p1[8] /\ 0 + 8 = 8
    BY <2>1
  <2> QED BY <1>19, <2>2
<1>21. /\ t[9] = q1[1]
       /\ t[10] = q1[2]
       /\ t[11] = q1[3]
  <2>1. \A i \in 1 .. 3 : e[8 + i] = q1[i]
    BY <1>15, <1>2 DEF Stands
  <2>2. /\ e[8 + 1] = q1[1] /\ 8 + 1 = 9
        /\ e[8 + 2] = q1[2] /\ 8 + 2 = 10
        /\ e[8 + 3] = q1[3] /\ 8 + 3 = 11
    BY <2>1
  <2> QED BY <1>19, <2>2
<1>22. /\ t[12] = p2[1]
       /\ t[13] = p2[2]
       /\ t[14] = p2[3]
       /\ t[15] = p2[4]
       /\ t[16] = p2[5]
  <2>1. \A i \in 1 .. 5 : e[11 + i] = p2[i]
    BY <1>15, <1>3 DEF Stands
  <2>2. /\ e[11 + 1] = p2[1] /\ 11 + 1 = 12
        /\ e[11 + 2] = p2[2] /\ 11 + 2 = 13
        /\ e[11 + 3] = p2[3] /\ 11 + 3 = 14
        /\ e[11 + 4] = p2[4] /\ 11 + 4 = 15
        /\ e[11 + 5] = p2[5] /\ 11 + 5 = 16
    BY <2>1
  <2> QED BY <1>19, <2>2
<1>23. /\ t[17] = q2[1]
       /\ t[18] = q2[2]
       /\ t[19] = q2[3]
  <2>1. \A i \in 1 .. 3 : e[16 + i] = q2[i]
    BY <1>15, <1>4 DEF Stands
  <2>2. /\ e[16 + 1] = q2[1] /\ 16 + 1 = 17
        /\ e[16 + 2] = q2[2] /\ 16 + 2 = 18
        /\ e[16 + 3] = q2[3] /\ 16 + 3 = 19
    BY <2>1
  <2> QED BY <1>19, <2>2
<1>24. /\ t[20] = p3[1]
       /\ t[21] = p3[2]
       /\ t[22] = p3[3]
  <2>1. \A i \in 1 .. 5 : e[19 + i] = p3[i]
    BY <1>15, <1>5 DEF Stands
  <2>2. /\ e[19 + 1] = p3[1] /\ 19 + 1 = 20
        /\ e[19 + 2] = p3[2] /\ 19 + 2 = 21
        /\ e[19 + 3] = p3[3] /\ 19 + 3 = 22
    BY <2>1
  <2> QED BY <1>19, <2>2
<1>25. PICK h : h = Header(b)
  OBVIOUS
<1>26. t[1] = h[1] /\ t[2] = h[2] /\ t[3] = h[3] /\ t[4] = h[4]
       /\ t[5] = h[5] /\ t[6] = h[6] /\ t[7] = h[7] /\ t[8] = h[8]
  BY <1>1, <1>20, <1>25, HeaderTokens
<1>27. t[9] = h[9] /\ t[10] = h[10] /\ t[11] = h[11]
  BY <1>2, <1>21, <1>25, HeaderTokens
<1>28. t[12] = h[12] /\ t[13] = h[13] /\ t[14] = h[14] /\ t[15] = h[15]
       /\ t[16] = h[16]
  BY <1>3, <1>22, <1>25, HeaderTokens
<1>29. t[17] = h[17] /\ t[18] = h[18] /\ t[19] = h[19]
  BY <1>4, <1>23, <1>25, HeaderTokens
<1>30. t[20] = h[20] /\ t[21] = h[21] /\ t[22] = h[22]
  BY <1>5, <1>24, <1>25, HeaderTokens
<1>31. \A i \in 1 .. 22 : t[i] = Header(b)[i]
  BY <1>25, <1>26, <1>27, <1>28, <1>29, <1>30
<1>32. HeadOf(t, b) /\ 22 <= Len(t)
  <2>1. 22 <= Len(t)
    BY <1>17, TextFields
  <2> QED BY <1>31, <2>1 DEF HeadOf
<1> QED BY <1>18, <1>32

\* Where the keys are in the header.
LEMMA HeaderKeys ==
    ASSUME NEW b
    PROVE  /\ Header(b)[2] = Key("index") /\ Header(b)[5] = Key("timestamp")
           /\ Header(b)[8] = Key("prev_hash") /\ Header(b)[13] = Key("nonce")
           /\ Header(b)[16] = Key("hash") /\ Header(b)[21] = Key("tx_count")
           /\ \A i \in 1 .. 1 : Header(b)[i] # Key("index")
           /\ \A i \in 1 .. 4 : Header(b)[i] # Key("timestamp")
           /\ \A i \in 1 .. 7 : Header(b)[i] # Key("prev_hash")
           /\ \A i \in 1 .. 12 : Header(b)[i] # Key("nonce")
           /\ \A i \in 1 .. 15 : Header(b)[i] # Key("hash")
           /\ \A i \in 1 .. 20 : Header(b)[i] # Key("tx_count")
<1>1. PICK h : h = Header(b)
  OBVIOUS
<1>2. /\ h[2] = Key("index") /\ h[5] = Key("timestamp") /\ h[8] = Key("prev_hash")
      /\ h[13] = Key("nonce") /\ h[16] = Key("hash") /\ h[21] = Key("tx_count")
  BY <1>1, HeaderTokens
<1>3. ASSUME NEW k
      PROVE  /\ h[1] # Key(k) /\ h[3] # Key(k) /\ h[4] # Key(k) /\ h[6] # Key(k)
             /\ h[7] # Key(k) /\ h[9] # Key(k) /\ h[10] # Key(k) /\ h[11] # Key(k)
             /\ h[12] # Key(k) /\ h[14] # Key(k) /\ h[15] # Key(k) /\ h[17] # Key(k)
             /\ h[18] # Key(k) /\ h[19] # Key(k) /\ h[20] # Key(k)
  <2>1. /\ h[1] = Open /\ h[3] = Number(b.index) /\ h[4] = Comma
        /\ h[6] = Number(b.timestamp) /\ h[7] = Comma /\ h[9] = Quote
        /\ h[10] = Word(b.prev_hash) /\ h[11] = Quote /\ h[12] = Comma
        /\ h[14] = Number(b.nonce) /\ h[15] = Comma /\ h[17] = Quote
        /\ h[18] = Word(b.hash) /\ h[19] = Quote /\ h[20] = Comma
    BY <1>1, HeaderTokens
  <2>2. /\ Open # Key(k) /\ Comma # Key(k) /\ Quote # Key(k)
        /\ Number(b.index) # Key(k) /\ Number(b.timestamp) # Key(k)
        /\ Number(b.nonce) # Key(k) /\ Word(b.prev_hash) # Key(k) /\ Word(b.hash) # Key(k)
    BY KeysApart
  <2> QED BY <2>1, <2>2
<1>4. /\ Key("index") \notin {Key("timestamp"), Key("prev_hash"), Key("nonce"), Key("hash"), Key("tx_count")}
      /\ Key("timestamp") \notin {Key("prev_hash"), Key("nonce"), Key("hash"), Key("tx_count")}
      /\ Key("prev_hash") \notin {Key("nonce"), Key("hash"), Key("tx_count")}
      /\ Key("nonce") \notin {Key("hash"), Key("tx_count")} /\ Key("hash") # Key("tx_count")
  BY KeysApart
<1>5. \A i \in 1 .. 1 : h[i] # Key("index")
  BY <1>2, <1>3, <1>4
<1>6. \A i \in 1 .. 4 : h[i] # Key("timestamp")
  BY <1>2, <1>3, <1>4
<1>7. \A i \in 1 .. 7 : h[i] # Key("prev_hash")
  BY <1>2, <1>3, <1>4
<1>8. \A i \in 1 .. 12 : h[i] # Key("nonce")
  BY <1>2, <1>3, <1>4
<1>9. \A i \in 1 .. 15 : h[i] # Key("hash")
  BY <1>2, <1>3, <1>4
<1>10. \A i \in 1 .. 20 : h[i] # Key("tx_count")
  BY <1>2, <1>3, <1>4
<1> QED BY <1>1, <1>2, <1>5, <1>6, <1>7, <1>8, <1>9, <1>10

\* json_find_key finds them there.
LEMMA HeadKey ==
    ASSUME NEW b, NEW u, Text(u), HeadOf(u, b), 21 <= Len(u), NEW k, NEW p \in 1 .. 21,
           Header(b)[p] = Key(k), \A i \in 1 .. p - 1 : Header(b)[i] # Key(k)
    PROVE  /\ FindKey(u, k) = p + 1 /\ At(u, p + 1) \in {Header(b)[p + 1], NUL}
           /\ p # 21 => At(u, p + 1) = Header(b)[p + 1]
           /\ p < 20 => At(u, p + 2) = Header(b)[p + 2]
           /\ p < 19 => At(u, p + 3) = Header(b)[p + 3]
<1> DEFINE h == Header(b)
<1>1. Len(u) \in Nat /\ \A i \in 1 .. 22 : i <= Len(u) => u[i] = h[i]
  BY TextFields DEF HeadOf
<1> HIDE DEF h
<1>2. ASSUME NEW i \in 1 .. 21
      PROVE  At(u, i) = h[i] /\ u[i] = h[i]
  <2>1. i \in 1 .. 22 /\ i <= Len(u) /\ i \in Nat \ {0}
    BY <1>1
  <2> QED BY <1>1, <2>1, AtIs
<1>3. FindKey(u, k) = p + 1
  <2>1. p \in 1 .. Len(u) /\ \A i \in 1 .. p - 1 : i \in 1 .. 21
    BY <1>1
  <2>2. u[p] = Key(k) /\ \A i \in 1 .. p - 1 : u[i] # Key(k)
    BY <1>2, <2>1 DEF h
  <2> QED BY <2>1, <2>2, FirstKey
<1>4. p # 21 => At(u, p + 1) = h[p + 1]
  <2>1. p # 21 => p + 1 \in 1 .. 21
    OBVIOUS
  <2> QED BY <1>2, <2>1
<1>5. p < 20 => At(u, p + 2) = h[p + 2]
  <2>1. p < 20 => p + 2 \in 1 .. 21
    OBVIOUS
  <2> QED BY <1>2, <2>1
<1>6. p < 19 => At(u, p + 3) = h[p + 3]
  <2>1. p < 19 => p + 3 \in 1 .. 21
    OBVIOUS
  <2> QED BY <1>2, <2>1
<1>7. At(u, 22) \in {h[22], NUL}
  BY <1>1, AtIs
<1>8. p = 21 => p + 1 = 22
  OBVIOUS
<1> QED BY <1>3, <1>4, <1>5, <1>6, <1>7, <1>8 DEF h

\* A digest is read from its field.
LEMMA DigestRead ==
    ASSUME NEW u, Text(u), NEW k, NEW p \in Nat \ {0}, FindKey(u, k) = p, At(u, p) = Quote,
           NEW d, At(u, p + 1) = Word(d), At(u, p + 2) \in {Quote, NUL}
    PROVE  GetDigest(u, k) = d
<1>1. HasString(u, k)
  BY DEF HasString
<1>2. PICK q \in Nat \ {0} : q = p + 1 /\ q + 1 = p + 2
  OBVIOUS
<1>3. /\ FindKey(u, k) + 1 = q /\ At(u, q) \notin {Quote, NUL, Backslash}
      /\ At(u, q + 1) \in {Quote, NUL} /\ At(u, q) = Word(d)
  BY <1>2, KeysApart
<1>4. GetString(u, k) = <<Word(d)>>
  BY <1>1, <1>3, StringIs
<1>5. PICK w : w = Word(d)
  OBVIOUS
<1>6. <<w>> # << >> /\ <<w>>[1] = w
  OBVIOUS
<1> QED BY <1>4, <1>5, <1>6, Kinds DEF GetDigest

\* A text that begins like that of a block without transactions, and in which
\* the fields are found, is read as this block, wherever it was cut off.
LEMMA HeadParsed ==
    ASSUME NEW b, Len(b.transactions) = 0, NEW u, Text(u), HeadOf(u, b), BlockParses(u)
    PROVE  Alike(ParseBlock(u), b)
<1>0. Len(u) \in Nat
  BY TextFields
<1>1. 21 <= Len(u)
  <2>1. FindKey(u, "tx_count") # 0
    BY DEF BlockParses
  <2>2. PICK q \in 1 .. Len(u) : u[q] = Key("tx_count")
    BY <2>1, KeyFound
  <2>3. ASSUME q \in 1 .. 20
        PROVE  u[q] = Header(b)[q] /\ Header(b)[q] # Key("tx_count")
    <3>1. q \in 1 .. 22 /\ q <= Len(u)
      BY <1>0, <2>3
    <3>2. u[q] = Header(b)[q]
      BY <3>1 DEF HeadOf
    <3>3. \A i \in 1 .. 20 : Header(b)[i] # Key("tx_count")
      BY HeaderKeys
    <3> QED BY <2>3, <3>2, <3>3
  <2>4. ~ (q \in 1 .. 20)
    BY <2>2, <2>3
  <2> QED BY <1>0, <2>2, <2>4
<1>2. GetNumber(u, "index") = b.index
  <2>1. FindKey(u, "index") = 2 + 1 /\ At(u, 2 + 1) = Header(b)[2 + 1]
    <3>1. PICK p \in 1 .. 21 : p = 2
      OBVIOUS
    <3>2. \A i \in 1 .. p - 1 : i \in 1 .. 1
      BY <3>1
    <3>3. /\ Header(b)[p] = Key("index") /\ p # 21
          /\ \A i \in 1 .. p - 1 : Header(b)[i] # Key("index")
      BY <3>1, <3>2, HeaderKeys
    <3>4. FindKey(u, "index") = p + 1 /\ At(u, p + 1) = Header(b)[p + 1]
      BY <1>1, <3>3, HeadKey
    <3> QED BY <3>1, <3>4
  <2>2. FindKey(u, "index") = 3 /\ At(u, 3) = Number(b.index)
    BY <2>1, HeaderTokens
  <2> QED BY <2>2, Kinds DEF GetNumber
<1>3. GetNumber(u, "timestamp") = b.timestamp
  <2>1. FindKey(u, "timestamp") = 5 + 1 /\ At(u, 5 + 1) = Header(b)[5 + 1]
    <3>1. PICK p \in 1 .. 21 : p = 5
      OBVIOUS
    <3>2. \A i \in 1 .. p - 1 : i \in 1 .. 4
      BY <3>1
    <3>3. /\ Header(b)[p] = Key("timestamp") /\ p # 21
          /\ \A i \in 1 .. p - 1 : Header(b)[i] # Key("timestamp")
      BY <3>1, <3>2, HeaderKeys
    <3>4. FindKey(u, "timestamp") = p + 1 /\ At(u, p + 1) = Header(b)[p + 1]
      BY <1>1, <3>3, HeadKey
    <3> QED BY <3>1, <3>4
  <2>2. FindKey(u, "timestamp") = 6 /\ At(u, 6) = Number(b.timestamp)
    BY <2>1, HeaderTokens
  <2> QED BY <2>2, Kinds DEF GetNumber
<1>4. GetNumber(u, "nonce") = b.nonce
  <2>1. FindKey(u, "nonce") = 13 + 1 /\ At(u, 13 + 1) = Header(b)[13 + 1]
    <3>1. PICK p \in 1 .. 21 : p = 13
      OBVIOUS
    <3>2. \A i \in 1 .. p - 1 : i \in 1 .. 12
      BY <3>1
    <3>3. /\ Header(b)[p] = Key("nonce") /\ p # 21
          /\ \A i \in 1 .. p - 1 : Header(b)[i] # Key("nonce")
      BY <3>1, <3>2, HeaderKeys
    <3>4. FindKey(u, "nonce") = p + 1 /\ At(u, p + 1) = Header(b)[p + 1]
      BY <1>1, <3>3, HeadKey
    <3> QED BY <3>1, <3>4
  <2>2. FindKey(u, "nonce") = 14 /\ At(u, 14) = Number(b.nonce)
    BY <2>1, HeaderTokens
  <2> QED BY <2>2, Kinds DEF GetNumber
<1>5. GetDigest(u, "prev_hash") = b.prev_hash
  <2>1. /\ FindKey(u, "prev_hash") = 8 + 1 /\ At(u, 8 + 1) = Header(b)[8 + 1]
        /\ At(u, 8 + 2) = Header(b)[8 + 2] /\ At(u, 8 + 3) = Header(b)[8 + 3]
    <3>1. PICK p \in 1 .. 21 : p = 8
      OBVIOUS
    <3>2. \A i \in 1 .. p - 1 : i \in 1 .. 7
      BY <3>1
    <3>3. /\ Header(b)[p] = Key("prev_hash") /\ p < 19 /\ p < 20 /\ p # 21
          /\ \A i \in 1 .. p - 1 : Header(b)[i] # Key("prev_hash")
      BY <3>1, <3>2, HeaderKeys
    <3>4. /\ FindKey(u, "prev_hash") = p + 1 /\ At(u, p + 1) = Header(b)[p + 1]
          /\ At(u, p + 2) = Header(b)[p + 2] /\ At(u, p + 3) = Header(b)[p + 3]
      BY <1>1, <3>3, HeadKey
    <3> QED BY <3>1, <3>4
  <2>2. /\ FindKey(u, "prev_hash") = 9 /\ At(u, 9) = Quote
        /\ At(u, 9 + 1) = Word(b.prev_hash) /\ At(u, 9 + 2) = Quote
    BY <2>1, HeaderTokens
  <2> QED BY <2>2, DigestRead
<1>6. GetDigest(u, "hash") = b.hash
  <2>1. /\ FindKey(u, "hash") = 16 + 1 /\ At(u, 16 + 1) = Header(b)[16 + 1]
        /\ At(u, 16 + 2) = Header(b)[16 + 2] /\ At(u, 16 + 3) = Header(b)[16 + 3]
    <3>1. PICK p \in 1 .. 21 : p = 16
      OBVIOUS
    <3>2. \A i \in 1 .. p - 1 : i \in 1 .. 15
      BY <3>1
    <3>3. /\ Header(b)[p] = Key("hash") /\ p < 19 /\ p < 20 /\ p # 21
          /\ \A i \in 1 .. p - 1 : Header(b)[i] # Key("hash")
      BY <3>1, <3>2, HeaderKeys
    <3>4. /\ FindKey(u, "hash") = p + 1 /\ At(u, p + 1) = Header(b)[p + 1]
          /\ At(u, p + 2) = Header(b)[p + 2] /\ At(u, p + 3) = Header(b)[p + 3]
      BY <1>1, <3>3, HeadKey
    <3> QED BY <3>1, <3>4
  <2>2. /\ FindKey(u, "hash") = 17 /\ At(u, 17) = Quote
        /\ At(u, 17 + 1) = Word(b.hash) /\ At(u, 17 + 2) = Quote
    BY <2>1, HeaderTokens
  <2> QED BY <2>2, DigestRead
<1>7. GetNumber(u, "tx_count") = 0
  <2>1. At(u, 21 + 1) \in {Header(b)[21 + 1], NUL} /\ FindKey(u, "tx_count") = 21 + 1
    <3>1. PICK p \in 1 .. 21 : p = 21
      OBVIOUS
    <3>2. \A i \in 1 .. p - 1 : i \in 1 .. 20
      BY <3>1
    <3>3. /\ Header(b)[p] = Key("tx_count")
          /\ \A i \in 1 .. p - 1 : Header(b)[i] # Key("tx_count")
      BY <3>1, <3>2, HeaderKeys
    <3>4. FindKey(u, "tx_count") = p + 1 /\ At(u, p + 1) \in {Header(b)[p + 1], NUL}
      BY <1>1, <3>3, HeadKey
    <3> QED BY <3>1, <3>4
  <2>2. Header(b)[22] = Number(0)
    BY HeaderTokens
  <2>3. FindKey(u, "tx_count") = 22 /\ At(u, 22) \in {Number(0), NUL}
    BY <2>1, <2>2
  <2> QED BY <2>3, Kinds, Chars DEF GetNumber
<1>8. PICK p : p = ParseBlock(u)
  OBVIOUS
<1>9. /\ p.index = b.index /\ p.timestamp = b.timestamp /\ p.nonce = b.nonce
      /\ p.prev_hash = b.prev_hash /\ p.hash = b.hash
  BY <1>2, <1>3, <1>4, <1>5, <1>6, <1>8 DEF ParseBlock
<1>10. Len(p.transactions) = 0
  <2> DEFINE objects == Elements(u, FindKey(u, "transactions"),
                                 IF GetNumber(u, "tx_count") < MAX_TX_PER_BLOCK
                                 THEN GetNumber(u, "tx_count") ELSE MAX_TX_PER_BLOCK)
             item(i) == ParseTx(IF i <= Len(objects) THEN objects[i] ELSE << >>)
  <2>1. p.transactions = [i \in 1 .. GetNumber(u, "tx_count") |-> item(i)]
    BY <1>8 DEF ParseBlock
  <2> HIDE DEF item
  <2>2. PICK x : x = p.transactions
    OBVIOUS
  <2>3. x \in [1 .. 0 -> {}]
    BY <1>7, <2>1, <2>2
  <2>4. Len(x) = 0
    BY <2>3, TextOf
  <2> QED BY <2>2, <2>4
<1> QED BY <1>8, <1>9, <1>10 DEF Alike

-----------------------------------------------------------------------------
(* The line with the chain, and what is read from it *)

\* The blocks of the payer's chain can be serialized.
LEMMA MadeSerializable ==
    ASSUME DigestsApart, NEW c, Made(c), NEW i \in 1 .. Len(c)
    PROVE  Serializable(c[i], Hashes(c))
<1>1. PICK b : b = c[i]
  OBVIOUS
<1>2. /\ Block(b) /\ b.hash = BlockHash(b)
      /\ \A k \in 1 .. Len(b.transactions) : TypedTx(b.transactions[k])
  BY <1>1 DEF Made
<1>3. b.hash \in Hashes(c) /\ b.hash # Unset
  BY <1>1, <1>2 DEF Hashes, DigestsApart
<1> QED BY <1>1, <1>2, <1>3 DEF Serializable, Block

\* protocol_serialize_chain: the text of the first block stands behind the bracket.
LEMMA ChainWritten ==
    ASSUME DigestsApart, NEW c, Made(c)
    PROVE  /\ Sane(SerializeChain(c), Hashes(c)) /\ 28 <= Len(SerializeChain(c))
           /\ \A i \in 1 .. 4 : SerializeChain(c)[i] # Key("blocks")
           /\ SerializeChain(c)[5] = Key("blocks") /\ SerializeChain(c)[6] = OpenList
           /\ \A i \in 1 .. 22 : SerializeChain(c)[6 + i] = Header(Genesis)[i]
<1> DEFINE H == Hashes(c)
           g == SerializeBlock(Genesis)
           p1 == <<Open, Key("length"), Number(Len(c)), Comma, Key("blocks")>>
           F == [i \in DOMAIN c |-> SerializeBlock(c[i])]
           q == List(F)
           p2 == <<Close>>
<1>0. Len(c) \in Nat \ {0} /\ DOMAIN c = 1 .. Len(c) /\ c[1] = Genesis
  BY TextFields DEF Made
<1>1. SerializeChain(c) = (p1 \o q) \o p2
  BY DEF SerializeChain
<1>2. /\ Sane(p1, H) /\ Text(p1) /\ Len(p1) = 5
      /\ \A i \in 1 .. 4 : p1[i] # Key("blocks")
      /\ p1[5] = Key("blocks")
  <2>1. PICK o, k, x, e, l : /\ o = Open /\ k = Key("length") /\ x = Number(Len(c))
                             /\ e = Comma /\ l = Key("blocks")
    OBVIOUS
  <2>2. Other(o) /\ Other(k) /\ Other(x) /\ Other(e) /\ Other(l)
    BY <2>1, Others
  <2>3. PICK s : s = <<o, k, x, e, l>>
    OBVIOUS
  <2>4. Sane(s, H)
    BY <2>2, <2>3, SaneFive
  <2>5. s[1] = o /\ s[2] = k /\ s[3] = x /\ s[4] = e /\ s[5] = l /\ Len(s) = 5
    BY <2>3
  <2>6. o # l /\ k # l /\ x # l /\ e # l
    BY <2>1, KeysApart
  <2>7. \A i \in 1 .. 4 : s[i] # l
    BY <2>5, <2>6
  <2>8. s = p1
    BY <2>1, <2>3
  <2> HIDE DEF p1
  <2> QED BY <2>1, <2>4, <2>5, <2>7, <2>8 DEF Sane
<1>3. Text(F) /\ Len(F) = Len(c) /\ \A i \in 1 .. Len(F) : Sane(F[i], H)
  <2>1. PICK n : n = Len(c)
    OBVIOUS
  <2>2. PICK S : S = {F[i] : i \in 1 .. n}
    OBVIOUS
  <2>3. F \in [1 .. n -> S]
    BY <1>0, <2>1, <2>2
  <2>4. \A i \in 1 .. n : F[i] = SerializeBlock(c[i])
    BY <1>0, <2>1
  <2> HIDE DEF F
  <2>5. Text(F) /\ Len(F) = n
    BY <1>0, <2>1, <2>3, TextOf
  <2>6. \A i \in 1 .. n : Sane(SerializeBlock(c[i]), H)
    <3> SUFFICES ASSUME NEW i \in 1 .. n PROVE Sane(SerializeBlock(c[i]), H)
      OBVIOUS
    <3>1. Serializable(c[i], H)
      BY <2>1, MadeSerializable
    <3> QED BY <3>1, BlockSane
  <2> QED BY <2>1, <2>4, <2>5, <2>6
<1>4. F[1] = g /\ HeadOf(g, Genesis) /\ 22 <= Len(g) /\ Len(g) \in Nat
  <2>1. 1 \in 1 .. Len(c)
    BY <1>0
  <2>2. Serializable(Genesis, H)
    BY <1>0, <2>1, MadeSerializable
  <2>3. Genesis.prev_hash = ZeroHash
    BY DEF Genesis, BlockMine
  <2>4. HeadOf(g, Genesis) /\ 22 <= Len(g)
    BY <2>2, <2>3, HeadWritten DEF DigestsApart
  <2>5. Text(g)
    BY <2>2, BlockSane DEF Sane
  <2>6. F[1] = g
    BY <1>0, <2>1
  <2> QED BY <2>4, <2>5, <2>6, TextFields
<1> HIDE DEF F, g
<1>5. /\ Sane(q, H) /\ Text(q) /\ q[1] = OpenList /\ 1 + Len(g) <= Len(q)
      /\ \A i \in 1 .. Len(g) : q[1 + i] = g[i]
  BY <1>0, <1>3, <1>4, ListSane DEF Sane
<1>6. Sane(p2, H) /\ Text(p2)
  BY Others, SaneOne DEF Sane
<1> HIDE DEF p1, q, p2, H
<1>7. PICK w : w = p1 \o q
  OBVIOUS
<1>8. Sane(w, H) /\ Extends(w, p1, q)
  BY <1>2, <1>5, <1>7, SaneJoined, JoinedExtends
<1>9. PICK t : t = w \o p2
  OBVIOUS
<1>10. Sane(t, H) /\ Extends(t, w, p2)
  BY <1>6, <1>8, <1>9, SaneJoined, JoinedExtends DEF Extends
<1>11. Stands(p1, t, 0) /\ Stands(q, t, 5)
  <2>1. Stands(p1, p1, 0)
    BY <1>2 DEF Stands
  <2>2. Stands(p1, w, 0) /\ Stands(q, w, 5)
    BY <1>2, <1>8, <2>1 DEF Extends
  <2> QED BY <1>2, <1>5, <1>10, <2>2 DEF Extends
<1>12. Len(q) \in Nat /\ Len(t) \in Nat /\ 5 + Len(q) <= Len(t)
  <2>1. Text(t)
    BY <1>10 DEF Extends
  <2> QED BY <1>5, <1>11, <2>1, TextFields DEF Stands
<1>13. \A i \in 1 .. 5 : t[i] = p1[i]
  <2>1. \A i \in 1 .. 5 : t[0 + i] = p1[i]
    BY <1>2, <1>11 DEF Stands
  <2> QED BY <2>1
<1>14. \A i \in 1 .. Len(q) : t[5 + i] = q[i]
  BY <1>11 DEF Stands
<1>15. t[6] = OpenList
  <2>1. 1 \in 1 .. Len(q) /\ 5 + 1 = 6
    BY <1>4, <1>5, <1>12
  <2> QED BY <1>5, <1>14, <2>1
<1>16. ASSUME NEW i \in 1 .. 22
       PROVE  t[6 + i] = Header(Genesis)[i]
  <2>1. PICK k : k = 1 + i
    OBVIOUS
  <2>2. k \in 1 .. Len(q) /\ 5 + k = 6 + i /\ i \in 1 .. Len(g)
    BY <1>4, <1>5, <1>12, <2>1
  <2>3. t[5 + k] = q[k] /\ q[1 + i] = g[i]
    BY <1>5, <1>14, <2>2
  <2>4. g[i] = Header(Genesis)[i]
    <3>1. \A j \in 1 .. 22 : j <= Len(g) => g[j] = Header(Genesis)[j]
      BY <1>4 DEF HeadOf
    <3>2. i <= Len(g)
      BY <1>4
    <3> QED BY <3>1, <3>2
  <2> QED BY <2>1, <2>2, <2>3, <2>4
<1>17. 28 <= Len(t)
  BY <1>4, <1>5, <1>12
<1>18. /\ t[5] = Key("blocks")
       /\ \A i \in 1 .. 4 : t[i] # Key("blocks")
  BY <1>2, <1>13
<1> QED BY <1>1, <1>7, <1>9, <1>10, <1>15, <1>16, <1>17, <1>18 DEF H

\* protocol_serialize_msg: the type is found, and behind the key the payload.
LEMMA LineIs ==
    ASSUME NEW H, NEW t, Sane(t, H), NEW type
    PROVE  /\ Sane(SerializeMsg(type, t), H)
           /\ GetNumber(SerializeMsg(type, t), "type") = type
           /\ FindKey(SerializeMsg(type, t), "payload") = 6
           /\ 6 + Len(t) = Len(SerializeMsg(type, t))
           /\ \A i \in 1 .. Len(t) : SerializeMsg(type, t)[5 + i] = t[i]
<1> DEFINE p1 == <<Open, Key("type"), Number(type), Comma, Key("payload")>>
           p2 == <<Close>>
<1>1. SerializeMsg(type, t) = (p1 \o t) \o p2
  BY DEF SerializeMsg
<1>2. /\ Sane(p1, H) /\ Text(p1) /\ Len(p1) = 5
      /\ \A i \in 1 .. 4 : p1[i] # Key("payload")
      /\ p1[5] = Key("payload") /\ p1[1] # Key("type") /\ p1[2] = Key("type")
      /\ p1[3] = Number(type)
  <2>1. PICK o, k, x, e, l : /\ o = Open /\ k = Key("type") /\ x = Number(type)
                             /\ e = Comma /\ l = Key("payload")
    OBVIOUS
  <2>2. Other(o) /\ Other(k) /\ Other(x) /\ Other(e) /\ Other(l)
    BY <2>1, Others
  <2>3. PICK s : s = <<o, k, x, e, l>>
    OBVIOUS
  <2>4. Sane(s, H)
    BY <2>2, <2>3, SaneFive
  <2>5. s[1] = o /\ s[2] = k /\ s[3] = x /\ s[4] = e /\ s[5] = l /\ Len(s) = 5
    BY <2>3
  <2>6. o # l /\ k # l /\ x # l /\ e # l /\ o # k
    BY <2>1, KeysApart
  <2>7. \A i \in 1 .. 4 : s[i] # l
    BY <2>5, <2>6
  <2>8. s = p1
    BY <2>1, <2>3
  <2> HIDE DEF p1
  <2> QED BY <2>1, <2>4, <2>5, <2>6, <2>7, <2>8 DEF Sane
<1>3. Sane(p2, H) /\ Text(p2) /\ Len(p2) = 1
  BY Others, SaneOne DEF Sane
<1>4. Text(t)
  BY DEF Sane
<1> HIDE DEF p1, p2
<1>5. PICK w : w = p1 \o t
  OBVIOUS
<1>6. Sane(w, H) /\ Extends(w, p1, t)
  BY <1>2, <1>4, <1>5, SaneJoined, JoinedExtends
<1>7. PICK s : s = w \o p2
  OBVIOUS
<1>8. Sane(s, H) /\ Extends(s, w, p2)
  BY <1>3, <1>6, <1>7, SaneJoined, JoinedExtends DEF Extends
<1>9. Stands(p1, s, 0) /\ Stands(t, s, 5)
  <2>1. Stands(p1, p1, 0)
    BY <1>2 DEF Stands
  <2>2. Stands(p1, w, 0) /\ Stands(t, w, 5)
    BY <1>2, <1>6, <2>1 DEF Extends
  <2> QED BY <1>2, <1>4, <1>8, <2>2 DEF Extends
<1>10. Text(s) /\ Len(t) \in Nat /\ Len(s) = 6 + Len(t)
  <2>1. Len(t) \in Nat /\ Len(w) = 5 + Len(t) /\ Len(s) = Len(w) + 1 /\ Text(s)
    BY <1>2, <1>3, <1>4, <1>6, <1>8, TextFields DEF Extends
  <2> QED BY <2>1
<1>11. \A i \in 1 .. 5 : s[i] = p1[i]
  <2>1. \A i \in 1 .. 5 : s[0 + i] = p1[i]
    BY <1>2, <1>9 DEF Stands
  <2> QED BY <2>1
<1>12. \A i \in 1 .. Len(t) : s[5 + i] = t[i]
  BY <1>9 DEF Stands
<1>13. FindKey(s, "payload") = 6
  <2>1. PICK p \in 1 .. Len(s) : p = 5
    BY <1>10
  <2>2. s[p] = Key("payload") /\ \A i \in 1 .. p - 1 : s[i] # Key("payload")
    BY <1>2, <1>11, <2>1
  <2>3. FindKey(s, "payload") = p + 1
    BY <1>10, <2>2, FirstKey
  <2> QED BY <2>1, <2>3
<1>14. GetNumber(s, "type") = type
  <2>1. PICK p \in 1 .. Len(s) : p = 2
    BY <1>10
  <2>2. s[p] = Key("type") /\ \A i \in 1 .. p - 1 : s[i] # Key("type")
    BY <1>2, <1>11, <2>1
  <2>3. FindKey(s, "type") = p + 1
    BY <1>10, <2>2, FirstKey
  <2>4. FindKey(s, "type") = 3 /\ At(s, 3) = Number(type)
    BY <1>2, <1>10, <1>11, <2>1, <2>3, AtIs
  <2> QED BY <2>4, Kinds DEF GetNumber
<1> QED BY <1>1, <1>5, <1>7, <1>8, <1>10, <1>12, <1>13, <1>14

\* protocol_parse_msg takes a beginning of the payload, and perhaps the brace
\* behind it.
LEMMA PayloadCut ==
    ASSUME NEW H, NEW t, Sane(t, H), NEW type
    PROVE  /\ CutFrom(ParsePayload(SerializeMsg(type, t)), SerializeMsg(type, t))
           /\ \A i \in 1 .. Len(ParsePayload(SerializeMsg(type, t))) :
                 i <= Len(t) => ParsePayload(SerializeMsg(type, t))[i] = t[i]
<1>1. PICK line : line = SerializeMsg(type, t)
  OBVIOUS
<1>2. /\ Text(line) /\ FindKey(line, "payload") = 6 /\ 6 + Len(t) = Len(line)
      /\ \A i \in 1 .. Len(t) : line[5 + i] = t[i]
  BY <1>1, LineIs DEF Sane
<1>3. Len(t) \in Nat /\ Len(line) \in Nat
  BY <1>2, TextFields DEF Sane
<1>4. PICK q \in 1 .. Len(line) : q = 6
  BY <1>2, <1>3
<1>5. PICK e \in q .. Len(line) : ParsePayload(line) = SubSeq(line, q, e)
  BY <1>2, <1>4, PayloadIs
<1>6. q \in Nat \ {0} /\ e \in Nat /\ e <= Len(line)
  BY <1>3, <1>4, <1>5
<1>7. PICK s : s = SubSeq(line, q, e)
  OBVIOUS
<1>8. CutFrom(s, line) /\ \A i \in 1 .. Len(s) : s[i] = line[q - 1 + i]
  BY <1>2, <1>6, <1>7, SubSeqCuts
<1>9. ASSUME NEW i \in 1 .. Len(s), i <= Len(t)
      PROVE  s[i] = t[i]
  <2>1. Len(s) \in Nat
    BY <1>8, TextFields DEF CutFrom
  <2>2. i \in 1 .. Len(t) /\ q - 1 + i = 5 + i
    BY <1>3, <1>4, <1>9, <2>1
  <2> QED BY <1>2, <1>8, <2>2
<1> QED BY <1>1, <1>5, <1>7, <1>8, <1>9

\* What protocol_deserialize_chain reads from the line with the chain: blocks
\* with hashes of the chain, and as the first one the first of the chain.
LEMMA ChainRead ==
    ASSUME DigestsApart, NEW c, Made(c), NEW s,
           s = ParsePayload(SerializeMsg(MSG_CHAIN_RESPONSE, SerializeChain(c))), ChainParses(s)
    PROVE  /\ Text(ParseChain(s))
           /\ \A i \in 1 .. Len(ParseChain(s)) :
                 /\ Block(ParseChain(s)[i])
                 /\ ParseChain(s)[i].hash \in Hashes(c) \cup {Unset}
           /\ Len(ParseChain(s)) # 0 => Alike(ParseChain(s)[1], c[1])
<1> DEFINE n == GetNumber(s, "length")
           texts == BlockTexts(s)
<1>1. PICK t, H : t = SerializeChain(c) /\ H = Hashes(c)
  OBVIOUS
<1>2. PICK type, line : type = MSG_CHAIN_RESPONSE /\ line = SerializeMsg(type, t)
  OBVIOUS
<1>3. Sane(t, H)
  BY <1>1, ChainWritten
<1>4. Len(t) \in Nat /\ 28 <= Len(t)
  <2>1. 28 <= Len(t) /\ Text(t)
    BY <1>1, <1>3, ChainWritten DEF Sane
  <2> QED BY <2>1, TextFields
<1>5. \A i \in 1 .. 4 : t[i] # Key("blocks")
  BY <1>1, ChainWritten
<1>6. t[5] = Key("blocks") /\ t[6] = OpenList
  BY <1>1, ChainWritten
<1>7. \A i \in 1 .. 22 : t[6 + i] = Header(Genesis)[i]
  BY <1>1, ChainWritten
<1>8. Sane(line, H) /\ Text(line)
  BY <1>2, <1>3, LineIs DEF Sane
<1>9. CutFrom(s, line) /\ \A i \in 1 .. Len(s) : i <= Len(t) => s[i] = t[i]
  <2>1. s = ParsePayload(SerializeMsg(type, t))
    BY <1>1, <1>2
  <2>2. /\ CutFrom(ParsePayload(SerializeMsg(type, t)), SerializeMsg(type, t))
        /\ \A i \in 1 .. Len(ParsePayload(SerializeMsg(type, t))) :
              i <= Len(t) => ParsePayload(SerializeMsg(type, t))[i] = t[i]
    BY <1>3, PayloadCut
  <2> QED BY <1>2, <2>1, <2>2
<1>10. Text(s) /\ Len(s) \in Nat
  BY <1>9, TextFields DEF CutFrom
<1>11. ASSUME NEW i \in 1 .. 28, i <= Len(s)
       PROVE  s[i] = t[i]
  <2>1. i \in 1 .. Len(s) /\ i <= Len(t)
    BY <1>4, <1>10, <1>11
  <2> QED BY <1>9, <2>1
<1>12. n \in Nat /\ n # 0
  BY CapacityAssumption DEF ChainParses
<1>13. FindKey(s, "blocks") # 0 /\ At(s, FindKey(s, "blocks")) = OpenList
  BY DEF ChainParses
<1>14. \A i \in DOMAIN texts : BlockParses(texts[i])
  BY DEF ChainParses
<1>15. 6 <= Len(s) /\ FindKey(s, "blocks") = 6
  <2>1. PICK q \in 1 .. Len(s) : s[q] = Key("blocks")
    BY <1>10, <1>13, KeyFound
  <2>2. ~ (q \in 1 .. 4)
    <3>1. q \in 1 .. 4 => q \in 1 .. 28 /\ q <= Len(s)
      BY <1>10
    <3> QED BY <1>5, <1>11, <2>1, <3>1
  <2>3. 5 <= Len(s)
    BY <1>10, <2>1, <2>2
  <2>4. PICK p \in 1 .. Len(s) : p = 5
    BY <1>10, <2>3
  <2>5. s[p] = Key("blocks") /\ \A i \in 1 .. p - 1 : s[i] # Key("blocks")
    <3>1. s[5] = t[5]
      BY <1>11, <2>3
    <3>2. \A i \in 1 .. p - 1 : i \in 1 .. 4 /\ i \in 1 .. 28 /\ i <= Len(s)
      BY <1>10, <2>3, <2>4
    <3>3. \A i \in 1 .. p - 1 : s[i] # Key("blocks")
      BY <1>5, <1>11, <3>2
    <3> QED BY <1>6, <2>4, <3>1, <3>3
  <2>6. FindKey(s, "blocks") = p + 1
    BY <1>10, <2>5, FirstKey
  <2>7. FindKey(s, "blocks") = 6
    BY <2>4, <2>6
  <2>8. ~ (6 <= Len(s)) => At(s, 6) = NUL
    BY <1>10, AtIs
  <2>9. NUL # OpenList
    BY DEF NUL, OpenList, Char
  <2> QED BY <1>13, <2>7, <2>8, <2>9
<1>16. texts = Elements(s, 6, n)
  BY <1>15 DEF BlockTexts
<1> HIDE DEF n, texts
<1>17. /\ Text(texts) /\ \A i \in 1 .. Len(texts) : CutFrom(texts[i], s)
       /\ Len(texts) # 0 => 6 + 1 <= Len(s)
  BY <1>10, <1>12, <1>16, ElementsAre
<1>18. Len(texts) \in Nat /\ DOMAIN texts = 1 .. Len(texts)
  BY <1>17, TextFields
<1>19. ASSUME NEW i \in 1 .. Len(texts)
       PROVE  /\ Block(ParseBlock(texts[i]))
              /\ ParseBlock(texts[i]).hash \in H \cup {Unset}
  <2>1. CutFrom(texts[i], line)
    BY <1>8, <1>9, <1>17, CutOfCut
  <2> QED BY <1>8, <2>1, ParsedIs
<1>20. PICK o : o = ParseChain(s)
  OBVIOUS
<1>21. o = [i \in 1 .. Len(texts) |-> ParseBlock(texts[i])]
  BY <1>18, <1>20 DEF ParseChain, texts
<1>22. Text(o) /\ Len(o) = Len(texts) /\ \A i \in 1 .. Len(texts) : o[i] = ParseBlock(texts[i])
  <2>1. PICK k : k = Len(texts)
    OBVIOUS
  <2>2. PICK S : S = {ParseBlock(texts[i]) : i \in 1 .. k}
    OBVIOUS
  <2>3. \A i \in 1 .. k : ParseBlock(texts[i]) \in S
    BY <2>2
  <2>4. o \in [1 .. k -> S]
    BY <1>21, <2>1, <2>3
  <2>5. Text(o) /\ Len(o) = k
    BY <1>18, <2>1, <2>4, TextOf
  <2> QED BY <1>21, <2>1, <2>5
<1>23. ASSUME Len(texts) # 0
       PROVE  Alike(ParseBlock(texts[1]), Genesis)
  <2>1. 7 <= Len(s)
    BY <1>10, <1>17, <1>23
  <2>2. s[6] = OpenList /\ s[7] = Open
    <3>1. s[6] = t[6] /\ s[7] = t[7]
      BY <1>10, <1>11, <2>1
    <3>2. t[6 + 1] = Header(Genesis)[1]
      BY <1>7
    <3>3. t[7] = Open
      BY <3>2, HeaderTokens
    <3> QED BY <1>6, <3>1, <3>3
  <2>3. PICK p \in Nat : p = 6
    OBVIOUS
  <2>4. p \in 1 .. Len(s) - 1 /\ s[p] = OpenList /\ s[p + 1] = Open
    BY <1>10, <2>1, <2>2, <2>3
  <2>5. PICK e \in p + 2 .. Len(s) + 1 : texts[1] = SubSeq(s, p + 1, e - 1)
    <3>1. n # 0 /\ p \in 1 .. Len(s) - 1 /\ s[p] = OpenList /\ s[p + 1] = Open =>
             \E e \in p + 2 .. Len(s) + 1 : Elements(s, p, n)[1] = SubSeq(s, p + 1, e - 1)
      BY <1>10, <1>12, <2>3, ElementsAre
    <3>2. texts = Elements(s, p, n)
      BY <1>16, <2>3
    <3> QED BY <1>12, <2>4, <3>1, <3>2
  <2>6. PICK a, b : a = p + 1 /\ b = e - 1
    OBVIOUS
  <2>7. a \in Nat \ {0} /\ b \in Nat /\ b <= Len(s) /\ a = 7 /\ a - 1 = 6
    BY <1>10, <2>3, <2>6
  <2>8. PICK u : u = texts[1]
    OBVIOUS
  <2>9. u = SubSeq(s, a, b)
    BY <2>5, <2>6, <2>8
  <2>10. /\ CutFrom(SubSeq(s, a, b), s)
         /\ Len(SubSeq(s, a, b)) = IF a <= b THEN b - a + 1 ELSE 0
         /\ \A i \in 1 .. Len(SubSeq(s, a, b)) : SubSeq(s, a, b)[i] = s[a - 1 + i]
    BY <1>10, <2>7, SubSeqCuts
  <2>11. CutFrom(u, s) /\ \A i \in 1 .. Len(u) : u[i] = s[6 + i]
    BY <2>7, <2>9, <2>10
  <2>12. Text(u) /\ Len(u) \in Nat
    BY <2>11, TextFields DEF CutFrom
  <2>13. 6 + Len(u) <= Len(s)
    <3>1. Len(u) = IF a <= b THEN b - a + 1 ELSE 0
      BY <2>9, <2>10
    <3> QED BY <1>10, <2>1, <2>7, <3>1
  <2>14. HeadOf(u, Genesis)
    <3> SUFFICES ASSUME NEW i \in 1 .. 22, i <= Len(u)
                 PROVE  u[i] = Header(Genesis)[i]
      BY DEF HeadOf
    <3>1. PICK j : j = 6 + i
      OBVIOUS
    <3>2. i \in 1 .. Len(u) /\ j \in 1 .. 28 /\ j <= Len(s)
      BY <1>10, <2>12, <2>13, <3>1
    <3>3. u[i] = s[j] /\ s[j] = t[j]
      BY <1>11, <2>11, <3>1, <3>2
    <3>4. t[j] = Header(Genesis)[i]
      BY <1>7, <3>1
    <3> QED BY <3>3, <3>4
  <2>15. BlockParses(u)
    BY <1>14, <1>18, <1>23, <2>8
  <2>16. Len(Genesis.transactions) = 0
    BY DEF Genesis, BlockMine
  <2>17. Alike(ParseBlock(u), Genesis)
    BY <2>12, <2>14, <2>15, <2>16, HeadParsed
  <2> QED BY <2>8, <2>17
<1>24. Len(texts) # 0 => Alike(o[1], c[1])
  <2>1. Len(texts) # 0 => 1 \in 1 .. Len(texts)
    BY <1>18
  <2> QED BY <1>22, <1>23, <2>1 DEF Made
<1>25. \A i \in 1 .. Len(o) : Block(o[i]) /\ o[i].hash \in H \cup {Unset}
  BY <1>19, <1>22
<1> QED BY <1>1, <1>20, <1>22, <1>24, <1>25

-----------------------------------------------------------------------------
(* What is typed and what is collected *)

\* Addresses, signatures and what a user types have no key in them.
LEMMA TypedWords ==
    /\ \A a \in Receivers \cup {Payer, COINBASE_ADDR} : Typed(a)
    /\ \A a, h : Typed(Signature(a, h))
<1>1. ASSUME NEW a \in Receivers \cup {Payer, COINBASE_ADDR}
      PROVE  Typed(a)
  <2>1. Text(a)
    BY TypedAssumption DEF Text
  <2>2. DOMAIN a = 1 .. Len(a)
    BY <2>1, TextFields
  <2> QED BY <2>1, <2>2, TypedAssumption DEF Typed
<1>2. ASSUME NEW a, NEW h
      PROVE  Typed(Signature(a, h))
  <2>1. PICK r : r = [by |-> a, of |-> h]
    OBVIOUS
  <2>2. PICK w : w = Word(r)
    OBVIOUS
  <2>3. w[1] # "key"
    BY <2>2, Kinds
  <2>4. PICK s : s = <<w>>
    OBVIOUS
  <2>5. s \in Seq({w}) /\ Len(s) = 1 /\ s[1] = w
    BY <2>4
  <2>6. Text(s)
    BY <2>5, TextIs
  <2>7. Typed(s)
    BY <2>3, <2>5, <2>6 DEF Typed
  <2> QED BY <2>1, <2>2, <2>4, <2>7 DEF Signature
<1> QED BY <1>1, <1>2

\* So have the transactions of the payer.
LEMMA TypedTransactions ==
    /\ \A r \in Receivers : TypedTx(SignTx(Payer, TxCreate(Payer, r, Amount, Fee)))
    /\ \A fees : TypedTx(SignedCoinbase(Payer, fees))
<1>1. ASSUME NEW r \in Receivers
      PROVE  TypedTx(SignTx(Payer, TxCreate(Payer, r, Amount, Fee)))
  <2>1. PICK t : t = TxCreate(Payer, r, Amount, Fee)
    OBVIOUS
  <2>2. t.sender = Payer /\ t.receiver = r
    BY <2>1 DEF TxCreate
  <2>3. PICK u : u = SignTx(Payer, t)
    OBVIOUS
  <2>4. u.sender = Payer /\ u.receiver = r /\ u.signature = Signature(Payer, t.tx_hash)
    BY <2>2, <2>3 DEF SignTx, WithSignature
  <2>5. TypedTx(u)
    BY <2>4, TypedWords DEF TypedTx
  <2> QED BY <2>1, <2>3, <2>5
<1>2. ASSUME NEW fees
      PROVE  TypedTx(SignedCoinbase(Payer, fees))
  <2>1. PICK t : t = Coinbase(Payer, fees)
    OBVIOUS
  <2>2. t.sender = COINBASE_ADDR /\ t.receiver = Payer
    BY <2>1 DEF Coinbase, TxCreate
  <2>3. PICK u : u = SignedCoinbase(Payer, fees)
    OBVIOUS
  <2>4. u.sender = COINBASE_ADDR /\ u.receiver = Payer /\ u.signature = COINBASE_ADDR
    BY <2>1, <2>2, <2>3 DEF SignedCoinbase, WithSignature
  <2>5. TypedTx(u)
    BY <2>4, TypedWords DEF TypedTx
  <2> QED BY <2>3, <2>5
<1> QED BY <1>1, <1>2

\* A list of transactions with strings as the program makes them.
TypedTxs(s) == Text(s) /\ \A i \in 1 .. Len(s) : TypedTx(s[i])

\* What do_mine collects comes from the mempool.
LEMMA CollectedTyped ==
    ASSUME TypedTxs(mempool)
    PROVE  TypedTxs(Collected)
<1> DEFINE n == Len(mempool)
           T == Range(mempool)
           V == Seq(T)
           fits(v, t) == Len(v) < MAX_TX_PER_BLOCK - 1 /\ CanAfford(chain, t)
           Next1(v, t) == IF fits(v, t) THEN Append(v, t) ELSE v
           g == [i \in 1 .. n |-> [v \in V |-> Next1(v, mempool[i])]]
           Step(it) == [s \in SUBSET (1 .. n) |->
                           IF s = {} THEN << >> ELSE Next1(it[s \ {Max(s)}], mempool[Max(s)])]
           iter == CHOOSE it : it = Step(it)
<1>1. n \in Nat /\ DOMAIN mempool = 1 .. n /\ \A i \in 1 .. n : mempool[i] \in T
  BY TextFields DEF TypedTxs
<1>2. Collected = iter[1 .. n]
  <2>1. Collected = (CHOOSE it : it = [s \in SUBSET (DOMAIN mempool) |->
                           IF s = {} THEN << >>
                           ELSE Next1(it[s \ {Max(s)}], mempool[Max(s)])])[DOMAIN mempool]
    BY Zenon DEF Collected, FoldLeft, MapThenFoldSet
  <2>2. DOMAIN mempool = 1 .. n
    BY <1>1
  <2> HIDE DEF n, Next1
  <2> QED BY <2>1, <2>2, Zenon
<1>3. ASSUME NEW v \in V, NEW t \in T
      PROVE  Next1(v, t) \in V
  <2>1. Append(v, t) \in V
    <3> HIDE DEF T
    <3> QED BY AppendProperties
  <2> HIDE DEF V
  <2> QED BY <2>1
<1>4. << >> \in V
  BY EmptySeq
<1> HIDE DEF V, T, Next1
<1>5. g \in [1 .. n -> [V -> V]] /\ \A i \in 1 .. n, v \in V : g[i][v] = Next1(v, mempool[i])
  BY <1>1, <1>3
<1> HIDE DEF n, g
<1>6. PICK f \in [SUBSET (1 .. n) -> V] : FoldsTo(n, << >>, g, f)
  <2>1. PICK base : base = << >>
    OBVIOUS
  <2>2. base \in V
    BY <1>4, <2>1
  <2>3. \E f \in [SUBSET (1 .. n) -> V] : FoldsTo(n, base, g, f)
    BY <1>1, <1>5, <2>2, FoldExists
  <2> QED BY <2>1, <2>3
<1>7. f = Step(f)
  <2>1. ASSUME NEW s \in SUBSET (1 .. n)
        PROVE  f[s] = IF s = {} THEN << >>
                      ELSE Next1(f[s \ {Max(s)}], mempool[Max(s)])
    <3>1. CASE s = {}
      BY <1>6, <3>1 DEF FoldsTo
    <3>2. CASE s # {}
      <4>1. Max(s) \in 1 .. n
        <5>1. s \subseteq 0 .. n
          BY <1>1
        <5> QED BY <1>1, <3>2, <5>1, MaxProperties
      <4>2. f[s \ {Max(s)}] \in V
        BY <1>6
      <4>3. f[s] = g[Max(s)][f[s \ {Max(s)}]]
        BY <1>6, <3>2 DEF FoldsTo
      <4> QED BY <1>5, <3>2, <4>1, <4>2, <4>3
    <3> QED BY <3>1, <3>2
  <2> QED BY <1>6, <2>1
<1>8. iter = Step(iter)
  BY <1>7
<1> HIDE DEF iter
<1>9. iter[{}] = << >>
  BY <1>8
<1>10. ASSUME NEW k \in 1 .. n, iter[1 .. k - 1] \in V
       PROVE  iter[1 .. k] = g[k][iter[1 .. k - 1]]
  <2>1. iter[1 .. k] = IF 1 .. k = {} THEN << >>
                       ELSE Next1(iter[(1 .. k) \ {Max(1 .. k)}], mempool[Max(1 .. k)])
    BY <1>1, <1>8, Segments
  <2>2. iter[1 .. k] = Next1(iter[1 .. k - 1], mempool[k])
    BY <1>1, <2>1, Segments
  <2> QED BY <1>5, <1>10, <2>2
<1>11. iter[1 .. n] \in V
  <2>1. PICK start : start = << >>
    OBVIOUS
  <2>2. /\ GoesBy(n, V, g, iter) /\ g \in [1 .. n -> [V -> V]]
        /\ start \in V /\ iter[{}] = start /\ n \in Nat
    BY <1>1, <1>4, <1>5, <1>9, <1>10, <2>1 DEF GoesBy
  <2>3. PICK r \in [0 .. n -> V] : Runs(n, start, g, r) /\ r[n] = iter[1 .. n]
    BY <2>2, FoldRuns
  <2>4. n \in 0 .. n
    BY <1>1
  <2> QED BY <2>3, <2>4
<1>12. PICK s : s = Collected
  OBVIOUS
<1>13. s \in Seq(T)
  BY <1>2, <1>11, <1>12 DEF V
<1>14. \A t \in T : TypedTx(t)
  <2>1. \A t \in T : \E i \in 1 .. n : t = mempool[i]
    BY <1>1 DEF T, Range
  <2> QED BY <2>1 DEF TypedTxs, n
<1>15. Text(s) /\ \A i \in 1 .. Len(s) : s[i] \in T
  BY <1>13, TextIs, ElementOfSeq
<1> QED BY <1>12, <1>14, <1>15 DEF TypedTxs

-----------------------------------------------------------------------------
(* The invariant *)

\* The messages that are on their way: of blocks and chains only those of c.
Sent(msg, c) ==
    \/ \E i \in 1 .. Len(c) : msg = NewBlock(c[i])
    \/ msg.type = MSG_NEW_TX /\ TypedTx(msg.tx) /\ msg = NewTx(msg.tx)
    \/ msg = RequestChain
    \/ msg = ChainResponse(c)

\* The line carries such a message.
Carries(w, c) == w = Quiet \/ (Sent(w.means, c) /\ w = OnWire(w.means))

GenuineInv ==
    /\ Made(chain)
    /\ TypedTxs(mempool)
    /\ Copied(copy, chain)
    /\ Carries(wire, chain)

\* The messages have four types.
LEMMA MessageTypes ==
    /\ \A b : NewBlock(b).type = 0 /\ NewBlock(b).block = b
    /\ \A t : NewTx(t).type = 1 /\ NewTx(t).tx = t
    /\ RequestChain.type = 2
    /\ \A c : ChainResponse(c).type = 3 /\ ChainResponse(c).chain = c
BY DEF NewBlock, NewTx, RequestChain, ChainResponse, MSG_NEW_BLOCK, MSG_NEW_TX,
       MSG_REQUEST_CHAIN, MSG_CHAIN_RESPONSE

\* Whatever is sent, its line has keys only where the program writes them.
LEMMA PayloadSane ==
    ASSUME DigestsApart, NEW c, Made(c), NEW msg, Sent(msg, c)
    PROVE  /\ Sane(Payload(msg), Hashes(c))
           /\ msg.type = MSG_CHAIN_RESPONSE =>
                 msg = ChainResponse(c) /\ Payload(msg) = SerializeChain(c)
<1> DEFINE H == Hashes(c)
<1>1. CASE \E i \in 1 .. Len(c) : msg = NewBlock(c[i])
  <2>1. PICK i \in 1 .. Len(c) : msg = NewBlock(c[i])
    BY <1>1
  <2>2. msg.type = 0 /\ msg.block = c[i]
    BY <2>1, MessageTypes
  <2>3. Payload(msg) = SerializeBlock(c[i])
    BY <2>2 DEF Payload, MSG_NEW_BLOCK, MSG_NEW_TX, MSG_REQUEST_CHAIN, MSG_CHAIN_RESPONSE
  <2>4. PICK b : b = c[i]
    OBVIOUS
  <2>5. Serializable(b, H)
    BY <2>4, MadeSerializable
  <2>6. Sane(SerializeBlock(b), H)
    BY <2>5, BlockSane
  <2> QED BY <2>2, <2>3, <2>4, <2>6 DEF MSG_CHAIN_RESPONSE
<1>2. CASE msg.type = MSG_NEW_TX /\ TypedTx(msg.tx) /\ msg = NewTx(msg.tx)
  <2>1. msg.type = 1
    BY <1>2 DEF MSG_NEW_TX
  <2>2. Payload(msg) = SerializeTx(msg.tx)
    BY <2>1 DEF Payload, MSG_NEW_BLOCK, MSG_NEW_TX, MSG_REQUEST_CHAIN, MSG_CHAIN_RESPONSE
  <2>3. PICK t : t = msg.tx
    OBVIOUS
  <2>4. Sane(SerializeTx(t), H)
    BY <1>2, <2>3, TxSane
  <2> QED BY <2>1, <2>2, <2>3, <2>4 DEF MSG_CHAIN_RESPONSE
<1>3. CASE msg = RequestChain
  <2>1. msg.type = 2
    BY <1>3, MessageTypes
  <2>2. Payload(msg) = <<Open, Close>>
    BY <2>1 DEF Payload, MSG_NEW_BLOCK, MSG_NEW_TX, MSG_REQUEST_CHAIN, MSG_CHAIN_RESPONSE
  <2>3. PICK o, e : o = Open /\ e = Close
    OBVIOUS
  <2>4. Sane(<<o, e>>, H)
    BY <2>3, Others, SaneTwo
  <2> QED BY <2>1, <2>2, <2>3, <2>4 DEF MSG_CHAIN_RESPONSE
<1>4. CASE msg = ChainResponse(c)
  <2>1. msg.type = 3 /\ msg.chain = c
    BY <1>4, MessageTypes
  <2>2. Payload(msg) = SerializeChain(c)
    BY <2>1 DEF Payload, MSG_NEW_BLOCK, MSG_NEW_TX, MSG_REQUEST_CHAIN, MSG_CHAIN_RESPONSE
  <2> QED BY <1>4, <2>2, ChainWritten
<1> QED BY <1>1, <1>2, <1>3, <1>4 DEF Sent

\* The line that is read, and the payload cut from it.
LEMMA LineRead ==
    ASSUME DigestsApart, NEW c, Made(c), NEW w, Carries(w, c), w # Quiet
    PROVE  /\ Sane(w.line, Hashes(c)) /\ CutFrom(ParsePayload(w.line), w.line)
           /\ GetNumber(w.line, "type") = w.means.type
           /\ GetNumber(w.line, "type") = MSG_CHAIN_RESPONSE =>
                 w.line = SerializeMsg(MSG_CHAIN_RESPONSE, SerializeChain(c))
<1>1. PICK msg, H : msg = w.means /\ H = Hashes(c)
  OBVIOUS
<1>2. Sent(msg, c) /\ w = OnWire(msg)
  BY <1>1 DEF Carries
<1>3. PICK type, t : type = msg.type /\ t = Payload(msg)
  OBVIOUS
<1>4. Sane(t, H)
  BY <1>1, <1>2, <1>3, PayloadSane
<1>5. w.line = SerializeMsg(type, t)
  BY <1>2, <1>3 DEF OnWire
<1>6. Sane(w.line, H) /\ GetNumber(w.line, "type") = type
  BY <1>4, <1>5, LineIs
<1>7. CutFrom(ParsePayload(w.line), w.line)
  BY <1>4, <1>5, PayloadCut
<1>8. type = MSG_CHAIN_RESPONSE => t = SerializeChain(c)
  BY <1>2, <1>3, PayloadSane
<1> QED BY <1>1, <1>3, <1>5, <1>6, <1>7, <1>8

\* block_mine settles nonce and hash, and leaves the rest of the block alone.
LEMMA MinedFields ==
    ASSUME NEW i, NEW t, NEW x, Text(x), NEW h, NEW b,
           b = BlockMine([index |-> i, timestamp |-> t, transactions |-> x,
                          prev_hash |-> h, nonce |-> 0, hash |-> Unset])
    PROVE  /\ Block(b) /\ b.index = i /\ b.transactions = x /\ b.prev_hash = h
           /\ b.hash = BlockHash(b)
<1> DEFINE raw == [index |-> i, timestamp |-> t, transactions |-> x,
                   prev_hash |-> h, nonce |-> 0, hash |-> Unset]
<1>1. PICK k : k = Min(WinningNonces(raw))
  OBVIOUS
<1>2. PICK m : m = [index |-> i, timestamp |-> t, transactions |-> x,
                    prev_hash |-> h, nonce |-> k, hash |-> Unset]
  OBVIOUS
<1>3. PICK d : d = BlockHash(m)
  OBVIOUS
<1>4. m = [raw EXCEPT !.nonce = k]
  BY <1>2
<1>5. b = [m EXCEPT !.hash = d]
  BY <1>1, <1>3, <1>4 DEF BlockMine
<1>6. b = [index |-> i, timestamp |-> t, transactions |-> x,
           prev_hash |-> h, nonce |-> k, hash |-> d]
  BY <1>2, <1>5
<1>7. /\ b.index = i /\ b.timestamp = t /\ b.transactions = x /\ b.prev_hash = h
      /\ b.nonce = k /\ b.hash = d
  BY <1>6
<1>8. /\ m.index = i /\ m.timestamp = t /\ m.transactions = x /\ m.prev_hash = h
      /\ m.nonce = k
  BY <1>2
<1>9. BlockHash(b) = BlockHash(m)
  BY <1>7, <1>8 DEF BlockHash
<1>10. Block(b)
  BY <1>6, <1>7 DEF Block
<1> QED BY <1>3, <1>7, <1>9, <1>10

\* The last block of the payer's chain.
LEMMA LastMade ==
    ASSUME NEW c, Made(c)
    PROVE  /\ Len(c) \in Nat \ {0} /\ c \in Seq(Range(c)) /\ Last(c) = c[Len(c)]
           /\ Last(c).index + 1 = Len(c)
<1>1. Len(c) \in Nat \ {0} /\ c \in Seq(Range(c))
  BY TextFields DEF Made, Text
<1>2. Last(c) = c[Len(c)]
  BY DEF Last
<1>3. Len(c) \in 1 .. Len(c)
  BY <1>1
<1>4. c[Len(c)].index = Len(c) - 1
  BY <1>3 DEF Made
<1> QED BY <1>1, <1>2, <1>4

\* A block with the next number and the right link makes the chain longer.
LEMMA MadeGrows ==
    ASSUME NEW c, Made(c), NEW b, Block(b), b.index = Len(c), b.prev_hash = Last(c).hash,
           b.hash = BlockHash(b), TypedTxs(b.transactions)
    PROVE  /\ Made(Append(c, b)) /\ Len(Append(c, b)) = Len(c) + 1
           /\ Append(c, b)[Len(c) + 1] = b
           /\ \A s : Copied(s, c) => Copied(s, Append(c, b))
<1>1. /\ Len(c) \in Nat \ {0} /\ c \in Seq(Range(c)) /\ Last(c) = c[Len(c)]
  BY LastMade
<1>2. PICK u : u = Append(c, b)
  OBVIOUS
<1>3. /\ u \in Seq(Range(u)) /\ Len(u) = Len(c) + 1
      /\ \A i \in 1 .. Len(c) : u[i] = c[i]
      /\ u[Len(c) + 1] = b
  BY <1>1, <1>2, AppendChain, AppendProperties
<1>4. \A i \in 1 .. Len(u) : i \in 1 .. Len(c) \/ i = Len(c) + 1
  BY <1>1, <1>3
<1>5. ASSUME NEW i \in 1 .. Len(u)
      PROVE  /\ Block(u[i]) /\ u[i].index = i - 1 /\ u[i].hash = BlockHash(u[i])
             /\ \A k \in 1 .. Len(u[i].transactions) : TypedTx(u[i].transactions[k])
  <2>1. CASE i \in 1 .. Len(c)
    <3>1. u[i] = c[i]
      BY <1>3, <2>1
    <3> QED BY <2>1, <3>1 DEF Made
  <2>2. CASE i = Len(c) + 1
    <3>1. u[i] = b /\ i - 1 = Len(c)
      BY <1>1, <1>3, <2>2
    <3> QED BY <3>1 DEF TypedTxs
  <2> QED BY <1>4, <2>1, <2>2
<1>6. ASSUME NEW i \in 2 .. Len(u)
      PROVE  u[i].prev_hash = u[i - 1].hash
  <2>1. PICK l : l = i - 1
    OBVIOUS
  <2>2. l \in 1 .. Len(c) /\ i \in 1 .. Len(u)
    BY <1>1, <1>3, <2>1
  <2>3. u[l] = c[l]
    BY <1>3, <2>2
  <2>4. CASE i \in 1 .. Len(c)
    <3>1. i \in 2 .. Len(c)
      BY <1>1, <2>4
    <3>2. u[i] = c[i] /\ c[i].prev_hash = c[i - 1].hash
      BY <1>3, <2>4, <3>1 DEF Made
    <3> QED BY <2>1, <2>3, <3>2
  <2>5. CASE i = Len(c) + 1
    <3>1. l = Len(c) /\ u[i] = b
      BY <1>1, <1>3, <2>1, <2>5
    <3> QED BY <1>1, <2>1, <2>3, <3>1
  <2> QED BY <1>4, <2>2, <2>4, <2>5
<1>7. Made(u)
  <2>1. 1 \in 1 .. Len(c)
    BY <1>1
  <2>2. u[1] = Genesis /\ Text(u) /\ Len(u) # 0
    BY <1>1, <1>3, <2>1 DEF Made, Text
  <2> QED BY <1>5, <1>6, <2>2 DEF Made
<1>8. ASSUME NEW s, Copied(s, c)
      PROVE  Copied(s, u)
  <2>1. Text(s) /\ Len(s) \in 1 .. Len(c)
    BY <1>8 DEF Copied
  <2>2. Len(s) \in 1 .. Len(u) /\ \A i \in 1 .. Len(s) : i \in 1 .. Len(c)
    BY <1>1, <1>3, <2>1
  <2>3. \A i \in 1 .. Len(s) : u[i] = c[i]
    BY <1>3, <2>2
  <2> QED BY <1>8, <2>1, <2>2, <2>3 DEF Copied
<1> QED BY <1>2, <1>3, <1>7, <1>8

\* No transactions.
LEMMA NoneTyped == TypedTxs(<< >>)
<1>1. PICK s : s = << >>
  OBVIOUS
<1>2. s \in Seq({}) /\ Len(s) = 0
  BY <1>1
<1>3. Text(s)
  BY <1>2, TextIs
<1>4. TypedTxs(s)
  BY <1>2, <1>3 DEF TypedTxs
<1> QED BY <1>1, <1>4

\* The chain with the payer's first block, and the peer's chain.
LEMMA GenuineInit ==
    ASSUME Init
    PROVE  GenuineInv
<1>1. PICK g, r : g = Genesis /\ r = Reward
  OBVIOUS
<1>2. /\ Block(g) /\ g.index = 0 /\ g.transactions = << >> /\ g.hash = BlockHash(g)
  <2>1. PICK x : x = << >>
    OBVIOUS
  <2>2. Text(x)
    BY <2>1, EmptySeq, TextIs
  <2>3. g = BlockMine([index |-> 0, timestamp |-> GENESIS_TIME, transactions |-> x,
                       prev_hash |-> ZeroHash, nonce |-> 0, hash |-> Unset])
    BY <1>1, <2>1 DEF Genesis
  <2> QED BY <2>1, <2>2, <2>3, MinedFields
<1>3. PICK c : c = <<g>>
  OBVIOUS
<1>4. c \in Seq({g}) /\ Len(c) = 1 /\ c[1] = g
  BY <1>3
<1>5. Text(c)
  BY <1>4, TextIs
<1>6. Made(c)
  <2>1. \A i \in 1 .. Len(c) : i - 1 = 0 /\ c[i] = g
    BY <1>4
  <2>2. Len(g.transactions) = 0
    BY <1>2
  <2> QED BY <1>1, <1>2, <1>4, <1>5, <2>1, <2>2 DEF Made
<1>7. Copied(c, c)
  <2>1. \A i \in 1 .. Len(c) : Block(c[i])
    BY <1>6 DEF Made
  <2>2. \A b : Alike(b, b)
    BY DEF Alike
  <2> QED BY <1>4, <1>5, <2>1, <2>2 DEF Copied
<1>8. Made(Append(c, r)) /\ Copied(c, Append(c, r))
  <2>1. PICK x : x = <<SignedCoinbase(Payer, 0)>>
    OBVIOUS
  <2>2. TypedTxs(x)
    <3>1. PICK t : t = SignedCoinbase(Payer, 0)
      OBVIOUS
    <3>2. x \in Seq({t}) /\ Len(x) = 1 /\ x[1] = t
      BY <2>1, <3>1
    <3>3. Text(x)
      BY <3>2, TextIs
    <3>4. TypedTx(t)
      BY <3>1, TypedTransactions
    <3>5. \A i \in 1 .. Len(x) : x[i] = t
      BY <3>2
    <3> QED BY <3>3, <3>4, <3>5 DEF TypedTxs
  <2>3. r = BlockMine([index |-> 1, timestamp |-> Min(Times), transactions |-> x,
                       prev_hash |-> g.hash, nonce |-> 0, hash |-> Unset])
    BY <1>1, <2>1 DEF Reward
  <2>4. Text(x)
    BY <2>2 DEF TypedTxs
  <2>5. /\ Block(r) /\ r.index = 1 /\ r.transactions = x /\ r.prev_hash = g.hash
        /\ r.hash = BlockHash(r)
    BY <2>3, <2>4, MinedFields
  <2>6. Last(c) = g
    BY <1>4 DEF Last
  <2> QED BY <1>4, <1>6, <1>7, <2>2, <2>5, <2>6, MadeGrows
<1>9. chain = Append(c, r) /\ copy = c
  <2>1. PICK u, v : u = Append(c, r) /\ v = <<g, r>>
    OBVIOUS
  <2>2. u \in Seq(Range(u)) /\ Len(u) = 2 /\ u[1] = g /\ u[2] = r
    <3>1. /\ u \in Seq(Range(u)) /\ Len(u) = Len(c) + 1
          /\ \A i \in 1 .. Len(c) : u[i] = c[i]
          /\ u[Len(c) + 1] = r
      BY <1>4, <2>1, AppendChain, AppendProperties
    <3> QED BY <1>4, <3>1
  <2>3. v \in Seq({g, r}) /\ Len(v) = 2 /\ v[1] = g /\ v[2] = r
    BY <2>1
  <2>4. Text(u) /\ Text(v)
    BY <2>2, <2>3, TextIs
  <2>5. \A i \in 1 .. Len(u) : i = 1 \/ i = 2
    BY <2>2
  <2>6. u = v
    BY <2>2, <2>3, <2>4, <2>5, TextEqual
  <2> QED BY <1>1, <1>3, <2>1, <2>6 DEF Init, ChainInit
<1>10. TypedTxs(mempool)
  BY NoneTyped DEF Init
<1>11. Carries(wire, chain)
  BY DEF Init, Carries
<1> QED BY <1>8, <1>9, <1>10, <1>11 DEF GenuineInv

\* A line that is sent, heard or not.
LEMMA SentLine ==
    ASSUME NEW c, NEW msg, Sent(msg, c), NEW w, w = OnWire(msg) \/ w = Quiet
    PROVE  Carries(w, c)
<1>1. w = OnWire(msg) => w.means = msg
  BY DEF OnWire
<1> QED BY <1>1 DEF Carries

\* do_send.
LEMMA PaySteps ==
    ASSUME GenuineInv, NEW receiver \in Receivers, Pay(receiver)
    PROVE  GenuineInv'
<1>1. PICK t : t = SignTx(Payer, TxCreate(Payer, receiver, Amount, Fee))
  OBVIOUS
<1>2. /\ mempool' = Append(mempool, t) /\ chain' = chain /\ copy' = copy
      /\ (wire' = OnWire(NewTx(t)) \/ wire' = Quiet)
  BY <1>1 DEF Pay, Broadcast
<1>3. TypedTx(t)
  BY <1>1, TypedTransactions
<1>4. TypedTxs(mempool')
  <2>1. PICK m, u : m = mempool /\ u = Append(m, t)
    OBVIOUS
  <2>2. TypedTxs(m)
    BY <2>1 DEF GenuineInv
  <2>3. m \in Seq(Range(m)) /\ Len(m) \in Nat
    BY <2>2, TextFields DEF TypedTxs, Text
  <2>4. /\ u \in Seq(Range(u)) /\ Len(u) = Len(m) + 1
        /\ \A i \in 1 .. Len(m) : u[i] = m[i]
        /\ u[Len(m) + 1] = t
    BY <2>1, <2>3, AppendChain, AppendProperties
  <2>5. \A i \in 1 .. Len(u) : i \in 1 .. Len(m) \/ i = Len(m) + 1
    BY <2>3, <2>4
  <2>6. TypedTxs(u)
    BY <1>3, <2>2, <2>4, <2>5 DEF TypedTxs, Text
  <2> QED BY <1>2, <2>1, <2>6
<1>5. Carries(wire', chain)
  <2>1. PICK msg : msg = NewTx(t)
    OBVIOUS
  <2>2. Sent(msg, chain)
    BY <1>3, <2>1, MessageTypes DEF Sent, MSG_NEW_TX
  <2> QED BY <1>2, <2>1, <2>2, SentLine
<1> QED BY <1>2, <1>4, <1>5 DEF GenuineInv

\* do_mine.
LEMMA MineSteps ==
    ASSUME GenuineInv, NEW time, Mine(time)
    PROVE  GenuineInv'
<1>1. PICK taken, fees : /\ taken = Collected
                         /\ fees = FoldLeft(LAMBDA sum, t : sum + t.fee, 0, Collected)
  OBVIOUS
<1>2. PICK x : x = <<SignedCoinbase(Payer, fees)>> \o taken
  OBVIOUS
<1>3. PICK b : b = BlockMine([index |-> Last(chain).index + 1, timestamp |-> time,
                              transactions |-> x, prev_hash |-> Last(chain).hash,
                              nonce |-> 0, hash |-> Unset])
  OBVIOUS
<1>4. /\ chain' = Append(chain, b) /\ mempool' = << >> /\ copy' = copy
      /\ (wire' = OnWire(NewBlock(b)) \/ wire' = Quiet)
  BY <1>1, <1>2, <1>3 DEF Mine, Broadcast
<1>5. TypedTxs(x)
  <2>1. PICK t, s : t = SignedCoinbase(Payer, fees) /\ s = <<t>>
    OBVIOUS
  <2>2. s \in Seq({t}) /\ Len(s) = 1 /\ s[1] = t
    BY <2>1
  <2>3. Text(s) /\ TypedTx(t)
    BY <2>1, <2>2, TextIs, TypedTransactions
  <2>4. Text(taken) /\ \A i \in 1 .. Len(taken) : TypedTx(taken[i])
    BY <1>1, CollectedTyped DEF GenuineInv, TypedTxs
  <2>5. x = s \o taken
    BY <1>2, <2>1
  <2>6. /\ Text(x) /\ Len(x) = 1 + Len(taken)
        /\ x[1] = t
        /\ \A i \in 1 .. Len(taken) : x[1 + i] = taken[i]
    <3>1. 1 \in 1 .. Len(s)
      BY <2>2
    <3>2. /\ Text(x) /\ Len(x) = Len(s) + Len(taken)
          /\ \A i \in 1 .. Len(s) : x[i] = s[i]
          /\ \A i \in 1 .. Len(taken) : x[Len(s) + i] = taken[i]
      BY <2>3, <2>4, <2>5, TextJoined
    <3> QED BY <2>2, <3>1, <3>2
  <2>7. Len(taken) \in Nat
    BY <2>4, TextFields
  <2>8. ASSUME NEW i \in 1 .. Len(x)
        PROVE  TypedTx(x[i])
    <3>1. CASE i = 1
      BY <2>3, <2>6, <3>1
    <3>2. CASE i # 1
      <4>1. PICK k : k = i - 1
        OBVIOUS
      <4>2. k \in 1 .. Len(taken) /\ 1 + k = i
        BY <2>6, <2>7, <3>2, <4>1
      <4> QED BY <2>4, <2>6, <4>2
    <3> QED BY <3>1, <3>2
  <2> QED BY <2>6, <2>8 DEF TypedTxs
<1>6. /\ Block(b) /\ b.index = Len(chain) /\ b.transactions = x
      /\ b.prev_hash = Last(chain).hash /\ b.hash = BlockHash(b)
  <2>1. Text(x)
    BY <1>5 DEF TypedTxs
  <2>2. PICK n, h : n = Last(chain).index + 1 /\ h = Last(chain).hash
    OBVIOUS
  <2>3. n = Len(chain)
    BY <2>2, LastMade DEF GenuineInv
  <2>4. b = BlockMine([index |-> n, timestamp |-> time, transactions |-> x,
                       prev_hash |-> h, nonce |-> 0, hash |-> Unset])
    BY <1>3, <2>2
  <2>5. /\ Block(b) /\ b.index = n /\ b.transactions = x /\ b.prev_hash = h
        /\ b.hash = BlockHash(b)
    BY <2>1, <2>4, MinedFields
  <2> QED BY <2>2, <2>3, <2>5
<1>7. /\ Made(chain') /\ Len(chain') = Len(chain) + 1 /\ chain'[Len(chain) + 1] = b
      /\ Copied(copy, chain')
  BY <1>4, <1>5, <1>6, MadeGrows DEF GenuineInv
<1>8. Carries(wire', chain')
  <2>1. PICK c, msg : c = chain' /\ msg = NewBlock(b)
    OBVIOUS
  <2>2. PICK j : j = Len(chain) + 1
    OBVIOUS
  <2>3. j \in 1 .. Len(c) /\ c[j] = b
    <3>1. Len(chain) \in Nat
      BY LastMade DEF GenuineInv
    <3> QED BY <1>7, <2>1, <2>2, <3>1
  <2>4. Sent(msg, c)
    BY <2>1, <2>3 DEF Sent
  <2> QED BY <1>4, <2>1, <2>4, SentLine
<1>9. TypedTxs(mempool')
  BY <1>4, NoneTyped
<1> QED BY <1>4, <1>7, <1>8, <1>9 DEF GenuineInv

\* The request for the chain, and the answer.
LEMMA AskSteps ==
    ASSUME GenuineInv, Ask \/ HandleRequest
    PROVE  GenuineInv'
<1>1. PICK msg : wire' = OnWire(msg) /\ (msg = RequestChain \/ msg = ChainResponse(chain))
  BY DEF Ask, HandleRequest
<1>2. UNCHANGED <<chain, mempool, copy>>
  BY DEF Ask, HandleRequest
<1>3. Sent(msg, chain)
  BY <1>1 DEF Sent
<1>4. Carries(wire', chain)
  BY <1>1, <1>3, SentLine
<1> QED BY <1>2, <1>4 DEF GenuineInv

\* handle_message, case MSG_NEW_BLOCK.
LEMMA NewBlockSteps ==
    ASSUME DigestsApart, GenuineInv, HandleNewBlock
    PROVE  GenuineInv'
<1>1. PICK line, s : line = wire.line /\ s = ParsePayload(line)
  OBVIOUS
<1>2. /\ wire # Quiet /\ wire' = Quiet /\ UNCHANGED <<chain, mempool>>
      /\ copy' = IF BlockParses(s) THEN AddBlock(copy, ParseBlock(s)) ELSE copy
  BY <1>1 DEF HandleNewBlock, Reading
<1>3. PICK c, H : c = chain /\ H = Hashes(c)
  OBVIOUS
<1>4. Made(c) /\ Copied(copy, c) /\ Carries(wire, c)
  BY <1>3 DEF GenuineInv
<1>5. Sane(line, H) /\ CutFrom(s, line)
  BY <1>1, <1>2, <1>3, <1>4, LineRead
<1>6. PICK p : p = ParseBlock(s)
  OBVIOUS
<1>7. Block(p) /\ p.hash \in Hashes(c) \cup {Unset}
  BY <1>3, <1>5, <1>6, ParsedIs
<1>8. Copied(AddBlock(copy, p), c)
  BY <1>4, <1>7, AcceptedBlock
<1>9. Copied(copy', c)
  BY <1>2, <1>4, <1>6, <1>8
<1>10. Carries(wire', c)
  BY <1>2 DEF Carries
<1> QED BY <1>2, <1>3, <1>9, <1>10 DEF GenuineInv

\* handle_message, case MSG_CHAIN_RESPONSE.
LEMMA ChainSteps ==
    ASSUME DigestsApart, GenuineInv, HandleChain
    PROVE  GenuineInv'
<1>1. PICK line, s : line = wire.line /\ s = ParsePayload(line)
  OBVIOUS
<1>2. /\ wire # Quiet /\ wire' = Quiet /\ UNCHANGED <<chain, mempool>>
      /\ GetNumber(line, "type") = MSG_CHAIN_RESPONSE
      /\ copy' = IF ChainParses(s) THEN ChainReplace(copy, ParseChain(s)) ELSE copy
  BY <1>1 DEF HandleChain, Reading
<1>3. PICK c : c = chain
  OBVIOUS
<1>4. Made(c) /\ Copied(copy, c) /\ Carries(wire, c)
  BY <1>3 DEF GenuineInv
<1>5. s = ParsePayload(SerializeMsg(MSG_CHAIN_RESPONSE, SerializeChain(c)))
  BY <1>1, <1>2, <1>4, LineRead
<1>6. Copied(copy', c)
  <2>1. CASE ChainParses(s)
    <3>1. PICK o : o = ParseChain(s)
      OBVIOUS
    <3>2. /\ Text(o)
          /\ \A i \in 1 .. Len(o) : Block(o[i]) /\ o[i].hash \in Hashes(c) \cup {Unset}
          /\ Len(o) # 0 => Alike(o[1], c[1])
      BY <1>4, <1>5, <2>1, <3>1, ChainRead
    <3>3. Copied(ChainReplace(copy, o), c)
      BY <1>4, <3>2, AcceptedChain
    <3> QED BY <1>2, <2>1, <3>1, <3>3
  <2>2. CASE ~ ChainParses(s)
    BY <1>2, <1>4, <2>2
  <2> QED BY <2>1, <2>2
<1>7. Carries(wire', c)
  BY <1>2 DEF Carries
<1> QED BY <1>2, <1>3, <1>6, <1>7 DEF GenuineInv

\* Every step, and no step.
LEMMA GenuineNext ==
    ASSUME DigestsApart, GenuineInv, [Next]_vars
    PROVE  GenuineInv'
<1>1. CASE \E r \in Receivers : Pay(r)
  BY <1>1, PaySteps
<1>2. CASE \E t \in Times : Mine(t)
  BY <1>2, MineSteps
<1>3. CASE Ask \/ HandleRequest
  BY <1>3, AskSteps
<1>4. CASE HandleNewBlock
  BY <1>4, NewBlockSteps
<1>5. CASE HandleNewTx
  <2>1. wire' = Quiet /\ UNCHANGED <<chain, mempool, copy>>
    BY <1>5 DEF HandleNewTx
  <2> QED BY <2>1 DEF GenuineInv, Carries
<1>6. CASE HandleChain
  BY <1>6, ChainSteps
<1>7. CASE UNCHANGED vars
  BY <1>7 DEF vars, GenuineInv
<1> QED BY <1>1, <1>2, <1>3, <1>4, <1>5, <1>6, <1>7 DEF Next

\* What is copied block by block is a beginning in what the hashes cover.
LEMMA GenuineMeans ==
    ASSUME GenuineInv
    PROVE  CopyGenuine
<1>1. PICK s, c : s = copy /\ c = chain
  OBVIOUS
<1>2. Made(c) /\ Copied(s, c)
  BY <1>1 DEF GenuineInv
<1>3. PICK m, n : m = Len(s) /\ n = Len(c)
  OBVIOUS
<1>4. m \in Nat /\ n \in Nat /\ m <= n /\ DOMAIN s = 1 .. m /\ DOMAIN c = 1 .. n
  <2>1. Len(s) \in 1 .. Len(c) /\ Text(s) /\ Text(c)
    BY <1>2 DEF Copied, Made
  <2>2. Len(s) \in Nat /\ Len(c) \in Nat /\ DOMAIN s = 1 .. Len(s) /\ DOMAIN c = 1 .. Len(c)
    BY <2>1, TextFields
  <2> QED BY <1>3, <2>1, <2>2
<1> DEFINE a == [i \in 1 .. m |-> Covered(s[i])]
           b == [i \in 1 .. n |-> Covered(c[i])]
           A == {Covered(s[i]) : i \in 1 .. m}
           B == {Covered(c[i]) : i \in 1 .. n}
<1>5. a \in [1 .. m -> A] /\ b \in [1 .. n -> B]
  OBVIOUS
<1>6. ASSUME NEW i \in 1 .. m
      PROVE  a[i] = b[i]
  <2>1. PICK p, q : p = s[i] /\ q = c[i]
    OBVIOUS
  <2>2. i \in 1 .. n
    BY <1>4
  <2>3. Block(p) /\ Alike(p, q) /\ Block(q)
    BY <1>2, <1>3, <2>1, <2>2 DEF Made, Copied
  <2>4. Covered(p) = Covered(q)
    BY <2>3, AlikeCovered
  <2> QED BY <2>1, <2>2, <2>4
<1> HIDE DEF a, b, A, B
<1>7. a \in Seq(Range(a)) /\ Len(a) = m /\ b \in Seq(Range(b)) /\ Len(b) = n
  BY <1>4, <1>5, TextOf DEF Text
<1>8. IsPrefix(a, b)
  BY <1>4, <1>6, <1>7, PrefixIs
<1>9. CopyGenuine = IsPrefix(a, b)
  BY <1>1, <1>4 DEF CopyGenuine, a, b
<1> QED BY <1>8, <1>9

\* Whatever is typed as a receiver, the peer's chain stays a beginning of the
\* payer's in all that the hashes cover.
THEOREM CopyIsGenuine == DigestsApart => (Spec => []CopyGenuine)
<1> SUFFICES ASSUME DigestsApart
             PROVE  Spec => []CopyGenuine
  OBVIOUS
<1>1. Init => GenuineInv
  BY GenuineInit
<1>2. GenuineInv /\ [Next]_vars => GenuineInv'
  BY GenuineNext
<1>3. GenuineInv => CopyGenuine
  BY GenuineMeans
<1> QED BY <1>1, <1>2, <1>3, PTL DEF Spec

-----------------------------------------------------------------------------
(* Escaping, and reading back what was escaped *)

\* What stands for one token.
Escaped(x) == IF x \in {Quote, Backslash} THEN <<Backslash, x>> ELSE <<x>>

\* In e the tokens of s stand one after another, that of s[i] behind the first o[i].
Spread(s, e, o) ==
    /\ o \in [1 .. Len(s) + 1 -> Nat] /\ o[1] = 0 /\ o[Len(s) + 1] = Len(e)
    /\ \A i \in 1 .. Len(s) :
          IF s[i] \in {Quote, Backslash}
          THEN o[i + 1] = o[i] + 2 /\ e[o[i] + 1] = Backslash /\ e[o[i] + 2] = s[i]
          ELSE o[i + 1] = o[i] + 1 /\ e[o[i] + 1] = s[i]

\* What has been joined stays where it is.
LEMMA JoinedStands ==
    ASSUME NEW F, Text(F), \A i \in 1 .. Len(F) : Text(F[i]), NEW f, f[1] = F[1],
           \A i \in 2 .. Len(F) : f[i] = f[i - 1] \o F[i]
    PROVE  /\ \A i \in 1 .. Len(F) : Text(f[i])
           /\ \A i \in 1 .. Len(F) : Stands(f[i], f[Len(F)], 0)
           /\ \A i \in 2 .. Len(F) : /\ Len(f[i]) = Len(f[i - 1]) + Len(F[i])
                                     /\ Stands(F[i], f[i], Len(f[i - 1]))
<1> DEFINE n == Len(F)
           T == {k \in Nat : k + 1 <= n => Text(f[k + 1])}
           U == {k \in Nat : k + 1 <= n => Stands(f[n - k], f[n], 0)}
<1>0. n \in Nat
  BY TextFields
<1>1. \A i \in 2 .. n : f[i] = f[i - 1] \o F[i]
  OBVIOUS
<1>2. \A i \in 1 .. n : Text(F[i])
  OBVIOUS
<1>3. 0 \in T
  <2>1. 1 <= n => 1 \in 1 .. n
    BY <1>0
  <2> QED BY <1>2, <2>1
<1> HIDE DEF n
<1>4. ASSUME NEW k \in Nat, k \in T PROVE k + 1 \in T
  <2> SUFFICES ASSUME k + 2 <= n PROVE Text(f[k + 2])
    BY <1>0
  <2>1. PICK i : i = k + 2
    OBVIOUS
  <2>2. i \in 2 .. n /\ i \in 1 .. n /\ i - 1 = k + 1 /\ k + 1 <= n
    BY <1>0, <2>1
  <2>3. Text(f[i - 1])
    BY <1>4, <2>2
  <2>4. Text(f[i - 1] \o F[i])
    BY <1>2, <2>2, <2>3, TextJoined
  <2> QED BY <1>1, <2>1, <2>2, <2>4
<1>5. Nat \subseteq T
  <2> HIDE DEF T
  <2> QED BY <1>3, <1>4, SetInduction
<1>6. ASSUME NEW i \in 1 .. n PROVE Text(f[i])
  <2>1. PICK k : k = i - 1
    OBVIOUS
  <2>2. k \in Nat /\ k + 1 = i /\ i <= n
    BY <1>0, <2>1
  <2>3. k \in T
    BY <1>5, <2>2
  <2> QED BY <2>2, <2>3
<1>7. ASSUME NEW i \in 2 .. n
      PROVE  /\ Len(f[i]) = Len(f[i - 1]) + Len(F[i])
             /\ Stands(F[i], f[i], Len(f[i - 1]))
             /\ \A u, d : Text(u) /\ d \in Nat /\ Stands(u, f[i - 1], d) => Stands(u, f[i], d)
  <2>1. PICK a, b : a = f[i - 1] /\ b = F[i]
    OBVIOUS
  <2>2. i - 1 \in 1 .. n /\ i \in 1 .. n
    BY <1>0
  <2>3. Text(a) /\ Text(b)
    BY <1>2, <1>6, <2>1, <2>2
  <2>4. Len(a \o b) = Len(a) + Len(b)
    BY <2>3, TextJoined
  <2>5. /\ Stands(b, a \o b, Len(a))
        /\ \A u, d : Text(u) /\ d \in Nat /\ Stands(u, a, d) => Stands(u, a \o b, d)
    BY <2>3, StandsJoined
  <2> QED BY <1>1, <2>1, <2>4, <2>5
<1>8. \A u : Text(u) => Stands(u, u, 0)
  BY TextFields DEF Stands
<1>9. 0 \in U
  <2>1. 1 <= n => n \in 1 .. n /\ n - 0 = n
    BY <1>0
  <2> QED BY <1>6, <1>8, <2>1
<1>10. ASSUME NEW i \in 1 .. n, NEW j \in 1 .. n, Stands(f[j], f[n], 0), i = j - 1
       PROVE  Stands(f[i], f[n], 0)
  <2>1. j \in 2 .. n
    BY <1>0, <1>10
  <2>2. Stands(f[i], f[j], 0)
    BY <1>6, <1>7, <1>8, <1>10, <2>1
  <2>3. Len(f[i]) \in Nat /\ Len(f[j]) \in Nat
    BY <1>6, TextFields
  <2>4. PICK a, b, c : a = f[i] /\ b = f[j] /\ c = f[n]
    OBVIOUS
  <2>5. Stands(a, b, 0) /\ Stands(b, c, 0) /\ Len(a) \in Nat /\ Len(b) \in Nat
    BY <1>10, <2>2, <2>3, <2>4
  <2>6. Len(c) \in Nat
    BY <1>6, <2>4, <2>1, TextFields
  <2>7. Stands(a, c, 0)
    <3>1. Len(a) <= Len(b) /\ Len(b) <= Len(c)
      BY <2>5, <2>6 DEF Stands
    <3>2. \A l \in 1 .. Len(a) : l \in 1 .. Len(b) /\ 0 + l = l
      BY <2>5, <3>1
    <3>3. \A l \in 1 .. Len(a) : b[l] = a[l] /\ c[l] = b[l]
      BY <2>5, <3>2 DEF Stands
    <3> QED BY <2>5, <2>6, <3>1, <3>2, <3>3 DEF Stands
  <2> QED BY <2>4, <2>7
<1>11. ASSUME NEW k \in Nat, k \in U PROVE k + 1 \in U
  <2> SUFFICES ASSUME k + 2 <= n PROVE Stands(f[n - (k + 1)], f[n], 0)
    BY <1>0
  <2>1. PICK i, j : i = n - (k + 1) /\ j = n - k
    OBVIOUS
  <2>2. i \in 1 .. n /\ j \in 1 .. n /\ i = j - 1 /\ k + 1 <= n
    BY <1>0, <2>1
  <2>3. Stands(f[j], f[n], 0)
    BY <1>11, <2>1, <2>2
  <2> QED BY <1>10, <2>1, <2>2, <2>3
<1>12. Nat \subseteq U
  <2> HIDE DEF U
  <2> QED BY <1>9, <1>11, SetInduction
<1>13. ASSUME NEW i \in 1 .. n PROVE Stands(f[i], f[n], 0)
  <2>1. PICK k : k = n - i
    OBVIOUS
  <2>2. k \in Nat /\ n - k = i /\ k + 1 <= n
    BY <1>0, <2>1
  <2>3. k \in U
    BY <1>12, <2>2
  <2> QED BY <2>2, <2>3
<1> QED BY <1>6, <1>7, <1>13 DEF n

\* json_escape.
LEMMA EscapeSpread ==
    ASSUME NEW s, Text(s)
    PROVE  Text(JsonEscape(s)) /\ \E o : Spread(s, JsonEscape(s), o)
<1> DEFINE n == Len(s)
           F == [i \in 1 .. n |-> Escaped(s[i])]
           e == JsonEscape(s)
<1>0. n \in Nat
  BY TextFields
<1>1. e = FlattenSeq(F)
  BY DEF JsonEscape, Escaped
<1>2. ASSUME NEW x
      PROVE  /\ Text(Escaped(x))
             /\ x \in {Quote, Backslash} => /\ Len(Escaped(x)) = 2
                                            /\ Escaped(x)[1] = Backslash /\ Escaped(x)[2] = x
             /\ x \notin {Quote, Backslash} => Len(Escaped(x)) = 1 /\ Escaped(x)[1] = x
  <2>1. PICK b : b = Backslash
    OBVIOUS
  <2>2. <<b, x>> \in Seq({b, x}) /\ <<x>> \in Seq({x})
    OBVIOUS
  <2>3. Text(<<b, x>>) /\ Text(<<x>>)
    BY <2>2, TextIs
  <2>4. Len(<<b, x>>) = 2 /\ <<b, x>>[1] = b /\ <<b, x>>[2] = x /\ Len(<<x>>) = 1 /\ <<x>>[1] = x
    OBVIOUS
  <2>5. CASE x \in {Quote, Backslash}
    <3>1. Escaped(x) = <<b, x>>
      BY <2>1, <2>5 DEF Escaped
    <3> QED BY <2>1, <2>3, <2>4, <2>5, <3>1
  <2>6. CASE x \notin {Quote, Backslash}
    <3>1. Escaped(x) = <<x>>
      BY <2>6 DEF Escaped
    <3> QED BY <2>3, <2>4, <2>6, <3>1
  <2> QED BY <2>5, <2>6
<1>3. Text(F) /\ Len(F) = n
  <2>1. F \in [1 .. n -> {Escaped(s[i]) : i \in 1 .. n}]
    OBVIOUS
  <2> HIDE DEF F, n
  <2> QED BY <1>0, <2>1, TextOf
<1>4. \A i \in 1 .. n : F[i] = Escaped(s[i])
  OBVIOUS
<1> HIDE DEF e, F, n
<1>5. CASE n = 0
  <2>1. e = F
    BY <1>1, <1>3, <1>5 DEF FlattenSeq
  <2>2. PICK o : o = [i \in 1 .. 1 |-> 0]
    OBVIOUS
  <2>3. o \in [1 .. n + 1 -> Nat] /\ o[1] = 0 /\ o[n + 1] = Len(e)
    BY <1>3, <1>5, <2>1, <2>2
  <2>4. \A i \in 1 .. n : FALSE
    BY <1>5
  <2>5. Spread(s, e, o)
    BY <2>3, <2>4 DEF Spread, n
  <2> QED BY <1>3, <2>1, <2>5 DEF e
<1>6. CASE n # 0
  <2>1. PICK f : /\ f[1] = F[1]
                 /\ \A i \in 2 .. n : f[i] = f[i - 1] \o F[i]
                 /\ FlattenSeq(F) = f[n]
    BY <1>2, <1>3, <1>4, <1>6, FlattenRuns
  <2>2. e = f[n]
    BY <1>1, <2>1
  <2>3. /\ \A i \in 1 .. n : Text(f[i])
        /\ \A i \in 1 .. n : Stands(f[i], f[n], 0)
        /\ \A i \in 2 .. n : /\ Len(f[i]) = Len(f[i - 1]) + Len(F[i])
                             /\ Stands(F[i], f[i], Len(f[i - 1]))
    <3>1. \A i \in 1 .. n : Text(F[i])
      BY <1>2, <1>4
    <3> QED BY <1>3, <2>1, <3>1, JoinedStands
  <2>4. PICK o : o = [i \in 1 .. n + 1 |-> IF i = 1 THEN 0 ELSE Len(f[i - 1])]
    OBVIOUS
  <2>5. \A i \in 1 .. n : Len(f[i]) \in Nat
    BY <2>3, TextFields
  <2>6. /\ o[1] = 0 /\ o[n + 1] = Len(e) /\ o \in [1 .. n + 1 -> Nat]
    <3>1. \A i \in 1 .. n + 1 : i # 1 => i - 1 \in 1 .. n
      BY <1>0
    <3>2. o \in [1 .. n + 1 -> Nat]
      BY <2>4, <2>5, <3>1
    <3>3. 1 \in 1 .. n + 1 /\ n + 1 \in 1 .. n + 1 /\ n + 1 # 1 /\ n + 1 - 1 = n
      BY <1>0, <1>6
    <3>4. o[1] = 0
      BY <2>4, <3>3
    <3>5. PICK k, l : k = n + 1 /\ l = Len(e)
      OBVIOUS
    <3>6. k \in 1 .. n + 1 /\ k # 1 /\ k - 1 = n
      <4>1. k = n + 1
        BY <3>5
      <4> QED BY <1>0, <1>6, <4>1
    <3>7. o[k] = Len(f[k - 1])
      BY <2>4, <3>6
    <3>8. o[k] = l
      BY <2>2, <3>5, <3>6, <3>7
    <3> QED BY <3>2, <3>4, <3>5, <3>8
  <2>7. ASSUME NEW i \in 1 .. n
        PROVE  /\ o[i + 1] = o[i] + Len(F[i])
               /\ \A j \in 1 .. Len(F[i]) : e[o[i] + j] = F[i][j]
    <3>1. i + 1 \in 1 .. n + 1 /\ i + 1 # 1 /\ i + 1 - 1 = i /\ i \in 1 .. n + 1
      BY <1>0
    <3>2. o[i + 1] = Len(f[i])
      BY <2>4, <3>1
    <3>3. /\ Len(f[i]) = o[i] + Len(F[i])
          /\ Stands(F[i], f[i], o[i])
      <4>1. CASE i = 1
        <5>1. f[i] = F[i] /\ o[i] = 0 /\ Text(F[i])
          BY <1>2, <1>4, <2>1, <2>6, <4>1
        <5> QED BY <5>1, TextFields DEF Stands
      <4>2. CASE i # 1
        <5>1. i \in 2 .. n
          BY <1>0, <4>2
        <5>2. o[i] = Len(f[i - 1])
          BY <2>4, <3>1, <4>2
        <5> QED BY <2>3, <5>1, <5>2
      <4> QED BY <4>1, <4>2
    <3>4. PICK a, b, m : a = f[i] /\ b = F[i] /\ m = o[i]
      OBVIOUS
    <3>5. /\ Len(a) \in Nat /\ Len(b) \in Nat /\ m \in Nat /\ Len(a) = m + Len(b)
          /\ Stands(b, a, m) /\ Stands(a, e, 0)
      <4>1. Text(F[i]) /\ m \in Nat
        BY <1>2, <1>4, <2>6, <3>1, <3>4
      <4> QED BY <2>2, <2>3, <2>5, <3>3, <3>4, <4>1, TextFields
    <3>6. ASSUME NEW j \in 1 .. Len(b) PROVE e[m + j] = b[j]
      <4>1. m + j \in 1 .. Len(a) /\ 0 + (m + j) = m + j
        BY <3>5
      <4>2. e[0 + (m + j)] = a[m + j] /\ a[m + j] = b[j]
        BY <3>5, <4>1 DEF Stands
      <4> QED BY <4>1, <4>2
    <3> QED BY <3>2, <3>3, <3>4, <3>6
  <2>8. ASSUME NEW i \in 1 .. n
        PROVE  IF s[i] \in {Quote, Backslash}
               THEN o[i + 1] = o[i] + 2 /\ e[o[i] + 1] = Backslash /\ e[o[i] + 2] = s[i]
               ELSE o[i + 1] = o[i] + 1 /\ e[o[i] + 1] = s[i]
    <3>1. F[i] = Escaped(s[i])
      BY <1>4
    <3>2. CASE s[i] \in {Quote, Backslash}
      <4>1. Len(F[i]) = 2 /\ F[i][1] = Backslash /\ F[i][2] = s[i]
        BY <1>2, <3>1, <3>2
      <4>2. 1 \in 1 .. Len(F[i]) /\ 2 \in 1 .. Len(F[i])
        BY <4>1
      <4> QED BY <2>7, <3>2, <4>1, <4>2
    <3>3. CASE s[i] \notin {Quote, Backslash}
      <4>1. Len(F[i]) = 1 /\ F[i][1] = s[i]
        BY <1>2, <3>1, <3>3
      <4>2. 1 \in 1 .. Len(F[i])
        BY <4>1
      <4> QED BY <2>7, <3>3, <4>1, <4>2
    <3> QED BY <3>2, <3>3
  <2>9. Spread(s, e, o)
    BY <2>6, <2>8 DEF Spread, n
  <2>10. Text(e)
    <3>1. n \in 1 .. n
      BY <1>0, <1>6
    <3> QED BY <2>2, <2>3, <3>1
  <2> QED BY <2>9, <2>10 DEF e
<1> QED BY <1>5, <1>6

\* No quote stands in what was escaped but behind a backslash, and nothing but
\* what was there before and backslashes.
LEMMA QuotesEscaped ==
    ASSUME NEW s, NEW e, NEW o, Text(s), Text(e), Spread(s, e, o)
    PROVE  \A p \in 1 .. Len(e) :
              /\ e[p] = Quote => p - 1 \in 1 .. Len(e) /\ e[p - 1] = Backslash
              /\ e[p] = Backslash \/ \E i \in 1 .. Len(s) : e[p] = s[i]
<1> DEFINE n == Len(s)
           Good(p) == /\ e[p] = Quote => p - 1 \in Nat \ {0} /\ e[p - 1] = Backslash
                      /\ e[p] = Backslash \/ \E j \in 1 .. n : e[p] = s[j]
           T == {k \in Nat : k <= n => \A p \in 1 .. o[k + 1] : Good(p)}
<1>0. n \in Nat /\ Len(e) \in Nat
  BY TextFields
<1>1. /\ o \in [1 .. n + 1 -> Nat] /\ o[1] = 0 /\ o[n + 1] = Len(e)
      /\ \A i \in 1 .. n :
            IF s[i] \in {Quote, Backslash}
            THEN o[i + 1] = o[i] + 2 /\ e[o[i] + 1] = Backslash /\ e[o[i] + 2] = s[i]
            ELSE o[i + 1] = o[i] + 1 /\ e[o[i] + 1] = s[i]
  BY DEF Spread
<1> HIDE DEF n
<1>2. 0 \in T
  BY <1>1
<1>3. ASSUME NEW k \in Nat, k \in T PROVE k + 1 \in T
  <2> SUFFICES ASSUME k + 1 <= n, NEW p \in 1 .. o[k + 2] PROVE Good(p)
    BY <1>0
  <2>1. PICK i, a, b : i = k + 1 /\ a = o[i] /\ b = o[i + 1]
    OBVIOUS
  <2>2. i \in 1 .. n /\ i + 1 \in 1 .. n + 1 /\ i + 1 = k + 2 /\ i \in 1 .. n + 1
    BY <1>0, <2>1
  <2>3. a \in Nat /\ b \in Nat /\ p \in 1 .. b
    BY <1>1, <2>1, <2>2
  <2>4. \A q \in 1 .. a : Good(q)
    BY <1>0, <1>3, <2>1
  <2>5. CASE s[i] \in {Quote, Backslash}
    <3>1. b = a + 2 /\ e[a + 1] = Backslash /\ e[a + 2] = s[i]
      BY <1>1, <2>1, <2>2, <2>5
    <3>2. p \in 1 .. a \/ p = a + 1 \/ p = a + 2
      BY <2>3, <3>1
    <3>3. p = a + 2 => p - 1 = a + 1 /\ p - 1 \in Nat \ {0}
      BY <2>3
    <3>4. Quote # Backslash
      BY Chars
    <3>5. \A r : r = a + 1 \/ r = a + 2 => Good(r)
      BY <2>2, <2>3, <3>1, <3>3, <3>4
    <3> QED BY <2>4, <3>2, <3>5
  <2>6. CASE s[i] \notin {Quote, Backslash}
    <3>1. b = a + 1 /\ e[a + 1] = s[i]
      BY <1>1, <2>1, <2>2, <2>6
    <3>2. p \in 1 .. a \/ p = a + 1
      BY <2>3, <3>1
    <3>3. p = a + 1 => Good(p)
      BY <2>2, <2>6, <3>1
    <3> QED BY <2>4, <3>2, <3>3
  <2> QED BY <2>5, <2>6
<1>4. Nat \subseteq T
  <2> HIDE DEF T
  <2> QED BY <1>2, <1>3, SetInduction
<1>5. n \in T
  BY <1>0, <1>4
<1>6. ASSUME NEW p \in 1 .. Len(e)
      PROVE  /\ e[p] = Quote => p - 1 \in 1 .. Len(e) /\ e[p - 1] = Backslash
             /\ e[p] = Backslash \/ \E j \in 1 .. n : e[p] = s[j]
  <2>1. Good(p)
    BY <1>0, <1>1, <1>5
  <2> QED BY <1>0, <2>1
<1> QED BY <1>6 DEF n

\* The rest of a text.
LEMMA RestIs ==
    ASSUME NEW s, Text(s), NEW n, n = Len(s)
    PROVE  /\ SubSeq(s, 1, n) = s /\ SubSeq(s, n + 1, n) = << >>
           /\ \A i \in 1 .. n : <<s[i]>> \o SubSeq(s, i + 1, n) = SubSeq(s, i, n)
<1>0. n \in Nat
  BY TextFields
<1>1. ASSUME NEW i \in 1 .. n + 1
      PROVE  /\ Text(SubSeq(s, i, n)) /\ Len(SubSeq(s, i, n)) = n + 1 - i
             /\ \A j \in 1 .. n + 1 - i : SubSeq(s, i, n)[j] = s[i - 1 + j]
  <2>1. i \in Nat \ {0} /\ n \in Nat /\ n <= Len(s)
    BY <1>0
  <2>2. PICK w : w = SubSeq(s, i, n)
    OBVIOUS
  <2>3. /\ CutFrom(w, s) /\ Len(w) = IF i <= n THEN n - i + 1 ELSE 0
        /\ \A j \in 1 .. Len(w) : w[j] = s[i - 1 + j]
    BY <2>1, <2>2, SubSeqCuts
  <2>4. Len(w) = n + 1 - i
    BY <1>0, <2>3
  <2> QED BY <2>2, <2>3, <2>4 DEF CutFrom
<1>2. SubSeq(s, 1, n) = s
  <2>1. PICK w : w = SubSeq(s, 1, n)
    OBVIOUS
  <2>2. PICK i \in 1 .. n + 1 : i = 1
    BY <1>0
  <2>3. Text(w) /\ Len(w) = n + 1 - i /\ \A j \in 1 .. n + 1 - i : w[j] = s[i - 1 + j]
    BY <1>1, <2>1, <2>2
  <2>4. n + 1 - i = n /\ \A j \in 1 .. n : i - 1 + j = j
    BY <1>0, <2>2
  <2>5. Len(w) = Len(s) /\ \A j \in 1 .. Len(w) : w[j] = s[j]
    BY <2>3, <2>4
  <2>6. w = s
    BY <2>3, <2>5, TextEqual
  <2> QED BY <2>1, <2>6
<1>3. SubSeq(s, n + 1, n) = << >>
  <2>1. PICK i \in 1 .. n + 1 : i = n + 1
    BY <1>0
  <2>2. PICK w, z : w = SubSeq(s, i, n) /\ z = << >>
    OBVIOUS
  <2>3. Text(w) /\ Len(w) = n + 1 - i
    BY <1>1, <2>2
  <2>4. Len(w) = 0
    BY <1>0, <2>1, <2>3
  <2>5. z \in Seq({}) /\ Len(z) = 0
    BY <2>2
  <2>6. Text(z)
    BY <2>5, TextIs
  <2>7. w = z
    BY <2>3, <2>4, <2>5, <2>6, TextEqual
  <2> QED BY <2>1, <2>2, <2>7
<1>4. ASSUME NEW i \in 1 .. n
      PROVE  <<s[i]>> \o SubSeq(s, i + 1, n) = SubSeq(s, i, n)
  <2>1. PICK l \in 1 .. n + 1 : l = i + 1
    BY <1>0
  <2>2. PICK x, v, w : x = s[i] /\ v = SubSeq(s, l, n) /\ w = SubSeq(s, i, n)
    OBVIOUS
  <2>3. /\ Text(v) /\ Len(v) = n + 1 - l
        /\ \A j \in 1 .. n + 1 - l : v[j] = s[l - 1 + j]
    BY <1>1, <2>2
  <2>4. i \in 1 .. n + 1
    BY <1>0
  <2>5. /\ Text(w) /\ Len(w) = n + 1 - i
        /\ \A j \in 1 .. n + 1 - i : w[j] = s[i - 1 + j]
    BY <1>1, <2>2, <2>4
  <2>6. PICK h : h = <<x>>
    OBVIOUS
  <2>7. h \in Seq({x}) /\ Len(h) = 1 /\ h[1] = x
    BY <2>6
  <2>8. PICK y : y = h \o v
    OBVIOUS
  <2>9. /\ Text(y) /\ Len(y) = 1 + Len(v)
        /\ \A j \in 1 .. 1 : y[j] = h[j]
        /\ \A j \in 1 .. Len(v) : y[1 + j] = v[j]
    <3>1. Text(h) /\ Text(v)
      BY <2>3, <2>7, TextIs
    <3>2. /\ Text(y) /\ Len(y) = Len(h) + Len(v)
          /\ \A j \in 1 .. Len(h) : y[j] = h[j]
          /\ \A j \in 1 .. Len(v) : y[Len(h) + j] = v[j]
      BY <2>8, <3>1, TextJoined
    <3> QED BY <2>7, <3>2
  <2>10. Len(y) = Len(w)
    BY <1>0, <2>1, <2>3, <2>5, <2>9
  <2>11. ASSUME NEW j \in 1 .. Len(y) PROVE y[j] = w[j]
    <3>0. Len(v) = n - i /\ Len(y) = n - i + 1 /\ n + 1 - i = n - i + 1
      BY <1>0, <2>1, <2>3, <2>9
    <3>1. CASE j = 1
      <4>1. y[1] = x
        BY <2>7, <2>9
      <4>2. w[1] = s[i - 1 + 1] /\ i - 1 + 1 = i
        <5>1. 1 \in 1 .. n + 1 - i
          BY <1>0
        <5> QED BY <2>5, <5>1
      <4> QED BY <2>2, <3>1, <4>1, <4>2
    <3>2. CASE j # 1
      <4>1. PICK k : k = j - 1
        OBVIOUS
      <4>2. /\ k \in 1 .. Len(v) /\ 1 + k = j /\ l - 1 + k = i - 1 + j
            /\ k \in 1 .. n + 1 - l /\ j \in 1 .. n + 1 - i
        BY <1>0, <2>1, <3>0, <3>2, <4>1
      <4>3. y[1 + k] = v[k] /\ v[k] = s[l - 1 + k] /\ w[j] = s[i - 1 + j]
        BY <2>3, <2>5, <2>9, <4>2
      <4> QED BY <4>2, <4>3
    <3> QED BY <3>1, <3>2
  <2>12. y = w
    BY <2>5, <2>9, <2>10, <2>11, TextEqual
  <2> QED BY <2>1, <2>2, <2>6, <2>8, <2>12
<1> QED BY <1>2, <1>3, <1>4

\* json_get_string gives back what was escaped.
LEMMA ReadBack ==
    ASSUME NEW r, Text(r), \A i \in 1 .. Len(r) : r[i] # NUL,
           NEW e, e = JsonEscape(r), NEW u, Text(u), NEW q \in Nat \ {0},
           q + Len(e) + 1 <= Len(u), u[q] = Quote, Stands(e, u, q),
           u[q + Len(e) + 1] = Quote, NEW k, FindKey(u, k) = q
    PROVE  HasString(u, k) /\ GetString(u, k) = r
<1> DEFINE f == CHOOSE f : Reads(u, f)
           n == Len(r)
           m == Len(e)
<1>0. /\ n \in Nat /\ m \in Nat /\ Len(u) \in Nat /\ Text(e) /\ q + m + 1 <= Len(u)
      /\ u[q + m + 1] = Quote
  BY EscapeSpread, TextFields
<1>1. PICK o : Spread(r, e, o)
  BY EscapeSpread
<1>2. /\ o \in [1 .. n + 1 -> Nat] /\ o[1] = 0 /\ o[n + 1] = m
      /\ \A i \in 1 .. n :
            IF r[i] \in {Quote, Backslash}
            THEN o[i + 1] = o[i] + 2 /\ e[o[i] + 1] = Backslash /\ e[o[i] + 2] = r[i]
            ELSE o[i + 1] = o[i] + 1 /\ e[o[i] + 1] = r[i]
  BY <1>1 DEF Spread
<1>3. HasString(u, k)
  <2>1. At(u, q) = Quote
    BY <1>0, AtIs
  <2> QED BY <2>1 DEF HasString
<1>4. GetString(u, k) = f[q + 1]
  BY <1>3 DEF GetString, Reads
<1>5. Reads(u, f)
  <2>1. \E h : Reads(u, h)
    BY ReadsExist
  <2> QED BY <2>1
<1> HIDE DEF f, n, m
<1>6. /\ \A p \in Nat : At(u, p) \in {Quote, NUL} => f[p] = << >>
      /\ \A p \in Nat : At(u, p) \notin {Quote, NUL, Backslash}
                            => f[p] = <<At(u, p)>> \o f[p + 1]
      /\ \A p \in Nat : At(u, p) = Backslash /\ At(u, p + 1) # NUL
                            => f[p] = <<At(u, p + 1)>> \o f[p + 2]
  <2>1. Quote # Backslash /\ NUL # Backslash
    BY Chars
  <2> QED BY <1>5, <2>1 DEF Reads
<1>7. \A j \in 1 .. m : At(u, q + j) = e[j]
  <2> SUFFICES ASSUME NEW j \in 1 .. m PROVE At(u, q + j) = e[j]
    OBVIOUS
  <2>1. q + j \in Nat \ {0} /\ q + j <= Len(u)
    BY <1>0
  <2>2. At(u, q + j) = u[q + j]
    BY <2>1, AtIs
  <2>3. u[q + j] = e[j]
    BY DEF Stands, m
  <2> QED BY <2>2, <2>3
<1> DEFINE T == {l \in Nat : l <= n => /\ f[q + 1 + o[n + 1 - l]] = SubSeq(r, n + 1 - l, n)
                                       /\ o[n + 1 - l] <= m}
<1>8. 0 \in T
  <2>1. PICK p : p = q + 1 + m
    OBVIOUS
  <2>2. p \in Nat \ {0} /\ p <= Len(u) /\ p = q + m + 1
    BY <1>0, <2>1
  <2>3. At(u, p) = Quote
    BY <1>0, <2>2, AtIs
  <2>4. f[p] = << >>
    BY <1>6, <2>2, <2>3
  <2>5. SubSeq(r, n + 1, n) = << >>
    BY RestIs DEF n
  <2>6. n + 1 - 0 = n + 1 /\ m <= m
    BY <1>0
  <2> QED BY <1>2, <2>1, <2>4, <2>5, <2>6
<1>9. ASSUME NEW l \in Nat, l \in T PROVE l + 1 \in T
  <2> SUFFICES ASSUME l + 1 <= n
               PROVE  /\ f[q + 1 + o[n + 1 - (l + 1)]] = SubSeq(r, n + 1 - (l + 1), n)
                      /\ o[n + 1 - (l + 1)] <= m
    BY <1>0
  <2>1. PICK i : i = n + 1 - (l + 1)
    OBVIOUS
  <2>2. i \in 1 .. n /\ i + 1 = n + 1 - l /\ l <= n /\ i + 1 \in 1 .. n + 1 /\ i \in 1 .. n + 1
    BY <1>0, <2>1
  <2>3. f[q + 1 + o[i + 1]] = SubSeq(r, i + 1, n) /\ o[i + 1] <= m
    BY <1>9, <2>2
  <2>4. PICK a, b, x : a = o[i] /\ b = o[i + 1] /\ x = r[i]
    OBVIOUS
  <2>5. a \in Nat /\ b \in Nat /\ x # NUL
    BY <1>2, <2>2, <2>4 DEF n
  <2>6. IF x \in {Quote, Backslash}
        THEN b = a + 2 /\ e[a + 1] = Backslash /\ e[a + 2] = x
        ELSE b = a + 1 /\ e[a + 1] = x
    BY <1>2, <2>2, <2>4
  <2>7. f[q + 1 + a] = <<x>> \o f[q + 1 + b] /\ a <= m
    <3>1. CASE x \in {Quote, Backslash}
      <4>1. b = a + 2 /\ e[a + 1] = Backslash /\ e[a + 2] = x
        BY <2>6, <3>1
      <4>2. PICK p, j, g : p = q + 1 + a /\ j = a + 1 /\ g = a + 2
        OBVIOUS
      <4>a. q \in Nat /\ a \in Nat /\ m \in Nat /\ a + 2 <= m /\ b = a + 2
        BY <1>0, <2>3, <2>4, <2>5, <4>1
      <4>3. /\ j \in 1 .. m /\ g \in 1 .. m /\ q + j = p /\ q + g = p + 1 /\ p \in Nat
            /\ p + 2 = q + 1 + b /\ a <= m
        BY <4>a, <4>2
      <4>4. At(u, q + j) = e[j] /\ At(u, q + g) = e[g]
        BY <1>7, <4>3
      <4>5. At(u, p) = Backslash /\ At(u, p + 1) = x
        BY <4>1, <4>2, <4>3, <4>4
      <4>6. f[p] = <<x>> \o f[p + 2]
        BY <1>6, <2>5, <4>3, <4>5
      <4> QED BY <4>2, <4>3, <4>6
    <3>2. CASE x \notin {Quote, Backslash}
      <4>1. b = a + 1 /\ e[a + 1] = x
        BY <2>6, <3>2
      <4>2. PICK p, j : p = q + 1 + a /\ j = a + 1
        OBVIOUS
      <4>a. q \in Nat /\ a \in Nat /\ m \in Nat /\ a + 1 <= m /\ b = a + 1
        BY <1>0, <2>3, <2>4, <2>5, <4>1
      <4>3. /\ j \in 1 .. m /\ q + j = p /\ p \in Nat /\ p + 1 = q + 1 + b /\ a <= m
        BY <4>a, <4>2
      <4>4. At(u, q + j) = e[j]
        BY <1>7, <4>3
      <4>5. At(u, p) = x
        BY <4>1, <4>2, <4>3, <4>4
      <4>6. f[p] = <<x>> \o f[p + 1]
        BY <1>6, <2>5, <3>2, <4>3, <4>5
      <4> QED BY <4>2, <4>3, <4>6
    <3> QED BY <3>1, <3>2
  <2>8. <<x>> \o SubSeq(r, i + 1, n) = SubSeq(r, i, n)
    <3>1. <<r[i]>> \o SubSeq(r, i + 1, n) = SubSeq(r, i, n)
      BY <2>2, RestIs DEF n
    <3> QED BY <2>4, <3>1
  <2> QED BY <2>1, <2>3, <2>4, <2>7, <2>8
<1>10. Nat \subseteq T
  <2> HIDE DEF T
  <2> QED BY <1>8, <1>9, SetInduction
<1>11. n \in T
  BY <1>0, <1>10
<1>12. f[q + 1] = SubSeq(r, 1, n)
  <2>1. n + 1 - n = 1 /\ n <= n
    BY <1>0
  <2>2. f[q + 1 + o[1]] = SubSeq(r, 1, n)
    BY <1>11, <2>1
  <2>3. q + 1 + 0 = q + 1
    OBVIOUS
  <2> QED BY <1>2, <2>2, <2>3
<1>13. SubSeq(r, 1, n) = r
  BY RestIs DEF n
<1> QED BY <1>3, <1>4, <1>12, <1>13

-----------------------------------------------------------------------------
(* The text of a payment *)

\* A text in quotes.
LEMMA QuotedText ==
    ASSUME NEW s, Text(s)
    PROVE  /\ Text(Quoted(s)) /\ Len(Quoted(s)) = Len(s) + 2
           /\ Quoted(s)[1] = Quote /\ Stands(s, Quoted(s), 1) /\ Quoted(s)[Len(s) + 2] = Quote
<1>1. PICK q : q = <<Quote>>
  OBVIOUS
<1>2. Text(q) /\ Len(q) = 1 /\ q[1] = Quote
  <2>1. PICK x : x = Quote
    OBVIOUS
  <2>2. q \in Seq({x}) /\ Len(q) = 1 /\ q[1] = x
    BY <1>1, <2>1
  <2> QED BY <2>1, <2>2, TextIs
<1>3. PICK a : a = q \o s
  OBVIOUS
<1>4. PICK b : b = a \o q
  OBVIOUS
<1>5. b = Quoted(s)
  BY <1>1, <1>3, <1>4 DEF Quoted
<1>6. Extends(a, q, s)
  BY <1>2, <1>3, JoinedExtends
<1>7. Text(a) /\ Len(a) = 1 + Len(s) /\ Stands(s, a, 1) /\ Stands(q, a, 0)
  <2>1. Stands(q, q, 0)
    BY <1>2 DEF Stands
  <2> QED BY <1>2, <1>6, <2>1 DEF Extends
<1>8. Extends(b, a, q)
  BY <1>2, <1>4, <1>7, JoinedExtends
<1>9. PICK n : n = Len(s)
  OBVIOUS
<1>10. n \in Nat
  BY <1>9, TextFields
<1>11. Text(b) /\ Len(b) = (1 + n) + 1 /\ Stands(s, b, 1) /\ Stands(q, b, 0) /\ Stands(q, b, 1 + n)
  BY <1>2, <1>7, <1>8, <1>9 DEF Extends
<1>12. b[1] = Quote /\ b[(1 + n) + 1] = Quote
  <2>1. b[0 + 1] = q[1] /\ b[(1 + n) + 1] = q[1]
    BY <1>2, <1>11 DEF Stands
  <2>2. 0 + 1 = 1
    OBVIOUS
  <2> QED BY <1>2, <2>1, <2>2
<1>13. (1 + n) + 1 = n + 2
  BY <1>10
<1> QED BY <1>5, <1>9, <1>11, <1>12, <1>13

\* A word in quotes; escaping leaves it as it is.
LEMMA WordText ==
    ASSUME NEW w
    PROVE  /\ Text(<<Word(w)>>) /\ JsonEscape(<<Word(w)>>) = <<Word(w)>>
           /\ Text(Quoted(<<Word(w)>>)) /\ Len(Quoted(<<Word(w)>>)) = 3
           /\ Quoted(<<Word(w)>>)[1] = Quote /\ Quoted(<<Word(w)>>)[2] = Word(w)
           /\ Quoted(<<Word(w)>>)[3] = Quote
<1>1. PICK x, s : x = Word(w) /\ s = <<x>>
  OBVIOUS
<1>2. s \in Seq({x}) /\ Len(s) = 1 /\ s[1] = x
  BY <1>1
<1>3. Text(s)
  BY <1>2, TextIs
<1>4. PICK e : e = JsonEscape(s)
  OBVIOUS
<1>5. e = s
  <2>1. Text(e)
    BY <1>3, <1>4, EscapeSpread
  <2>2. PICK o : Spread(s, e, o)
    BY <1>3, <1>4, EscapeSpread
  <2>3. x \notin {Quote, Backslash}
    BY <1>1, KeysApart
  <2>4. 1 \in 1 .. Len(s) /\ Len(s) + 1 = 1 + 1
    BY <1>2
  <2>5. o[1] = 0 /\ o[1 + 1] = Len(e) /\ o[1 + 1] = o[1] + 1 /\ e[o[1] + 1] = x
    BY <1>2, <2>2, <2>3, <2>4 DEF Spread
  <2>6. Len(e) = 1 /\ e[1] = x
    BY <2>5
  <2>7. \A i \in 1 .. Len(e) : i = 1
    BY <2>6
  <2> QED BY <1>2, <1>3, <2>1, <2>6, <2>7, TextEqual
<1>6. PICK u : u = Quoted(s)
  OBVIOUS
<1>7. /\ Text(u) /\ Len(u) = Len(s) + 2
      /\ u[1] = Quote /\ Stands(s, u, 1) /\ u[Len(s) + 2] = Quote
  BY <1>3, <1>6, QuotedText
<1>8. u[1 + 1] = s[1]
  BY <1>2, <1>7 DEF Stands
<1>9. Len(u) = 3 /\ u[2] = x /\ u[3] = Quote
  BY <1>2, <1>7, <1>8
<1> QED BY <1>1, <1>3, <1>4, <1>5, <1>6, <1>7, <1>9

\* Before and behind the receiver: a sender, a signature and a digest of one
\* word each.
PaymentHead(x, s) ==
    /\ x[1] = Open /\ x[2] = Key("sender") /\ x[3] = Quote /\ x[4] = Word(s) /\ x[5] = Quote
    /\ x[6] = Comma /\ x[7] = Key("receiver") /\ x[8] = Quote

PaymentTail(x, d, a, f, g, h) ==
    /\ x[d + 1] = Quote /\ x[d + 2] = Comma /\ x[d + 3] = Key("amount")
    /\ x[d + 4] = Number(a) /\ x[d + 5] = Comma /\ x[d + 6] = Key("fee")
    /\ x[d + 7] = Number(f) /\ x[d + 8] = Comma /\ x[d + 9] = Key("signature")
    /\ x[d + 10] = Quote /\ x[d + 11] = Word(g) /\ x[d + 12] = Quote /\ x[d + 13] = Comma
    /\ x[d + 14] = Key("tx_hash") /\ x[d + 15] = Quote /\ x[d + 16] = Word(h)
    /\ x[d + 17] = Quote /\ x[d + 18] = Close

\* x is such a text; e, of m tokens, stands for the receiver in it.
PaymentText(x, m, e, s, a, f, g, h) ==
    /\ m \in Nat /\ m = Len(e)
    /\ \A j \in 1 .. m : e[j][1] # "key"
    /\ \A j \in 1 .. m : e[j] = Quote => j - 1 \in 1 .. m /\ e[j - 1] = Backslash
    /\ PaymentHead(x, s) /\ Stands(e, x, 8) /\ PaymentTail(x, m + 8, a, f, g, h)

\* t is a transaction with these words as its sender and its signature.
Signed(t, s, g) ==
    /\ TypedTx(t) /\ t.sender = <<Word(s)>> /\ t.signature = <<Word(g)>>
    /\ t.tx_hash # Unset

\* protocol_serialize_tx writes such a text.
LEMMA PaymentWritten ==
    ASSUME NEW t, NEW s, NEW g, Signed(t, s, g)
    PROVE  /\ Text(SerializeTx(t))
           /\ \E m, e : /\ PaymentText(SerializeTx(t), m, e, s, t.amount, t.fee, g, t.tx_hash)
                        /\ e = JsonEscape(t.receiver) /\ Len(SerializeTx(t)) = m + 26
<1>0. PICK e, m, x : e = JsonEscape(t.receiver) /\ m = Len(e) /\ x = SerializeTx(t)
  OBVIOUS
<1>a. TypedTx(t) /\ t.sender = <<Word(s)>> /\ t.signature = <<Word(g)>> /\ t.tx_hash # Unset
  BY DEF Signed
<1> DEFINE p1 == <<Open, Key("sender")>>
           q1 == Quoted(JsonEscape(t.sender))
           p2 == <<Comma, Key("receiver")>>
           q2 == Quoted(e)
           p3 == <<Comma, Key("amount"), Number(t.amount), Comma, Key("fee"), Number(t.fee)>>
           p4 == <<Comma, Key("signature")>>
           q4 == Quoted(t.signature)
           p5 == <<Comma, Key("tx_hash")>>
           q5 == Quoted(Hex(t.tx_hash))
           p6 == <<Close>>
<1>1. Text(e) /\ m \in Nat
  BY <1>0, <1>a, EscapeSpread, TextFields DEF TypedTx, Typed
<1>2. Text(p1) /\ Len(p1) = 2 /\ p1[1] = Open /\ p1[2] = Key("sender")
  <2>1. PICK c, k, y : c = Open /\ k = Key("sender") /\ y = <<c, k>>
    OBVIOUS
  <2>2. y \in Seq({c, k}) /\ Len(y) = 2 /\ y[1] = c /\ y[2] = k
    BY <2>1
  <2>3. Text(y)
    BY <2>2, TextIs
  <2>4. y = p1
    BY <2>1
  <2> HIDE DEF p1
  <2> QED BY <2>1, <2>2, <2>3, <2>4
<1>3. Text(p2) /\ Len(p2) = 2 /\ p2[1] = Comma /\ p2[2] = Key("receiver")
  <2>1. PICK c, k, y : c = Comma /\ k = Key("receiver") /\ y = <<c, k>>
    OBVIOUS
  <2>2. y \in Seq({c, k}) /\ Len(y) = 2 /\ y[1] = c /\ y[2] = k
    BY <2>1
  <2>3. Text(y)
    BY <2>2, TextIs
  <2>4. y = p2
    BY <2>1
  <2> HIDE DEF p2
  <2> QED BY <2>1, <2>2, <2>3, <2>4
<1>4. Text(p4) /\ Len(p4) = 2 /\ p4[1] = Comma /\ p4[2] = Key("signature")
  <2>1. PICK c, k, y : c = Comma /\ k = Key("signature") /\ y = <<c, k>>
    OBVIOUS
  <2>2. y \in Seq({c, k}) /\ Len(y) = 2 /\ y[1] = c /\ y[2] = k
    BY <2>1
  <2>3. Text(y)
    BY <2>2, TextIs
  <2>4. y = p4
    BY <2>1
  <2> HIDE DEF p4
  <2> QED BY <2>1, <2>2, <2>3, <2>4
<1>5. Text(p5) /\ Len(p5) = 2 /\ p5[1] = Comma /\ p5[2] = Key("tx_hash")
  <2>1. PICK c, k, y : c = Comma /\ k = Key("tx_hash") /\ y = <<c, k>>
    OBVIOUS
  <2>2. y \in Seq({c, k}) /\ Len(y) = 2 /\ y[1] = c /\ y[2] = k
    BY <2>1
  <2>3. Text(y)
    BY <2>2, TextIs
  <2>4. y = p5
    BY <2>1
  <2> HIDE DEF p5
  <2> QED BY <2>1, <2>2, <2>3, <2>4
<1>6. /\ Text(p3) /\ Len(p3) = 6 /\ p3[1] = Comma /\ p3[2] = Key("amount")
      /\ p3[3] = Number(t.amount) /\ p3[4] = Comma /\ p3[5] = Key("fee")
      /\ p3[6] = Number(t.fee)
  <2>1. PICK c, k, a, l, f, y : /\ c = Comma /\ k = Key("amount") /\ a = Number(t.amount)
                                /\ l = Key("fee") /\ f = Number(t.fee)
                                /\ y = <<c, k, a, c, l, f>>
    OBVIOUS
  <2>2. /\ y \in Seq({c, k, a, l, f}) /\ Len(y) = 6 /\ y[1] = c /\ y[2] = k
        /\ y[3] = a /\ y[4] = c /\ y[5] = l /\ y[6] = f
    BY <2>1
  <2>3. Text(y)
    BY <2>2, TextIs
  <2>4. y = p3
    BY <2>1
  <2> HIDE DEF p3
  <2> QED BY <2>1, <2>2, <2>3, <2>4
<1>7. Text(p6) /\ Len(p6) = 1 /\ p6[1] = Close
  <2>1. PICK c, y : c = Close /\ y = <<c>>
    OBVIOUS
  <2>2. y \in Seq({c}) /\ Len(y) = 1 /\ y[1] = c
    BY <2>1
  <2>3. Text(y)
    BY <2>2, TextIs
  <2>4. y = p6
    BY <2>1
  <2> HIDE DEF p6
  <2> QED BY <2>1, <2>2, <2>3, <2>4
<1>8. Text(q1) /\ Len(q1) = 3 /\ q1[1] = Quote /\ q1[2] = Word(s) /\ q1[3] = Quote
  <2>1. q1 = Quoted(<<Word(s)>>)
    BY <1>a, WordText
  <2> QED BY <2>1, WordText
<1>9. Text(q4) /\ Len(q4) = 3 /\ q4[1] = Quote /\ q4[2] = Word(g) /\ q4[3] = Quote
  <2>1. q4 = Quoted(<<Word(g)>>)
    BY <1>a
  <2> QED BY <2>1, WordText
<1>10. /\ Text(q5) /\ Len(q5) = 3 /\ q5[1] = Quote /\ q5[2] = Word(t.tx_hash)
       /\ q5[3] = Quote
  BY <1>a, QuotedWord
<1>11. /\ Text(q2) /\ Len(q2) = m + 2 /\ q2[1] = Quote /\ Stands(e, q2, 1)
       /\ q2[m + 2] = Quote
  BY <1>0, <1>1, QuotedText
<1>12. x = ((((((((p1 \o q1) \o p2) \o q2) \o p3) \o p4) \o q4) \o p5) \o q5) \o p6
  BY <1>0 DEF SerializeTx
<1> HIDE DEF p1, q1, p2, q2, p3, p4, q4, p5, q5, p6
<1>13. Stands(p1, p1, 0)
  BY <1>2 DEF Stands
<1>14. PICK c1 : c1 = p1 \o q1
  OBVIOUS
<1>15. /\ Text(c1) /\ Len(c1) = 5
      /\ Stands(p1, c1, 0) /\ Stands(q1, c1, 2)
  <2>1. Extends(c1, p1, q1)
    BY <1>2, <1>13, <1>8, <1>14, JoinedExtends
  <2>2. Text(c1) /\ Len(c1) = 5
    BY <1>2, <1>13, <1>1, <1>8, <2>1 DEF Extends
  <2>3. Stands(q1, c1, 2)
    BY <1>2, <1>13, <2>1 DEF Extends
  <2>4. \A u, d : Text(u) /\ d \in Nat /\ Stands(u, p1, d) => Stands(u, c1, d)
    BY <2>1 DEF Extends
  <2>5. m + 9 \in Nat /\ m + 15 \in Nat /\ m + 17 \in Nat /\ m + 20 \in Nat /\ m + 22 \in Nat
    BY <1>1
  <2> QED BY <1>2, <1>2, <1>13, <2>2, <2>3, <2>4, <2>5
<1>16. PICK c2 : c2 = c1 \o p2
  OBVIOUS
<1>17. /\ Text(c2) /\ Len(c2) = 7
      /\ Stands(p1, c2, 0) /\ Stands(q1, c2, 2) /\ Stands(p2, c2, 5)
  <2>1. Extends(c2, c1, p2)
    BY <1>15, <1>3, <1>16, JoinedExtends
  <2>2. Text(c2) /\ Len(c2) = 7
    BY <1>15, <1>1, <1>3, <2>1 DEF Extends
  <2>3. Stands(p2, c2, 5)
    BY <1>15, <2>1 DEF Extends
  <2>4. \A u, d : Text(u) /\ d \in Nat /\ Stands(u, c1, d) => Stands(u, c2, d)
    BY <2>1 DEF Extends
  <2>5. m + 9 \in Nat /\ m + 15 \in Nat /\ m + 17 \in Nat /\ m + 20 \in Nat /\ m + 22 \in Nat
    BY <1>1
  <2> QED BY <1>2, <1>8, <1>15, <2>2, <2>3, <2>4, <2>5
<1>18. PICK c3 : c3 = c2 \o q2
  OBVIOUS
<1>19. /\ Text(c3) /\ Len(c3) = m + 9
      /\ Stands(p1, c3, 0) /\ Stands(q1, c3, 2) /\ Stands(p2, c3, 5)
      /\ Stands(q2, c3, 7)
  <2>1. Extends(c3, c2, q2)
    BY <1>17, <1>11, <1>18, JoinedExtends
  <2>2. Text(c3) /\ Len(c3) = m + 9
    BY <1>17, <1>1, <1>11, <2>1 DEF Extends
  <2>3. Stands(q2, c3, 7)
    BY <1>17, <2>1 DEF Extends
  <2>4. \A u, d : Text(u) /\ d \in Nat /\ Stands(u, c2, d) => Stands(u, c3, d)
    BY <2>1 DEF Extends
  <2>5. m + 9 \in Nat /\ m + 15 \in Nat /\ m + 17 \in Nat /\ m + 20 \in Nat /\ m + 22 \in Nat
    BY <1>1
  <2> QED BY <1>2, <1>3, <1>8, <1>17, <2>2, <2>3, <2>4, <2>5
<1>20. PICK c4 : c4 = c3 \o p3
  OBVIOUS
<1>21. /\ Text(c4) /\ Len(c4) = m + 15
      /\ Stands(p1, c4, 0) /\ Stands(q1, c4, 2) /\ Stands(p2, c4, 5)
      /\ Stands(q2, c4, 7) /\ Stands(p3, c4, m + 9)
  <2>1. Extends(c4, c3, p3)
    BY <1>19, <1>6, <1>20, JoinedExtends
  <2>2. Text(c4) /\ Len(c4) = m + 15
    BY <1>19, <1>1, <1>6, <2>1 DEF Extends
  <2>3. Stands(p3, c4, m + 9)
    BY <1>19, <2>1 DEF Extends
  <2>4. \A u, d : Text(u) /\ d \in Nat /\ Stands(u, c3, d) => Stands(u, c4, d)
    BY <2>1 DEF Extends
  <2>5. m + 9 \in Nat /\ m + 15 \in Nat /\ m + 17 \in Nat /\ m + 20 \in Nat /\ m + 22 \in Nat
    BY <1>1
  <2> QED BY <1>11, <1>2, <1>3, <1>8, <1>19, <2>2, <2>3, <2>4, <2>5
<1>22. PICK c5 : c5 = c4 \o p4
  OBVIOUS
<1>23. /\ Text(c5) /\ Len(c5) = m + 17
      /\ Stands(p1, c5, 0) /\ Stands(q1, c5, 2) /\ Stands(p2, c5, 5)
      /\ Stands(q2, c5, 7) /\ Stands(p3, c5, m + 9) /\ Stands(p4, c5, m + 15)
  <2>1. Extends(c5, c4, p4)
    BY <1>21, <1>4, <1>22, JoinedExtends
  <2>2. Text(c5) /\ Len(c5) = m + 17
    BY <1>21, <1>1, <1>4, <2>1 DEF Extends
  <2>3. Stands(p4, c5, m + 15)
    BY <1>21, <2>1 DEF Extends
  <2>4. \A u, d : Text(u) /\ d \in Nat /\ Stands(u, c4, d) => Stands(u, c5, d)
    BY <2>1 DEF Extends
  <2>5. m + 9 \in Nat /\ m + 15 \in Nat /\ m + 17 \in Nat /\ m + 20 \in Nat /\ m + 22 \in Nat
    BY <1>1
  <2> QED BY <1>11, <1>2, <1>3, <1>6, <1>8, <1>21, <2>2, <2>3, <2>4, <2>5
<1>24. PICK c6 : c6 = c5 \o q4
  OBVIOUS
<1>25. /\ Text(c6) /\ Len(c6) = m + 20
      /\ Stands(p1, c6, 0) /\ Stands(q1, c6, 2) /\ Stands(p2, c6, 5)
      /\ Stands(q2, c6, 7) /\ Stands(p3, c6, m + 9) /\ Stands(p4, c6, m + 15)
      /\ Stands(q4, c6, m + 17)
  <2>1. Extends(c6, c5, q4)
    BY <1>23, <1>9, <1>24, JoinedExtends
  <2>2. Text(c6) /\ Len(c6) = m + 20
    BY <1>23, <1>1, <1>9, <2>1 DEF Extends
  <2>3. Stands(q4, c6, m + 17)
    BY <1>23, <2>1 DEF Extends
  <2>4. \A u, d : Text(u) /\ d \in Nat /\ Stands(u, c5, d) => Stands(u, c6, d)
    BY <2>1 DEF Extends
  <2>5. m + 9 \in Nat /\ m + 15 \in Nat /\ m + 17 \in Nat /\ m + 20 \in Nat /\ m + 22 \in Nat
    BY <1>1
  <2> QED BY <1>11, <1>2, <1>3, <1>4, <1>6, <1>8, <1>23, <2>2, <2>3, <2>4, <2>5
<1>26. PICK c7 : c7 = c6 \o p5
  OBVIOUS
<1>27. /\ Text(c7) /\ Len(c7) = m + 22
      /\ Stands(p1, c7, 0) /\ Stands(q1, c7, 2) /\ Stands(p2, c7, 5)
      /\ Stands(q2, c7, 7) /\ Stands(p3, c7, m + 9) /\ Stands(p4, c7, m + 15)
      /\ Stands(q4, c7, m + 17) /\ Stands(p5, c7, m + 20)
  <2>1. Extends(c7, c6, p5)
    BY <1>25, <1>5, <1>26, JoinedExtends
  <2>2. Text(c7) /\ Len(c7) = m + 22
    BY <1>25, <1>1, <1>5, <2>1 DEF Extends
  <2>3. Stands(p5, c7, m + 20)
    BY <1>25, <2>1 DEF Extends
  <2>4. \A u, d : Text(u) /\ d \in Nat /\ Stands(u, c6, d) => Stands(u, c7, d)
    BY <2>1 DEF Extends
  <2>5. m + 9 \in Nat /\ m + 15 \in Nat /\ m + 17 \in Nat /\ m + 20 \in Nat /\ m + 22 \in Nat
    BY <1>1
  <2> QED BY <1>11, <1>2, <1>3, <1>4, <1>6, <1>8, <1>9, <1>25, <2>2, <2>3, <2>4, <2>5
<1>28. PICK c8 : c8 = c7 \o q5
  OBVIOUS
<1>29. /\ Text(c8) /\ Len(c8) = m + 25
      /\ Stands(p1, c8, 0) /\ Stands(q1, c8, 2) /\ Stands(p2, c8, 5)
      /\ Stands(q2, c8, 7) /\ Stands(p3, c8, m + 9) /\ Stands(p4, c8, m + 15)
      /\ Stands(q4, c8, m + 17) /\ Stands(p5, c8, m + 20) /\ Stands(q5, c8, m + 22)
  <2>1. Extends(c8, c7, q5)
    BY <1>27, <1>10, <1>28, JoinedExtends
  <2>2. Text(c8) /\ Len(c8) = m + 25
    BY <1>27, <1>1, <1>10, <2>1 DEF Extends
  <2>3. Stands(q5, c8, m + 22)
    BY <1>27, <2>1 DEF Extends
  <2>4. \A u, d : Text(u) /\ d \in Nat /\ Stands(u, c7, d) => Stands(u, c8, d)
    BY <2>1 DEF Extends
  <2>5. m + 9 \in Nat /\ m + 15 \in Nat /\ m + 17 \in Nat /\ m + 20 \in Nat /\ m + 22 \in Nat
    BY <1>1
  <2> QED BY <1>11, <1>2, <1>3, <1>4, <1>5, <1>6, <1>8, <1>9, <1>27, <2>2, <2>3, <2>4, <2>5
<1>30. PICK c9 : c9 = c8 \o p6
  OBVIOUS
<1>31. /\ Text(c9) /\ Len(c9) = m + 26
      /\ Stands(p1, c9, 0) /\ Stands(q1, c9, 2) /\ Stands(p2, c9, 5)
      /\ Stands(q2, c9, 7) /\ Stands(p3, c9, m + 9) /\ Stands(p4, c9, m + 15)
      /\ Stands(q4, c9, m + 17) /\ Stands(p5, c9, m + 20) /\ Stands(q5, c9, m + 22)
      /\ Stands(p6, c9, m + 25)
  <2>1. Extends(c9, c8, p6)
    BY <1>29, <1>7, <1>30, JoinedExtends
  <2>2. Text(c9) /\ Len(c9) = m + 26
    BY <1>29, <1>1, <1>7, <2>1 DEF Extends
  <2>3. Stands(p6, c9, m + 25)
    BY <1>29, <2>1 DEF Extends
  <2>4. \A u, d : Text(u) /\ d \in Nat /\ Stands(u, c8, d) => Stands(u, c9, d)
    BY <2>1 DEF Extends
  <2>5. m + 9 \in Nat /\ m + 15 \in Nat /\ m + 17 \in Nat /\ m + 20 \in Nat /\ m + 22 \in Nat
    BY <1>1
  <2> QED BY <1>10, <1>11, <1>2, <1>3, <1>4, <1>5, <1>6, <1>8, <1>9, <1>29, <2>2, <2>3, <2>4, <2>5
<1>32. c9 = x
  BY <1>12, <1>14, <1>16, <1>18, <1>20, <1>22, <1>24, <1>26, <1>28, <1>30
<1>33. PaymentHead(x, s)
  <2>1. /\ c9[0 + 1] = p1[1] /\ c9[0 + 2] = p1[2]
        /\ c9[2 + 1] = q1[1] /\ c9[2 + 2] = q1[2] /\ c9[2 + 3] = q1[3]
        /\ c9[5 + 1] = p2[1] /\ c9[5 + 2] = p2[2]
    BY <1>31, <1>2, <1>3, <1>8 DEF Stands
  <2>2. c9[7 + 1] = q2[1]
    <3>1. 1 \in 1 .. Len(q2)
      BY <1>1, <1>11
    <3> QED BY <1>31, <3>1 DEF Stands
  <2>3. /\ 0 + 1 = 1 /\ 0 + 2 = 2 /\ 2 + 1 = 3 /\ 2 + 2 = 4 /\ 2 + 3 = 5 /\ 5 + 1 = 6
        /\ 5 + 2 = 7 /\ 7 + 1 = 8
    OBVIOUS
  <2> QED BY <1>32, <1>2, <1>3, <1>8, <1>11, <2>1, <2>2, <2>3 DEF PaymentHead
<1>34. Stands(e, x, 8)
  <2>1. 8 + Len(e) <= Len(x)
    BY <1>0, <1>31, <1>1, <1>32
  <2>2. ASSUME NEW i \in 1 .. Len(e) PROVE x[8 + i] = e[i]
    <3>1. PICK j : j = 1 + i
      OBVIOUS
    <3>2. j \in 1 .. Len(q2) /\ 7 + j = 8 + i
      BY <1>0, <1>1, <1>11, <3>1
    <3>3. c9[7 + j] = q2[j]
      BY <1>31, <3>2 DEF Stands
    <3>4. q2[1 + i] = e[i]
      BY <1>11 DEF Stands
    <3> QED BY <1>32, <3>1, <3>2, <3>3, <3>4
  <2> QED BY <2>1, <2>2 DEF Stands
<1>35. PaymentTail(x, m + 8, t.amount, t.fee, g, t.tx_hash)
  <2>0. PICK d : d = m + 8
    OBVIOUS
  <2>1. d \in Nat /\ m + 9 = d + 1 /\ m + 15 = d + 7 /\ m + 17 = d + 9 /\ m + 20 = d + 12
        /\ m + 22 = d + 14 /\ m + 25 = d + 17 /\ 7 + (m + 2) = d + 1
    BY <1>1, <2>0
  <2>2. x[d + 1] = Quote
    <3>1. m + 2 \in 1 .. Len(q2)
      BY <1>1, <1>11
    <3>2. c9[7 + (m + 2)] = q2[m + 2]
      BY <1>31, <3>1 DEF Stands
    <3> QED BY <1>32, <1>11, <2>1, <3>2
  <2>3. /\ x[(d + 1) + 1] = p3[1] /\ x[(d + 1) + 2] = p3[2] /\ x[(d + 1) + 3] = p3[3]
        /\ x[(d + 1) + 4] = p3[4] /\ x[(d + 1) + 5] = p3[5] /\ x[(d + 1) + 6] = p3[6]
    <3>1. Stands(p3, x, d + 1)
      BY <1>31, <1>32, <2>1
    <3> QED BY <1>6, <3>1 DEF Stands
  <2>4. x[(d + 7) + 1] = p4[1] /\ x[(d + 7) + 2] = p4[2]
    <3>1. Stands(p4, x, d + 7)
      BY <1>31, <1>32, <2>1
    <3> QED BY <1>4, <3>1 DEF Stands
  <2>5. x[(d + 9) + 1] = q4[1] /\ x[(d + 9) + 2] = q4[2] /\ x[(d + 9) + 3] = q4[3]
    <3>1. Stands(q4, x, d + 9)
      BY <1>31, <1>32, <2>1
    <3> QED BY <1>9, <3>1 DEF Stands
  <2>6. x[(d + 12) + 1] = p5[1] /\ x[(d + 12) + 2] = p5[2]
    <3>1. Stands(p5, x, d + 12)
      BY <1>31, <1>32, <2>1
    <3> QED BY <1>5, <3>1 DEF Stands
  <2>7. x[(d + 14) + 1] = q5[1] /\ x[(d + 14) + 2] = q5[2] /\ x[(d + 14) + 3] = q5[3]
    <3>1. Stands(q5, x, d + 14)
      BY <1>31, <1>32, <2>1
    <3> QED BY <1>10, <3>1 DEF Stands
  <2>8. x[(d + 17) + 1] = p6[1]
    <3>1. Stands(p6, x, d + 17)
      BY <1>31, <1>32, <2>1
    <3> QED BY <1>7, <3>1 DEF Stands
  <2>9. /\ (d + 1) + 1 = d + 2 /\ (d + 1) + 2 = d + 3 /\ (d + 1) + 3 = d + 4
        /\ (d + 1) + 4 = d + 5 /\ (d + 1) + 5 = d + 6 /\ (d + 1) + 6 = d + 7
        /\ (d + 7) + 1 = d + 8 /\ (d + 7) + 2 = d + 9 /\ (d + 9) + 1 = d + 10
        /\ (d + 9) + 2 = d + 11 /\ (d + 9) + 3 = d + 12 /\ (d + 12) + 1 = d + 13
        /\ (d + 12) + 2 = d + 14 /\ (d + 14) + 1 = d + 15 /\ (d + 14) + 2 = d + 16
        /\ (d + 14) + 3 = d + 17 /\ (d + 17) + 1 = d + 18
    <3>1. d \in Nat
      BY <2>1
    <3> QED BY <3>1
  <2>10. PaymentTail(x, d, t.amount, t.fee, g, t.tx_hash)
    BY <1>4, <1>5, <1>6, <1>7, <1>9, <1>10, <2>2, <2>3, <2>4, <2>5, <2>6, <2>7, <2>8, <2>9
       DEF PaymentTail
  <2> QED BY <2>0, <2>10
<1>36. /\ \A j \in 1 .. m : e[j][1] # "key"
       /\ \A j \in 1 .. m : e[j] = Quote => j - 1 \in 1 .. m /\ e[j - 1] = Backslash
  <2>1. PICK r : r = t.receiver
    OBVIOUS
  <2>2. Text(r) /\ \A i \in 1 .. Len(r) : r[i][1] # "key"
    BY <1>a, <2>1 DEF TypedTx, Typed
  <2>3. PICK o : Spread(r, e, o)
    BY <1>0, <2>1, <2>2, EscapeSpread
  <2>4. \A j \in 1 .. Len(e) :
           /\ e[j] = Quote => j - 1 \in 1 .. Len(e) /\ e[j - 1] = Backslash
           /\ e[j] = Backslash \/ \E i \in 1 .. Len(r) : e[j] = r[i]
    <3>1. Text(r) /\ Text(e) /\ Spread(r, e, o)
      BY <1>1, <2>2, <2>3
    <3> QED BY <3>1, QuotesEscaped
  <2>5. Backslash[1] # "key"
    BY Chars
  <2> QED BY <1>0, <2>2, <2>4, <2>5
<1>37. PaymentText(x, m, e, s, t.amount, t.fee, g, t.tx_hash)
  BY <1>0, <1>1, <1>33, <1>34, <1>35, <1>36 DEF PaymentText
<1> QED BY <1>0, <1>31, <1>1, <1>32, <1>37

\* The kinds of tokens that the program writes.
LEMMA TokenKinds ==
    /\ \A k : Key(k)[1] = "key" /\ Key(k) \notin {Quote, Backslash, Close, CloseList}
    /\ \A n : Number(n)[1] # "key" /\ Number(n) \notin {Quote, Backslash, Close, CloseList}
    /\ \A w : Word(w)[1] # "key" /\ Word(w) \notin {Quote, Backslash, Close, CloseList}
    /\ \A c \in {Open, Comma, Quote} : c[1] # "key" /\ c \notin {Backslash, Close, CloseList}
    /\ Close[1] # "key" /\ Open # Quote /\ Comma # Quote /\ Backslash[1] # "key"
<1>1. \A x, y : /\ Key(x) # Char(y) /\ Number(x) # Char(y) /\ Word(x) # Char(y)
  BY Kinds
<1>2. /\ Quote = Char("\"") /\ Backslash = Char("\\") /\ Close = Char("}")
      /\ CloseList = Char("]") /\ Open = Char("{") /\ Comma = Char(",")
  BY DEF Quote, Backslash, Close, CloseList, Open, Comma
<1>3. \A x : Char(x)[2] = x
  BY DEF Char
<1>4. \A x, y : x # y => Char(x) # Char(y)
  BY <1>3
<1>5. \A c \in {Open, Comma, Quote} : c \notin {Backslash, Close, CloseList}
  BY <1>2, <1>4
<1>6. Open # Quote /\ Comma # Quote
  BY <1>2, <1>4
<1>7. \A k : Key(k) \notin {Quote, Backslash, Close, CloseList}
  BY <1>1, <1>2
<1>8. \A n : Number(n) \notin {Quote, Backslash, Close, CloseList}
  BY <1>1, <1>2
<1>9. \A w : Word(w) \notin {Quote, Backslash, Close, CloseList}
  BY <1>1, <1>2
<1> QED BY <1>5, <1>6, <1>7, <1>8, <1>9, Kinds, Chars

\* In it the keys are where the program writes them, and a closing bracket is
\* one that was typed, or the last token.
LEMMA PaymentTokens ==
    ASSUME NEW x, NEW m, NEW e, NEW s, NEW a, NEW f, NEW g, NEW h,
           PaymentText(x, m, e, s, a, f, g, h)
    PROVE  /\ \A i \in 1 .. m + 26 :
                 x[i][1] = "key" => i \in {2, 7, m + 11, m + 14, m + 17, m + 22}
           /\ \A i \in 1 .. m + 25 :
                 x[i] \in {Close, CloseList} => i - 8 \in 1 .. m
<1>0. /\ m \in Nat /\ m = Len(e) /\ (\A j \in 1 .. m : e[j][1] # "key")
      /\ PaymentHead(x, s) /\ Stands(e, x, 8) /\ PaymentTail(x, m + 8, a, f, g, h)
  BY DEF PaymentText
<1>1. PICK d : d = m + 8
  OBVIOUS
<1>2. PaymentTail(x, d, a, f, g, h) /\ d \in Nat
  BY <1>0, <1>1
<1>3. \A i \in {1, 3, 4, 5, 6, 8} : x[i][1] # "key"
  BY <1>0, TokenKinds DEF PaymentHead
<1>4. \A i \in {1, 2, 3, 4, 5, 6, 7, 8} : x[i] \notin {Close, CloseList}
  BY <1>0, TokenKinds DEF PaymentHead
<1>5. \A i \in {1, 2, 4, 5, 7, 8, 10, 11, 12, 13, 15, 16, 17, 18} : x[d + i][1] # "key"
  <2>1. /\ x[d + 1][1] # "key" /\ x[d + 2][1] # "key" /\ x[d + 4][1] # "key"
        /\ x[d + 5][1] # "key" /\ x[d + 7][1] # "key" /\ x[d + 8][1] # "key"
        /\ x[d + 10][1] # "key"
    BY <1>2, TokenKinds DEF PaymentTail
  <2>2. /\ x[d + 11][1] # "key" /\ x[d + 12][1] # "key" /\ x[d + 13][1] # "key"
        /\ x[d + 15][1] # "key" /\ x[d + 16][1] # "key" /\ x[d + 17][1] # "key"
        /\ x[d + 18][1] # "key"
    BY <1>2, TokenKinds DEF PaymentTail
  <2> QED BY <2>1, <2>2
<1>6. \A i \in {1, 2, 3, 4, 5, 6, 7, 8, 9, 10, 11, 12, 13, 14, 15, 16, 17} :
         x[d + i] \notin {Close, CloseList}
  <2>1. /\ x[d + 1] \notin {Close, CloseList} /\ x[d + 2] \notin {Close, CloseList}
        /\ x[d + 3] \notin {Close, CloseList} /\ x[d + 4] \notin {Close, CloseList}
        /\ x[d + 5] \notin {Close, CloseList} /\ x[d + 6] \notin {Close, CloseList}
        /\ x[d + 7] \notin {Close, CloseList} /\ x[d + 8] \notin {Close, CloseList}
    BY <1>2, TokenKinds DEF PaymentTail
  <2>2. /\ x[d + 9] \notin {Close, CloseList}
        /\ x[d + 10] \notin {Close, CloseList}
        /\ x[d + 11] \notin {Close, CloseList}
        /\ x[d + 12] \notin {Close, CloseList}
        /\ x[d + 13] \notin {Close, CloseList}
        /\ x[d + 14] \notin {Close, CloseList}
        /\ x[d + 15] \notin {Close, CloseList}
        /\ x[d + 16] \notin {Close, CloseList}
        /\ x[d + 17] \notin {Close, CloseList}
    BY <1>2, TokenKinds DEF PaymentTail
  <2> QED BY <2>1, <2>2
<1>7. \A j \in 1 .. m : x[8 + j][1] # "key"
  BY <1>0 DEF Stands
<1>8. ASSUME NEW i \in 1 .. m + 26
      PROVE  \/ i \in {1, 2, 3, 4, 5, 6, 7, 8}
             \/ i - 8 \in 1 .. m /\ 8 + (i - 8) = i
             \/ i - d \in 1 .. 18 /\ d + (i - d) = i
  <2>1. m \in Nat
    BY <1>0
  <2> QED BY <1>1, <2>1
<1>9. ASSUME NEW i \in 1 .. m + 26, x[i][1] = "key"
      PROVE  i \in {2, 7, m + 11, m + 14, m + 17, m + 22}
  <2>1. CASE i \in {1, 2, 3, 4, 5, 6, 7, 8}
    BY <1>3, <1>9, <2>1
  <2>2. CASE i - 8 \in 1 .. m /\ 8 + (i - 8) = i
    BY <1>7, <1>9, <2>2
  <2>3. CASE i - d \in 1 .. 18 /\ d + (i - d) = i
    <3>1. PICK j : j = i - d
      OBVIOUS
    <3>2. j \in 1 .. 18 /\ d + j = i
      BY <2>3, <3>1
    <3>3. j \notin {1, 2, 4, 5, 7, 8, 10, 11, 12, 13, 15, 16, 17, 18}
      BY <1>5, <1>9, <3>2
    <3>4. j \in {3, 6, 9, 14}
      BY <3>2, <3>3
    <3>5. m \in Nat
      BY <1>0
    <3> QED BY <1>1, <3>2, <3>4, <3>5
  <2> QED BY <1>8, <2>1, <2>2, <2>3
<1>10. ASSUME NEW i \in 1 .. m + 25, x[i] \in {Close, CloseList}
       PROVE  i - 8 \in 1 .. m
  <2>1. CASE i \in {1, 2, 3, 4, 5, 6, 7, 8}
    BY <1>4, <1>10, <2>1
  <2>2. CASE i - d \in 1 .. 18 /\ d + (i - d) = i
    <3>1. PICK j : j = i - d
      OBVIOUS
    <3>a. m \in Nat
      BY <1>0
    <3>2. j \in 1 .. 18 /\ d + j = i /\ j # 18
      BY <1>1, <2>2, <3>1, <3>a
    <3>3. j \in {1, 2, 3, 4, 5, 6, 7, 8, 9, 10, 11, 12, 13, 14, 15, 16, 17}
      BY <3>2
    <3> QED BY <1>6, <1>10, <3>2, <3>3
  <2>3. i \in 1 .. m + 26
    <3>1. m \in Nat
      BY <1>0
    <3> QED BY <3>1
  <2> QED BY <1>8, <2>1, <2>2, <2>3
<1> QED BY <1>9, <1>10

\* The quotes before the receiver.
LEMMA ThreeQuotes ==
    ASSUME NEW S, S = {8, 10, 13}
    PROVE  Cardinality(S) = 3
<1>1. PICK U : U = {8}
  OBVIOUS
<1>2. IsFiniteSet(U) /\ Cardinality(U) = 1
  BY <1>1, FS_Singleton
<1>3. PICK V : V = U \cup {10}
  OBVIOUS
<1>4. IsFiniteSet(V) /\ Cardinality(V) = 2
  <2>1. 10 \notin U
    BY <1>1
  <2> QED BY <1>2, <1>3, <2>1, FS_AddElement
<1>5. Cardinality(V \cup {13}) = 3
  <2>1. 13 \notin V
    BY <1>1, <1>3
  <2> QED BY <1>4, <2>1, FS_AddElement
<1>6. V \cup {13} = S
  BY <1>1, <1>3
<1> QED BY <1>5, <1>6

\* Whatever was typed as the receiver, protocol_parse_msg finds the end of the
\* payment behind all that was written: where the receiver stands, the number
\* of quotes before is odd.
LEMMA PaymentCut ==
    ASSUME NEW x, NEW m, NEW e, NEW s, NEW a, NEW f, NEW g, NEW h,
           PaymentText(x, m, e, s, a, f, g, h),
           NEW line, Text(line), Len(line) = m + 32, FindKey(line, "payload") = 6,
           \A i \in 1 .. m + 26 : line[5 + i] = x[i]
    PROVE  /\ Text(ParsePayload(line)) /\ m + 26 <= Len(ParsePayload(line))
           /\ \A i \in 1 .. m + 26 : ParsePayload(line)[i] = x[i]
<1> DEFINE start == FindKey(line, "payload")
           places == start .. Len(line)
           quotes == {p \in places : line[p] = Quote /\ (p = start \/ line[p - 1] # Backslash)}
           outside == {p \in places \ quotes : Cardinality(quotes \cap (start .. p)) % 2 = 0}
           opens == {p \in outside : line[p] \in {Open, OpenList}}
           closes == {p \in outside : line[p] \in {Close, CloseList}}
           depth(p) == Cardinality(opens \cap (start .. p))
                         - Cardinality(closes \cap (start .. p))
           T == {p \in closes : depth(p) <= 0} \cup {Len(line)}
<1>0. /\ m \in Nat /\ m = Len(e)
      /\ (\A j \in 1 .. m : e[j] = Quote => j - 1 \in 1 .. m /\ e[j - 1] = Backslash)
      /\ PaymentHead(x, s) /\ Stands(e, x, 8)
  BY DEF PaymentText
<1>a. m \in Nat
  BY <1>0
<1>1. ParsePayload(line) = SubSeq(line, 6, Min(T))
  <2>1. ParsePayload(line) = IF start = 0 THEN << >> ELSE SubSeq(line, start, Min(T))
    BY DEF ParsePayload
  <2>2. start = 6 /\ 6 # 0
    OBVIOUS
  <2>3. PICK M, k : M = Min(T) /\ k = start
    OBVIOUS
  <2> HIDE DEF T, start
  <2>4. ParsePayload(line) = SubSeq(line, k, M)
    BY <2>1, <2>2, <2>3
  <2> QED BY <2>2, <2>3, <2>4
<1>2. \A i \in 1 .. 8 : line[5 + i] = x[i]
  BY <1>a
<1>3. /\ line[6] = Open /\ line[7] = Key("sender") /\ line[8] = Quote /\ line[9] = Word(s)
      /\ line[10] = Quote /\ line[11] = Comma /\ line[12] = Key("receiver")
      /\ line[13] = Quote
  <2>1. /\ line[5 + 1] = x[1] /\ line[5 + 2] = x[2] /\ line[5 + 3] = x[3]
        /\ line[5 + 4] = x[4] /\ line[5 + 5] = x[5] /\ line[5 + 6] = x[6]
        /\ line[5 + 7] = x[7] /\ line[5 + 8] = x[8]
    BY <1>2
  <2>2. /\ 5 + 1 = 6 /\ 5 + 2 = 7 /\ 5 + 3 = 8 /\ 5 + 4 = 9 /\ 5 + 5 = 10 /\ 5 + 6 = 11
        /\ 5 + 7 = 12 /\ 5 + 8 = 13
    OBVIOUS
  <2> QED BY <1>0, <2>1, <2>2 DEF PaymentHead
<1>4. \A j \in 1 .. m : line[13 + j] = e[j]
  <2> SUFFICES ASSUME NEW j \in 1 .. m PROVE line[13 + j] = e[j]
    OBVIOUS
  <2>1. PICK i : i = 8 + j
    OBVIOUS
  <2>2. i \in 1 .. m + 26 /\ 5 + i = 13 + j
    BY <1>a, <2>1
  <2>3. line[5 + i] = x[i]
    BY <2>2
  <2>4. x[8 + j] = e[j]
    BY <1>0 DEF Stands
  <2> QED BY <2>1, <2>2, <2>3, <2>4
<1>5. ASSUME NEW q \in 6 .. m + 13
      PROVE  line[q] = Quote /\ (q = 6 \/ line[q - 1] # Backslash) <=> q \in {8, 10, 13}
  <2>1. CASE q \in {6, 7, 9, 11, 12}
    BY <1>3, <2>1, TokenKinds
  <2>2. CASE q \in {8, 10, 13}
    <3>1. 8 - 1 = 7 /\ 10 - 1 = 9 /\ 13 - 1 = 12
      OBVIOUS
    <3> QED BY <1>3, <2>2, <3>1, TokenKinds
  <2>3. CASE q \notin {6, 7, 8, 9, 10, 11, 12, 13}
    <3>1. PICK j : j = q - 13
      OBVIOUS
    <3>2. j \in 1 .. m /\ 13 + j = q /\ 13 + (j - 1) = q - 1 /\ q # 6
      BY <1>a, <2>3, <3>1
    <3>3. line[q] = e[j]
      BY <1>4, <3>2
    <3>4. e[j] = Quote => line[q - 1] = Backslash
      <4>1. e[j] = Quote => j - 1 \in 1 .. m /\ e[j - 1] = Backslash
        BY <1>0, <3>2
      <4> QED BY <1>4, <3>2, <4>1
    <3> QED BY <2>3, <3>2, <3>3, <3>4
  <2> QED BY <2>1, <2>2, <2>3
<1>6. ASSUME NEW p \in T
      PROVE  p \in Nat /\ m + 31 <= p /\ p <= Len(line)
  <2>1. CASE p = Len(line)
    BY <1>a, <2>1
  <2>2. CASE p \in closes
    <3>0. PICK S : S = quotes \cap (6 .. p)
      OBVIOUS
    <3>1. /\ p \in 6 .. m + 32 /\ line[p] \in {Close, CloseList}
          /\ Cardinality(S) % 2 = 0
      BY <1>a, <2>2, <3>0
    <3>2. ASSUME p < m + 31
          PROVE  FALSE
      <4>1. PICK i : i = p - 5
        OBVIOUS
      <4>2. i \in 1 .. m + 25 /\ i \in 1 .. m + 26 /\ 5 + i = p
        BY <1>a, <3>1, <3>2, <4>1
      <4>3. line[5 + i] = x[i]
        BY <4>2
      <4>4. x[i] \in {Close, CloseList}
        BY <3>1, <4>2, <4>3
      <4>5. i - 8 \in 1 .. m
        BY <4>2, <4>4, PaymentTokens
      <4>6. p \in 14 .. m + 13
        BY <1>a, <4>2, <4>5
      <4>7. S = {8, 10, 13}
        <5>1. 6 .. p \subseteq 6 .. m + 13 /\ 6 .. p \subseteq places /\ {8, 10, 13} \subseteq 6 .. p
          BY <1>a, <4>6
        <5>2. ASSUME NEW q \in 6 .. p
              PROVE  q \in S <=> q \in {8, 10, 13}
          <6>1. q \in S <=> line[q] = Quote /\ (q = 6 \/ line[q - 1] # Backslash)
            BY <3>0, <5>1
          <6>2. q \in 6 .. m + 13
            BY <5>1
          <6> QED BY <1>5, <6>1, <6>2
        <5>3. S \subseteq 6 .. p
          BY <3>0
        <5> QED BY <5>1, <5>2, <5>3
      <4>8. Cardinality(S) = 3
        BY <4>7, ThreeQuotes
      <4>9. 3 % 2 = 1
        OBVIOUS
      <4> QED BY <3>1, <4>8, <4>9
    <3> QED BY <1>a, <3>1, <3>2
  <2> QED BY <2>1, <2>2
<1>7. Len(line) \in T
  OBVIOUS
<1> HIDE DEF T
<1>8. Min(T) \in T
  <2>1. T \subseteq Nat /\ T # {}
    BY <1>6, <1>7
  <2> QED BY <2>1, MinProperties
<1>9. PICK n : n = Min(T)
  OBVIOUS
<1>10. n \in Nat /\ m + 31 <= n /\ n <= Len(line)
  BY <1>6, <1>8, <1>9
<1>11. PICK q \in Nat \ {0} : q = 6
  OBVIOUS
<1>12. PICK u : u = SubSeq(line, q, n)
  OBVIOUS
<1>13. /\ CutFrom(u, line) /\ Len(u) = IF q <= n THEN n - q + 1 ELSE 0
       /\ \A i \in 1 .. Len(u) : u[i] = line[q - 1 + i]
  BY <1>10, <1>11, <1>12, SubSeqCuts
<1>14. m + 26 <= Len(u)
  <2>1. q <= n
    BY <1>a, <1>10, <1>11
  <2>2. Len(u) = n - 6 + 1
    BY <1>11, <1>13, <2>1
  <2> QED BY <1>a, <1>10, <2>2
<1>15. ASSUME NEW i \in 1 .. m + 26
       PROVE  u[i] = x[i]
  <2>1. Len(u) \in Nat
    BY <1>13, TextFields DEF CutFrom
  <2>2. i \in 1 .. Len(u) /\ q - 1 + i = 5 + i
    BY <1>a, <1>11, <1>14, <2>1
  <2>3. u[i] = line[q - 1 + i] /\ line[5 + i] = x[i]
    BY <1>13, <2>2
  <2> QED BY <2>2, <2>3
<1>16. u = ParsePayload(line)
  BY <1>1, <1>9, <1>11, <1>12
<1> QED BY <1>13, <1>14, <1>15, <1>16 DEF CutFrom

\* protocol_deserialize_tx reads from it what was written.
LEMMA PaymentRead ==
    ASSUME NEW r, Text(r), \A i \in 1 .. Len(r) : r[i] # NUL,
           NEW u, NEW m, NEW e, NEW s, NEW a, NEW f, NEW g, NEW h,
           PaymentText(u, m, e, s, a, f, g, h), e = JsonEscape(r), Text(u), m + 26 <= Len(u)
    PROVE  /\ TxParses(u)
           /\ ParseTx(u) = [sender |-> <<Word(s)>>, receiver |-> r, amount |-> a, fee |-> f,
                            signature |-> <<Word(g)>>, tx_hash |-> h]
<1>0. /\ m \in Nat /\ m = Len(e) /\ PaymentHead(u, s) /\ Stands(e, u, 8)
      /\ PaymentTail(u, m + 8, a, f, g, h)
  BY DEF PaymentText
<1>1. PICK d : d = m + 8
  OBVIOUS
<1>2. PaymentTail(u, d, a, f, g, h) /\ d \in Nat /\ Len(u) \in Nat /\ d + 18 <= Len(u)
  BY <1>0, <1>1, TextFields
<1>3. \A i \in Nat \ {0} : i <= d + 18 => At(u, i) = u[i] /\ i \in 1 .. Len(u)
  BY <1>2, AtIs
<1>4. \A i \in 1 .. d + 18 :
         u[i][1] = "key" => i \in {2, 7, d + 3, d + 6, d + 9, d + 14}
  <2>1. \A i \in 1 .. m + 26 :
           u[i][1] = "key" => i \in {2, 7, m + 11, m + 14, m + 17, m + 22}
    BY PaymentTokens
  <2>2. d + 18 = m + 26 /\ d + 3 = m + 11 /\ d + 6 = m + 14 /\ d + 9 = m + 17 /\ d + 14 = m + 22
    <3>1. m \in Nat
      BY <1>0
    <3> QED BY <1>1, <3>1
  <2> QED BY <2>1, <2>2
<1>5. /\ u[2] = Key("sender") /\ u[7] = Key("receiver") /\ u[d + 3] = Key("amount")
      /\ u[d + 6] = Key("fee") /\ u[d + 9] = Key("signature") /\ u[d + 14] = Key("tx_hash")
  BY <1>0, <1>2 DEF PaymentHead, PaymentTail
<1>6. ASSUME NEW k, NEW p \in Nat \ {0}, p <= d + 18, u[p] = Key(k),
             \A i \in {2, 7, d + 3, d + 6, d + 9, d + 14} : i < p => u[i] # Key(k)
      PROVE  FindKey(u, k) = p + 1
  <2>1. p \in 1 .. Len(u)
    BY <1>3, <1>6
  <2>2. ASSUME NEW i \in 1 .. p - 1 PROVE u[i] # Key(k)
    <3>0. p \in Nat /\ d \in Nat /\ p <= d + 18
      BY <1>2, <1>6
    <3>1. i \in 1 .. d + 18 /\ i < p
      BY <3>0
    <3>2. u[i] = Key(k) => u[i][1] = "key"
      BY Kinds
    <3> QED BY <1>4, <1>6, <3>1, <3>2
  <2> QED BY <1>6, <2>1, <2>2, FirstKey
<1>7. /\ Key("sender") # Key("receiver") /\ Key("sender") # Key("amount")
      /\ Key("sender") # Key("fee") /\ Key("sender") # Key("signature")
      /\ Key("sender") # Key("tx_hash") /\ Key("receiver") # Key("amount")
      /\ Key("receiver") # Key("fee") /\ Key("receiver") # Key("signature")
      /\ Key("receiver") # Key("tx_hash") /\ Key("amount") # Key("fee")
      /\ Key("amount") # Key("signature") /\ Key("amount") # Key("tx_hash")
      /\ Key("fee") # Key("signature") /\ Key("fee") # Key("tx_hash")
      /\ Key("signature") # Key("tx_hash")
  BY KeysApart
<1>8. FindKey(u, "sender") = 2 + 1
  <2>1. PICK p : p = 2
    OBVIOUS
  <2>2. p \in Nat \ {0} /\ p <= d + 18 /\ u[p] = Key("sender")
    BY <1>2, <1>5, <2>1
  <2>3. \A i \in {2, 7, d + 3, d + 6, d + 9, d + 14} : i < p => u[i] # Key("sender")
    BY <1>2, <1>5, <1>7, <2>1
  <2> QED BY <1>6, <2>1, <2>2, <2>3
<1>9. FindKey(u, "receiver") = 7 + 1
  <2>1. PICK p : p = 7
    OBVIOUS
  <2>2. p \in Nat \ {0} /\ p <= d + 18 /\ u[p] = Key("receiver")
    BY <1>2, <1>5, <2>1
  <2>3. \A i \in {2, 7, d + 3, d + 6, d + 9, d + 14} : i < p => u[i] # Key("receiver")
    BY <1>2, <1>5, <1>7, <2>1
  <2> QED BY <1>6, <2>1, <2>2, <2>3
<1>10. FindKey(u, "amount") = d + 3 + 1
  <2>1. PICK p : p = d + 3
    OBVIOUS
  <2>2. p \in Nat \ {0} /\ p <= d + 18 /\ u[p] = Key("amount")
    BY <1>2, <1>5, <2>1
  <2>3. \A i \in {2, 7, d + 3, d + 6, d + 9, d + 14} : i < p => u[i] # Key("amount")
    BY <1>2, <1>5, <1>7, <2>1
  <2> QED BY <1>6, <2>1, <2>2, <2>3
<1>11. FindKey(u, "fee") = d + 6 + 1
  <2>1. PICK p : p = d + 6
    OBVIOUS
  <2>2. p \in Nat \ {0} /\ p <= d + 18 /\ u[p] = Key("fee")
    BY <1>2, <1>5, <2>1
  <2>3. \A i \in {2, 7, d + 3, d + 6, d + 9, d + 14} : i < p => u[i] # Key("fee")
    BY <1>2, <1>5, <1>7, <2>1
  <2> QED BY <1>6, <2>1, <2>2, <2>3
<1>12. FindKey(u, "signature") = d + 9 + 1
  <2>1. PICK p : p = d + 9
    OBVIOUS
  <2>2. p \in Nat \ {0} /\ p <= d + 18 /\ u[p] = Key("signature")
    BY <1>2, <1>5, <2>1
  <2>3. \A i \in {2, 7, d + 3, d + 6, d + 9, d + 14} : i < p => u[i] # Key("signature")
    BY <1>2, <1>5, <1>7, <2>1
  <2> QED BY <1>6, <2>1, <2>2, <2>3
<1>13. FindKey(u, "tx_hash") = d + 14 + 1
  <2>1. PICK p : p = d + 14
    OBVIOUS
  <2>2. p \in Nat \ {0} /\ p <= d + 18 /\ u[p] = Key("tx_hash")
    BY <1>2, <1>5, <2>1
  <2>3. \A i \in {2, 7, d + 3, d + 6, d + 9, d + 14} : i < p => u[i] # Key("tx_hash")
    BY <1>2, <1>5, <1>7, <2>1
  <2> QED BY <1>6, <2>1, <2>2, <2>3
<1>14. HasString(u, "sender") /\ GetString(u, "sender") = <<Word(s)>>
  <2>1. At(u, 3) = Quote /\ At(u, 4) = Word(s) /\ At(u, 5) = Quote
    BY <1>0, <1>2, <1>3 DEF PaymentHead
  <2>2. PICK p \in Nat \ {0} : p = 4
    OBVIOUS
  <2>3. FindKey(u, "sender") = 3
    BY <1>8
  <2>4. HasString(u, "sender")
    BY <2>1, <2>3 DEF HasString
  <2>5. FindKey(u, "sender") + 1 = p /\ p + 1 = 5
    BY <2>2, <2>3
  <2>6. At(u, p) \notin {Quote, NUL, Backslash} /\ At(u, p + 1) \in {Quote, NUL}
    BY <2>1, <2>2, <2>5, KeysApart
  <2>7. GetString(u, "sender") = <<At(u, p)>>
    BY <2>4, <2>5, <2>6, StringIs
  <2> QED BY <2>1, <2>2, <2>4, <2>7
<1>15. HasString(u, "receiver") /\ GetString(u, "receiver") = r
  <2>1. PICK q \in Nat \ {0} : q = 8
    OBVIOUS
  <2>2. FindKey(u, "receiver") = q
    BY <1>9, <2>1
  <2>3. u[q] = Quote /\ Stands(e, u, q)
    BY <1>0, <2>1 DEF PaymentHead
  <2>4. q + Len(e) + 1 <= Len(u) /\ q + Len(e) + 1 = d + 1
    BY <1>0, <1>1, <1>2, <2>1
  <2>5. u[q + Len(e) + 1] = Quote
    BY <1>2, <2>4 DEF PaymentTail
  <2> QED BY <2>2, <2>3, <2>4, <2>5, ReadBack
<1>16. FindKey(u, "amount") # 0 /\ GetNumber(u, "amount") = a
  <2>1. PICK p : p = d + 4
    OBVIOUS
  <2>2. FindKey(u, "amount") = p /\ p \in Nat \ {0} /\ p <= d + 18
    BY <1>2, <1>10, <2>1
  <2>3. At(u, p) = Number(a)
    BY <1>2, <1>3, <2>1, <2>2 DEF PaymentTail
  <2> QED BY <2>2, <2>3, Kinds DEF GetNumber
<1>17. GetNumber(u, "fee") = f
  <2>1. PICK p : p = d + 7
    OBVIOUS
  <2>2. FindKey(u, "fee") = p /\ p \in Nat \ {0} /\ p <= d + 18
    BY <1>2, <1>11, <2>1
  <2>3. At(u, p) = Number(f)
    BY <1>2, <1>3, <2>1, <2>2 DEF PaymentTail
  <2> QED BY <2>2, <2>3, Kinds DEF GetNumber
<1>18. GetString(u, "signature") = <<Word(g)>>
  <2>1. PICK p : p = d + 11
    OBVIOUS
  <2>2. FindKey(u, "signature") = d + 10 /\ p \in Nat \ {0} /\ d + 10 \in Nat \ {0}
    BY <1>2, <1>12, <2>1
  <2>3. At(u, d + 10) = Quote /\ At(u, d + 11) = Word(g) /\ At(u, d + 12) = Quote
    <3>1. d + 11 \in Nat \ {0} /\ d + 12 \in Nat \ {0} /\ d + 10 <= d + 18
          /\ d + 11 <= d + 18 /\ d + 12 <= d + 18
      BY <1>2
    <3>2. u[d + 10] = Quote /\ u[d + 11] = Word(g) /\ u[d + 12] = Quote
      BY <1>2 DEF PaymentTail
    <3> QED BY <1>3, <2>2, <3>1, <3>2
  <2>4. FindKey(u, "signature") # 0 /\ FindKey(u, "signature") + 1 = p /\ p + 1 = d + 12
    BY <1>2, <2>1, <2>2
  <2>5. HasString(u, "signature")
    BY <2>2, <2>3, <2>4 DEF HasString
  <2>6. At(u, p) = Word(g)
    BY <2>1, <2>3
  <2>7. At(u, p) \notin {Quote, NUL, Backslash} /\ At(u, p + 1) \in {Quote, NUL}
    BY <2>3, <2>4, <2>6, KeysApart
  <2>8. GetString(u, "signature") = <<At(u, p)>>
    BY <2>2, <2>4, <2>5, <2>7, StringIs
  <2> QED BY <2>6, <2>8
<1>19. GetDigest(u, "tx_hash") = h
  <2>1. PICK p : p = d + 15
    OBVIOUS
  <2>2. FindKey(u, "tx_hash") = p /\ p \in Nat \ {0} /\ p + 1 = d + 16 /\ p + 2 = d + 17
    BY <1>2, <1>13, <2>1
  <2>3. At(u, p) = Quote /\ At(u, p + 1) = Word(h) /\ At(u, p + 2) \in {Quote, NUL}
    <3>1. /\ d + 15 \in Nat \ {0} /\ d + 16 \in Nat \ {0} /\ d + 17 \in Nat \ {0}
          /\ d + 15 <= d + 18 /\ d + 16 <= d + 18 /\ d + 17 <= d + 18
      BY <1>2
    <3>2. u[d + 15] = Quote /\ u[d + 16] = Word(h) /\ u[d + 17] = Quote
      BY <1>2 DEF PaymentTail
    <3> QED BY <1>3, <2>1, <2>2, <3>1, <3>2
  <2> QED BY <2>2, <2>3, DigestRead
<1>20. TxParses(u)
  BY <1>14, <1>15, <1>16 DEF TxParses
<1> QED BY <1>14, <1>15, <1>16, <1>17, <1>18, <1>19, <1>20 DEF ParseTx

-----------------------------------------------------------------------------
(* The payment that is broadcast, and the payment that is handled *)

\* What do_send makes.
Payment(r) == SignTx(Payer, TxCreate(Payer, r, Amount, Fee))

\* The digest of a transaction is never an empty field.
TxDigestsApart == \A s, r, a, f : TxHash(s, r, a, f) # Unset

\* Its fields.
LEMMA PaymentFields ==
    ASSUME NEW r \in Receivers, NEW t, t = Payment(r)
    PROVE  /\ \E s, g : /\ t = [sender |-> <<Word(s)>>, receiver |-> r, amount |-> Amount,
                                fee |-> Fee, signature |-> <<Word(g)>>,
                                tx_hash |-> t.tx_hash]
           /\ t.tx_hash = TxHash(Payer, r, Amount, Fee)
           /\ TypedTx(t) /\ VerifyTx(t)
<1>1. PICK c : c = TxCreate(Payer, r, Amount, Fee)
  OBVIOUS
<1>2. /\ c.sender = Payer /\ c.receiver = r /\ c.amount = Amount /\ c.fee = Fee
      /\ c.tx_hash = TxHash(Payer, r, Amount, Fee)
  BY <1>1 DEF TxCreate
<1>3. PICK g : g = [by |-> Payer, of |-> c.tx_hash]
  OBVIOUS
<1>4. PICK s, i : s = Payer[1][2] /\ i = <<Word(g)>>
  OBVIOUS
<1>5. Signature(Payer, c.tx_hash) = i /\ Payer = <<Word(s)>>
  BY <1>3, <1>4, WalletAssumption DEF Signature
<1>6. t = [sender |-> Payer, receiver |-> r, amount |-> Amount, fee |-> Fee,
           tx_hash |-> c.tx_hash, signature |-> i]
  BY <1>1, <1>2, <1>5 DEF Payment, SignTx, WithSignature
<1>7. t = [sender |-> Payer, receiver |-> r, amount |-> Amount, fee |-> Fee,
           signature |-> i, tx_hash |-> t.tx_hash] /\ t.tx_hash = c.tx_hash
      /\ t.sender = Payer /\ t.signature = i
  BY <1>6
<1>8. VerifyTx(t)
  BY <1>5, <1>7 DEF VerifyTx
<1>9. TypedTx(t)
  BY TypedTransactions DEF Payment
<1> QED BY <1>2, <1>4, <1>5, <1>7, <1>8, <1>9

\* From escaping to unescaping.
LEMMA PaymentArrives ==
    ASSUME TxDigestsApart, NEW r \in Receivers, NEW t, t = Payment(r),
           NEW p, p = ParsePayload(SerializeMsg(MSG_NEW_TX, SerializeTx(t)))
    PROVE  TxParses(p) /\ ParseTx(p) = t
<1>1. PICK s, g : t = [sender |-> <<Word(s)>>, receiver |-> r, amount |-> Amount, fee |-> Fee,
                       signature |-> <<Word(g)>>, tx_hash |-> t.tx_hash]
  BY PaymentFields
<1>2. TypedTx(t) /\ t.tx_hash # Unset
  BY PaymentFields DEF TxDigestsApart
<1>3. /\ t.sender = <<Word(s)>> /\ t.receiver = r /\ t.amount = Amount /\ t.fee = Fee
      /\ t.signature = <<Word(g)>>
  <2>1. PICK a, b : a = <<Word(s)>> /\ b = <<Word(g)>>
    OBVIOUS
  <2>2. t = [sender |-> a, receiver |-> r, amount |-> Amount, fee |-> Fee,
             signature |-> b, tx_hash |-> t.tx_hash]
    BY <1>1, <2>1
  <2>3. /\ t.sender = a /\ t.receiver = r /\ t.amount = Amount /\ t.fee = Fee
        /\ t.signature = b
    BY <2>2
  <2> QED BY <2>1, <2>3
<1>4. Text(r) /\ (\A i \in 1 .. Len(r) : r[i] # NUL /\ r[i][1] # "key")
  <2>1. Typed(r)
    BY TypedWords
  <2>2. DOMAIN r = 1 .. Len(r) /\ Text(r)
    BY <2>1, TextFields DEF Typed
  <2> QED BY <2>1, <2>2, TypedAssumption DEF Typed
<1>5. PICK x, h : x = SerializeTx(t) /\ h = t.tx_hash
  OBVIOUS
<1>6. PICK m, e : /\ PaymentText(x, m, e, s, Amount, Fee, g, h)
                  /\ e = JsonEscape(r) /\ Len(x) = m + 26
  <2>1. Signed(t, s, g)
    BY <1>2, <1>3 DEF Signed
  <2> QED BY <1>3, <1>5, <2>1, PaymentWritten
<1>7. /\ m \in Nat /\ m = Len(e)
      /\ (\A j \in 1 .. m : e[j][1] # "key")
      /\ (\A j \in 1 .. m : e[j] = Quote => j - 1 \in 1 .. m /\ e[j - 1] = Backslash)
      /\ PaymentHead(x, s) /\ Stands(e, x, 8) /\ PaymentTail(x, m + 8, Amount, Fee, g, h)
  BY <1>6 DEF PaymentText
<1>8. PICK line : line = SerializeMsg(MSG_NEW_TX, x)
  OBVIOUS
<1>9. /\ Text(line) /\ Len(line) = m + 32 /\ FindKey(line, "payload") = 6
      /\ \A i \in 1 .. m + 26 : line[5 + i] = x[i]
  <2>1. Sane(x, {})
    BY <1>2, <1>5, TxSane
  <2>2. /\ Sane(line, {}) /\ FindKey(line, "payload") = 6 /\ 6 + Len(x) = Len(line)
        /\ \A i \in 1 .. Len(x) : line[5 + i] = x[i]
    BY <1>8, <2>1, LineIs
  <2>3. m \in Nat
    BY <1>7
  <2>4. Len(line) = m + 32
    BY <1>6, <2>2, <2>3
  <2> QED BY <1>6, <2>2, <2>4 DEF Sane
<1>10. /\ Text(p) /\ m + 26 <= Len(p)
       /\ \A i \in 1 .. m + 26 : p[i] = x[i]
  <2>1. p = ParsePayload(line)
    BY <1>5, <1>8
  <2>2. /\ Text(ParsePayload(line)) /\ m + 26 <= Len(ParsePayload(line))
        /\ \A i \in 1 .. m + 26 : ParsePayload(line)[i] = x[i]
    BY <1>6, <1>9, PaymentCut
  <2> QED BY <2>1, <2>2
<1>11. PaymentHead(p, s)
  <2>1. \A i \in {1, 2, 3, 4, 5, 6, 7, 8} : p[i] = x[i]
    BY <1>7, <1>10
  <2> QED BY <1>7, <2>1 DEF PaymentHead
<1>12. Stands(e, p, 8)
  <2>1. ASSUME NEW j \in 1 .. m PROVE p[8 + j] = e[j]
    <3>1. 8 + j \in 1 .. m + 26
      BY <1>7
    <3>2. p[8 + j] = x[8 + j]
      BY <1>10, <3>1
    <3>3. x[8 + j] = e[j]
      BY <1>7 DEF Stands
    <3> QED BY <3>2, <3>3
  <2>2. Len(p) \in Nat
    BY <1>10, TextFields
  <2>3. 8 + m <= Len(p)
    BY <1>7, <1>10, <2>2
  <2> QED BY <1>7, <2>1, <2>3 DEF Stands
<1>13. PaymentTail(p, m + 8, Amount, Fee, g, h)
  <2>1. PICK d : d = m + 8
    OBVIOUS
  <2>2. \A i \in 1 .. 18 : d + i \in 1 .. m + 26
    BY <1>7, <2>1
  <2>3. \A i \in 1 .. 18 : p[d + i] = x[d + i]
    BY <1>10, <2>2
  <2>4. /\ p[d + 1] = x[d + 1] /\ p[d + 2] = x[d + 2] /\ p[d + 3] = x[d + 3]
        /\ p[d + 4] = x[d + 4] /\ p[d + 5] = x[d + 5] /\ p[d + 6] = x[d + 6]
        /\ p[d + 7] = x[d + 7] /\ p[d + 8] = x[d + 8] /\ p[d + 9] = x[d + 9]
    BY <2>3
  <2>5. /\ p[d + 10] = x[d + 10] /\ p[d + 11] = x[d + 11] /\ p[d + 12] = x[d + 12]
        /\ p[d + 13] = x[d + 13] /\ p[d + 14] = x[d + 14] /\ p[d + 15] = x[d + 15]
        /\ p[d + 16] = x[d + 16] /\ p[d + 17] = x[d + 17] /\ p[d + 18] = x[d + 18]
    BY <2>3
  <2>6. PaymentTail(x, d, Amount, Fee, g, h)
    BY <1>7, <2>1
  <2>7. PaymentTail(p, d, Amount, Fee, g, h)
    BY <2>4, <2>5, <2>6 DEF PaymentTail
  <2> QED BY <2>1, <2>7
<1>14. PaymentText(p, m, e, s, Amount, Fee, g, h)
  BY <1>7, <1>11, <1>12, <1>13 DEF PaymentText
<1>15. /\ TxParses(p)
       /\ ParseTx(p) = [sender |-> <<Word(s)>>, receiver |-> r, amount |-> Amount, fee |-> Fee,
                        signature |-> <<Word(g)>>, tx_hash |-> h]
  <2>1. \A i \in 1 .. Len(r) : r[i] # NUL
    BY <1>4
  <2> QED BY <1>4, <1>6, <1>10, <1>14, <2>1, PaymentRead
<1> QED BY <1>1, <1>5, <1>15

\* A payment under way is one that do_send has made, and what is in the peer's
\* mempool would verify.
ArrivalInv ==
    /\ GenuineInv
    /\ wire.means.type = MSG_NEW_TX => \E r \in Receivers : wire.means = NewTx(Payment(r))
    /\ \A t \in pool : VerifyTx(t)

\* What is sent means what was given to protocol_serialize_msg.
LEMMA WireMeans ==
    /\ \A msg : OnWire(msg).means = msg /\ OnWire(msg).line = SerializeMsg(msg.type, Payload(msg))
    /\ Quiet.means.type # MSG_NEW_TX /\ Quiet.means.type = -1
BY DEF OnWire, Quiet, Nothing, MSG_NEW_TX

\* The payload that the peer takes from the line with a payment.
LEMMA HandledPayment ==
    ASSUME DigestsApart, TxDigestsApart, ArrivalInv, wire # Quiet,
           wire.means.type = MSG_NEW_TX \/ GetNumber(wire.line, "type") = MSG_NEW_TX
    PROVE  /\ GetNumber(wire.line, "type") = MSG_NEW_TX /\ wire.means.type = MSG_NEW_TX
           /\ TxParses(ParsePayload(wire.line))
           /\ ParseTx(ParsePayload(wire.line)) = wire.means.tx
           /\ VerifyTx(wire.means.tx)
<1>1. PICK c : c = chain
  OBVIOUS
<1>2. Made(c) /\ Carries(wire, c)
  BY <1>1 DEF ArrivalInv, GenuineInv
<1>3. GetNumber(wire.line, "type") = wire.means.type
  BY <1>2, LineRead
<1>4. PICK r \in Receivers : wire.means = NewTx(Payment(r))
  BY <1>3 DEF ArrivalInv
<1>5. PICK t : t = Payment(r)
  OBVIOUS
<1>6. wire.means.type = 1 /\ wire.means.tx = t
  BY <1>4, <1>5, MessageTypes
<1>7. Payload(wire.means) = SerializeTx(t)
  BY <1>6 DEF Payload, MSG_NEW_BLOCK, MSG_NEW_TX, MSG_REQUEST_CHAIN, MSG_CHAIN_RESPONSE
<1>8. wire = OnWire(wire.means)
  BY <1>2 DEF Carries
<1>9. wire.line = SerializeMsg(MSG_NEW_TX, SerializeTx(t))
  BY <1>6, <1>7, <1>8, WireMeans DEF MSG_NEW_TX
<1>10. PICK p : p = ParsePayload(wire.line)
  OBVIOUS
<1>11. p = ParsePayload(SerializeMsg(MSG_NEW_TX, SerializeTx(t)))
  BY <1>9, <1>10
<1>12. TxParses(p) /\ ParseTx(p) = t
  BY <1>5, <1>11, PaymentArrives
<1>13. VerifyTx(t)
  BY <1>5, PaymentFields
<1> QED BY <1>3, <1>6, <1>10, <1>12, <1>13 DEF MSG_NEW_TX

\* At the beginning nothing has been sent.
LEMMA ArrivalInit ==
    ASSUME Init
    PROVE  ArrivalInv
<1>1. GenuineInv
  BY GenuineInit
<1>2. wire = Quiet /\ pool = {}
  BY DEF Init
<1> QED BY <1>1, <1>2, WireMeans DEF ArrivalInv

\* Every step, and no step.
LEMMA ArrivalNext ==
    ASSUME DigestsApart, TxDigestsApart, ArrivalInv, [Next]_vars
    PROVE  ArrivalInv'
<1>1. GenuineInv'
  BY GenuineNext DEF ArrivalInv
<1>2. ASSUME NEW r \in Receivers, Pay(r)
      PROVE  ArrivalInv'
  <2>1. PICK t, msg : t = Payment(r) /\ msg = NewTx(t)
    OBVIOUS
  <2>2. (wire' = OnWire(msg) \/ wire' = Quiet) /\ pool' = pool
    BY <1>2, <2>1 DEF Pay, Broadcast, Payment
  <2>3. wire'.means.type = MSG_NEW_TX => wire'.means = NewTx(Payment(r))
    BY <2>1, <2>2, WireMeans
  <2> QED BY <1>1, <2>2, <2>3 DEF ArrivalInv
<1>3. ASSUME NEW time, Mine(time)
      PROVE  ArrivalInv'
  <2>1. pool' = pool /\ \E b : wire' = OnWire(NewBlock(b)) \/ wire' = Quiet
    BY <1>3 DEF Mine, Broadcast
  <2>2. wire'.means.type # MSG_NEW_TX
    BY <2>1, WireMeans, MessageTypes DEF MSG_NEW_TX
  <2> QED BY <1>1, <2>1, <2>2 DEF ArrivalInv
<1>4. CASE Ask \/ HandleRequest
  <2>1. pool' = pool /\ (wire' = OnWire(RequestChain) \/ wire' = OnWire(ChainResponse(chain)))
    BY <1>4 DEF Ask, HandleRequest
  <2>2. wire'.means.type # MSG_NEW_TX
    BY <2>1, WireMeans, MessageTypes DEF MSG_NEW_TX
  <2> QED BY <1>1, <2>1, <2>2 DEF ArrivalInv
<1>5. CASE HandleNewBlock \/ HandleChain
  <2>1. pool' = pool /\ wire' = Quiet
    BY <1>5 DEF HandleNewBlock, HandleChain
  <2> QED BY <1>1, <2>1, WireMeans DEF ArrivalInv
<1>6. CASE HandleNewTx
  <2>1. PICK p : p = ParsePayload(wire.line)
    OBVIOUS
  <2>2. /\ wire' = Quiet /\ wire # Quiet /\ GetNumber(wire.line, "type") = MSG_NEW_TX
        /\ pool' = IF TxParses(p) THEN pool \cup {ParseTx(p)} ELSE pool
    BY <1>6, <2>1 DEF HandleNewTx, Reading
  <2>3. ParseTx(p) = wire.means.tx /\ VerifyTx(wire.means.tx)
    BY <2>1, <2>2, HandledPayment
  <2>4. \A t \in pool' : t \in pool \/ t = wire.means.tx
    BY <2>2, <2>3
  <2>5. \A t \in pool' : VerifyTx(t)
    BY <2>3, <2>4 DEF ArrivalInv
  <2>6. wire'.means.type # MSG_NEW_TX
    BY <2>2, WireMeans
  <2> QED BY <1>1, <2>5, <2>6 DEF ArrivalInv
<1>7. CASE UNCHANGED vars
  BY <1>1, <1>7 DEF vars, ArrivalInv
<1> QED BY <1>2, <1>3, <1>4, <1>5, <1>6, <1>7 DEF Next

\* The step that handles the line with a payment.
LEMMA ArrivalStep ==
    ASSUME DigestsApart, TxDigestsApart, ArrivalInv, Next, Handled(MSG_NEW_TX)
    PROVE  /\ pool' = pool \cup {wire.means.tx}
           /\ \A t \in pool' : VerifyTx(t)
<1>1. wire # Quiet /\ wire.means.type = MSG_NEW_TX
  BY WireMeans DEF Handled
<1>2. GetNumber(wire.line, "type") = 1
  BY <1>1, HandledPayment DEF MSG_NEW_TX
<1>3. HandleNewTx
  <2>1. /\ \A r \in Receivers : ~ Pay(r)
        /\ \A t \in Times : ~ Mine(t)
        /\ ~ Ask
    BY <1>1 DEF Pay, Mine, Ask
  <2>2. ~ HandleNewBlock /\ ~ HandleRequest /\ ~ HandleChain
    BY <1>2 DEF HandleNewBlock, HandleRequest, HandleChain, Reading, MSG_NEW_BLOCK,
       MSG_REQUEST_CHAIN, MSG_CHAIN_RESPONSE
  <2> QED BY <2>1, <2>2 DEF Next
<1>4. PICK p : p = ParsePayload(wire.line)
  OBVIOUS
<1>5. pool' = IF TxParses(p) THEN pool \cup {ParseTx(p)} ELSE pool
  BY <1>3, <1>4 DEF HandleNewTx
<1>6. TxParses(p) /\ ParseTx(p) = wire.means.tx
  BY <1>1, <1>4, HandledPayment
<1>7. ArrivalInv'
  BY ArrivalNext
<1> QED BY <1>5, <1>6, <1>7 DEF ArrivalInv

\* Whatever is typed as a receiver, a payment that is broadcast reaches the
\* peer's mempool as it was made, with a signature that would verify: the
\* escaping of protocol_serialize_tx, the scan of protocol_parse_msg and the
\* unescaping of json_get_string fit together.
THEOREM PaymentsArriveWhole == DigestsApart /\ TxDigestsApart => (Spec => TxArrives)
<1> SUFFICES ASSUME DigestsApart, TxDigestsApart
             PROVE  Spec => TxArrives
  OBVIOUS
<1> DEFINE Step == Handled(MSG_NEW_TX) => /\ pool' = pool \cup {wire.means.tx}
                                          /\ \A t \in pool' : VerifyTx(t)
<1>1. Init => ArrivalInv
  BY ArrivalInit
<1>2. ArrivalInv /\ [Next]_vars => ArrivalInv'
  BY ArrivalNext
<1>3. ArrivalInv /\ [Next]_vars => [Step]_vars
  BY ArrivalStep
<1> QED BY <1>1, <1>2, <1>3, PTL DEF Spec, TxArrives
=============================================================================
