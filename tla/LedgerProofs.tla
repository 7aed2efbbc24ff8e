---------------------------- MODULE LedgerProofs ----------------------------
(***************************************************************************)
(* Facts about the operators of Ledger that the proofs about MiniCoin and  *)
(* SharedChain share: what mining leaves alone, that a block's hash        *)
(* identifies the block and, in a tree of chains, everything below it, and *)
(* what chain_get_balance adds up.                                         *)
(***************************************************************************)
EXTENDS Ledger, DataLemmas

-----------------------------------------------------------------------------
(* Blocks *)

\* Mining settles nonce and hash, and leaves the rest of the block alone.
LEMMA MinedBlock ==
    ASSUME NEW T, NEW b, BlockOf(T, b)
    PROVE  /\ BlockOf(T, BlockMine(b))
           /\ BlockMine(b).index = b.index
           /\ BlockMine(b).prev_hash = b.prev_hash
           /\ BlockMine(b).transactions = b.transactions
           /\ BlockMine(b).hash = BlockHash(BlockMine(b))
<1> DEFINE k == Min(WinningNonces(b))
           m == [b EXCEPT !.nonce = k]
           h == BlockHash(m)
           r == [m EXCEPT !.hash = h]
<1>1. r = BlockMine(b)
  BY DEF BlockMine
<1> HIDE DEF k, h
<1>2. m = [index |-> b.index, timestamp |-> b.timestamp,
           transactions |-> b.transactions, prev_hash |-> b.prev_hash,
           nonce |-> k, hash |-> b.hash]
  BY DEF BlockOf
<1> HIDE DEF m
<1>3. r = [index |-> b.index, timestamp |-> b.timestamp,
           transactions |-> b.transactions, prev_hash |-> b.prev_hash,
           nonce |-> k, hash |-> h]
  BY <1>2
<1>4. BlockHash(r) = h
  <2>1. /\ r.index = m.index /\ r.timestamp = m.timestamp
        /\ r.prev_hash = m.prev_hash /\ r.nonce = m.nonce
        /\ r.transactions = m.transactions
    BY <1>2, <1>3
  <2> QED BY <2>1 DEF BlockHash, h
<1> HIDE DEF r
<1>5. BlockOf(T, r)
  BY <1>3 DEF BlockOf
<1>6. /\ r.index = b.index /\ r.prev_hash = b.prev_hash
      /\ r.transactions = b.transactions /\ r.hash = h
  BY <1>3
<1> QED BY <1>1, <1>4, <1>5, <1>6

\* Genesis: number 0, no transactions, its own hash.
LEMMA GenesisBlock ==
    ASSUME NEW T
    PROVE  /\ BlockOf(T, Genesis)
           /\ Genesis.index = 0
           /\ Genesis.transactions = << >>
           /\ Genesis.hash = BlockHash(Genesis)
<1> DEFINE g == [index |-> 0, timestamp |-> GENESIS_TIME, transactions |-> << >>,
                 prev_hash |-> ZeroHash, nonce |-> 0, hash |-> Unset]
<1>1. BlockOf(T, g)
  <2>1. << >> \in Seq(T)
    BY EmptySeq
  <2> QED BY <2>1 DEF BlockOf
<1>2. g.index = 0 /\ g.transactions = << >>
  OBVIOUS
<1>3. Genesis = BlockMine(g)
  BY DEF Genesis
<1> HIDE DEF g
<1> QED BY <1>1, <1>2, <1>3, MinedBlock

\* The chain that chain_init makes.
LEMMA GenesisChain ==
    ASSUME NEW T
    PROVE  /\ ChainOf(T, ChainInit)
           /\ Len(ChainInit) = 1
           /\ Last(ChainInit) = Genesis
<1>1. Len(<<Genesis>>) = 1 /\ <<Genesis>>[1] = Genesis
  OBVIOUS
<1>2. Range(<<Genesis>>) = {Genesis}
  BY <1>1 DEF Range
<1>3. <<Genesis>> \in Seq({Genesis})
  OBVIOUS
<1> QED BY <1>1, <1>2, <1>3, GenesisBlock, CapacityAssumption
        DEF ChainInit, ChainOf, Last

\* A block's hash determines its transactions and its link.
LEMMA HashIdentifies ==
    ASSUME NEW T, CollisionFree(T),
           NEW b, BlockOf(T, b), b.hash = BlockHash(b),
           NEW d, BlockOf(T, d), d.hash = BlockHash(d),
           b.hash = d.hash
    PROVE  b = d
<1>1. BlockHash(b) = BlockHash(d)
  OBVIOUS
<1>2. /\ b.index = d.index /\ b.timestamp = d.timestamp
      /\ b.prev_hash = d.prev_hash /\ b.nonce = d.nonce
  BY <1>1 DEF BlockHash
<1> DEFINE bt == b.transactions
           dt == d.transactions
<1>3. bt \in Seq(T) /\ dt \in Seq(T)
  BY DEF BlockOf
<1>4. [i \in 1 .. Len(bt) |-> bt[i].tx_hash] = [i \in 1 .. Len(dt) |-> dt[i].tx_hash]
  BY <1>1 DEF BlockHash
<1> HIDE DEF bt, dt
<1>5. Len(bt) \in Nat /\ Len(dt) \in Nat
  BY <1>3, LenProperties
<1>6. 1 .. Len(bt) = 1 .. Len(dt)
  BY <1>4
<1>7. Len(bt) = Len(dt)
  BY <1>5, <1>6
<1>8. ASSUME NEW i \in 1 .. Len(bt)
      PROVE  bt[i] = dt[i]
  <2>1. bt[i].tx_hash = dt[i].tx_hash
    BY <1>4, <1>6
  <2>2. bt[i] \in T /\ dt[i] \in T
    BY <1>3, <1>6, ElementOfSeq
  <2> QED BY <2>1, <2>2 DEF CollisionFree
<1>9. bt = dt
  BY <1>3, <1>7, <1>8, SeqEqual
<1> QED BY <1>2, <1>9 DEF BlockOf, bt, dt

-----------------------------------------------------------------------------
(* Trees of chains *)

\* What a chain of a tree is made of.
LEMMA TreeChain ==
    ASSUME NEW T, NEW B, TreeOf(T, B), NEW c \in B
    PROVE  /\ c \in Seq(Range(c)) /\ Len(c) \in Nat \ {0} /\ Len(c) <= MAX_BLOCKS
           /\ \A i \in 1 .. Len(c) : BlockOf(T, c[i])
           /\ BlockOf(T, Last(c)) /\ Last(c).index = Len(c) - 1
           /\ Last(c).hash = BlockHash(Last(c))
<1>1. /\ c \in Seq(Range(c)) /\ Len(c) \in Nat \ {0} /\ Len(c) <= MAX_BLOCKS
      /\ Last(c).index = Len(c) - 1
      /\ \A i \in 1 .. Len(c) : BlockOf(T, c[i])
  BY CapacityAssumption DEF TreeOf, ChainOf
<1>2. BlockOf(T, Last(c))
  BY <1>1 DEF Last
<1>3. Last(c).hash = BlockHash(Last(c))
  <2>1. Last(ChainInit) = Genesis /\ Genesis.hash = BlockHash(Genesis)
    BY GenesisBlock, GenesisChain
  <2> QED BY <2>1 DEF TreeOf, OneBlockMore
<1> QED BY <1>1, <1>2, <1>3

\* Only the genesis chain has one block.
LEMMA GrownLength ==
    ASSUME NEW T, NEW B, TreeOf(T, B), NEW p \in B, NEW c \in B, OneBlockMore(p, c)
    PROVE  Len(c) = Len(p) + 1 /\ Len(c) # 1 /\ c # ChainInit
<1>1. Len(Append(p, Last(c))) = Len(p) + 1 /\ Len(p) \in Nat \ {0}
  BY TreeChain, AppendChain
<1>2. Len(c) = Len(p) + 1 /\ Len(c) # 1
  BY <1>1 DEF OneBlockMore
<1> QED BY <1>2, GenesisChain

\* The hash of its last block identifies a chain of the tree: it identifies the
\* block, which names the hash of the block below, and so on down to genesis.
LEMMA TipIdentifies ==
    ASSUME NEW T, CollisionFree(T), NEW B, TreeOf(T, B)
    PROVE  \A c, d \in B : Last(c).hash = Last(d).hash => c = d
<1> DEFINE S == {n \in Nat : \A c, d \in B :
                    Len(c) = n /\ Last(c).hash = Last(d).hash => c = d}
<1>1. 0 \in S
  BY TreeChain
<1>2. ASSUME NEW n \in Nat, n \in S
      PROVE  n + 1 \in S
  <2> SUFFICES ASSUME NEW c \in B, NEW d \in B, Len(c) = n + 1,
                      Last(c).hash = Last(d).hash
               PROVE  c = d
    OBVIOUS
  <2>1. Last(c) = Last(d)
    BY TreeChain, HashIdentifies
  <2>2. Len(c) = Len(d)
    <3>1. /\ Last(c).index = Len(c) - 1 /\ Last(d).index = Len(d) - 1
          /\ Len(c) \in Nat /\ Len(d) \in Nat
      BY TreeChain
    <3> QED BY <2>1, <3>1
  <2>3. CASE c = ChainInit \/ d = ChainInit
    <3>1. Len(c) = 1 /\ Len(d) = 1
      BY <2>2, <2>3, GenesisChain
    <3>2. ASSUME NEW e \in B, Len(e) = 1 PROVE e = ChainInit
      BY <3>2, GrownLength DEF TreeOf
    <3> QED BY <3>1, <3>2
  <2>4. CASE c # ChainInit /\ d # ChainInit
    <3>1. PICK p \in B : OneBlockMore(p, c)
      BY <2>4 DEF TreeOf
    <3>2. PICK q \in B : OneBlockMore(q, d)
      BY <2>4 DEF TreeOf
    <3>3. Last(p).hash = Last(q).hash
      BY <2>1, <3>1, <3>2 DEF OneBlockMore
    <3>4. Len(p) = n
      <4>1. Len(c) = Len(p) + 1 /\ Len(p) \in Nat
        BY <3>1, GrownLength, TreeChain
      <4> QED BY <4>1
    <3>5. p = q
      BY <1>2, <3>3, <3>4
    <3> QED BY <2>1, <3>1, <3>2, <3>5 DEF OneBlockMore
  <2> QED BY <2>3, <2>4
<1> HIDE DEF S
<1>3. Nat \subseteq S
  BY <1>1, <1>2, SetInduction
<1>4. SUFFICES ASSUME NEW c \in B, NEW d \in B, Last(c).hash = Last(d).hash
               PROVE  c = d
  OBVIOUS
<1>5. Len(c) \in S
  BY <1>3, TreeChain
<1> QED BY <1>4, <1>5 DEF S

\* chain_add_block on a chain of the tree: the new chain continues the tree.
LEMMA TreeAddBlock ==
    ASSUME NEW T, NEW B, TreeOf(T, B), NEW c \in B, NEW b, BlockOf(T, b),
           AddBlockAccepts(c, b)
    PROVE  TreeOf(T, B \cup {Append(c, b)}) /\ OneBlockMore(c, Append(c, b))
<1> DEFINE e == Append(c, b)
<1>1. /\ c \in Seq(Range(c)) /\ Len(c) \in Nat \ {0}
      /\ \A i \in 1 .. Len(c) : BlockOf(T, c[i])
      /\ Last(c).index = Len(c) - 1
  BY TreeChain
<1>2. /\ e \in Seq(Range(e)) /\ Len(e) = Len(c) + 1 /\ Last(e) = b
      /\ \A i \in 1 .. Len(c) : e[i] = c[i]
  BY <1>1, AppendChain
<1>3. /\ b.index = Len(c) /\ b.prev_hash = Last(c).hash /\ Len(c) < MAX_BLOCKS
      /\ b.hash = BlockHash(b)
  BY <1>1 DEF AddBlockAccepts, BlockValidate
<1>4. OneBlockMore(c, e)
  BY <1>2, <1>3 DEF OneBlockMore
<1> HIDE DEF e
<1>5. ChainOf(T, e)
  <2>1. e[Len(c) + 1] = b
    BY <1>2 DEF Last
  <2>2. \A i \in 1 .. Len(e) : BlockOf(T, e[i])
    BY <1>1, <1>2, <2>1
  <2>3. Len(e) \in 1 .. MAX_BLOCKS
    BY <1>1, <1>2, <1>3, CapacityAssumption
  <2> QED BY <1>2, <2>2, <2>3 DEF ChainOf
<1>6. Last(e).index = Len(e) - 1
  BY <1>1, <1>2, <1>3
<1>7. TreeOf(T, B \cup {e})
  BY <1>4, <1>5, <1>6 DEF TreeOf
<1> QED BY <1>4, <1>7 DEF e

\* A block of the tree that chain_add_block accepts leads to a chain of the
\* tree: comparing prev_hash is comparing the whole chain below.
LEMMA TreeKnownBlock ==
    ASSUME NEW T, CollisionFree(T), NEW B, TreeOf(T, B), NEW c \in B,
           NEW d \in B, AddBlockAccepts(c, Last(d))
    PROVE  Append(c, Last(d)) = d
<1>1. Last(d).index = Len(c) /\ Last(d).index = Len(d) - 1 /\ Len(c) \in Nat \ {0}
  <2>1. Last(c).index = Len(c) - 1 /\ Len(c) \in Nat \ {0} /\ Last(d).index = Len(d) - 1
    BY TreeChain
  <2> QED BY <2>1 DEF AddBlockAccepts
<1>2. d # ChainInit
  <2>1. Last(ChainInit).index = 0
    BY GenesisBlock, GenesisChain
  <2> QED BY <1>1, <2>1
<1>3. PICK p \in B : OneBlockMore(p, d)
  BY <1>2 DEF TreeOf
<1>4. Last(p).hash = Last(c).hash
  BY <1>3 DEF OneBlockMore, AddBlockAccepts
<1>5. p = c
  BY <1>4, TipIdentifies
<1> QED BY <1>3, <1>5 DEF OneBlockMore

\* A chain longer than genesis has grown from one of the tree.
LEMMA TreeParent ==
    ASSUME NEW T, NEW B, TreeOf(T, B), NEW c \in B, Len(c) # 1
    PROVE  \E p \in B : /\ OneBlockMore(p, c) /\ Len(c) = Len(p) + 1
                        /\ \A i \in 1 .. Len(p) : c[i] = p[i]
<1>1. c # ChainInit
  BY GenesisChain
<1>2. PICK p \in B : OneBlockMore(p, c)
  BY <1>1 DEF TreeOf
<1>3. Len(c) = Len(p) + 1
  BY <1>2, GrownLength
<1>4. \A i \in 1 .. Len(p) : Append(p, Last(c))[i] = p[i]
  BY TreeChain, AppendChain
<1> QED BY <1>2, <1>3, <1>4 DEF OneBlockMore

\* The beginnings of a chain of the tree are chains of the tree.
LEMMA TreePrefix ==
    ASSUME NEW T, NEW B, TreeOf(T, B)
    PROVE  \A c \in B : \A k \in 1 .. Len(c) :
               \E d \in B : Len(d) = k /\ \A i \in 1 .. k : d[i] = c[i]
<1> DEFINE Starts(c, k) == \E d \in B : Len(d) = k /\ \A i \in 1 .. k : d[i] = c[i]
           S == {n \in Nat : \A c \in B : Len(c) = n => \A k \in 1 .. n : Starts(c, k)}
<1>1. 0 \in S
  OBVIOUS
<1>2. ASSUME NEW n \in Nat, n \in S
      PROVE  n + 1 \in S
  <2> SUFFICES ASSUME NEW c \in B, Len(c) = n + 1, NEW k \in 1 .. n + 1
               PROVE  Starts(c, k)
    OBVIOUS
  <2>1. CASE k = n + 1
    BY <2>1
  <2>2. CASE k # n + 1
    <3>1. k \in 1 .. n /\ Len(c) # 1
      BY <2>2
    <3>2. PICK p \in B : Len(c) = Len(p) + 1 /\ \A i \in 1 .. Len(p) : c[i] = p[i]
      BY <3>1, TreeParent
    <3>3. Len(p) = n
      <4>1. Len(p) \in Nat
        BY TreeChain
      <4> QED BY <3>2, <4>1
    <3>4. PICK d \in B : Len(d) = k /\ \A i \in 1 .. k : d[i] = p[i]
      BY <1>2, <3>1, <3>3
    <3>5. \A i \in 1 .. k : d[i] = c[i]
      BY <3>1, <3>2, <3>3, <3>4
    <3> QED BY <3>4, <3>5
  <2> QED BY <2>1, <2>2
<1> HIDE DEF S
<1>3. Nat \subseteq S
  BY <1>1, <1>2, SetInduction
<1>4. \A c \in B : Len(c) \in S
  BY <1>3, TreeChain
<1> QED BY <1>4 DEF S

\* Hashes that are found in the tree at their places, each with the one before it
\* as prev_hash, are the hashes of one chain of the tree: prev_hash names all that
\* is below.
LEMMA LinkedHashes ==
    ASSUME NEW T, CollisionFree(T), NEW B, TreeOf(T, B), NEW p, Len(p) \in Nat \ {0},
           \A i \in 1 .. Len(p) : \E c \in B :
               i <= Len(c) /\ p[i].hash = c[i].hash /\ p[i].prev_hash = c[i].prev_hash,
           \A i \in 2 .. Len(p) : p[i].prev_hash = p[i - 1].hash
    PROVE  \E c \in B : Len(c) = Len(p) /\ \A i \in 1 .. Len(p) : c[i].hash = p[i].hash
<1> DEFINE n == Len(p)
           Spells(k) == \E c \in B : Len(c) = k /\ \A i \in 1 .. k : c[i].hash = p[i].hash
           S == {k \in Nat : k \in 1 .. n => Spells(k)}
<1>1. ASSUME NEW k \in 1 .. n
      PROVE  \E d \in B : /\ Len(d) = k /\ Last(d).hash = p[k].hash
                          /\ Last(d).prev_hash = p[k].prev_hash
  <2>1. PICK c \in B : /\ k <= Len(c) /\ p[k].hash = c[k].hash
                       /\ p[k].prev_hash = c[k].prev_hash
    OBVIOUS
  <2>2. k \in 1 .. Len(c)
    BY <2>1, TreeChain
  <2>3. PICK d \in B : Len(d) = k /\ \A i \in 1 .. k : d[i] = c[i]
    BY <2>2, TreePrefix
  <2>4. Last(d) = c[k]
    BY <2>3 DEF Last
  <2> QED BY <2>1, <2>3, <2>4
<1>2. 0 \in S
  OBVIOUS
<1>3. ASSUME NEW k \in Nat, k \in S
      PROVE  k + 1 \in S
  <2> SUFFICES ASSUME k + 1 \in 1 .. n PROVE Spells(k + 1)
    OBVIOUS
  <2>1. PICK d \in B : /\ Len(d) = k + 1 /\ Last(d).hash = p[k + 1].hash
                       /\ Last(d).prev_hash = p[k + 1].prev_hash
    BY <1>1
  <2>2. d[k + 1].hash = p[k + 1].hash
    BY <2>1 DEF Last
  <2>3. CASE k = 0
    BY <2>1, <2>2, <2>3
  <2>4. CASE k # 0
    <3>0. k \in 1 .. n
      BY <2>4
    <3>1. PICK c \in B : Len(c) = k /\ \A i \in 1 .. k : c[i].hash = p[i].hash
      BY <1>3, <3>0
    <3>2. Len(d) # 1
      BY <2>1, <2>4
    <3>3. PICK q \in B : /\ OneBlockMore(q, d) /\ Len(d) = Len(q) + 1
                         /\ \A i \in 1 .. Len(q) : d[i] = q[i]
      BY <3>2, TreeParent
    <3>4. Last(q).hash = p[k + 1].prev_hash
      BY <2>1, <3>3 DEF OneBlockMore
    <3>5. Last(c).hash = p[k].hash
      BY <2>4, <3>1 DEF Last
    <3>6. p[k + 1].prev_hash = p[k].hash
      <4>1. k + 1 \in 2 .. n /\ (k + 1) - 1 = k
        BY <2>4
      <4> QED BY <4>1
    <3>7. q = c
      BY <3>4, <3>5, <3>6, TipIdentifies
    <3>8. ASSUME NEW i \in 1 .. k + 1 PROVE d[i].hash = p[i].hash
      <4>1. CASE i = k + 1
        BY <2>2, <4>1
      <4>2. CASE i # k + 1
        <5>1. i \in 1 .. k
          BY <4>2
        <5> QED BY <3>1, <3>3, <3>7, <5>1
      <4> QED BY <4>1, <4>2
    <3> QED BY <2>1, <3>8
  <2> QED BY <2>3, <2>4
<1> HIDE DEF S
<1>4. Nat \subseteq S
  BY <1>2, <1>3, SetInduction
<1>5. n \in S
  BY <1>4
<1> QED BY <1>5 DEF S

-----------------------------------------------------------------------------
(* chain_get_balance: one block *)

\* What chain_get_balance does with one block: its inner loop.
TxsBalance(total, txs, a) ==
    FoldLeft(LAMBDA t, tx : t + BalanceChange(tx, a), total, txs)

\* A set of transactions whose amounts are numbers.
Priced(T) == \A t \in T : t.amount \in Nat /\ t.fee \in Nat

\* A transaction changes a balance by an integer.
LEMMA BalanceChangeType ==
    ASSUME NEW t, t.amount \in Nat, t.fee \in Nat, NEW a
    PROVE  BalanceChange(t, a) \in Int
<1>1. (t.amount + t.fee) % Two64 \in Int
  BY WordAssumption
<1>2. \A u \in Int : ToInt64(u) \in Int
  BY WordAssumption DEF ToInt64
<1> QED BY <1>1, <1>2 DEF BalanceChange

\* The inner loop, turn by turn: r[j] is the total after j transactions.
TxsRun(total, txs, a, r) ==
    /\ r \in [0 .. Len(txs) -> Int]
    /\ r[0] = total
    /\ \A j \in 1 .. Len(txs) : r[j] = r[j - 1] + BalanceChange(txs[j], a)

\* FoldLeft does run through the transactions: the recursive function that it
\* chooses exists, for FoldExists provides one.
LEMMA TxsBalanceRun ==
    ASSUME NEW T, Priced(T), NEW txs \in Seq(T), NEW total \in Int, NEW a
    PROVE  \E r : TxsRun(total, txs, a, r) /\ TxsBalance(total, txs, a) = r[Len(txs)]
<1> DEFINE n == Len(txs)
           g == [i \in 1 .. n |-> [v \in Int |-> v + BalanceChange(txs[i], a)]]
           Step(it) == [s \in SUBSET (1 .. n) |->
                           IF s = {} THEN total
                           ELSE it[s \ {Max(s)}] + BalanceChange(txs[Max(s)], a)]
           iter == CHOOSE it : it = Step(it)
<1>1. n \in Nat /\ DOMAIN txs = 1 .. n
  BY LenProperties
<1>2. \A i \in 1 .. n : BalanceChange(txs[i], a) \in Int
  <2> SUFFICES ASSUME NEW i \in 1 .. n PROVE BalanceChange(txs[i], a) \in Int
    OBVIOUS
  <2>1. txs[i] \in T
    BY ElementOfSeq
  <2> QED BY <2>1, BalanceChangeType DEF Priced
<1>3. TxsBalance(total, txs, a) = iter[1 .. n]
  <2>1. TxsBalance(total, txs, a)
          = (CHOOSE it : it = [s \in SUBSET (DOMAIN txs) |->
                           IF s = {} THEN total
                           ELSE it[s \ {Max(s)}] + BalanceChange(txs[Max(s)], a)])[DOMAIN txs]
    BY DEF TxsBalance, FoldLeft, MapThenFoldSet
  <2> QED BY <2>1, <1>1
<1>4. g \in [1 .. n -> [Int -> Int]]
  BY <1>2
<1> HIDE DEF n
<1>5. PICK f \in [SUBSET (1 .. n) -> Int] : FoldsTo(n, total, g, f)
  BY <1>1, <1>4, FoldExists
<1>6. f = Step(f)
  <2>1. ASSUME NEW s \in SUBSET (1 .. n)
        PROVE  f[s] = IF s = {} THEN total
                      ELSE f[s \ {Max(s)}] + BalanceChange(txs[Max(s)], a)
    <3>1. CASE s = {}
      BY <1>5, <3>1 DEF FoldsTo
    <3>2. CASE s # {}
      <4>1. Max(s) \in 1 .. n
        <5>1. s \subseteq 0 .. n
          BY <1>1
        <5> QED BY <1>1, <3>2, <5>1, MaxProperties
      <4>2. f[s \ {Max(s)}] \in Int
        OBVIOUS
      <4>3. f[s] = g[Max(s)][f[s \ {Max(s)}]]
        BY <1>5, <3>2 DEF FoldsTo
      <4> QED BY <3>2, <4>1, <4>2, <4>3
    <3> QED BY <3>1, <3>2
  <2> QED BY <2>1
<1>7. iter = Step(iter)
  BY <1>6
<1> HIDE DEF iter
<1>8. iter[{}] = total
  BY <1>7
<1>9. ASSUME NEW k \in 1 .. n, iter[1 .. k - 1] \in Int
      PROVE  iter[1 .. k] = g[k][iter[1 .. k - 1]]
  <2>1. iter[1 .. k] = IF 1 .. k = {} THEN total
                       ELSE iter[(1 .. k) \ {Max(1 .. k)}] + BalanceChange(txs[Max(1 .. k)], a)
    BY <1>1, <1>7, Segments
  <2>2. iter[1 .. k] = iter[1 .. k - 1] + BalanceChange(txs[k], a)
    BY <1>1, <2>1, Segments
  <2> QED BY <1>9, <2>2
<1>10. PICK r \in [0 .. n -> Int] : Runs(n, total, g, r) /\ r[n] = iter[1 .. n]
  <2> DEFINE V == Int
             start == total
  <2>1. /\ GoesBy(n, V, g, iter) /\ g \in [1 .. n -> [V -> V]]
        /\ start \in V /\ iter[{}] = start /\ n \in Nat
    BY <1>1, <1>4, <1>8, <1>9 DEF GoesBy
  <2> HIDE DEF g, V, start
  <2>2. \E r \in [0 .. n -> V] : Runs(n, start, g, r) /\ r[n] = iter[1 .. n]
    BY <2>1, FoldRuns
  <2> QED BY <2>2 DEF V, start
<1>11. ASSUME NEW k \in 1 .. n PROVE r[k] = r[k - 1] + BalanceChange(txs[k], a)
  <2>1. r[k - 1] \in Int
    BY <1>1
  <2> QED BY <1>10, <2>1 DEF Runs
<1> QED BY <1>3, <1>10, <1>11 DEF n, TxsRun, Runs

\* The inner loop of chain_get_balance keeps the balance an integer.
LEMMA TxsBalanceType ==
    ASSUME NEW T, Priced(T), NEW txs \in Seq(T), NEW total \in Int, NEW a
    PROVE  TxsBalance(total, txs, a) \in Int
<1>1. PICK r : TxsRun(total, txs, a, r) /\ TxsBalance(total, txs, a) = r[Len(txs)]
  BY TxsBalanceRun
<1>2. Len(txs) \in 0 .. Len(txs)
  BY LenProperties
<1> QED BY <1>1, <1>2 DEF TxsRun

-----------------------------------------------------------------------------
(* chain_get_balance: a chain *)

\* Blocks whose transactions are known.
BlocksOver(T, c) == \A i \in 1 .. Len(c) : c[i].transactions \in Seq(T)

\* The outer loop, block by block.
BalanceRun(c, a, r) ==
    /\ r \in [0 .. Len(c) -> Int]
    /\ r[0] = 0
    /\ \A k \in 1 .. Len(c) : r[k] = TxsBalance(r[k - 1], c[k].transactions, a)

\* chain_get_balance is the last of its intermediate results.
LEMMA GetBalanceRun ==
    ASSUME NEW T, Priced(T), NEW c, c \in Seq(Range(c)), BlocksOver(T, c), NEW a
    PROVE  \E r : BalanceRun(c, a, r) /\ GetBalance(c, a) = r[Len(c)]
<1> DEFINE n == Len(c)
           g == [i \in 1 .. n |-> [v \in Int |-> TxsBalance(v, c[i].transactions, a)]]
           Step(it) == [s \in SUBSET (1 .. n) |->
                           IF s = {} THEN 0
                           ELSE TxsBalance(it[s \ {Max(s)}], c[Max(s)].transactions, a)]
           iter == CHOOSE it : it = Step(it)
<1>1. n \in Nat /\ DOMAIN c = 1 .. n
  BY LenProperties
<1>2. ASSUME NEW i \in 1 .. n, NEW v \in Int
      PROVE  TxsBalance(v, c[i].transactions, a) \in Int
  <2>1. c[i].transactions \in Seq(T)
    BY DEF BlocksOver
  <2> QED BY <2>1, TxsBalanceType
<1>3. GetBalance(c, a) = iter[1 .. n]
  <2>1. GetBalance(c, a)
          = (CHOOSE it : it = [s \in SUBSET (DOMAIN c) |->
                IF s = {} THEN 0
                ELSE TxsBalance(it[s \ {Max(s)}], c[Max(s)].transactions, a)])[DOMAIN c]
    BY Zenon DEF GetBalance, TxsBalance, FoldLeft, MapThenFoldSet
  <2>2. DOMAIN c = 1 .. n
    BY <1>1
  <2> HIDE DEF n
  <2> QED BY <2>1, <2>2, Zenon
<1>4. g \in [1 .. n -> [Int -> Int]]
  BY <1>2
<1>5. \A i \in 1 .. n, v \in Int : g[i][v] = TxsBalance(v, c[i].transactions, a)
  OBVIOUS
<1> HIDE DEF n, g
<1>6. PICK f \in [SUBSET (1 .. n) -> Int] : FoldsTo(n, 0, g, f)
  <2>1. 0 \in Int
    OBVIOUS
  <2> QED BY <1>1, <1>4, <2>1, FoldExists, Zenon
<1>7. f = Step(f)
  <2>1. ASSUME NEW s \in SUBSET (1 .. n)
        PROVE  f[s] = IF s = {} THEN 0
                      ELSE TxsBalance(f[s \ {Max(s)}], c[Max(s)].transactions, a)
    <3>1. CASE s = {}
      BY <1>6, <3>1 DEF FoldsTo
    <3>2. CASE s # {}
      <4>1. Max(s) \in 1 .. n
        <5>1. s \subseteq 0 .. n
          BY <1>1
        <5> QED BY <1>1, <3>2, <5>1, MaxProperties
      <4>2. f[s \ {Max(s)}] \in Int
        OBVIOUS
      <4>3. f[s] = g[Max(s)][f[s \ {Max(s)}]]
        BY <1>6, <3>2 DEF FoldsTo
      <4> QED BY <1>5, <3>2, <4>1, <4>2, <4>3
    <3> QED BY <3>1, <3>2
  <2> QED BY <2>1, Zenon
<1>8. iter = Step(iter)
  BY <1>7, Zenon
<1> HIDE DEF iter
<1>9. iter[{}] = 0
  <2>1. {} \in SUBSET (1 .. n)
    OBVIOUS
  <2> QED BY <1>8, <2>1, Zenon
<1>10. ASSUME NEW k \in 1 .. n, iter[1 .. k - 1] \in Int
       PROVE  iter[1 .. k] = g[k][iter[1 .. k - 1]]
  <2>1. /\ 1 .. k \in SUBSET (1 .. n) /\ 1 .. k # {}
        /\ (1 .. k) \ {Max(1 .. k)} = 1 .. k - 1
        /\ Max(1 .. k) = k
    BY <1>1, Segments
  <2>2. iter[1 .. k] = TxsBalance(iter[(1 .. k) \ {Max(1 .. k)}],
                                  c[Max(1 .. k)].transactions, a)
    BY <1>8, <2>1, Zenon
  <2>3. iter[1 .. k] = TxsBalance(iter[1 .. k - 1], c[k].transactions, a)
    BY <2>1, <2>2, Zenon
  <2> QED BY <1>5, <1>10, <2>3
<1>11. PICK r \in [0 .. n -> Int] : Runs(n, 0, g, r) /\ r[n] = iter[1 .. n]
  <2> DEFINE V == Int
             zero == 0
  <2>1. /\ GoesBy(n, V, g, iter) /\ g \in [1 .. n -> [V -> V]]
        /\ zero \in V /\ iter[{}] = zero
    BY <1>4, <1>9, <1>10 DEF GoesBy
  <2> HIDE DEF V, zero
  <2>2. \E r \in [0 .. n -> V] : Runs(n, zero, g, r) /\ r[n] = iter[1 .. n]
    BY <1>1, <2>1, FoldRuns
  <2> QED BY <2>2 DEF V, zero
<1>12. ASSUME NEW k \in 1 .. n
       PROVE  r[k] = TxsBalance(r[k - 1], c[k].transactions, a)
  <2>1. r[k - 1] \in Int
    BY <1>1
  <2> QED BY <1>5, <1>11, <2>1 DEF Runs
<1> QED BY <1>3, <1>11, <1>12 DEF n, BalanceRun, Runs

\* A balance is an integer.
LEMMA GetBalanceType ==
    ASSUME NEW T, Priced(T), NEW c, c \in Seq(Range(c)), BlocksOver(T, c), NEW a
    PROVE  GetBalance(c, a) \in Int
<1>1. PICK r : BalanceRun(c, a, r) /\ GetBalance(c, a) = r[Len(c)]
  BY GetBalanceRun
<1>2. Len(c) \in 0 .. Len(c)
  BY LenProperties
<1> QED BY <1>1, <1>2 DEF BalanceRun

\* Where two chains agree, so do the balances on the way.
LEMMA BalanceRunsAgree ==
    ASSUME NEW c, NEW d, NEW a, NEW r, NEW q, NEW k \in Nat,
           Len(c) \in Nat, Len(d) \in Nat, k <= Len(c), k <= Len(d),
           BalanceRun(c, a, r), BalanceRun(d, a, q), \A i \in 1 .. k : c[i] = d[i]
    PROVE  r[k] = q[k]
<1> DEFINE S == {j \in Nat : j <= k => r[j] = q[j]}
<1>1. 0 \in S
  BY DEF BalanceRun
<1>2. ASSUME NEW j \in Nat, j \in S
      PROVE  j + 1 \in S
  <2> SUFFICES ASSUME j + 1 <= k PROVE r[j + 1] = q[j + 1]
    OBVIOUS
  <2>1. /\ j + 1 \in 1 .. k /\ j + 1 \in 1 .. Len(c) /\ j + 1 \in 1 .. Len(d)
        /\ (j + 1) - 1 = j /\ r[j] = q[j]
    BY <1>2
  <2>2. r[j + 1] = TxsBalance(r[j], c[j + 1].transactions, a)
    BY <2>1 DEF BalanceRun
  <2>3. q[j + 1] = TxsBalance(q[j], d[j + 1].transactions, a)
    BY <2>1 DEF BalanceRun
  <2> QED BY <2>1, <2>2, <2>3
<1> HIDE DEF S
<1>3. k \in S
  BY <1>1, <1>2, SetInduction
<1> QED BY <1>3 DEF S

\* What the chain below a block says, and what the block adds to it.
LEMMA GetBalanceAppend ==
    ASSUME NEW T, Priced(T), NEW c, c \in Seq(Range(c)), BlocksOver(T, c),
           NEW b, b.transactions \in Seq(T), NEW a
    PROVE  GetBalance(Append(c, b), a)
              = TxsBalance(GetBalance(c, a), b.transactions, a)
<1> DEFINE n == Len(c)
           d == Append(c, b)
<1>1. /\ d \in Seq(Range(d)) /\ Len(d) = n + 1 /\ d[n + 1] = b
      /\ \A i \in 1 .. n : d[i] = c[i]
  BY AppendChain, AppendProperties, LenProperties DEF Last
<1>2. n \in Nat
  BY LenProperties
<1>3. BlocksOver(T, d)
  BY <1>1, <1>2 DEF BlocksOver
<1> HIDE DEF d, n
<1>4. PICK r : BalanceRun(c, a, r) /\ GetBalance(c, a) = r[n]
  BY GetBalanceRun DEF n
<1>5. PICK q : BalanceRun(d, a, q) /\ GetBalance(d, a) = q[n + 1]
  BY <1>1, <1>3, GetBalanceRun
<1>6. q[n] = r[n]
  <2>1. /\ Len(c) = n /\ Len(c) \in Nat /\ Len(d) \in Nat
        /\ n <= Len(c) /\ n <= Len(d)
    BY <1>1, <1>2 DEF n
  <2>2. \A i \in 1 .. n : c[i] = d[i]
    BY <1>1
  <2>3. BalanceRun(c, a, r) /\ BalanceRun(d, a, q)
    BY <1>4, <1>5
  <2>4. r[n] = q[n]
    BY ONLY <1>2, <2>1, <2>2, <2>3, BalanceRunsAgree
  <2> QED BY <2>4
<1>7. q[n + 1] = TxsBalance(q[n], d[n + 1].transactions, a)
  BY <1>1, <1>2, <1>5 DEF BalanceRun
<1> QED BY <1>1, <1>4, <1>5, <1>6, <1>7 DEF d

\* A chain that is read block by block.
LEMMA GetBalancePrefix ==
    ASSUME NEW T, Priced(T), NEW c, c \in Seq(Range(c)), BlocksOver(T, c),
           NEW k \in Nat, k < Len(c), NEW a
    PROVE  GetBalance(SubSeq(c, 1, k + 1), a)
              = TxsBalance(GetBalance(SubSeq(c, 1, k), a), c[k + 1].transactions, a)
<1> DEFINE p == SubSeq(c, 1, k)
           q == SubSeq(c, 1, k + 1)
<1>1. /\ p \in Seq(Range(c)) /\ Len(p) = k /\ \A i \in 1 .. k : p[i] = c[i]
      /\ q \in Seq(Range(c)) /\ Len(q) = k + 1 /\ \A i \in 1 .. k + 1 : q[i] = c[i]
  BY InitialSegment, LenProperties
<1>2. q = Append(p, c[k + 1])
  <2>1. c[k + 1] \in Range(c)
    BY LenProperties DEF Range
  <2>2. /\ Append(p, c[k + 1]) \in Seq(Range(c))
        /\ Len(Append(p, c[k + 1])) = k + 1
        /\ \A i \in 1 .. k : Append(p, c[k + 1])[i] = p[i]
        /\ Append(p, c[k + 1])[k + 1] = c[k + 1]
    BY <1>1, <2>1, AppendProperties
  <2>3. \A i \in 1 .. k + 1 : Append(p, c[k + 1])[i] = q[i]
    BY <1>1, <2>2
  <2> QED BY <1>1, <2>2, <2>3, SeqEqual
<1>3. p \in Seq(Range(p)) /\ BlocksOver(T, p) /\ c[k + 1].transactions \in Seq(T)
  <2>1. BlocksOver(T, p) /\ c[k + 1].transactions \in Seq(T)
    BY <1>1, LenProperties DEF BlocksOver
  <2>2. p \in Seq(Range(p))
    BY <1>1, OverItsRange
  <2> QED BY <2>1, <2>2
<1> HIDE DEF p, q
<1>4. GetBalance(Append(p, c[k + 1]), a)
         = TxsBalance(GetBalance(p, a), c[k + 1].transactions, a)
  BY <1>3, GetBalanceAppend
<1> QED BY <1>2, <1>4 DEF p, q

\* Before the first block there is nothing.
LEMMA GetBalanceEmpty ==
    ASSUME NEW a
    PROVE  GetBalance(<< >>, a) = 0
<1> DEFINE c == << >>
<1>1. c \in Seq(Range(c)) /\ BlocksOver({}, c) /\ Len(c) = 0 /\ Priced({})
  BY DEF BlocksOver, Priced
<1> HIDE DEF c
<1>2. PICK r : BalanceRun(c, a, r) /\ GetBalance(c, a) = r[Len(c)]
  BY <1>1, GetBalanceRun
<1> QED BY <1>1, <1>2 DEF BalanceRun, c
=============================================================================
