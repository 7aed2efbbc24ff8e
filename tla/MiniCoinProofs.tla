--------------------------- MODULE MiniCoinProofs ---------------------------
(***************************************************************************)
(* Proofs about MiniCoin: IndInv is inductive, and from it follow the type *)
(* invariant, the safety properties of the chains and the longest chain    *)
(* rule.  They rest on one assumption about the data, NoHashCollision of   *)
(* MiniCoin.tla: payments with colliding hashes are not entered.  The last *)
(* part is about the coins (MoneySupply).                                  *)
(***************************************************************************)
EXTENDS MiniCoin, LedgerProofs

-----------------------------------------------------------------------------
(* Blocks *)

\* Mining settles nonce and hash, and leaves the rest of the block alone.
LEMMA BlockMineFields ==
    ASSUME NEW b, IsBlock(b)
    PROVE  /\ IsBlock(BlockMine(b))
           /\ BlockMine(b).index = b.index
           /\ BlockMine(b).prev_hash = b.prev_hash
           /\ BlockMine(b).transactions = b.transactions
           /\ BlockMine(b).hash = BlockHash(BlockMine(b))
<1> DEFINE k == Min(WinningNonces(b))
           m == [b EXCEPT !.nonce = k]
           h == BlockHash(m)
           r == [m EXCEPT !.hash = h]
<1>1. r = BlockMine(b)
  BY DEF BlockMine
<1> HIDE DEF k, h
<1>2. m = [index |-> b.index, timestamp |-> b.timestamp,
           transactions |-> b.transactions, prev_hash |-> b.prev_hash,
           nonce |-> k, hash |-> b.hash]
  BY DEF IsBlock
<1> HIDE DEF m
<1>3. r = [index |-> b.index, timestamp |-> b.timestamp,
           transactions |-> b.transactions, prev_hash |-> b.prev_hash,
           nonce |-> k, hash |-> h]
  BY <1>2
<1>4. BlockHash(r) = h
  <2>1. /\ r.index = m.index /\ r.timestamp = m.timestamp
        /\ r.prev_hash = m.prev_hash /\ r.nonce = m.nonce
        /\ r.transactions = m.transactions
    BY <1>2, <1>3
  <2> QED BY <2>1 DEF BlockHash, h
<1> HIDE DEF r
<1>5. IsBlock(r)
  BY <1>3 DEF IsBlock
<1>6. /\ r.index = b.index /\ r.prev_hash = b.prev_hash
      /\ r.transactions = b.transactions /\ r.hash = h
  BY <1>3
<1> QED BY <1>1, <1>4, <1>5, <1>6

\* The zeroed new_block of do_mine is a block.
LEMMA NoBlockIsBlock == IsBlock(NoBlock)
<1>1. << >> \in Seq(KnownTxs)
  BY EmptySeq
<1> QED BY <1>1 DEF IsBlock, NoBlock

\* Genesis: number 0, no transactions, its own hash.
LEMMA GenesisFields ==
    /\ IsBlock(Genesis)
    /\ Genesis.index = 0
    /\ Genesis.transactions = << >>
    /\ Genesis.hash = BlockHash(Genesis)
<1> DEFINE g == [index |-> 0, timestamp |-> GENESIS_TIME, transactions |-> << >>,
                 prev_hash |-> ZeroHash, nonce |-> 0, hash |-> Unset]
<1>1. IsBlock(g)
  <2>1. << >> \in Seq(KnownTxs)
    BY EmptySeq
  <2> QED BY <2>1 DEF IsBlock
<1>2. g.index = 0 /\ g.transactions = << >>
  OBVIOUS
<1>3. Genesis = BlockMine(g)
  BY DEF Genesis
<1> HIDE DEF g
<1> QED BY <1>1, <1>2, <1>3, BlockMineFields

\* The chain that chain_init makes.
LEMMA ChainInitFields ==
    /\ IsChain(ChainInit)
    /\ Len(ChainInit) = 1
    /\ Last(ChainInit) = Genesis
<1>1. Len(<<Genesis>>) = 1 /\ <<Genesis>>[1] = Genesis
  OBVIOUS
<1>2. Range(<<Genesis>>) = {Genesis}
  BY <1>1 DEF Range
<1>3. <<Genesis>> \in Seq({Genesis})
  OBVIOUS
<1> QED BY <1>1, <1>2, <1>3, GenesisFields, CapacityAssumption
        DEF ChainInit, IsChain, Last

\* A block's hash determines its transactions and its link.
LEMMA HashDetermines ==
    ASSUME NoHashCollision,
           NEW b, IsBlock(b), b.hash = BlockHash(b),
           NEW d, IsBlock(d), d.hash = BlockHash(d),
           b.hash = d.hash
    PROVE  b = d
<1>1. BlockHash(b) = BlockHash(d)
  OBVIOUS
<1>2. /\ b.index = d.index /\ b.timestamp = d.timestamp
      /\ b.prev_hash = d.prev_hash /\ b.nonce = d.nonce
  BY <1>1 DEF BlockHash
<1> DEFINE bt == b.transactions
           dt == d.transactions
<1>3. bt \in Seq(KnownTxs) /\ dt \in Seq(KnownTxs)
  BY DEF IsBlock
<1>4. [i \in 1 .. Len(bt) |-> bt[i].tx_hash] = [i \in 1 .. Len(dt) |-> dt[i].tx_hash]
  BY <1>1 DEF BlockHash
<1> HIDE DEF bt, dt
<1>5. Len(bt) \in Nat /\ Len(dt) \in Nat
  BY <1>3, LenProperties
<1>6. 1 .. Len(bt) = 1 .. Len(dt)
  BY <1>4
<1>7. Len(bt) = Len(dt)
  BY <1>5, <1>6
<1>8. ASSUME NEW i \in 1 .. Len(bt)
      PROVE  bt[i] = dt[i]
  <2>1. bt[i].tx_hash = dt[i].tx_hash
    BY <1>4, <1>6
  <2>2. bt[i] \in KnownTxs /\ dt[i] \in KnownTxs
    BY <1>3, <1>6, ElementOfSeq
  <2> QED BY <2>1, <2>2 DEF NoHashCollision
<1>9. bt = dt
  BY <1>3, <1>7, <1>8, SeqEqual
<1> QED BY <1>2, <1>9 DEF IsBlock, bt, dt

-----------------------------------------------------------------------------
(* The tree of chains *)

\* What a chain of the tree is made of.
LEMMA BuiltFields ==
    ASSUME TreeInv, NEW c \in built
    PROVE  /\ IsChain(c) /\ c \in Seq(Range(c)) /\ Len(c) \in Nat \ {0}
           /\ Len(c) <= MAX_BLOCKS
           /\ IsBlock(Last(c)) /\ Last(c).index = Len(c) - 1
           /\ Last(c).hash = BlockHash(Last(c))
<1>1. /\ IsChain(c) /\ c \in Seq(Range(c)) /\ Len(c) \in Nat \ {0}
      /\ Len(c) <= MAX_BLOCKS
      /\ Last(c).index = Len(c) - 1
  BY CapacityAssumption DEF TreeInv, IsChain
<1>2. IsBlock(Last(c))
  BY <1>1 DEF IsChain, Last
<1>3. Last(c).hash = BlockHash(Last(c))
  BY ChainInitFields, GenesisFields DEF TreeInv, GrownFrom
<1> QED BY <1>1, <1>2, <1>3

\* A block of the tree that chain_add_block accepts leads to a chain of the
\* tree: comparing prev_hash is comparing the whole chain below.
LEMMA AddKnownBlock ==
    ASSUME TreeInv, TipHashUnique, NEW c \in built, NEW b \in Tips,
           AddBlockAccepts(c, b)
    PROVE  Append(c, b) \in built
<1>1. PICK d \in built : d # ChainInit /\ b = Last(d)
  BY DEF Tips
<1>2. PICK p \in built : GrownFrom(p, d)
  BY <1>1 DEF TreeInv
<1>3. Last(p).hash = Last(c).hash
  BY <1>1, <1>2 DEF GrownFrom, AddBlockAccepts
<1>4. p = c
  BY <1>3 DEF TipHashUnique
<1> QED BY <1>1, <1>2, <1>4 DEF GrownFrom

\* A chain that chain_add_block makes from a chain of the tree and a new block
\* keeps the tree sound.
LEMMA AddMinedBlock ==
    ASSUME NoHashCollision, TreeInv, TipHashUnique, NEW c \in built, NEW b,
           IsBlock(b), b.hash = BlockHash(b), AddBlockAccepts(c, b),
           \A i \in 2 .. Len(b.transactions) : CanAfford(c, b.transactions[i]),
           built' = built \cup {Append(c, b)}
    PROVE  /\ TreeInv' /\ TipHashUnique'
           /\ Last(Append(c, b)) = b
           /\ Append(c, b) # ChainInit
           /\ Len(Append(c, b)) = Len(c) + 1
<1> DEFINE e == Append(c, b)
<1>1. /\ c \in Seq(Range(c)) /\ Len(c) \in Nat \ {0}
      /\ \A i \in 1 .. Len(c) : IsBlock(c[i])
  BY BuiltFields DEF IsChain
<1>2. /\ e \in Seq(Range(e))
      /\ Len(e) = Len(c) + 1
      /\ Last(e) = b
      /\ \A i \in 1 .. Len(c) : e[i] = c[i]
  BY <1>1, AppendChain
<1>3. e # ChainInit
  BY <1>1, <1>2, ChainInitFields
<1>4. b.index = Len(c) /\ b.prev_hash = Last(c).hash /\ Len(c) < MAX_BLOCKS
  BY <1>1, BuiltFields DEF AddBlockAccepts
<1>5. IsChain(e)
  <2>1. e[Len(c) + 1] = b
    BY <1>2 DEF Last
  <2>2. \A i \in 1 .. Len(e) : IsBlock(e[i])
    BY <1>1, <1>2, <2>1
  <2>3. Len(e) \in 1 .. MAX_BLOCKS
    BY <1>1, <1>2, <1>4, CapacityAssumption
  <2> QED BY <1>2, <2>2, <2>3 DEF IsChain
<1>6. GrownFrom(c, e)
  BY <1>2, <1>4 DEF GrownFrom
<1> HIDE DEF e
<1>7. TreeInv'
  <2>1. ChainInit' = ChainInit
    OBVIOUS
  <2>2. ChainInit \in built'
    BY DEF TreeInv
  <2>3. \A d \in built' : IsChain(d) /\ Last(d).index = Len(d) - 1
    <3>1. Last(e).index = Len(e) - 1
      BY <1>1, <1>2, <1>4
    <3> QED BY <1>5, <3>1 DEF TreeInv, e
  <2>4. \A d \in built' : d = ChainInit \/ \E p \in built' : GrownFrom(p, d)
    BY <1>6 DEF TreeInv, e
  <2> QED BY <2>2, <2>3, <2>4 DEF TreeInv
<1>8. ASSUME NEW d \in built, Last(d).hash = b.hash
      PROVE  d = e
  <2>1. Last(d) = b
    BY <1>8, BuiltFields, HashDetermines
  <2>2. d # ChainInit
    <3>1. Last(ChainInit).index = 0
      BY ChainInitFields, GenesisFields
    <3>2. Last(d).index \in Nat \ {0}
      BY <2>1, <1>1, <1>4
    <3> QED BY <3>1, <3>2
  <2>3. PICK p \in built : GrownFrom(p, d)
    BY <2>2 DEF TreeInv
  <2>4. Last(p).hash = Last(c).hash
    BY <2>1, <2>3, <1>4 DEF GrownFrom
  <2>5. p = c
    BY <2>4 DEF TipHashUnique
  <2> QED BY <2>1, <2>3, <2>5 DEF GrownFrom, e
<1>9. TipHashUnique'
  <2>1. ASSUME NEW d1 \in built', NEW d2 \in built', Last(d1).hash = Last(d2).hash
        PROVE  d1 = d2
    <3>1. CASE d1 \in built /\ d2 \in built
      BY <2>1, <3>1 DEF TipHashUnique
    <3>2. CASE d1 = e
      BY <2>1, <3>2, <1>2, <1>8 DEF e
    <3>3. CASE d2 = e
      BY <2>1, <3>3, <1>2, <1>8 DEF e
    <3> QED BY <3>1, <3>2, <3>3 DEF e
  <2> QED BY <2>1 DEF TipHashUnique
<1> QED BY <1>2, <1>3, <1>7, <1>9 DEF e

\* When the tree grows, what may be held and sent grows with it.
LEMMA TreeGrows ==
    ASSUME built \subseteq built'
    PROVE  /\ Tips \subseteq Tips'
           /\ Wire \subseteq Wire'
<1>1. Tips \subseteq Tips'
  BY DEF Tips
<1> QED BY <1>1 DEF Wire

\* A step that leaves a miner's block alone, and its chain as it is or longer,
\* keeps the block standing.
LEMMA StandingKept ==
    ASSUME NEW n \in Nodes, Standing(n), built \subseteq built',
           pc'[n] = pc[n], new_block'[n] = new_block[n],
           Len(chain[n]) \in Nat, Len(chain'[n]) \in Nat, TreeInv,
           chain'[n] = chain[n] \/ Len(chain'[n]) > Len(chain[n])
    PROVE  Standing(n)'
<1>1. PICK c \in built :
         /\ new_block[n].index = Len(c)
         /\ new_block[n].prev_hash = Last(c).hash
         /\ chain[n] = c \/ Len(chain[n]) > Len(c)
         /\ chain[n] = c =>
              \A i \in (IF pc[n] = "mine" THEN 2 ELSE 1)
                         .. Len(new_block[n].transactions) :
                  CanAfford(c, new_block[n].transactions[i])
  BY DEF Standing
<1>2. Len(c) \in Nat
  BY BuiltFields
<1>3. chain'[n] = c => chain[n] = c
  BY <1>1, <1>2
<1>4. chain'[n] = c \/ Len(chain'[n]) > Len(c)
  BY <1>1, <1>2
<1>5. c \in built'
  OBVIOUS
<1> QED BY <1>1, <1>3, <1>4, <1>5 DEF Standing

\* Sending puts messages of the wire on the wire.
LEMMA SendType ==
    ASSUME NEW S, NEW box \in [Nodes -> [Conns -> Seq(S)]], NEW n, NEW cs,
           NEW msgs \in Seq(S)
    PROVE  Send(box, n, cs, msgs) \in [Nodes -> [Conns -> Seq(S)]]
<1>1. \A m \in Nodes, c \in Conns : box[m][c] \o msgs \in Seq(S)
  BY ConcatProperties
<1> QED BY <1>1 DEF Send

-----------------------------------------------------------------------------
(* Transactions *)

\* Arithmetic on uint64_t stays in uint64_t.
LEMMA WordMod ==
    ASSUME NEW x \in Nat
    PROVE  x % Two64 \in UInt64
BY WordAssumption DEF UInt64

\* What do_send makes of what a user enters.
LEMMA UserTxFields ==
    ASSUME NEW t \in UserTxs
    PROVE  t \in KnownTxs /\ t.fee \in UInt64
<1>1. PICK p \in Payments : t = TxCreate(p.sender, p.receiver, p.amount, p.fee)
  BY DEF UserTxs
<1>2. t.fee = p.fee
  BY <1>1 DEF TxCreate
<1>3. p.fee \in UInt64
  BY PaymentAssumption
<1> QED BY <1>2, <1>3 DEF KnownTxs

\* The first transaction of a mined block is a coinbase transaction.
LEMMA CoinbaseKnown ==
    ASSUME NEW n \in Nodes, NEW fees \in UInt64
    PROVE  Coinbase(n, fees) \in KnownTxs
<1>1. (MINING_REWARD + fees) % Two64 \in UInt64
  <2>1. MINING_REWARD + fees \in Nat
    BY WordAssumption DEF UInt64, MINING_REWARD
  <2> QED BY <2>1, WordMod
<1> QED BY <1>1 DEF Coinbase, KnownTxs, CoinbaseTxs

\* A transaction enters a mempool only while there is room.
LEMMA PoolType ==
    ASSUME NEW mp \in Seq(UserTxs), Len(mp) <= MEMPOOL_SIZE, NEW t \in UserTxs
    PROVE  Pool(mp, t) \in Seq(UserTxs) /\ Len(Pool(mp, t)) <= MEMPOOL_SIZE
BY AppendProperties, LenProperties, BoundAssumption DEF Pool

-----------------------------------------------------------------------------
(* The invariant, in the parts the steps are proved for *)

\* TypeOK without the chains, which HeldInv places in the tree.
NodeTypes ==
    /\ mempool \in [Nodes -> Seq(UserTxs)]
    /\ \A n \in Nodes : Len(mempool[n]) <= MEMPOOL_SIZE
    /\ pc \in [Nodes -> MainPoints]
    /\ DOMAIN new_block = Nodes
    /\ \A n \in Nodes : /\ IsBlock(new_block[n])
                        /\ Len(new_block[n].transactions) <= MAX_TX_PER_BLOCK
    /\ total_fees \in [Nodes -> UInt64]
    /\ tx \in [Nodes -> UserTxs \cup {NoTx}]
    /\ conns \in Seq(Nodes \X Nodes) /\ Len(conns) <= MaxConns
    /\ up \in [Conns -> BOOLEAN]
    /\ backlog \subseteq Made
    /\ peers \in [Nodes -> SUBSET Made]
    /\ last_peer \in [Nodes -> 0 .. MaxConns]
    /\ accepting \in [Nodes -> 0 .. MaxConns]
    /\ sent \subseteq Payments
    /\ faults \in 0 .. MaxFaults

Ind == NodeTypes /\ TreeInv /\ TipHashUnique /\ HeldInv /\ MinerInv

\* A block that was mined has its own hash.
LEMMA TipIsBlock ==
    ASSUME TreeInv, NEW b \in Tips
    PROVE  IsBlock(b) /\ b.hash = BlockHash(b)
BY BuiltFields DEF Tips

\* Ind, which types nodes and wire, implies the type invariant.
LEMMA IndTypeOK ==
    ASSUME Ind
    PROVE  TypeOK
<1>1. DOMAIN chain = Nodes /\ \A n \in Nodes : IsChain(chain[n])
  BY DEF Ind, HeldInv, TreeInv
<1>2. ASSUME NEW n \in Nodes, NEW c \in Conns
      PROVE  IsBlock(relay[n][c])
  <2>1. relay[n][c] \in Tips \cup {NoBlock}
    BY DEF Ind, HeldInv
  <2> QED BY <2>1, TipIsBlock, NoBlockIsBlock DEF Ind
<1>3. ASSUME NEW msg \in Wire
      PROVE  IsMessage(msg)
  <2>1. CASE \E b \in Tips : msg = NewBlock(b)
    BY <2>1, TipIsBlock DEF NewBlock, IsMessage, Ind
  <2>2. CASE \E t \in UserTxs : msg = NewTx(t)
    BY <2>2 DEF NewTx, IsMessage
  <2>3. CASE msg = RequestChain
    BY <2>3 DEF RequestChain, IsMessage
  <2>4. CASE \E c \in built : msg = ChainResponse(c)
    BY <2>4 DEF ChainResponse, IsMessage, Ind, TreeInv
  <2> QED BY <2>1, <2>2, <2>3, <2>4 DEF Wire
<1>4. ASSUME NEW n \in Nodes, NEW c \in Conns, NEW i \in 1 .. Len(inbox[n][c])
      PROVE  IsMessage(inbox[n][c][i])
  <2>1. inbox[n][c] \in Seq(Wire)
    BY DEF Ind, HeldInv
  <2>2. inbox[n][c][i] \in Wire
    BY <2>1, ElementOfSeq
  <2> QED BY <2>2, <1>3
<1>5. \A n \in Nodes, c \in Conns : answer[n][c] = << >> \/ IsChain(answer[n][c])
  <2> SUFFICES ASSUME NEW n \in Nodes, NEW c \in Conns
               PROVE  answer[n][c] = << >> \/ IsChain(answer[n][c])
    OBVIOUS
  <2>1. answer[n][c] \in built \cup {<< >>}
    BY DEF Ind, HeldInv
  <2> QED BY <2>1 DEF Ind, TreeInv
<1> QED BY <1>1, <1>2, <1>4, <1>5 DEF Ind, NodeTypes, TypeOK

\* What a node's chain is.
LEMMA ChainFields ==
    ASSUME Ind, NEW n \in Nodes
    PROVE  /\ chain[n] \in built
           /\ Len(chain[n]) \in Nat \ {0}
           /\ Last(chain[n]).index = Len(chain[n]) - 1
BY BuiltFields DEF Ind, HeldInv

\* Steps that leave every miner's block alone.
LEMMA MinersKept ==
    ASSUME Ind, built \subseteq built', UNCHANGED <<pc, new_block>>,
           \A n \in Nodes : /\ Len(chain'[n]) \in Nat
                            /\ chain'[n] = chain[n] \/ Len(chain'[n]) > Len(chain[n])
    PROVE  MinerInv'
<1> SUFFICES ASSUME NEW n \in Nodes, pc'[n] \in {"lock", "collect", "mine"}
             PROVE  Standing(n)'
  BY DEF MinerInv
<1>1. Standing(n)
  BY DEF Ind, MinerInv
<1>2. Len(chain[n]) \in Nat
  BY ChainFields
<1> QED BY <1>1, <1>2, StandingKept DEF Ind

\* Steps of one main thread.
LEMMA OtherMinersKept ==
    ASSUME Ind, built \subseteq built', NEW n \in Nodes,
           \A m \in Nodes \ {n} : /\ pc'[m] = pc[m]
                                  /\ new_block'[m] = new_block[m]
                                  /\ chain'[m] = chain[m],
           pc'[n] \in {"lock", "collect", "mine"} => Standing(n)'
    PROVE  MinerInv'
<1> SUFFICES ASSUME NEW m \in Nodes \ {n}, pc'[m] \in {"lock", "collect", "mine"}
             PROVE  Standing(m)'
  BY DEF MinerInv
<1>1. Standing(m)
  BY DEF Ind, MinerInv
<1>2. Len(chain[m]) \in Nat
  BY ChainFields
<1> QED BY <1>1, <1>2, StandingKept DEF Ind

\* Ind states the same as IndInv, with the types the proofs can use.
LEMMA IndIsIndInv == Ind <=> IndInv
<1>1. IndInv => Ind
  BY DEF IndInv, Ind, TypeOK, NodeTypes
<1>2. Ind => IndInv
  BY IndTypeOK DEF IndInv, Ind
<1> QED BY <1>1, <1>2

-----------------------------------------------------------------------------
(* The invariant holds initially *)

\* The invariant holds before anything was mined or sent.
LEMMA InitInd == Init => Ind
<1> SUFFICES ASSUME Init PROVE Ind
  OBVIOUS
<1> USE DEF Init
<1>1. NodeTypes
  <2>1. /\ << >> \in Seq(UserTxs) /\ Len(<< >>) = 0
        /\ << >> \in Seq(Nodes \X Nodes)
    BY EmptySeq
  <2>2. IsBlock(NoBlock) /\ NoBlock.transactions = << >>
    BY NoBlockIsBlock DEF NoBlock
  <2>3. 0 \in UInt64 /\ 0 \in 0 .. MaxFaults
    BY WordAssumption, BoundAssumption DEF UInt64
  <2> QED BY <2>1, <2>2, <2>3, CapacityAssumption, BoundAssumption
          DEF NodeTypes, MainPoints
<1>2. TreeInv
  <2>1. built = {ChainInit}
    OBVIOUS
  <2>2. Last(ChainInit).index = Len(ChainInit) - 1
    BY ChainInitFields, GenesisFields
  <2> QED BY <2>1, <2>2, ChainInitFields DEF TreeInv
<1>3. TipHashUnique
  BY DEF TipHashUnique
<1>4. HeldInv
  <2>1. << >> \in Seq(Wire)
    BY EmptySeq
  <2> QED BY <2>1 DEF HeldInv
<1>5. MinerInv
  BY DEF MinerInv
<1> QED BY <1>1, <1>2, <1>3, <1>4, <1>5 DEF Ind

-----------------------------------------------------------------------------
(* The steps of do_mine *)

\* A block that is begun stands on the miner's chain.
LEMMA SnapshotInd ==
    ASSUME Ind, NEW n \in Nodes, NEW t \in Times, MineSnapshot(n, t)
    PROVE  Ind'
<1> USE DEF MineSnapshot, nodeVars, netVars, peerVars
<1> DEFINE nb == [index |-> Last(chain[n]).index + 1, timestamp |-> t,
                  transactions |-> << >>, prev_hash |-> Last(chain[n]).hash,
                  nonce |-> 0, hash |-> Unset]
<1>1. new_block' = [new_block EXCEPT ![n] = nb]
  OBVIOUS
<1>2. IsBlock(nb) /\ Len(nb.transactions) = 0 /\ nb.index = Len(chain[n])
      /\ nb.prev_hash = Last(chain[n]).hash
  <2>1. << >> \in Seq(KnownTxs)
    BY EmptySeq
  <2> QED BY <2>1, ChainFields DEF IsBlock
<1> HIDE DEF nb
<1>3. NodeTypes'
  <2>1. /\ DOMAIN new_block' = Nodes
        /\ \A m \in Nodes : /\ IsBlock(new_block'[m])
                            /\ Len(new_block'[m].transactions) <= MAX_TX_PER_BLOCK
    BY <1>1, <1>2, CapacityAssumption DEF Ind, NodeTypes
  <2>2. pc' \in [Nodes -> MainPoints]
    BY DEF Ind, NodeTypes, MainPoints
  <2>3. total_fees' \in [Nodes -> UInt64]
    BY WordAssumption DEF Ind, NodeTypes, UInt64
  <2> QED BY <2>1, <2>2, <2>3 DEF Ind, NodeTypes, Made
<1>4. TreeInv' /\ TipHashUnique'
  BY DEF Ind, TreeInv, TipHashUnique
<1>5. HeldInv'
  BY DEF Ind, HeldInv, NodeTypes, Wire, Tips
<1>6. MinerInv'
  <2>1. Standing(n)'
    <3>1. chain[n] \in built /\ new_block'[n] = nb /\ pc'[n] = "lock"
      BY <1>1, ChainFields DEF Ind, NodeTypes
    <3>2. new_block'[n].index = Len(chain[n])
          /\ new_block'[n].prev_hash = Last(chain[n]).hash
          /\ Len(new_block'[n].transactions) = 0
      BY <1>2, <3>1
    <3>3. 1 + Len(new_block'[n].transactions) <= MAX_TX_PER_BLOCK
      BY <3>2, CapacityAssumption
    <3> QED BY <3>1, <3>2, <3>3 DEF Standing
  <2>2. \A m \in Nodes \ {n} : pc'[m] = pc[m] /\ new_block'[m] = new_block[m]
    BY DEF Ind, NodeTypes
  <2> QED BY <2>1, <2>2, OtherMinersKept
<1> QED BY <1>3, <1>4, <1>5, <1>6 DEF Ind

\* Waiting for mempool_lock changes nothing.
LEMMA LockInd ==
    ASSUME Ind, NEW n \in Nodes, MineLock(n)
    PROVE  Ind'
<1> USE DEF MineLock, nodeVars, netVars, peerVars
<1>1. NodeTypes'
  <2>1. pc' \in [Nodes -> MainPoints]
    BY DEF Ind, NodeTypes, MainPoints
  <2> QED BY <2>1 DEF Ind, NodeTypes, Made
<1>2. TreeInv' /\ TipHashUnique' /\ Wire' = Wire /\ Tips' = Tips
  BY DEF Ind, TreeInv, TipHashUnique, Wire, Tips
<1>3. pc'[n] = "collect" /\ \A m \in Nodes \ {n} : pc'[m] = pc[m]
  BY DEF Ind, NodeTypes
<1>4. HeldInv'
  BY <1>2, <1>3 DEF Ind, HeldInv, NodeTypes
<1>5. MinerInv'
  <2>1. Standing(n)
    BY DEF Ind, MinerInv
  <2>2. Standing(n)'
    BY <2>1, <1>3 DEF Standing
  <2> QED BY <1>3, <2>2, OtherMinersKept
<1> QED BY <1>1, <1>2, <1>4, <1>5 DEF Ind

\* Only payments that the chain of this moment affords join the block; when it is
\* no longer the chain the block was begun on, the block stands anyway.
LEMMA CollectInd ==
    ASSUME Ind, NEW n \in Nodes, MineCollect(n)
    PROVE  Ind'
<1> USE DEF MineCollect, nodeVars, netVars, RoomInBlock, peerVars
<1> DEFINE t == Head(mempool[n])
           nb == new_block[n]
           longer == Append(nb.transactions, t)
           grown == [nb EXCEPT !.transactions = longer]
           taken == CanAfford(chain[n], t)
<1>1. /\ t \in UserTxs
      /\ Tail(mempool[n]) \in Seq(UserTxs)
      /\ Len(Tail(mempool[n])) <= MEMPOOL_SIZE
  <2>1. mempool[n] \in Seq(UserTxs) /\ mempool[n] # << >> /\ Len(mempool[n]) <= MEMPOOL_SIZE
    BY DEF Ind, NodeTypes
  <2> QED BY <2>1, HeadTailProperties, LenProperties, BoundAssumption
<1>2. t \in KnownTxs /\ t.fee \in UInt64
  BY <1>1, UserTxFields
<1>3. /\ IsBlock(nb) /\ nb.transactions \in Seq(KnownTxs)
      /\ Len(nb.transactions) \in Nat
      /\ 1 + Len(nb.transactions) < MAX_TX_PER_BLOCK
      /\ pc[n] = "collect"
  <2>1. IsBlock(nb)
    BY DEF Ind, NodeTypes
  <2> QED BY <2>1, LenProperties DEF IsBlock
<1> HIDE DEF t, nb
<1>4. /\ longer \in Seq(KnownTxs)
      /\ Len(longer) = Len(nb.transactions) + 1
      /\ \A i \in 1 .. Len(nb.transactions) : longer[i] = nb.transactions[i]
      /\ longer[Len(nb.transactions) + 1] = t
  BY <1>2, <1>3, AppendProperties
<1> HIDE DEF longer
<1>5. grown = [index |-> nb.index, timestamp |-> nb.timestamp, transactions |-> longer,
               prev_hash |-> nb.prev_hash, nonce |-> nb.nonce, hash |-> nb.hash]
  BY <1>3 DEF IsBlock
<1> HIDE DEF grown
<1>6. /\ IsBlock(grown) /\ grown.transactions = longer
      /\ grown.index = nb.index /\ grown.prev_hash = nb.prev_hash
  BY <1>3, <1>4, <1>5 DEF IsBlock
<1>7. new_block' = IF taken THEN [new_block EXCEPT ![n] = grown] ELSE new_block
  BY DEF t, nb, grown, longer
<1> HIDE DEF taken
<1>8. NodeTypes'
  <2>1. mempool' \in [Nodes -> Seq(UserTxs)]
        /\ \A m \in Nodes : Len(mempool'[m]) <= MEMPOOL_SIZE
    BY <1>1 DEF Ind, NodeTypes
  <2>2. /\ DOMAIN new_block' = Nodes
        /\ \A m \in Nodes : /\ IsBlock(new_block'[m])
                            /\ Len(new_block'[m].transactions) <= MAX_TX_PER_BLOCK
    <3>1. Len(grown.transactions) <= MAX_TX_PER_BLOCK
      BY <1>3, <1>4, <1>6, CapacityAssumption
    <3>2. new_block' = new_block \/ new_block' = [new_block EXCEPT ![n] = grown]
      BY <1>7
    <3> QED BY <3>1, <3>2, <1>6 DEF Ind, NodeTypes
  <2>3. total_fees' \in [Nodes -> UInt64]
    <3>1. (total_fees[n] + t.fee) % Two64 \in UInt64
      <4>1. total_fees[n] + t.fee \in Nat
        BY <1>2, WordAssumption DEF Ind, NodeTypes, UInt64
      <4> QED BY <4>1, WordMod
    <3>2. total_fees' = [total_fees EXCEPT ![n] = (total_fees[n] + t.fee) % Two64]
          \/ total_fees' = total_fees
      BY DEF t, Ind, NodeTypes
    <3> QED BY <3>1, <3>2 DEF Ind, NodeTypes
  <2> QED BY <2>1, <2>2, <2>3 DEF Ind, NodeTypes, Made
<1>9. TreeInv' /\ TipHashUnique'
  BY DEF Ind, TreeInv, TipHashUnique
<1>10. HeldInv'
  BY <1>3, <1>7 DEF Ind, HeldInv, NodeTypes, Wire, Tips
<1>11. MinerInv'
  <2>1. Standing(n)'
    <3>1. PICK c \in built :
            /\ nb.index = Len(c)
            /\ nb.prev_hash = Last(c).hash
            /\ chain[n] = c \/ Len(chain[n]) > Len(c)
            /\ chain[n] = c =>
                 \A i \in 1 .. Len(nb.transactions) : CanAfford(c, nb.transactions[i])
      BY <1>3 DEF Ind, MinerInv, Standing, nb
    <3>2. CASE taken
      <4>1. new_block'[n] = grown /\ pc'[n] = "collect"
        BY <3>2, <1>3, <1>7 DEF Ind, NodeTypes
      <4>2. chain[n] = c => \A i \in 1 .. Len(grown.transactions) :
                               CanAfford(c, grown.transactions[i])
        BY <3>1, <3>2, <1>3, <1>4, <1>6 DEF taken
      <4>3. 1 + Len(grown.transactions) <= MAX_TX_PER_BLOCK
        BY <1>3, <1>4, <1>6, CapacityAssumption
      <4>4. grown.index = Len(c) /\ grown.prev_hash = Last(c).hash
        BY <3>1, <1>6
      <4> QED BY <3>1, <4>1, <4>2, <4>3, <4>4 DEF Standing
    <3>3. CASE ~ taken
      <4>1. new_block'[n] = nb /\ pc'[n] = "collect"
        BY <3>3, <1>3, <1>7 DEF nb
      <4>2. 1 + Len(nb.transactions) <= MAX_TX_PER_BLOCK
        BY <1>3, CapacityAssumption
      <4> QED BY <3>1, <4>1, <4>2 DEF Standing
    <3> QED BY <3>2, <3>3
  <2>2. \A m \in Nodes \ {n} : pc'[m] = pc[m] /\ new_block'[m] = new_block[m]
    BY <1>7 DEF Ind, NodeTypes
  <2> QED BY <2>1, <2>2, OtherMinersKept
<1> QED BY <1>8, <1>9, <1>10, <1>11 DEF Ind

\* The coinbase transaction goes in front; the payments move up by one.
LEMMA SealInd ==
    ASSUME Ind, NEW n \in Nodes, MineSeal(n)
    PROVE  Ind'
<1> USE DEF MineSeal, nodeVars, netVars, peerVars
<1> DEFINE nb == new_block[n]
           cb == Coinbase(n, total_fees[n])
           txs == <<cb>> \o nb.transactions
           sealed == [nb EXCEPT !.transactions = txs]
<1>1. /\ IsBlock(nb) /\ nb.transactions \in Seq(KnownTxs)
      /\ Len(nb.transactions) \in Nat
      /\ pc[n] = "collect"
      /\ Standing(n)
  <2>1. IsBlock(nb)
    BY DEF Ind, NodeTypes
  <2> QED BY <2>1, LenProperties DEF IsBlock, Ind, MinerInv
<1>2. cb \in KnownTxs
  BY CoinbaseKnown DEF Ind, NodeTypes
<1>3. new_block' = [new_block EXCEPT ![n] = sealed]
  BY DEF Ind, NodeTypes
<1> HIDE DEF nb, cb
<1>4. /\ txs \in Seq(KnownTxs)
      /\ Len(txs) = Len(nb.transactions) + 1
      /\ \A i \in 2 .. Len(txs) : txs[i] = nb.transactions[i - 1]
  <2>1. <<cb>> \in Seq(KnownTxs) /\ Len(<<cb>>) = 1
    BY <1>2
  <2>2. /\ txs \in Seq(KnownTxs)
        /\ Len(txs) = Len(<<cb>>) + Len(nb.transactions)
        /\ \A i \in 1 .. Len(<<cb>>) + Len(nb.transactions) : txs[i] =
              IF i <= Len(<<cb>>) THEN <<cb>>[i] ELSE nb.transactions[i - Len(<<cb>>)]
    BY <2>1, <1>1, ConcatProperties
  <2> QED BY <2>1, <2>2, <1>1
<1> HIDE DEF txs
<1>5. sealed = [index |-> nb.index, timestamp |-> nb.timestamp, transactions |-> txs,
                prev_hash |-> nb.prev_hash, nonce |-> nb.nonce, hash |-> nb.hash]
  BY <1>1 DEF IsBlock
<1> HIDE DEF sealed
<1>6. /\ IsBlock(sealed) /\ sealed.transactions = txs
      /\ sealed.index = nb.index /\ sealed.prev_hash = nb.prev_hash
  BY <1>1, <1>4, <1>5 DEF IsBlock
<1>7. NodeTypes'
  <2>1. mempool' \in [Nodes -> Seq(UserTxs)]
        /\ \A m \in Nodes : Len(mempool'[m]) <= MEMPOOL_SIZE
    BY EmptySeq, BoundAssumption DEF Ind, NodeTypes
  <2>2. /\ DOMAIN new_block' = Nodes
        /\ \A m \in Nodes : /\ IsBlock(new_block'[m])
                            /\ Len(new_block'[m].transactions) <= MAX_TX_PER_BLOCK
    <3>1. Len(txs) <= MAX_TX_PER_BLOCK
      BY <1>1, <1>4, CapacityAssumption DEF Standing, nb
    <3> QED BY <3>1, <1>3, <1>6 DEF Ind, NodeTypes
  <2>3. total_fees' \in [Nodes -> UInt64]
    BY WordAssumption DEF Ind, NodeTypes, UInt64
  <2>4. pc' \in [Nodes -> MainPoints]
    BY DEF Ind, NodeTypes, MainPoints
  <2> QED BY <2>1, <2>2, <2>3, <2>4 DEF Ind, NodeTypes, Made
<1>8. TreeInv' /\ TipHashUnique'
  BY DEF Ind, TreeInv, TipHashUnique
<1>9. HeldInv'
  BY <1>3 DEF Ind, HeldInv, NodeTypes, Wire, Tips
<1>10. MinerInv'
  <2>1. Standing(n)'
    <3>1. PICK c \in built :
            /\ nb.index = Len(c)
            /\ nb.prev_hash = Last(c).hash
            /\ chain[n] = c \/ Len(chain[n]) > Len(c)
            /\ chain[n] = c =>
                 \A i \in 1 .. Len(nb.transactions) : CanAfford(c, nb.transactions[i])
      BY <1>1 DEF Standing, nb
    <3>2. new_block'[n] = sealed /\ pc'[n] = "mine"
      BY <1>3 DEF Ind, NodeTypes
    <3>3. chain[n] = c => \A i \in 2 .. Len(sealed.transactions) :
                             CanAfford(c, sealed.transactions[i])
      <4>1. ASSUME NEW i \in 2 .. Len(txs)
            PROVE  i - 1 \in 1 .. Len(nb.transactions) /\ txs[i] = nb.transactions[i - 1]
        BY <1>1, <1>4
      <4> QED BY <4>1, <3>1, <1>6
    <3>4. sealed.index = Len(c) /\ sealed.prev_hash = Last(c).hash
      BY <3>1, <1>6
    <3> QED BY <3>1, <3>2, <3>3, <3>4 DEF Standing
  <2>2. \A m \in Nodes \ {n} : pc'[m] = pc[m] /\ new_block'[m] = new_block[m]
    BY <1>3 DEF Ind, NodeTypes
  <2> QED BY <2>1, <2>2, OtherMinersKept
<1> QED BY <1>7, <1>8, <1>9, <1>10 DEF Ind

\* The block is added only if the miner's chain is still the one the block was
\* made on, so the payments in it are affordable where it goes.
LEMMA MineAddInd ==
    ASSUME NoHashCollision, Ind, NEW n \in Nodes, MineAdd(n)
    PROVE  Ind'
<1> DEFINE nb == new_block[n]
           b == BlockMine(nb)
           c == chain[n]
<1>1. /\ IsBlock(nb) /\ Standing(n) /\ pc[n] = "mine"
      /\ Len(nb.transactions) <= MAX_TX_PER_BLOCK
  BY DEF MineAdd, Ind, NodeTypes, MinerInv
<1>2. /\ IsBlock(b) /\ b.index = nb.index /\ b.prev_hash = nb.prev_hash
      /\ b.transactions = nb.transactions /\ b.hash = BlockHash(b)
  BY <1>1, BlockMineFields
<1>3. c \in built /\ Len(c) \in Nat \ {0}
  BY ChainFields
<1>4. /\ UNCHANGED <<mempool, total_fees, tx, netVars, sent, faults>>
      /\ chain' = [chain EXCEPT ![n] = AddBlock(c, b)]
  BY DEF MineAdd, Ind, HeldInv
<1>5. CASE AddBlockAccepts(c, b)
  <2> DEFINE e == Append(c, b)
  <2>1. /\ chain' = [chain EXCEPT ![n] = e]
        /\ new_block' = [new_block EXCEPT ![n] = b]
        /\ pc' = [pc EXCEPT ![n] = "announce"]
        /\ built' = built \cup {e}
    <3>1. AddBlock(c, b) = e
      BY <1>5 DEF AddBlock
    <3>2. /\ new_block' = [new_block EXCEPT ![n] = b]
          /\ pc' = [pc EXCEPT ![n] = "announce"]
          /\ built' = built \cup {chain'[n]}
      BY <1>5 DEF MineAdd
    <3>3. chain'[n] = e
      BY <3>1, <1>4 DEF Ind, HeldInv
    <3> QED BY <3>1, <3>2, <3>3, <1>4
  <2>2. \A i \in 2 .. Len(b.transactions) : CanAfford(c, b.transactions[i])
    <3>1. PICK d \in built :
            /\ nb.prev_hash = Last(d).hash
            /\ chain[n] = d =>
                 \A i \in 2 .. Len(nb.transactions) : CanAfford(d, nb.transactions[i])
      BY <1>1 DEF Standing
    <3>2. Last(d).hash = Last(c).hash
      BY <3>1, <1>2, <1>5 DEF AddBlockAccepts
    <3>3. d = c
      BY <3>2, <1>3 DEF Ind, TipHashUnique
    <3> QED BY <3>1, <3>3, <1>2
  <2> HIDE DEF nb, b, c
  <2>3. /\ TreeInv' /\ TipHashUnique'
        /\ Last(e) = b /\ e # ChainInit /\ Len(e) = Len(c) + 1
    BY <1>2, <1>3, <1>5, <2>1, <2>2, AddMinedBlock DEF Ind
  <2> HIDE DEF e
  <2>4. NodeTypes'
    <3>1. pc' \in [Nodes -> MainPoints]
      BY <2>1 DEF Ind, NodeTypes, MainPoints
    <3>2. /\ DOMAIN new_block' = Nodes
          /\ \A m \in Nodes : /\ IsBlock(new_block'[m])
                              /\ Len(new_block'[m].transactions) <= MAX_TX_PER_BLOCK
      BY <1>1, <1>2, <2>1 DEF Ind, NodeTypes
    <3> QED BY <3>1, <3>2, <1>4 DEF Ind, NodeTypes, Made, netVars, peerVars
  <2>5. HeldInv'
    <3>1. chain' \in [Nodes -> built']
      BY <2>1 DEF Ind, HeldInv
    <3>2. Tips \subseteq Tips' /\ Wire \subseteq Wire'
      BY <2>1, TreeGrows
    <3>3. inbox' \in [Nodes -> [Conns -> Seq(Wire')]]
      <4>1. \A m \in Nodes, k \in Conns : inbox[m][k] \in Seq(Wire')
        BY <3>2, SeqMonotonic DEF Ind, HeldInv
      <4>2. \A m \in Nodes : inbox[m] \in [Conns -> Seq(Wire')]
        BY <4>1 DEF Ind, HeldInv
      <4> QED BY <4>2, <1>4 DEF Ind, HeldInv, netVars, peerVars
    <3>4. relay' \in [Nodes -> [Conns -> Tips' \cup {NoBlock}]]
      BY <3>2, <1>4 DEF Ind, HeldInv, netVars, peerVars
    <3>5. b \in Tips'
      BY <2>1, <2>3 DEF Tips
    <3>6. \A m \in Nodes : /\ pc'[m] = "announce" => new_block'[m] \in Tips'
                           /\ pc'[m] \in {"send", "publish"} => tx'[m] \in UserTxs
      BY <2>1, <3>2, <3>5, <1>4 DEF Ind, HeldInv, NodeTypes
    <3>7. answer' \in [Nodes -> [Conns -> built' \cup {<< >>}]]
      <4>1. answer \in [Nodes -> [Conns -> built \cup {<< >>}]] /\ answer' = answer
        BY <1>4 DEF Ind, HeldInv, netVars
      <4>2. built \cup {<< >>} \subseteq built' \cup {<< >>}
        BY <2>1
      <4> QED BY <4>1, <4>2
    <3> QED BY <3>1, <3>3, <3>4, <3>6, <3>7 DEF HeldInv
  <2>6. MinerInv'
    <3>1. pc'[n] = "announce"
      BY <2>1 DEF Ind, NodeTypes
    <3>2. \A m \in Nodes \ {n} : /\ pc'[m] = pc[m]
                                 /\ new_block'[m] = new_block[m]
                                 /\ chain'[m] = chain[m]
      BY <2>1 DEF Ind, NodeTypes, HeldInv
    <3> QED BY <3>1, <3>2, <2>1, OtherMinersKept
  <2> QED BY <2>3, <2>4, <2>5, <2>6 DEF Ind
<1>6. CASE ~ AddBlockAccepts(c, b)
  <2>1. /\ new_block' = [new_block EXCEPT ![n] = NoBlock]
        /\ pc' = [pc EXCEPT ![n] = "menu"]
        /\ built' = built
    BY <1>6 DEF MineAdd
  <2>2. chain' = chain
    BY <1>4, <1>6 DEF AddBlock, Ind, HeldInv
  <2> HIDE DEF nb, b, c
  <2>3. NodeTypes'
    <3>1. pc' \in [Nodes -> MainPoints]
      BY <2>1 DEF Ind, NodeTypes, MainPoints
    <3>2. IsBlock(NoBlock) /\ Len(NoBlock.transactions) <= MAX_TX_PER_BLOCK
      BY NoBlockIsBlock, CapacityAssumption, EmptySeq DEF NoBlock
    <3>3. /\ DOMAIN new_block' = Nodes
          /\ \A m \in Nodes : /\ IsBlock(new_block'[m])
                              /\ Len(new_block'[m].transactions) <= MAX_TX_PER_BLOCK
      BY <2>1, <3>2 DEF Ind, NodeTypes
    <3> QED BY <3>1, <3>3, <1>4 DEF Ind, NodeTypes, Made, netVars, peerVars
  <2>4. TreeInv' /\ TipHashUnique'
    BY <2>1 DEF Ind, TreeInv, TipHashUnique
  <2>5. HeldInv'
    BY <1>4, <2>1, <2>2 DEF Ind, HeldInv, NodeTypes, Wire, Tips, netVars, peerVars
  <2>6. MinerInv'
    <3>1. pc'[n] = "menu"
      BY <2>1 DEF Ind, NodeTypes
    <3>2. \A m \in Nodes \ {n} : pc'[m] = pc[m] /\ new_block'[m] = new_block[m]
      BY <2>1 DEF Ind, NodeTypes
    <3> QED BY <3>1, <3>2, <2>1, <2>2, OtherMinersKept
  <2> QED BY <2>3, <2>4, <2>5, <2>6 DEF Ind
<1> QED BY <1>5, <1>6

\* A step that touches neither the tree nor the miners keeps both.
LEMMA AnnounceInd ==
    ASSUME Ind, NEW n \in Nodes, MineAnnounce(n)
    PROVE  Ind'
<1> USE DEF MineAnnounce, nodeVars, peerVars
<1>1. NodeTypes'
  <2>1. pc' \in [Nodes -> MainPoints]
    BY DEF Ind, NodeTypes, MainPoints
  <2>2. IsBlock(NoBlock) /\ Len(NoBlock.transactions) <= MAX_TX_PER_BLOCK
    BY NoBlockIsBlock, CapacityAssumption, EmptySeq DEF NoBlock
  <2>3. /\ DOMAIN new_block' = Nodes
        /\ \A m \in Nodes : /\ IsBlock(new_block'[m])
                            /\ Len(new_block'[m].transactions) <= MAX_TX_PER_BLOCK
    BY <2>2 DEF Ind, NodeTypes
  <2> QED BY <2>1, <2>3 DEF Ind, NodeTypes, Made
<1>2. TreeInv' /\ TipHashUnique' /\ Wire' = Wire /\ Tips' = Tips
  BY DEF Ind, TreeInv, TipHashUnique, Wire, Tips
<1>3. HeldInv'
  <2>1. <<NewBlock(new_block[n])>> \in Seq(Wire)
    BY DEF Ind, HeldInv, Wire
  <2>2. inbox' \in [Nodes -> [Conns -> Seq(Wire)]]
    BY <2>1, SendType DEF Ind, HeldInv
  <2>3. \A m \in Nodes : /\ pc'[m] = "announce" => new_block'[m] \in Tips
                         /\ pc'[m] \in {"send", "publish"} => tx'[m] \in UserTxs
    BY DEF Ind, HeldInv, NodeTypes
  <2> QED BY <1>2, <2>2, <2>3 DEF Ind, HeldInv
<1>4. MinerInv'
  <2>1. pc'[n] = "menu"
    BY DEF Ind, NodeTypes
  <2>2. \A m \in Nodes \ {n} : pc'[m] = pc[m] /\ new_block'[m] = new_block[m]
    BY DEF Ind, NodeTypes
  <2> QED BY <2>1, <2>2, OtherMinersKept
<1> QED BY <1>1, <1>2, <1>3, <1>4 DEF Ind

-----------------------------------------------------------------------------
(* The steps of do_send *)

\* A payment is made from what the user entered.
LEMMA CheckInd ==
    ASSUME Ind, NEW n \in Nodes, NEW p \in Payments, SendCheck(n, p)
    PROVE  Ind'
<1> USE DEF SendCheck, nodeVars, netVars, peerVars
<1> DEFINE t == TxCreate(n, p.receiver, p.amount, p.fee)
<1>1. t \in UserTxs
  BY DEF UserTxs
<1> HIDE DEF t
<1>2. tx' = [tx EXCEPT ![n] = t]
  BY DEF t
<1>3. NodeTypes'
  <2>1. pc' \in [Nodes -> MainPoints]
    BY DEF Ind, NodeTypes, MainPoints
  <2>2. tx' \in [Nodes -> UserTxs \cup {NoTx}]
    BY <1>1, <1>2 DEF Ind, NodeTypes
  <2>3. sent' \subseteq Payments /\ Made' = Made
    BY DEF Ind, NodeTypes, Made
  <2> QED BY <2>1, <2>2, <2>3 DEF Ind, NodeTypes
<1>4. TreeInv' /\ TipHashUnique' /\ Wire' = Wire /\ Tips' = Tips
  BY DEF Ind, TreeInv, TipHashUnique, Wire, Tips
<1>5. HeldInv'
  BY <1>1, <1>2, <1>4 DEF Ind, HeldInv, NodeTypes
<1>6. MinerInv'
  <2>1. pc'[n] = "send" /\ \A m \in Nodes \ {n} : pc'[m] = pc[m]
    BY DEF Ind, NodeTypes
  <2> QED BY <2>1, OtherMinersKept
<1> QED BY <1>3, <1>4, <1>5, <1>6 DEF Ind

\* A payment enters the mempool.
LEMMA EnqueueInd ==
    ASSUME Ind, NEW n \in Nodes, SendEnqueue(n)
    PROVE  Ind'
<1> USE DEF SendEnqueue, netVars, peerVars
<1>1. tx[n] \in UserTxs
  BY DEF Ind, HeldInv
<1>2. mempool' = [mempool EXCEPT ![n] = Pool(mempool[n], tx[n])]
  BY DEF Ind, NodeTypes
<1>3. NodeTypes'
  <2>1. pc' \in [Nodes -> MainPoints]
    BY DEF Ind, NodeTypes, MainPoints
  <2>2. Pool(mempool[n], tx[n]) \in Seq(UserTxs) /\ Len(Pool(mempool[n], tx[n])) <= MEMPOOL_SIZE
    BY <1>1, PoolType DEF Ind, NodeTypes
  <2>3. /\ mempool' \in [Nodes -> Seq(UserTxs)]
        /\ \A m \in Nodes : Len(mempool'[m]) <= MEMPOOL_SIZE
    BY <1>2, <2>2 DEF Ind, NodeTypes
  <2> QED BY <2>1, <2>3 DEF Ind, NodeTypes, Made
<1>4. TreeInv' /\ TipHashUnique' /\ Wire' = Wire /\ Tips' = Tips
  BY DEF Ind, TreeInv, TipHashUnique, Wire, Tips
<1>5. HeldInv'
  BY <1>1, <1>4 DEF Ind, HeldInv, NodeTypes
<1>6. MinerInv'
  <2>1. pc'[n] = "publish" /\ \A m \in Nodes \ {n} : pc'[m] = pc[m]
    BY DEF Ind, NodeTypes
  <2> QED BY <2>1, OtherMinersKept
<1> QED BY <1>3, <1>4, <1>5, <1>6 DEF Ind

\* A payment is sent to the peers.
LEMMA PublishInd ==
    ASSUME Ind, NEW n \in Nodes, SendPublish(n)
    PROVE  Ind'
<1> USE DEF SendPublish, nodeVars, peerVars
<1>1. NodeTypes'
  <2>1. pc' \in [Nodes -> MainPoints]
    BY DEF Ind, NodeTypes, MainPoints
  <2> QED BY <2>1 DEF Ind, NodeTypes, Made
<1>2. TreeInv' /\ TipHashUnique' /\ Wire' = Wire /\ Tips' = Tips
  BY DEF Ind, TreeInv, TipHashUnique, Wire, Tips
<1>3. HeldInv'
  <2>1. <<NewTx(tx[n])>> \in Seq(Wire)
    BY DEF Ind, HeldInv, Wire
  <2>2. inbox' \in [Nodes -> [Conns -> Seq(Wire)]]
    BY <2>1, SendType DEF Ind, HeldInv
  <2>3. \A m \in Nodes : /\ pc'[m] = "announce" => new_block'[m] \in Tips
                         /\ pc'[m] \in {"send", "publish"} => tx'[m] \in UserTxs
    BY DEF Ind, HeldInv, NodeTypes
  <2> QED BY <1>2, <2>2, <2>3 DEF Ind, HeldInv
<1>4. MinerInv'
  <2>1. pc'[n] = "menu" /\ \A m \in Nodes \ {n} : pc'[m] = pc[m]
    BY DEF Ind, NodeTypes
  <2> QED BY <2>1, OtherMinersKept
<1> QED BY <1>1, <1>2, <1>3, <1>4 DEF Ind

-----------------------------------------------------------------------------
(* Connections *)

\* A greeting consists of payments.
LEMMA MempoolMsgsType ==
    ASSUME Ind, NEW n \in Nodes
    PROVE  MempoolMsgs(n) \in Seq(Wire)
<1>1. mempool[n] \in Seq(UserTxs)
  BY DEF Ind, NodeTypes
<1>2. Len(mempool[n]) \in Nat
  BY <1>1, LenProperties
<1>3. \A i \in 1 .. Len(mempool[n]) : NewTx(mempool[n][i]) \in Wire
  BY <1>1, ElementOfSeq DEF Wire
<1>4. MempoolMsgs(n) \in [1 .. Len(mempool[n]) -> Wire]
  BY <1>3 DEF MempoolMsgs
<1>5. MempoolMsgs(n) \in Seq(Wire)
  BY <1>2, <1>4, SeqDef
<1> QED BY <1>5

\* A new connection carries a request only.
LEMMA ConnectInd ==
    ASSUME Ind, NEW n \in Nodes, NEW m \in Nodes, Connect(n, m)
    PROVE  Ind'
<1> USE DEF Connect, nodeVars
<1> DEFINE c == Len(conns) + 1
<1>1. Len(conns) \in Nat /\ c \in Conns
  <2>1. Len(conns) \in Nat
    BY LenProperties DEF Ind, NodeTypes
  <2> QED BY <2>1, BoundAssumption DEF Conns
<1>2. /\ conns' \in Seq(Nodes \X Nodes)
      /\ Len(conns') = Len(conns) + 1
  <2>1. conns \in Seq(Nodes \X Nodes) /\ <<n, m>> \in Nodes \X Nodes
    BY DEF Ind, NodeTypes
  <2> QED BY <2>1, AppendProperties
<1>3. Made \subseteq Made' /\ c \in Made' /\ Len(conns') <= MaxConns
  BY <1>1, <1>2, BoundAssumption DEF Made
<1>4. NodeTypes'
  <2>1. pc' \in [Nodes -> MainPoints]
    BY DEF Ind, NodeTypes, MainPoints
  <2>2. c \in 0 .. MaxConns
    BY <1>1 DEF Conns
  <2> QED BY <1>1, <1>2, <1>3, <2>1, <2>2 DEF Ind, NodeTypes
<1>5. TreeInv' /\ TipHashUnique' /\ Wire' = Wire /\ Tips' = Tips
  BY DEF Ind, TreeInv, TipHashUnique, Wire, Tips
<1>6. HeldInv'
  <2>1. <<RequestChain>> \in Seq(Wire)
    BY DEF Wire
  <2>2. inbox' \in [Nodes -> [Conns -> Seq(Wire)]]
    BY <2>1 DEF Ind, HeldInv
  <2>3. \A k \in Nodes : /\ pc'[k] = "announce" => new_block'[k] \in Tips
                         /\ pc'[k] \in {"send", "publish"} => tx'[k] \in UserTxs
    BY DEF Ind, HeldInv, NodeTypes
  <2> QED BY <1>5, <2>2, <2>3 DEF Ind, HeldInv
<1>7. MinerInv'
  <2>1. pc'[n] = "greet" /\ \A k \in Nodes \ {n} : pc'[k] = pc[k]
    BY DEF Ind, NodeTypes
  <2> QED BY <2>1, OtherMinersKept
<1> QED BY <1>4, <1>5, <1>6, <1>7 DEF Ind

\* The steps of the main thread that only send messages.
LEMMA MainSendInd ==
    ASSUME Ind, NEW n \in Nodes, NEW cs, NEW msgs \in Seq(Wire), NEW next \in MainPoints,
           next \notin {"lock", "collect", "mine", "announce", "send", "publish"},
           inbox' = Send(inbox, n, cs, msgs),
           pc' = [pc EXCEPT ![n] = next],
           UNCHANGED <<nodeVars, new_block, total_fees, tx, peerVars, relay, answer,
                       sent, faults, built>>
    PROVE  Ind'
<1> USE DEF nodeVars, peerVars
<1>1. NodeTypes'
  BY DEF Ind, NodeTypes, Made
<1>2. TreeInv' /\ TipHashUnique' /\ Wire' = Wire /\ Tips' = Tips
  BY DEF Ind, TreeInv, TipHashUnique, Wire, Tips
<1>3. pc'[n] = next /\ \A m \in Nodes \ {n} : pc'[m] = pc[m]
  BY DEF Ind, NodeTypes
<1>4. HeldInv'
  <2>1. inbox' \in [Nodes -> [Conns -> Seq(Wire)]]
    BY SendType DEF Ind, HeldInv
  <2>2. \A m \in Nodes : /\ pc'[m] = "announce" => new_block'[m] \in Tips
                         /\ pc'[m] \in {"send", "publish"} => tx'[m] \in UserTxs
    BY <1>3 DEF Ind, HeldInv
  <2> QED BY <1>2, <2>1, <2>2 DEF Ind, HeldInv
<1>5. MinerInv'
  BY <1>3, OtherMinersKept
<1> QED BY <1>1, <1>2, <1>4, <1>5 DEF Ind

\* The connecting side sends its mempool.
LEMMA GreetInd ==
    ASSUME Ind, NEW n \in Nodes, Greet(n)
    PROVE  Ind'
BY MainSendInd, MempoolMsgsType DEF Greet, MainPoints

\* The second request, to whichever peer.
LEMMA RequestAgainInd ==
    ASSUME Ind, NEW n \in Nodes, RequestAgain(n)
    PROVE  Ind'
<1>1. <<RequestChain>> \in Seq(Wire)
  BY DEF Wire
<1> QED BY <1>1, MainSendInd DEF RequestAgain, MainPoints

\* The accepting side registers the peer and asks for its chain.
LEMMA AcceptInd ==
    ASSUME Ind, NEW m \in Nodes, NEW c \in Conns, Accept(m, c)
    PROVE  Ind'
<1> USE DEF Accept, nodeVars, mainVars, peerVars
<1>1. NodeTypes'
  <2>1. c \in 0 .. MaxConns
    BY BoundAssumption DEF Conns
  <2> QED BY <2>1 DEF Ind, NodeTypes, Made
<1>2. TreeInv' /\ TipHashUnique' /\ Wire' = Wire /\ Tips' = Tips
  BY DEF Ind, TreeInv, TipHashUnique, Wire, Tips
<1>3. HeldInv'
  <2>1. <<RequestChain>> \in Seq(Wire)
    BY DEF Wire
  <2>2. inbox' \in [Nodes -> [Conns -> Seq(Wire)]]
    BY <2>1, SendType DEF Ind, HeldInv
  <2> QED BY <1>2, <2>2 DEF Ind, HeldInv
<1>4. MinerInv'
  BY ChainFields, MinersKept
<1> QED BY <1>1, <1>2, <1>3, <1>4 DEF Ind

\* The accepting side sends its mempool.
LEMMA AcceptGreetInd ==
    ASSUME Ind, NEW m \in Nodes, AcceptGreet(m)
    PROVE  Ind'
<1> USE DEF AcceptGreet, nodeVars, mainVars, peerVars
<1>1. NodeTypes'
  <2>1. accepting' \in [Nodes -> 0 .. MaxConns]
    BY BoundAssumption DEF Ind, NodeTypes
  <2> QED BY <2>1 DEF Ind, NodeTypes, Made
<1>2. TreeInv' /\ TipHashUnique' /\ Wire' = Wire /\ Tips' = Tips
  BY DEF Ind, TreeInv, TipHashUnique, Wire, Tips
<1>3. HeldInv'
  <2>1. inbox' \in [Nodes -> [Conns -> Seq(Wire)]]
    BY MempoolMsgsType, SendType DEF Ind, HeldInv
  <2> QED BY <1>2, <2>1 DEF Ind, HeldInv
<1>4. MinerInv'
  BY ChainFields, MinersKept
<1> QED BY <1>1, <1>2, <1>3, <1>4 DEF Ind

\* A connection breaks: nothing new is sent.
LEMMA LinkDownInd ==
    ASSUME Ind, NEW c \in Conns, LinkDown(c)
    PROVE  Ind'
<1> USE DEF LinkDown, nodeVars, mainVars, peerVars
<1>1. NodeTypes'
  <2>1. faults' \in 0 .. MaxFaults
    BY BoundAssumption DEF Ind, NodeTypes
  <2>2. up' \in [Conns -> BOOLEAN]
    BY DEF Ind, NodeTypes
  <2> QED BY <2>1, <2>2 DEF Ind, NodeTypes, Made
<1>2. TreeInv' /\ TipHashUnique' /\ Wire' = Wire /\ Tips' = Tips
  BY DEF Ind, TreeInv, TipHashUnique, Wire, Tips
<1>3. HeldInv'
  BY <1>2 DEF Ind, HeldInv
<1>4. MinerInv'
  BY ChainFields, MinersKept
<1> QED BY <1>1, <1>2, <1>3, <1>4 DEF Ind

-----------------------------------------------------------------------------
(* The reading threads *)

\* What the next message of a connection can carry.
LEMMA ReadMessage ==
    ASSUME Ind, NEW n \in Nodes, NEW c \in Conns, inbox[n][c] # << >>
    PROVE  /\ Head(inbox[n][c]).type = "NEW_BLOCK" => Head(inbox[n][c]).block \in Tips
           /\ Head(inbox[n][c]).type = "NEW_TX" => Head(inbox[n][c]).tx \in UserTxs
           /\ Head(inbox[n][c]).type = "CHAIN_RESPONSE" => Head(inbox[n][c]).chain \in built
           /\ Consumed(n, c) \in [Nodes -> [Conns -> Seq(Wire)]]
<1>1. inbox[n][c] \in Seq(Wire)
  BY DEF Ind, HeldInv
<1>2. Head(inbox[n][c]) \in Wire /\ Tail(inbox[n][c]) \in Seq(Wire)
  BY <1>1, HeadTailProperties
<1>3. Consumed(n, c) \in [Nodes -> [Conns -> Seq(Wire)]]
  BY <1>2 DEF Consumed, Ind, HeldInv
<1> DEFINE msg == Head(inbox[n][c])
<1>4. /\ msg.type = "NEW_BLOCK" => msg.block \in Tips
      /\ msg.type = "NEW_TX" => msg.tx \in UserTxs
      /\ msg.type = "CHAIN_RESPONSE" => msg.chain \in built
  <2> HIDE DEF msg
  <2>1. msg \in Wire
    BY <1>2 DEF msg
  <2> QED BY <2>1 DEF Wire, NewBlock, NewTx, RequestChain, ChainResponse
<1> QED BY <1>3, <1>4

\* chain_add_block of a received block leads to a chain that was mined.
LEMMA RecvBlockInd ==
    ASSUME Ind, NEW n \in Nodes, NEW c \in Conns, RecvBlock(n, c)
    PROVE  /\ Ind'
           /\ \/ chain' = chain
              \/ \E d \in built : /\ Len(d) > Len(chain[n])
                                  /\ chain' = [chain EXCEPT ![n] = d]
<1> USE DEF RecvBlock, mainVars, Reading, peerVars
<1> DEFINE b == Head(inbox[n][c]).block
           d == AddBlock(chain[n], b)
<1>1. b \in Tips /\ Consumed(n, c) \in [Nodes -> [Conns -> Seq(Wire)]]
  BY ReadMessage
<1> HIDE DEF b
<1>2. /\ chain' = [chain EXCEPT ![n] = d]
      /\ relay' = IF AddBlockAccepts(chain[n], b)
                  THEN [relay EXCEPT ![n][c] = b] ELSE relay
  BY DEF b, Ind, HeldInv
<1>3. d = chain[n] \/ (d \in built /\ Len(d) \in Nat /\ Len(d) > Len(chain[n]))
  <2>1. CASE AddBlockAccepts(chain[n], b)
    <3>1. d = Append(chain[n], b)
      BY <2>1 DEF AddBlock
    <3>2. d \in built
      BY <2>1, <3>1, <1>1, ChainFields, AddKnownBlock DEF Ind
    <3>3. Len(d) = Len(chain[n]) + 1
      BY <3>1, ChainFields, BuiltFields, AppendChain DEF Ind
    <3> QED BY <3>2, <3>3, ChainFields
  <2>2. CASE ~ AddBlockAccepts(chain[n], b)
    BY <2>2 DEF AddBlock
  <2> QED BY <2>1, <2>2
<1> HIDE DEF d
<1>4. NodeTypes'
  BY DEF Ind, NodeTypes, Made
<1>5. TreeInv' /\ TipHashUnique' /\ Wire' = Wire /\ Tips' = Tips
  BY DEF Ind, TreeInv, TipHashUnique, Wire, Tips
<1>6. HeldInv'
  <2>1. chain' \in [Nodes -> built]
    BY <1>2, <1>3 DEF Ind, HeldInv
  <2>2. relay' \in [Nodes -> [Conns -> Tips \cup {NoBlock}]]
    BY <1>1, <1>2 DEF Ind, HeldInv
  <2> QED BY <1>1, <1>5, <2>1, <2>2 DEF Ind, HeldInv
<1>7. MinerInv'
  <2>1. \A m \in Nodes : /\ Len(chain'[m]) \in Nat
                         /\ chain'[m] = chain[m] \/ Len(chain'[m]) > Len(chain[m])
    BY <1>2, <1>3, ChainFields DEF Ind, HeldInv
  <2> QED BY <2>1, MinersKept
<1>8. \/ chain' = chain
      \/ \E e \in built : /\ Len(e) > Len(chain[n])
                          /\ chain' = [chain EXCEPT ![n] = e]
  BY <1>2, <1>3 DEF Ind, HeldInv
<1> QED BY <1>4, <1>5, <1>6, <1>7, <1>8 DEF Ind

\* A block that was accepted is passed on as it came.
LEMMA RelayBlockInd ==
    ASSUME Ind, NEW n \in Nodes, NEW c \in Conns, RelayBlock(n, c)
    PROVE  Ind'
<1> USE DEF RelayBlock, nodeVars, mainVars, peerVars
<1>1. NodeTypes'
  BY DEF Ind, NodeTypes, Made
<1>2. TreeInv' /\ TipHashUnique' /\ Wire' = Wire /\ Tips' = Tips
  BY DEF Ind, TreeInv, TipHashUnique, Wire, Tips
<1>3. HeldInv'
  <2>1. <<NewBlock(relay[n][c])>> \in Seq(Wire)
    BY DEF Ind, HeldInv, Wire
  <2>2. inbox' \in [Nodes -> [Conns -> Seq(Wire)]]
    BY <2>1, SendType DEF Ind, HeldInv
  <2> QED BY <1>2, <2>2 DEF Ind, HeldInv
<1>4. MinerInv'
  BY ChainFields, MinersKept
<1> QED BY <1>1, <1>2, <1>3, <1>4 DEF Ind

\* A received payment enters the mempool.
LEMMA RecvTxInd ==
    ASSUME Ind, NEW n \in Nodes, NEW c \in Conns, RecvTx(n, c)
    PROVE  Ind'
<1> USE DEF RecvTx, mainVars, Reading, peerVars
<1> DEFINE t == Head(inbox[n][c]).tx
<1>1. t \in UserTxs /\ Consumed(n, c) \in [Nodes -> [Conns -> Seq(Wire)]]
  BY ReadMessage
<1> HIDE DEF t
<1>2. mempool' = [mempool EXCEPT ![n] = Pool(mempool[n], t)]
  BY DEF t, Ind, NodeTypes
<1>3. NodeTypes'
  <2>1. Pool(mempool[n], t) \in Seq(UserTxs) /\ Len(Pool(mempool[n], t)) <= MEMPOOL_SIZE
    BY <1>1, PoolType DEF Ind, NodeTypes
  <2>2. /\ mempool' \in [Nodes -> Seq(UserTxs)]
        /\ \A m \in Nodes : Len(mempool'[m]) <= MEMPOOL_SIZE
    BY <1>2, <2>1 DEF Ind, NodeTypes
  <2> QED BY <2>2 DEF Ind, NodeTypes, Made
<1>4. TreeInv' /\ TipHashUnique' /\ Wire' = Wire /\ Tips' = Tips
  BY DEF Ind, TreeInv, TipHashUnique, Wire, Tips
<1>5. HeldInv'
  BY <1>1, <1>4 DEF Ind, HeldInv
<1>6. MinerInv'
  BY ChainFields, MinersKept
<1> QED BY <1>3, <1>4, <1>5, <1>6 DEF Ind

\* The answer to a request is the chain of this node, one of the tree.
LEMMA RecvRequestInd ==
    ASSUME Ind, NEW n \in Nodes, NEW c \in Conns, RecvRequest(n, c)
    PROVE  Ind'
<1> USE DEF RecvRequest, nodeVars, mainVars, Reading, peerVars
<1>1. NodeTypes'
  BY DEF Ind, NodeTypes, Made
<1>2. TreeInv' /\ TipHashUnique' /\ Wire' = Wire /\ Tips' = Tips
  BY DEF Ind, TreeInv, TipHashUnique, Wire, Tips
<1>3. HeldInv'
  <2>1. inbox' \in [Nodes -> [Conns -> Seq(Wire)]]
    BY ReadMessage
  <2>2. answer' \in [Nodes -> [Conns -> built \cup {<< >>}]]
    <3>1. chain[n] \in built
      BY ChainFields
    <3> QED BY <3>1 DEF Ind, HeldInv
  <2> QED BY <1>2, <2>1, <2>2 DEF Ind, HeldInv
<1>4. MinerInv'
  BY ChainFields, MinersKept
<1> QED BY <1>1, <1>2, <1>3, <1>4 DEF Ind

\* It is sent as it was read.
LEMMA SendAnswerInd ==
    ASSUME Ind, NEW n \in Nodes, NEW c \in Conns, SendAnswer(n, c)
    PROVE  Ind'
<1> USE DEF SendAnswer, nodeVars, mainVars, peerVars
<1>1. NodeTypes'
  BY DEF Ind, NodeTypes, Made
<1>2. TreeInv' /\ TipHashUnique' /\ Wire' = Wire /\ Tips' = Tips
  BY DEF Ind, TreeInv, TipHashUnique, Wire, Tips
<1>3. HeldInv'
  <2>1. <<ChainResponse(answer[n][c])>> \in Seq(Wire)
    <3>1. answer[n][c] \in built
      BY DEF Ind, HeldInv
    <3>2. ChainResponse(answer[n][c]) \in Wire
      BY <3>1 DEF Wire
    <3> QED BY <3>2
  <2>2. inbox' \in [Nodes -> [Conns -> Seq(Wire)]]
    BY <2>1, SendType DEF Ind, HeldInv
  <2>3. answer' \in [Nodes -> [Conns -> built \cup {<< >>}]]
    BY DEF Ind, HeldInv
  <2> QED BY <1>2, <2>2, <2>3 DEF Ind, HeldInv
<1>4. MinerInv'
  BY ChainFields, MinersKept
<1> QED BY <1>1, <1>2, <1>3, <1>4 DEF Ind

\* chain_replace takes over a chain of the tree as a whole.
LEMMA RecvChainInd ==
    ASSUME Ind, NEW n \in Nodes, NEW c \in Conns, RecvChain(n, c)
    PROVE  /\ Ind'
           /\ \/ chain' = chain
              \/ \E d \in built : /\ Len(d) > Len(chain[n])
                                  /\ chain' = [chain EXCEPT ![n] = d]
<1> USE DEF RecvChain, mainVars, Reading, peerVars
<1> DEFINE o == Head(inbox[n][c]).chain
           d == ChainReplace(chain[n], o)
<1>1. o \in built /\ Consumed(n, c) \in [Nodes -> [Conns -> Seq(Wire)]]
  BY ReadMessage
<1>2. chain' = [chain EXCEPT ![n] = d]
  BY DEF Ind, HeldInv
<1> HIDE DEF o
<1>3. d = chain[n] \/ (d \in built /\ Len(d) \in Nat /\ Len(d) > Len(chain[n]))
  <2>1. Len(o) \in Nat
    BY <1>1, BuiltFields DEF Ind
  <2> QED BY <1>1, <2>1 DEF ChainReplace, ReplaceAccepts
<1> HIDE DEF d
<1>4. NodeTypes'
  BY DEF Ind, NodeTypes, Made
<1>5. TreeInv' /\ TipHashUnique' /\ Wire' = Wire /\ Tips' = Tips
  BY DEF Ind, TreeInv, TipHashUnique, Wire, Tips
<1>6. HeldInv'
  <2>1. chain' \in [Nodes -> built]
    BY <1>2, <1>3 DEF Ind, HeldInv
  <2> QED BY <1>1, <1>5, <2>1 DEF Ind, HeldInv
<1>7. MinerInv'
  <2>1. \A m \in Nodes : /\ Len(chain'[m]) \in Nat
                         /\ chain'[m] = chain[m] \/ Len(chain'[m]) > Len(chain[m])
    BY <1>2, <1>3, ChainFields DEF Ind, HeldInv
  <2> QED BY <2>1, MinersKept
<1>8. \/ chain' = chain
      \/ \E e \in built : /\ Len(e) > Len(chain[n])
                          /\ chain' = [chain EXCEPT ![n] = e]
  BY <1>2, <1>3 DEF Ind, HeldInv
<1> QED BY <1>4, <1>5, <1>6, <1>7, <1>8 DEF Ind

\* What had not been read is gone.
LEMMA PeerLostInd ==
    ASSUME Ind, NEW n \in Nodes, NEW c \in Conns, PeerLost(n, c)
    PROVE  Ind'
<1> USE DEF PeerLost, nodeVars, mainVars, peerVars
<1>1. NodeTypes'
  BY DEF Ind, NodeTypes, Made
<1>2. TreeInv' /\ TipHashUnique' /\ Wire' = Wire /\ Tips' = Tips
  BY DEF Ind, TreeInv, TipHashUnique, Wire, Tips
<1>3. HeldInv'
  <2>1. << >> \in Seq(Wire)
    BY EmptySeq
  <2>2. inbox' \in [Nodes -> [Conns -> Seq(Wire)]]
    BY <2>1 DEF Ind, HeldInv
  <2> QED BY <1>2, <2>2 DEF Ind, HeldInv
<1>4. MinerInv'
  BY ChainFields, MinersKept
<1> QED BY <1>1, <1>2, <1>3, <1>4 DEF Ind

-----------------------------------------------------------------------------
(* Restarts, and every step *)

\* A restarted node is back on genesis, which every tree contains.
LEMMA RestartInd ==
    ASSUME Ind, NEW n \in Nodes, Restart(n)
    PROVE  Ind' /\ chain' = [chain EXCEPT ![n] = ChainInit]
<1> USE DEF Restart
<1>1. NodeTypes'
  <2>1. /\ mempool' \in [Nodes -> Seq(UserTxs)]
        /\ \A m \in Nodes : Len(mempool'[m]) <= MEMPOOL_SIZE
    BY EmptySeq, BoundAssumption DEF Ind, NodeTypes
  <2>2. pc' \in [Nodes -> MainPoints]
    BY DEF Ind, NodeTypes, MainPoints
  <2>3. /\ DOMAIN new_block' = Nodes
        /\ \A m \in Nodes : /\ IsBlock(new_block'[m])
                            /\ Len(new_block'[m].transactions) <= MAX_TX_PER_BLOCK
    <3>1. IsBlock(NoBlock) /\ Len(NoBlock.transactions) <= MAX_TX_PER_BLOCK
      BY NoBlockIsBlock, CapacityAssumption, EmptySeq DEF NoBlock
    <3> QED BY <3>1 DEF Ind, NodeTypes
  <2>4. total_fees' \in [Nodes -> UInt64]
    BY WordAssumption DEF Ind, NodeTypes, UInt64
  <2>5. tx' \in [Nodes -> UserTxs \cup {NoTx}]
    BY DEF Ind, NodeTypes
  <2>6. up' \in [Conns -> BOOLEAN]
    <3>1. \A c \in Conns : up[c] \in BOOLEAN
      BY DEF Ind, NodeTypes
    <3>2. \A c \in Conns : (up[c] /\ n \notin {conns[c][1], conns[c][2]}) \in BOOLEAN
      BY <3>1
    <3> QED BY <3>2
  <2>7. backlog' \subseteq Made' /\ peers' \in [Nodes -> SUBSET Made']
    BY DEF Ind, NodeTypes, Made
  <2>8. /\ conns' \in Seq(Nodes \X Nodes) /\ Len(conns') <= MaxConns
        /\ sent' \subseteq Payments
        /\ faults' \in 0 .. MaxFaults
    BY BoundAssumption DEF Ind, NodeTypes
  <2>9. last_peer' \in [Nodes -> 0 .. MaxConns] /\ accepting' \in [Nodes -> 0 .. MaxConns]
    BY BoundAssumption DEF Ind, NodeTypes
  <2> QED BY <2>1, <2>2, <2>3, <2>4, <2>5, <2>6, <2>7, <2>8, <2>9 DEF NodeTypes
<1>2. TreeInv' /\ TipHashUnique' /\ Wire' = Wire /\ Tips' = Tips
  BY DEF Ind, TreeInv, TipHashUnique, Wire, Tips
<1>3. chain' \in [Nodes -> built]
  BY DEF Ind, HeldInv, TreeInv
<1>4. HeldInv'
  <2>1. inbox' \in [Nodes -> [Conns -> Seq(Wire)]]
    <3>1. [c \in Conns |-> << >>] \in [Conns -> Seq(Wire)]
      BY EmptySeq
    <3> QED BY <3>1 DEF Ind, HeldInv
  <2>2. relay' \in [Nodes -> [Conns -> Tips \cup {NoBlock}]]
    BY DEF Ind, HeldInv
  <2>3. \A m \in Nodes : /\ pc'[m] = "announce" => new_block'[m] \in Tips
                         /\ pc'[m] \in {"send", "publish"} => tx'[m] \in UserTxs
    BY DEF Ind, HeldInv, NodeTypes
  <2>4. answer' \in [Nodes -> [Conns -> built \cup {<< >>}]]
    BY DEF Ind, HeldInv
  <2> QED BY <1>2, <1>3, <2>1, <2>2, <2>3, <2>4 DEF HeldInv
<1>5. MinerInv'
  <2>1. pc'[n] = "menu"
    BY DEF Ind, NodeTypes
  <2>2. \A m \in Nodes \ {n} : /\ pc'[m] = pc[m] /\ new_block'[m] = new_block[m]
                               /\ chain'[m] = chain[m]
    BY DEF Ind, NodeTypes, HeldInv
  <2> QED BY <2>1, <2>2, OtherMinersKept
<1> QED BY <1>1, <1>2, <1>4, <1>5 DEF Ind

\* Nothing happens.
LEMMA StutterInd ==
    ASSUME Ind, UNCHANGED vars
    PROVE  Ind'
<1> USE DEF vars, nodeVars, mainVars, netVars, peerVars
<1>1. NodeTypes' /\ TreeInv' /\ TipHashUnique' /\ Wire' = Wire /\ Tips' = Tips
  BY DEF Ind, NodeTypes, Made, TreeInv, TipHashUnique, Wire, Tips
<1>2. HeldInv'
  BY <1>1 DEF Ind, HeldInv
<1>3. MinerInv'
  BY ChainFields, MinersKept
<1> QED BY <1>1, <1>2, <1>3 DEF Ind

\* What each step does to the invariant, and to the chains and the tree.
LEMMA StepInd ==
    ASSUME NoHashCollision, Ind, [Next]_vars
    PROVE  Ind'
<1>1. CASE \E n \in Nodes : UserStep(n)
  <2> SUFFICES ASSUME NEW n \in Nodes, UserStep(n) PROVE Ind'
    BY <1>1
  <2>1. CASE \E t \in Times : MineSnapshot(n, t)
    BY <2>1, SnapshotInd
  <2>2. CASE \E p \in Payments : SendCheck(n, p)
    BY <2>2, CheckInd
  <2>3. CASE \E m \in Nodes : Connect(n, m)
    BY <2>3, ConnectInd
  <2> QED BY <2>1, <2>2, <2>3 DEF UserStep
<1>2. CASE \E n \in Nodes : MainStep(n)
  BY <1>2, LockInd, CollectInd, SealInd, MineAddInd, AnnounceInd, EnqueueInd,
     PublishInd, GreetInd, RequestAgainInd DEF MainStep
<1>3. CASE \E n \in Nodes, c \in Conns : HandlerStep(n, c)
  BY <1>3, RecvBlockInd, RelayBlockInd, RecvTxInd, RecvRequestInd, SendAnswerInd,
     RecvChainInd, PeerLostInd DEF HandlerStep
<1>4. CASE \/ \E n \in Nodes, c \in Conns : Accept(n, c)
           \/ \E n \in Nodes : AcceptGreet(n)
  BY <1>4, AcceptInd, AcceptGreetInd
<1>5. CASE \E n \in Nodes : Restart(n)
  BY <1>5, RestartInd
<1>6. CASE \E c \in Conns : LinkDown(c)
  BY <1>6, LinkDownInd
<1>7. CASE UNCHANGED vars
  BY <1>7, StutterInd
<1> QED BY <1>1, <1>2, <1>3, <1>4, <1>5, <1>6, <1>7 DEF Next

\* The invariant holds in every state of a behaviour of Spec.
LEMMA Inductive ==
    ASSUME NoHashCollision
    PROVE  Spec => []Ind
<1>1. Init => Ind
  BY InitInd
<1>2. Ind /\ [Next]_vars => Ind'
  BY StepInd
<1> QED BY <1>1, <1>2, PTL DEF Spec

-----------------------------------------------------------------------------
(* The theorems *)

\* The invariant that everything else follows from: mining, receiving and
\* answering keep the tree of chains sound, the nodes on it and the blocks
\* under way standing, in networks of any size, with any number of threads,
\* payments, failures and restarts.
THEOREM InductiveInvariant == NoHashCollision => (Spec => []IndInv)
<1>1. Ind => IndInv
  BY IndIsIndInv
<1>2. NoHashCollision => (Spec => []Ind)
  BY Inductive
<1> QED BY <1>1, <1>2, PTL

\* Every variable of every node holds values of the C types, and chain_add_block,
\* do_mine and on_new_tx never write past the end of an array.
THEOREM TypeCorrect == NoHashCollision => (Spec => []TypeOK)
<1>1. IndInv => TypeOK
  BY DEF IndInv
<1> QED BY <1>1, InductiveInvariant, PTL

\* chain_add_block and chain_replace never splice blocks of different chains:
\* nodes hold and send only chains that were mined block by block from genesis.
THEOREM ChainsAreBuilt == NoHashCollision => (Spec => []ChainsBuilt)
<1>1. Ind => ChainsBuilt
  <2> SUFFICES ASSUME Ind PROVE ChainsBuilt
    OBVIOUS
  <2>1. \A n \in Nodes : chain[n] \in built
    BY ChainFields
  <2>2. ASSUME NEW msg \in Messages, msg.type = "CHAIN_RESPONSE"
        PROVE  msg.chain \in built
    <3>1. PICK n \in Nodes, c \in Conns : msg \in Range(inbox[n][c])
      BY DEF Messages
    <3>2. inbox[n][c] \in Seq(Wire)
      BY DEF Ind, HeldInv
    <3>3. msg \in Wire
      BY <3>1, <3>2, RangeOfSeq
    <3> QED BY <3>3, <2>2 DEF Wire, NewBlock, NewTx, RequestChain, ChainResponse
  <2>3. \A n \in Nodes, c \in Conns : answer[n][c] = << >> \/ answer[n][c] \in built
    BY DEF Ind, HeldInv
  <2> QED BY <2>1, <2>2, <2>3 DEF ChainsBuilt
<1>2. NoHashCollision => (Spec => []Ind)
  BY Inductive
<1> QED BY <1>1, <1>2, PTL

\* block_compute_hash covers enough of a block: nodes whose last blocks have
\* equal hashes hold equal chains.
THEOREM TipHashesUnique == NoHashCollision => (Spec => []TipHashUnique)
<1>1. IndInv => TipHashUnique
  BY DEF IndInv
<1> QED BY <1>1, InductiveInvariant, PTL

\* The balances do_mine reads without a lock are never stale in a block that
\* chain_add_block accepts: each of its payments was affordable on the chain
\* below it.
THEOREM TxsAffordable == NoHashCollision => (Spec => []TxAffordable)
<1>1. Ind => TxAffordable
  <2> SUFFICES ASSUME Ind, NEW c \in built, NEW i \in 2 .. Len(Last(c).transactions)
               PROVE  CanAfford(Front(c), Last(c).transactions[i])
    BY DEF TxAffordable
  <2>1. CASE c = ChainInit
    <3>1. Len(Last(c).transactions) = 0
      BY <2>1, ChainInitFields, GenesisFields
    <3> QED BY <3>1
  <2>2. CASE \E p \in built : GrownFrom(p, c)
    <3>1. PICK p \in built : GrownFrom(p, c)
      BY <2>2
    <3>2. p \in Seq(Range(p))
      BY BuiltFields DEF Ind
    <3>3. Front(c) = p
      BY <3>1, <3>2, AppendChain DEF GrownFrom
    <3> QED BY <3>1, <3>3 DEF GrownFrom
  <2> QED BY <2>1, <2>2 DEF Ind, TreeInv
<1>2. NoHashCollision => (Spec => []Ind)
  BY Inductive
<1> QED BY <1>1, <1>2, PTL

-----------------------------------------------------------------------------
(* The refinement *)

\* A step that adds a mined block is one of the longest chain rule.
LEMMA MineAddRefines ==
    ASSUME Ind, NEW n \in Nodes, MineAdd(n)
    PROVE  LC!Mine(n) \/ UNCHANGED <<built, chain>>
<1> DEFINE b == BlockMine(new_block[n])
           e == Append(chain[n], b)
<1>1. chain' = [chain EXCEPT ![n] = AddBlock(chain[n], b)]
  BY DEF MineAdd, Ind, HeldInv
<1>2. CASE AddBlockAccepts(chain[n], b)
  <2>1. chain' = [chain EXCEPT ![n] = e] /\ built' = built \cup {chain'[n]}
    BY <1>1, <1>2 DEF MineAdd, AddBlock
  <2>2. chain'[n] = e
    BY <2>1 DEF Ind, HeldInv
  <2>3. chain[n] \in Seq(Range(chain[n]))
    BY ChainFields, BuiltFields DEF Ind
  <2> HIDE DEF b
  <2>4. Len(e) = Len(chain[n]) + 1 /\ Front(e) = chain[n]
    BY <2>3, AppendChain
  <2>5. LC!Front(e) = Front(e)
    BY DEF LC!Front, Front
  <2> QED BY <2>1, <2>2, <2>4, <2>5 DEF LC!Mine
<1>3. CASE ~ AddBlockAccepts(chain[n], b)
  BY <1>1, <1>3 DEF MineAdd, AddBlock, Ind, HeldInv
<1> QED BY <1>2, <1>3

\* Every step maps to a step of the longest-chain rule, or to none.
LEMMA StepRefines ==
    ASSUME Ind, [Next]_vars
    PROVE  [LC!Next]_(LC!vars)
<1> USE DEF LC!Next, LC!vars
<1>1. CASE \E n \in Nodes : UserStep(n)
  BY <1>1 DEF UserStep, MineSnapshot, SendCheck, Connect, nodeVars
<1>2. CASE \E n \in Nodes : MainStep(n)
  <2> SUFFICES ASSUME NEW n \in Nodes, MainStep(n)
               PROVE  LC!Mine(n) \/ UNCHANGED <<built, chain>>
    BY <1>2
  <2>1. CASE MineAdd(n)
    BY <2>1, MineAddRefines
  <2>2. CASE \/ MineLock(n) \/ MineCollect(n) \/ MineSeal(n) \/ MineAnnounce(n)
             \/ SendEnqueue(n) \/ SendPublish(n) \/ Greet(n) \/ RequestAgain(n)
    BY <2>2 DEF MineLock, MineCollect, MineSeal, MineAnnounce, SendEnqueue,
                SendPublish, Greet, RequestAgain, nodeVars
  <2> QED BY <2>1, <2>2 DEF MainStep
<1>3. CASE \E n \in Nodes, c \in Conns : HandlerStep(n, c)
  <2> SUFFICES ASSUME NEW n \in Nodes, NEW c \in Conns, HandlerStep(n, c)
               PROVE  LC!Adopt(n) \/ UNCHANGED <<built, chain>>
    BY <1>3
  <2>1. CASE RecvBlock(n, c)
    BY <2>1, RecvBlockInd DEF RecvBlock, LC!Adopt
  <2>2. CASE RecvChain(n, c)
    BY <2>2, RecvChainInd DEF RecvChain, LC!Adopt
  <2>3. CASE \/ RelayBlock(n, c) \/ RecvTx(n, c) \/ RecvRequest(n, c) \/ SendAnswer(n, c)
             \/ PeerLost(n, c)
    BY <2>3 DEF RelayBlock, RecvTx, RecvRequest, SendAnswer, PeerLost, nodeVars
  <2> QED BY <2>1, <2>2, <2>3 DEF HandlerStep
<1>4. CASE \/ \E n \in Nodes, c \in Conns : Accept(n, c)
           \/ \E n \in Nodes : AcceptGreet(n)
  BY <1>4 DEF Accept, AcceptGreet, nodeVars
<1>5. CASE \E n \in Nodes : Restart(n)
  BY <1>5, RestartInd DEF Restart, LC!Forget
<1>6. CASE \E c \in Conns : LinkDown(c)
  BY <1>6 DEF LinkDown, nodeVars
<1>7. CASE UNCHANGED vars
  BY <1>7 DEF vars, nodeVars
<1> QED BY <1>1, <1>2, <1>3, <1>4, <1>5, <1>6, <1>7 DEF Next

\* The threads, locks, messages and failures of the program implement the
\* longest chain rule: chain_add_block and chain_replace, called in any order
\* from any thread, either extend a chain by a mined block or trade it for a
\* longer one that was mined, and only a restart shortens it.
THEOREM Refinement == NoHashCollision => (Spec => LongestChainRule)
<1>1. Init => LC!Init
  BY DEF Init, LC!Init
<1>2. Ind /\ [Next]_vars => [LC!Next]_(LC!vars)
  BY StepRefines
<1>3. NoHashCollision => (Spec => []Ind)
  BY Inductive
<1> QED BY <1>1, <1>2, <1>3, PTL DEF Spec, LongestChainRule, LC!Spec

-----------------------------------------------------------------------------
(***************************************************************************)
(* Coins are made by mining only, for any nodes, payments, fees and word   *)
(* size: what do_mine collects in total_fees is what the payments of its   *)
(* block take out of the balances, and the coinbase puts back.  This       *)
(* assumes of the payments that they fit the arithmetic of the program     *)
(* (PaymentsFit) and that their hashes do not collide.                     *)
(***************************************************************************)

(* The inner loop of chain_get_balance *)

\* The first k of x are in y, d places further on.
Shifted(x, y, d, k) == \A j \in 1 .. k : y[j + d] = x[j]

\* Two runs through the same k transactions, from the same total.
LEMMA TxsRunsAgree ==
    ASSUME NEW x, NEW y, NEW a, NEW b1, NEW b2, NEW r, NEW q,
           TxsRun(b1, x, a, r), TxsRun(b2, y, a, q), Len(x) \in Nat, Len(y) \in Nat,
           NEW d \in Nat, NEW k \in Nat, k <= Len(x), k + d <= Len(y),
           Shifted(x, y, d, k), q[d] = r[0]
    PROVE  q[k + d] = r[k]
<1> DEFINE S == {j \in Nat : j <= k => q[j + d] = r[j]}
<1>1. 0 \in S
  OBVIOUS
<1>2. ASSUME NEW j \in Nat, j \in S PROVE j + 1 \in S
  <2> SUFFICES ASSUME j + 1 <= k PROVE q[(j + 1) + d] = r[j + 1]
    OBVIOUS
  <2>1. /\ j + 1 \in 1 .. k /\ j + 1 \in 1 .. Len(x) /\ (j + 1) - 1 = j
        /\ (j + 1) + d \in 1 .. Len(y) /\ ((j + 1) + d) - 1 = j + d
    OBVIOUS
  <2>2. q[j + d] = r[j]
    BY <1>2
  <2>3. r[j + 1] = r[j] + BalanceChange(x[j + 1], a)
    BY <2>1 DEF TxsRun
  <2>4. q[(j + 1) + d] = q[j + d] + BalanceChange(y[(j + 1) + d], a)
    BY <2>1 DEF TxsRun
  <2>5. y[(j + 1) + d] = x[j + 1]
    BY <2>1 DEF Shifted
  <2> QED BY <2>2, <2>3, <2>4, <2>5
<1> HIDE DEF S
<1>3. k \in S
  BY <1>1, <1>2, SetInduction
<1> QED BY <1>3 DEF S

\* No transactions leave the balance as it is.
LEMMA TxsBalanceEmpty ==
    ASSUME NEW total \in Int, NEW a
    PROVE  TxsBalance(total, << >>, a) = total
<1>1. << >> \in Seq({}) /\ Len(<< >>) = 0 /\ Priced({})
  BY EmptySeq DEF Priced
<1>2. PICK r : TxsRun(total, << >>, a, r) /\ TxsBalance(total, << >>, a) = r[Len(<< >>)]
  BY <1>1, TxsBalanceRun
<1> QED BY <1>1, <1>2 DEF TxsRun

\* A transaction at the end, as do_mine collects them.
LEMMA TxsBalanceAppend ==
    ASSUME NEW T, Priced(T), NEW txs \in Seq(T), NEW t \in T, NEW total \in Int, NEW a
    PROVE  TxsBalance(total, Append(txs, t), a)
              = TxsBalance(total, txs, a) + BalanceChange(t, a)
<1> DEFINE y == Append(txs, t)
           n == Len(txs)
<1>1. /\ y \in Seq(T) /\ Len(y) = n + 1 /\ y[n + 1] = t /\ \A j \in 1 .. n : y[j] = txs[j]
      /\ n \in Nat
  BY AppendProperties, LenProperties
<1> HIDE DEF y
<1>2. PICK r : TxsRun(total, txs, a, r) /\ TxsBalance(total, txs, a) = r[n]
  BY TxsBalanceRun
<1>3. PICK q : TxsRun(total, y, a, q) /\ TxsBalance(total, y, a) = q[Len(y)]
  BY <1>1, TxsBalanceRun
<1> HIDE DEF n
<1>4. q[n] = r[n]
  <2>1. /\ q[0] = r[0] /\ Len(txs) \in Nat /\ Len(y) \in Nat
        /\ n <= Len(txs) /\ n + 0 <= Len(y) /\ n + 0 = n /\ n \in Nat /\ 0 \in Nat
    BY <1>1, <1>2, <1>3 DEF TxsRun, n
  <2>2. Shifted(txs, y, 0, n)
    BY <1>1 DEF Shifted
  <2>3. TxsRun(total, txs, a, r) /\ TxsRun(total, y, a, q)
    BY <1>2, <1>3
  <2>4. q[n + 0] = r[n]
    BY ONLY <2>1, <2>2, <2>3, TxsRunsAgree
  <2> QED BY <2>1, <2>4
<1>5. q[n + 1] = q[n] + BalanceChange(y[n + 1], a)
  <2>1. n + 1 \in 1 .. Len(y) /\ (n + 1) - 1 = n
    BY <1>1
  <2> QED BY <1>3, <2>1 DEF TxsRun
<1> QED BY <1>1, <1>2, <1>3, <1>4, <1>5 DEF y

\* A transaction in front, as the coinbase is put.
LEMMA TxsBalancePrepend ==
    ASSUME NEW T, Priced(T), NEW txs \in Seq(T), NEW t \in T, NEW total \in Int, NEW a
    PROVE  TxsBalance(total, <<t>> \o txs, a)
              = TxsBalance(total + BalanceChange(t, a), txs, a)
<1> DEFINE y == <<t>> \o txs
           n == Len(txs)
           b == total + BalanceChange(t, a)
<1>1. /\ y \in Seq(T) /\ Len(y) = n + 1 /\ y[1] = t /\ \A j \in 1 .. n : y[j + 1] = txs[j]
      /\ n \in Nat
  <2>1. <<t>> \in Seq(T) /\ Len(<<t>>) = 1 /\ <<t>>[1] = t /\ n \in Nat
    BY LenProperties
  <2>2. /\ y \in Seq(T) /\ Len(y) = Len(<<t>>) + n
        /\ \A j \in 1 .. Len(<<t>>) + n : y[j] = IF j <= Len(<<t>>) THEN <<t>>[j] ELSE txs[j - Len(<<t>>)]
    <3> DEFINE s == <<t>>
    <3> HIDE DEF s
    <3>1. s \in Seq(T)
      BY <2>1 DEF s
    <3>2. /\ s \o txs \in Seq(T) /\ Len(s \o txs) = Len(s) + Len(txs)
          /\ \A j \in 1 .. Len(s) + Len(txs) : (s \o txs)[j] = IF j <= Len(s) THEN s[j] ELSE txs[j - Len(s)]
      BY <3>1, ConcatProperties
    <3> QED BY <3>2 DEF s
  <2> HIDE DEF y, n
  <2>3. \A j \in 1 .. n : y[j + 1] = txs[j]
    <3> SUFFICES ASSUME NEW j \in 1 .. n PROVE y[j + 1] = txs[j]
      OBVIOUS
    <3>1. j + 1 \in 1 .. 1 + n /\ ~ (j + 1 <= 1) /\ (j + 1) - 1 = j
      BY <2>1
    <3> QED BY <2>1, <2>2, <3>1
  <2>4. y[1] = t
    BY <2>1, <2>2
  <2> QED BY <2>1, <2>2, <2>3, <2>4
<1>2. b \in Int
  BY BalanceChangeType DEF Priced
<1> HIDE DEF y, b
<1>3. PICK r : TxsRun(b, txs, a, r) /\ TxsBalance(b, txs, a) = r[n]
  BY <1>2, TxsBalanceRun
<1>4. PICK q : TxsRun(total, y, a, q) /\ TxsBalance(total, y, a) = q[Len(y)]
  BY <1>1, TxsBalanceRun
<1> HIDE DEF n
<1>5. q[1] = r[0]
  <2>1. 1 \in 1 .. Len(y) /\ 1 - 1 = 0
    BY <1>1
  <2> QED BY <1>1, <1>3, <1>4, <2>1 DEF TxsRun, b
<1>6. q[n + 1] = r[n]
  <2>1. /\ Len(txs) \in Nat /\ Len(y) \in Nat /\ n \in Nat
        /\ n <= Len(txs) /\ n + 1 <= Len(y) /\ 1 \in Nat
    BY <1>1 DEF n
  <2>2. Shifted(txs, y, 1, n)
    BY <1>1 DEF Shifted
  <2>3. TxsRun(b, txs, a, r) /\ TxsRun(total, y, a, q)
    BY <1>3, <1>4
  <2> QED BY ONLY <1>5, <2>1, <2>2, <2>3, TxsRunsAgree
<1> QED BY <1>1, <1>3, <1>4, <1>6 DEF y, b

-----------------------------------------------------------------------------
(* What one transaction does to the sum of all balances *)

\* The transactions of this network have amounts and fees that are numbers.
LEMMA KnownPriced == Priced(KnownTxs)
<1> SUFFICES ASSUME NEW t \in KnownTxs PROVE t.amount \in Nat /\ t.fee \in Nat
  BY DEF Priced
<1>1. UInt64 \subseteq Nat
  BY DEF UInt64
<1>2. CASE t \in UserTxs
  <2>1. PICK p \in Payments : t = TxCreate(p.sender, p.receiver, p.amount, p.fee)
    BY <1>2 DEF UserTxs
  <2>2. p.amount \in UInt64 /\ p.fee \in UInt64
    BY PaymentAssumption
  <2> QED BY <1>1, <2>1, <2>2 DEF TxCreate
<1>3. CASE t \in CoinbaseTxs
  <2>1. PICK n \in Nodes, a \in UInt64 : t = TxCreate(COINBASE_ADDR, n, a, 0)
    BY <1>3 DEF CoinbaseTxs
  <2> QED BY <1>1, <2>1 DEF TxCreate
<1> QED BY <1>2, <1>3 DEF KnownTxs

\* Below 2^63 neither uint64_t nor the cast to int64_t changes a number.
LEMMA SmallWord ==
    ASSUME NEW x \in Nat, x < Two64 \div 2
    PROVE  x % Two64 = x /\ ToInt64(x) = x /\ x \in UInt64
<1>1. Two64 \in Nat /\ Two64 > 100 /\ Two64 \div 2 <= Two64
  BY WordAssumption
<1>2. x < Two64
  BY <1>1, WordAssumption
<1>3. x % Two64 = x
  BY <1>1, <1>2
<1>4. ToInt64(x) = x
  BY WordAssumption DEF ToInt64
<1> QED BY <1>1, <1>2, <1>3, <1>4 DEF UInt64

\* What a payment does to a balance, when it fits the words of the program.
LEMMA PaymentChange ==
    ASSUME PaymentsFit, NEW t \in UserTxs
    PROVE  /\ t.sender \in Nodes /\ t.receiver \in Nodes /\ t.amount \in Nat /\ t.fee \in Nat
           /\ \A a : BalanceChange(t, a) = (IF a = t.receiver THEN t.amount ELSE 0)
                                          - (IF a = t.sender THEN t.amount + t.fee ELSE 0)
<1>1. PICK p \in Payments : t = TxCreate(p.sender, p.receiver, p.amount, p.fee)
  BY DEF UserTxs
<1>2. /\ p.sender \in Nodes /\ p.receiver \in Nodes
      /\ p.amount \in UInt64 /\ p.fee \in UInt64
  BY PaymentAssumption
<1>3. /\ t.sender = p.sender /\ t.receiver = p.receiver
      /\ t.amount = p.amount /\ t.fee = p.fee
  BY <1>1 DEF TxCreate
<1>4. t.amount \in Nat /\ t.fee \in Nat /\ t.amount + t.fee < Two64 \div 2
  BY <1>2, <1>3 DEF PaymentsFit, UInt64
<1>5. t.amount < Two64 \div 2 /\ t.amount + t.fee \in Nat
  BY <1>4, WordAssumption
<1>6. ToInt64(t.amount) = t.amount
  BY <1>4, <1>5, SmallWord
<1>7. ToInt64((t.amount + t.fee) % Two64) = t.amount + t.fee
  <2> DEFINE x == t.amount + t.fee
  <2>1. x \in Nat /\ x < Two64 \div 2
    BY <1>4, <1>5
  <2> HIDE DEF x
  <2>2. x % Two64 = x /\ ToInt64(x) = x
    BY <2>1, SmallWord
  <2>3. ToInt64(x % Two64) = x
    BY <2>2
  <2> QED BY <2>3 DEF x
<1> QED BY <1>2, <1>3, <1>4, <1>6, <1>7 DEF BalanceChange

\* t changes the sum of the balances by d.
Adds(t, d) ==
    \A v \in [Nodes -> Int] :
        SumOver(Nodes, [a \in Nodes |-> v[a] + BalanceChange(t, a)]) = SumOver(Nodes, v) + d

\* A payment takes its fee out of the balances.
LEMMA PaymentAdds ==
    ASSUME PaymentsFit, NEW t \in UserTxs
    PROVE  Adds(t, - t.fee)
<1> SUFFICES ASSUME NEW v \in [Nodes -> Int]
             PROVE  SumOver(Nodes, [a \in Nodes |-> v[a] + BalanceChange(t, a)])
                       = SumOver(Nodes, v) + (- t.fee)
  BY DEF Adds
<1> DEFINE u == [a \in Nodes |-> v[a] + (IF a = t.receiver THEN t.amount ELSE 0)]
           w == [a \in Nodes |-> v[a] + BalanceChange(t, a)]
           cost == t.amount + t.fee
<1>1. /\ t.sender \in Nodes /\ t.receiver \in Nodes /\ t.amount \in Nat /\ t.fee \in Nat
      /\ \A a : BalanceChange(t, a) = (IF a = t.receiver THEN t.amount ELSE 0)
                                     - (IF a = t.sender THEN t.amount + t.fee ELSE 0)
  BY PaymentChange
<1>2. u \in [Nodes -> Int] /\ w \in [Nodes -> Int] /\ t.amount \in Int /\ - cost \in Int
  BY <1>1
<1>3. GrowsAt(Nodes, v, u, t.receiver, t.amount)
  BY <1>1 DEF GrowsAt
<1>4. GrowsAt(Nodes, u, w, t.sender, - cost)
  BY <1>1 DEF GrowsAt
<1> HIDE DEF u, w
<1>5. SumOver(Nodes, u) = SumOver(Nodes, v) + t.amount
  BY <1>1, <1>2, <1>3, NodesAssumption, SumOverGrows
<1>6. SumOver(Nodes, w) = SumOver(Nodes, u) + (- cost)
  BY <1>1, <1>2, <1>4, NodesAssumption, SumOverGrows
<1>7. SumOver(Nodes, v) \in Int
  BY NodesAssumption, SumOverIs
<1> QED BY <1>1, <1>5, <1>6, <1>7 DEF w

\* The coinbase transaction pays out the reward and the fees.
LEMMA CoinbaseAdds ==
    ASSUME NEW n \in Nodes, NEW fees \in Nat, MINING_REWARD + fees < Two64 \div 2
    PROVE  Adds(Coinbase(n, fees), MINING_REWARD + fees)
<1> SUFFICES ASSUME NEW v \in [Nodes -> Int]
             PROVE  SumOver(Nodes, [a \in Nodes |-> v[a] + BalanceChange(Coinbase(n, fees), a)])
                       = SumOver(Nodes, v) + (MINING_REWARD + fees)
  BY DEF Adds
<1> DEFINE x == MINING_REWARD + fees
           t == Coinbase(n, fees)
           w == [a \in Nodes |-> v[a] + BalanceChange(t, a)]
<1>1. x \in Nat /\ x < Two64 \div 2
  BY DEF MINING_REWARD
<1>2. t.sender = COINBASE_ADDR /\ t.receiver = n /\ t.amount = x % Two64 /\ t.fee = 0
  BY DEF Coinbase, TxCreate
<1> HIDE DEF x, t
<1>3. x % Two64 = x /\ ToInt64(x) = x
  BY <1>1, SmallWord
<1>4. \A a \in Nodes : BalanceChange(t, a) = IF a = n THEN x ELSE 0
  <2> SUFFICES ASSUME NEW a \in Nodes PROVE BalanceChange(t, a) = IF a = n THEN x ELSE 0
    OBVIOUS
  <2>1. t.sender # a
    BY <1>2, AddressAssumption
  <2>2. ToInt64(t.amount) = x
    BY <1>2, <1>3
  <2> QED BY <1>1, <1>2, <2>1, <2>2 DEF BalanceChange
<1>5. w \in [Nodes -> Int] /\ x \in Int
  BY <1>1, <1>4
<1>6. GrowsAt(Nodes, v, w, n, x)
  BY <1>4 DEF GrowsAt
<1> HIDE DEF w
<1>7. SumOver(Nodes, w) = SumOver(Nodes, v) + x
  BY <1>5, <1>6, NodesAssumption, SumOverGrows
<1> QED BY <1>7 DEF w, x, t

-----------------------------------------------------------------------------
(* What the transactions of a block do to the sum of all balances *)

\* One block's transactions change the sum of the balances by d.
Paid(txs, d) ==
    \A v \in [Nodes -> Int] :
        SumOver(Nodes, [a \in Nodes |-> TxsBalance(v[a], txs, a)]) = SumOver(Nodes, v) + d

\* No transaction, no change.
LEMMA PaidEmpty == Paid(<< >>, 0)
<1> SUFFICES ASSUME NEW v \in [Nodes -> Int]
             PROVE  SumOver(Nodes, [a \in Nodes |-> TxsBalance(v[a], << >>, a)])
                       = SumOver(Nodes, v) + 0
  BY DEF Paid
<1>1. \A a \in Nodes : TxsBalance(v[a], << >>, a) = v[a]
  BY TxsBalanceEmpty
<1>2. [a \in Nodes |-> TxsBalance(v[a], << >>, a)] = v
  BY <1>1
<1>3. SumOver(Nodes, v) \in Int
  BY NodesAssumption, SumOverIs
<1> QED BY <1>2, <1>3

\* One more transaction at the end.
LEMMA PaidAppend ==
    ASSUME NEW txs \in Seq(KnownTxs), NEW t \in KnownTxs, NEW d \in Int, NEW e \in Int,
           Paid(txs, d), Adds(t, e)
    PROVE  Paid(Append(txs, t), d + e)
<1> DEFINE y == Append(txs, t)
<1> SUFFICES ASSUME NEW v \in [Nodes -> Int]
             PROVE  SumOver(Nodes, [a \in Nodes |-> TxsBalance(v[a], y, a)])
                       = SumOver(Nodes, v) + (d + e)
  BY DEF Paid
<1> DEFINE u == [a \in Nodes |-> TxsBalance(v[a], txs, a)]
<1>1. u \in [Nodes -> Int]
  BY KnownPriced, TxsBalanceType
<1>2. SumOver(Nodes, u) = SumOver(Nodes, v) + d
  BY DEF Paid
<1>3. \A a \in Nodes : TxsBalance(v[a], y, a) = u[a] + BalanceChange(t, a)
  BY KnownPriced, TxsBalanceAppend
<1> HIDE DEF u, y
<1>4. [a \in Nodes |-> TxsBalance(v[a], y, a)] = [a \in Nodes |-> u[a] + BalanceChange(t, a)]
  BY <1>3
<1>5. SumOver(Nodes, [a \in Nodes |-> u[a] + BalanceChange(t, a)]) = SumOver(Nodes, u) + e
  BY <1>1 DEF Adds
<1>6. SumOver(Nodes, v) \in Int
  BY NodesAssumption, SumOverIs
<1>7. SumOver(Nodes, [a \in Nodes |-> TxsBalance(v[a], y, a)]) = SumOver(Nodes, u) + e
  BY <1>4, <1>5
<1>8. (SumOver(Nodes, v) + d) + e = SumOver(Nodes, v) + (d + e)
  BY <1>6
<1> QED BY <1>2, <1>7, <1>8, Zenon

\* One more transaction in front.
LEMMA PaidPrepend ==
    ASSUME NEW txs \in Seq(KnownTxs), NEW t \in KnownTxs, NEW d \in Int, NEW e \in Int,
           Paid(txs, d), Adds(t, e)
    PROVE  Paid(<<t>> \o txs, d + e)
<1> DEFINE y == <<t>> \o txs
<1> SUFFICES ASSUME NEW v \in [Nodes -> Int]
             PROVE  SumOver(Nodes, [a \in Nodes |-> TxsBalance(v[a], y, a)])
                       = SumOver(Nodes, v) + (d + e)
  BY DEF Paid
<1> DEFINE u == [a \in Nodes |-> v[a] + BalanceChange(t, a)]
<1>1. u \in [Nodes -> Int]
  BY KnownPriced, BalanceChangeType DEF Priced
<1>2. SumOver(Nodes, u) = SumOver(Nodes, v) + e
  BY DEF Adds
<1>3. \A a \in Nodes : TxsBalance(v[a], y, a) = TxsBalance(u[a], txs, a)
  BY KnownPriced, TxsBalancePrepend
<1> HIDE DEF u, y
<1>4. [a \in Nodes |-> TxsBalance(v[a], y, a)] = [a \in Nodes |-> TxsBalance(u[a], txs, a)]
  BY <1>3
<1>5. SumOver(Nodes, [a \in Nodes |-> TxsBalance(u[a], txs, a)]) = SumOver(Nodes, u) + d
  BY <1>1 DEF Paid
<1>6. SumOver(Nodes, v) \in Int
  BY NodesAssumption, SumOverIs
<1>7. SumOver(Nodes, [a \in Nodes |-> TxsBalance(v[a], y, a)]) = SumOver(Nodes, u) + d
  BY <1>4, <1>5
<1>8. (SumOver(Nodes, v) + e) + d = SumOver(Nodes, v) + (d + e)
  BY <1>6
<1> QED BY <1>2, <1>7, <1>8, Zenon

-----------------------------------------------------------------------------
(* The invariant *)

\* The largest fee a user may enter.
MostFee ==
    CHOOSE m \in UInt64 : /\ \A p \in Payments : p.fee <= m
                          /\ MINING_REWARD + m * MAX_TX_PER_BLOCK < Two64 \div 2

\* What the payments of the block under way have taken out is in total_fees;
\* with the coinbase in front the block pays out the reward.
FeesKept(n) ==
    /\ pc[n] \in {"lock", "collect"} =>
         /\ Paid(new_block[n].transactions, 0 - total_fees[n])
         /\ total_fees[n] <= MostFee * Len(new_block[n].transactions)
    /\ pc[n] = "mine" => Paid(new_block[n].transactions, MINING_REWARD)

\* What all the wallets own on chain c.
Wealth(c) == SumOver(Nodes, [a \in Nodes |-> GetBalance(c, a)])

MoneyInv ==
    /\ \A n \in Nodes : FeesKept(n)
    /\ \A c \in built : Wealth(c) = MINING_REWARD * (Len(c) - 1)

\* What PaymentsFit says of the largest fee.
LEMMA MostFeeFits ==
    ASSUME PaymentsFit
    PROVE  /\ MostFee \in Nat
           /\ \A t \in UserTxs : t.fee \in Nat /\ t.fee <= MostFee
           /\ MINING_REWARD + MostFee * MAX_TX_PER_BLOCK < Two64 \div 2
<1>1. /\ MostFee \in UInt64 /\ \A p \in Payments : p.fee <= MostFee
      /\ MINING_REWARD + MostFee * MAX_TX_PER_BLOCK < Two64 \div 2
  BY DEF MostFee, PaymentsFit
<1>2. ASSUME NEW t \in UserTxs PROVE t.fee \in Nat /\ t.fee <= MostFee
  <2>1. PICK p \in Payments : t = TxCreate(p.sender, p.receiver, p.amount, p.fee)
    BY DEF UserTxs
  <2>2. t.fee = p.fee /\ p.fee \in UInt64
    BY <2>1, PaymentAssumption DEF TxCreate
  <2> QED BY <1>1, <2>2 DEF UInt64
<1> QED BY <1>1, <1>2 DEF UInt64

\* The fees of a block with at most MAX_TX_PER_BLOCK payments.
LEMMA FeesFit ==
    ASSUME PaymentsFit, NEW k \in Nat, k <= MAX_TX_PER_BLOCK,
           NEW fees \in Nat, fees <= MostFee * k
    PROVE  MINING_REWARD + fees < Two64 \div 2
<1>1. /\ MostFee \in Nat /\ MINING_REWARD + MostFee * MAX_TX_PER_BLOCK < Two64 \div 2
      /\ MAX_TX_PER_BLOCK \in Nat /\ Two64 \div 2 \in Int
  BY MostFeeFits, CapacityAssumption, WordAssumption
<1>2. MostFee * k \in Nat /\ MostFee * MAX_TX_PER_BLOCK \in Nat
  BY <1>1
<1>3. MostFee * k <= MostFee * MAX_TX_PER_BLOCK
  <2>1. MAX_TX_PER_BLOCK - k \in Nat
    BY <1>1
  <2>2. MostFee * (MAX_TX_PER_BLOCK - k) \in Nat
    BY <1>1, <2>1
  <2>3. MostFee * MAX_TX_PER_BLOCK = MostFee * k + MostFee * (MAX_TX_PER_BLOCK - k)
    BY <1>1
  <2> QED BY <1>2, <2>2, <2>3
<1> QED BY <1>1, <1>2, <1>3 DEF MINING_REWARD

-----------------------------------------------------------------------------
(* Every step keeps it *)

\* A node whose main thread is not mining, or is as it was, in a step that adds
\* no chain.
LEMMA MoneyKept ==
    ASSUME MoneyInv, built' = built,
           \A n \in Nodes :
               \/ /\ pc'[n] = pc[n] /\ new_block'[n] = new_block[n]
                  /\ total_fees'[n] = total_fees[n]
               \/ pc'[n] \notin {"lock", "collect", "mine"}
    PROVE  MoneyInv'
<1>1. ASSUME NEW n \in Nodes PROVE FeesKept(n)'
  <2>1. FeesKept(n)
    BY DEF MoneyInv
  <2> QED BY <2>1 DEF FeesKept, Paid
<1>2. \A c \in built' : Wealth(c)' = MINING_REWARD * (Len(c) - 1)
  BY DEF MoneyInv, Wealth
<1> QED BY <1>1, <1>2 DEF MoneyInv

\* The same for one node that goes on mining.
LEMMA MinerKept ==
    ASSUME MoneyInv, built' = built, NEW n \in Nodes, FeesKept(n)',
           \A m \in Nodes \ {n} :
               /\ pc'[m] = pc[m] /\ new_block'[m] = new_block[m]
               /\ total_fees'[m] = total_fees[m]
    PROVE  MoneyInv'
<1>1. ASSUME NEW m \in Nodes \ {n} PROVE FeesKept(m)'
  <2>1. FeesKept(m)
    BY DEF MoneyInv
  <2> QED BY <2>1 DEF FeesKept, Paid
<1>2. \A c \in built' : Wealth(c)' = MINING_REWARD * (Len(c) - 1)
  BY DEF MoneyInv, Wealth
<1> QED BY <1>1, <1>2 DEF MoneyInv

\* A block begins with no fees.
LEMMA SnapshotMoney ==
    ASSUME PaymentsFit, Ind, MoneyInv, NEW n \in Nodes, NEW t \in Times, MineSnapshot(n, t)
    PROVE  MoneyInv'
<1>1. /\ pc'[n] = "lock" /\ total_fees'[n] = 0 /\ new_block'[n].transactions = << >>
      /\ built' = built
      /\ \A m \in Nodes \ {n} : /\ pc'[m] = pc[m] /\ new_block'[m] = new_block[m]
                                /\ total_fees'[m] = total_fees[m]
  BY DEF MineSnapshot, Ind, NodeTypes
<1>2. FeesKept(n)'
  <2>1. 0 - 0 = 0 /\ Len(<< >>) = 0 /\ MostFee * 0 = 0
    <3>1. MostFee \in Nat
      BY MostFeeFits
    <3>2. MostFee * 0 = 0
      BY <3>1
    <3> QED BY <3>2, EmptySeq
  <2> QED BY <1>1, <2>1, PaidEmpty DEF FeesKept, Paid
<1> QED BY <1>1, <1>2, MinerKept

\* Taking mempool_lock changes nothing that counts.
LEMMA LockMoney ==
    ASSUME Ind, MoneyInv, NEW n \in Nodes, MineLock(n)
    PROVE  MoneyInv'
<1>1. /\ pc[n] = "lock" /\ pc'[n] = "collect" /\ built' = built
      /\ new_block' = new_block /\ total_fees' = total_fees
      /\ \A m \in Nodes \ {n} : pc'[m] = pc[m]
  BY DEF MineLock, Ind, NodeTypes
<1>2. FeesKept(n)'
  BY <1>1 DEF MoneyInv, FeesKept, Paid
<1> QED BY <1>1, <1>2, MinerKept

\* total_fees grows by what the payment takes out, and does not wrap.
LEMMA CollectMoney ==
    ASSUME PaymentsFit, Ind, MoneyInv, NEW n \in Nodes, MineCollect(n)
    PROVE  MoneyInv'
<1> DEFINE t == Head(mempool[n])
           txs == new_block[n].transactions
           fees == total_fees[n]
           k == Len(txs)
<1>1. t \in UserTxs
  <2>1. mempool[n] \in Seq(UserTxs) /\ mempool[n] # << >>
    BY DEF Ind, NodeTypes, MineCollect
  <2> QED BY <2>1, HeadTailProperties
<1>2. t \in KnownTxs /\ t.fee \in Nat /\ t.fee <= MostFee /\ MostFee \in Nat
  BY <1>1, UserTxFields, MostFeeFits
<1>3. /\ txs \in Seq(KnownTxs) /\ k \in Nat /\ 1 + k < MAX_TX_PER_BLOCK
      /\ pc[n] = "collect" /\ pc' = pc /\ built' = built
  <2>1. txs \in Seq(KnownTxs)
    BY DEF Ind, NodeTypes, IsBlock
  <2> QED BY <2>1, LenProperties DEF MineCollect, RoomInBlock
<1>4. fees \in Nat /\ fees <= MostFee * k /\ Paid(txs, 0 - fees)
  BY <1>3 DEF Ind, NodeTypes, UInt64, MoneyInv, FeesKept
<1>5. CASE CanAfford(chain[n], t)
  <2>1. /\ new_block'[n].transactions = Append(txs, t)
        /\ total_fees'[n] = (fees + t.fee) % Two64
        /\ \A m \in Nodes \ {n} : /\ new_block'[m] = new_block[m]
                                  /\ total_fees'[m] = total_fees[m]
    <3>1. IsBlock(new_block[n])
      BY DEF Ind, NodeTypes
    <3>2. /\ new_block' = [new_block EXCEPT ![n].transactions = Append(txs, t)]
          /\ total_fees' = [total_fees EXCEPT ![n] = (fees + t.fee) % Two64]
      BY <1>5 DEF MineCollect, Ind, NodeTypes
    <3>3. DOMAIN new_block = Nodes /\ DOMAIN total_fees = Nodes
      BY DEF Ind, NodeTypes
    <3>4. "transactions" \in DOMAIN new_block[n]
      BY <3>1 DEF IsBlock
    <3> HIDE DEF t, txs, fees
    <3> QED BY <3>2, <3>3, <3>4
  <2> HIDE DEF t, txs, fees, k
  <2>2. fees + t.fee \in Nat /\ fees + t.fee <= MostFee * (k + 1)
    <3>1. MostFee * k \in Nat /\ MostFee * (k + 1) = MostFee * k + MostFee
      BY <1>2, <1>3
    <3> QED BY <1>2, <1>4, <3>1
  <2>3. MINING_REWARD + (fees + t.fee) < Two64 \div 2
    <3>1. k + 1 \in Nat /\ k + 1 <= MAX_TX_PER_BLOCK
      BY <1>3, CapacityAssumption
    <3> QED BY <2>2, <3>1, FeesFit
  <2>4. (fees + t.fee) % Two64 = fees + t.fee
    <3>1. fees + t.fee < Two64 \div 2
      BY <2>2, <2>3, WordAssumption DEF MINING_REWARD
    <3> QED BY <2>2, <3>1, SmallWord
  <2>5. Paid(Append(txs, t), 0 - (fees + t.fee))
    <3>1. Adds(t, - t.fee)
      BY <1>1, PaymentAdds
    <3>2. 0 - fees \in Int /\ - t.fee \in Int /\ (0 - fees) + (- t.fee) = 0 - (fees + t.fee)
      BY <1>2, <1>4
    <3>3. Paid(Append(txs, t), (0 - fees) + (- t.fee))
      BY <1>2, <1>3, <1>4, <3>1, <3>2, PaidAppend
    <3> QED BY <3>2, <3>3
  <2>6. Len(Append(txs, t)) = k + 1
    BY <1>2, <1>3, AppendProperties DEF k
  <2>7. FeesKept(n)'
    BY <1>3, <2>1, <2>2, <2>4, <2>5, <2>6 DEF FeesKept, Paid
  <2> QED BY <1>3, <2>1, <2>7, MinerKept
<1>6. CASE ~ CanAfford(chain[n], t)
  <2>1. UNCHANGED <<new_block, total_fees>>
    BY <1>6 DEF MineCollect
  <2> QED BY <1>3, <2>1, MoneyKept
<1> QED BY <1>5, <1>6

\* The coinbase gives back what the payments have paid, and the reward.
LEMMA SealMoney ==
    ASSUME PaymentsFit, Ind, MoneyInv, NEW n \in Nodes, MineSeal(n)
    PROVE  MoneyInv'
<1> DEFINE txs == new_block[n].transactions
           fees == total_fees[n]
           cb == Coinbase(n, fees)
           k == Len(txs)
<1>1. /\ txs \in Seq(KnownTxs) /\ k \in Nat /\ k <= MAX_TX_PER_BLOCK
      /\ pc[n] = "collect" /\ pc'[n] = "mine" /\ built' = built
  <2>1. txs \in Seq(KnownTxs) /\ k <= MAX_TX_PER_BLOCK
    BY DEF Ind, NodeTypes, IsBlock
  <2> QED BY <2>1, LenProperties DEF MineSeal, Ind, NodeTypes
<1>2. fees \in Nat /\ fees <= MostFee * k /\ Paid(txs, 0 - fees)
  BY <1>1 DEF Ind, NodeTypes, UInt64, MoneyInv, FeesKept
<1>3. cb \in KnownTxs
  BY CoinbaseKnown DEF Ind, NodeTypes
<1>4. /\ new_block'[n].transactions = <<cb>> \o txs
      /\ \A m \in Nodes \ {n} : /\ pc'[m] = pc[m] /\ new_block'[m] = new_block[m]
                                /\ total_fees'[m] = total_fees[m]
  <2>1. IsBlock(new_block[n])
    BY DEF Ind, NodeTypes
  <2>2. /\ new_block' = [new_block EXCEPT ![n].transactions = <<cb>> \o txs]
        /\ total_fees' = [total_fees EXCEPT ![n] = 0]
        /\ pc' = [pc EXCEPT ![n] = "mine"]
    BY DEF MineSeal, Ind, NodeTypes
  <2>3. DOMAIN new_block = Nodes /\ DOMAIN total_fees = Nodes /\ DOMAIN pc = Nodes
    BY DEF Ind, NodeTypes
  <2>4. "transactions" \in DOMAIN new_block[n]
    BY <2>1 DEF IsBlock
  <2> HIDE DEF cb, txs, fees
  <2> QED BY <2>2, <2>3, <2>4
<1>5. MINING_REWARD + fees < Two64 \div 2
  BY <1>1, <1>2, FeesFit
<1>6. Paid(<<cb>> \o txs, MINING_REWARD)
  <2>1. Adds(cb, MINING_REWARD + fees)
    BY <1>2, <1>5, CoinbaseAdds
  <2> HIDE DEF txs, fees, cb, k
  <2>2. /\ 0 - fees \in Int /\ MINING_REWARD + fees \in Int
        /\ (0 - fees) + (MINING_REWARD + fees) = MINING_REWARD
    BY <1>2 DEF MINING_REWARD
  <2>3. Paid(<<cb>> \o txs, (0 - fees) + (MINING_REWARD + fees))
    BY <1>1, <1>2, <1>3, <2>1, <2>2, PaidPrepend
  <2> QED BY <2>2, <2>3
<1> HIDE DEF txs, fees, cb, k
<1>7. FeesKept(n)'
  BY <1>1, <1>4, <1>6 DEF FeesKept, Paid
<1> QED BY <1>1, <1>4, <1>7, MinerKept

\* A chain that grew by the block brings one more reward.
LEMMA MineAddMoney ==
    ASSUME Ind, MoneyInv, NEW n \in Nodes, MineAdd(n)
    PROVE  MoneyInv'
<1> DEFINE nb == new_block[n]
           b == BlockMine(nb)
           c == chain[n]
           e == Append(c, b)
<1>1. /\ IsBlock(nb) /\ pc[n] = "mine" /\ Paid(nb.transactions, MINING_REWARD)
  BY DEF MineAdd, Ind, NodeTypes, MoneyInv, FeesKept
<1>2. b.transactions = nb.transactions /\ nb.transactions \in Seq(KnownTxs)
  BY <1>1, BlockMineFields DEF IsBlock
<1>3. c \in built /\ c \in Seq(Range(c)) /\ Len(c) \in Nat \ {0} /\ BlocksOver(KnownTxs, c)
  BY ChainFields, BuiltFields DEF Ind, IsChain, IsBlock, BlocksOver
<1>4. /\ pc'[n] \in {"announce", "menu"}
      /\ \A m \in Nodes \ {n} : /\ pc'[m] = pc[m] /\ new_block'[m] = new_block[m]
                                /\ total_fees'[m] = total_fees[m]
  BY DEF MineAdd, Ind, NodeTypes
<1>5. CASE AddBlockAccepts(c, b)
  <2>1. built' = built \cup {e}
    <3>1. chain'[n] = AddBlock(c, b)
      BY DEF MineAdd, Ind, HeldInv
    <3> QED BY <1>5, <3>1 DEF MineAdd, AddBlock
  <2>2. Len(e) = Len(c) + 1
    BY <1>3, AppendChain
  <2>3. Wealth(e) = Wealth(c) + MINING_REWARD
    <3> DEFINE v == [a \in Nodes |-> GetBalance(c, a)]
               w == [a \in Nodes |-> TxsBalance(v[a], nb.transactions, a)]
    <3>1. v \in [Nodes -> Int]
      BY <1>3, KnownPriced, GetBalanceType
    <3>2. \A a \in Nodes : GetBalance(e, a) = w[a]
      <4> HIDE DEF b, nb, c
      <4>1. \A a \in Nodes : GetBalance(e, a) = TxsBalance(GetBalance(c, a), b.transactions, a)
        BY <1>2, <1>3, KnownPriced, GetBalanceAppend
      <4> QED BY <1>2, <4>1
    <3> HIDE DEF e
    <3>3. [a \in Nodes |-> GetBalance(e, a)] = w
      BY <3>2
    <3> HIDE DEF v, nb
    <3>4. SumOver(Nodes, w) = SumOver(Nodes, v) + MINING_REWARD
      BY <1>1, <3>1 DEF Paid
    <3>5. Wealth(e) = SumOver(Nodes, w) /\ Wealth(c) = SumOver(Nodes, v)
      BY <3>3 DEF Wealth, v
    <3> QED BY <3>4, <3>5
  <2>4. Wealth(c) = MINING_REWARD * (Len(c) - 1)
    BY <1>3 DEF MoneyInv
  <2> HIDE DEF e, b, nb, c
  <2>5. Wealth(e) = MINING_REWARD * (Len(e) - 1)
    BY <1>3, <2>2, <2>3, <2>4 DEF MINING_REWARD
  <2>6. \A m \in Nodes : FeesKept(m)'
    BY <1>4 DEF MoneyInv, FeesKept, Paid
  <2>7. \A x \in built' : Wealth(x)' = MINING_REWARD * (Len(x) - 1)
    BY <2>1, <2>5 DEF MoneyInv, Wealth
  <2> QED BY <2>6, <2>7 DEF MoneyInv
<1>6. CASE ~ AddBlockAccepts(c, b)
  <2>1. built' = built
    BY <1>6 DEF MineAdd
  <2> QED BY <1>4, <2>1, MoneyKept
<1> QED BY <1>5, <1>6

\* The other steps of the main thread and of the user leave do_mine.
LEMMA OtherMainMoney ==
    ASSUME Ind, MoneyInv, NEW n \in Nodes,
           \/ MineAnnounce(n) \/ SendEnqueue(n) \/ SendPublish(n)
           \/ Greet(n) \/ RequestAgain(n) \/ Restart(n)
           \/ \E p \in Payments : SendCheck(n, p)
           \/ \E m \in Nodes : Connect(n, m)
    PROVE  MoneyInv'
<1>1. /\ built' = built /\ pc'[n] \notin {"lock", "collect", "mine"}
      /\ \A m \in Nodes \ {n} : /\ pc'[m] = pc[m] /\ new_block'[m] = new_block[m]
                                /\ total_fees'[m] = total_fees[m]
  <2>1. DOMAIN pc = Nodes /\ DOMAIN new_block = Nodes /\ DOMAIN total_fees = Nodes
    BY DEF Ind, NodeTypes
  <2>2. CASE MineAnnounce(n)
    BY <2>1, <2>2 DEF MineAnnounce, nodeVars
  <2>3. CASE SendEnqueue(n) \/ SendPublish(n)
    BY <2>1, <2>3 DEF SendEnqueue, SendPublish, nodeVars
  <2>4. CASE Greet(n) \/ RequestAgain(n)
    BY <2>1, <2>4 DEF Greet, RequestAgain, nodeVars
  <2>5. CASE Restart(n)
    BY <2>1, <2>5 DEF Restart
  <2>6. CASE \E p \in Payments : SendCheck(n, p)
    BY <2>1, <2>6 DEF SendCheck, nodeVars
  <2>7. CASE \E m \in Nodes : Connect(n, m)
    BY <2>1, <2>7 DEF Connect, nodeVars
  <2> QED BY <2>2, <2>3, <2>4, <2>5, <2>6, <2>7
<1> QED BY <1>1, MoneyKept

\* Every step.
LEMMA StepMoney ==
    ASSUME PaymentsFit, Ind, MoneyInv, [Next]_vars
    PROVE  MoneyInv'
<1>1. CASE \E n \in Nodes : UserStep(n)
  BY <1>1, SnapshotMoney, OtherMainMoney DEF UserStep
<1>2. CASE \E n \in Nodes : MainStep(n)
  BY <1>2, LockMoney, CollectMoney, SealMoney, MineAddMoney, OtherMainMoney DEF MainStep
<1>3. CASE \E n \in Nodes : Restart(n)
  BY <1>3, OtherMainMoney
<1>4. CASE \/ \E n \in Nodes, c \in Conns : HandlerStep(n, c) \/ Accept(n, c)
           \/ \E n \in Nodes : AcceptGreet(n)
           \/ \E c \in Conns : LinkDown(c)
           \/ UNCHANGED vars
  <2>1. UNCHANGED <<mainVars, built>>
    <3>1. CASE \E n \in Nodes, c \in Conns : HandlerStep(n, c)
      BY <3>1 DEF HandlerStep, RecvBlock, RelayBlock, RecvTx, RecvRequest, SendAnswer,
                  RecvChain, PeerLost
    <3>2. CASE \/ \E n \in Nodes, c \in Conns : Accept(n, c)
               \/ \E n \in Nodes : AcceptGreet(n)
               \/ \E c \in Conns : LinkDown(c)
               \/ UNCHANGED vars
      BY <3>2 DEF Accept, AcceptGreet, LinkDown, vars
    <3> QED BY <1>4, <3>1, <3>2
  <2> QED BY <2>1, MoneyKept DEF mainVars
<1> QED BY <1>1, <1>2, <1>3, <1>4 DEF Next

\* Before anything is mined nobody owns anything.
LEMMA InitMoney == Init => MoneyInv
<1> SUFFICES ASSUME Init PROVE MoneyInv
  OBVIOUS
<1>1. \A n \in Nodes : FeesKept(n)
  BY DEF Init, FeesKept
<1>2. Wealth(ChainInit) = MINING_REWARD * (Len(ChainInit) - 1)
  <2> DEFINE c == ChainInit
             v == [a \in Nodes |-> GetBalance(c, a)]
  <2>1. /\ c \in Seq(Range(c)) /\ Len(c) = 1 /\ BlocksOver(KnownTxs, c)
        /\ c[1].transactions = << >>
    BY ChainInitFields, GenesisFields DEF IsChain, IsBlock, BlocksOver, Last
  <2> HIDE DEF c
  <2>2. ASSUME NEW a \in Nodes PROVE GetBalance(c, a) = 0
    <3>1. PICK r : BalanceRun(c, a, r) /\ GetBalance(c, a) = r[1]
      BY <2>1, KnownPriced, GetBalanceRun
    <3>2. r[0] = 0 /\ r[1] = TxsBalance(0, << >>, a)
      BY <2>1, <3>1 DEF BalanceRun
    <3>3. TxsBalance(0, << >>, a) = 0
      BY TxsBalanceEmpty
    <3> QED BY <3>1, <3>2, <3>3
  <2>3. v \in [Nodes -> Int] /\ \A a \in Nodes : v[a] = 0
    BY <2>2
  <2>4. Wealth(c) = SumOver(Nodes, v)
    BY DEF Wealth
  <2> HIDE DEF v
  <2>5. SumOver(Nodes, v) = 0
    BY <2>3, NodesAssumption, SumOverZero
  <2>6. MINING_REWARD * (Len(c) - 1) = 0
    BY <2>1 DEF MINING_REWARD
  <2> QED BY <2>4, <2>5, <2>6 DEF c
<1>3. \A c \in built : Wealth(c) = MINING_REWARD * (Len(c) - 1)
  BY <1>2 DEF Init
<1> QED BY <1>1, <1>3 DEF MoneyInv

-----------------------------------------------------------------------------
(* The theorem *)

\* MapThenSumSet adds the balances up.
LEMMA WealthIsSum ==
    ASSUME NEW c, \A a \in Nodes : GetBalance(c, a) \in Int
    PROVE  MapThenSumSet(LAMBDA n : GetBalance(c, n), Nodes) = Wealth(c)
<1> DEFINE v == [a \in Nodes |-> GetBalance(c, a)]
           Step(it) == [s \in SUBSET Nodes |->
                           IF s = {} THEN 0
                           ELSE GetBalance(c, CHOOSE x \in s : TRUE)
                                  + it[s \ {CHOOSE x \in s : TRUE}]]
           iter == CHOOSE it : it = Step(it)
<1>1. MapThenSumSet(LAMBDA n : GetBalance(c, n), Nodes) = iter[Nodes]
  BY Zenon DEF MapThenSumSet, MapThenFoldSet
<1>2. v \in [Nodes -> Int]
  OBVIOUS
<1>3. PICK f \in [SUBSET Nodes -> Int] : Sums(SUBSET Nodes, v, f)
  <2> HIDE DEF v
  <2> QED BY <1>2, NodesAssumption, SumsExist
<1>4. ASSUME NEW s \in SUBSET Nodes, s # {}
      PROVE  v[CHOOSE x \in s : TRUE] = GetBalance(c, CHOOSE x \in s : TRUE)
  <2>1. (CHOOSE x \in s : TRUE) \in Nodes
    BY <1>4
  <2> QED BY <2>1
<1>5. f = Step(f)
  <2>1. \A s \in SUBSET Nodes :
           f[s] = IF s = {} THEN 0
                  ELSE GetBalance(c, CHOOSE x \in s : TRUE)
                          + f[s \ {CHOOSE x \in s : TRUE}]
    <3> HIDE DEF v
    <3> QED BY <1>3, <1>4 DEF Sums
  <2> QED BY <2>1, Zenon
<1>6. iter = Step(iter)
  BY <1>5, Zenon
<1> HIDE DEF iter
<1>7. Sums(SUBSET Nodes, v, iter)
  <2>1. \A s \in SUBSET Nodes :
           iter[s] = IF s = {} THEN 0
                     ELSE GetBalance(c, CHOOSE x \in s : TRUE)
                             + iter[s \ {CHOOSE x \in s : TRUE}]
    BY <1>6, Zenon
  <2> HIDE DEF v
  <2> QED BY <2>1, <1>4 DEF Sums
<1>8. Wealth(c) = SumOver(Nodes, v)
  BY DEF Wealth
<1> HIDE DEF v
<1>9. iter[Nodes] = SumOver(Nodes, v)
  BY <1>2, <1>7, NodesAssumption, SumOverIs
<1> QED BY <1>1, <1>8, <1>9

\* Coins are made by do_mine only, and every block makes one reward: whatever
\* payments and fees the blocks of a chain carry and whoever mined them, all the
\* wallets together own MINING_REWARD for each block after genesis, as long as
\* the payments entered fit the arithmetic of the program.
THEOREM MoneyIsMined == NoHashCollision /\ PaymentsFit => (Spec => []MoneySupply)
<1> SUFFICES ASSUME NoHashCollision, PaymentsFit PROVE Spec => []MoneySupply
  OBVIOUS
<1>1. Spec => []Ind
  BY Inductive
<1>2. Init => MoneyInv
  BY InitMoney
<1>3. Ind /\ MoneyInv /\ [Next]_vars => MoneyInv'
  BY StepMoney
<1>4. Ind /\ MoneyInv => MoneySupply
  <2> SUFFICES ASSUME Ind, MoneyInv, NEW c \in built
               PROVE  MapThenSumSet(LAMBDA n : GetBalance(c, n), Nodes)
                         = MINING_REWARD * (Len(c) - 1)
    BY Zenon DEF MoneySupply
  <2>1. c \in Seq(Range(c)) /\ BlocksOver(KnownTxs, c)
    BY BuiltFields DEF Ind, IsChain, IsBlock, BlocksOver
  <2>2. \A a \in Nodes : GetBalance(c, a) \in Int
    BY <2>1, KnownPriced, GetBalanceType
  <2>3. MapThenSumSet(LAMBDA n : GetBalance(c, n), Nodes) = Wealth(c)
    BY <2>2, WealthIsSum, Zenon
  <2>4. Wealth(c) = MINING_REWARD * (Len(c) - 1)
    BY DEF MoneyInv
  <2> QED BY <2>3, <2>4, Zenon
<1> QED BY <1>1, <1>2, <1>3, <1>4, PTL DEF Spec
=============================================================================
