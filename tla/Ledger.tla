------------------------------- MODULE Ledger -------------------------------
(***************************************************************************)
(* The data structures of MiniCoin and the functions on them: transactions *)
(* (tx.c), blocks (block.c) and the blockchain (chain.c).  The module has  *)
(* no variables; the nodes of MiniCoin.tla call its operators.             *)
(*                                                                         *)
(* A SHA-256 digest is represented by the data that is hashed, so digests  *)
(* are equal exactly when the hashed strings are.  What the program        *)
(* formats into such a string is kept: a transaction hashes the decimal    *)
(* digits of amount and fee with nothing between them.  A block's string   *)
(* can be read back (its timestamp has ten digits, every hash 64, and no   *)
(* hash is another one shifted), so a record of the fields stands for it.  *)
(***************************************************************************)
EXTENDS Integers, Sequences, SequencesExt, FiniteSetsExt

CONSTANTS
    Nodes,              \* the nodes; a node and its wallet address are one
    COINBASE_ADDR,      \* the sender written into coinbase transactions
    ZeroHash,           \* the string of 64 zeros: prev_hash of genesis
    Unset,              \* the bytes of a field that memset(0) left empty
    Times,              \* what time(NULL) may return while blocks are mined
    Nonces,             \* the nonces block_mine can reach (a bound)
    MeetsTarget(_),     \* does a digest start with MINING_DIFFICULTY zeros?
    Two64,              \* the number of uint64_t values: 2^64 in the program
    MAX_BLOCKS,         \* capacity of blockchain_t.blocks: 10000
    MAX_TX_PER_BLOCK    \* capacity of block_t.transactions: 10

ASSUME WordAssumption == Two64 \in Nat /\ Two64 > 100 /\ Two64 % 2 = 0
ASSUME AddressAssumption == COINBASE_ADDR \notin Nodes
ASSUME CapacityAssumption == /\ MAX_BLOCKS \in Nat \ {0}
                             /\ MAX_TX_PER_BLOCK \in Nat \ {0}
ASSUME NonceAssumption == Nonces \subseteq Nat

MINING_REWARD == 50
MIN_TX_FEE == 1
GENESIS_TIME == 1231006505

UInt64 == 0 .. (Two64 - 1)

\* The cast (int64_t) of an unsigned value.
ToInt64(u) == IF u >= Two64 \div 2 THEN u - Two64 ELSE u

-----------------------------------------------------------------------------
(* Transactions: tx.c *)

\* The number of characters "%lu" prints.
DigitCount[n \in Nat] == IF n < 10 THEN 1 ELSE 1 + DigitCount[n \div 10]

\* The string "%lu%lu" prints, as its length and its value.
Decimals(a, f) ==
    [length |-> DigitCount[a] + DigitCount[f],
     value  |-> a * 10 ^ DigitCount[f] + f]

TxHash(sender, receiver, amount, fee) ==
    [sender |-> sender, receiver |-> receiver, digits |-> Decimals(amount, fee)]

\* tx_create: the signature is left out, no code path ever verifies it.
TxCreate(sender, receiver, amount, fee) ==
    [sender |-> sender, receiver |-> receiver, amount |-> amount, fee |-> fee,
     tx_hash |-> TxHash(sender, receiver, amount, fee)]

\* Mutant of Coinbase: do_mine forgets the fees it has collected.
CoinbaseWithoutFees(miner, fees) ==
    TxCreate(COINBASE_ADDR, miner, MINING_REWARD, 0)

\* tx_create_coinbase, then do_mine adds the fees and hashes again.
Coinbase(miner, fees) ==
    TxCreate(COINBASE_ADDR, miner, (MINING_REWARD + fees) % Two64, 0)

-----------------------------------------------------------------------------
(* Blocks: block.c.  tx_count is the length of transactions. *)

\* Mutant of BlockHash: the loop over the transactions is missing.
BlockHashOfHeader(b) ==
    [index |-> b.index, timestamp |-> b.timestamp, prev_hash |-> b.prev_hash,
     nonce |-> b.nonce, tx_hashes |-> << >>]

BlockHash(b) ==
    [index |-> b.index, timestamp |-> b.timestamp, prev_hash |-> b.prev_hash,
     nonce |-> b.nonce,
     tx_hashes |-> [i \in 1 .. Len(b.transactions) |-> b.transactions[i].tx_hash]]

\* The nonces that make a block's hash meet the target.
WinningNonces(b) ==
    {k \in Nonces : MeetsTarget(BlockHash([b EXCEPT !.nonce = k]))}

\* block_mine: the loop counts up from 0 and stops at the first winner; when
\* WinningNonces is empty it does not return.
BlockMine(b) ==
    LET mined == [b EXCEPT !.nonce = Min(WinningNonces(b))]
    IN  [mined EXCEPT !.hash = BlockHash(mined)]

BlockValidate(b) ==
    /\ b.hash = BlockHash(b)
    /\ MeetsTarget(b.hash)

Genesis ==
    BlockMine([index |-> 0, timestamp |-> GENESIS_TIME, transactions |-> << >>,
               prev_hash |-> ZeroHash, nonce |-> 0, hash |-> Unset])

-----------------------------------------------------------------------------
(* The blockchain: chain.c *)

\* chain_init: every node computes the same genesis block.
ChainInit == <<Genesis>>

\* Mutants of AddBlockAccepts: the link is not compared; the capacity test is
\* off by one.
AddBlockUnlinked(c, b) ==
    /\ Len(c) < MAX_BLOCKS
    /\ b.index = Last(c).index + 1
    /\ BlockValidate(b)

AddBlockOverfull(c, b) ==
    /\ Len(c) <= MAX_BLOCKS
    /\ b.index = Last(c).index + 1
    /\ b.prev_hash = Last(c).hash
    /\ BlockValidate(b)

\* The tests of chain_add_block, in the order the code makes them.
AddBlockAccepts(c, b) ==
    /\ Len(c) < MAX_BLOCKS
    /\ b.index = Last(c).index + 1
    /\ b.prev_hash = Last(c).hash
    /\ BlockValidate(b)

\* chain_add_block.
AddBlock(c, b) == IF AddBlockAccepts(c, b) THEN Append(c, b) ELSE c

\* Mutant of ChainValidate: the links are not compared.
ChainValidateUnlinked(c) == \A i \in 2 .. Len(c) : BlockValidate(c[i])

\* chain_validate: the links and the blocks after the first one.  Neither the
\* first block nor the index fields are looked at.
ChainValidate(c) ==
    \A i \in 2 .. Len(c) : /\ c[i].prev_hash = c[i - 1].hash
                           /\ BlockValidate(c[i])

\* Mutants of ReplaceAccepts: a chain of equal length replaces; a chain that is
\* one block longer does not.
ReplaceOnTie(c, other) == Len(other) >= Len(c) /\ ChainValidate(other)

ReplaceWhenTwoAhead(c, other) == Len(other) > Len(c) + 1 /\ ChainValidate(other)

\* The tests of chain_replace.
ReplaceAccepts(c, other) ==
    /\ Len(other) > Len(c)
    /\ ChainValidate(other)

\* chain_replace.
ChainReplace(c, other) == IF ReplaceAccepts(c, other) THEN other ELSE c

\* What one transaction does to the balance of addr.
BalanceChange(tx, addr) ==
    (IF tx.receiver = addr THEN ToInt64(tx.amount) ELSE 0)
      - (IF tx.sender = addr THEN ToInt64((tx.amount + tx.fee) % Two64) ELSE 0)

\* chain_get_balance.
GetBalance(c, addr) ==
    FoldLeft(LAMBDA total, b :
                FoldLeft(LAMBDA t, tx : t + BalanceChange(tx, addr),
                         total, b.transactions),
             0, c)

\* The test do_send and do_mine make before they let a payment through.
CanAfford(c, tx) ==
    GetBalance(c, tx.sender) >= ToInt64((tx.amount + tx.fee) % Two64)

-----------------------------------------------------------------------------
(* What blocks and chains over a set T of transactions look like *)

BlockOf(T, b) ==
    /\ b = [index |-> b.index, timestamp |-> b.timestamp,
            transactions |-> b.transactions, prev_hash |-> b.prev_hash,
            nonce |-> b.nonce, hash |-> b.hash]
    /\ b.index \in Nat
    /\ b.transactions \in Seq(T)

ChainOf(T, c) ==
    /\ c \in Seq(Range(c))
    /\ Len(c) \in 1 .. MAX_BLOCKS
    /\ \A i \in 1 .. Len(c) : BlockOf(T, c[i])

\* c is p and one more block, which is numbered, linked to the end of p and
\* carries its own hash.
OneBlockMore(p, c) ==
    /\ c = Append(p, Last(c))
    /\ Last(c).index = Len(p)
    /\ Last(c).prev_hash = Last(p).hash
    /\ Last(c).hash = BlockHash(Last(c))

\* The chains of B have grown from genesis, one block at a time.
TreeOf(T, B) ==
    /\ ChainInit \in B
    /\ \A c \in B : ChainOf(T, c) /\ Last(c).index = Len(c) - 1
    /\ \A c \in B : c = ChainInit \/ \E p \in B : OneBlockMore(p, c)

\* No two of the transactions have one hash.
CollisionFree(T) == \A t, u \in T : t.tx_hash = u.tx_hash => t = u
=============================================================================
