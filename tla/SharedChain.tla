----------------------------- MODULE SharedChain -----------------------------
(***************************************************************************)
(* One node's blockchain_t under its threads, at the grain at which        *)
(* MiniCoin.tla is too coarse.  chain_add_block, chain_replace and the     *)
(* snapshot of do_mine hold chain.lock; chain_get_balance (in do_mine) and *)
(* protocol_serialize_chain (for REQUEST_CHAIN) read the array without it, *)
(* block by block, while chain_replace may be copying another chain over   *)
(* it.                                                                     *)
(*                                                                         *)
(* Slot i of blocks is blocks[i - 1] in the program.  A block is copied in *)
(* one step and read in two, for a response that mixes two blocks in any   *)
(* field that their hash covers is rejected by block_validate: what is     *)
(* left is a transaction's data beside the tx_hash of another.             *)
(* chain_add_block stores one block beyond the length, where nobody reads, *)
(* and is one step.                                                        *)
(***************************************************************************)
EXTENDS Ledger

CONSTANTS
    Readers,    \* the peer_handler threads
    Main,       \* the main thread
    NoThread,   \* the owner of a free lock
    me,         \* this node
    Offers,     \* chains that other nodes may send; with each, its beginnings
    Pending     \* the transaction in this node's mempool

\* The transactions that this node may read or write.
KnownTxs ==
    {Pending, Coinbase(me, 0), Coinbase(me, Pending.fee)}
      \cup UNION {UNION {Range(c[i].transactions) : i \in DOMAIN c} : c \in Offers}

ASSUME ThreadAssumption == NoThread \notin Readers \cup {Main} /\ Main \notin Readers
\* The other nodes mine their chains block by block, as this one does
\* (ChainsBuilt of MiniCoin), and protocol_deserialize_chain makes no others of
\* them as long as no receiver has a brace in it (LineMeansMessage of Protocol).
ASSUME OfferAssumption == TreeOf(KnownTxs, Offers \cup {ChainInit})
ASSUME PriceAssumption == \A t \in KnownTxs : t.amount \in UInt64 /\ t.fee \in UInt64
\* Unset also marks a balance that is none.
ASSUME UnsetAssumption == Unset \notin Int

\* As in MiniCoin: no two different transactions have one tx_hash.
NoHashCollision == CollisionFree(KnownTxs)

VARIABLES
    blocks,     \* chain.blocks
    length,     \* chain.length
    lock,       \* which thread holds chain.lock
    pc,         \* pc[t]: where thread t is
    other,      \* other[r]: the received chain that r is copying
    todo,       \* todo[r]: the slots r has still to copy
    answer,     \* answer[r]: the response r is writing: the length in front,
                \*            the blocks so far and the first transaction of the
                \*            next one, as read already
    draft,      \* do_mine's new_block
    read,       \* how many blocks chain_get_balance has been through
    balance,    \* its sum, or Unset when a read overlapped a copy
    built       \* history: every chain that exists

chainVars == <<blocks, length, lock>>
mineVars == <<draft, read, balance>>
vars == <<chainVars, pc, other, todo, answer, mineVars, built>>

Empty == [index |-> 0, timestamp |-> 0, transactions |-> << >>,
          prev_hash |-> Unset, nonce |-> 0, hash |-> Unset]
NoAnswer == [length |-> 0, blocks |-> << >>, first |-> << >>]

\* The chain in the array.
Held == [i \in 1 .. length |-> blocks[i]]

Init ==
    /\ blocks = [i \in 1 .. MAX_BLOCKS |-> IF i = 1 THEN Genesis ELSE Empty]
    /\ length = 1
    /\ lock = NoThread
    /\ pc = [t \in Readers \cup {Main} |-> "idle"]
    /\ other = [r \in Readers |-> << >>]
    /\ todo = [r \in Readers |-> {}]
    /\ answer = [r \in Readers |-> NoAnswer]
    /\ draft = Empty
    /\ read = 0
    /\ balance = 0
    /\ built = {ChainInit} \cup Offers

Go(t, point) == pc' = [pc EXCEPT ![t] = point]

-----------------------------------------------------------------------------
(* Reader r: NEW_BLOCK and CHAIN_RESPONSE *)

\* chain_add_block of a block b that another node has mined.
ReceiveBlock(r, b) ==
    /\ pc[r] = "idle"
    /\ lock = NoThread
    /\ AddBlockAccepts(Held, b)
    /\ blocks' = [blocks EXCEPT ![length + 1] = b]
    /\ length' = length + 1
    /\ UNCHANGED <<lock, pc, other, todo, answer, mineVars, built>>

\* Mutant of ReplaceBegin: the lengths are compared before the lock is taken,
\* and not again.
ReplaceBeginUnchecked(r, c) ==
    /\ pc[r] = "idle"
    /\ lock = NoThread
    /\ ChainValidate(c)
    /\ lock' = r
    /\ other' = [other EXCEPT ![r] = c]
    /\ todo' = [todo EXCEPT ![r] = {i \in 1 .. Len(c) : blocks[i] # c[i]}]
    /\ Go(r, "copy")
    /\ UNCHANGED <<blocks, length, answer, mineVars, built>>

\* chain_replace takes the lock, and c is longer and valid.  Copying a block
\* over an equal one changes nothing and is no step.
ReplaceBegin(r, c) ==
    /\ pc[r] = "idle"
    /\ lock = NoThread
    /\ ReplaceAccepts(Held, c)
    /\ lock' = r
    /\ other' = [other EXCEPT ![r] = c]
    /\ todo' = [todo EXCEPT ![r] = {i \in 1 .. Len(c) : blocks[i] # c[i]}]
    /\ Go(r, "copy")
    /\ UNCHANGED <<blocks, length, answer, mineVars, built>>

\* memcpy, in whatever order it goes.
ReplaceCopy(r, i) ==
    /\ pc[r] = "copy"
    /\ i \in todo[r]
    /\ blocks' = [blocks EXCEPT ![i] = other[r][i]]
    /\ todo' = [todo EXCEPT ![r] = @ \ {i}]
    /\ UNCHANGED <<length, lock, pc, other, answer, mineVars, built>>

\* Mutant of ReplaceEnd: the lock is not released.
ReplaceEndLocked(r) ==
    /\ pc[r] = "copy"
    /\ todo[r] = {}
    /\ length' = Len(other[r])
    /\ other' = [other EXCEPT ![r] = << >>]
    /\ Go(r, "idle")
    /\ UNCHANGED <<blocks, lock, todo, answer, mineVars, built>>

ReplaceEnd(r) ==
    /\ pc[r] = "copy"
    /\ todo[r] = {}
    /\ length' = Len(other[r])
    /\ lock' = NoThread
    /\ other' = [other EXCEPT ![r] = << >>]
    /\ Go(r, "idle")
    /\ UNCHANGED <<blocks, todo, answer, mineVars, built>>

-----------------------------------------------------------------------------
(* Reader r: REQUEST_CHAIN *)

\* protocol_serialize_chain writes the length first.
AnswerBegin(r) ==
    /\ pc[r] = "idle"
    /\ answer' = [answer EXCEPT ![r] = [NoAnswer EXCEPT !.length = length]]
    /\ Go(r, "first")
    /\ UNCHANGED <<chainVars, other, todo, mineVars, built>>

\* protocol_serialize_tx of the next block's first transaction takes sender,
\* receiver, amount and fee into its own memory.
AnswerFirst(r) ==
    /\ pc[r] = "first"
    /\ Len(answer[r].blocks) < length
    /\ answer' = [answer EXCEPT ![r].first =
                     blocks[Len(answer[r].blocks) + 1].transactions]
    /\ Go(r, "rest")
    /\ UNCHANGED <<chainVars, other, todo, mineVars, built>>

\* Block b with its first transaction read earlier, all but the tx_hash.
WithFirst(b, txs) ==
    IF b.transactions = << >> \/ txs = << >> THEN b
    ELSE [b EXCEPT !.transactions[1] =
             [txs[1] EXCEPT !.tx_hash = b.transactions[1].tx_hash]]

\* The rest of the block, the tx_hash included.
AnswerRest(r) ==
    /\ pc[r] = "rest"
    /\ answer' = [answer EXCEPT
                    ![r].blocks = Append(@, WithFirst(blocks[Len(@) + 1], answer[r].first)),
                    ![r].first = << >>]
    /\ Go(r, "first")
    /\ UNCHANGED <<chainVars, other, todo, mineVars, built>>

\* No more blocks: the response is complete.
AnswerEnd(r) ==
    /\ pc[r] = "first"
    /\ Len(answer[r].blocks) >= length
    /\ Go(r, "reply")
    /\ UNCHANGED <<chainVars, other, todo, answer, mineVars, built>>

\* send_message.
Reply(r) ==
    /\ pc[r] = "reply"
    /\ answer' = [answer EXCEPT ![r] = NoAnswer]
    /\ Go(r, "idle")
    /\ UNCHANGED <<chainVars, other, todo, mineVars, built>>

\* What the peer makes of a response (protocol_deserialize_chain): as many of
\* its blocks as the length in front says.
Parsed(ans) == SubSeq(ans.blocks, 1, Min({ans.length, Len(ans.blocks)}))

-----------------------------------------------------------------------------
(* The main thread: do_mine, with one transaction in the mempool *)

MineSnapshot(t) ==
    /\ pc[Main] = "idle"
    /\ lock = NoThread
    /\ draft' = [Empty EXCEPT !.index = Last(Held).index + 1, !.timestamp = t,
                              !.prev_hash = Last(Held).hash]
    /\ read' = 0
    /\ balance' = 0
    /\ Go(Main, "collect")
    /\ UNCHANGED <<chainVars, other, todo, answer, built>>

\* chain_get_balance goes through one more block.  What it makes of a block
\* while chain_replace is copying may be anything.
MineRead ==
    /\ pc[Main] = "collect"
    /\ read < length
    /\ read' = read + 1
    /\ balance' = IF lock # NoThread \/ balance = Unset THEN Unset
                  ELSE FoldLeft(LAMBDA s, u : s + BalanceChange(u, Pending.sender),
                                balance, blocks[read + 1].transactions)
    /\ UNCHANGED <<chainVars, pc, other, todo, answer, draft, built>>

\* The transaction is taken into the block or dropped, and the coinbase
\* transaction put in front.
MineSeal(take) ==
    /\ pc[Main] = "collect"
    /\ read >= length
    /\ balance # Unset => take = (balance >= ToInt64((Pending.amount + Pending.fee) % Two64))
    /\ draft' = [draft EXCEPT !.transactions =
                    IF take THEN <<Coinbase(me, Pending.fee), Pending>>
                            ELSE <<Coinbase(me, 0)>>]
    /\ Go(Main, "mine")
    /\ UNCHANGED <<chainVars, other, todo, answer, read, balance, built>>

\* Mutant of MineAdd: the block is moved onto the last block of this moment.
MineAddRebased ==
    /\ pc[Main] = "mine"
    /\ lock = NoThread
    /\ LET b == BlockMine([draft EXCEPT !.index = Last(Held).index + 1,
                                        !.prev_hash = Last(Held).hash]) IN
         IF AddBlockAccepts(Held, b)
         THEN /\ blocks' = [blocks EXCEPT ![length + 1] = b]
              /\ length' = length + 1
              /\ built' = built \cup {Append(Held, b)}
         ELSE UNCHANGED <<blocks, length, built>>
    /\ draft' = Empty
    /\ Go(Main, "idle")
    /\ UNCHANGED <<lock, other, todo, answer, read, balance>>

\* block_mine and chain_add_block.
MineAdd ==
    /\ pc[Main] = "mine"
    /\ lock = NoThread
    /\ WinningNonces(draft) # {}
    /\ LET b == BlockMine(draft) IN
         IF AddBlockAccepts(Held, b)
         THEN /\ blocks' = [blocks EXCEPT ![length + 1] = b]
              /\ length' = length + 1
              /\ built' = built \cup {Append(Held, b)}
         ELSE UNCHANGED <<blocks, length, built>>
    /\ draft' = Empty
    /\ Go(Main, "idle")
    /\ UNCHANGED <<lock, other, todo, answer, read, balance>>

-----------------------------------------------------------------------------
Replacing(r) == (\E i \in todo[r] : ReplaceCopy(r, i)) \/ ReplaceEnd(r)
Answering(r) == AnswerFirst(r) \/ AnswerRest(r) \/ AnswerEnd(r) \/ Reply(r)
Mining == MineRead \/ (\E take \in BOOLEAN : MineSeal(take)) \/ MineAdd

Next ==
    \/ \E r \in Readers :
         \/ \E c \in Offers : ReceiveBlock(r, Last(c)) \/ ReplaceBegin(r, c)
         \/ AnswerBegin(r)
         \/ Replacing(r) \/ Answering(r)
    \/ \E t \in Times : MineSnapshot(t)
    \/ Mining

Spec == Init /\ [][Next]_vars

-----------------------------------------------------------------------------
TypeOK ==
    /\ DOMAIN blocks = 1 .. MAX_BLOCKS
    /\ length \in 1 .. MAX_BLOCKS
    /\ lock \in Readers \cup {NoThread}
    /\ pc \in [Readers \cup {Main} -> {"idle", "copy", "first", "rest", "reply",
                                       "collect", "mine"}]
    /\ todo \in [Readers -> SUBSET (1 .. MAX_BLOCKS)]
    /\ \A r \in Readers : Len(answer[r].blocks) <= MAX_BLOCKS
    /\ read \in 0 .. MAX_BLOCKS

\* Whenever the lock is free the array holds one chain that exists, not a
\* mixture: the two functions that write to it never work on it at once.
ChainIntact == lock = NoThread => Held \in built

\* A replacement is alone: whoever copies holds the lock, whoever holds the lock
\* is copying, and what has been copied is not overwritten by another thread.
CopyAlone ==
    \A r \in Readers :
        /\ pc[r] = "copy" <=> lock = r
        /\ pc[r] = "copy" => \A i \in DOMAIN other[r] \ todo[r] : blocks[i] = other[r][i]

\* However much the chain changed while do_mine was reading balances from it,
\* the payments of a block that it adds are affordable on the chain below.
CheckedOnTop ==
    \A c \in built \ ({ChainInit} \cup Offers) :
        \A i \in 2 .. Len(Last(c).transactions) :
            CanAfford(Front(c), Last(c).transactions[i])

\* The blocks of a response, by their hashes.
Hashes(c) == [i \in DOMAIN c |-> c[i].hash]

\* A response read while the chain was being replaced never splices two
\* branches: either the peer's chain_validate rejects it, or its hashes are
\* those of a chain that exists.
AnswerNotSpliced ==
    \A r \in Readers : pc[r] = "reply" /\ ChainValidate(Parsed(answer[r])) =>
        \E c \in built : Hashes(c) = Hashes(Parsed(answer[r]))

\* The mutex protects the chain from concurrent access of mining and network:
\* a response that the peer's chain_validate accepts is a chain that exists,
\* with the transactions it has.
AnswerIsChain ==
    \A r \in Readers : pc[r] = "reply" /\ ChainValidate(Parsed(answer[r])) =>
        Parsed(answer[r]) \in built

\* A reader without the lock never sees the length shrink, so every block it
\* goes on to read is there.
LengthGrows == [][length' >= length]_vars
=============================================================================
