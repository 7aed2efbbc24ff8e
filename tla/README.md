# Verification of MiniCoin

TLA+ models, model-checking runs and machine-checked proofs for MiniCoin, the
demo cryptocurrency in C of this repository (paths below are those of the
repository). Every definition that models code names the code in its comment;
`PROJECT.json` ("map") gives the lines.

## 1. The system

MiniCoin is one program, `minicoin`, run as a node per user. Nodes talk over TCP
(often through SSH tunnels), line by line, in a small JSON protocol.

| component | state | operations | correct when |
|---|---|---|---|
| Transactions, `src/tx.c` | none | `tx_create`, `tx_create_coinbase`, `tx_compute_hash` | the hash identifies the payment |
| Blocks, `src/block.c` | none | `block_compute_hash`, `block_mine`, `block_validate`, `block_create_genesis` | the hash identifies the block with its transactions and its link |
| Blockchain, `src/chain.c` | `blocks[10000]`, `length`, `lock` | `chain_init`, `chain_add_block`, `chain_replace`, `chain_validate`, `chain_get_balance` | always one chain that somebody mined; longer chains win; balances are what the blocks say |
| Node, `src/main.c` | `mempool[100]`, `mempool_count`, `mempool_lock`, the globals `chain`, `wallet`, `node`; locals of `do_mine` and `do_send` | menu: mine, pay, connect; callbacks `on_new_tx`, `on_peer_connected` | blocks hold only affordable payments; no payment is lost, or confirmed twice |
| Network, `src/net.c` | `peers[16]`, `peer_count`, `peers_lock`, `running`, sockets | `node_init`, accept and connect, `add_peer`, `peer_handler`/`handle_message`, `read_message`, `send_message`, broadcasts, `node_stop` | connected nodes end up with the same chain; a descriptor is used for one peer only; nobody waits for ever |
| Protocol, `src/protocol.c` | none | serialize and parse transactions, blocks, chains and messages | what arrives is what was sent, or is refused |
| Wallet, `src/wallet.c` | key, address, `wallet.pem` | create, load, save, sign, verify | the address survives restarts |
| Display and menu, `src/main.c` | none | `print_menu`, animations, `do_wallet_info`, `do_network_status`, `do_mempool`, `chain_print`, `block_print`, `tx_print` | (only prints) |

**How they interact.** A node has one main thread (the menu), one accept thread
and one detached reader thread per peer. All of them call `chain.c`. `chain.lock`
is taken by `chain_add_block`, `chain_replace` and by `do_mine` to look at the
last block; `chain_get_balance` and `protocol_serialize_chain` read the array
without it. `mempool_lock` guards the mempool: `do_mine` keeps it while it
collects transactions, `on_peer_connected` while it sends the mempool to a new
peer. `peers_lock` is held during a broadcast. Readers call back into `main.c`
for transactions. Messages: `NEW_BLOCK` (accepted blocks are passed on to the
other peers), `NEW_TX` (not passed on), `REQUEST_CHAIN` (sent by both ends when a
connection is made, and by the connecting end once more), `CHAIN_RESPONSE` (the
whole chain; not passed on). There is no persistence except the wallet: a
restarted node is back on genesis.

**What is hard.** `do_mine` works for about ten seconds on a block that stands on
a chain which readers extend and replace meanwhile; it checks balances on a chain
that is not locked; blocks, requests and responses overtake each other; a relayed
block and a block mined on top of it race to the next peer; connections come up
in the middle of everything; connections and processes fail. Descriptors are
closed by one thread while another still names them, and the kernel gives their
numbers out again; threads send on one connection without a common lock, through
sockets that fill up; users type receivers with quotes and braces, and the parser
counts braces. `PROJECT.json` ("hazards") lists each at its line, with the
properties that cover it, or the reason why none does.

## 2. The modules

```
  Ledger            data and pure functions: tx.c, block.c, chain.c
    |-- LedgerProofs    lemmas about them
    |-- MiniCoin        the network: main.c, net.c        LongestChain
    |     |  \______________ LC == INSTANCE ... ____________/ (abstract)
    |     |-- MCMiniCoin        instances for TLC
    |     |-- MiniCoinProofs    theorems: chains and coins (with LedgerProofs)
    |           |-- CatchUpProofs   theorems: two nodes end up with the same
    |-- SharedChain     one node's blockchain_t under its threads
    |     |-- MCSharedChain     instance for TLC
    |     |-- SharedChainProofs theorems (with LedgerProofs)
    |-- Protocol        the text of the messages: protocol.c
          |-- MCProtocol        instance for TLC
          |-- ProtocolProofs    theorems: what a peer makes of the text

  Wallet     PeerTable      wallet.pem; the table of peers and its threads
      \       /
     NodeProcess            a process from start to end: main, node_init, node_stop
          |-- NodeProcessProofs theorems

  Transport             one connection, its senders, locks and sockets: net.c
    |-- MCTransport         instances for TLC
    |-- TransportProofs     theorems

  DataLemmas            induction, sequences, folds, sums; for all proofs
```

Each module looks at one part closely and takes the rest as the others show it
to be. MiniCoin's messages are values, Protocol spells them out; MiniCoin's
broadcasts are one step through sockets that have room, PeerTable sends to one peer
after another and may hang at each, Transport cuts the texts up;
MiniCoin's table of peers has room, PeerTable fills it; MiniCoin reads the chain
in one step, SharedChain block by block.

**Ledger** has no variables. A SHA-256 digest is represented by the data that is
hashed: digests are equal exactly when the hashed strings are. What the program
formats into the string is kept where two inputs can give one string: `TxHash`
keeps the digits of amount and fee as one run of digits, as `"%lu%lu"` prints
them. `uint64_t` arithmetic is modulo `Two64`, comparisons are made on the
`int64_t` cast. The proof-of-work target is a constant predicate on digests,
`MeetsTarget`.

**MiniCoin** has one action per stretch of code between two points where another
thread can be noticed:

| code | actions |
|---|---|
| `do_mine` | `MineSnapshot` (under `chain.lock`), `MineLock`, `MineCollect` (a turn of the loop), `MineSeal` (`mempool_count = 0`, coinbase), `MineAdd` (`block_mine`, `chain_add_block`), `MineAnnounce` |
| `do_send` | `SendCheck`, `SendEnqueue`, `SendPublish` |
| `node_connect_peer`, `add_peer`, `on_peer_connected` | `Connect`, `Greet`, `RequestAgain`; `Accept`, `AcceptGreet` |
| `peer_handler`, `handle_message` | `RecvBlock` and `RelayBlock`, `RecvTx`, `RecvRequest` and `SendAnswer`, `RecvChain`, `PeerLost` |
| failures | `LinkDown` (the network), `Restart` (the process ends and `main` starts again) |

`RequestAgain` follows net.c:356, where the connecting thread takes the last slot
of the table for its own, though the accept thread may have filled it.
`inbox[n][c]` is what node `n` has not yet read from connection `c`, FIFO.
`answer[n][c]` is the chain that the reader of connection `c` has serialized for an
answer (net.c:107) and not sent yet (net.c:111): other threads add blocks and announce
them in between. `built` is a history variable: every chain that was ever mined.

Simplifications in MiniCoin: a broadcast is one step (it holds `peers_lock`
throughout, and what reaches different peers at different times is already in
different queues, each read when its reader likes); one balance, and the chain for one
answer, are read in one step (SharedChain is about what happens otherwise); `Connect`
and `Accept` register the peer and request its chain in one step (in the program a
broadcast can get in between and so come before the request; its block is in the chain
already, and in the answer to the peer's own request unless this has been read before,
the case of late_answer); a node does not connect to itself; the table of peers has
room (PeerTable) and sockets have no capacity (Transport); a node's start is one step
(NodeProcess). Payments go to wallets of the network, whose addresses are hex strings,
so the JSON text carries them unchanged (Protocol).

**SharedChain** takes one node apart: the array, the length and the lock, with
two kinds of threads. Readers run `chain_add_block`, `chain_replace` (copying
block by block, in any order: `memcpy` promises none) and
`protocol_serialize_chain`, which reads block by block without the lock, a
block's first transaction before the rest. The main thread runs `do_mine` with
`chain_get_balance` block by block; a balance read while `chain_replace` is
copying may come out as anything.

**Protocol** writes messages out as sequences of tokens: a character where the parser
looks at characters, one token for a key with its quotes and colon, for a number and
for a word of hex digits. `SerializeTx`, `SerializeBlock`, `SerializeChain`,
`SerializeMsg` and `JsonEscape` are the serializers; `FindKey`, `GetString`,
`GetNumber`, `ObjectEnd` (the brace counting), `ParseTx`, `ParseBlock`, `ParseChain`
and `ParsePayload` the parser, with what they leave in a half-filled structure. Around
them a payer pays (`Pay`), mines what `Collected` takes from the mempool (`Mine`) and
answers (`HandleRequest`), and a peer handles what it reads (`HandleNewBlock`,
`HandleNewTx`, `HandleChain`). One line is under way at a time, and remembers what it
was made from. `SignTx` and `VerifyTx` are `wallet_sign_tx` and `wallet_verify_tx`;
the program calls the latter nowhere, the model uses it to say that what arrives is
still what was signed. Texts are never cut at the end of a buffer: `do_send` reads
addresses of at most 64 characters, and the arrays are twice as long.

**Wallet** is the file: `WalletLoad`, `WalletLoadFails`, `WalletCreate`,
`WalletOpen` (`fopen` with "w" empties it), `WalletFlush` (`fclose` fills it, and
may fail unnoticed), `WalletForget`. What has not been flushed dies with the
process. What has been flushed stays: the program calls no `fsync`, so this is about
processes that die, and a failure of the machine is left out.

**PeerTable** is `node_t.peers` with the descriptors. `owner` says what each
number refers to; the kernel gives out the lowest free one. A slot remembers
(history) which connection it was made for.

| code | actions |
|---|---|
| `node_connect_peer` and `add_peer` by main, `accept_thread` and `add_peer` | `NewConnection`, `AcceptConnection`, `AcceptEnds`, `AddFull`, `AddSlot` |
| `peer_handler` | `ReadMessage`, `ReadFails` (`active = 0`), `CloseLost` (`close`) |
| `handle_message` | `HandleMessage`, which nothing makes end: it may hang in the send of an answer |
| `broadcast_block_except` in a reader | `RelayLock`, `SendTaken` or `SendFails` for each peer, `RelayUnlock` |
| the other side | `Break`, and whether a send is taken |

`AddSlot` includes `pthread_create`: it happens after the lock is given back, but
a reader that does not run yet does nothing to notice. The request and the greeting
with which `add_peer` ends are left out, and with them that the greeting goes to the
descriptor that `add_peer` was called with (net.c:223), though the new reader may have
closed it by then. `target[t]` is the slot that thread `t` is sending to in its loop
over the peers: `active` and the descriptor's number are read for one slot after the
other, `peers_lock` is kept throughout, and a send to a connection that is up comes
back only if the peer reads (`SendTaken`).

**NodeProcess** puts both into one process.

| code | actions |
|---|---|
| start of `main`, `node_init` | `Start`, `LoadWallet`, `CreateWallet`, `OpenWallet`, `FlushWallet`, `ShowAddress`, `NodeInit`, `StartFails` |
| menu | `ShowMenu`, `EnterQuit`, `EnterConnect`, `EnterBroadcast`, `EnterOther`, `BroadcastLock` (then PeerTable's sends), `BroadcastUnlock` |
| `sigint_handler` | `Interrupt` |
| `node_stop`, end of `main` | `Stop`, `StopServer`, `StopLock`, `StopTest`, `StopClose`, `StopUnlock`, `StopDestroy`, `Exit` |
| killed | `Kill` |

`node_stop` reads and clears `active` under `peers_lock`, readers without it, so
its test and its close are two steps. `close` while the reader is in `recv` is
`Readable` becoming false. Until something is entered `main` stays in `scanf`:
`signal()` sets `SA_RESTART`, so Ctrl+C only sets the flag.

**Transport** is one connection that has just been made, with three threads at
each end: the one in `add_peer` (`RequestChain`, `Greet`), the reader of this
connection (`ReadMore`, `ReadLine`, `Enqueue`, `Relay`, and its answers), and
another that broadcasts (`Broadcast`). `Send` is one turn of `send_message`, or
what `send` does while it waits: it takes as many units as the other side's socket
has room for. A message is a few units with its kind and number, of which the last
carries the newline; `LineUnits` is `MAX_MSG_SIZE`. Both ends are registered when
it begins; a reader that relays finds room on the *other* connections.

**LongestChain** is the promise: nodes hold chains; a chain grows by mining, or
is traded for a longer chain that exists, or (restart) returns to genesis.
`LongestChainRule` in MiniCoin says that MiniCoin implements it, with
`view <- chain`.

The operators whose comment begins with "Mutant of" are not part of the models:
each is a plausible mistake in the operator below it, and replacing the operator
by it makes a run fail. They show that the properties are about the code.

## 3. The runs

A `.cfg` is run as `tlc -config X.cfg M`, where M is `MCMiniCoin` (core, catch_up,
sync, fork, relay_gap, late_answer), `MCSharedChain` (shared, shared_mixed),
`MCTransport` (transport, stuck), `MCProtocol` or `NodeProcess` (process).

Runs that pass:

| run | system | checks |
|---|---|---|
| core | 2 connected nodes, 4 blocks of up to 3 transactions, 2 payments of which one is affordable | `TypeOK`, `ChainsBuilt`, `TipHashUnique`, `TxAffordable`, `MoneySupply`, `IndInv`, `LongestChainRule` |
| catch_up | 2 nodes whose connection has broken, a new one, 3 mined blocks, one more break or a restart | `NeighboursCatchUp`, `LongestChainRule` |
| sync | 2 unconnected nodes, one a block ahead and paying, 2 blocks, under fairness | `SyncAfterRequest`, `MempoolShared` |
| shared | one node, 2 readers, its own branch and a received one, 4 blocks | `TypeOK`, `ChainIntact`, `CopyAlone`, `CheckedOnTop`, `AnswerNotSpliced`, `LengthGrows` |
| process | a process with 3 connections and 2 slots, started twice, 1 failure of the disk, under fairness | `TypeOK`, `AddressSurvives`, `DescriptorOwned`, `ServedOrClosed`, `LostClosed`, `QuitEnds` |
| transport | one connection, small in one direction, 3 broadcasts, lines shorter than a chain, under fairness | `TypeOK`, `BroadcastsApart`, `OnlyLongChainsLost`, `NobodyStuck` |
| protocol | a payer and a peer, 14 kinds of receivers, 2 payments, 4 blocks | `CopyGenuine`, `TxArrives`, `LineMeansMessage` |

What they show.

* *Chains.* However mining, relaying, late answers and failures interleave, a chain is
  never a splice of two (`ChainsBuilt`, `ChainIntact`); comparing one hash is
  comparing whole chains (`TipHashUnique`); although balances are checked early and
  without a lock, an added block pays only what its sender had, one payment at a time
  (`TxAffordable`, `CheckedOnTop`); two directly connected nodes on one branch end up
  equal, also when they have lost each other and connect again, as long as two things
  do not happen (`NeighboursCatchUp`, and what it excludes: see below); a request for
  a chain is effective (`SyncAfterRequest`); a payment reaches a peer whose connection
  comes up at any point of `do_send` (`MempoolShared`).
* *Descriptors.* Numbers are closed twice and used again, `active` is written without
  the lock, and still no thread reads from or closes a connection that is not its own
  (`DescriptorOwned`): node_stop's second close is harmless only because the accept
  thread and main, the only ones who make connections, no longer do by then. No
  connection is forgotten when the table is full (`ServedOrClosed`), a lost one is
  closed (`LostClosed`), and quitting ends the process, as Ctrl+C does after the
  command that is entered next (`QuitEnds`). The last two have a premise, because
  `send` has no time limit: that no thread hangs for ever in a send while it keeps
  `peers_lock` (`PeersTake`), for readers with a block to pass on and `node_stop` wait
  for it; `LostClosed` also that no reader hangs in handling a message
  (`MessagesDone`). A peer that stays connected and does not read breaks both; what
  the runs show is that nothing else keeps a lost peer's slot or the process.
* *Sending.* A text inside another one needs a sender without `peers_lock`: an answer,
  a request or a greeting (`BroadcastsApart`); when that does not happen, everything
  but a chain beyond `MAX_MSG_SIZE` is read as it was sent, also what follows such a
  chain (`OnlyLongChainsLost`). While one direction has room for all that may be sent
  in it, `peers_lock` and `mempool_lock` kept during a blocking `send` delay threads
  and stop none (`NobodyStuck`).
* *Text.* Whatever is typed as a receiver, a payment arrives whole (`TxArrives`). A
  block or chain with braces or brackets in a receiver may be cut wrongly; what is
  then accepted all the same agrees with the payer's chain in everything that the
  hashes cover (`CopyGenuine`), and no further (see below). Without braces and
  brackets every text is read as it was sent (`LineMeansMessage`), quotes and
  backslashes or not.
* *The wallet.* An address that was shown is there after every restart, unless the
  disk failed (`AddressSurvives`).

Runs that find a disagreement with the documentation (details, with the quoted
lines, in `PROJECT.json`, "findings"):

| run | property | what happens |
|---|---|---|
| fork | `LongestWins` | connected nodes on two branches of different length stay there: blocks of the other branch are dropped, nobody asks for the chain |
| relay_gap | `NoNeighbourLags`, 3 nodes | a block overtakes the one below it between chain and relay; the neighbour drops it and lags |
| late_answer | `NoNeighbourLags`, 2 nodes | a block is added and announced between the reading and the sending of an answer; the neighbour drops the block, the answer lacks it, and the neighbour lags |
| shared_mixed | `AnswerIsChain` | a response read during `chain_replace` gives a block the transaction data of another one and is accepted |
| stuck | `ChainsExchanged` | chains longer than the connection holds in both directions: both readers wait in `send_message`, neither reads |

`MempoolShared` is checked with one payment: a mempool that is full of duplicates
refuses other payments, and the program has 100 entries; the proof names that
premise (`RoomLeft`).

That no message is under way and a node is still behind its neighbour on the same branch
(`NoNeighbourLags`) does happen, in the two ways of the table, and with three nodes in
a third: a chain taken over from one peer is announced to no other. With two nodes only
`late_answer` is left, as long as nothing fails. `NeighboursCatchUp` therefore has
two premises. The first, `NothingOvertakes`: no announcement gets between the reading of
the chain for an answer and the sending of it. The second, `BothWork`, which the theorem
about `MempoolShared` has too: while two nodes hold two connections to each other, both
work. When one of the two is broken, its reader still handles what came before the
break, at the same time as the other connection's reader, and what was sent on one
connection loses its order with what is sent on the other. Then two nodes can stay
apart, until somebody mines or connects again:

* alice has answered bob, who is on another branch, with her chain of 3 blocks; the
  answer waits on the first connection. She mines a fourth block and announces it on
  both connections, and bob drops it, for it does not fit his branch. The first
  connection breaks. Its reader now handles the answer, bob has 3 blocks of alice's 4,
  and nothing else is on its way.
* alice is restarted and connects again. bob greets the new connection with his
  mempool before he has read a payment that still waits on the old one, takes it then,
  and does not pass it on.

Both need four blocks, or a payment besides two connections and a failure, and are
beyond the bounds of the runs here; they came out of checking the invariants of
section 4 with larger ones.

What the models also do, as the code does, and no run is about:

* Two payments of one wallet, affordable one at a time, are taken into the same block
  and overdraw the wallet: `MineCollect` compares each with the chain below alone, as
  src/main.c:197 does (docs/architecture.md:165 lists double spending as solved).
  `TxAffordable` is what is left.
* What `chain_replace` takes over from one peer is announced to no other (src/net.c:127),
  so that a node which joins two others with a longer chain brings only one of them
  forward (docs/algorithms.md:258 has the network agree in the end).
* A received block does not purge the mempool, so its payments are mined again
  (docs/deep-dive.md:251 has the mempool cleaned). `TxAffordable` holds for the
  second time as well: the sender pays twice if the coins are there.
* Mining empties the mempool, with the payments that did not fit into the block
  (docs/diagrams.md:316 has them included later), and they are gone too when the
  block is refused.
* Slots are never used again: a node takes part in 16 connections in its life,
  where docs/algorithms.md:306 says 16 at a time. `AddFull` is that case.
* Ctrl+C while `main` waits in `scanf` takes effect after the next command
  (docs/changelog.md:116, "Čisté ukončenie").
* Most blocks that pay a receiver with braces or brackets in its name reach no peer,
  and the chain with them cannot be taken over. Some are taken over wrongly: after
  payments to `{` and to `}}{{{` in one block, the text of the block ends within the
  next one's first transaction. The second payment is read with its own amount, fee
  and `tx_hash`, but the sender and receiver of that coinbase. `chain_replace` accepts
  it, because the block hash covers only the `tx_hash` of a transaction
  (src/block.c:24) and nobody computes that again. docs/algorithms.md:164 says that a
  transaction changed in an old block changes the block's hash. This is why
  `CopyGenuine` compares only what the hashes cover; `MCReceivers` has this name.
* Chains of more than `MAX_MSG_SIZE` (1 MiB) do not synchronize.

**Bounds.** *MiniCoin:* `Nodes`, `MaxConns` (connections made), `MaxFaults` (breaks
and restarts), `Payments`, `Times`, `Nonces`, and the capacities `MAX_BLOCKS`,
`MAX_TX_PER_BLOCK`, `MEMPOOL_SIZE`, which are real constants of the program made
small, so that their limits are reached. Two nodes and one connection show
every race between one node's threads and between the two ends; a third node is
needed only for what passes through a node (relay_gap; for any number
of nodes, `ChainsBuilt` and `LongestChainRule` are proved). Three blocks are genesis, a
fork and a longer branch, or a block that one node adds while the other has not got the
one below (catch_up, late_answer); with four (core), both branches can grow and a
received block can be built on. catch_up bounds besides (`FewBlocks`) who connects,
alice, how many blocks are mined by all, three, and that after a failure the chains stay
at two blocks. In sync there are two blocks, and no room for payments in them: a request
and its answer, and the payment on its way, are interleaved with everything else, and
the length of the chain matters less.
`Two64` is 256 in the runs, which no amount they add up reaches: wrapping is in the
model and in the proofs, and the runs do not exercise it; only the proof about
`MoneySupply` excludes it (`PaymentsFit`). `Times` is a single
value, so two blocks differ only in what is in them, the harder case for hashes.
`MCMeetsTarget` lets nonce 1 win odd blocks and nonce 0 even ones, so that a wrong
nonce is possible, and `block_mine` always succeeds; the program's search is over
2^64 nonces and is assumed to. The runs start from later states that users can
reach, in which no message is under way (`Resting` in MCMiniCoin), instead of spending
states on the way there: nodes connected (`PairSpec`, `LineSpec`), one a block ahead
and not connected (`AheadSpec`), and about to pool a payment (`PayingFairSpec`), or
after a connection has broken that only one end has noticed (`BrokenSpec`).

*NodeProcess:* `MAX_PEERS` 2 with `MaxConns` 3: the table fills up, a third
connection takes the number of one that was closed, and two readers race each other
and node_stop. Only the first process makes connections (`NoTable`), for the next
one starts with the same empty table; `MaxStarts` 2 and `MaxKeys` 2 let a second
process find each state of the file and make a key over it; `MaxDiskFaults` 1 lets
each operation on the file fail.

*Transport:* units stand for pieces of text. In `transport` the way to the dialer
holds 6 units, all that the listener may send (a request, two answers, a greeting
and a broadcast), the way to the listener 2,
less than a chain of 3; a line holds 2, so that the chain is cut; blocks have 2, so
that they can be cut in two. In `stuck` both ways are short. `MEMPOOL_SIZE` 1 lets
a greeting hold `mempool_lock` over a send.

*Protocol:* `MCReceivers` has each character that the parser looks at, alone,
doubled, and before and after the others; two payments put two of them into one
block or into two.

**Deadlock** is checked, except in process, where the process may have ended for
the last time, and in transport and stuck, where everything may have been sent.

**Fairness.** `FairSpec` of MiniCoin: an operation the user has started goes on
(weak fairness of `MainStep`), a reader takes its next message and the accept
thread its next connection (weak fairness), as the kernel schedules threads and
TCP delivers. A reader that waits for `mempool_lock`, and the accept thread when
it does, get the lock in the end (strong fairness of `RecvTx` and `AcceptGreet`):
between two uses of it the main thread sleeps for seconds in its animations and
waits for a user. Nothing is assumed of users, failures or restarts, and
nothing says that a connection stays up.

`FairSpec` of NodeProcess: main goes on where it does not wait for the user, the
accept thread and the readers where they do not wait for a peer (weak fairness);
a reader gets `peers_lock` in the end (strong fairness of `RelayLock`), because
whoever broadcasts repeatedly waits for a user or a peer in between. Nobody has to
enter or send anything, and a process need not be killed or started. Nor does a peer
have to read: there is no fairness of `SendTaken` and `HandleMessage`, and a send comes
back for certain only when its connection is gone (`SendFails`). That is why
`LostClosed` and `QuitEnds` state what they need of sends themselves.

`FairSpec` of Transport: some thread goes on as long as one can, not a particular
one, which is less than the scheduler gives; nobody has to broadcast. SharedChain
and Protocol state no liveness.

## 4. The proofs

**MiniCoinProofs** proves, for any sets of nodes, payments, times and nonces, and
any capacities and bounds:

| theorem | property |
|---|---|
| `InductiveInvariant` | `IndInv` |
| `TypeCorrect` | `TypeOK` |
| `ChainsAreBuilt` | `ChainsBuilt` |
| `TipHashesUnique` | `TipHashUnique` |
| `TxsAffordable` | `TxAffordable` |
| `Refinement` | `LongestChainRule` |

each as `NoHashCollision => (Spec => ...)`.

**Assumptions.** `NoHashCollision`: no two different transactions of the network
have one `tx_hash`. SHA-256 is idealized, but the string it is applied to is not,
and 1 coin with a fee of 11 and 11 coins with a fee of 1, between the same
wallets, do collide (src/tx.c:18); so it is an assumption on the payments that are
entered. The runs' instances satisfy it (`InstanceAssumption`). Besides it: the
assumptions on constants in Ledger and MiniCoin, which the instances satisfy too.

**The argument.** `ChainsBuilt` is not inductive. `RecvBlock` appends a received
block to the receiver's chain because one hash fits; that the result is a chain
which somebody mined needs that the hash identifies the whole chain below
(`TipHashUnique`), and this in turn needs that every chain grew from another one
block by block with the hashes computed as `block_compute_hash` does (`TreeInv`,
`GrownFrom`), and that nothing else is held or under way (`HeldInv`). For
`TxAffordable` the block under construction counts: `Standing` says that the
block of a miner who is collecting or mining stands on a chain of the tree, and
that, unless the miner's own chain has become longer than that one, it spends
only what that chain affords. A chain that has become longer never comes back
(only a restart does, and it ends the mining), so a block with stale checks is
refused by the index test of `chain_add_block`. `IndInv` is the
conjunction, checked by TLC in the run `core` and proved step by step, one lemma
for each action; the theorems follow. `Ind` in the proofs is `IndInv` with the
types of the nodes' variables as separate facts (`IndIsIndInv`: they are
equivalent). The refinement reuses the same invariant: `RecvBlock` and
`RecvChain` are `Adopt` only because their results are in `built`.

*The coins.* The last part of MiniCoinProofs proves `MoneyIsMined`, that is
`NoHashCollision /\ PaymentsFit => (Spec => []MoneySupply)`: in every chain that is
ever mined all the wallets together own `MINING_REWARD` for each block after genesis.
The strengthening `MoneyInv` is about the block under way: while a miner collects, the
payments taken so far take `total_fees` out of the balances and nothing else
(`FeesKept`), and `total_fees` is at most the largest fee for each of them, so that
it never wraps; once the coinbase is put in front, the block pays out exactly the
reward. A payment moves its amount between wallets and takes its fee away, whoever
the two are, also when they are the same; the coinbase gives reward and fees to the
miner. That the balances of all nodes are added up by a fold over a set, and
`chain_get_balance` by folds over sequences, makes this an induction over data, and
it is done as one over sets: see *Induction* below. `PaymentsFit` says that the cost
of a payment, and what a miner can earn with one block, are below 2^63; without it
amounts wrap and the property is false. `NodesAssumption`: there are finitely many
wallets to add up.

**SharedChainProofs** proves, for any number of readers, any capacity and any chains
that they may receive:

| theorem | property | assumes `NoHashCollision` |
|---|---|---|
| `TypeCorrect` | `TypeOK` | |
| `CopiesAlone` | `CopyAlone` | |
| `LengthNeverShrinks` | `LengthGrows` | |
| `ChainStaysIntact` | `ChainIntact` | yes |
| `BalancesReadOnTop` | `CheckedOnTop` | yes |
| `ResponseNotSpliced` | `AnswerNotSpliced` | yes |

`OfferAssumption` says that what is received is a tree of chains, as MiniCoin shows of
its nodes; `PriceAssumption` that amounts and fees are 64-bit numbers;
`ThreadAssumption` and `UnsetAssumption` that names are different from one another.

*`CopyAlone`* is nearly inductive. Two facts have to be added (`CopyInv`): the shapes
of the variables that `chain_replace` works with, main never being the thread that
copies; and that the chain being copied is longer than the one in the array until
the length is set (`Longer`), which holds because the comparison is made after the
lock was taken and nobody else can lengthen the chain meanwhile. One lemma per
kind of step; the rest of the readers' and miner's steps are elsewhere
(`Elsewhere`). `LengthGrows` follows from the same step lemmas.

*`ChainIntact`* says nothing while the lock is taken. `ChainInv` fills the gap: at any
moment each slot holds a block that stands in this place in some chain of the tree,
so that the mixture in the middle of a copy is described too, and `CopyAlone` says
that the last slot makes it one chain. A received block that fits behind the tip by
its hash gives a chain of the tree because the hash identifies all that is below it.

*`CheckedOnTop`* needs `MinerInv`: while the block under construction would still be
accepted (`OnTop`: its index fits and the lock is free), nothing has changed since the
snapshot, and the sum read so far is the balance of as many blocks of this very
chain. Whatever was read while a chain was being copied does not matter: the length
has grown when the lock is free again, and the block is refused by its index.

*`AnswerNotSpliced`*: what has been read of a response is, block for block, the hash and
link of a block that stood there in some chain (`FoundInv`). `chain_validate` follows
the links, and by the hashes each block brings the whole chain below it along, so the
chain of the last block is the witness (`LinkedHashes`).

**NodeProcessProofs** proves, for any number of connections, slots, keys, starts and
disk faults:

| theorem | property |
|---|---|
| `TypeCorrect` | `TypeOK` |
| `AddressesSurvive` | `AddressSurvives` |
| `DescriptorsOwned` | `DescriptorOwned` |
| `AllServedOrClosed` | `ServedOrClosed` |

For the address, the strengthening `WalletInv` says that, while the disk has not
failed, main is at the making or saving of a key only if no address was ever shown,
and that the key it is about to show is the one in the file. All that is not the start
of `main` is one lemma (`Later`).

For the descriptors, `TableInv`: until `node_stop` has closed the listening socket, a
slot that still answers for its descriptor has it *open* (`Owned`), so that its
number is not given out again; after that nobody makes connections any more
(`Phases`), and a number can only have become free. It needs that no two descriptors
and no two slots are one connection (`OwnersApart`, `SlotsApart`), that a thread adds
a connection which is in no slot yet (`Adding`), and that a reader makes its slot
inactive before it closes (`Given`); without the last one node_stop and the reader
would both close while numbers are still given out. `ServedOrClosed` is part of the
same induction. The assumptions are `TableAssumption`, `StartsAssumption`,
`NameAssumption` and `FileAssumption`: bounds are numbers, names are no numbers, an
absent or broken file is not a key.

**TransportProofs** proves, for any sizes of sockets, messages and lines
(`TransportAssumption`: none of them empty) and any number of broadcasts:

| theorem | property |
|---|---|
| `TransportInvariant` | `TransportInv`, the strengthening |
| `TypeCorrect` | `TypeOK` |
| `BroadcastsStayApart` | `BroadcastsApart` |
| `OnlyLongChainsAreLost` | `OnlyLongChainsLost` |

`TransportInv` relates the text in a socket, with the line being read, to what the
senders still have to send. What is sent under `peers_lock` belongs to the thread that
holds it (`OutInv`). Two neighbouring locked units are of one message, or the first one
ends its own, and when the text ends within a locked message the lock's holder is the
one who goes on (`LockedRuns`): this is what survives cutting, partial sends and
reading. As long as nobody has interrupted a message, the same is true of all units
(`WholeRuns`), the line holds one message from its beginning or the rest of a chain that
was cut, and what is lost is longer than a line (`RunsInv`).

**CatchUpProofs** proves of two nodes (`TwoNodes`), for any number of connections
between them, failures, payments, times and nonces, and any capacities:

| theorem | statement |
|---|---|
| `NeighboursLevel` | `NoHashCollision /\ TwoNodes => (Spec => NeighboursCatchUp)` |
| `NeighbourNeverLags` | `NoHashCollision /\ TwoNodes /\ MaxFaults = 0 => (Spec => ([]NothingOvertakes => []NoNeighbourLags))` |
| `PaymentsShared` | `NoHashCollision /\ TwoNodes => (Spec /\ []BothWork /\ []RoomLeft => MempoolShared)` |

`NoNeighbourLags` says something only when every message has been handled, so the
induction has to be about what is under way. `FlowInv` looks at each of the two
directions of each working connection, from a sender n to a receiver m.

* What m needs is on its way (`CatchesUp`): when m's chain is a part of n's, there is
  one connection on which every block that m lacks is in a message m has not read, or
  in the announcement n is about to make, or will be in the answer to a request that
  waits at n or that m will make when it accepts the connection (`Delivered`).
* This lasts only if m can use what it gets. A `NEW_BLOCK` is dropped unless it fits
  behind m's last block, so the blocks have to come in the order in which n's chain grew
  (`InOrder`, and `AnnouncedLast` for the one that n announces next), and none may be
  of a chain longer than n's (`Within`, `FromPeer`, `Had`).
* When m is on another branch it lacks everything, and yet an old answer of n's may
  bring it onto n's branch, far behind. `Followed` says that after each answer that
  m will take over comes all that n has added since.
* `Joined` and `Greeting` say where a connection stands between `connect`, `accept`
  and the greetings at both ends: that one which waits in the backlog has been asked
  for its chain is why a connection made at any moment is enough. `Sound` says that
  `chain_validate` refuses no chain of the network, so that an answer is refused only
  for its length.

`NothingOvertakes` enters with `OweInv`, which is about an answer that has been read and
not been sent. It is a part of its node's chain, which has only grown since (`Answers`),
and if it is news to the other node, then each block added since is still going to
be announced, or the other node's next request waits (`Owes`). An announcement
that goes out before the answer ends this, which is what the premise excludes. With
it, `SendAnswer` puts the answer in front of all the blocks that it lacks, and
`InOrder` and `Followed` hold of it as they do of an answer sent at once.

`BothWork` enters in one way: while a node still holds a broken connection, one that
works is waiting in its backlog (`ClosedReader`), so that whatever the reader of the
broken one still handles comes before the answer to a request on the new one. With
`MaxFaults = 0` nothing breaks and the premise always holds (`AllWork`), which is how
`NeighbourNeverLags` follows. `PoolInv` is the same for payments: each one that a node
holds is at the other, or comes there on every connection that works: because it is
about to be published, because the connection will still be greeted with the mempool,
or in a message. `RoomLeft` says that no mempool turns a payment away, each having
room or holding all payments. `FlowInv` was checked with TLC on 3.5 million states (4
blocks, 2 connections, a failure) and `PoolInv` on 4 million (2 connections, a
failure, a payment) before they were proved.

**ProtocolProofs** proves, for whatever a user may type, any number of payments, any
capacities, and any addresses, times and nonces:

| theorem | statement |
|---|---|
| `CopyIsGenuine` | `DigestsApart => (Spec => []CopyGenuine)` |
| `PaymentsArriveWhole` | `DigestsApart /\ TxDigestsApart => (Spec => TxArrives)` |

`DigestsApart`: no block hashes to the 64 zeros of genesis' `prev_hash`, nor to an empty
field. `TxDigestsApart`: no payment hashes to an empty field. `TypedAssumption`: what is
typed is a C string, so that it has no NUL in it, and it has no key in it, for a key has
bare quotes and typed ones are escaped (Protocol writes a key as one token).
`WalletAssumption`: the payer's own address is a word of hex digits.

*`CopyGenuine`.* The receivers may hold any braces and brackets, so the scans may cut
a payload, the blocks of a chain and the transactions of a block anywhere, and what is
parsed from the pieces is not what was serialized. The proof never says where they
cut. In a line, behind each key `hash` stands a hash of the payer's chain, and behind
`tx_count` a number (`Sane`); this holds of each serializer's text, and a piece cut
from such a line (`CutFrom`) yields, whatever is in it, a block with a hash of the
chain or with none (`FieldsOfCut`, `ParsedIs`). What passes `block_validate` then has
the hash of a block of the chain and agrees with it in all that the hash covers
(`HashesAlike`); for `chain_add_block` its index says which block it is
(`AcceptedBlock`), for `chain_replace`, which looks at no index, the links do, for no
hash occurs twice in the chain (`LinksOf`, `AcceptedChain`). `chain_validate` does not
look at the first block at all. That the first block is genesis has another reason: it
carries no typed text, its text comes before all typed text of the line, and up to its
hash it is a fixed sequence of 22 tokens, which is followed through the scans token by
token (`HeadWritten`, `HeadParsed`, `ChainRead`). The invariant `GenuineInv`, checked
with TLC on the instance of the run `protocol` before it was proved, says of every
state that the payer's chain is one that was mined (`Made`), the copy is block by
block alike to it (`Copied`), and the line is one that was serialized from it
(`Carries`).

*`TxArrives`* does need to know where the scans stop. What was escaped is spread out over
one or two tokens for each one typed (`Spread`), and every quote in it has a backslash
in front (`QuotesEscaped`). The scan for the end of the payload takes no notice of
such a quote, nor of braces while the number of the other quotes before them is odd;
three stand in front of the receiver, so that nothing typed ends the payload, even
where an escaped backslash at the end of a name hides the closing quote from the scan
(`PaymentCut`: at least everything that was written is in the payload). In it,
`json_get_string` stops at the first quote that is not escaped, which is the receiver's
closing one, and undoes the escaping (`ReadBack`); the other fields stand where they
were written (`PaymentRead`). `ArrivalInv` adds to `GenuineInv` that a payment under
way is one that `do_send` made.

**Induction.** The library's induction theorems take a predicate as a parameter, which
the provers used here cannot fill in. DataLemmas states induction over the naturals
for *sets* (`SetInduction`, from the well-foundedness of inclusion between finite sets),
which a proof can name: the set of those numbers for which the claim holds. From it
follow that the recursive functions behind `FoldLeft` and `MapThenSumSet` exist
(`FoldExists`, `SumsExist`), that a fold goes through its intermediate results
(`FoldRuns`), and that sums over a finite set differ by what their summands differ
(`SumsDiffer`, `SumOverGrows`). LedgerProofs applies this to `chain_get_balance`
(`TxsBalanceRun`, `GetBalanceRun`: a run of intermediate balances with one step per
transaction and block). ProtocolProofs has the same for functions that recur on
positions of a text, along any rank that falls (`RankInduction`, `RecursionExists`).

**Model-checked only.** Liveness, which is out of the prover's reach:
`SyncAfterRequest`, `LostClosed`, `QuitEnds`, `NobodyStuck`. And `LineMeansMessage` of
Protocol: that blocks and chains, too, are read back as they were written when no
receiver has a brace or a bracket, for which the depth of braces would have to be
followed through lists of any length.

## 5. Not modelled

Printing and animations (they only take time, and the models let any time pass between
two steps), `getaddrinfo` and failures of `socket`, `malloc` and `pthread_create`;
Ed25519 and PEM themselves; PING, which nothing sends, and PONG, its answer.
SharedChain leaves out `do_send` and assumes that a thread sees another's writes in
the order in which they were made, as on the platforms the Makefile builds for; and it
lets `chain_add_block`, which writes beyond the length, be one step. After `node_stop`
a reader may still be in `handle_message` while `main` destroys `chain.lock` and
returns; NodeProcess has the same with `peers_lock` (`StopDestroy`: a mutex that is in
use is not destroyed, one that was destroyed lets everybody through), and the process
is gone a moment later. `NodeInit` sets the callbacks in the same step as it starts
the accept thread: a payment that arrives in the instant between them is dropped.

## 6. Plan

1. *Done*: all modules of section 2 with their runs; the theorems of section 4,
   which state every invariant and step property that a run checks, except those
   listed there as model-checked only.
2. **Protocol**: that a block and a chain are read back as they were written
   (`LineMeansMessage`), from the lemmas about quotes with which ProtocolProofs shows
   it of a payment, and new ones about the depth of braces.
3. **SharedChain and MiniCoin**: that SharedChain, seen where the lock is free, makes
   the steps `Mine` and `Adopt` of LongestChain for one node.
