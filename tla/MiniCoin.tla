------------------------------ MODULE MiniCoin ------------------------------
(***************************************************************************)
(* A network of MiniCoin nodes.  Each node runs                            *)
(*   - a main thread, the menu of main.c, which mines (do_mine), pays      *)
(*     (do_send) and connects to other nodes (do_connect_peer);            *)
(*   - an accept thread (net.c, accept_thread);                            *)
(*   - one reading thread per connection (net.c, peer_handler).            *)
(* They share the chain, guarded by chain.lock, and the mempool, guarded   *)
(* by mempool_lock.  Nodes exchange messages over TCP connections: FIFO    *)
(* and reliable until the connection goes down.                            *)
(*                                                                         *)
(* Each action runs from one point where another thread can be noticed to  *)
(* the next.  Reading the chain to answer REQUEST_CHAIN, and reading one   *)
(* balance, is a step here; the program does both without chain.lock, and  *)
(* SharedChain.tla is about what happens when they overlap chain_replace.  *)
(***************************************************************************)
EXTENDS Ledger

CONSTANTS
    Payments,       \* what users may enter in do_send; each is entered once
    MEMPOOL_SIZE,   \* capacity of the mempool: 100
    MaxConns,       \* bound: connections made during a behaviour
    MaxFaults       \* bound: connections broken and processes restarted

ASSUME PaymentAssumption ==
    Payments \subseteq [sender : Nodes, receiver : Nodes,
                        amount : UInt64, fee : UInt64]
ASSUME NodesAssumption == IsFiniteSet(Nodes)
ASSUME BoundAssumption == /\ MEMPOOL_SIZE \in Nat
                          /\ MaxConns \in Nat
                          /\ MaxFaults \in Nat

VARIABLES
    chain,      \* chain[n]: node n's blocks[0 .. length-1]
    mempool,    \* mempool[n]: node n's pending transactions
    pc,         \* pc[n]: where node n's main thread is
    new_block,  \* new_block[n]: do_mine's local variable
    total_fees, \* total_fees[n]: do_mine's local variable
    tx,         \* tx[n]: do_send's local variable
    conns,      \* the connections made so far, as <<client, server>>
    up,         \* up[c]: connection c still carries data
    backlog,    \* the connections accept() has not returned yet
    peers,      \* peers[n]: the connections node n holds as active peers
    last_peer,  \* last_peer[n]: the connection in the last used slot of n's
                \*               table of peers, 0 when the table is empty
    accepting,  \* accepting[n]: the connection n's accept thread is adding, or 0
    inbox,      \* inbox[n][c]: bytes on c that n has not read, as messages
    relay,      \* relay[n][c]: the block the reader of c accepted and has
                \*              not yet passed on
    answer,     \* answer[n][c]: the chain the reader of c has read for an
                \*               answer and not yet sent, else << >>
    sent,       \* the payments entered so far
    faults,     \* how many connections broke and nodes were restarted
    built       \* history: every chain that mining has ever produced

nodeVars == <<chain, mempool>>
mainVars == <<pc, new_block, total_fees, tx>>
peerVars == <<conns, up, backlog, peers, last_peer, accepting>>
netVars  == <<peerVars, inbox, relay, answer>>
vars == <<nodeVars, mainVars, netVars, sent, faults, built>>

NoBlock == [index |-> 0, timestamp |-> 0, transactions |-> << >>,
            prev_hash |-> Unset, nonce |-> 0, hash |-> Unset]
NoTx == [sender |-> Unset, receiver |-> Unset, amount |-> 0, fee |-> 0,
         tx_hash |-> Unset]

Conns == 1 .. MaxConns
Made == 1 .. Len(conns)

\* The node at the other end of connection c.
Other(n, c) == IF conns[c][1] = n THEN conns[c][2] ELSE conns[c][1]

\* The wire messages; the constructors stand for protocol_serialize_msg.
NewBlock(b)      == [type |-> "NEW_BLOCK", block |-> b]
NewTx(t)         == [type |-> "NEW_TX", tx |-> t]
RequestChain     == [type |-> "REQUEST_CHAIN"]
ChainResponse(c) == [type |-> "CHAIN_RESPONSE", chain |-> c]

\* send_message by node n of msgs on each connection of cs: what is sent on a
\* connection that is down is lost, and no caller looks at the result.
Send(box, n, cs, msgs) ==
    [m \in Nodes |-> [c \in Conns |->
        IF c \in cs /\ up[c] /\ m = Other(n, c)
        THEN box[m][c] \o msgs ELSE box[m][c]]]

\* node_send_tx for every entry of the mempool, as on_peer_connected does.
MempoolMsgs(n) == [i \in 1 .. Len(mempool[n]) |-> NewTx(mempool[n][i])]

\* A transaction enters the mempool if there is room; otherwise it is lost.
Pool(mp, t) == IF Len(mp) < MEMPOOL_SIZE THEN Append(mp, t) ELSE mp

\* do_mine holds mempool_lock while it collects transactions.
MempoolFree(n) == pc[n] # "collect"

Init ==
    /\ chain = [n \in Nodes |-> ChainInit]
    /\ mempool = [n \in Nodes |-> << >>]
    /\ pc = [n \in Nodes |-> "menu"]
    /\ new_block = [n \in Nodes |-> NoBlock]
    /\ total_fees = [n \in Nodes |-> 0]
    /\ tx = [n \in Nodes |-> NoTx]
    /\ conns = << >>
    /\ up = [c \in Conns |-> FALSE]
    /\ backlog = {}
    /\ peers = [n \in Nodes |-> {}]
    /\ last_peer = [n \in Nodes |-> 0]
    /\ accepting = [n \in Nodes |-> 0]
    /\ inbox = [n \in Nodes |-> [c \in Conns |-> << >>]]
    /\ relay = [n \in Nodes |-> [c \in Conns |-> NoBlock]]
    /\ answer = [n \in Nodes |-> [c \in Conns |-> << >>]]
    /\ sent = {}
    /\ faults = 0
    /\ built = {ChainInit}

-----------------------------------------------------------------------------
(* The main thread: do_mine *)

\* The last block is read under chain.lock, which is then released.
MineSnapshot(n, t) ==
    /\ pc[n] = "menu"
    /\ new_block' = [new_block EXCEPT ![n] =
                        [index |-> Last(chain[n]).index + 1, timestamp |-> t,
                         transactions |-> << >>,
                         prev_hash |-> Last(chain[n]).hash,
                         nonce |-> 0, hash |-> Unset]]
    /\ total_fees' = [total_fees EXCEPT ![n] = 0]
    /\ pc' = [pc EXCEPT ![n] = "lock"]
    /\ UNCHANGED <<nodeVars, tx, netVars, sent, faults, built>>

\* mempool_lock is taken; the other threads never keep it across a step.
MineLock(n) ==
    /\ pc[n] = "lock"
    /\ pc' = [pc EXCEPT ![n] = "collect"]
    /\ UNCHANGED <<nodeVars, new_block, total_fees, tx, netVars, sent, faults, built>>

\* Slot 0 of the block is kept for the coinbase transaction.
RoomInBlock(n) == 1 + Len(new_block[n].transactions) < MAX_TX_PER_BLOCK

\* Mutant of MineCollect: the balance of the sender is not looked at.
MineCollectUnchecked(n) ==
    /\ pc[n] = "collect"
    /\ mempool[n] # << >>
    /\ RoomInBlock(n)
    /\ LET t == Head(mempool[n]) IN
         /\ new_block' = [new_block EXCEPT ![n].transactions = Append(@, t)]
         /\ total_fees' = [total_fees EXCEPT ![n] = (@ + t.fee) % Two64]
    /\ mempool' = [mempool EXCEPT ![n] = Tail(@)]
    /\ UNCHANGED <<chain, pc, tx, netVars, sent, faults, built>>

\* One turn of the loop: the balance is read from the chain of this moment,
\* without chain.lock.  The entry is done with either way.
MineCollect(n) ==
    /\ pc[n] = "collect"
    /\ mempool[n] # << >>
    /\ RoomInBlock(n)
    /\ LET t == Head(mempool[n]) IN
         IF CanAfford(chain[n], t)
         THEN /\ new_block' = [new_block EXCEPT ![n].transactions = Append(@, t)]
              /\ total_fees' = [total_fees EXCEPT ![n] = (@ + t.fee) % Two64]
         ELSE UNCHANGED <<new_block, total_fees>>
    /\ mempool' = [mempool EXCEPT ![n] = Tail(@)]
    /\ UNCHANGED <<chain, pc, tx, netVars, sent, faults, built>>

\* The loop is over: the mempool is emptied, the lock released and the
\* coinbase transaction put in front.
MineSeal(n) ==
    /\ pc[n] = "collect"
    /\ mempool[n] = << >> \/ ~ RoomInBlock(n)
    /\ mempool' = [mempool EXCEPT ![n] = << >>]
    /\ new_block' = [new_block EXCEPT ![n].transactions =
                        <<Coinbase(n, total_fees[n])>> \o @]
    /\ total_fees' = [total_fees EXCEPT ![n] = 0]
    /\ pc' = [pc EXCEPT ![n] = "mine"]
    /\ UNCHANGED <<chain, tx, netVars, sent, faults, built>>

\* Mutant of MineAdd: the block is put on the last block of this moment instead
\* of the one its payments were checked against.
MineAddRebased(n) ==
    /\ pc[n] = "mine"
    /\ LET b == BlockMine([new_block[n] EXCEPT
                              !.index = Last(chain[n]).index + 1,
                              !.prev_hash = Last(chain[n]).hash]) IN
         /\ AddBlockAccepts(chain[n], b)
         /\ chain' = [chain EXCEPT ![n] = Append(@, b)]
         /\ new_block' = [new_block EXCEPT ![n] = b]
         /\ pc' = [pc EXCEPT ![n] = "announce"]
         /\ built' = built \cup {chain'[n]}
    /\ UNCHANGED <<mempool, total_fees, tx, netVars, sent, faults>>

\* block_mine, then chain_add_block under chain.lock.  When the chain has
\* grown meanwhile the block is dropped, and its transactions with it.
MineAdd(n) ==
    /\ pc[n] = "mine"
    /\ WinningNonces(new_block[n]) # {}
    /\ LET b == BlockMine(new_block[n]) IN
         /\ chain' = [chain EXCEPT ![n] = AddBlock(@, b)]
         /\ IF AddBlockAccepts(chain[n], b)
            THEN /\ new_block' = [new_block EXCEPT ![n] = b]
                 /\ pc' = [pc EXCEPT ![n] = "announce"]
                 /\ built' = built \cup {chain'[n]}
            ELSE /\ new_block' = [new_block EXCEPT ![n] = NoBlock]
                 /\ pc' = [pc EXCEPT ![n] = "menu"]
                 /\ UNCHANGED built
    /\ UNCHANGED <<mempool, total_fees, tx, netVars, sent, faults>>

\* node_broadcast_block.
MineAnnounce(n) ==
    /\ pc[n] = "announce"
    /\ inbox' = Send(inbox, n, peers[n], <<NewBlock(new_block[n])>>)
    /\ new_block' = [new_block EXCEPT ![n] = NoBlock]
    /\ pc' = [pc EXCEPT ![n] = "menu"]
    /\ UNCHANGED <<nodeVars, total_fees, tx, peerVars, relay, answer, sent, faults, built>>

-----------------------------------------------------------------------------
(* The main thread: do_send *)

\* The fee and the balance are checked, without chain.lock, and the transaction
\* is made.  A payment that fails a test leaves no trace.
SendCheck(n, p) ==
    /\ pc[n] = "menu"
    /\ p.sender = n
    /\ p \notin sent
    /\ p.fee >= MIN_TX_FEE
    /\ LET t == TxCreate(n, p.receiver, p.amount, p.fee) IN
         /\ CanAfford(chain[n], t)
         /\ tx' = [tx EXCEPT ![n] = t]
    /\ sent' = sent \cup {p}
    /\ pc' = [pc EXCEPT ![n] = "send"]
    /\ UNCHANGED <<nodeVars, new_block, total_fees, netVars, faults, built>>

\* Seconds later it enters the mempool; the balance is not looked at again.
SendEnqueue(n) ==
    /\ pc[n] = "send"
    /\ mempool' = [mempool EXCEPT ![n] = Pool(@, tx[n])]
    /\ pc' = [pc EXCEPT ![n] = "publish"]
    /\ UNCHANGED <<chain, new_block, total_fees, tx, netVars, sent, faults, built>>

\* node_broadcast_tx.
SendPublish(n) ==
    /\ pc[n] = "publish"
    /\ inbox' = Send(inbox, n, peers[n], <<NewTx(tx[n])>>)
    /\ tx' = [tx EXCEPT ![n] = NoTx]
    /\ pc' = [pc EXCEPT ![n] = "menu"]
    /\ UNCHANGED <<nodeVars, new_block, total_fees, peerVars, relay, answer,
                   sent, faults, built>>

-----------------------------------------------------------------------------
(* Connections *)

\* The main thread of n connects to m (do_connect_peer, node_connect_peer).
\* add_peer makes the connection a peer and asks m for its chain; here in one step,
\* where in the program a reader can relay a block on the connection before the
\* request goes out.
Connect(n, m) ==
    /\ pc[n] = "menu"
    /\ n # m
    /\ Len(conns) < MaxConns
    /\ LET c == Len(conns) + 1 IN
         /\ conns' = Append(conns, <<n, m>>)
         /\ up' = [up EXCEPT ![c] = TRUE]
         /\ backlog' = backlog \cup {c}
         /\ peers' = [peers EXCEPT ![n] = @ \cup {c}]
         /\ last_peer' = [last_peer EXCEPT ![n] = c]
         /\ inbox' = [inbox EXCEPT ![m][c] = <<RequestChain>>]
    /\ pc' = [pc EXCEPT ![n] = "greet"]
    /\ UNCHANGED <<nodeVars, new_block, total_fees, tx, accepting, relay, answer,
                   sent, faults, built>>

\* The connection that the main thread of n made last.
OwnLatest(n) == Max({c \in Made : conns[c][1] = n})

\* on_peer_connected, the end of add_peer: the mempool is sent.
Greet(n) ==
    /\ pc[n] = "greet"
    /\ inbox' = Send(inbox, n, {OwnLatest(n)}, MempoolMsgs(n))
    /\ pc' = [pc EXCEPT ![n] = "request"]
    /\ UNCHANGED <<nodeVars, new_block, total_fees, tx, peerVars, relay, answer,
                   sent, faults, built>>

\* node_connect_peer asks for the chain once more.  It takes the last slot of
\* the table for its own, though the accept thread may have filled that one.
RequestAgain(n) ==
    /\ pc[n] = "request"
    /\ inbox' = Send(inbox, n, {last_peer[n]} \cap peers[n], <<RequestChain>>)
    /\ pc' = [pc EXCEPT ![n] = "menu"]
    /\ UNCHANGED <<nodeVars, new_block, total_fees, tx, peerVars, relay, answer,
                   sent, faults, built>>

\* Mutant of Accept: only the connecting side asks for the chain.
AcceptSilently(m, c) ==
    /\ c \in backlog
    /\ conns[c][2] = m
    /\ accepting[m] = 0
    /\ backlog' = backlog \ {c}
    /\ peers' = [peers EXCEPT ![m] = @ \cup {c}]
    /\ last_peer' = [last_peer EXCEPT ![m] = c]
    /\ accepting' = [accepting EXCEPT ![m] = c]
    /\ UNCHANGED <<nodeVars, mainVars, conns, up, inbox, relay, answer, sent, faults, built>>

\* The accept thread of m takes connection c (accept_thread); add_peer makes it
\* a peer and asks for the chain of the other side.  As in Connect, a broadcast can
\* in the program come between the two.
Accept(m, c) ==
    /\ c \in backlog
    /\ conns[c][2] = m
    /\ accepting[m] = 0
    /\ backlog' = backlog \ {c}
    /\ peers' = [peers EXCEPT ![m] = @ \cup {c}]
    /\ last_peer' = [last_peer EXCEPT ![m] = c]
    /\ accepting' = [accepting EXCEPT ![m] = c]
    /\ inbox' = Send(inbox, m, {c}, <<RequestChain>>)
    /\ UNCHANGED <<nodeVars, mainVars, conns, up, relay, answer, sent, faults, built>>

\* Mutant of AcceptGreet: the callback is not called.
AcceptGreetSilently(m) ==
    /\ accepting[m] # 0
    /\ MempoolFree(m)
    /\ accepting' = [accepting EXCEPT ![m] = 0]
    /\ UNCHANGED <<nodeVars, mainVars, conns, up, backlog, peers, last_peer, inbox,
                   relay, answer, sent, faults, built>>

\* on_peer_connected in the accept thread, which may have to wait for the lock.
AcceptGreet(m) ==
    /\ accepting[m] # 0
    /\ MempoolFree(m)
    /\ inbox' = Send(inbox, m, {accepting[m]}, MempoolMsgs(m))
    /\ accepting' = [accepting EXCEPT ![m] = 0]
    /\ UNCHANGED <<nodeVars, mainVars, conns, up, backlog, peers, last_peer, relay, answer,
                   sent, faults, built>>

\* Connection c breaks: a tunnel or a network failure.
LinkDown(c) ==
    /\ c \in Made
    /\ up[c]
    /\ faults < MaxFaults
    /\ faults' = faults + 1
    /\ up' = [up EXCEPT ![c] = FALSE]
    /\ UNCHANGED <<nodeVars, mainVars, conns, backlog, peers, last_peer, accepting,
                   inbox, relay, answer, sent, built>>

-----------------------------------------------------------------------------
(* The reading threads: peer_handler and handle_message *)

\* The reader of c at n is between two messages and the next one is of type ty.
Reading(n, c, ty) ==
    /\ c \in peers[n]
    /\ relay[n][c] = NoBlock /\ answer[n][c] = << >>
    /\ inbox[n][c] # << >>
    /\ Head(inbox[n][c]).type = ty

Consumed(n, c) == [inbox EXCEPT ![n][c] = Tail(@)]

\* NEW_BLOCK: chain_add_block; an accepted block is to be passed on.
RecvBlock(n, c) ==
    /\ Reading(n, c, "NEW_BLOCK")
    /\ LET b == Head(inbox[n][c]).block IN
         /\ chain' = [chain EXCEPT ![n] = AddBlock(@, b)]
         /\ relay' = IF AddBlockAccepts(chain[n], b)
                     THEN [relay EXCEPT ![n][c] = b] ELSE relay
    /\ inbox' = Consumed(n, c)
    /\ UNCHANGED <<mempool, mainVars, peerVars, answer, sent, faults, built>>

\* broadcast_block_except(peer_fd), the rest of the NEW_BLOCK case.
RelayBlock(n, c) ==
    /\ relay[n][c] # NoBlock
    /\ inbox' = Send(inbox, n, peers[n] \ {c}, <<NewBlock(relay[n][c])>>)
    /\ relay' = [relay EXCEPT ![n][c] = NoBlock]
    /\ UNCHANGED <<nodeVars, mainVars, peerVars, answer, sent, faults, built>>

\* NEW_TX: on_new_tx.  The transaction is pooled, whether or not it is there
\* already, and not passed on.
RecvTx(n, c) ==
    /\ Reading(n, c, "NEW_TX")
    /\ MempoolFree(n)
    /\ mempool' = [mempool EXCEPT ![n] = Pool(@, Head(inbox[n][c]).tx)]
    /\ inbox' = Consumed(n, c)
    /\ UNCHANGED <<chain, mainVars, peerVars, relay, answer, sent, faults, built>>

\* REQUEST_CHAIN: the whole chain is read (protocol_serialize_chain).
RecvRequest(n, c) ==
    /\ Reading(n, c, "REQUEST_CHAIN")
    /\ inbox' = Consumed(n, c)
    /\ answer' = [answer EXCEPT ![n][c] = chain[n]]
    /\ UNCHANGED <<nodeVars, mainVars, peerVars, relay, sent, faults, built>>

\* Then it is sent.  No lock is held in between, so the answer may be older by
\* now than what other threads have sent on the connection.
SendAnswer(n, c) ==
    /\ answer[n][c] # << >>
    /\ inbox' = Send(inbox, n, {c}, <<ChainResponse(answer[n][c])>>)
    /\ answer' = [answer EXCEPT ![n][c] = << >>]
    /\ UNCHANGED <<nodeVars, mainVars, peerVars, relay, sent, faults, built>>

\* CHAIN_RESPONSE: chain_replace; nothing is passed on.
RecvChain(n, c) ==
    /\ Reading(n, c, "CHAIN_RESPONSE")
    /\ chain' = [chain EXCEPT ![n] = ChainReplace(@, Head(inbox[n][c]).chain)]
    /\ inbox' = Consumed(n, c)
    /\ UNCHANGED <<mempool, mainVars, peerVars, relay, answer, sent, faults, built>>

\* read_message fails: the peer becomes inactive.  A connection that was
\* reset loses what had not been read.
PeerLost(n, c) ==
    /\ c \in peers[n]
    /\ ~ up[c]
    /\ relay[n][c] = NoBlock /\ answer[n][c] = << >>
    /\ peers' = [peers EXCEPT ![n] = @ \ {c}]
    /\ inbox' = [inbox EXCEPT ![n][c] = << >>]
    /\ UNCHANGED <<nodeVars, mainVars, conns, up, backlog, last_peer, accepting,
                   relay, answer, sent, faults, built>>

-----------------------------------------------------------------------------
(* The process of node n ends, at any point, and is started again: main    *)
(* loads the wallet from its file, so the address is kept, and calls       *)
(* chain_init; nothing else survives.                                      *)

Restart(n) ==
    /\ faults < MaxFaults
    /\ faults' = faults + 1
    /\ chain' = [chain EXCEPT ![n] = ChainInit]
    /\ mempool' = [mempool EXCEPT ![n] = << >>]
    /\ pc' = [pc EXCEPT ![n] = "menu"]
    /\ new_block' = [new_block EXCEPT ![n] = NoBlock]
    /\ total_fees' = [total_fees EXCEPT ![n] = 0]
    /\ tx' = [tx EXCEPT ![n] = NoTx]
    /\ up' = [c \in Conns |-> up[c] /\ n \notin {conns[c][1], conns[c][2]}]
    /\ backlog' = {c \in backlog : conns[c][2] # n}
    /\ peers' = [peers EXCEPT ![n] = {}]
    /\ last_peer' = [last_peer EXCEPT ![n] = 0]
    /\ accepting' = [accepting EXCEPT ![n] = 0]
    /\ inbox' = [inbox EXCEPT ![n] = [c \in Conns |-> << >>]]
    /\ relay' = [relay EXCEPT ![n] = [c \in Conns |-> NoBlock]]
    /\ answer' = [answer EXCEPT ![n] = [c \in Conns |-> << >>]]
    /\ UNCHANGED <<conns, sent, built>>

-----------------------------------------------------------------------------
MainStep(n) ==
    \/ MineLock(n) \/ MineCollect(n) \/ MineSeal(n) \/ MineAdd(n) \/ MineAnnounce(n)
    \/ SendEnqueue(n) \/ SendPublish(n)
    \/ Greet(n) \/ RequestAgain(n)

HandlerStep(n, c) ==
    \/ RecvBlock(n, c) \/ RelayBlock(n, c) \/ RecvTx(n, c)
    \/ RecvRequest(n, c) \/ SendAnswer(n, c) \/ RecvChain(n, c) \/ PeerLost(n, c)

\* What the user of node n asks for.
UserStep(n) ==
    \/ \E t \in Times : MineSnapshot(n, t)
    \/ \E p \in Payments : SendCheck(n, p)
    \/ \E m \in Nodes : Connect(n, m)

Next ==
    \/ \E n \in Nodes : UserStep(n) \/ MainStep(n) \/ AcceptGreet(n) \/ Restart(n)
    \/ \E n \in Nodes, c \in Conns : HandlerStep(n, c) \/ Accept(n, c)
    \/ \E c \in Conns : LinkDown(c)

\* The threads are scheduled: an operation the user has started runs on, a
\* reader takes the next message and the accept thread the next connection.
\* The main thread sleeps for seconds between two uses of mempool_lock, so a
\* thread that waits for the lock again and again gets it.  Nothing makes
\* users, failures or restarts happen.
Fairness ==
    /\ \A n \in Nodes : WF_vars(MainStep(n)) /\ SF_vars(AcceptGreet(n))
    /\ \A n \in Nodes, c \in Conns : /\ WF_vars(HandlerStep(n, c))
                                     /\ SF_vars(RecvTx(n, c))
                                     /\ WF_vars(Accept(n, c))

Spec == Init /\ [][Next]_vars
FairSpec == Spec /\ Fairness
-----------------------------------------------------------------------------
(* Types *)

UserTxs == {TxCreate(p.sender, p.receiver, p.amount, p.fee) : p \in Payments}
CoinbaseTxs == {TxCreate(COINBASE_ADDR, n, a, 0) : n \in Nodes, a \in UInt64}
KnownTxs == UserTxs \cup CoinbaseTxs

IsBlock(b) ==
    /\ b = [index |-> b.index, timestamp |-> b.timestamp,
            transactions |-> b.transactions, prev_hash |-> b.prev_hash,
            nonce |-> b.nonce, hash |-> b.hash]
    /\ b.index \in Nat
    /\ b.transactions \in Seq(KnownTxs)

IsChain(c) ==
    /\ c \in Seq(Range(c))
    /\ Len(c) \in 1 .. MAX_BLOCKS
    /\ \A i \in 1 .. Len(c) : IsBlock(c[i])

IsMessage(msg) ==
    \/ msg.type = "NEW_BLOCK" /\ IsBlock(msg.block)
    \/ msg.type = "NEW_TX" /\ msg.tx \in UserTxs
    \/ msg.type = "REQUEST_CHAIN"
    \/ msg.type = "CHAIN_RESPONSE" /\ IsChain(msg.chain)

MainPoints == {"menu", "lock", "collect", "mine", "announce", "send", "publish",
               "greet", "request"}

\* The variables of every node hold values of the C types they stand for, and
\* no array of the program is overrun: chain->blocks, block->transactions and
\* mempool[] stay within their capacity.
TypeOK ==
    /\ DOMAIN chain = Nodes /\ \A n \in Nodes : IsChain(chain[n])
    /\ mempool \in [Nodes -> Seq(UserTxs)]
    /\ \A n \in Nodes : Len(mempool[n]) <= MEMPOOL_SIZE
    /\ pc \in [Nodes -> MainPoints]
    /\ DOMAIN new_block = Nodes
    /\ \A n \in Nodes : /\ IsBlock(new_block[n])
                        /\ Len(new_block[n].transactions) <= MAX_TX_PER_BLOCK
    /\ total_fees \in [Nodes -> UInt64]
    /\ tx \in [Nodes -> UserTxs \cup {NoTx}]
    /\ conns \in Seq(Nodes \X Nodes) /\ Len(conns) <= MaxConns
    /\ up \in [Conns -> BOOLEAN]
    /\ backlog \subseteq Made
    /\ peers \in [Nodes -> SUBSET Made]
    /\ last_peer \in [Nodes -> 0 .. MaxConns]
    /\ accepting \in [Nodes -> 0 .. MaxConns]
    /\ \A n \in Nodes, c \in Conns :
         /\ IsBlock(relay[n][c])
         /\ answer[n][c] = << >> \/ IsChain(answer[n][c])
         /\ \A i \in 1 .. Len(inbox[n][c]) : IsMessage(inbox[n][c][i])
    /\ sent \subseteq Payments
    /\ faults \in 0 .. MaxFaults

-----------------------------------------------------------------------------
(* Safety *)

Messages == UNION {Range(inbox[n][c]) : n \in Nodes, c \in Conns}

\* Whatever the interleaving of mining, received blocks, late chain responses
\* and restarts, the chain a node holds, or sends to a peer, is one that some
\* miner produced block by block from genesis: chain_add_block and
\* chain_replace never splice blocks of different chains together.
ChainsBuilt ==
    /\ \A n \in Nodes : chain[n] \in built
    /\ \A n \in Nodes, c \in Conns : answer[n][c] = << >> \/ answer[n][c] \in built
    /\ \A msg \in Messages : msg.type = "CHAIN_RESPONSE" => msg.chain \in built

\* The hash of its last block identifies a whole chain, with all its
\* transactions: two nodes whose last blocks have the same hash agree on every
\* balance.  It is why chain_add_block may compare a single hash.
TipHashUnique ==
    \A c, d \in built : Last(c).hash = Last(d).hash => c = d

\* do_mine checks balances without chain.lock, and the chain may be extended
\* or replaced between two of these checks and before the block is added.
\* Still every payment in a block that was added was affordable, by itself, on
\* the chain just below that block: the stale checks are never the ones used.
TxAffordable ==
    \A c \in built : \A i \in 2 .. Len(Last(c).transactions) :
        CanAfford(Front(c), Last(c).transactions[i])

\* Fees move from payers to the miner and nothing else is created: on every
\* chain the balances of all wallets add up to the rewards of its blocks.
MoneySupply ==
    \A c \in built :
        MapThenSumSet(LAMBDA n : GetBalance(c, n), Nodes)
            = MINING_REWARD * (Len(c) - 1)

\* No thread has anything to do and no message is under way.
Quiet ==
    /\ \A n \in Nodes : /\ pc[n] = "menu" /\ accepting[n] = 0
                        /\ \A c \in Conns : /\ relay[n][c] = NoBlock
                                            /\ answer[n][c] = << >>
                                            /\ inbox[n][c] = << >>
                                            /\ c \in peers[n] => up[c]
    /\ backlog = {}

\* Two nodes joined by a connection that works.
Linked(n, m) == \E c \in Made : up[c] /\ {conns[c][1], conns[c][2]} = {n, m}

\* Once every message has been handled, two connected nodes that are on the
\* same branch have the same chain: neither waits for a block that was sent.
NoNeighbourLags ==
    Quiet => \A n, m \in Nodes :
        Linked(n, m) /\ IsPrefix(chain[m], chain[n]) => chain[m] = chain[n]

\* While a node holds two connections to the same node, both of them work.
BothWork ==
    \A n \in Nodes : \A c, d \in peers[n] :
        c # d /\ Other(n, c) = Other(n, d) => up[c] /\ up[d]

\* No block that was announced on a connection is newer than a chain that was
\* read for an answer before, and is sent after it.
NothingOvertakes ==
    \A n \in Nodes, c \in Made : answer[n][c] # << >> =>
        \A msg \in Range(inbox[Other(n, c)][c]) :
            msg.type = "NEW_BLOCK" => msg.block.index < Len(answer[n][c])

\* No do_mine is at work on the mempool.
NobodyMines == \A n \in Nodes : pc[n] # "lock"

\* Once every message has been handled, connected nodes hold the same payments.
MempoolsAgree ==
    Quiet => \A n, m \in Nodes :
        Linked(n, m) => Range(mempool[n]) = Range(mempool[m])

\* The longest chain wins: once every message has been handled, two connected
\* nodes hold chains of the same length.
LongestWins ==
    Quiet => \A n, m \in Nodes : Linked(n, m) => Len(chain[m]) = Len(chain[n])

-----------------------------------------------------------------------------
(* Liveness, and what holds until something happens *)

\* A node that has asked a peer for its chain catches up with what the peer
\* had when the request was under way, or the connection goes down: in every
\* order of the messages around the request, whatever is mined meanwhile and
\* however the mempool lock is contended for.
SyncAfterRequest ==
    \A n \in Nodes, c \in Conns, k \in 2 .. MAX_BLOCKS :
        (/\ c \in peers[n] /\ up[c]
         /\ RequestChain \in Range(inbox[Other(n, c)][c])
         /\ Len(chain[Other(n, c)]) >= k)
            ~> (Len(chain[n]) >= k \/ ~ up[c])

\* However often connections break and processes restart, two nodes that are
\* connected again catch up with each other, as long as two things do not
\* happen.  A connection is broken while another one joins the same nodes: then
\* messages of the broken one, which its reader has taken but not handled yet,
\* are handled among those of the other, and node_broadcast_block, which counts
\* on the order of one connection, can leave a node behind.  And an answer, read
\* by handle_message before a block was added, is sent after the announcement of
\* that block: the announcement was dropped, and the answer is too short.
NeighboursCatchUp == [](BothWork /\ NothingOvertakes) => []NoNeighbourLags

\* As long as nobody mines, and so empties a mempool, two connected nodes end up
\* with the same transactions in their mempools, whichever of checking, pooling
\* and publishing a payment the connection fell between.
MempoolShared == []NobodyMines => []MempoolsAgree

-----------------------------------------------------------------------------
(* Refinement *)

LC == INSTANCE LongestChain WITH Start <- ChainInit, view <- chain

\* Threads, locks, messages and failures together implement the longest chain
\* rule: a step changes at most one node's chain, to a longer one that exists
\* already, to its own extension by a mined block, or, when the process is
\* started again, back to genesis.
LongestChainRule == LC!Spec

-----------------------------------------------------------------------------
(* The inductive invariant behind ChainsBuilt, TipHashUnique and TxAffordable *)

\* No two different transactions of this network have the same tx_hash.  The
\* hash covers the digits of amount and fee with no separator, so this is an
\* assumption about the payments that are entered: 1 with fee 11 and 11 with
\* fee 1, between the same wallets, would collide.
NoHashCollision ==
    \A t, u \in KnownTxs : t.tx_hash = u.tx_hash => t = u

\* The payments entered are small enough for the arithmetic of the program: the
\* cost of one, and what a miner can earn with a block, are below 2^63.
PaymentsFit ==
    /\ \A p \in Payments : p.amount + p.fee < Two64 \div 2
    /\ \E most \in UInt64 : /\ \A p \in Payments : p.fee <= most
                            /\ MINING_REWARD + most * MAX_TX_PER_BLOCK < Two64 \div 2

\* Blocks that mining has added somewhere, and the messages that may travel.
Tips == {Last(c) : c \in built \ {ChainInit}}
Wire == {NewBlock(b) : b \in Tips} \cup {NewTx(t) : t \in UserTxs}
            \cup {RequestChain} \cup {ChainResponse(c) : c \in built}

\* c is p and one more block, which is linked to the end of p, carries its own
\* hash and spends only what p provides.
GrownFrom(p, c) ==
    /\ c = Append(p, Last(c))
    /\ Last(c).index = Len(p)
    /\ Last(c).prev_hash = Last(p).hash
    /\ Last(c).hash = BlockHash(Last(c))
    /\ \A i \in 2 .. Len(Last(c).transactions) : CanAfford(p, Last(c).transactions[i])

\* The chains made so far form a tree that grows from genesis.
TreeInv ==
    /\ ChainInit \in built
    /\ \A c \in built : IsChain(c) /\ Last(c).index = Len(c) - 1
    /\ \A c \in built : c = ChainInit \/ \E p \in built : GrownFrom(p, c)

\* What the nodes hold and send comes from that tree.
HeldInv ==
    /\ chain \in [Nodes -> built]
    /\ inbox \in [Nodes -> [Conns -> Seq(Wire)]]
    /\ relay \in [Nodes -> [Conns -> Tips \cup {NoBlock}]]
    /\ answer \in [Nodes -> [Conns -> built \cup {<< >>}]]
    /\ \A n \in Nodes : /\ pc[n] = "announce" => new_block[n] \in Tips
                        /\ pc[n] \in {"send", "publish"} => tx[n] \in UserTxs

\* The block a miner is making stands on a chain the miner had at the snapshot.
\* Until the miner's chain moves on, and then it is longer, the payments in it
\* are affordable on that chain.
Standing(n) ==
    /\ pc[n] # "mine" => 1 + Len(new_block[n].transactions) <= MAX_TX_PER_BLOCK
    /\ \E c \in built :
         /\ new_block[n].index = Len(c)
         /\ new_block[n].prev_hash = Last(c).hash
         /\ chain[n] = c \/ Len(chain[n]) > Len(c)
         /\ chain[n] = c =>
              \A i \in (IF pc[n] = "mine" THEN 2 ELSE 1)
                         .. Len(new_block[n].transactions) :
                  CanAfford(c, new_block[n].transactions[i])

MinerInv == \A n \in Nodes : pc[n] \in {"lock", "collect", "mine"} => Standing(n)

\* Mining, receiving and answering keep the tree sound and the nodes on it.
IndInv == TypeOK /\ TreeInv /\ TipHashUnique /\ HeldInv /\ MinerInv
=============================================================================
