----------------------------- MODULE MCMiniCoin -----------------------------
(***************************************************************************)
(* Small instances of MiniCoin for TLC.                                    *)
(***************************************************************************)
EXTENDS MiniCoin

CONSTANTS alice, bob, carol     \* the nodes, as model values

\* Proof of work: an odd-numbered block is won by nonce 1, others by nonce 0.
MCMeetsTarget(h) == h.nonce = h.index % 2

Pay(amount, fee) == [sender |-> alice, receiver |-> bob, amount |-> amount, fee |-> fee]

NoPayments == {}
OnePayment == {Pay(30, 2)}
\* Each of the two can be paid from one mining reward, both cannot.
TwoPayments == {Pay(30, 2), Pay(30, 3)}

\* The proofs assume this of the payments; it holds of all the above.
ASSUME InstanceAssumption == NoHashCollision /\ PaymentsFit

-----------------------------------------------------------------------------
(* Later starting points.  A network in which users first mined and connected *)
(* nodes, and where all that followed from it is over, is in such a state.    *)

\* The first block that alice mines.
Reward ==
    BlockMine([index |-> 1, timestamp |-> Min(Times),
               transactions |-> <<Coinbase(alice, 0)>>,
               prev_hash |-> Genesis.hash, nonce |-> 0, hash |-> Unset])

\* Node n holds chains[n] and, in its peers, the connections held[n] of those
\* in links, which work if working is TRUE.  Every request for a chain has been
\* answered, no message is under way and no mempool holds anything.
Resting(chains, links, held, working) ==
    /\ chain = chains
    /\ mempool = [n \in Nodes |-> << >>]
    /\ new_block = [n \in Nodes |-> NoBlock]
    /\ total_fees = [n \in Nodes |-> 0]
    /\ conns = links
    /\ up = [c \in Conns |-> c <= Len(links) /\ working]
    /\ backlog = {}
    /\ peers = held
    /\ last_peer = [n \in Nodes |-> Max({0} \cup held[n])]
    /\ accepting = [n \in Nodes |-> 0]
    /\ inbox = [n \in Nodes |-> [c \in Conns |-> << >>]]
    /\ relay = [n \in Nodes |-> [c \in Conns |-> NoBlock]]
    /\ answer = [n \in Nodes |-> [c \in Conns |-> << >>]]
    /\ faults = 0
    /\ built = {ChainInit} \cup {chains[n] : n \in Nodes}

\* Everybody's main thread is at the menu.
AtMenu ==
    /\ pc = [n \in Nodes |-> "menu"]
    /\ tx = [n \in Nodes |-> NoTx]
    /\ sent = {}

Ends(links, n) == {c \in 1 .. Len(links) : n \in {links[c][1], links[c][2]}}
Settled(links, chains) ==
    Resting(chains, links, [n \in Nodes |-> Ends(links, n)], TRUE) /\ AtMenu

AllGenesis == [n \in Nodes |-> ChainInit]
RewardAt(ns) == [n \in Nodes |-> IF n \in ns THEN <<Genesis, Reward>> ELSE ChainInit]

\* alice -- bob
PairSpec == Settled(<<<<alice, bob>>>>, AllGenesis) /\ [][Next]_vars
\* alice -- bob -- carol
LineSpec == Settled(<<<<alice, bob>>, <<bob, carol>>>>, AllGenesis) /\ [][Next]_vars
\* alice and bob by themselves; alice has mined a block
AheadInit == Settled(<< >>, RewardAt({alice}))
AheadSpec == AheadInit /\ [][Next]_vars
\* alice and bob again; the payment that she has entered is about to be pooled.
PayingInit ==
    \E p \in Payments :
        /\ Resting(RewardAt({alice}), << >>, [n \in Nodes |-> {}], FALSE)
        /\ pc = [n \in Nodes |-> IF n = alice THEN "send" ELSE "menu"]
        /\ tx = [n \in Nodes |-> IF n = alice THEN TxCreate(p.sender, p.receiver, p.amount, p.fee)
                                            ELSE NoTx]
        /\ sent = {p}
PayingFairSpec == PayingInit /\ [][Next]_vars /\ Fairness
\* They were connected, and the connection broke, which only bob has noticed.
BrokenInit ==
    Resting(AllGenesis, <<<<alice, bob>>>>,
            [n \in Nodes |-> IF n = alice THEN {1} ELSE {}], FALSE) /\ AtMenu
BrokenSpec == BrokenInit /\ [][Next]_vars

\* Bounds: after the first connection, it is alice who connects; three blocks are
\* mined in all, or by each node one if there is a failure.
FewBlocks ==
    /\ \A i \in 2 .. Len(conns) : conns[i][1] = alice
    /\ Cardinality(built) <= 4
    /\ faults > 0 => \A c \in built : Len(c) <= 2
=============================================================================
