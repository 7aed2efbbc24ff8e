---------------------------- MODULE MCSharedChain ----------------------------
(***************************************************************************)
(* A small instance of SharedChain for TLC: the branch this node mines and *)
(* one that another node sends.                                            *)
(***************************************************************************)
EXTENDS SharedChain

CONSTANTS alice, bob      \* two nodes, as model values

\* Proof of work: an odd-numbered block is won by nonce 1, others by nonce 0.
MCMeetsTarget(h) == h.nonce = h.index % 2

Mined(c, miner) ==
    Append(c, BlockMine([index |-> Len(c), timestamp |-> Min(Times),
                         transactions |-> <<Coinbase(miner, 0)>>,
                         prev_hash |-> Last(c).hash, nonce |-> 0, hash |-> Unset]))

\* Another node's branch and its beginnings; this node, alice, mines one of her
\* own, and only on hers is the payment affordable.
ByBob == Mined(ChainInit, bob)
BobsBranch == {ByBob, Mined(ByBob, bob), Mined(Mined(ByBob, bob), bob)}
Payment == TxCreate(alice, bob, 30, 2)

ASSUME InstanceAssumption == NoHashCollision
=============================================================================
