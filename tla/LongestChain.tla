---------------------------- MODULE LongestChain ----------------------------
(***************************************************************************)
(* What a network of MiniCoin nodes promises about the chains its nodes    *)
(* show, without messages, locks or threads: chains are made by mining     *)
(* only, and a node trades its chain for another one only when that one is *)
(* longer ("the longest valid chain wins", chain_replace).                 *)
(***************************************************************************)
EXTENDS Integers, Sequences, SequencesExt

CONSTANTS Nodes, Start      \* Start: the chain that holds only genesis

VARIABLES built,            \* every chain made so far
          view              \* view[n]: the chain node n holds

vars == <<built, view>>

Init == /\ built = {Start}
        /\ view = [n \in Nodes |-> Start]

\* Node n mines a block on top of its own chain, whichever block that is.
Mine(n) ==
    /\ Len(view'[n]) = Len(view[n]) + 1
    /\ Front(view'[n]) = view[n]
    /\ view' = [view EXCEPT ![n] = view'[n]]
    /\ built' = built \cup {view'[n]}

\* Node n learns of a longer chain and takes it over as a whole.
Adopt(n) ==
    /\ \E c \in built : Len(c) > Len(view[n]) /\ view' = [view EXCEPT ![n] = c]
    /\ UNCHANGED built

\* Node n is started again; it keeps no blocks on disk.
Forget(n) ==
    /\ view' = [view EXCEPT ![n] = Start]
    /\ UNCHANGED built

Next == \E n \in Nodes : Mine(n) \/ Adopt(n) \/ Forget(n)

Spec == Init /\ [][Next]_vars
=============================================================================
