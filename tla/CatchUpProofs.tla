--------------------------- MODULE CatchUpProofs ---------------------------
(***************************************************************************)
(* Proof that two connected nodes catch up with each other (main.c and     *)
(* net.c together): NeighboursCatchUp of MiniCoin.tla.                     *)
(*                                                                         *)
(* The invariant, FlowInv, is about what is under way on each connection.  *)
(* What one node, n, sends to the other, m, is no longer than the chain of *)
(* n, comes in the order in which that chain grew, and an answer that m    *)
(* takes over is followed by the blocks that n has added since.  And when  *)
(* the chain of m is a part of that of n, every block that m lacks is on   *)
(* its way on one connection: in a message m has not read yet, in an       *)
(* announcement n is about to make, in an answer n has read and not yet    *)
(* sent, or in the answer to a request that waits at n or that m will make *)
(* when it accepts the connection.                                         *)
(*                                                                         *)
(* OweInv is about the answers in between.  When one is news to m, what n  *)
(* has added since it read its chain is still to be announced, or asked    *)
(* for: that is where an announcement that overtakes the answer does harm. *)
(*                                                                         *)
(* The lemmas say how that flow changes when messages are sent, when one   *)
(* is read, and when a chain grows; then comes one lemma per action.       *)
(*                                                                         *)
(* PoolInv says the same of payments (MempoolShared): what one node holds  *)
(* the other holds too, or gets on every connection that works.            *)
(***************************************************************************)
EXTENDS MiniCoinProofs

-----------------------------------------------------------------------------
(* Two nodes catch up with each other: the invariant *)

\* The network of NeighboursCatchUp.
TwoNodes == \E a, b : a # b /\ Nodes = {a, b}

\* The connections that carry data.
Working == {c \in Made : up[c]}

\* How long the chain of the sender was, at least, when it sent msg.
Height(msg) ==
    CASE msg.type = "NEW_BLOCK" -> msg.block.index + 1
      [] msg.type = "CHAIN_RESPONSE" -> Len(msg.chain)
      [] OTHER -> 0

\* msg brings b, the block with k blocks below it.
Carries(msg, k, b) ==
    \/ msg.type = "NEW_BLOCK" /\ msg.block = b
    \/ msg.type = "CHAIN_RESPONSE" /\ Len(msg.chain) > k

\* n will be asked for its chain on c, or has been.
Asked(n, c) ==
    \/ RequestChain \in Range(inbox[n][c])
    \/ c \in backlog /\ conns[c][1] = n

\* n is about to announce b on c.
Announcing(n, c, b) == pc[n] = "announce" /\ new_block[n] = b /\ c \in peers[n]

\* n is about to send an answer on c that has a block k.
Answering(n, c, k) == Len(answer[n][c]) > k

\* n will still send its block k on c, or the messages on c after the first i
\* that m has not read bring it.
ToBeSent(n, c, k) ==
    Asked(n, c) \/ Announcing(n, c, chain[n][k + 1]) \/ Answering(n, c, k)

InTransit(n, m, c, i, k) ==
    \E j \in i + 1 .. Len(inbox[m][c]) : Carries(inbox[m][c][j], k, chain[n][k + 1])

Delivered(n, m, c, i, k) == ToBeSent(n, c, k) \/ InTransit(n, m, c, i, k)

\* So with the rest of n's chain, from block l on.
RestDelivered(n, m, c, i, l) ==
    \A k \in l .. Len(chain[n]) - 1 : Delivered(n, m, c, i, k)

\* Nothing on c reaches beyond n's chain.
Within(n, m, c) ==
    \A i \in 1 .. Len(inbox[m][c]) : Height(inbox[m][c][i]) <= Len(chain[n])

\* What could be news to m comes in the order in which n's chain grew.
InOrder(n, m, c) ==
    \A i, j \in 1 .. Len(inbox[m][c]) :
        /\ i < j
        /\ inbox[m][c][i].type = "NEW_BLOCK"
        /\ Height(inbox[m][c][j]) > Len(chain[m])
        => Height(inbox[m][c][i]) <= Height(inbox[m][c][j])

\* After an answer that m will take over comes the rest of the chain.
Followed(n, m, c) ==
    \A i \in 1 .. Len(inbox[m][c]) :
        /\ inbox[m][c][i].type = "CHAIN_RESPONSE"
        /\ Len(inbox[m][c][i].chain) > Len(chain[m])
        /\ IsPrefix(inbox[m][c][i].chain, chain[n])
        => RestDelivered(n, m, c, i, Len(inbox[m][c][i].chain))

\* What m passes on, n had.
FromPeer(n, m, c) == relay[m][c] # NoBlock => relay[m][c].index < Len(chain[n])

\* A block that n is about to announce, and that is news to m, comes last.
AnnouncedLast(n, m, c) ==
    pc[n] = "announce" /\ new_block[n].index >= Len(chain[m]) =>
        \A i \in 1 .. Len(inbox[m][c]) :
            inbox[m][c][i].type = "NEW_BLOCK" =>
                inbox[m][c][i].block.index <= new_block[n].index

\* What n sends m on c.
Flow(n, m, c) ==
    /\ Within(n, m, c) /\ InOrder(n, m, c) /\ Followed(n, m, c)
    /\ FromPeer(n, m, c) /\ AnnouncedLast(n, m, c)

\* When m is behind n on the same branch, the rest is on its way.
CatchesUp(n, m) ==
    Working # {} /\ IsPrefix(chain[m], chain[n]) =>
        \E c \in Working : RestDelivered(n, m, c, 0, Len(chain[m]))

Way(n, m) == (\A c \in Working : Flow(n, m, c)) /\ CatchesUp(n, m)

\* Connections join both nodes.  One that works is held at both ends, or waits
\* in the backlog of its server, which has been asked for its chain.
Joined ==
    /\ \A c \in Made : conns[c][1] # conns[c][2]
    /\ \A c \in Conns \ Made : ~ up[c] /\ \A n \in Nodes : inbox[n][c] = << >>
    /\ \A c \in Working :
         /\ c \in peers[conns[c][1]]
         /\ c \notin backlog => c \in peers[conns[c][2]]
         /\ c \in backlog => /\ c \notin peers[conns[c][2]]
                             /\ RequestChain \in Range(inbox[conns[c][2]][c])
                             /\ inbox[conns[c][1]][c] = << >>

\* A connection that is being greeted is past the backlog, or the node's own.
Greeting ==
    \A n \in Nodes :
        /\ accepting[n] \in {0} \cup (Made \ backlog)
        /\ pc[n] = "greet" => \E c \in Made : conns[c][1] = n

\* What a node announces or passes on is in its chain, or was.
Had ==
    /\ \A n \in Nodes : pc[n] = "announce" => new_block[n].index < Len(chain[n])
    /\ \A n \in Nodes, c \in Conns :
         relay[n][c] # NoBlock => c \in peers[n] /\ relay[n][c].index < Len(chain[n])

\* chain_validate accepts every chain that was mined, and the indices count.
Sound ==
    \A c \in built : /\ ChainValidate(c)
                     /\ \A i \in 1 .. Len(c) : c[i].index = i - 1

FlowInv ==
    /\ Joined /\ Greeting /\ Had /\ Sound
    /\ \A n \in Nodes : \A m \in Nodes \ {n} : Way(n, m)

\* The blocks that an answer, news to m, does not have yet will come after it.
Owes(n, m, c) ==
    Len(answer[n][c]) > Len(chain[m]) /\ IsPrefix(answer[n][c], chain[n]) =>
        \A k \in Len(answer[n][c]) .. Len(chain[n]) - 1 :
            Asked(n, c) \/ Announcing(n, c, chain[n][k + 1])

\* An answer was read from a chain that has only grown since.
Answers ==
    \A n \in Nodes, c \in Conns : answer[n][c] # << >> =>
        c \in peers[n] /\ Len(answer[n][c]) <= Len(chain[n])

OweInv ==
    /\ Answers
    /\ \A n \in Nodes : \A m \in Nodes \ {n} : \A c \in Working : Owes(n, m, c)

\* What a step leaves true.
StillFlows == FlowInv' /\ (OweInv /\ NothingOvertakes' => OweInv')

-----------------------------------------------------------------------------
(* Chains and messages *)

\* A chain of the tree and its blocks.
LEMMA BuiltIs ==
    ASSUME Ind, NEW c \in built
    PROVE  /\ c \in Seq(Range(c)) /\ Len(c) \in Nat \ {0} /\ Len(c) <= MAX_BLOCKS
           /\ \A i \in 1 .. Len(c) : IsBlock(c[i])
BY BuiltFields DEF Ind, IsChain

\* The messages, by type.
LEMMA WireIs ==
    ASSUME Ind, NEW msg \in Wire
    PROVE  /\ Height(msg) \in Nat
           /\ msg.type = "NEW_BLOCK" => /\ msg.block \in Tips /\ msg.block.index \in Nat
                                        /\ Height(msg) = msg.block.index + 1
           /\ msg.type = "CHAIN_RESPONSE" => msg.chain \in built /\ Height(msg) = Len(msg.chain)
           /\ msg.type \notin {"NEW_BLOCK", "CHAIN_RESPONSE"} => Height(msg) = 0
           /\ msg = RequestChain => msg.type = "REQUEST_CHAIN"
<1>1. CASE \E b \in Tips : msg = NewBlock(b)
  <2>1. PICK b \in Tips : msg = NewBlock(b)
    BY <1>1
  <2>2. b.index \in Nat
    BY TipIsBlock DEF IsBlock, Ind
  <2> QED BY <2>1, <2>2 DEF NewBlock, Height, RequestChain
<1>2. CASE \E t \in UserTxs : msg = NewTx(t)
  BY <1>2 DEF NewTx, Height, RequestChain
<1>3. CASE msg = RequestChain
  BY <1>3 DEF RequestChain, Height
<1>4. CASE \E c \in built : msg = ChainResponse(c)
  <2>1. PICK c \in built : msg = ChainResponse(c)
    BY <1>4
  <2>2. Len(c) \in Nat
    BY BuiltIs
  <2> QED BY <2>1, <2>2 DEF ChainResponse, Height, RequestChain
<1> QED BY <1>1, <1>2, <1>3, <1>4 DEF Wire

\* What waits on a connection.
LEMMA InboxIs ==
    ASSUME Ind, NEW n \in Nodes, NEW c \in Conns
    PROVE  /\ inbox[n][c] \in Seq(Wire) /\ Len(inbox[n][c]) \in Nat
           /\ \A i \in 1 .. Len(inbox[n][c]) : inbox[n][c][i] \in Wire
<1>1. inbox[n][c] \in Seq(Wire)
  BY DEF Ind, HeldInv
<1> QED BY <1>1, ElementOfSeq, LenProperties

\* A message at the end of a queue and those before it.
LEMMA QueueGrows ==
    ASSUME NEW S, NEW s \in Seq(S), NEW t \in Seq(S)
    PROVE  /\ s \o t \in Seq(S) /\ Len(s \o t) = Len(s) + Len(t)
           /\ Len(s) \in Nat /\ Len(t) \in Nat
           /\ \A i \in 1 .. Len(s) : (s \o t)[i] = s[i]
           /\ \A i \in 1 .. Len(t) : (s \o t)[Len(s) + i] = t[i]
           /\ \A i \in Len(s) + 1 .. Len(s \o t) :
                 i - Len(s) \in 1 .. Len(t) /\ (s \o t)[i] = t[i - Len(s)]
<1>1. /\ s \o t \in Seq(S) /\ Len(s \o t) = Len(s) + Len(t)
      /\ \A i \in 1 .. Len(s) + Len(t) :
            (s \o t)[i] = IF i <= Len(s) THEN s[i] ELSE t[i - Len(s)]
  BY ConcatProperties
<1>2. Len(s) \in Nat /\ Len(t) \in Nat
  BY LenProperties
<1>3. ASSUME NEW i \in 1 .. Len(t) PROVE (s \o t)[Len(s) + i] = t[i]
  <2>1. Len(s) + i \in 1 .. Len(s) + Len(t) /\ ~ (Len(s) + i <= Len(s))
    BY <1>2
  <2>2. Len(s) + i - Len(s) = i
    BY <1>2
  <2> QED BY <1>1, <2>1, <2>2
<1>4. ASSUME NEW i \in Len(s) + 1 .. Len(s \o t)
      PROVE  i - Len(s) \in 1 .. Len(t) /\ (s \o t)[i] = t[i - Len(s)]
  BY <1>1, <1>2
<1> QED BY <1>1, <1>2, <1>3, <1>4

-----------------------------------------------------------------------------
(* What steps do to the messages of one direction *)

\* What n sends on c after the messages there: more.  It reaches no further than
\* n's chain, and news to m is a single message, behind all that m has not read.
Fits(n, m, c, more) ==
    /\ \A j \in 1 .. Len(more) : Height(more[j]) <= Len(chain[n])
    /\ \A j \in 1 .. Len(more) : Height(more[j]) > Len(chain[m]) =>
         /\ j = 1
         /\ \A i \in 1 .. Len(inbox[m][c]) :
              inbox[m][c][i].type = "NEW_BLOCK" => Height(inbox[m][c][i]) <= Height(more[j])
         /\ more[j].type = "CHAIN_RESPONSE" /\ IsPrefix(more[j].chain, chain[n]) =>
              \A k \in Len(more[j].chain) .. Len(chain[n]) - 1 : ToBeSent(n, c, k)'
         /\ more[j].type = "NEW_BLOCK" => pc'[n] # "announce"

\* What was to be sent is still to be sent, or is in more.
StillSent(n, c, more) ==
    \A k \in 0 .. Len(chain[n]) - 1 :
        ToBeSent(n, c, k) =>
            \/ ToBeSent(n, c, k)'
            \/ \E j \in 1 .. Len(more) : Carries(more[j], k, chain[n][k + 1])

\* Sending loses nothing that was under way.
LEMMA DeliveredSent ==
    ASSUME Ind, NEW n \in Nodes, NEW m \in Nodes, NEW c \in Conns,
           NEW more \in Seq(Wire), inbox'[m][c] = inbox[m][c] \o more,
           chain'[n] = chain[n], StillSent(n, c, more),
           NEW i \in 0 .. Len(inbox[m][c]), NEW k \in 0 .. Len(chain[n]) - 1,
           Delivered(n, m, c, i, k)
    PROVE  Delivered(n, m, c, i, k)'
<1> DEFINE M == inbox[m][c]
           b == chain[n][k + 1]
<1>1. /\ Len(M \o more) = Len(M) + Len(more)
      /\ Len(M) \in Nat /\ Len(more) \in Nat
      /\ \A j \in 1 .. Len(M) : (M \o more)[j] = M[j]
      /\ \A j \in 1 .. Len(more) : (M \o more)[Len(M) + j] = more[j]
  BY InboxIs, QueueGrows
<1>2. CASE InTransit(n, m, c, i, k)
  <2>1. PICK j \in i + 1 .. Len(M) : Carries(M[j], k, b)
    BY <1>2 DEF InTransit
  <2>2. j \in i + 1 .. Len(M \o more) /\ (M \o more)[j] = M[j]
    BY <1>1, <2>1
  <2> HIDE DEF M
  <2>3. Carries((M \o more)[j], k, b)
    BY <2>1, <2>2
  <2> QED BY <2>2, <2>3 DEF M, InTransit, Delivered, Carries
<1>3. CASE ToBeSent(n, c, k)
  <2>1. CASE ToBeSent(n, c, k)'
    BY <2>1 DEF Delivered
  <2>2. CASE \E j \in 1 .. Len(more) : Carries(more[j], k, b)
    <3>1. PICK j \in 1 .. Len(more) : Carries(more[j], k, b)
      BY <2>2
    <3> DEFINE q == Len(M) + j
    <3>2. q \in i + 1 .. Len(M \o more) /\ (M \o more)[q] = more[j]
      BY <1>1
    <3> HIDE DEF M, q
    <3>3. Carries((M \o more)[q], k, b)
      BY <3>1, <3>2
    <3> QED BY <3>2, <3>3 DEF M, InTransit, Delivered, Carries
  <2> QED BY <1>3, <2>1, <2>2 DEF StillSent
<1> QED BY <1>2, <1>3 DEF Delivered

\* Sending what fits keeps the direction in order.
LEMMA FlowSent ==
    ASSUME Ind, NEW n \in Nodes, NEW m \in Nodes, NEW c \in Conns,
           NEW more \in Seq(Wire), inbox'[m][c] = inbox[m][c] \o more,
           chain'[n] = chain[n], StillSent(n, c, more), Fits(n, m, c, more),
           Len(chain[m]) \in Nat, Len(chain'[m]) \in Nat, Len(chain'[m]) >= Len(chain[m]),
           pc'[n] = "announce" => pc[n] = "announce" /\ new_block'[n] = new_block[n],
           FromPeer(n, m, c)', Flow(n, m, c)
    PROVE  Flow(n, m, c)'
<1> DEFINE M == inbox[m][c]
           N == M \o more
           C == chain[n]
<1>1. /\ N \in Seq(Wire) /\ Len(N) = Len(M) + Len(more)
      /\ Len(M) \in Nat /\ Len(more) \in Nat
      /\ \A j \in 1 .. Len(M) : N[j] = M[j]
      /\ \A j \in Len(M) + 1 .. Len(N) : j - Len(M) \in 1 .. Len(more) /\ N[j] = more[j - Len(M)]
  BY InboxIs, QueueGrows
<1>2. \A j \in 1 .. Len(N) : j \in 1 .. Len(M) \/ j \in Len(M) + 1 .. Len(N)
  BY <1>1
<1>3. \A j \in 1 .. Len(N) : N[j] \in Wire /\ Height(N[j]) \in Nat
  BY <1>1, ElementOfSeq, WireIs
<1>4. /\ Len(C) \in Nat
      /\ inbox'[m][c] = N /\ chain'[n] = C
  BY ChainFields
<1> HIDE DEF M, N, C
<1>5. Within(n, m, c)'
  <2> SUFFICES ASSUME NEW j \in 1 .. Len(N) PROVE Height(N[j]) <= Len(C)
    BY <1>4 DEF Within, Height
  <2>1. CASE j \in 1 .. Len(M)
    BY <1>1, <2>1 DEF Flow, Within, M, C
  <2>2. CASE j \in Len(M) + 1 .. Len(N)
    BY <1>1, <2>2 DEF Fits, C
  <2> QED BY <1>2, <2>1, <2>2
<1>6. InOrder(n, m, c)'
  <2> SUFFICES ASSUME NEW i \in 1 .. Len(N), NEW j \in 1 .. Len(N), i < j,
                      N[i].type = "NEW_BLOCK", Height(N[j]) > Len(chain'[m])
               PROVE  Height(N[i]) <= Height(N[j])
    BY <1>4 DEF InOrder, Height
  <2>0. Height(N[j]) > Len(chain[m])
    BY <1>3
  <2>1. CASE j \in 1 .. Len(M)
    <3>1. i \in 1 .. Len(M)
      BY <1>1, <2>1
    <3> QED BY <1>1, <2>0, <2>1, <3>1 DEF Flow, InOrder, M
  <2>2. CASE j \in Len(M) + 1 .. Len(N)
    <3>1. j - Len(M) = 1
      BY <1>1, <2>0, <2>2 DEF Fits
    <3>2. i \in 1 .. Len(M)
      BY <1>1, <3>1
    <3>3. \A q \in 1 .. Len(M) : M[q].type = "NEW_BLOCK" => Height(M[q]) <= Height(N[j])
      BY <1>1, <2>0, <2>2 DEF Fits, M
    <3> QED BY <1>1, <3>2, <3>3
  <2> QED BY <1>2, <2>1, <2>2
<1>7. Followed(n, m, c)'
  <2> SUFFICES ASSUME NEW i \in 1 .. Len(N), N[i].type = "CHAIN_RESPONSE",
                      Len(N[i].chain) > Len(chain'[m]), IsPrefix(N[i].chain, C),
                      NEW k \in Len(N[i].chain) .. Len(C) - 1
               PROVE  Delivered(n, m, c, i, k)'
    BY <1>4 DEF Followed, RestDelivered
  <2>0. /\ Height(N[i]) = Len(N[i].chain) /\ Len(N[i].chain) \in Nat
        /\ Len(N[i].chain) > Len(chain[m])
    <3>1. Height(N[i]) = Len(N[i].chain) /\ Len(N[i].chain) \in Nat
      BY <1>3, WireIs
    <3> QED BY <3>1
  <2>1. CASE i \in 1 .. Len(M)
    <3>1. Delivered(n, m, c, i, k)
      BY <1>1, <2>0, <2>1 DEF Flow, Followed, RestDelivered, M, C
    <3>2. i \in 0 .. Len(M) /\ k \in 0 .. Len(C) - 1
      BY <2>0, <2>1
    <3> QED BY <3>1, <3>2, DeliveredSent DEF M, C
  <2>2. CASE i \in Len(M) + 1 .. Len(N)
    <3>1. ToBeSent(n, c, k)'
      BY <1>1, <2>0, <2>2 DEF Fits, C
    <3> QED BY <3>1 DEF Delivered
  <2> QED BY <1>2, <2>1, <2>2
<1>8. AnnouncedLast(n, m, c)'
  <2> SUFFICES ASSUME pc'[n] = "announce", new_block'[n].index >= Len(chain'[m]),
                      NEW i \in 1 .. Len(N), N[i].type = "NEW_BLOCK"
               PROVE  N[i].block.index <= new_block'[n].index
    BY <1>4 DEF AnnouncedLast
  <2>0. /\ Height(N[i]) = N[i].block.index + 1 /\ N[i].block.index \in Nat
        /\ new_block[n].index \in Nat /\ new_block'[n] = new_block[n]
    BY <1>3, WireIs DEF Ind, NodeTypes, IsBlock
  <2>1. CASE i \in 1 .. Len(M)
    <3>1. new_block[n].index >= Len(chain[m])
      BY <2>0
    <3> QED BY <1>1, <2>0, <2>1, <3>1 DEF Flow, AnnouncedLast, M
  <2>2. CASE i \in Len(M) + 1 .. Len(N)
    <3>1. ~ (Height(N[i]) > Len(chain[m]))
      BY <1>1, <2>2 DEF Fits
    <3> QED BY <2>0, <3>1
  <2> QED BY <1>2, <2>1, <2>2
<1> QED BY <1>5, <1>6, <1>7, <1>8 DEF Flow

\* The rest of a queue when its first message is gone.
LEMMA QueueShrinks ==
    ASSUME NEW S, NEW s \in Seq(S), s # << >>
    PROVE  /\ Tail(s) \in Seq(S) /\ Len(Tail(s)) = Len(s) - 1
           /\ Len(s) \in Nat \ {0} /\ Head(s) = s[1]
           /\ \A i \in 1 .. Len(s) - 1 : Tail(s)[i] = s[i + 1]
<1>1. Len(s) \in Nat \ {0}
  BY EmptySeq, LenProperties
<1> QED BY <1>1, HeadTailProperties

\* What was to be sent is still to be sent when no request is read.
LEMMA DeliveredRead ==
    ASSUME Ind, NEW n \in Nodes, NEW m \in Nodes, NEW c \in Conns,
           inbox[m][c] # << >>, inbox'[m][c] = Tail(inbox[m][c]),
           chain'[n] = chain[n], StillSent(n, c, << >>),
           NEW i \in 0 .. Len(inbox[m][c]) - 1, NEW k \in 0 .. Len(chain[n]) - 1,
           Delivered(n, m, c, i + 1, k)
    PROVE  Delivered(n, m, c, i, k)'
<1> DEFINE M == inbox[m][c]
           N == Tail(M)
           b == chain[n][k + 1]
<1>1. /\ Len(N) = Len(M) - 1 /\ Len(M) \in Nat \ {0}
      /\ \A j \in 1 .. Len(M) - 1 : N[j] = M[j + 1]
  BY InboxIs, QueueShrinks
<1>2. CASE InTransit(n, m, c, i + 1, k)
  <2>1. PICK j \in i + 1 + 1 .. Len(M) : Carries(M[j], k, b)
    BY <1>2 DEF InTransit
  <2>2. j - 1 \in i + 1 .. Len(N) /\ N[j - 1] = M[j]
    <3>1. j - 1 \in 1 .. Len(M) - 1 /\ j - 1 + 1 = j
      BY <1>1
    <3> QED BY <1>1, <3>1
  <2> HIDE DEF M, N
  <2>3. Carries(N[j - 1], k, b)
    BY <2>1, <2>2
  <2> QED BY <2>2, <2>3 DEF M, N, InTransit, Delivered, Carries
<1>3. CASE ToBeSent(n, c, k)
  <2>1. Len(<< >>) = 0
    OBVIOUS
  <2>2. ToBeSent(n, c, k)'
    BY <1>3, <2>1 DEF StillSent
  <2> QED BY <2>2 DEF Delivered
<1> QED BY <1>2, <1>3 DEF Delivered

\* The first message is none of those that bring block k.
LEMMA DeliveredLater ==
    ASSUME Ind, NEW n \in Nodes, NEW m \in Nodes, NEW c \in Conns,
           inbox[m][c] # << >>, NEW k \in 0 .. Len(chain[n]) - 1,
           ~ Carries(Head(inbox[m][c]), k, chain[n][k + 1]),
           Delivered(n, m, c, 0, k)
    PROVE  Delivered(n, m, c, 0 + 1, k)
<1> DEFINE M == inbox[m][c]
           b == chain[n][k + 1]
<1>1. Len(M) \in Nat \ {0} /\ Head(M) = M[1]
  BY InboxIs, QueueShrinks
<1> SUFFICES ASSUME InTransit(n, m, c, 0, k)
             PROVE  InTransit(n, m, c, 0 + 1, k)
  BY DEF Delivered
<1>2. PICK j \in 0 + 1 .. Len(M) : Carries(M[j], k, b)
  BY DEF InTransit
<1> HIDE DEF M
<1>3. j # 1
  BY <1>1, <1>2 DEF M
<1>4. j \in 0 + 1 + 1 .. Len(M)
  BY <1>1, <1>3
<1> QED BY <1>2, <1>4 DEF InTransit, M

\* Reading a message keeps what is behind it in order, and the longer m's chain
\* is the less of it is news.
LEMMA FlowRead ==
    ASSUME Ind, NEW n \in Nodes, NEW m \in Nodes, NEW c \in Conns,
           inbox[m][c] # << >>, inbox'[m][c] = Tail(inbox[m][c]),
           chain'[n] = chain[n], StillSent(n, c, << >>),
           Len(chain[m]) \in Nat, Len(chain'[m]) \in Nat, Len(chain'[m]) >= Len(chain[m]),
           pc'[n] = "announce" => pc[n] = "announce" /\ new_block'[n] = new_block[n],
           FromPeer(n, m, c)', Flow(n, m, c)
    PROVE  Flow(n, m, c)'
<1> DEFINE M == inbox[m][c]
           N == Tail(M)
           C == chain[n]
<1>1. /\ Len(N) = Len(M) - 1 /\ Len(M) \in Nat \ {0}
      /\ \A j \in 1 .. Len(N) : j + 1 \in 1 .. Len(M) /\ N[j] = M[j + 1]
  BY InboxIs, QueueShrinks
<1>2. \A j \in 1 .. Len(N) : N[j] \in Wire /\ Height(N[j]) \in Nat
  BY <1>1, InboxIs, WireIs
<1>3. Len(C) \in Nat /\ inbox'[m][c] = N /\ chain'[n] = C
  BY ChainFields
<1> HIDE DEF M, N, C
<1>4. Within(n, m, c)'
  <2> SUFFICES ASSUME NEW j \in 1 .. Len(N) PROVE Height(N[j]) <= Len(C)
    BY <1>3 DEF Within, Height
  <2> QED BY <1>1 DEF Flow, Within, M, C
<1>5. InOrder(n, m, c)'
  <2> SUFFICES ASSUME NEW i \in 1 .. Len(N), NEW j \in 1 .. Len(N), i < j,
                      N[i].type = "NEW_BLOCK", Height(N[j]) > Len(chain'[m])
               PROVE  Height(N[i]) <= Height(N[j])
    BY <1>3 DEF InOrder, Height
  <2>1. Height(N[j]) > Len(chain[m])
    BY <1>2
  <2>2. i + 1 < j + 1 /\ i + 1 \in 1 .. Len(M) /\ j + 1 \in 1 .. Len(M)
    BY <1>1
  <2>3. N[i] = M[i + 1] /\ N[j] = M[j + 1]
    BY <1>1
  <2> QED BY <2>1, <2>2, <2>3 DEF Flow, InOrder, M
<1>6. Followed(n, m, c)'
  <2> SUFFICES ASSUME NEW i \in 1 .. Len(N), N[i].type = "CHAIN_RESPONSE",
                      Len(N[i].chain) > Len(chain'[m]), IsPrefix(N[i].chain, C),
                      NEW k \in Len(N[i].chain) .. Len(C) - 1
               PROVE  Delivered(n, m, c, i, k)'
    BY <1>3 DEF Followed, RestDelivered
  <2>1. Len(N[i].chain) \in Nat /\ Len(N[i].chain) > Len(chain[m])
    <3>1. Height(N[i]) = Len(N[i].chain) /\ Height(N[i]) \in Nat
      BY <1>2, WireIs
    <3> QED BY <3>1
  <2>2. N[i] = M[i + 1] /\ i + 1 \in 1 .. Len(M)
    BY <1>1
  <2>3. Delivered(n, m, c, i + 1, k)
    BY <2>1, <2>2 DEF Flow, Followed, RestDelivered, M, C
  <2>4. i \in 0 .. Len(M) - 1 /\ k \in 0 .. Len(C) - 1
    BY <1>1, <2>1
  <2> QED BY <2>3, <2>4, <1>3, DeliveredRead DEF M, N, C
<1>7. AnnouncedLast(n, m, c)'
  <2> SUFFICES ASSUME pc'[n] = "announce", new_block'[n].index >= Len(chain'[m]),
                      NEW i \in 1 .. Len(N), N[i].type = "NEW_BLOCK"
               PROVE  N[i].block.index <= new_block'[n].index
    BY <1>3 DEF AnnouncedLast
  <2>1. new_block[n].index \in Nat /\ new_block'[n] = new_block[n]
    BY DEF Ind, NodeTypes, IsBlock
  <2>2. new_block[n].index >= Len(chain[m])
    BY <2>1
  <2>3. N[i] = M[i + 1] /\ i + 1 \in 1 .. Len(M)
    BY <1>1
  <2> QED BY <2>1, <2>2, <2>3 DEF Flow, AnnouncedLast, M
<1> QED BY <1>4, <1>5, <1>6, <1>7 DEF Flow

\* When nothing on c is news to m, n's chain may be traded for a longer one.
LEMMA FlowStale ==
    ASSUME Ind, NEW n \in Nodes, NEW m \in Nodes, NEW c \in Conns,
           inbox'[m][c] = inbox[m][c], chain'[m] = chain[m],
           Len(chain'[n]) \in Nat, Len(chain'[n]) >= Len(chain[n]),
           new_block'[n] = new_block[n],
           \A i \in 1 .. Len(inbox[m][c]) : Height(inbox[m][c][i]) <= Len(chain[m]),
           FromPeer(n, m, c)', Within(n, m, c)
    PROVE  Flow(n, m, c)'
<1> DEFINE N == inbox[m][c]
           L == Len(chain[m])
<1>1. L \in Nat /\ Len(chain[n]) \in Nat /\ new_block[n].index \in Nat
  BY ChainFields DEF Ind, NodeTypes, IsBlock
<1>2. \A i \in 1 .. Len(N) :
         /\ Height(N[i]) \in Nat /\ Height(N[i]) <= L /\ Height(N[i]) <= Len(chain[n])
         /\ N[i].type = "CHAIN_RESPONSE" => Height(N[i]) = Len(N[i].chain)
         /\ N[i].type = "NEW_BLOCK" => Height(N[i]) = N[i].block.index + 1
                                        /\ N[i].block.index \in Nat
  BY InboxIs, WireIs DEF Within
<1> HIDE DEF N, L
<1>3. Within(n, m, c)'
  <2> SUFFICES ASSUME NEW i \in 1 .. Len(N) PROVE Height(N[i]) <= Len(chain'[n])
    BY DEF Within, Height, N
  <2> QED BY <1>1, <1>2
<1>4. InOrder(n, m, c)'
  BY <1>1, <1>2 DEF InOrder, Height, N, L
<1>5. Followed(n, m, c)'
  BY <1>1, <1>2 DEF Followed, N, L
<1>6. AnnouncedLast(n, m, c)'
  <2> SUFFICES ASSUME new_block[n].index >= L, NEW i \in 1 .. Len(N),
                      N[i].type = "NEW_BLOCK"
               PROVE  N[i].block.index <= new_block[n].index
    BY DEF AnnouncedLast, N, L
  <2>1. N[i].block.index + 1 <= L /\ N[i].block.index \in Nat
    BY <1>2
  <2> QED BY <1>1, <2>1
<1> QED BY <1>3, <1>4, <1>5, <1>6 DEF Flow

\* A block that n has mined is about to be announced, and the blocks below it
\* are on their way as before.
LEMMA DeliveredMined ==
    ASSUME Ind, NEW n \in Nodes, NEW m \in Nodes, NEW c \in Conns, NEW b,
           chain'[n] = Append(chain[n], b), inbox'[m][c] = inbox[m][c],
           pc[n] = "mine", pc'[n] = "announce", new_block'[n] = b,
           answer'[n][c] = answer[n][c],
           Asked(n, c) => Asked(n, c)', Asked(n, c)' \/ c \in peers'[n],
           NEW i, NEW k \in 0 .. Len(chain[n]),
           k < Len(chain[n]) => Delivered(n, m, c, i, k)
    PROVE  Delivered(n, m, c, i, k)'
<1> DEFINE C == chain[n]
           D == Append(C, b)
<1>1. /\ Len(C) \in Nat /\ Len(D) = Len(C) + 1
      /\ D[Len(C) + 1] = b /\ \A j \in 1 .. Len(C) : D[j] = C[j]
  <2>1. C \in Seq(Range(C))
    BY ChainFields, BuiltIs
  <2> QED BY <2>1, AppendChain, LenProperties DEF Last
<1> HIDE DEF C, D
<1>2. CASE k = Len(C)
  <2>1. Asked(n, c)' \/ Announcing(n, c, D[k + 1])'
    BY <1>1, <1>2 DEF Announcing, C, D
  <2>2. ToBeSent(n, c, k)'
    BY <2>1 DEF ToBeSent, Announcing, C, D
  <2> QED BY <2>2 DEF Delivered
<1>3. CASE k < Len(C)
  <2>1. D[k + 1] = C[k + 1]
    BY <1>1, <1>3
  <2>2. Delivered(n, m, c, i, k)
    BY <1>3 DEF C
  <2>3. Asked(n, c) \/ Answering(n, c, k) \/ InTransit(n, m, c, i, k)
    BY <2>2 DEF Delivered, ToBeSent, Announcing
  <2>4. InTransit(n, m, c, i, k) => InTransit(n, m, c, i, k)'
    BY <2>1 DEF InTransit, Carries, C, D
  <2>5. Answering(n, c, k) => Answering(n, c, k)'
    BY DEF Answering
  <2> QED BY <2>3, <2>4, <2>5 DEF Delivered, ToBeSent
<1> QED BY <1>1, <1>2, <1>3 DEF C

\* A prefix of a chain with one more block is a prefix of the chain or all of it.
LEMMA PrefixOfAppend ==
    ASSUME Ind, NEW n \in Nodes, NEW b, NEW s \in built
    PROVE  /\ IsPrefix(s, Append(chain[n], b)) =>
                IsPrefix(s, chain[n]) \/ Len(s) = Len(chain[n]) + 1
           /\ Len(s) \in Nat /\ Len(chain[n]) \in Nat
           /\ Len(Append(chain[n], b)) = Len(chain[n]) + 1
<1> DEFINE C == chain[n]
           D == Append(C, b)
<1>1. /\ C \in Seq(Range(C)) /\ s \in Seq(Range(s))
      /\ Len(s) \in Nat /\ Len(C) \in Nat
  BY ChainFields, BuiltIs
<1>2. /\ D \in Seq(Range(D)) /\ Len(D) = Len(C) + 1
      /\ \A j \in 1 .. Len(C) : D[j] = C[j]
  BY <1>1, AppendChain
<1> HIDE DEF C, D
<1>3. ASSUME IsPrefix(s, D), Len(s) # Len(C) + 1
      PROVE  IsPrefix(s, C)
  <2>1. Len(s) <= Len(D) /\ \A j \in 1 .. Len(s) : s[j] = D[j]
    BY <1>1, <1>2, <1>3, PrefixIs
  <2>2. Len(s) <= Len(C)
    BY <1>1, <1>2, <1>3, <2>1
  <2>3. \A j \in 1 .. Len(s) : s[j] = C[j]
    BY <1>1, <1>2, <2>1, <2>2
  <2> QED BY <1>1, <2>2, <2>3, PrefixIs
<1> QED BY <1>1, <1>2, <1>3 DEF C, D

\* Mining a block keeps the direction in order.
LEMMA FlowMined ==
    ASSUME Ind, NEW n \in Nodes, NEW m \in Nodes, NEW c \in Conns, NEW b,
           chain'[n] = Append(chain[n], b), inbox'[m][c] = inbox[m][c],
           chain'[m] = chain[m], b.index = Len(chain[n]),
           pc[n] = "mine", pc'[n] = "announce", new_block'[n] = b,
           answer'[n][c] = answer[n][c],
           Asked(n, c) => Asked(n, c)', Asked(n, c)' \/ c \in peers'[n],
           FromPeer(n, m, c)', Flow(n, m, c)
    PROVE  Flow(n, m, c)'
<1> DEFINE M == inbox[m][c]
           C == chain[n]
           D == Append(C, b)
<1>1. Len(C) \in Nat /\ Len(D) = Len(C) + 1 /\ Len(chain[m]) \in Nat
  BY ChainFields, PrefixOfAppend
<1>2. \A i \in 1 .. Len(M) :
         /\ M[i] \in Wire /\ Height(M[i]) \in Nat /\ Height(M[i]) <= Len(C)
         /\ M[i].type = "CHAIN_RESPONSE" => M[i].chain \in built /\ Height(M[i]) = Len(M[i].chain)
         /\ M[i].type = "NEW_BLOCK" => Height(M[i]) = M[i].block.index + 1
                                        /\ M[i].block.index \in Nat
  BY InboxIs, WireIs DEF Flow, Within
<1> HIDE DEF M, C, D
<1>3. Within(n, m, c)'
  <2> SUFFICES ASSUME NEW i \in 1 .. Len(M) PROVE Height(M[i]) <= Len(D)
    BY DEF Within, Height, M, C, D
  <2> QED BY <1>1, <1>2
<1>4. InOrder(n, m, c)'
  BY DEF Flow, InOrder, Height
<1>5. Followed(n, m, c)'
  <2> SUFFICES ASSUME NEW i \in 1 .. Len(M), M[i].type = "CHAIN_RESPONSE",
                      Len(M[i].chain) > Len(chain[m]), IsPrefix(M[i].chain, D),
                      NEW k \in Len(M[i].chain) .. Len(D) - 1
               PROVE  Delivered(n, m, c, i, k)'
    BY DEF Followed, RestDelivered, M, C, D
  <2>1. M[i].chain \in built /\ Len(M[i].chain) <= Len(C) /\ Len(M[i].chain) \in Nat
    BY <1>2
  <2>2. IsPrefix(M[i].chain, C)
    <3>1. Len(M[i].chain) # Len(C) + 1
      BY <1>1, <2>1
    <3>2. IsPrefix(M[i].chain, Append(chain[n], b))
      BY DEF D, C
    <3> QED BY <2>1, <3>1, <3>2, PrefixOfAppend DEF C
  <2>3. \A j \in Len(M[i].chain) .. Len(C) - 1 : Delivered(n, m, c, i, j)
    BY <2>2 DEF Flow, Followed, RestDelivered, M, C
  <2>4. k \in 0 .. Len(C) /\ (k < Len(C) => Delivered(n, m, c, i, k))
    BY <1>1, <2>1, <2>3
  <2> QED BY <2>4, DeliveredMined DEF M, C
<1>6. AnnouncedLast(n, m, c)'
  <2> SUFFICES ASSUME NEW i \in 1 .. Len(M), M[i].type = "NEW_BLOCK"
               PROVE  M[i].block.index <= b.index
    BY DEF AnnouncedLast, M
  <2> QED BY <1>1, <1>2 DEF C
<1> QED BY <1>3, <1>4, <1>5, <1>6 DEF Flow

-----------------------------------------------------------------------------
(* Steps that send nothing new *)

\* In a network of two nodes every connection joins them.
LEMMA Ends ==
    ASSUME Ind, Joined, TwoNodes, NEW n \in Nodes, NEW m \in Nodes \ {n}, NEW c \in Made
    PROVE  /\ c \in Conns /\ Nodes = {n, m}
           /\ Other(n, c) = m /\ Other(m, c) = n
           /\ \/ conns[c][1] = n /\ conns[c][2] = m
              \/ conns[c][1] = m /\ conns[c][2] = n
<1>1. Len(conns) \in Nat /\ Len(conns) <= MaxConns /\ MaxConns \in Nat
  BY LenProperties, BoundAssumption DEF Ind, NodeTypes
<1>2. c \in Conns
  BY <1>1 DEF Made, Conns
<1>3. conns[c] \in Nodes \X Nodes
  BY ElementOfSeq DEF Ind, NodeTypes, Made
<1>4. Nodes = {n, m}
  BY DEF TwoNodes
<1>5. conns[c][1] # conns[c][2] /\ conns[c][1] \in Nodes /\ conns[c][2] \in Nodes
  BY <1>3 DEF Joined
<1> QED BY <1>2, <1>4, <1>5 DEF Other

\* What is in a queue stays in it while the queue grows.
LEMMA RangeGrows ==
    ASSUME NEW S, NEW s \in Seq(S), NEW t \in Seq(S)
    PROVE  Range(s) \subseteq Range(s \o t)
<1> SUFFICES ASSUME NEW x \in Range(s) PROVE x \in Range(s \o t)
  OBVIOUS
<1>1. /\ Len(s) \in Nat /\ Len(t) \in Nat
      /\ s \o t \in Seq(S) /\ Len(s \o t) = Len(s) + Len(t)
      /\ \A i \in 1 .. Len(s) : (s \o t)[i] = s[i]
  BY QueueGrows
<1>2. /\ DOMAIN s = 1 .. Len(s)
      /\ DOMAIN (s \o t) = 1 .. Len(s \o t)
  BY <1>1, LenProperties
<1>3. PICK i \in 1 .. Len(s) : x = s[i]
  BY <1>2 DEF Range
<1>4. i \in 1 .. Len(s \o t) /\ x = (s \o t)[i]
  BY <1>1, <1>3
<1> QED BY <1>2, <1>4 DEF Range

\* Nothing follows.
LEMMA NothingMore ==
    ASSUME NEW S, NEW s \in Seq(S)
    PROVE  << >> \in Seq(S) /\ s = s \o << >> /\ Len(<< >>) = 0
<1>1. << >> \in Seq(S) /\ Len(<< >>) = 0
  BY EmptySeq
<1>2. /\ s \o << >> \in Seq(S) /\ Len(s \o << >>) = Len(s) + 0
      /\ Len(s) \in Nat
      /\ \A i \in 1 .. Len(s) : (s \o << >>)[i] = s[i]
  BY <1>1, QueueGrows
<1> QED BY <1>1, <1>2, SeqEqual

\* Requests and payments say nothing about a chain.
Plain(more) == \A j \in 1 .. Len(more) : Height(more[j]) = 0

\* What is sent to n on c is plain.
OnlyPlain(n, c) ==
    \E more \in Seq(Wire) : inbox'[n][c] = inbox[n][c] \o more /\ Plain(more)

\* It is, and nothing is sent when c is not accepted yet.
PlainFor(n, c) ==
    \E more \in Seq(Wire) :
        /\ inbox'[n][c] = inbox[n][c] \o more
        /\ Plain(more)
        /\ c \notin Made => more = << >>
        /\ c \in backlog /\ conns[c][1] = n => more = << >>

\* No block is mined or announced.
NoBlockSent ==
    \A n \in Nodes : /\ pc'[n] = "announce" <=> pc[n] = "announce"
                     /\ pc[n] = "announce" => new_block'[n] = new_block[n]

\* Plain messages keep both directions in order.
LEMMA WayKept ==
    ASSUME Ind, NEW n \in Nodes, NEW m \in Nodes \ {n}, Working \subseteq Conns,
           Way(n, m), Working' = Working, chain' = chain, answer' = answer, NoBlockSent,
           \A c \in Working : /\ OnlyPlain(m, c)
                              /\ Asked(n, c) => Asked(n, c)'
                              /\ relay'[m][c] = relay[m][c],
           peers[n] \subseteq peers'[n]
    PROVE  Way(n, m)'
<1>1. ASSUME NEW c \in Working
      PROVE  /\ Flow(n, m, c)'
             /\ \A k \in 0 .. Len(chain[n]) - 1 : Delivered(n, m, c, 0, k) => Delivered(n, m, c, 0, k)'
  <2>1. PICK more \in Seq(Wire) : inbox'[m][c] = inbox[m][c] \o more /\ Plain(more)
    BY DEF OnlyPlain
  <2>2. StillSent(n, c, more)
    BY DEF StillSent, ToBeSent, Announcing, Answering, NoBlockSent
  <2>3. c \in Conns /\ Len(chain[m]) \in Nat /\ Len(chain[n]) \in Nat
    BY ChainFields
  <2>4. Fits(n, m, c, more)
    BY <2>1, <2>3 DEF Fits, Plain
  <2>5. FromPeer(n, m, c)' /\ Flow(n, m, c)
    BY DEF Way, Flow, FromPeer
  <2>6. Flow(n, m, c)'
    BY <2>1, <2>2, <2>3, <2>4, <2>5, FlowSent DEF NoBlockSent
  <2>7. ASSUME NEW k \in 0 .. Len(chain[n]) - 1, Delivered(n, m, c, 0, k)
        PROVE  Delivered(n, m, c, 0, k)'
    <3>1. 0 \in 0 .. Len(inbox[m][c])
      BY <2>3, InboxIs
    <3> QED BY <2>1, <2>2, <2>3, <2>7, <3>1, DeliveredSent
  <2> QED BY <2>6, <2>7
<1>2. CatchesUp(n, m)'
  <2> SUFFICES ASSUME Working # {}, IsPrefix(chain[m], chain[n])
               PROVE  \E c \in Working : RestDelivered(n, m, c, 0, Len(chain[m]))'
    BY DEF CatchesUp
  <2>1. PICK c \in Working : RestDelivered(n, m, c, 0, Len(chain[m]))
    BY DEF Way, CatchesUp
  <2>2. Len(chain[m]) \in Nat
    BY ChainFields
  <2>3. RestDelivered(n, m, c, 0, Len(chain[m]))'
    BY <1>1, <2>1, <2>2 DEF RestDelivered
  <2> QED BY <2>3
<1> QED BY <1>1, <1>2 DEF Way

\* The working connections of a network.
LEMMA WorkingIs ==
    ASSUME Ind
    PROVE  Working \subseteq Conns /\ Made \subseteq Conns
<1>1. Len(conns) \in Nat /\ Len(conns) <= MaxConns /\ MaxConns \in Nat
  BY LenProperties, BoundAssumption DEF Ind, NodeTypes
<1> QED BY <1>1 DEF Working, Made, Conns

\* A request that is asked or will be asked stays so.
LEMMA AskedKept ==
    ASSUME Ind, NEW n \in Nodes, NEW c \in Conns, PlainFor(n, c),
           conns' = conns, backlog' = backlog
    PROVE  /\ Asked(n, c) => Asked(n, c)'
           /\ RequestChain \in Range(inbox[n][c]) => RequestChain \in Range(inbox'[n][c])
<1>1. PICK more \in Seq(Wire) : inbox'[n][c] = inbox[n][c] \o more
  BY DEF PlainFor
<1>2. Range(inbox[n][c]) \subseteq Range(inbox'[n][c])
  BY <1>1, InboxIs, RangeGrows
<1> QED BY <1>2 DEF Asked

\* The answers of a node are chains, or nothing.
LEMMA AnswerIs ==
    ASSUME Ind, NEW n \in Nodes, NEW c \in Conns
    PROVE  /\ Len(answer[n][c]) \in Nat /\ Len(<< >>) = 0
           /\ answer[n][c] # << >> => answer[n][c] \in built
<1>1. answer[n][c] \in built \cup {<< >>}
  BY DEF Ind, HeldInv
<1>2. Len(<< >>) = 0
  OBVIOUS
<1>3. answer[n][c] \in built => Len(answer[n][c]) \in Nat
  BY BuiltIs
<1> QED BY <1>1, <1>2, <1>3

\* n does what it owes on c later.
Remembers(n, c) ==
    /\ chain'[n] = chain[n]
    /\ Asked(n, c) => Asked(n, c)'
    /\ pc[n] = "announce" => pc'[n] = "announce" /\ new_block'[n] = new_block[n]
    /\ c \in peers[n] => c \in peers'[n]

\* What an answer lacks is still owed when nothing of it is forgotten, and an
\* answer that has just been read lacks nothing.
LEMMA OweStep ==
    ASSUME Ind, OweInv, Working' \subseteq Conns,
           \A n \in Nodes : Len(chain'[n]) \in Nat /\ Len(chain'[n]) >= Len(chain[n]),
           \A n \in Nodes, c \in Conns :
               \/ answer'[n][c] = << >>
               \/ c \in peers'[n] /\ answer'[n][c] = chain'[n]
               \/ answer'[n][c] = answer[n][c] /\ (c \in peers[n] => c \in peers'[n]),
           \A n \in Nodes : \A m \in Nodes \ {n} : \A c \in Working' :
               answer[n][c] # << >> /\ answer'[n][c] = answer[n][c] =>
                   c \in Working /\ (Remembers(n, c) \/ Owes(n, m, c)')
    PROVE  OweInv'
<1>1. ASSUME NEW n \in Nodes, NEW c \in Conns, answer'[n][c] # << >>
      PROVE  c \in peers'[n] /\ Len(answer'[n][c]) <= Len(chain'[n])
  <2>1. CASE c \in peers'[n] /\ answer'[n][c] = chain'[n]
    BY <2>1
  <2>2. CASE answer'[n][c] = answer[n][c] /\ (c \in peers[n] => c \in peers'[n])
    <3>1. c \in peers[n] /\ Len(answer[n][c]) <= Len(chain[n])
      BY <1>1, <2>2 DEF OweInv, Answers
    <3>2. Len(answer[n][c]) \in Nat /\ Len(chain[n]) \in Nat
      BY AnswerIs, ChainFields
    <3> QED BY <2>2, <3>1, <3>2
  <2> QED BY <1>1, <2>1, <2>2
<1>2. ASSUME NEW n \in Nodes, NEW m \in Nodes \ {n}, NEW c \in Working'
      PROVE  Owes(n, m, c)'
  <2>0. c \in Conns /\ Len(chain[m]) \in Nat /\ Len(chain[n]) \in Nat
    BY ChainFields
  <2>1. CASE answer'[n][c] = << >>
    <3>1. ~ (Len(answer'[n][c]) > Len(chain'[m]))
      BY <2>1, <2>0, AnswerIs
    <3> QED BY <3>1 DEF Owes
  <2>2. CASE answer'[n][c] = chain'[n]
    <3>1. Len(answer'[n][c]) .. Len(chain'[n]) - 1 = {}
      BY <2>2
    <3> QED BY <3>1 DEF Owes
  <2>3. CASE answer'[n][c] # << >> /\ answer'[n][c] = answer[n][c]
    <3>1. c \in Working /\ (Remembers(n, c) \/ Owes(n, m, c)')
      BY <2>3
    <3>2. ASSUME Remembers(n, c), Len(answer'[n][c]) > Len(chain'[m]),
                 IsPrefix(answer'[n][c], chain'[n]),
                 NEW k \in Len(answer'[n][c]) .. Len(chain'[n]) - 1
          PROVE  Asked(n, c)' \/ (pc'[n] = "announce" /\ new_block'[n] = chain'[n][k + 1]
                                 /\ c \in peers'[n])
      <4>1. Owes(n, m, c) /\ chain'[n] = chain[n]
        BY <3>1, <3>2 DEF OweInv, Remembers
      <4>2. Len(answer[n][c]) > Len(chain[m])
        BY <2>0, <2>3, <3>2, AnswerIs
      <4>3. Asked(n, c) \/ Announcing(n, c, chain[n][k + 1])
        BY <2>3, <3>2, <4>1, <4>2 DEF Owes
      <4> QED BY <3>2, <4>1, <4>3 DEF Remembers, Announcing
    <3> QED BY <3>1, <3>2 DEF Owes, Announcing
  <2> QED BY <2>0, <2>1, <2>2, <2>3
<1> QED BY <1>1, <1>2 DEF OweInv, Answers

\* In the most frequent case no chain changes and no connection is made or lost.
LEMMA OweSame ==
    ASSUME Ind, OweInv, UNCHANGED <<chain, answer, conns, up>>,
           \A n \in Nodes : peers[n] \subseteq peers'[n],
           \A n \in Nodes, c \in Working : Remembers(n, c)
    PROVE  OweInv'
<1>1. Working' = Working /\ Working \subseteq Conns
  BY WorkingIs DEF Working, Made
<1>2. \A n \in Nodes : Len(chain[n]) \in Nat
  BY ChainFields
<1>3. \A n \in Nodes, c \in Conns : answer'[n][c] = answer[n][c] /\ (c \in peers[n] => c \in peers'[n])
  OBVIOUS
<1> QED BY <1>1, <1>2, <1>3, OweStep

\* A step that sends only plain messages and leaves chains and connections alone.
LEMMA PlainStep ==
    ASSUME Ind, TwoNodes, FlowInv, NoBlockSent, Greeting',
           UNCHANGED <<chain, conns, up, backlog, peers, relay, answer, built>>,
           \A n \in Nodes, c \in Conns : PlainFor(n, c)
    PROVE  StillFlows
<1>0. Working \subseteq Conns /\ Made \subseteq Conns /\ Working \subseteq Made
  BY WorkingIs DEF Working
<1>1. Joined'
  <2>1. \A c \in Made : conns'[c][1] # conns'[c][2]
    BY DEF FlowInv, Joined
  <2>2. ASSUME NEW c \in Conns \ Made
        PROVE  ~ up'[c] /\ \A n \in Nodes : inbox'[n][c] = << >>
    <3>1. ~ up[c] /\ \A n \in Nodes : inbox[n][c] = << >>
      BY DEF FlowInv, Joined
    <3>2. ASSUME NEW n \in Nodes PROVE inbox'[n][c] = << >>
      <4>1. inbox'[n][c] = << >> \o << >>
        BY <3>1 DEF PlainFor
      <4> QED BY <4>1
    <3> QED BY <3>1, <3>2
  <2>3. ASSUME NEW c \in Working
        PROVE  /\ c \in peers'[conns[c][1]]
               /\ c \notin backlog => c \in peers'[conns[c][2]]
               /\ c \in backlog => /\ c \notin peers'[conns[c][2]]
                                   /\ RequestChain \in Range(inbox'[conns[c][2]][c])
                                   /\ inbox'[conns[c][1]][c] = << >>
    <3>1. /\ c \in peers[conns[c][1]]
          /\ c \notin backlog => c \in peers[conns[c][2]]
          /\ c \in backlog => /\ c \notin peers[conns[c][2]]
                              /\ RequestChain \in Range(inbox[conns[c][2]][c])
                              /\ inbox[conns[c][1]][c] = << >>
      BY DEF FlowInv, Joined
    <3>2. c \in Conns /\ conns[c][1] \in Nodes /\ conns[c][2] \in Nodes
      <4>1. conns[c] \in Nodes \X Nodes
        BY <1>0, ElementOfSeq DEF Ind, NodeTypes, Made
      <4> QED BY <1>0, <4>1
    <3>3. c \in backlog => RequestChain \in Range(inbox'[conns[c][2]][c])
      BY <3>1, <3>2, AskedKept
    <3>4. c \in backlog => inbox'[conns[c][1]][c] = << >>
      <4> SUFFICES ASSUME c \in backlog PROVE inbox'[conns[c][1]][c] = << >>
        OBVIOUS
      <4>1. inbox'[conns[c][1]][c] = << >> \o << >>
        BY <3>1, <3>2 DEF PlainFor
      <4> QED BY <4>1
    <3> QED BY <3>1, <3>3, <3>4
  <2> QED BY <2>1, <2>2, <2>3 DEF Joined, Made, Working
<1>2. Had'
  BY DEF FlowInv, Had, NoBlockSent
<1>3. Sound'
  BY DEF FlowInv, Sound
<1>4. ASSUME NEW n \in Nodes, NEW m \in Nodes \ {n}
      PROVE  Way(n, m)'
  <2>1. Way(n, m) /\ Working' = Working
    BY DEF FlowInv, Working, Made
  <2>2. \A c \in Working : OnlyPlain(m, c) /\ (Asked(n, c) => Asked(n, c)')
    BY <1>0, AskedKept DEF OnlyPlain, PlainFor
  <2> QED BY <1>0, <2>1, <2>2, WayKept
<1>5. ASSUME OweInv PROVE OweInv'
  <2>1. ASSUME NEW n \in Nodes, NEW c \in Working PROVE Remembers(n, c)
    <3>1. Asked(n, c) => Asked(n, c)'
      BY <1>0, AskedKept
    <3> QED BY <3>1 DEF Remembers, NoBlockSent
  <2>2. UNCHANGED <<chain, answer, conns, up>> /\ \A n \in Nodes : peers[n] \subseteq peers'[n]
    OBVIOUS
  <2> QED BY <1>5, <2>1, <2>2, OweSame
<1> QED BY <1>1, <1>2, <1>3, <1>4, <1>5 DEF FlowInv, StillFlows

\* When nothing is sent nothing is sent that matters.
LEMMA SilentIsPlain ==
    ASSUME Ind, inbox' = inbox, NEW n \in Nodes, NEW c \in Conns
    PROVE  PlainFor(n, c)
<1>1. /\ << >> \in Seq(Wire) /\ inbox[n][c] = inbox[n][c] \o << >> /\ Len(<< >>) = 0
  BY InboxIs, NothingMore
<1>2. Plain(<< >>)
  BY <1>1 DEF Plain
<1> QED BY <1>1, <1>2 DEF PlainFor

\* Where nothing is sent, in particular.
LEMMA SameIsPlain ==
    ASSUME Ind, NEW n \in Nodes, NEW c \in Conns, inbox'[n][c] = inbox[n][c]
    PROVE  PlainFor(n, c)
<1>1. /\ << >> \in Seq(Wire) /\ inbox'[n][c] = inbox[n][c] \o << >> /\ Len(<< >>) = 0
  BY InboxIs, NothingMore
<1>2. Plain(<< >>)
  BY <1>1 DEF Plain
<1> QED BY <1>1, <1>2 DEF PlainFor

\* What has just been put in a queue is in it.
LEMMA JustSent ==
    ASSUME NEW S, NEW s \in Seq(S), NEW x \in S
    PROVE  /\ s \o <<x>> \in Seq(S) /\ Len(s \o <<x>>) = Len(s) + 1 /\ Len(s) \in Nat
           /\ (s \o <<x>>)[Len(s) + 1] = x /\ x \in Range(s \o <<x>>)
           /\ \A i \in 1 .. Len(s) : (s \o <<x>>)[i] = s[i]
<1>1. <<x>> \in Seq(S) /\ Len(<<x>>) = 1 /\ 1 \in 1 .. 1 /\ <<x>>[1] = x
  OBVIOUS
<1>2. /\ s \o <<x>> \in Seq(S) /\ Len(s \o <<x>>) = Len(s) + 1 /\ Len(s) \in Nat
      /\ (s \o <<x>>)[Len(s) + 1] = x
      /\ \A i \in 1 .. Len(s) : (s \o <<x>>)[i] = s[i]
  BY <1>1, QueueGrows
<1>3. DOMAIN (s \o <<x>>) = 1 .. Len(s) + 1
  BY <1>2, LenProperties
<1>4. Len(s) + 1 \in 1 .. Len(s) + 1
  BY <1>2
<1> QED BY <1>2, <1>3, <1>4 DEF Range

\* send_message of a request or a payment.
LEMMA SendIsPlain ==
    ASSUME Ind, Joined, NEW n \in Nodes, NEW cs, NEW msgs \in Seq(Wire), Plain(msgs),
           inbox' = Send(inbox, n, cs, msgs),
           \A c \in cs : c \in backlog /\ up[c] => conns[c][1] = n,
           NEW m \in Nodes, NEW c \in Conns
    PROVE  PlainFor(m, c)
<1>1. inbox'[m][c] = IF c \in cs /\ up[c] /\ m = Other(n, c)
                     THEN inbox[m][c] \o msgs ELSE inbox[m][c]
  BY DEF Send
<1>2. CASE c \in cs /\ up[c] /\ m = Other(n, c)
  <2>1. inbox'[m][c] = inbox[m][c] \o msgs /\ c \in Made
    BY <1>1, <1>2 DEF Joined
  <2>2. c \in backlog => conns[c][1] # m
    BY <1>2, <2>1 DEF Other, Joined
  <2> QED BY <2>1, <2>2 DEF PlainFor
<1>3. CASE ~ (c \in cs /\ up[c] /\ m = Other(n, c))
  <2>1. inbox'[m][c] = inbox[m][c] \o << >> /\ << >> \in Seq(Wire) /\ Len(<< >>) = 0
    BY <1>1, <1>3, InboxIs, NothingMore
  <2>2. Plain(<< >>)
    BY <2>1 DEF Plain
  <2> QED BY <2>1, <2>2 DEF PlainFor
<1> QED BY <1>2, <1>3

\* What such a step of the main thread of n does.
MainOnly(n) ==
    /\ UNCHANGED <<chain, conns, up, backlog, peers, relay, answer, built, accepting, inbox>>
    /\ pc[n] # "announce" /\ pc'[n] \notin {"announce", "greet"}
    /\ \A m \in Nodes \ {n} : pc'[m] = pc[m] /\ new_block'[m] = new_block[m]

\* The steps of the main thread that send nothing.
LEMMA SilentFlow ==
    ASSUME Ind, TwoNodes, FlowInv, NEW n \in Nodes, MainOnly(n)
    PROVE  StillFlows
<1>1. \A m \in Nodes, c \in Conns : PlainFor(m, c)
  BY SilentIsPlain DEF MainOnly
<1>2. NoBlockSent
  BY DEF MainOnly, NoBlockSent
<1>3. Greeting'
  BY DEF MainOnly, FlowInv, Greeting, Made
<1> QED BY <1>1, <1>2, <1>3, PlainStep DEF MainOnly

\* All but the last step of do_mine and do_send are of this kind, and so is a
\* block that comes too late.
LEMMA MainOnlySteps ==
    ASSUME Ind, NEW n \in Nodes,
           \/ \E t \in Times : MineSnapshot(n, t)
           \/ \E p \in Payments : SendCheck(n, p)
           \/ MineLock(n) \/ MineCollect(n) \/ MineSeal(n) \/ SendEnqueue(n)
           \/ MineAdd(n) /\ pc'[n] = "menu"
    PROVE  MainOnly(n)
<1> USE DEF nodeVars, netVars, peerVars, MainOnly
<1>0. pc \in [Nodes -> MainPoints] /\ DOMAIN new_block = Nodes
  BY DEF Ind, NodeTypes
<1>1. CASE \E t \in Times : MineSnapshot(n, t)
  BY <1>0, <1>1 DEF MineSnapshot
<1>2. CASE \E p \in Payments : SendCheck(n, p)
  BY <1>0, <1>2 DEF SendCheck
<1>3. CASE MineLock(n)
  BY <1>0, <1>3 DEF MineLock
<1>4. CASE MineCollect(n)
  BY <1>0, <1>4 DEF MineCollect
<1>5. CASE MineSeal(n)
  BY <1>0, <1>5 DEF MineSeal
<1>6. CASE SendEnqueue(n)
  BY <1>0, <1>6 DEF SendEnqueue
<1>7. CASE MineAdd(n) /\ pc'[n] = "menu"
  <2> DEFINE b == BlockMine(new_block[n])
  <2> HIDE DEF b
  <2>1. ~ AddBlockAccepts(chain[n], b)
    BY <1>0, <1>7 DEF MineAdd, b
  <2>2. chain' = chain
    BY <1>7, <2>1 DEF MineAdd, AddBlock, b, Ind, HeldInv
  <2> QED BY <1>0, <1>7, <2>1, <2>2 DEF MineAdd, b
<1> QED BY <1>1, <1>2, <1>3, <1>4, <1>5, <1>6, <1>7

\* The steps that send requests and payments.
LEMMA PlainSendFlow ==
    ASSUME Ind, TwoNodes, FlowInv, NEW n \in Nodes, NEW cs, NEW msgs \in Seq(Wire),
           Plain(msgs), inbox' = Send(inbox, n, cs, msgs),
           \A c \in cs : c \in backlog /\ up[c] => conns[c][1] = n,
           UNCHANGED <<chain, conns, up, backlog, peers, relay, answer, built>>,
           NoBlockSent, Greeting'
    PROVE  StillFlows
<1>1. \A m \in Nodes, c \in Conns : PlainFor(m, c)
  BY SendIsPlain DEF FlowInv
<1> QED BY <1>1, PlainStep

\* One request or payment.
LEMMA OnePlain ==
    ASSUME Ind, NEW msg \in Wire, msg.type \notin {"NEW_BLOCK", "CHAIN_RESPONSE"}
    PROVE  <<msg>> \in Seq(Wire) /\ Plain(<<msg>>)
BY WireIs DEF Plain

\* The messages of a greeting.
LEMMA MempoolPlain ==
    ASSUME Ind, NEW n \in Nodes
    PROVE  MempoolMsgs(n) \in Seq(Wire) /\ Plain(MempoolMsgs(n))
<1>1. mempool[n] \in Seq(UserTxs) /\ Len(mempool[n]) \in Nat
  BY LenProperties DEF Ind, NodeTypes
<1>2. Len(MempoolMsgs(n)) = Len(mempool[n])
  BY <1>1, MempoolMsgsType, LenProperties DEF MempoolMsgs, Ind
<1>3. \A i \in 1 .. Len(mempool[n]) : MempoolMsgs(n)[i].type = "NEW_TX"
  BY DEF MempoolMsgs, NewTx
<1>4. MempoolMsgs(n) \in Seq(Wire)
  BY MempoolMsgsType DEF Ind
<1>5. \A i \in 1 .. Len(mempool[n]) : Height(MempoolMsgs(n)[i]) = 0
  BY <1>3 DEF Height
<1> QED BY <1>2, <1>4, <1>5 DEF Plain

\* A node that holds a connection which waits in a backlog has made it.
LEMMA OwnBacklog ==
    ASSUME Ind, Joined, TwoNodes, NEW n \in Nodes, NEW c \in peers[n],
           c \in backlog, up[c]
    PROVE  conns[c][1] = n
<1>1. c \in Working /\ c \notin peers[conns[c][2]]
  BY DEF Joined, Working, Ind, NodeTypes
<1>2. PICK m \in Nodes : m # n
  BY DEF TwoNodes
<1>3. c \in Made
  BY <1>1 DEF Working
<1>4. conns[c][1] = n \/ conns[c][2] = n
  BY <1>2, <1>3, Ends
<1> QED BY <1>1, <1>4

\* node_broadcast_tx, at the end of do_send.
LEMMA PublishFlow ==
    ASSUME Ind, TwoNodes, FlowInv, NEW n \in Nodes, SendPublish(n)
    PROVE  StillFlows
<1> USE DEF SendPublish, nodeVars, peerVars
<1>1. tx[n] \in UserTxs
  BY DEF Ind, HeldInv
<1>2. NewTx(tx[n]) \in Wire /\ NewTx(tx[n]).type = "NEW_TX"
  BY <1>1 DEF Wire, NewTx
<1>3. <<NewTx(tx[n])>> \in Seq(Wire) /\ Plain(<<NewTx(tx[n])>>)
  BY <1>2, OnePlain
<1>4. \A m \in Nodes : pc'[m] = IF m = n THEN "menu" ELSE pc[m]
  BY DEF Ind, NodeTypes
<1>5. \A c \in peers[n] : c \in backlog /\ up[c] => conns[c][1] = n
  BY OwnBacklog DEF FlowInv
<1>6. NoBlockSent
  BY <1>4 DEF NoBlockSent
<1>7. Greeting'
  BY <1>4 DEF FlowInv, Greeting, Made
<1> QED BY <1>3, <1>5, <1>6, <1>7, PlainSendFlow

\* on_peer_connected in the main thread.
LEMMA GreetFlow ==
    ASSUME Ind, TwoNodes, FlowInv, NEW n \in Nodes, Greet(n)
    PROVE  StillFlows
<1> USE DEF Greet, nodeVars, peerVars
<1>1. MempoolMsgs(n) \in Seq(Wire) /\ Plain(MempoolMsgs(n))
  BY MempoolPlain
<1>2. \A m \in Nodes : pc'[m] = IF m = n THEN "request" ELSE pc[m]
  BY DEF Ind, NodeTypes
<1>3. conns[OwnLatest(n)][1] = n
  <2> DEFINE T == {c \in Made : conns[c][1] = n}
  <2>1. T # {}
    BY DEF FlowInv, Greeting
  <2>2. Len(conns) \in Nat /\ T \subseteq 0 .. Len(conns)
    BY LenProperties DEF Made, Ind, NodeTypes
  <2>3. Max(T) \in T
    BY <2>1, <2>2, MaxProperties
  <2> QED BY <2>3 DEF OwnLatest
<1>4. \A c \in {OwnLatest(n)} : c \in backlog /\ up[c] => conns[c][1] = n
  BY <1>3
<1>5. NoBlockSent
  BY <1>2 DEF NoBlockSent
<1>6. Greeting'
  BY <1>2 DEF FlowInv, Greeting, Made
<1> QED BY <1>1, <1>4, <1>5, <1>6, PlainSendFlow

\* The second request of node_connect_peer.
LEMMA RequestAgainFlow ==
    ASSUME Ind, TwoNodes, FlowInv, NEW n \in Nodes, RequestAgain(n)
    PROVE  StillFlows
<1> USE DEF RequestAgain, nodeVars, peerVars
<1>1. RequestChain \in Wire /\ RequestChain.type = "REQUEST_CHAIN"
  BY DEF Wire, RequestChain
<1>2. <<RequestChain>> \in Seq(Wire) /\ Plain(<<RequestChain>>)
  BY <1>1, OnePlain
<1>3. \A m \in Nodes : pc'[m] = IF m = n THEN "menu" ELSE pc[m]
  BY DEF Ind, NodeTypes
<1>4. \A c \in {last_peer[n]} \cap peers[n] : c \in backlog /\ up[c] => conns[c][1] = n
  BY OwnBacklog DEF FlowInv
<1>5. NoBlockSent
  BY <1>3 DEF NoBlockSent
<1>6. Greeting'
  BY <1>3 DEF FlowInv, Greeting, Made
<1> QED BY <1>2, <1>4, <1>5, <1>6, PlainSendFlow

\* on_peer_connected in the accept thread.
LEMMA AcceptGreetFlow ==
    ASSUME Ind, TwoNodes, FlowInv, NEW n \in Nodes, AcceptGreet(n)
    PROVE  StillFlows
<1> USE DEF AcceptGreet, nodeVars, mainVars
<1>1. MempoolMsgs(n) \in Seq(Wire) /\ Plain(MempoolMsgs(n))
  BY MempoolPlain
<1>2. \A m \in Nodes : accepting'[m] = IF m = n THEN 0 ELSE accepting[m]
  BY DEF Ind, NodeTypes
<1>3. \A c \in {accepting[n]} : c \in backlog /\ up[c] => conns[c][1] = n
  BY DEF FlowInv, Greeting
<1>4. NoBlockSent
  BY DEF NoBlockSent
<1>5. Greeting'
  BY <1>2 DEF FlowInv, Greeting, Made
<1> QED BY <1>1, <1>3, <1>4, <1>5, PlainSendFlow

\* A step of nothing.
LEMMA StutterFlow ==
    ASSUME Ind, TwoNodes, FlowInv, UNCHANGED vars
    PROVE  StillFlows
<1> USE DEF vars, nodeVars, mainVars, netVars, peerVars
<1>1. \A m \in Nodes, c \in Conns : PlainFor(m, c)
  BY SilentIsPlain
<1>2. NoBlockSent
  BY DEF NoBlockSent
<1>3. Greeting'
  BY DEF FlowInv, Greeting, Made
<1> QED BY <1>1, <1>2, <1>3, PlainStep

-----------------------------------------------------------------------------
(* Connections *)

\* The accept thread asks for the chain of the other side.
LEMMA AcceptFlow ==
    ASSUME Ind, TwoNodes, FlowInv, NEW x \in Nodes, NEW d \in Conns, Accept(x, d)
    PROVE  StillFlows
<1> USE DEF Accept, nodeVars, mainVars
<1>0. /\ d \in Made /\ conns[d][2] = x
      /\ backlog' = backlog \ {d}
      /\ \A n \in Nodes : peers'[n] = IF n = x THEN peers[n] \cup {d} ELSE peers[n]
      /\ \A n \in Nodes : accepting'[n] = IF n = x THEN d ELSE accepting[n]
  BY DEF Ind, NodeTypes
<1>1. Working \subseteq Conns /\ Made \subseteq Conns /\ Working \subseteq Made
      /\ Working' = Working
  BY WorkingIs DEF Working, Made
<1>2. RequestChain \in Wire /\ RequestChain.type = "REQUEST_CHAIN"
  BY DEF Wire, RequestChain
<1>3. <<RequestChain>> \in Seq(Wire) /\ Plain(<<RequestChain>>)
  BY <1>2, OnePlain
<1>4. Joined /\ conns[d][1] \in Nodes /\ conns[d][1] # x /\ Other(x, d) = conns[d][1]
  <2>1. conns[d] \in Nodes \X Nodes
    BY <1>0, ElementOfSeq DEF Ind, NodeTypes, Made
  <2> QED BY <1>0, <2>1 DEF FlowInv, Joined, Other
<1>5. \A n \in Nodes, c \in Conns :
         inbox'[n][c] = IF c = d /\ up[d] /\ n = conns[d][1]
                        THEN inbox[n][c] \o <<RequestChain>> ELSE inbox[n][c]
  BY <1>4 DEF Send
<1>6. \A n \in Nodes, c \in Conns :
         ~ (c = d /\ up[d] /\ n = conns[d][1]) => inbox'[n][c] = inbox[n][c]
  BY <1>5
<1>7. Joined'
  <2>1. \A c \in Made : conns'[c][1] # conns'[c][2]
    BY <1>4 DEF Joined
  <2>2. ASSUME NEW c \in Conns \ Made
        PROVE  ~ up'[c] /\ \A n \in Nodes : inbox'[n][c] = << >>
    <3>1. c # d
      BY <1>0
    <3>2. \A n \in Nodes : inbox'[n][c] = inbox[n][c]
      BY <1>6, <3>1
    <3>3. up'[c] = up[c]
      OBVIOUS
    <3> QED BY <1>4, <3>2, <3>3 DEF Joined
  <2>3. ASSUME NEW c \in Working
        PROVE  /\ c \in peers'[conns[c][1]]
               /\ c \notin backlog' => c \in peers'[conns[c][2]]
               /\ c \in backlog' => /\ c \notin peers'[conns[c][2]]
                                    /\ RequestChain \in Range(inbox'[conns[c][2]][c])
                                    /\ inbox'[conns[c][1]][c] = << >>
    <3>1. conns[c][1] \in Nodes /\ conns[c][2] \in Nodes /\ c \in Conns
      <4>1. conns[c] \in Nodes \X Nodes
        BY <1>1, ElementOfSeq DEF Ind, NodeTypes, Made
      <4> QED BY <1>1, <4>1
    <3>2. /\ c \in peers[conns[c][1]]
          /\ c \notin backlog => c \in peers[conns[c][2]]
          /\ c \in backlog => /\ c \notin peers[conns[c][2]]
                              /\ RequestChain \in Range(inbox[conns[c][2]][c])
                              /\ inbox[conns[c][1]][c] = << >>
      BY <1>4 DEF Joined
    <3>3. c \in backlog' => c # d /\ c \in backlog
      BY <1>0
    <3>4. c # d => /\ inbox'[conns[c][1]][c] = inbox[conns[c][1]][c]
                   /\ inbox'[conns[c][2]][c] = inbox[conns[c][2]][c]
      BY <3>1, <1>6
    <3>5. CASE c = d
      <4>1. d \notin backlog' /\ d \in peers'[x] /\ d \in peers[conns[d][1]]
        <5>1. d \notin backlog'
          BY <1>0
        <5>2. d \in peers'[x]
          BY <1>0
        <5> QED BY <5>1, <5>2, <3>2, <3>5
      <4>2. peers'[conns[d][1]] = peers[conns[d][1]]
        BY <1>0, <1>4
      <4> QED BY <1>0, <3>5, <4>1, <4>2
    <3>6. CASE c # d
      BY <1>0, <3>1, <3>2, <3>3, <3>4, <3>6
    <3> QED BY <3>5, <3>6
  <2> QED BY <1>1, <2>1, <2>2, <2>3 DEF Joined, Made
<1>8. Greeting'
  BY <1>0 DEF FlowInv, Greeting, Made
<1>9. Had'
  BY <1>0 DEF FlowInv, Had
<1>10. Sound'
  BY DEF FlowInv, Sound
<1>20. ASSUME NEW n \in Nodes, NEW m \in Nodes \ {n}, NEW c \in Working
       PROVE  /\ OnlyPlain(m, c) /\ (Asked(n, c) => Asked(n, c)')
              /\ relay'[m][c] = relay[m][c]
  <2>0. c \in Conns /\ (conns[c][1] = n \/ conns[c][2] = n) /\ Nodes = {n, m}
    BY <1>1, <1>4, Ends
  <2>1. CASE c # d
    <3>1. inbox'[m][c] = inbox[m][c] /\ inbox'[n][c] = inbox[n][c]
      BY <1>6, <2>0, <2>1
    <3>2. OnlyPlain(m, c)
      BY <2>0, <3>1, SameIsPlain DEF OnlyPlain, PlainFor
    <3> QED BY <3>1, <3>2, <2>1, <1>0 DEF Asked
  <2>2. CASE c = d
    <3>1. up[d]
      BY <2>2 DEF Working
    <3>2. CASE m = x
      <4>1. inbox'[m][c] = inbox[m][c]
        BY <1>4, <1>6, <2>0, <3>2
      <4>2. OnlyPlain(m, c)
        BY <2>0, <4>1, SameIsPlain DEF OnlyPlain, PlainFor
      <4>3. n = conns[d][1]
        BY <1>4, <2>0, <3>2
      <4>4. inbox'[n][c] = inbox[n][c] \o <<RequestChain>>
        BY <1>5, <2>0, <2>2, <3>1, <4>3
      <4>5. RequestChain \in Range(inbox[n][c] \o <<RequestChain>>)
        BY <1>2, <2>0, InboxIs, JustSent
      <4> QED BY <4>2, <4>4, <4>5 DEF Asked
    <3>3. CASE m # x
      <4>1. n = x /\ m = conns[d][1]
        BY <1>4, <2>0, <3>3
      <4>2. inbox'[m][c] = inbox[m][c] \o <<RequestChain>>
        BY <1>5, <2>0, <2>2, <3>1, <4>1
      <4>3. inbox'[n][c] = inbox[n][c]
        BY <1>4, <1>6, <2>0, <4>1
      <4>4. OnlyPlain(m, c)
        BY <1>3, <4>2 DEF OnlyPlain
      <4>5. ~ (c \in backlog /\ conns[c][1] = n)
        BY <1>4, <2>2, <4>1
      <4> QED BY <4>3, <4>4, <4>5 DEF Asked
    <3> QED BY <3>2, <3>3
  <2> QED BY <2>1, <2>2
<1>11. ASSUME NEW n \in Nodes, NEW m \in Nodes \ {n}
       PROVE  Way(n, m)'
  <2>1. Way(n, m)
    BY DEF FlowInv
  <2>2. \A c \in Working : /\ OnlyPlain(m, c) /\ (Asked(n, c) => Asked(n, c)')
                           /\ relay'[m][c] = relay[m][c]
    BY <1>20
  <2> QED BY <1>1, <2>1, <2>2, WayKept DEF NoBlockSent
<1>12. ASSUME OweInv PROVE OweInv'
  <2>1. ASSUME NEW n \in Nodes, NEW c \in Working PROVE Remembers(n, c)
    <3>1. Asked(n, c) => Asked(n, c)'
      <4>1. PICK m \in Nodes \ {n} : TRUE
        BY DEF TwoNodes
      <4> QED BY <1>20, <4>1
    <3> QED BY <1>0, <3>1 DEF Remembers
  <2>2. UNCHANGED <<chain, answer, conns, up>> /\ \A n \in Nodes : peers[n] \subseteq peers'[n]
    BY <1>0
  <2> QED BY <1>12, <2>1, <2>2, OweSame
<1> QED BY <1>7, <1>8, <1>9, <1>10, <1>11, <1>12 DEF FlowInv, StillFlows
-----------------------------------------------------------------------------
(* Steps that send or read blocks and chains *)

\* The ends of connections stay as they are.
LEMMA JoinedKept ==
    ASSUME Ind, Joined, UNCHANGED <<conns, up, backlog, peers>>,
           \A n \in Nodes, c \in Conns \ Made : inbox'[n][c] = inbox[n][c],
           \A c \in Working : c \in backlog =>
               /\ inbox'[conns[c][1]][c] = inbox[conns[c][1]][c]
               /\ RequestChain \in Range(inbox'[conns[c][2]][c])
    PROVE  Joined'
<1>1. \A c \in Made : conns'[c][1] # conns'[c][2]
  BY DEF Joined
<1>2. \A c \in Conns \ Made : ~ up'[c] /\ \A n \in Nodes : inbox'[n][c] = << >>
  BY DEF Joined
<1>3. \A c \in Working :
         /\ c \in peers'[conns[c][1]]
         /\ c \notin backlog => c \in peers'[conns[c][2]]
         /\ c \in backlog => /\ c \notin peers'[conns[c][2]]
                             /\ RequestChain \in Range(inbox'[conns[c][2]][c])
                             /\ inbox'[conns[c][1]][c] = << >>
  BY DEF Joined
<1> QED BY <1>1, <1>2, <1>3 DEF Joined, Made, Working

\* What n sends on c fits.
SendsFit(n, m, c) ==
    \E more \in Seq(Wire) : /\ inbox'[m][c] = inbox[m][c] \o more
                            /\ StillSent(n, c, more) /\ Fits(n, m, c, more)

\* A block that n has announced is not changed behind its back.
Announced(n) == pc'[n] = "announce" => pc[n] = "announce" /\ new_block'[n] = new_block[n]

\* Messages that fit keep the direction in order and m on the way.
LEMMA WaySent ==
    ASSUME Ind, NEW n \in Nodes, NEW m \in Nodes \ {n}, Working \subseteq Conns,
           Way(n, m), Working' = Working, chain' = chain, Announced(n),
           \A c \in Working : SendsFit(n, m, c) /\ FromPeer(n, m, c)'
    PROVE  Way(n, m)'
<1>1. ASSUME NEW c \in Working
      PROVE  /\ Flow(n, m, c)'
             /\ \A k \in 0 .. Len(chain[n]) - 1 : Delivered(n, m, c, 0, k) => Delivered(n, m, c, 0, k)'
  <2>1. PICK more \in Seq(Wire) : /\ inbox'[m][c] = inbox[m][c] \o more
                                  /\ StillSent(n, c, more) /\ Fits(n, m, c, more)
    BY DEF SendsFit
  <2>2. c \in Conns /\ Len(chain[m]) \in Nat
    BY ChainFields
  <2>3. FromPeer(n, m, c)' /\ Flow(n, m, c)
    BY DEF Way
  <2>4. Flow(n, m, c)'
    BY <2>1, <2>2, <2>3, FlowSent DEF Announced
  <2>5. ASSUME NEW k \in 0 .. Len(chain[n]) - 1, Delivered(n, m, c, 0, k)
        PROVE  Delivered(n, m, c, 0, k)'
    <3>1. 0 \in 0 .. Len(inbox[m][c])
      BY <2>2, InboxIs
    <3> QED BY <2>1, <2>2, <2>5, <3>1, DeliveredSent
  <2> QED BY <2>4, <2>5
<1>2. CatchesUp(n, m)'
  <2> SUFFICES ASSUME Working # {}, IsPrefix(chain[m], chain[n])
               PROVE  \E c \in Working : RestDelivered(n, m, c, 0, Len(chain[m]))'
    BY DEF CatchesUp
  <2>1. PICK c \in Working : RestDelivered(n, m, c, 0, Len(chain[m]))
    BY DEF Way, CatchesUp
  <2>2. Len(chain[m]) \in Nat
    BY ChainFields
  <2>3. RestDelivered(n, m, c, 0, Len(chain[m]))'
    BY <1>1, <2>1, <2>2 DEF RestDelivered
  <2> QED BY <2>3
<1> QED BY <1>1, <1>2 DEF Way

\* To send nothing fits, if nothing else is lost.
LEMMA NothingFits ==
    ASSUME Ind, NEW n \in Nodes, NEW m \in Nodes, NEW c \in Conns,
           inbox'[m][c] = inbox[m][c], chain'[n] = chain[n],
           Asked(n, c) => Asked(n, c)', pc'[n] = "announce" <=> pc[n] = "announce",
           new_block'[n] = new_block[n], answer'[n][c] = answer[n][c],
           c \in peers[n] => c \in peers'[n]
    PROVE  SendsFit(n, m, c) /\ StillSent(n, c, << >>) /\ Announced(n)
<1>1. << >> \in Seq(Wire) /\ inbox[m][c] = inbox[m][c] \o << >> /\ Len(<< >>) = 0
  BY InboxIs, NothingMore
<1>2. StillSent(n, c, << >>)
  BY DEF StillSent, ToBeSent, Announcing, Answering
<1>3. Fits(n, m, c, << >>)
  BY <1>1 DEF Fits
<1>4. inbox'[m][c] = inbox[m][c] \o << >>
  BY <1>1
<1> QED BY <1>1, <1>2, <1>3, <1>4 DEF SendsFit, Announced

\* A direction on which nothing happens, while the reader's chain may grow.
LEMMA FlowIdle ==
    ASSUME Ind, NEW n \in Nodes, NEW m \in Nodes, NEW c \in Conns,
           inbox'[m][c] = inbox[m][c], chain'[n] = chain[n],
           Asked(n, c) => Asked(n, c)', pc'[n] = "announce" <=> pc[n] = "announce",
           new_block'[n] = new_block[n], answer'[n][c] = answer[n][c],
           c \in peers[n] => c \in peers'[n],
           Len(chain'[m]) \in Nat, Len(chain'[m]) >= Len(chain[m]),
           FromPeer(n, m, c)', Flow(n, m, c)
    PROVE  /\ Flow(n, m, c)'
           /\ \A k \in 0 .. Len(chain[n]) - 1 : Delivered(n, m, c, 0, k) => Delivered(n, m, c, 0, k)'
<1>1. << >> \in Seq(Wire) /\ inbox[m][c] = inbox[m][c] \o << >> /\ Len(<< >>) = 0
  BY InboxIs, NothingMore
<1>2. StillSent(n, c, << >>)
  BY NothingFits
<1>3. inbox'[m][c] = inbox[m][c] \o << >> /\ Fits(n, m, c, << >>) /\ Len(chain[m]) \in Nat
  BY <1>1, ChainFields DEF Fits
<1>4. pc'[n] = "announce" => pc[n] = "announce" /\ new_block'[n] = new_block[n]
  OBVIOUS
<1>5. Flow(n, m, c)'
  BY <1>1, <1>2, <1>3, <1>4, FlowSent
<1>6. 0 \in 0 .. Len(inbox[m][c])
  BY InboxIs
<1> QED BY <1>1, <1>2, <1>3, <1>5, <1>6, DeliveredSent

\* The direction towards a node m that reads a message from e: whatever does not
\* depend on that message still comes.
LEMMA TowardsReader ==
    ASSUME Ind, NEW n \in Nodes, NEW m \in Nodes \ {n}, NEW e \in Conns,
           Working \subseteq Conns, inbox[m][e] # << >>,
           \A c \in Working : /\ inbox'[m][c] = IF c = e THEN Tail(inbox[m][c]) ELSE inbox[m][c]
                              /\ Asked(n, c) => Asked(n, c)'
                              /\ FromPeer(n, m, c)' /\ Flow(n, m, c),
           chain'[n] = chain[n], pc'[n] = pc[n], new_block'[n] = new_block[n],
           peers'[n] = peers[n], answer'[n] = answer[n], Len(chain'[m]) \in Nat, Len(chain'[m]) >= Len(chain[m])
    PROVE  \A c \in Working :
              /\ Flow(n, m, c)'
              /\ \A k \in 0 .. Len(chain[n]) - 1 :
                   /\ Delivered(n, m, c, 0, k)
                   /\ c = e => \/ ~ Carries(Head(inbox[m][e]), k, chain[n][k + 1])
                               \/ Delivered(n, m, e, 0 + 1, k)
                   => Delivered(n, m, c, 0, k)'
<1> SUFFICES ASSUME NEW c \in Working
             PROVE  /\ Flow(n, m, c)'
                    /\ \A k \in 0 .. Len(chain[n]) - 1 :
                         /\ Delivered(n, m, c, 0, k)
                         /\ c = e => \/ ~ Carries(Head(inbox[m][e]), k, chain[n][k + 1])
                                     \/ Delivered(n, m, e, 0 + 1, k)
                         => Delivered(n, m, c, 0, k)'
  OBVIOUS
<1>0. c \in Conns /\ Len(chain[m]) \in Nat
  BY ChainFields
<1>1. StillSent(n, c, << >>)
  BY DEF StillSent, ToBeSent, Announcing, Answering
<1>2. FromPeer(n, m, c)' /\ Flow(n, m, c)
  OBVIOUS
<1>3. pc'[n] = "announce" => pc[n] = "announce" /\ new_block'[n] = new_block[n]
  OBVIOUS
<1>4. CASE c = e
  <2>1. inbox'[m][c] = Tail(inbox[m][c]) /\ inbox[m][c] # << >>
    BY <1>4
  <2>2. Flow(n, m, c)'
    BY <1>0, <1>1, <1>2, <1>3, <2>1, FlowRead
  <2>3. ASSUME NEW k \in 0 .. Len(chain[n]) - 1, Delivered(n, m, c, 0, k),
               \/ ~ Carries(Head(inbox[m][e]), k, chain[n][k + 1])
               \/ Delivered(n, m, e, 0 + 1, k)
        PROVE  Delivered(n, m, c, 0, k)'
    <3>1. Delivered(n, m, c, 0 + 1, k)
      BY <1>4, <2>1, <2>3, DeliveredLater
    <3>2. 0 \in 0 .. Len(inbox[m][c]) - 1
      BY <1>0, <2>1, InboxIs, QueueShrinks
    <3> QED BY <1>0, <1>1, <2>1, <3>1, <3>2, DeliveredRead
  <2> QED BY <1>4, <2>2, <2>3
<1>5. CASE c # e
  <2>0. << >> \in Seq(Wire) /\ inbox[m][c] = inbox[m][c] \o << >> /\ Len(<< >>) = 0
    BY <1>0, InboxIs, NothingMore
  <2>1. inbox'[m][c] = inbox[m][c] \o << >> /\ Fits(n, m, c, << >>)
    BY <1>5, <2>0 DEF Fits
  <2>2. Flow(n, m, c)'
    BY <1>0, <1>1, <1>2, <1>3, <2>0, <2>1, FlowSent
  <2>3. ASSUME NEW k \in 0 .. Len(chain[n]) - 1, Delivered(n, m, c, 0, k)
        PROVE  Delivered(n, m, c, 0, k)'
    <3>1. 0 \in 0 .. Len(inbox[m][c])
      BY <1>0, InboxIs
    <3> QED BY <1>0, <1>1, <2>0, <2>1, <2>3, <3>1, DeliveredSent
  <2> QED BY <2>2, <2>3
<1> QED BY <1>4, <1>5
\* A broadcast of a block that fits wherever it is sent.
LEMMA BroadcastFlow ==
    ASSUME Ind, TwoNodes, FlowInv, NEW x \in Nodes, NEW cs \in SUBSET peers[x], NEW b \in Tips,
           inbox' = Send(inbox, x, cs, <<NewBlock(b)>>),
           \A m \in Nodes \ {x} : \A c \in Working \cap cs : Fits(x, m, c, <<NewBlock(b)>>),
           \A c \in Working : StillSent(x, c, IF c \in cs THEN <<NewBlock(b)>> ELSE << >>),
           Announced(x),
           \A m \in Nodes \ {x} : pc'[m] = pc[m] /\ new_block'[m] = new_block[m],
           \A n \in Nodes, c \in Conns : relay'[n][c] \in {relay[n][c], NoBlock},
           UNCHANGED <<chain, conns, up, backlog, peers, accepting, answer, built>>,
           pc'[x] = "greet" => pc[x] = "greet"
    PROVE  FlowInv'
<1>0. /\ Joined /\ Working \subseteq Conns /\ Made \subseteq Conns /\ Working \subseteq Made
      /\ Working' = Working
  BY WorkingIs DEF Working, Made, FlowInv
<1>1. NewBlock(b) \in Wire /\ <<NewBlock(b)>> \in Seq(Wire)
  <2>1. NewBlock(b) \in Wire
    BY DEF Wire
  <2> QED BY <2>1
<1>2. \A n \in Nodes, c \in Conns :
         inbox'[n][c] = IF c \in cs /\ up[c] /\ n = Other(x, c)
                        THEN inbox[n][c] \o <<NewBlock(b)>> ELSE inbox[n][c]
  BY DEF Send
<1>3. \A n \in Nodes, c \in Conns : ~ (c \in cs /\ up[c] /\ n = Other(x, c)) => inbox'[n][c] = inbox[n][c]
  BY <1>2
<1>30. \A n \in Nodes, c \in Conns :
          c \in cs /\ up[c] /\ n = Other(x, c) => inbox'[n][c] = inbox[n][c] \o <<NewBlock(b)>>
  BY <1>2
<1>4. ASSUME NEW c \in Working, c \in cs, c \in backlog
      PROVE  conns[c][1] = x /\ conns[c][2] \in Nodes /\ conns[c][2] # x /\ Other(x, c) = conns[c][2]
  <2>1. up[c] /\ c \in peers[x] /\ c \in Made
    BY <1>4 DEF Working
  <2>2. conns[c][1] = x
    BY <1>0, <1>4, <2>1, OwnBacklog
  <2>3. conns[c] \in Nodes \X Nodes
    BY <2>1, ElementOfSeq DEF Ind, NodeTypes, Made
  <2> QED BY <1>0, <2>1, <2>2, <2>3 DEF Joined, Other
<1>5. Joined'
  <2>1. \A n \in Nodes, c \in Conns \ Made : inbox'[n][c] = inbox[n][c]
    BY <1>0, <1>3 DEF Joined
  <2>2. ASSUME NEW c \in Working, c \in backlog
        PROVE  /\ inbox'[conns[c][1]][c] = inbox[conns[c][1]][c]
               /\ RequestChain \in Range(inbox'[conns[c][2]][c])
    <3>0. c \in Conns /\ conns[c][1] \in Nodes /\ conns[c][2] \in Nodes /\ conns[c][1] # conns[c][2]
      <4>1. conns[c] \in Nodes \X Nodes
        BY <1>0, ElementOfSeq DEF Ind, NodeTypes, Made
      <4> QED BY <1>0, <4>1 DEF Joined
    <3>1. RequestChain \in Range(inbox[conns[c][2]][c])
      BY <1>0, <2>2 DEF Joined
    <3>2. CASE c \in cs
      <4>1. conns[c][1] = x /\ Other(x, c) = conns[c][2] /\ up[c]
        BY <1>4, <2>2, <3>2 DEF Working
      <4>2. inbox'[conns[c][2]][c] = inbox[conns[c][2]][c] \o <<NewBlock(b)>>
        BY <1>30, <3>0, <3>2, <4>1
      <4>3. Range(inbox[conns[c][2]][c]) \subseteq Range(inbox[conns[c][2]][c] \o <<NewBlock(b)>>)
        BY <1>1, <3>0, InboxIs, RangeGrows
      <4>4. inbox'[conns[c][1]][c] = inbox[conns[c][1]][c]
        BY <1>3, <3>0, <4>1
      <4> QED BY <3>1, <4>2, <4>3, <4>4
    <3>3. CASE c \notin cs
      BY <1>3, <3>0, <3>1, <3>3
    <3> QED BY <3>2, <3>3
  <2> QED BY <1>0, <2>1, <2>2, JoinedKept
<1>6. Greeting'
  <2>1. \A n \in Nodes : pc'[n] = "greet" => pc[n] = "greet"
    OBVIOUS
  <2> QED BY <2>1 DEF FlowInv, Greeting, Made
<1>7. Had'
  <2>1. \A n \in Nodes : pc'[n] = "announce" => pc[n] = "announce" /\ new_block'[n] = new_block[n]
    BY DEF Announced
  <2>2. \A n \in Nodes, c \in Conns : relay'[n][c] # NoBlock => relay'[n][c] = relay[n][c] /\ relay[n][c] # NoBlock
    OBVIOUS
  <2> QED BY <2>1, <2>2 DEF FlowInv, Had
<1>8. Sound'
  BY DEF FlowInv, Sound
<1>9. ASSUME NEW n \in Nodes, NEW m \in Nodes \ {n}
      PROVE  Way(n, m)'
  <2>1. Way(n, m) /\ Announced(n)
    BY DEF FlowInv, Announced
  <2>2. ASSUME NEW c \in Working
        PROVE  SendsFit(n, m, c) /\ FromPeer(n, m, c)'
    <3>0. c \in Conns /\ c \in Made /\ up[c] /\ Nodes = {n, m} /\ Other(n, c) = m /\ Other(m, c) = n
      BY <1>0, Ends DEF Working
    <3>1. FromPeer(n, m, c)'
      <4>1. FromPeer(n, m, c) /\ relay'[m][c] \in {relay[m][c], NoBlock}
        BY <2>1, <3>0 DEF Way, Flow
      <4> QED BY <4>1 DEF FromPeer
    <3>2. Asked(n, c) => Asked(n, c)'
      <4>1. Range(inbox[n][c]) \subseteq Range(inbox'[n][c])
        <5>1. CASE c \in cs /\ n = Other(x, c)
          <6>1. inbox'[n][c] = inbox[n][c] \o <<NewBlock(b)>>
            BY <1>30, <3>0, <5>1
          <6>2. Range(inbox[n][c]) \subseteq Range(inbox[n][c] \o <<NewBlock(b)>>)
            BY <1>1, <3>0, InboxIs, RangeGrows
          <6> QED BY <6>1, <6>2
        <5>2. CASE ~ (c \in cs /\ n = Other(x, c))
          BY <1>3, <3>0, <5>2
        <5> QED BY <5>1, <5>2
      <4> QED BY <4>1 DEF Asked
    <3>3. CASE n = x
      <4>1. CASE c \in cs
        <5>1. inbox'[m][c] = inbox[m][c] \o <<NewBlock(b)>>
          BY <1>2, <3>0, <3>3, <4>1
        <5>2. StillSent(n, c, <<NewBlock(b)>>)
          BY <3>3, <4>1
        <5>3. Fits(n, m, c, <<NewBlock(b)>>)
          BY <3>3, <4>1
        <5> QED BY <1>1, <3>1, <5>1, <5>2, <5>3 DEF SendsFit
      <4>2. CASE c \notin cs
        <5>1. inbox'[m][c] = inbox[m][c]
          BY <1>3, <3>0, <4>2
        <5>2. << >> \in Seq(Wire) /\ inbox[m][c] = inbox[m][c] \o << >> /\ Len(<< >>) = 0
          BY <3>0, InboxIs, NothingMore
        <5>3. StillSent(n, c, << >>)
          BY <3>3, <4>2
        <5>4. Fits(n, m, c, << >>)
          BY <5>2 DEF Fits
        <5>5. inbox'[m][c] = inbox[m][c] \o << >>
          BY <5>1, <5>2
        <5> QED BY <3>1, <5>2, <5>3, <5>4, <5>5 DEF SendsFit
      <4> QED BY <4>1, <4>2
    <3>4. CASE n # x
      <4>1. m = x
        BY <3>0, <3>4
      <4>2. inbox'[m][c] = inbox[m][c]
        BY <1>3, <3>0, <4>1
      <4>3. pc'[n] = pc[n] /\ new_block'[n] = new_block[n]
        BY <3>4
      <4> QED BY <3>0, <3>1, <3>2, <4>2, <4>3, NothingFits
    <3> QED BY <3>3, <3>4
  <2> QED BY <1>0, <2>1, <2>2, WaySent
<1> QED BY <1>5, <1>6, <1>7, <1>8, <1>9 DEF FlowInv

\* The height of a block, when it is sent alone.
LEMMA OneBlock ==
    ASSUME Ind, NEW b \in Tips
    PROVE  /\ b.index \in Nat /\ Len(<<NewBlock(b)>>) = 1 /\ NewBlock(b) \in Wire
           /\ <<NewBlock(b)>>[1] = NewBlock(b)
           /\ Height(NewBlock(b)) = b.index + 1
           /\ NewBlock(b).type = "NEW_BLOCK" /\ NewBlock(b).block = b
<1>1. NewBlock(b) \in Wire
  BY DEF Wire
<1>2. NewBlock(b).type = "NEW_BLOCK" /\ NewBlock(b).block = b
  BY DEF NewBlock
<1> QED BY <1>1, <1>2, WireIs

\* node_broadcast_block, at the end of do_mine.
LEMMA AnnounceFlow ==
    ASSUME Ind, TwoNodes, FlowInv, NEW x \in Nodes, MineAnnounce(x)
    PROVE  StillFlows
<1> USE DEF MineAnnounce, nodeVars, peerVars
<1> DEFINE b == new_block[x]
<1>0. b \in Tips
  BY DEF Ind, HeldInv
<1>1. pc'[x] = "menu" /\ \A m \in Nodes \ {x} : pc'[m] = pc[m] /\ new_block'[m] = new_block[m]
  BY DEF Ind, NodeTypes
<1>2. ASSUME NEW m \in Nodes \ {x}, NEW c \in Working \cap peers[x]
      PROVE  Fits(x, m, c, <<NewBlock(b)>>)
  <2>1. b.index < Len(chain[x]) /\ Len(chain[x]) \in Nat /\ Len(chain[m]) \in Nat
    BY ChainFields DEF FlowInv, Had
  <2>2. AnnouncedLast(x, m, c) /\ c \in Conns
    BY WorkingIs DEF FlowInv, Way, Flow
  <2>3. /\ b.index \in Nat /\ Len(<<NewBlock(b)>>) = 1
        /\ <<NewBlock(b)>>[1] = NewBlock(b)
        /\ Height(NewBlock(b)) = b.index + 1
        /\ NewBlock(b).type = "NEW_BLOCK"
    BY <1>0, OneBlock
  <2>4. ASSUME b.index + 1 > Len(chain[m]), NEW i \in 1 .. Len(inbox[m][c]),
               inbox[m][c][i].type = "NEW_BLOCK"
        PROVE  Height(inbox[m][c][i]) <= b.index + 1
    <3>1. inbox[m][c][i].block.index <= b.index
      BY <2>1, <2>2, <2>3, <2>4 DEF AnnouncedLast
    <3>2. /\ inbox[m][c][i].block.index \in Nat
          /\ Height(inbox[m][c][i]) = inbox[m][c][i].block.index + 1
      BY <2>2, <2>4, InboxIs, WireIs
    <3> QED BY <2>3, <3>1, <3>2
  <2>5. b.index + 1 <= Len(chain[x])
    BY <2>1, <2>3
  <2> HIDE DEF b
  <2> QED BY <1>1, <2>3, <2>4, <2>5 DEF Fits
<1>3. ASSUME NEW c \in Working
      PROVE  StillSent(x, c, IF c \in peers[x] THEN <<NewBlock(b)>> ELSE << >>)
  <2>1. Asked(x, c) => Asked(x, c)'
    <3>0. c \in Conns /\ c \in Made
      BY WorkingIs DEF Working
    <3>1. Other(x, c) # x
      BY <3>0 DEF Other, FlowInv, Joined
    <3>2. inbox'[x][c] = inbox[x][c]
      BY <3>0, <3>1 DEF Send
    <3> QED BY <3>2 DEF Asked
  <2>2. c \in peers[x] => \A k : chain[x][k + 1] = b => Carries(<<NewBlock(b)>>[1], k, chain[x][k + 1])
    BY <1>0, OneBlock DEF Carries
  <2>3. Len(<<NewBlock(b)>>) = 1
    OBVIOUS
  <2>4. ASSUME NEW k \in 0 .. Len(chain[x]) - 1, Announcing(x, c, chain[x][k + 1])
        PROVE  c \in peers[x] /\ Carries(<<NewBlock(b)>>[1], k, chain[x][k + 1])
    BY <2>2, <2>4 DEF Announcing
  <2> HIDE DEF b
  <2>5. CASE c \in peers[x]
    <3>1. ASSUME NEW k \in 0 .. Len(chain[x]) - 1, ToBeSent(x, c, k)
          PROVE  \/ ToBeSent(x, c, k)'
                 \/ \E j \in 1 .. Len(<<NewBlock(b)>>) : Carries(<<NewBlock(b)>>[j], k, chain[x][k + 1])
      BY <2>1, <2>3, <2>4, <3>1 DEF ToBeSent, Answering
    <3> QED BY <2>5, <3>1 DEF StillSent
  <2>6. CASE c \notin peers[x]
    BY <2>1, <2>4, <2>6 DEF StillSent, ToBeSent, Answering
  <2> QED BY <2>5, <2>6
<1>4. Announced(x)
  BY <1>1 DEF Announced
<1>5. ASSUME NEW n \in Nodes, NEW c \in Working
      PROVE  Asked(n, c) => Asked(n, c)'
  <2>1. c \in Conns /\ <<NewBlock(b)>> \in Seq(Wire)
    BY <1>0, WorkingIs DEF Wire
  <2>2. inbox'[n][c] = inbox[n][c] \o <<NewBlock(b)>> \/ inbox'[n][c] = inbox[n][c]
    BY <2>1 DEF Send
  <2> HIDE DEF b
  <2>3. Range(inbox[n][c]) \subseteq Range(inbox[n][c] \o <<NewBlock(b)>>)
    BY <2>1, InboxIs, RangeGrows
  <2> QED BY <2>2, <2>3 DEF Asked
<1>6. ASSUME OweInv, NothingOvertakes' PROVE OweInv'
  <2>0. /\ Working' = Working /\ Working \subseteq Conns /\ Working \subseteq Made /\ Made' = Made
        /\ UNCHANGED <<chain, peers, answer, conns, up>>
    BY WorkingIs DEF Working, Made
  <2>1. \A n \in Nodes : Len(chain[n]) \in Nat /\ chain[n] \in built
    BY ChainFields DEF Ind, HeldInv
  <2>2. ASSUME NEW n \in Nodes \ {x}, NEW c \in Working PROVE Remembers(n, c)
    BY <1>1, <1>5, <2>0 DEF Remembers
  <2>3. ASSUME NEW m \in Nodes \ {x}, NEW c \in Working, answer[x][c] # << >>
        PROVE  Owes(x, m, c)'
    <3>0. c \in Conns /\ c \in Made /\ Other(x, c) = m /\ up[c]
      BY <2>0, Ends DEF FlowInv, Working
    <3>1. NewBlock(b) \in Range(inbox'[m][c]) \/ c \notin peers[x]
      <4>1. c \in peers[x] => inbox'[m][c] = inbox[m][c] \o <<NewBlock(b)>>
        BY <3>0 DEF Send
      <4>2. NewBlock(b) \in Wire
        BY <1>0 DEF Wire
      <4> HIDE DEF b
      <4>3. NewBlock(b) \in Range(inbox[m][c] \o <<NewBlock(b)>>)
        BY <3>0, <4>2, InboxIs, JustSent
      <4> QED BY <4>1, <4>3
    <3>2. Other(x, c)' = m
      BY <2>0, <3>0 DEF Other
    <3>3. NewBlock(b).type = "NEW_BLOCK" /\ NewBlock(b).block = b /\ b.index \in Nat
      BY <1>0, OneBlock
    <3>4. c \in peers[x] => b.index < Len(answer[x][c])
      <4>1. answer'[x][c] # << >> /\ c \in Made'
        BY <2>0, <2>3, <3>0
      <4>2. \A msg \in Range(inbox'[m][c]) : msg.type = "NEW_BLOCK" => msg.block.index < Len(answer'[x][c])
        BY <1>6, <3>2, <4>1 DEF NothingOvertakes
      <4> QED BY <2>0, <3>1, <3>3, <4>2
    <3>5. Owes(x, m, c) /\ Len(answer[x][c]) \in Nat
      BY <3>0, <1>6, AnswerIs DEF OweInv
    <3>6. ASSUME NEW k \in Len(answer[x][c]) .. Len(chain[x]) - 1
          PROVE  ~ Announcing(x, c, chain[x][k + 1])
      <4>1. k + 1 \in 1 .. Len(chain[x]) /\ k + 1 - 1 = k /\ k >= Len(answer[x][c])
        BY <2>1, <3>5
      <4>2. chain[x][k + 1].index = k
        BY <2>1, <4>1 DEF FlowInv, Sound
      <4>3. SUFFICES ASSUME b = chain[x][k + 1], c \in peers[x] PROVE FALSE
        BY DEF Announcing
      <4>4. b.index = k
        BY <4>2, <4>3
      <4> QED BY <3>3, <3>4, <3>5, <4>1, <4>3, <4>4
    <3>7. chain'[m] = chain[m] /\ chain'[x] = chain[x] /\ answer'[x][c] = answer[x][c]
      BY <2>0
    <3>8. Asked(x, c) => Asked(x, c)'
      BY <1>5
    <3> QED BY <3>5, <3>6, <3>7, <3>8 DEF Owes
  <2>4. \A n \in Nodes, c \in Conns : answer'[n][c] = answer[n][c] /\ (c \in peers[n] => c \in peers'[n])
    BY <2>0
  <2>5. \A n \in Nodes : \A m \in Nodes \ {n} : \A c \in Working :
           answer[n][c] # << >> => Remembers(n, c) \/ Owes(n, m, c)'
    BY <2>2, <2>3
  <2> HIDE DEF b
  <2> QED BY <1>6, <2>0, <2>1, <2>4, <2>5, OweStep
<1> HIDE DEF b
<1>7. FlowInv'
  BY <1>0, <1>1, <1>2, <1>3, <1>4, BroadcastFlow DEF b
<1> QED BY <1>6, <1>7 DEF StillFlows

\* broadcast_block_except: a block that is passed on is news to no one, for it
\* came from the other node; and when the connection it came on is lost, no
\* other is held.
LEMMA RelayFlow ==
    ASSUME Ind, TwoNodes, FlowInv, BothWork, NEW x \in Nodes, NEW e \in Conns, RelayBlock(x, e)
    PROVE  StillFlows
<1> USE DEF RelayBlock, nodeVars, mainVars, peerVars
<1> DEFINE b == relay[x][e]
<1>0. b \in Tips /\ e \in peers[x] /\ b.index < Len(chain[x])
  BY DEF Ind, HeldInv, FlowInv, Had
<1>1. \A n \in Nodes, c \in Conns : relay'[n][c] \in {relay[n][c], NoBlock}
  BY DEF Ind, HeldInv
<1>2. ASSUME NEW m \in Nodes \ {x}, NEW c \in Working \cap (peers[x] \ {e})
      PROVE  Fits(x, m, c, <<NewBlock(b)>>)
  <2>1. e \in Made /\ c \in Made
    BY <1>0 DEF Working, Ind, NodeTypes
  <2>2. Other(x, e) = m /\ Other(x, c) = m
    BY <2>1, Ends DEF FlowInv
  <2>3. up[e]
    BY <1>0, <1>2, <2>2 DEF BothWork
  <2>4. b.index < Len(chain[m])
    <3>1. Flow(m, x, e)
      BY <2>1, <2>3 DEF FlowInv, Way, Working
    <3> QED BY <3>1 DEF Flow, FromPeer
  <2>5. /\ b.index \in Nat /\ Len(<<NewBlock(b)>>) = 1
        /\ <<NewBlock(b)>>[1] = NewBlock(b)
        /\ Height(NewBlock(b)) = b.index + 1
    BY <1>0, OneBlock
  <2>6. b.index + 1 <= Len(chain[x]) /\ ~ (b.index + 1 > Len(chain[m]))
    <3>1. Len(chain[x]) \in Nat /\ Len(chain[m]) \in Nat
      BY ChainFields
    <3> QED BY <1>0, <2>4, <2>5, <3>1
  <2> HIDE DEF b
  <2> QED BY <2>5, <2>6 DEF Fits
<1>3. ASSUME NEW c \in Working
      PROVE  \A more : StillSent(x, c, more)
  <2>0. c \in Conns /\ c \in Made
    BY WorkingIs DEF Working
  <2>1. Other(x, c) # x
    BY <2>0 DEF Other, FlowInv, Joined
  <2>2. inbox'[x][c] = inbox[x][c]
    BY <2>0, <2>1 DEF Send
  <2> QED BY <2>2 DEF Asked, StillSent, ToBeSent, Announcing, Answering
<1>4. Announced(x)
  BY DEF Announced
<1>5. peers[x] \ {e} \in SUBSET peers[x]
  OBVIOUS
<1>6. inbox' = Send(inbox, x, peers[x] \ {e}, <<NewBlock(b)>>)
  OBVIOUS
<1>7. UNCHANGED <<chain, pc, new_block, conns, up, backlog, peers, accepting, answer, built>>
  OBVIOUS
<1>8. ASSUME OweInv PROVE OweInv'
  <2>1. ASSUME NEW n \in Nodes, NEW c \in Working PROVE Remembers(n, c)
    <3>1. c \in Conns /\ <<NewBlock(b)>> \in Seq(Wire)
      BY <1>0, WorkingIs DEF Wire
    <3>2. inbox'[n][c] = inbox[n][c] \o <<NewBlock(b)>> \/ inbox'[n][c] = inbox[n][c]
      BY <3>1 DEF Send
    <3> HIDE DEF b
    <3>3. Range(inbox[n][c]) \subseteq Range(inbox[n][c] \o <<NewBlock(b)>>)
      BY <3>1, InboxIs, RangeGrows
    <3>4. Asked(n, c) => Asked(n, c)'
      BY <3>2, <3>3 DEF Asked
    <3> QED BY <3>4 DEF Remembers
  <2> QED BY <1>8, <2>1, OweSame
<1> HIDE DEF b, RelayBlock
<1>9. FlowInv'
  BY <1>0, <1>1, <1>2, <1>3, <1>4, <1>5, <1>6, <1>7, BroadcastFlow
<1> QED BY <1>8, <1>9 DEF StillFlows
\* A reader that has a message to read on a connection that works is past the
\* backlog.
LEMMA OpenReader ==
    ASSUME Ind, Joined, TwoNodes, NEW x \in Nodes, NEW e \in peers[x],
           inbox[x][e] # << >>, up[e]
    PROVE  e \in Working /\ e \notin backlog
<1>1. e \in Working
  BY DEF Working, Ind, NodeTypes
<1>2. e \in backlog => conns[e][1] = x
  BY OwnBacklog
<1> QED BY <1>1, <1>2 DEF Joined

\* While a node still holds a connection that is down, the ones that work wait
\* in its backlog.
LEMMA ClosedReader ==
    ASSUME Ind, Joined, TwoNodes, BothWork, NEW x \in Nodes, NEW y \in Nodes \ {x},
           NEW e \in peers[x], ~ up[e], NEW d \in Working
    PROVE  /\ d # e /\ d \in backlog /\ conns[d][1] = y /\ inbox[y][d] = << >>
           /\ RequestChain \in Range(inbox[x][d])
<1>1. e \in Made /\ d \in Made /\ d # e
  BY DEF Working, Ind, NodeTypes
<1>2. Other(x, e) = y /\ Other(x, d) = y
  BY <1>1, Ends
<1>3. d \notin peers[x]
  BY <1>1, <1>2 DEF BothWork
<1>4. \/ conns[d][1] = x /\ conns[d][2] = y
      \/ conns[d][1] = y /\ conns[d][2] = x
  BY <1>1, Ends
<1>5. conns[d][1] = y /\ conns[d][2] = x
  BY <1>3, <1>4 DEF Joined
<1>6. d \in backlog
  BY <1>3, <1>5 DEF Joined
<1> QED BY <1>1, <1>5, <1>6 DEF Joined

\* What is not the head of a queue is in its tail.
LEMMA RangeTail ==
    ASSUME NEW S, NEW s \in Seq(S), s # << >>, NEW z \in Range(s), z # Head(s)
    PROVE  z \in Range(Tail(s))
<1>1. /\ Tail(s) \in Seq(S) /\ Len(Tail(s)) = Len(s) - 1
      /\ Len(s) \in Nat \ {0} /\ Head(s) = s[1]
      /\ \A i \in 1 .. Len(s) - 1 : Tail(s)[i] = s[i + 1]
  BY QueueShrinks
<1>2. PICK i \in 1 .. Len(s) : z = s[i]
  BY LenProperties DEF Range
<1>3. i # 1
  BY <1>1, <1>2
<1>4. i - 1 \in 1 .. Len(s) - 1 /\ i - 1 + 1 = i
  BY <1>1, <1>3
<1>5. i - 1 \in DOMAIN Tail(s) /\ Tail(s)[i - 1] = z
  <2>1. DOMAIN Tail(s) = 1 .. Len(s) - 1
    BY <1>1, LenProperties
  <2> QED BY <1>1, <1>2, <1>4, <2>1
<1> QED BY <1>5 DEF Range

\* The rest of y's chain, of which x has the first l blocks, is on its way to x
\* on some connection, behind the message that x reads from e.
BehindHead(y, x, e, l) ==
    \E c \in Working : \A k \in l .. Len(chain[y]) - 1 :
        /\ Delivered(y, x, c, 0, k)
        /\ c = e => \/ ~ Carries(Head(inbox[x][e]), k, chain[y][k + 1])
                    \/ Delivered(y, x, e, 0 + 1, k)

\* The chain v that x takes over from a connection that works is no longer than
\* the other node's, and the rest of that is on its way.
TakesFrom(x, e, v) ==
    up[e] => \A y \in Nodes \ {x} :
        /\ v # chain[x] => Len(v) <= Len(chain[y])
        /\ Working # {} /\ IsPrefix(v, chain[y]) => BehindHead(y, x, e, Len(v))

\* A block that x is to pass on, now that it has the chain v, came from the other
\* node.
PassesOn(x, e, v) ==
    \A n \in Nodes, c \in Conns :
        \/ relay'[n][c] = relay[n][c]
        \/ /\ n = x /\ c = e /\ relay'[x][e].index < Len(v)
           /\ up[e] => \A y \in Nodes \ {x} : relay'[x][e].index < Len(chain[y])

\* x reads a message from e that may give it another chain, v.
LEMMA TakeFlow ==
    ASSUME Ind, TwoNodes, FlowInv, BothWork, NEW x \in Nodes, NEW e \in peers[x],
           inbox[x][e] # << >>, Head(inbox[x][e]) # RequestChain,
           inbox' = Consumed(x, e), UNCHANGED <<mainVars, peerVars, answer, built>>,
           NEW v \in built, chain' = [chain EXCEPT ![x] = v],
           v = chain[x] \/ Len(v) > Len(chain[x]),
           TakesFrom(x, e, v), PassesOn(x, e, v)
    PROVE  StillFlows
<1> USE DEF mainVars, peerVars
<1> USE DEF TakesFrom, PassesOn
<1>0. /\ Joined /\ Working \subseteq Conns /\ Made \subseteq Conns /\ Working \subseteq Made
      /\ Working' = Working /\ e \in Conns /\ e \in Made
  BY WorkingIs DEF Working, Made, FlowInv, Ind, NodeTypes
<1>1. /\ chain'[x] = v /\ \A y \in Nodes \ {x} : chain'[y] = chain[y]
      /\ v = chain[x] => chain' = chain
  BY DEF Ind, HeldInv
<1>2. /\ inbox'[x][e] = Tail(inbox[x][e])
      /\ \A n \in Nodes, c \in Conns : n # x \/ c # e => inbox'[n][c] = inbox[n][c]
  BY <1>0 DEF Consumed, Ind, HeldInv
<1>3. up[e] => e \in Working /\ e \notin backlog
  BY <1>0, OpenReader
<1>4. ~ up[e] => e \notin Working
  BY DEF Working
<1>5. Len(v) \in Nat /\ \A n \in Nodes : Len(chain[n]) \in Nat
  BY BuiltIs, ChainFields
<1>50. Len(v) >= Len(chain[x])
  BY <1>5
<1>6. Joined'
  <2>1. \A n \in Nodes, c \in Conns \ Made : inbox'[n][c] = inbox[n][c]
    BY <1>0, <1>2
  <2>2. ASSUME NEW c \in Working, c \in backlog
        PROVE  /\ inbox'[conns[c][1]][c] = inbox[conns[c][1]][c]
               /\ RequestChain \in Range(inbox'[conns[c][2]][c])
    <3>1. c # e
      BY <1>3, <1>4, <2>2
    <3>2. c \in Conns /\ conns[c][1] \in Nodes /\ conns[c][2] \in Nodes
      <4>1. conns[c] \in Nodes \X Nodes
        BY <1>0, ElementOfSeq DEF Ind, NodeTypes, Made
      <4> QED BY <1>0, <4>1
    <3>3. RequestChain \in Range(inbox[conns[c][2]][c])
      BY <1>0, <2>2 DEF Joined
    <3> QED BY <1>2, <3>1, <3>2, <3>3
  <2> QED BY <1>0, <2>1, <2>2, JoinedKept
<1>7. Greeting'
  BY DEF FlowInv, Greeting, Made
<1>8. Had'
  <2>1. \A n \in Nodes : Len(chain'[n]) >= Len(chain[n]) /\ Len(chain'[n]) \in Nat
    BY <1>1, <1>5, <1>50
  <2>2. ASSUME NEW n \in Nodes, pc[n] = "announce"
        PROVE  new_block[n].index < Len(chain'[n])
    <3>1. new_block[n].index < Len(chain[n]) /\ new_block[n].index \in Nat
      BY <2>2 DEF FlowInv, Had, Ind, NodeTypes, IsBlock
    <3> QED BY <1>5, <2>1, <3>1
  <2>3. ASSUME NEW n \in Nodes, NEW c \in Conns, relay'[n][c] # NoBlock
        PROVE  c \in peers[n] /\ relay'[n][c].index < Len(chain'[n])
    <3>1. CASE relay'[n][c] = relay[n][c]
      <4>1. c \in peers[n] /\ relay[n][c].index < Len(chain[n])
        BY <2>3, <3>1 DEF FlowInv, Had
      <4>2. relay[n][c].index \in Nat
        BY <2>3, <3>1, TipIsBlock DEF Ind, HeldInv, IsBlock
      <4> QED BY <1>5, <2>1, <3>1, <4>1, <4>2
    <3>2. CASE relay'[n][c] # relay[n][c]
      <4>1. n = x /\ c = e /\ relay'[x][e].index < Len(v)
        BY <3>2
      <4> QED BY <1>1, <4>1
    <3> QED BY <3>1, <3>2
  <2> QED BY <2>2, <2>3 DEF Had
<1>9. Sound'
  BY DEF FlowInv, Sound
<1>10. ASSUME NEW y \in Nodes \ {x}
       PROVE  Way(y, x)'
  <2>1. Way(y, x)
    BY DEF FlowInv
  <2>2. ASSUME NEW c \in Working
        PROVE  /\ inbox'[x][c] = IF c = e THEN Tail(inbox[x][c]) ELSE inbox[x][c]
               /\ Asked(y, c) => Asked(y, c)'
               /\ FromPeer(y, x, c)' /\ Flow(y, x, c)
    <3>1. c \in Conns /\ inbox'[y][c] = inbox[y][c]
      BY <1>0, <1>2
    <3>2. inbox'[x][c] = IF c = e THEN Tail(inbox[x][c]) ELSE inbox[x][c]
      BY <1>2, <3>1
    <3>3. Asked(y, c) => Asked(y, c)'
      BY <3>1 DEF Asked
    <3>4. FromPeer(y, x, c) /\ Flow(y, x, c)
      BY <2>1 DEF Way, Flow
    <3>5. FromPeer(y, x, c)'
      <4>1. CASE relay'[x][c] = relay[x][c]
        BY <1>1, <3>4, <4>1 DEF FromPeer
      <4>2. CASE relay'[x][c] # relay[x][c]
        <5>1. c = e /\ up[e]
          BY <3>1, <4>2 DEF Working
        <5>2. relay'[x][e].index < Len(chain[y])
          BY <3>1, <4>2, <5>1
        <5> QED BY <1>1, <5>1, <5>2 DEF FromPeer
      <4> QED BY <4>1, <4>2
    <3> QED BY <3>2, <3>3, <3>4, <3>5
  <2>3. /\ chain'[y] = chain[y] /\ pc'[y] = pc[y] /\ new_block'[y] = new_block[y]
        /\ peers'[y] = peers[y] /\ answer'[y] = answer[y]
        /\ Len(chain'[x]) \in Nat /\ Len(chain'[x]) >= Len(chain[x])
    BY <1>1, <1>5, <1>50
  <2>4. \A c \in Working :
           /\ Flow(y, x, c)'
           /\ \A k \in 0 .. Len(chain[y]) - 1 :
                /\ Delivered(y, x, c, 0, k)
                /\ c = e => \/ ~ Carries(Head(inbox[x][e]), k, chain[y][k + 1])
                            \/ Delivered(y, x, e, 0 + 1, k)
                => Delivered(y, x, c, 0, k)'
    <3> HIDE DEF mainVars, peerVars, TakesFrom, PassesOn
    <3> QED BY <1>0, <2>2, <2>3, TowardsReader
  <2>5. CatchesUp(y, x)'
    <3> SUFFICES ASSUME Working # {}, IsPrefix(v, chain[y])
                 PROVE  \E c \in Working : RestDelivered(y, x, c, 0, Len(v))'
      BY <1>0, <1>1, <2>3 DEF CatchesUp, RestDelivered
    <3>1. CASE up[e]
      <4>1. PICK c \in Working : \A k \in Len(v) .. Len(chain[y]) - 1 :
               /\ Delivered(y, x, c, 0, k)
               /\ c = e => \/ ~ Carries(Head(inbox[x][e]), k, chain[y][k + 1])
                           \/ Delivered(y, x, e, 0 + 1, k)
        BY <3>1 DEF BehindHead
      <4>2. ASSUME NEW k \in Len(v) .. Len(chain[y]) - 1
            PROVE  Delivered(y, x, c, 0, k)'
        <5>1. k \in 0 .. Len(chain[y]) - 1
          BY <1>5
        <5> QED BY <2>4, <4>1, <5>1
      <4>3. RestDelivered(y, x, c, 0, Len(v))'
        BY <1>1, <2>3, <4>2 DEF RestDelivered
      <4> QED BY <4>3
    <3>2. CASE ~ up[e]
      <4>1. PICK c \in Working : TRUE
        OBVIOUS
      <4>2. c \in backlog /\ conns[c][1] = y
        BY <1>0, <3>2, ClosedReader
      <4>3. Asked(y, c)'
        BY <4>2 DEF Asked
      <4>4. RestDelivered(y, x, c, 0, Len(v))'
        BY <4>3 DEF RestDelivered, Delivered, ToBeSent
      <4> QED BY <4>4
    <3> QED BY <3>1, <3>2
  <2> QED BY <1>0, <2>4, <2>5 DEF Way
<1>11. ASSUME NEW y \in Nodes \ {x}
       PROVE  Way(x, y)'
  <2>1. Way(x, y) /\ Announced(x)
    BY DEF FlowInv, Announced
  <2>2. ASSUME NEW c \in Working
        PROVE  /\ c \in Conns /\ inbox'[y][c] = inbox[y][c] /\ relay'[y][c] = relay[y][c]
               /\ Asked(x, c) => Asked(x, c)'
    <3>1. c \in Conns /\ inbox'[y][c] = inbox[y][c] /\ relay'[y][c] = relay[y][c]
      BY <1>0, <1>2
    <3>2. RequestChain \in Range(inbox[x][c]) => RequestChain \in Range(inbox'[x][c])
      <4>1. CASE c = e
        <5>1. inbox[x][e] \in Seq(Wire)
          BY <1>0, InboxIs
        <5> QED BY <1>2, <4>1, <5>1, RangeTail
      <4>2. CASE c # e
        BY <1>2, <3>1, <4>2
      <4> QED BY <4>1, <4>2
    <3> QED BY <3>1, <3>2 DEF Asked
  <2>3. CASE v = chain[x]
    <3>1. chain' = chain
      BY <1>1, <2>3
    <3>2. ASSUME NEW c \in Working
          PROVE  SendsFit(x, y, c) /\ FromPeer(x, y, c)'
      <4>1. SendsFit(x, y, c)
        BY <2>2, <3>1, NothingFits
      <4>2. FromPeer(x, y, c)
        BY <2>1 DEF Way, Flow
      <4>3. FromPeer(x, y, c)'
        BY <2>2, <3>1, <4>2 DEF FromPeer
      <4> QED BY <4>1, <4>3
    <3> QED BY <1>0, <2>1, <3>1, <3>2, WaySent
  <2>4. CASE v # chain[x]
    <3>0. Len(v) > Len(chain[x]) /\ chain'[y] = chain[y]
      BY <1>1, <2>4
    <3>1. ASSUME NEW c \in Working
          PROVE  Flow(x, y, c)'
      <4>1. Flow(x, y, c) /\ Within(x, y, c) /\ FromPeer(x, y, c)
        BY <2>1 DEF Way, Flow
      <4>2. FromPeer(x, y, c)'
        <5>1. relay[y][c] # NoBlock => relay[y][c].index \in Nat
          BY <2>2, TipIsBlock DEF Ind, HeldInv, IsBlock
        <5> QED BY <1>1, <1>5, <1>50, <2>2, <4>1, <5>1 DEF FromPeer
      <4>3. ASSUME NEW i \in 1 .. Len(inbox[y][c])
            PROVE  Height(inbox[y][c][i]) <= Len(chain[y])
        <5>1. CASE up[e]
          <6>1. Height(inbox[y][c][i]) <= Len(chain[x]) /\ Height(inbox[y][c][i]) \in Nat
            BY <2>2, <4>1, InboxIs, WireIs DEF Within
          <6>2. Len(v) <= Len(chain[y])
            BY <2>4, <5>1
          <6> QED BY <1>5, <3>0, <6>1, <6>2
        <5>2. CASE ~ up[e]
          <6>1. inbox[y][c] = << >>
            BY <1>0, <5>2, ClosedReader
          <6> QED BY <6>1
        <5> QED BY <5>1, <5>2
      <4> QED BY <1>1, <1>5, <1>50, <2>2, <3>0, <4>1, <4>2, <4>3, FlowStale
    <3>2. CatchesUp(x, y)'
      <4> SUFFICES ASSUME Working # {}
                   PROVE  \E c \in Working : RestDelivered(x, y, c, 0, Len(chain[y]))'
        BY <1>0, <1>1, <3>0 DEF CatchesUp, RestDelivered
      <4>1. PICK c \in Working : TRUE
        OBVIOUS
      <4>2. CASE up[e]
        <5>1. Len(v) <= Len(chain[y])
          BY <2>4, <4>2
        <5>2. Len(chain[y]) .. Len(v) - 1 = {}
          BY <1>5, <5>1
        <5>3. RestDelivered(x, y, c, 0, Len(chain[y]))'
          BY <1>1, <3>0, <5>2 DEF RestDelivered
        <5> QED BY <5>3
      <4>3. CASE ~ up[e]
        <5>1. RequestChain \in Range(inbox[x][c]) /\ c # e
          BY <1>0, <4>3, ClosedReader
        <5>2. Asked(x, c)'
          BY <2>2, <5>1 DEF Asked
        <5>3. RestDelivered(x, y, c, 0, Len(chain[y]))'
          BY <5>2 DEF RestDelivered, Delivered, ToBeSent
        <5> QED BY <5>3
      <4> QED BY <4>2, <4>3
    <3> QED BY <1>0, <3>1, <3>2 DEF Way
  <2> QED BY <2>3, <2>4
<1>12. ASSUME NEW n \in Nodes, NEW m \in Nodes \ {n}
       PROVE  Way(n, m)'
  <2>1. n = x \/ m = x
    <3>1. Nodes = {n, m}
      BY DEF TwoNodes
    <3> QED BY <3>1
  <2> QED BY <1>10, <1>11, <2>1
<1>13. \A c \in Conns : Asked(x, c) => Asked(x, c)'
  <2> SUFFICES ASSUME NEW c \in Conns, Asked(x, c) PROVE Asked(x, c)'
    OBVIOUS
  <2>1. RequestChain \in Range(inbox[x][c]) => RequestChain \in Range(inbox'[x][c])
    <3>1. CASE c = e
      BY <1>0, <1>2, <3>1, InboxIs, RangeTail
    <3>2. CASE c # e
      BY <1>2, <3>2
    <3> QED BY <3>1, <3>2
  <2> QED BY <2>1 DEF Asked
<1>14. ASSUME OweInv PROVE OweInv'
  <2>1. \A n \in Nodes : Len(chain'[n]) \in Nat /\ Len(chain'[n]) >= Len(chain[n])
    BY <1>1, <1>5, <1>50
  <2>2. ASSUME NEW y \in Nodes \ {x}, NEW c \in Working PROVE Remembers(y, c)
    <3>1. inbox'[y][c] = inbox[y][c]
      BY <1>0, <1>2
    <3> QED BY <1>1, <3>1 DEF Remembers, Asked
  <2>3. ASSUME NEW y \in Nodes \ {x}, NEW c \in Working, answer[x][c] # << >>
        PROVE  Remembers(x, c) \/ Owes(x, y, c)'
    <3>0. c \in Conns
      BY <1>0
    <3>1. CASE v = chain[x]
      BY <1>1, <1>13, <3>0, <3>1 DEF Remembers
    <3>2. CASE v # chain[x] /\ up[e]
      <4>1. Len(v) <= Len(chain[y]) /\ Len(v) > Len(chain[x])
        BY <3>2
      <4>2. Len(answer[x][c]) <= Len(chain[x]) /\ Len(answer[x][c]) \in Nat
        BY <1>14, <2>3, <3>0, AnswerIs DEF OweInv, Answers
      <4>3. ~ (Len(answer[x][c]) > Len(chain[y]))
        BY <1>5, <4>1, <4>2
      <4>4. chain'[y] = chain[y] /\ answer'[x][c] = answer[x][c]
        BY <1>1
      <4> QED BY <4>3, <4>4 DEF Owes
    <3>3. CASE ~ up[e]
      <4>1. RequestChain \in Range(inbox[x][c])
        BY <1>0, <3>3, ClosedReader
      <4>2. Asked(x, c)'
        BY <1>13, <3>0, <4>1 DEF Asked
      <4> QED BY <4>2 DEF Owes
    <3> QED BY <3>1, <3>2, <3>3
  <2>4. \A n \in Nodes, c \in Conns : answer'[n][c] = answer[n][c] /\ (c \in peers[n] => c \in peers'[n])
    OBVIOUS
  <2>5. \A n \in Nodes : \A m \in Nodes \ {n} : \A c \in Working :
           answer[n][c] # << >> => Remembers(n, c) \/ Owes(n, m, c)'
    <3> SUFFICES ASSUME NEW n \in Nodes, NEW m \in Nodes \ {n}, NEW c \in Working, answer[n][c] # << >>
                 PROVE  Remembers(n, c) \/ Owes(n, m, c)'
      OBVIOUS
    <3>1. CASE n = x
      BY <2>3, <3>1
    <3>2. CASE n # x
      BY <2>2, <3>2
    <3> QED BY <3>1, <3>2
  <2> QED BY <1>0, <1>14, <2>1, <2>4, <2>5, OweStep
<1> QED BY <1>6, <1>7, <1>8, <1>9, <1>12, <1>14 DEF FlowInv, StillFlows
\* The next block of a chain is accepted by a node that holds the chain below it.
LEMMA NextAccepted ==
    ASSUME Ind, Sound, NEW c \in built, NEW d \in built, IsPrefix(c, d), Len(c) < Len(d)
    PROVE  AddBlockAccepts(c, d[Len(c) + 1])
<1>1. /\ c \in Seq(Range(c)) /\ Len(c) \in Nat \ {0}
      /\ d \in Seq(Range(d)) /\ Len(d) \in Nat \ {0} /\ Len(d) <= MAX_BLOCKS
  BY BuiltIs
<1>2. \A i \in 1 .. Len(c) : c[i] = d[i]
  BY <1>1, PrefixIs
<1> DEFINE j == Len(c) + 1
<1>3. j \in 2 .. Len(d) /\ j - 1 = Len(c) /\ Len(c) \in 1 .. Len(c) /\ j \in 1 .. Len(d)
      /\ Len(c) \in 1 .. Len(d)
  BY <1>1
<1>4. d[j].index = Len(c) /\ c[Len(c)].index = Len(c) - 1
  BY <1>1, <1>3 DEF Sound
<1>5. ChainValidate(d)
  BY DEF Sound
<1> HIDE DEF j
<1>6. d[j].prev_hash = d[j - 1].hash /\ BlockValidate(d[j])
  BY <1>3, <1>5 DEF ChainValidate
<1>7. Last(c) = c[Len(c)]
  BY DEF Last
<1>8. d[j].prev_hash = Last(c).hash
  BY <1>2, <1>3, <1>6, <1>7
<1>9. d[j].index = Last(c).index + 1
  BY <1>1, <1>4, <1>7
<1>10. Len(c) < MAX_BLOCKS
  BY <1>1, CapacityAssumption
<1> QED BY <1>6, <1>8, <1>9, <1>10 DEF AddBlockAccepts, j

\* A head that is no news to x leaves the rest on its way.
LEMMA NoNews ==
    ASSUME Ind, FlowInv, NEW x \in Nodes, NEW e, NEW y \in Nodes \ {x},
           Working # {}, IsPrefix(chain[x], chain[y]),
           \A k \in Len(chain[x]) .. Len(chain[y]) - 1 :
               ~ Carries(Head(inbox[x][e]), k, chain[y][k + 1])
    PROVE  BehindHead(y, x, e, Len(chain[x]))
<1>1. PICK c \in Working : RestDelivered(y, x, c, 0, Len(chain[x]))
  BY DEF FlowInv, Way, CatchesUp
<1> QED BY <1>1 DEF RestDelivered, BehindHead

\* on_new_tx.
LEMMA RecvTxFlow ==
    ASSUME Ind, TwoNodes, FlowInv, BothWork, NEW x \in Nodes, NEW e \in Conns, RecvTx(x, e)
    PROVE  StillFlows
<1>1. /\ e \in peers[x] /\ inbox[x][e] # << >> /\ Head(inbox[x][e]).type = "NEW_TX"
      /\ inbox' = Consumed(x, e)
      /\ UNCHANGED <<chain, mainVars, peerVars, relay, answer, built>>
  BY DEF RecvTx, Reading
<1>2. Head(inbox[x][e]) # RequestChain
  BY <1>1 DEF RequestChain
<1>3. \A k, b : ~ Carries(Head(inbox[x][e]), k, b)
  BY <1>1 DEF Carries
<1>4. chain[x] \in built /\ chain' = [chain EXCEPT ![x] = chain[x]]
  BY <1>1 DEF Ind, HeldInv
<1>5. \A y \in Nodes \ {x} :
         Working # {} /\ IsPrefix(chain[x], chain[y]) => BehindHead(y, x, e, Len(chain[x]))
  BY <1>3, NoNews
<1>6. UNCHANGED <<mainVars, peerVars, answer, built>> /\ \A n \in Nodes, c \in Conns : relay'[n][c] = relay[n][c]
  BY <1>1
<1> DEFINE v == chain[x]
<1>7. v = chain[x] /\ v \in built /\ chain' = [chain EXCEPT ![x] = v]
  BY <1>4
<1>8. \A y \in Nodes \ {x} : Working # {} /\ IsPrefix(v, chain[y]) => BehindHead(y, x, e, Len(v))
  BY <1>5
<1> HIDE DEF v
<1>9. TakesFrom(x, e, v) /\ PassesOn(x, e, v)
  BY <1>6, <1>7, <1>8 DEF TakesFrom, PassesOn
<1> QED BY <1>1, <1>2, <1>6, <1>7, <1>9, TakeFlow

\* chain_replace: of an answer that is taken over, the rest follows; one that is
\* not is no longer than the chain that is held.
LEMMA RecvChainFlow ==
    ASSUME Ind, TwoNodes, FlowInv, BothWork, NEW x \in Nodes, NEW e \in Conns, RecvChain(x, e)
    PROVE  StillFlows
<1> DEFINE M == inbox[x][e]
           r == Head(M).chain
           v == ChainReplace(chain[x], r)
<1>1. /\ e \in peers[x] /\ M # << >> /\ Head(M).type = "CHAIN_RESPONSE"
      /\ inbox' = Consumed(x, e) /\ UNCHANGED <<mainVars, peerVars, relay, answer, built>>
      /\ chain' = [chain EXCEPT ![x] = v]
  BY DEF RecvChain, Reading, Ind, HeldInv
<1>2. Head(M) # RequestChain
  BY <1>1 DEF RequestChain
<1>3. /\ r \in built /\ Len(r) \in Nat /\ chain[x] \in built
      /\ \A n \in Nodes : Len(chain[n]) \in Nat
  BY <1>1, ReadMessage, BuiltIs, ChainFields DEF Ind, HeldInv
<1>4. M[1] = Head(M) /\ Len(M) \in Nat \ {0} /\ 1 \in 1 .. Len(M) /\ Head(M) \in Wire
  BY <1>1, InboxIs, QueueShrinks
<1>5. Height(Head(M)) = Len(r)
  BY <1>1, <1>4, WireIs
<1>6. IF Len(r) > Len(chain[x]) THEN v = r ELSE v = chain[x]
  <2>1. ChainValidate(r)
    BY <1>3 DEF FlowInv, Sound
  <2> HIDE DEF r
  <2> QED BY <2>1 DEF ChainReplace, ReplaceAccepts
<1> HIDE DEF v, r
<1>7. v \in built /\ (v = chain[x] \/ Len(v) > Len(chain[x]))
  BY <1>3, <1>6
<1>8. ASSUME up[e], NEW y \in Nodes \ {x}
      PROVE  /\ v # chain[x] => Len(v) <= Len(chain[y])
             /\ Working # {} /\ IsPrefix(v, chain[y]) => BehindHead(y, x, e, Len(v))
  <2>1. e \in Working
    BY <1>1, <1>8, OpenReader DEF FlowInv
  <2>2. Flow(y, x, e)
    BY <2>1 DEF FlowInv, Way
  <2>3. CASE Len(r) > Len(chain[x])
    <3>1. v = r
      BY <1>6, <2>3
    <3>2. Len(r) <= Len(chain[y])
      <4>1. Height(M[1]) <= Len(chain[y])
        BY <1>4, <2>2 DEF Flow, Within
      <4> QED BY <1>4, <1>5, <4>1
    <3>3. ASSUME IsPrefix(r, chain[y])
          PROVE  BehindHead(y, x, e, Len(r))
      <4>1. RestDelivered(y, x, e, 1, Len(r))
        <5>1. /\ M[1].type = "CHAIN_RESPONSE" /\ M[1].chain = r
          BY <1>1, <1>4 DEF r
        <5> QED BY <1>4, <2>2, <2>3, <3>3, <5>1 DEF Flow, Followed
      <4>2. ASSUME NEW k \in Len(r) .. Len(chain[y]) - 1
            PROVE  Delivered(y, x, e, 0, k) /\ Delivered(y, x, e, 0 + 1, k)
        <5>1. Delivered(y, x, e, 1, k)
          BY <4>1 DEF RestDelivered
        <5>2. InTransit(y, x, e, 1, k) => InTransit(y, x, e, 0, k)
          <6>1. \A j \in 1 + 1 .. Len(M) : j \in 0 + 1 .. Len(M)
            BY <1>4
          <6> QED BY <6>1 DEF InTransit
        <5> QED BY <5>1, <5>2 DEF Delivered
      <4> QED BY <2>1, <4>2 DEF BehindHead
    <3> QED BY <3>1, <3>2, <3>3
  <2>4. CASE ~ (Len(r) > Len(chain[x]))
    <3>1. v = chain[x]
      BY <1>6, <2>4
    <3>2. ASSUME NEW k \in Len(chain[x]) .. Len(chain[y]) - 1
          PROVE  ~ Carries(Head(M), k, chain[y][k + 1])
      <4>1. ~ (Len(r) > k)
        BY <1>3, <2>4
      <4> QED BY <1>1, <4>1 DEF Carries, r
    <3>3. Working # {} /\ IsPrefix(chain[x], chain[y]) => BehindHead(y, x, e, Len(chain[x]))
      BY <3>2, NoNews
    <3> QED BY <3>1, <3>3
  <2> QED BY <2>3, <2>4
<1>9. \A n \in Nodes, c \in Conns : relay'[n][c] = relay[n][c]
  BY <1>1
<1>10. UNCHANGED <<mainVars, peerVars, answer, built>>
  BY <1>1
<1>11. TakesFrom(x, e, v) /\ PassesOn(x, e, v)
  BY <1>8, <1>9 DEF TakesFrom, PassesOn
<1> QED BY <1>1, <1>2, <1>7, <1>10, <1>11, TakeFlow
\* A block that comes too early is in a later answer too, or the chain will be
\* sent again.
LEMMA EarlyBlock ==
    ASSUME Ind, TwoNodes, FlowInv, NothingOvertakes,
           NEW x \in Nodes, NEW y \in Nodes \ {x}, NEW e \in Working,
           inbox[x][e] # << >>, Head(inbox[x][e]).type = "NEW_BLOCK",
           NEW k \in Nat, NEW l \in Nat, l < k, k < Len(chain[y]), l = Len(chain[x]),
           Head(inbox[x][e]).block = chain[y][k + 1],
           Delivered(y, x, e, 0, l)
    PROVE  Delivered(y, x, e, 0 + 1, k)
<1> DEFINE M == inbox[x][e]
           C == chain[y]
<1>0. e \in Conns /\ Len(C) \in Nat /\ C \in built
  BY WorkingIs, ChainFields DEF Ind, HeldInv
<1>1. M[1] = Head(M) /\ Len(M) \in Nat \ {0} /\ 1 \in 1 .. Len(M)
      /\ \A j \in 1 .. Len(M) : M[j] \in Wire
  BY <1>0, InboxIs, QueueShrinks
<1>2. C[k + 1].index = k /\ C[l + 1].index = l
  <2>1. k + 1 \in 1 .. Len(C) /\ l + 1 \in 1 .. Len(C) /\ k + 1 - 1 = k /\ l + 1 - 1 = l
    BY <1>0
  <2> QED BY <1>0, <2>1 DEF FlowInv, Sound
<1>3. Flow(y, x, e)
  BY DEF FlowInv, Way
<1>4. M[1].type = "NEW_BLOCK" /\ M[1].block.index = k /\ Height(M[1]) = k + 1
  <2>1. M[1].type = "NEW_BLOCK" /\ M[1].block = C[k + 1]
    BY <1>1
  <2> QED BY <1>1, <1>2, <2>1, WireIs
<1> HIDE DEF M, C
<1>5. CASE Asked(y, e)
  BY <1>5 DEF Delivered, ToBeSent
<1>6. CASE Announcing(y, e, C[l + 1])
  <2>1. pc[y] = "announce" /\ new_block[y].index = l
    BY <1>2, <1>6 DEF Announcing
  <2>2. M[1].block.index <= new_block[y].index
    BY <1>1, <1>3, <1>4, <2>1 DEF Flow, AnnouncedLast, M
  <2>3. k <= l
    BY <1>4, <2>1, <2>2
  <2> QED BY <2>3
<1>7. CASE InTransit(y, x, e, 0, l)
  <2>1. PICK j \in 1 .. Len(M) : Carries(M[j], l, C[l + 1])
    BY <1>7 DEF InTransit, M, C
  <2>2. M[j] \in Wire
    BY <1>1
  <2>3. CASE M[j].type = "NEW_BLOCK"
    <3>1. M[j].block = C[l + 1] /\ Height(M[j]) = l + 1
      BY <1>2, <2>1, <2>2, <2>3, WireIs DEF Carries
    <3>2. j # 1
      BY <1>2, <1>4, <3>1
    <3>3. 1 < j
      BY <1>1, <3>2
    <3>4. Height(M[1]) <= Height(M[j])
      BY <1>1, <1>3, <1>4, <3>1, <3>3 DEF Flow, InOrder, M
    <3> QED BY <1>4, <3>1, <3>4
  <2>4. CASE M[j].type = "CHAIN_RESPONSE"
    <3>1. Len(M[j].chain) > l /\ Height(M[j]) = Len(M[j].chain) /\ Height(M[j]) \in Nat
      BY <2>1, <2>2, <2>4, WireIs DEF Carries
    <3>2. 1 < j
      BY <1>1, <1>4, <2>4
    <3>3. Height(M[1]) <= Height(M[j])
      BY <1>1, <1>3, <1>4, <3>1, <3>2 DEF Flow, InOrder, M
    <3>4. Carries(M[j], k, C[k + 1])
      BY <1>4, <2>4, <3>1, <3>3 DEF Carries
    <3>5. j \in 0 + 1 + 1 .. Len(M)
      BY <1>1, <3>2
    <3> QED BY <3>4, <3>5 DEF InTransit, Delivered, M, C
  <2> QED BY <2>1, <2>3, <2>4 DEF Carries
<1>8. CASE Answering(y, e, l)
  <2>1. answer[y][e] \in built /\ Len(answer[y][e]) \in Nat
    <3>1. answer[y][e] # << >>
      BY <1>8 DEF Answering
    <3>2. answer[y][e] \in built
      BY <1>0, <3>1 DEF Ind, HeldInv
    <3> QED BY <3>2, BuiltIs
  <2>2. answer[y][e] # << >>
    BY <1>8 DEF Answering
  <2>3. e \in Made /\ Other(y, e) = x
    BY Ends DEF FlowInv, Working
  <2>4. M[1] \in Range(inbox[x][e])
    BY <1>0, <1>1, InboxIs, LenProperties DEF M, Range
  <2>5. M[1].block.index < Len(answer[y][e])
    BY <1>4, <2>2, <2>3, <2>4 DEF NothingOvertakes
  <2>6. Answering(y, e, k)
    BY <1>4, <2>5 DEF Answering
  <2> QED BY <2>6 DEF Delivered, ToBeSent
<1> QED BY <1>5, <1>6, <1>7, <1>8 DEF Delivered, ToBeSent, C

\* chain_add_block of a received block.
LEMMA RecvBlockFlow ==
    ASSUME Ind, TwoNodes, FlowInv, BothWork, NothingOvertakes,
           NEW x \in Nodes, NEW e \in Conns, RecvBlock(x, e)
    PROVE  StillFlows
<1> DEFINE M == inbox[x][e]
           b == Head(M).block
           old == chain[x]
           v == AddBlock(old, b)
<1>1. /\ e \in peers[x] /\ M # << >> /\ Head(M).type = "NEW_BLOCK"
      /\ inbox' = Consumed(x, e) /\ UNCHANGED <<mainVars, peerVars, answer, built>>
      /\ chain' = [chain EXCEPT ![x] = v]
      /\ relay' = IF AddBlockAccepts(old, b) THEN [relay EXCEPT ![x][e] = b] ELSE relay
  BY DEF RecvBlock, Reading, Ind, HeldInv
<1>2. Head(M) # RequestChain
  BY <1>1 DEF RequestChain
<1>3. /\ b \in Tips /\ b.index \in Nat /\ old \in built
      /\ \A n \in Nodes : Len(chain[n]) \in Nat /\ chain[n] \in built
  BY <1>1, ReadMessage, ChainFields, TipIsBlock DEF Ind, HeldInv, IsBlock
<1>4. M[1] = Head(M) /\ Len(M) \in Nat \ {0} /\ 1 \in 1 .. Len(M) /\ Head(M) \in Wire
  BY <1>1, InboxIs, QueueShrinks
<1>5. Height(Head(M)) = b.index + 1
  BY <1>1, <1>4, WireIs
<1>6. \A k, a : Carries(Head(M), k, a) => b = a
  BY <1>1 DEF Carries
<1>7. \A y \in Nodes : \A k \in 0 .. Len(chain[y]) - 1 : chain[y][k + 1].index = k
  <2> SUFFICES ASSUME NEW y \in Nodes, NEW k \in 0 .. Len(chain[y]) - 1
               PROVE  chain[y][k + 1].index = k
    OBVIOUS
  <2>1. k + 1 \in 1 .. Len(chain[y]) /\ k + 1 - 1 = k
    BY <1>3
  <2>2. chain[y] \in built
    BY <1>3
  <2> QED BY <2>1, <2>2 DEF FlowInv, Sound
<1>8. relay \in [Nodes -> [Conns -> Tips \cup {NoBlock}]]
  BY DEF Ind, HeldInv
<1> HIDE DEF b
<1>9. ASSUME AddBlockAccepts(old, b)
      PROVE  /\ v \in built /\ (v = chain[x] \/ Len(v) > Len(chain[x]))
             /\ TakesFrom(x, e, v) /\ PassesOn(x, e, v)
  <2>1. v = Append(old, b) /\ v \in built
    BY <1>3, <1>9, AddKnownBlock DEF AddBlock, Ind
  <2>2. /\ old \in Seq(Range(old)) /\ v \in Seq(Range(v)) /\ Len(old) \in Nat
        /\ Len(v) = Len(old) + 1 /\ \A i \in 1 .. Len(old) : v[i] = old[i]
    <3>1. old \in Seq(Range(old))
      BY <1>3, BuiltIs
    <3> QED BY <2>1, <3>1, AppendChain, LenProperties
  <2>3. b.index = Len(old)
    <3>1. Last(old).index = Len(old) - 1
      BY <1>3, BuiltFields DEF Ind
    <3> QED BY <1>9, <2>2, <3>1 DEF AddBlockAccepts
  <2> HIDE DEF old, v
  <2>4. \A n \in Nodes, d \in Conns :
           \/ relay'[n][d] = relay[n][d]
           \/ n = x /\ d = e /\ relay'[x][e] = b
    BY <1>1, <1>8, <1>9
  <2>5. ASSUME up[e], NEW y \in Nodes \ {x}
        PROVE  /\ Len(v) <= Len(chain[y]) /\ b.index < Len(chain[y])
               /\ Working # {} /\ IsPrefix(v, chain[y]) => BehindHead(y, x, e, Len(v))
    <3>1. e \in Working
      BY <1>1, <2>5, OpenReader DEF FlowInv
    <3>2. Flow(y, x, e)
      BY <3>1 DEF FlowInv, Way
    <3>3. Height(M[1]) <= Len(chain[y])
      BY <1>4, <3>2 DEF Flow, Within
    <3>4. Len(v) <= Len(chain[y]) /\ b.index < Len(chain[y])
      BY <1>3, <1>4, <1>5, <2>2, <2>3, <3>3
    <3>5. ASSUME Working # {}, IsPrefix(v, chain[y])
          PROVE  BehindHead(y, x, e, Len(v))
      <4>1. chain[y] \in Seq(Range(chain[y]))
        BY <1>3, BuiltIs
      <4>2. Len(v) <= Len(chain[y]) /\ \A i \in 1 .. Len(v) : v[i] = chain[y][i]
        BY <2>2, <3>5, <4>1, PrefixIs
      <4>3. Len(old) <= Len(chain[y]) /\ \A i \in 1 .. Len(old) : old[i] = chain[y][i]
        BY <1>3, <2>2, <4>2
      <4>4. IsPrefix(old, chain[y])
        BY <2>2, <4>1, <4>3, PrefixIs
      <4>5. PICK d \in Working : RestDelivered(y, x, d, 0, Len(old))
        BY <3>5, <4>4 DEF FlowInv, Way, CatchesUp, old
      <4>6. ASSUME NEW k \in Len(v) .. Len(chain[y]) - 1
            PROVE  Delivered(y, x, d, 0, k) /\ ~ Carries(Head(M), k, chain[y][k + 1])
        <5>1. k \in Len(old) .. Len(chain[y]) - 1 /\ k \in 0 .. Len(chain[y]) - 1 /\ k # Len(old)
          BY <1>3, <2>2
        <5>2. chain[y][k + 1].index # b.index
          BY <1>7, <2>3, <5>1
        <5> QED BY <1>6, <4>5, <5>1, <5>2 DEF RestDelivered
      <4> QED BY <4>6 DEF BehindHead
    <3> QED BY <3>4, <3>5
  <2>6. \A n \in Nodes, d \in Conns :
           \/ relay'[n][d] = relay[n][d]
           \/ /\ n = x /\ d = e /\ relay'[x][e].index < Len(v)
              /\ up[e] => \A y \in Nodes \ {x} : relay'[x][e].index < Len(chain[y])
    <3>1. b.index < Len(v)
      BY <2>2, <2>3
    <3> QED BY <2>4, <2>5, <3>1
  <2>7. Len(v) > Len(chain[x])
    BY <2>2 DEF old
  <2>9. up[e] => \A y \in Nodes \ {x} :
              /\ v # chain[x] => Len(v) <= Len(chain[y])
              /\ Working # {} /\ IsPrefix(v, chain[y]) => BehindHead(y, x, e, Len(v))
    BY <2>5
  <2>10. v = chain[x] \/ Len(v) > Len(chain[x])
    BY <2>7
  <2> QED BY <2>1, <2>6, <2>9, <2>10 DEF TakesFrom, PassesOn
<1>10. ASSUME ~ AddBlockAccepts(old, b)
      PROVE  /\ v \in built /\ (v = chain[x] \/ Len(v) > Len(chain[x]))
             /\ TakesFrom(x, e, v) /\ PassesOn(x, e, v)
  <2>1. v = chain[x] /\ v \in built
    BY <1>3, <1>10 DEF AddBlock
  <2> HIDE DEF old, v
  <2>2. \A n \in Nodes, d \in Conns : relay'[n][d] = relay[n][d]
    BY <1>1, <1>10
  <2>3. ASSUME up[e], NEW y \in Nodes \ {x}, Working # {}, IsPrefix(v, chain[y])
        PROVE  BehindHead(y, x, e, Len(v))
    <3>1. e \in Working
      BY <1>1, <2>3, OpenReader DEF FlowInv
    <3>2. PICK d \in Working : RestDelivered(y, x, d, 0, Len(v))
      BY <2>1, <2>3 DEF FlowInv, Way, CatchesUp
    <3>3. ASSUME NEW k \in Len(v) .. Len(chain[y]) - 1, d = e,
                 Carries(Head(M), k, chain[y][k + 1])
          PROVE  Delivered(y, x, e, 0 + 1, k)
      <4>1. Head(M).block = chain[y][k + 1] /\ b = chain[y][k + 1]
        BY <1>6, <3>3 DEF b
      <4>2. Len(v) \in Nat /\ k \in Nat /\ k < Len(chain[y]) /\ k + 1 <= Len(chain[y])
        BY <1>3, <2>1
      <4>3. k # Len(v)
        <5> SUFFICES ASSUME k = Len(v) PROVE FALSE
          OBVIOUS
        <5>1. AddBlockAccepts(v, chain[y][Len(v) + 1])
          BY <1>3, <2>1, <2>3, <4>2, NextAccepted DEF FlowInv
        <5> QED BY <1>10, <2>1, <4>1, <5>1 DEF old
      <4>4. Len(v) < k
        BY <4>2, <4>3
      <4>5. Delivered(y, x, e, 0, Len(v))
        <5>1. Len(v) \in Len(v) .. Len(chain[y]) - 1
          BY <1>3, <4>2, <4>4
        <5> QED BY <3>2, <3>3, <5>1 DEF RestDelivered
      <4>6. Len(v) = Len(chain[x])
        BY <2>1
      <4> QED BY <1>1, <3>1, <4>1, <4>2, <4>4, <4>5, <4>6, EarlyBlock
    <3> QED BY <3>2, <3>3 DEF RestDelivered, BehindHead
  <2>5. up[e] => \A y \in Nodes \ {x} :
              /\ v # chain[x] => Len(v) <= Len(chain[y])
              /\ Working # {} /\ IsPrefix(v, chain[y]) => BehindHead(y, x, e, Len(v))
    BY <2>1, <2>3
  <2>6. v = chain[x] \/ Len(v) > Len(chain[x])
    BY <2>1
  <2>7. \A n \in Nodes, d \in Conns :
           \/ relay'[n][d] = relay[n][d]
           \/ /\ n = x /\ d = e /\ relay'[x][e].index < Len(v)
              /\ up[e] => \A y \in Nodes \ {x} : relay'[x][e].index < Len(chain[y])
    BY <2>2
  <2> QED BY <2>1, <2>5, <2>6, <2>7 DEF TakesFrom, PassesOn
<1> HIDE DEF old, v
<1>11. /\ v \in built /\ (v = chain[x] \/ Len(v) > Len(chain[x]))
       /\ TakesFrom(x, e, v) /\ PassesOn(x, e, v)
  BY <1>9, <1>10
<1>12. UNCHANGED <<mainVars, peerVars, answer, built>> /\ chain' = [chain EXCEPT ![x] = v]
  BY <1>1
<1> QED BY <1>1, <1>2, <1>11, <1>12, TakeFlow
\* REQUEST_CHAIN: what was asked for has been read, all of it.
LEMMA RecvRequestFlow ==
    ASSUME Ind, TwoNodes, FlowInv, NEW x \in Nodes, NEW e \in Conns, RecvRequest(x, e)
    PROVE  StillFlows
<1> USE DEF mainVars, peerVars
<1>1. /\ e \in peers[x] /\ inbox[x][e] # << >> /\ Head(inbox[x][e]).type = "REQUEST_CHAIN"
      /\ inbox' = Consumed(x, e)
      /\ answer' = [answer EXCEPT ![x][e] = chain[x]]
      /\ UNCHANGED <<chain, mainVars, peerVars, relay, built>>
  BY DEF RecvRequest, Reading, nodeVars
<1>2. /\ Joined /\ Working \subseteq Conns /\ Made \subseteq Conns /\ Working \subseteq Made
      /\ Working' = Working /\ e \in Made
  BY <1>1, WorkingIs DEF Working, Made, FlowInv, Ind, NodeTypes
<1>3. up[e] => e \in Working /\ e \notin backlog
  BY <1>1, <1>2, OpenReader
<1>4. /\ inbox'[x][e] = Tail(inbox[x][e])
      /\ \A n \in Nodes, c \in Conns : n # x \/ c # e => inbox'[n][c] = inbox[n][c]
  BY <1>1 DEF Consumed, Ind, HeldInv
<1>5. /\ answer'[x][e] = chain[x]
      /\ \A c \in Conns : c # e => answer'[x][c] = answer[x][c]
      /\ \A n \in Nodes \ {x} : answer'[n] = answer[n]
  BY <1>1 DEF Ind, HeldInv
<1>9. Joined'
  <2>1. \A n \in Nodes, c \in Conns \ Made : inbox'[n][c] = inbox[n][c]
    BY <1>2, <1>4
  <2>2. ASSUME NEW c \in Working, c \in backlog
        PROVE  /\ inbox'[conns[c][1]][c] = inbox[conns[c][1]][c]
               /\ RequestChain \in Range(inbox'[conns[c][2]][c])
    <3>1. c # e
      BY <1>3, <2>2 DEF Working
    <3>2. c \in Conns /\ conns[c][1] \in Nodes /\ conns[c][2] \in Nodes
      <4>1. conns[c] \in Nodes \X Nodes
        BY <1>2, ElementOfSeq DEF Ind, NodeTypes, Made
      <4> QED BY <1>2, <4>1
    <3>3. RequestChain \in Range(inbox[conns[c][2]][c])
      BY <1>2, <2>2 DEF Joined
    <3> QED BY <1>4, <3>1, <3>2, <3>3
  <2> QED BY <1>1, <1>2, <2>1, <2>2, JoinedKept
<1>10. Greeting'
  BY <1>1 DEF FlowInv, Greeting, Made
<1>11. Had'
  BY <1>1 DEF FlowInv, Had
<1>12. Sound'
  BY <1>1 DEF FlowInv, Sound
<1>13. ASSUME NEW y \in Nodes \ {x}
       PROVE  Way(y, x)'
  <2>1. Way(y, x)
    BY DEF FlowInv
  <2>2. ASSUME NEW c \in Working
        PROVE  /\ inbox'[x][c] = IF c = e THEN Tail(inbox[x][c]) ELSE inbox[x][c]
               /\ Asked(y, c) => Asked(y, c)'
               /\ FromPeer(y, x, c)' /\ Flow(y, x, c)
    <3>1. inbox'[x][c] = IF c = e THEN Tail(inbox[x][c]) ELSE inbox[x][c]
      BY <1>2, <1>4
    <3>2. Flow(y, x, c) /\ FromPeer(y, x, c)
      BY <2>1 DEF Way, Flow
    <3>3. FromPeer(y, x, c)'
      BY <1>1, <3>2 DEF FromPeer
    <3>4. inbox'[y][c] = inbox[y][c]
      BY <1>2, <1>4
    <3> QED BY <1>1, <3>1, <3>2, <3>3, <3>4 DEF Asked
  <2>3. /\ chain'[y] = chain[y] /\ pc'[y] = pc[y] /\ new_block'[y] = new_block[y]
        /\ peers'[y] = peers[y] /\ answer'[y] = answer[y]
        /\ Len(chain'[x]) \in Nat /\ Len(chain'[x]) >= Len(chain[x])
    BY <1>1, <1>5, ChainFields
  <2>4. \A c \in Working :
           /\ Flow(y, x, c)'
           /\ \A k \in 0 .. Len(chain[y]) - 1 :
                /\ Delivered(y, x, c, 0, k)
                /\ c = e => \/ ~ Carries(Head(inbox[x][e]), k, chain[y][k + 1])
                            \/ Delivered(y, x, e, 0 + 1, k)
                => Delivered(y, x, c, 0, k)'
    <3> HIDE DEF mainVars, peerVars
    <3> QED BY <1>1, <1>2, <2>2, <2>3, TowardsReader
  <2>5. CatchesUp(y, x)'
    <3> SUFFICES ASSUME Working # {}, IsPrefix(chain[x], chain[y])
                 PROVE  \E c \in Working : RestDelivered(y, x, c, 0, Len(chain[x]))'
      BY <1>1, <1>2 DEF CatchesUp, RestDelivered
    <3>1. PICK c \in Working : RestDelivered(y, x, c, 0, Len(chain[x]))
      BY <2>1 DEF Way, CatchesUp
    <3>2. ASSUME NEW k \in Len(chain[x]) .. Len(chain[y]) - 1
          PROVE  Delivered(y, x, c, 0, k)'
      <4>1. k \in 0 .. Len(chain[y]) - 1
        BY ChainFields
      <4>2. ~ Carries(Head(inbox[x][e]), k, chain[y][k + 1])
        BY <1>1 DEF Carries
      <4> QED BY <2>4, <3>1, <4>1, <4>2 DEF RestDelivered
    <3> QED BY <1>1, <3>2 DEF RestDelivered
  <2> QED BY <1>2, <2>4, <2>5 DEF Way
<1>14. ASSUME NEW y \in Nodes \ {x}
       PROVE  Way(x, y)'
  <2>1. Way(x, y) /\ Announced(x)
    BY <1>1 DEF FlowInv, Announced
  <2>2. ASSUME NEW c \in Working
        PROVE  SendsFit(x, y, c) /\ FromPeer(x, y, c)'
    <3>0. c \in Conns /\ inbox'[y][c] = inbox[y][c]
      BY <1>2, <1>4
    <3>1. FromPeer(x, y, c)'
      <4>1. FromPeer(x, y, c)
        BY <2>1 DEF Way, Flow
      <4> QED BY <1>1, <4>1 DEF FromPeer
    <3>2. CASE c = e
      <4>1. << >> \in Seq(Wire) /\ inbox[y][c] = inbox[y][c] \o << >> /\ Len(<< >>) = 0
        BY <3>0, InboxIs, NothingMore
      <4>2. ASSUME NEW k \in 0 .. Len(chain[x]) - 1 PROVE ToBeSent(x, c, k)'
        <5>1. Len(answer'[x][c]) > k
          BY <1>5, <3>2, ChainFields
        <5> QED BY <5>1 DEF ToBeSent, Answering
      <4>3. StillSent(x, c, << >>)
        BY <4>2 DEF StillSent
      <4>4. Fits(x, y, c, << >>)
        BY <4>1 DEF Fits
      <4>5. inbox'[y][c] = inbox[y][c] \o << >>
        BY <3>0, <4>1
      <4> QED BY <3>1, <4>1, <4>3, <4>4, <4>5 DEF SendsFit
    <3>3. CASE c # e
      <4>1. inbox'[x][c] = inbox[x][c] /\ answer'[x][c] = answer[x][c]
        BY <1>4, <1>5, <3>0, <3>3
      <4>2. Asked(x, c) => Asked(x, c)'
        BY <1>1, <4>1 DEF Asked
      <4> QED BY <1>1, <3>0, <3>1, <4>1, <4>2, NothingFits
    <3> QED BY <3>2, <3>3
  <2>3. chain' = chain
    BY <1>1
  <2> QED BY <1>2, <2>1, <2>2, <2>3, WaySent
<1>15. ASSUME NEW n \in Nodes, NEW m \in Nodes \ {n}
       PROVE  Way(n, m)'
  <2>1. n = x \/ m = x
    <3>1. Nodes = {n, m}
      BY DEF TwoNodes
    <3> QED BY <3>1
  <2> QED BY <1>13, <1>14, <2>1
<1>16. ASSUME OweInv PROVE OweInv'
  <2>1. \A n \in Nodes : Len(chain'[n]) \in Nat /\ Len(chain'[n]) >= Len(chain[n])
    <3>1. \A n \in Nodes : Len(chain[n]) \in Nat
      BY ChainFields
    <3> QED BY <1>1, <3>1
  <2>2. \A n \in Nodes, c \in Conns :
           \/ c \in peers'[n] /\ answer'[n][c] = chain'[n]
           \/ answer'[n][c] = answer[n][c] /\ (c \in peers[n] => c \in peers'[n])
    <3> SUFFICES ASSUME NEW n \in Nodes, NEW c \in Conns
                 PROVE  \/ c \in peers[n] /\ answer'[n][c] = chain[n]
                        \/ answer'[n][c] = answer[n][c]
      BY <1>1
    <3> QED BY <1>1, <1>5
  <2>3. ASSUME NEW n \in Nodes, NEW m \in Nodes \ {n}, NEW c \in Working
        PROVE  Remembers(n, c) \/ Owes(n, m, c)'
    <3>1. CASE n = x /\ c = e
      <4>1. answer'[n][c] = chain'[n] /\ Len(chain'[n]) \in Nat
        BY <1>1, <1>5, <2>1, <3>1
      <4>2. Len(answer'[n][c]) .. Len(chain'[n]) - 1 = {}
        BY <4>1
      <4> QED BY <4>2 DEF Owes
    <3>2. CASE ~ (n = x /\ c = e)
      <4>1. inbox'[n][c] = inbox[n][c]
        BY <1>2, <1>4, <3>2
      <4> QED BY <1>1, <4>1 DEF Remembers, Asked
    <3> QED BY <3>1, <3>2
  <2> QED BY <1>2, <1>16, <2>1, <2>2, <2>3, OweStep
<1> QED BY <1>9, <1>10, <1>11, <1>12, <1>15, <1>16 DEF FlowInv, StillFlows

\* An answer is all that it was going to be, nothing newer is in front of it, and
\* what it lacks comes after it.
LEMMA AnswerFits ==
    ASSUME Ind, TwoNodes, FlowInv, OweInv, NothingOvertakes,
           NEW x \in Nodes, NEW y \in Nodes \ {x}, NEW e \in Working,
           answer[x][e] # << >>, inbox'[x][e] = inbox[x][e],
           UNCHANGED <<chain, mainVars, peerVars>>,
           inbox'[y][e] = inbox[y][e] \o <<ChainResponse(answer[x][e])>>
    PROVE  SendsFit(x, y, e)
<1> USE DEF mainVars, peerVars
<1> DEFINE a == answer[x][e]
           msg == ChainResponse(a)
<1>0. e \in Conns /\ e \in Made /\ Other(x, e) = y
  BY WorkingIs, Ends DEF FlowInv, Working
<1>1. a \in built /\ Len(a) \in Nat /\ Len(a) <= Len(chain[x]) /\ Len(chain[x]) \in Nat
  <2>1. a \in built
    BY <1>0 DEF Ind, HeldInv
  <2>2. Len(a) <= Len(chain[x])
    BY <1>0 DEF OweInv, Answers
  <2> QED BY <2>1, <2>2, BuiltIs, ChainFields
<1>2. msg \in Wire /\ msg.type = "CHAIN_RESPONSE" /\ msg.chain = a
  BY <1>1 DEF Wire, ChainResponse
<1>3. Height(msg) = Len(a)
  BY <1>2, WireIs
<1>4. <<msg>> \in Seq(Wire) /\ Len(<<msg>>) = 1 /\ <<msg>>[1] = msg
  <2>1. msg \in Wire
    BY <1>2
  <2> HIDE DEF msg
  <2> QED BY <2>1
<1>5. Len(a) > Len(chain[y]) /\ IsPrefix(a, chain[x]) =>
        \A k \in Len(a) .. Len(chain[x]) - 1 : Asked(x, e) \/ Announcing(x, e, chain[x][k + 1])
  BY DEF OweInv, Owes
<1>6. Asked(x, e) <=> Asked(x, e)'
  BY DEF Asked
<1>7. \A b : Announcing(x, e, b) <=> Announcing(x, e, b)'
  BY DEF Announcing
<1>8. ASSUME NEW i \in 1 .. Len(inbox[y][e]), inbox[y][e][i].type = "NEW_BLOCK"
      PROVE  Height(inbox[y][e][i]) <= Len(a)
  <2>1. inbox[y][e][i] \in Wire /\ inbox[y][e] \in Seq(Wire)
    BY <1>0, InboxIs
  <2>2. /\ Height(inbox[y][e][i]) = inbox[y][e][i].block.index + 1
        /\ inbox[y][e][i].block.index \in Nat
    BY <1>8, <2>1, WireIs
  <2>3. inbox[y][e][i] \in Range(inbox[y][e])
    BY <2>1, LenProperties DEF Range
  <2>4. inbox[y][e][i].block.index < Len(a)
    BY <1>0, <1>8, <2>3 DEF NothingOvertakes
  <2> QED BY <1>1, <2>2, <2>4
<1>9. ASSUME NEW k \in 0 .. Len(chain[x]) - 1, ToBeSent(x, e, k)
      PROVE  ToBeSent(x, e, k)' \/ Carries(msg, k, chain[x][k + 1])
  <2>1. CASE Asked(x, e)
    BY <1>6, <2>1 DEF ToBeSent
  <2>2. CASE Announcing(x, e, chain[x][k + 1])
    BY <1>7, <2>2 DEF ToBeSent
  <2>3. CASE Answering(x, e, k)
    BY <1>2, <2>3 DEF Answering, Carries
  <2> QED BY <1>9, <2>1, <2>2, <2>3 DEF ToBeSent
<1>10. IsPrefix(a, chain[x]) /\ Len(a) > Len(chain[y]) =>
         \A k \in Len(a) .. Len(chain[x]) - 1 : ToBeSent(x, e, k)'
  BY <1>5, <1>6, <1>7 DEF ToBeSent
<1> HIDE DEF msg, a
<1>11. StillSent(x, e, <<msg>>)
  BY <1>4, <1>9 DEF StillSent
<1>12. Fits(x, y, e, <<msg>>)
  BY <1>1, <1>2, <1>3, <1>4, <1>8, <1>10 DEF Fits
<1> QED BY <1>4, <1>11, <1>12 DEF SendsFit, msg, a

\* The rest of the REQUEST_CHAIN case: what was read is sent.
LEMMA SendAnswerFlow ==
    ASSUME Ind, TwoNodes, FlowInv, OweInv, NothingOvertakes,
           NEW x \in Nodes, NEW e \in Conns, SendAnswer(x, e)
    PROVE  StillFlows
<1> USE DEF mainVars, peerVars
<1> DEFINE a == answer[x][e]
<1>1. /\ a # << >>
      /\ inbox' = Send(inbox, x, {e}, <<ChainResponse(a)>>)
      /\ answer' = [answer EXCEPT ![x][e] = << >>]
      /\ UNCHANGED <<chain, mainVars, peerVars, relay, built>>
  BY DEF SendAnswer, nodeVars
<1>2. e \in peers[x] /\ a \in built
  BY <1>1 DEF OweInv, Answers, Ind, HeldInv
<1>3. /\ Joined /\ Working \subseteq Conns /\ Made \subseteq Conns /\ Working \subseteq Made
      /\ Working' = Working /\ e \in Made
  BY <1>1, <1>2, WorkingIs DEF Working, Made, FlowInv, Ind, NodeTypes
<1>4. Other(x, e) # x /\ Other(x, e) \in Nodes
  <2>1. conns[e] \in Nodes \X Nodes
    BY <1>3, ElementOfSeq DEF Ind, NodeTypes, Made
  <2> QED BY <1>3, <2>1 DEF Joined, Other
<1>5. <<ChainResponse(a)>> \in Seq(Wire)
  <2>1. ChainResponse(a) \in Wire
    BY <1>2 DEF Wire
  <2> HIDE DEF a
  <2> QED BY <2>1
<1>6. \A n \in Nodes, c \in Conns :
         inbox'[n][c] = IF c = e /\ up[e] /\ n = Other(x, e)
                        THEN inbox[n][c] \o <<ChainResponse(a)>> ELSE inbox[n][c]
  BY <1>1 DEF Send
<1> HIDE DEF a
<1>7. /\ \A c \in Conns : inbox'[x][c] = inbox[x][c]
      /\ \A n \in Nodes, c \in Conns : c # e => inbox'[n][c] = inbox[n][c]
  BY <1>4, <1>6
<1>8. up[e] => \A y \in Nodes : y = Other(x, e) =>
                  inbox'[y][e] = inbox[y][e] \o <<ChainResponse(a)>>
  BY <1>4, <1>6
<1>9. \A n \in Nodes, c \in Conns : Range(inbox[n][c]) \subseteq Range(inbox'[n][c])
  <2> SUFFICES ASSUME NEW n \in Nodes, NEW c \in Conns
               PROVE  Range(inbox[n][c]) \subseteq Range(inbox'[n][c])
    OBVIOUS
  <2>1. Range(inbox[n][c]) \subseteq Range(inbox[n][c] \o <<ChainResponse(a)>>)
    BY <1>5, InboxIs, RangeGrows
  <2>2. inbox'[n][c] = inbox[n][c] \o <<ChainResponse(a)>> \/ inbox'[n][c] = inbox[n][c]
    BY <1>6
  <2> QED BY <2>1, <2>2
<1>10. Joined'
  <2>1. \A n \in Nodes, c \in Conns \ Made : inbox'[n][c] = inbox[n][c]
    BY <1>3, <1>7
  <2>2. ASSUME NEW c \in Working, c \in backlog
        PROVE  /\ inbox'[conns[c][1]][c] = inbox[conns[c][1]][c]
               /\ RequestChain \in Range(inbox'[conns[c][2]][c])
    <3>1. c \in Conns /\ conns[c][1] \in Nodes /\ conns[c][2] \in Nodes
      <4>1. conns[c] \in Nodes \X Nodes
        BY <1>3, ElementOfSeq DEF Ind, NodeTypes, Made
      <4> QED BY <1>3, <4>1
    <3>2. c = e => conns[c][1] = x
      BY <1>2, <1>3, <2>2, OwnBacklog DEF Working
    <3>3. inbox'[conns[c][1]][c] = inbox[conns[c][1]][c]
      BY <1>7, <3>1, <3>2
    <3>4. RequestChain \in Range(inbox[conns[c][2]][c])
      BY <1>3, <2>2 DEF Joined
    <3> QED BY <1>9, <3>1, <3>3, <3>4
  <2> QED BY <1>1, <1>3, <2>1, <2>2, JoinedKept
<1>11. Greeting'
  BY <1>1 DEF FlowInv, Greeting, Made
<1>12. Had'
  BY <1>1 DEF FlowInv, Had
<1>13. Sound'
  BY <1>1 DEF FlowInv, Sound
<1>14. ASSUME NEW n \in Nodes, NEW m \in Nodes \ {n}
       PROVE  Way(n, m)'
  <2>1. Way(n, m) /\ Announced(n)
    BY <1>1 DEF FlowInv, Announced
  <2>2. ASSUME NEW c \in Working
        PROVE  SendsFit(n, m, c) /\ FromPeer(n, m, c)'
    <3>0. c \in Conns /\ Other(n, c) = m /\ Other(m, c) = n
      BY <1>3, Ends
    <3>1. FromPeer(n, m, c)'
      <4>1. FromPeer(n, m, c)
        BY <2>1 DEF Way, Flow
      <4> QED BY <1>1, <4>1 DEF FromPeer
    <3>2. CASE c = e /\ n = x
      <4>1. up[e] /\ Other(x, e) = m
        BY <3>0, <3>2 DEF Working
      <4>2. inbox'[m][e] = inbox[m][e] \o <<ChainResponse(answer[x][e])>>
        BY <1>8, <4>1 DEF a
      <4>3. UNCHANGED <<chain, mainVars, peerVars>> /\ inbox'[x][e] = inbox[x][e]
            /\ answer[x][e] # << >>
        BY <1>1, <1>7 DEF a
      <4> HIDE DEF mainVars, peerVars
      <4> QED BY <3>1, <3>2, <4>2, <4>3, AnswerFits
    <3>3. CASE ~ (c = e /\ n = x)
      <4>1. inbox'[m][c] = inbox[m][c]
        <5>1. c # e \/ m = x
          <6>1. Nodes = {n, m}
            BY DEF TwoNodes
          <6> QED BY <3>3, <6>1
        <5> QED BY <1>7, <3>0, <5>1
      <4>2. answer'[n][c] = answer[n][c]
        BY <1>1, <3>0, <3>3 DEF Ind, HeldInv
      <4>3. Asked(n, c) => Asked(n, c)'
        BY <1>1, <1>9, <3>0 DEF Asked
      <4> QED BY <1>1, <3>0, <3>1, <4>1, <4>2, <4>3, NothingFits
    <3> QED BY <3>2, <3>3
  <2>3. chain' = chain
    BY <1>1
  <2> QED BY <1>3, <2>1, <2>2, <2>3, WaySent
<1>15. OweInv'
  <2>1. \A n \in Nodes : Len(chain'[n]) \in Nat /\ Len(chain'[n]) >= Len(chain[n])
    <3>1. \A n \in Nodes : Len(chain[n]) \in Nat
      BY ChainFields
    <3> QED BY <1>1, <3>1
  <2>2. \A n \in Nodes, c \in Conns :
           \/ answer'[n][c] = << >>
           \/ answer'[n][c] = answer[n][c] /\ (c \in peers[n] => c \in peers'[n])
    BY <1>1 DEF Ind, HeldInv
  <2>3. ASSUME NEW n \in Nodes, NEW c \in Working PROVE Remembers(n, c)
    <3>1. Asked(n, c) => Asked(n, c)'
      BY <1>1, <1>3, <1>9 DEF Asked
    <3> QED BY <1>1, <3>1 DEF Remembers
  <2> QED BY <1>3, <2>1, <2>2, <2>3, OweStep
<1> QED BY <1>10, <1>11, <1>12, <1>13, <1>14, <1>15 DEF FlowInv, StillFlows
-----------------------------------------------------------------------------
(* Connections that break and connections that are made *)

\* A reader that gives up a connection gives up nothing that works.
LEMMA PeerLostFlow ==
    ASSUME Ind, TwoNodes, FlowInv, NEW x \in Nodes, NEW e \in Conns, PeerLost(x, e)
    PROVE  StillFlows
<1> USE DEF nodeVars, mainVars
<1>1. /\ e \in peers[x] /\ ~ up[e] /\ relay[x][e] = NoBlock
      /\ UNCHANGED <<chain, mainVars, conns, up, backlog, accepting, relay, answer, built>>
  BY DEF PeerLost
<1>2. /\ Joined /\ Working \subseteq Conns /\ Made \subseteq Conns /\ Working \subseteq Made
      /\ Working' = Working /\ e \in Made /\ e \notin Working
  BY <1>1, WorkingIs DEF Working, Made, FlowInv, Ind, NodeTypes
<1>3. /\ \A n \in Nodes, c \in Conns : c # e => inbox'[n][c] = inbox[n][c]
      /\ \A n \in Nodes, c \in Conns : c # e /\ c \in peers[n] => c \in peers'[n]
      /\ \A n \in Nodes : peers'[n] \subseteq peers[n]
      /\ \A n \in Nodes \ {x} : peers'[n] = peers[n]
  BY DEF PeerLost, Ind, HeldInv, NodeTypes
<1>4. Joined'
  <2>1. \A c \in Made : conns'[c][1] # conns'[c][2]
    BY <1>1, <1>2 DEF Joined
  <2>2. \A c \in Conns \ Made : ~ up'[c] /\ \A n \in Nodes : inbox'[n][c] = << >>
    BY <1>1, <1>2, <1>3 DEF Joined
  <2>3. ASSUME NEW c \in Working
        PROVE  /\ c \in peers'[conns[c][1]]
               /\ c \notin backlog => c \in peers'[conns[c][2]]
               /\ c \in backlog => /\ c \notin peers'[conns[c][2]]
                                   /\ RequestChain \in Range(inbox'[conns[c][2]][c])
                                   /\ inbox'[conns[c][1]][c] = << >>
    <3>1. c # e /\ c \in Conns /\ conns[c][1] \in Nodes /\ conns[c][2] \in Nodes
      <4>1. conns[c] \in Nodes \X Nodes
        BY <1>2, ElementOfSeq DEF Ind, NodeTypes, Made
      <4> QED BY <1>2, <4>1
    <3>2. /\ c \in peers[conns[c][1]]
          /\ c \notin backlog => c \in peers[conns[c][2]]
          /\ c \in backlog => /\ c \notin peers[conns[c][2]]
                              /\ RequestChain \in Range(inbox[conns[c][2]][c])
                              /\ inbox[conns[c][1]][c] = << >>
      BY <1>2 DEF Joined
    <3>3. /\ inbox'[conns[c][1]][c] = inbox[conns[c][1]][c]
          /\ inbox'[conns[c][2]][c] = inbox[conns[c][2]][c]
      BY <1>3, <3>1
    <3>4. /\ c \in peers'[conns[c][1]]
          /\ c \in peers[conns[c][2]] => c \in peers'[conns[c][2]]
          /\ c \notin peers[conns[c][2]] => c \notin peers'[conns[c][2]]
      BY <1>3, <3>1, <3>2
    <3> QED BY <3>2, <3>3, <3>4
  <2> QED BY <1>1, <1>2, <2>1, <2>2, <2>3 DEF Joined, Made
<1>5. Greeting'
  BY <1>1 DEF FlowInv, Greeting, Made
<1>6. Had'
  <2>1. \A n \in Nodes : pc'[n] = "announce" => new_block'[n].index < Len(chain'[n])
    BY <1>1 DEF FlowInv, Had
  <2>2. ASSUME NEW n \in Nodes, NEW c \in Conns, relay[n][c] # NoBlock
        PROVE  c \in peers'[n] /\ relay[n][c].index < Len(chain[n])
    <3>1. c \in peers[n] /\ relay[n][c].index < Len(chain[n])
      BY <2>2 DEF FlowInv, Had
    <3>2. n = x => c # e
      BY <1>1, <2>2
    <3> QED BY <1>3, <3>1, <3>2
  <2> QED BY <1>1, <2>1, <2>2 DEF Had
<1>7. Sound'
  BY <1>1 DEF FlowInv, Sound
<1>8. ASSUME NEW n \in Nodes, NEW m \in Nodes \ {n}
      PROVE  Way(n, m)'
  <2>1. Way(n, m) /\ Announced(n)
    BY <1>1 DEF FlowInv, Announced
  <2>2. ASSUME NEW c \in Working
        PROVE  SendsFit(n, m, c) /\ FromPeer(n, m, c)'
    <3>1. c \in Conns /\ inbox'[m][c] = inbox[m][c] /\ inbox'[n][c] = inbox[n][c]
          /\ (c \in peers[n] => c \in peers'[n])
      BY <1>2, <1>3
    <3>2. Asked(n, c) => Asked(n, c)'
      BY <1>1, <3>1 DEF Asked
    <3>3. FromPeer(n, m, c)
      BY <2>1 DEF Way, Flow
    <3>4. FromPeer(n, m, c)'
      BY <1>1, <3>3 DEF FromPeer
    <3>5. /\ chain'[n] = chain[n] /\ pc'[n] = pc[n] /\ new_block'[n] = new_block[n]
          /\ answer' = answer
      BY <1>1
    <3> QED BY <3>1, <3>2, <3>4, <3>5, NothingFits
  <2>3. chain' = chain
    BY <1>1
  <2> QED BY <1>2, <2>1, <2>2, <2>3, WaySent
<1>9. ASSUME OweInv PROVE OweInv'
  <2>1. \A n \in Nodes : Len(chain'[n]) \in Nat /\ Len(chain'[n]) >= Len(chain[n])
    <3>1. \A n \in Nodes : Len(chain[n]) \in Nat
      BY ChainFields
    <3> QED BY <1>1, <3>1
  <2>2. ASSUME NEW n \in Nodes, NEW c \in Conns
        PROVE  \/ answer'[n][c] = << >>
               \/ answer'[n][c] = answer[n][c] /\ (c \in peers[n] => c \in peers'[n])
    <3>1. CASE n = x /\ c = e
      BY <1>1, <3>1 DEF PeerLost
    <3>2. CASE ~ (n = x /\ c = e)
      <4>1. c \in peers[n] => c \in peers'[n]
        BY <1>3, <3>2
      <4> QED BY <1>1, <4>1
    <3> QED BY <3>1, <3>2
  <2>3. ASSUME NEW n \in Nodes, NEW c \in Working PROVE Remembers(n, c)
    <3>1. c # e /\ c \in Conns
      BY <1>2
    <3>2. inbox'[n][c] = inbox[n][c] /\ (c \in peers[n] => c \in peers'[n])
      BY <1>3, <3>1
    <3> QED BY <1>1, <3>2 DEF Remembers, Asked
  <2> QED BY <1>2, <1>9, <2>1, <2>2, <2>3, OweStep
<1> QED BY <1>4, <1>5, <1>6, <1>7, <1>8, <1>9 DEF FlowInv, StillFlows

\* When a connection breaks the ones that still work, if any, wait to be accepted:
\* both chains will be asked for.
LEMMA LinkDownFlow ==
    ASSUME Ind, TwoNodes, FlowInv, BothWork', NEW e \in Conns, LinkDown(e)
    PROVE  StillFlows
<1> USE DEF nodeVars, mainVars
<1>1. /\ e \in Made /\ up[e] /\ up' = [up EXCEPT ![e] = FALSE]
      /\ UNCHANGED <<chain, mainVars, conns, backlog, peers, accepting, inbox, relay, answer,
                     built>>
  BY DEF LinkDown
<1>2. /\ Joined /\ Working \subseteq Conns /\ Made \subseteq Conns /\ Working \subseteq Made
      /\ e \in Working /\ \A c \in Conns : up'[c] <=> up[c] /\ c # e
  BY <1>1, WorkingIs DEF Working, Made, FlowInv, Ind, NodeTypes
<1>3. Made' = Made /\ Working' = Working \ {e}
  BY <1>1, <1>2 DEF Working, Made
<1>4. Joined'
  <2>1. \A c \in Made : conns'[c][1] # conns'[c][2]
    BY <1>1, <1>2 DEF Joined
  <2>2. \A c \in Conns \ Made : ~ up'[c] /\ \A n \in Nodes : inbox'[n][c] = << >>
    BY <1>1, <1>2 DEF Joined
  <2>3. \A c \in Working \ {e} :
          /\ c \in peers'[conns'[c][1]]
          /\ c \notin backlog' => c \in peers'[conns'[c][2]]
          /\ c \in backlog' => /\ c \notin peers'[conns'[c][2]]
                               /\ RequestChain \in Range(inbox'[conns'[c][2]][c])
                               /\ inbox'[conns'[c][1]][c] = << >>
    BY <1>1, <1>2 DEF Joined
  <2> QED BY <1>3, <2>1, <2>2, <2>3 DEF Joined
<1>5. Greeting'
  BY <1>1 DEF FlowInv, Greeting, Made
<1>6. Had'
  BY <1>1 DEF FlowInv, Had
<1>7. Sound'
  BY <1>1 DEF FlowInv, Sound
<1>8. ASSUME NEW n \in Nodes, NEW m \in Nodes \ {n}, NEW c \in Working
      PROVE  Flow(n, m, c)'
  <2>1. Flow(n, m, c)
    BY DEF FlowInv, Way
  <2>2. \A i, k : Delivered(n, m, c, i, k)' <=> Delivered(n, m, c, i, k)
    BY <1>1 DEF Delivered, ToBeSent, InTransit, Asked, Announcing, Answering, Carries
  <2>3. Within(n, m, c)' /\ InOrder(n, m, c)' /\ FromPeer(n, m, c)' /\ AnnouncedLast(n, m, c)'
    BY <1>1, <2>1 DEF Flow, Within, InOrder, FromPeer, AnnouncedLast, Height
  <2>4. Followed(n, m, c)'
    BY <1>1, <2>1, <2>2 DEF Flow, Followed, RestDelivered
  <2> QED BY <2>3, <2>4 DEF Flow
<1>9. ASSUME NEW n \in Nodes, NEW d \in Working \ {e}
      PROVE  Asked(n, d)
  <2>0. /\ d \in Conns /\ conns[d][1] \in Nodes /\ conns[d][2] \in Nodes
        /\ conns[e][1] \in Nodes /\ conns[e][2] \in Nodes
    <3>1. conns[d] \in Nodes \X Nodes /\ conns[e] \in Nodes \X Nodes
      BY <1>2, ElementOfSeq DEF Ind, NodeTypes, Made
    <3> QED BY <1>2, <3>1
  <2>1. d \in backlog
    <3> SUFFICES ASSUME d \notin backlog PROVE FALSE
      OBVIOUS
    <3>1. PICK z \in Nodes : z = conns[e][1]
      BY <2>0
    <3>2. PICK w \in Nodes : w # z
      BY DEF TwoNodes
    <3>3. /\ Other(z, e) = w /\ Other(z, d) = w
          /\ conns[d][1] = z \/ conns[d][2] = z
      BY <1>2, <3>2, Ends
    <3>4. e \in peers[z] /\ d \in peers[z]
      BY <1>2, <3>1, <3>3 DEF Joined
    <3>5. Other(z, e)' = Other(z, d)'
      BY <1>1, <3>3 DEF Other
    <3>6. up'[e]
      BY <1>1, <3>4, <3>5 DEF BothWork
    <3> QED BY <1>2, <3>6
  <2>2. RequestChain \in Range(inbox[conns[d][2]][d])
    BY <1>2, <2>1 DEF Joined
  <2>3. n = conns[d][1] \/ n = conns[d][2]
    BY <1>2, <2>0 DEF TwoNodes, Joined
  <2> QED BY <2>1, <2>2, <2>3 DEF Asked
<1>10. ASSUME NEW n \in Nodes, NEW m \in Nodes \ {n}
       PROVE  CatchesUp(n, m)'
  <2>1. \A d \in Working' : Asked(n, d)'
    BY <1>1, <1>3, <1>9 DEF Asked
  <2>2. \A d \in Working' : RestDelivered(n, m, d, 0, Len(chain[m]))'
    BY <2>1 DEF RestDelivered, Delivered, ToBeSent
  <2> QED BY <2>2 DEF CatchesUp
<1>11. ASSUME OweInv PROVE OweInv'
  <2>1. \A n \in Nodes : Len(chain'[n]) \in Nat /\ Len(chain'[n]) >= Len(chain[n])
    <3>1. \A n \in Nodes : Len(chain[n]) \in Nat
      BY ChainFields
    <3> QED BY <1>1, <3>1
  <2>2. \A n \in Nodes, c \in Conns : answer'[n][c] = answer[n][c] /\ (c \in peers[n] => c \in peers'[n])
    BY <1>1
  <2>3. ASSUME NEW n \in Nodes, NEW c \in Working PROVE Remembers(n, c)
    BY <1>1 DEF Remembers, Asked
  <2>4. Working' \subseteq Working
    BY <1>3
  <2> QED BY <1>2, <1>11, <2>1, <2>2, <2>3, <2>4, OweStep
<1> QED BY <1>3, <1>4, <1>5, <1>6, <1>7, <1>8, <1>10, <1>11 DEF FlowInv, Way, StillFlows

\* The process of a node is started again: no connection is left.
LEMMA RestartFlow ==
    ASSUME Ind, TwoNodes, FlowInv, NEW x \in Nodes, Restart(x)
    PROVE  StillFlows
<1>1. /\ \A n \in Nodes : pc'[n] = IF n = x THEN "menu" ELSE pc[n]
      /\ \A n \in Nodes : accepting'[n] = IF n = x THEN 0 ELSE accepting[n]
      /\ \A n \in Nodes, c \in Conns :
           /\ inbox'[n][c] = IF n = x THEN << >> ELSE inbox[n][c]
           /\ relay'[n][c] = IF n = x THEN NoBlock ELSE relay[n][c]
      /\ \A n \in Nodes \ {x} : /\ chain'[n] = chain[n] /\ peers'[n] = peers[n]
                                /\ new_block'[n] = new_block[n]
      /\ conns' = conns /\ built' = built /\ backlog' \subseteq backlog
  BY DEF Restart, Ind, NodeTypes, HeldInv
<1>2. /\ Joined /\ Made \subseteq Conns /\ Made' = Made
      /\ \A c \in Conns : up'[c] = (up[c] /\ x \notin {conns[c][1], conns[c][2]})
  BY <1>1, WorkingIs DEF Made, FlowInv, Restart
<1>3. Working' = {}
  <2> SUFFICES ASSUME NEW c \in Made PROVE ~ up'[c]
    BY <1>2 DEF Working
  <2>1. PICK y \in Nodes \ {x} : TRUE
    BY DEF TwoNodes
  <2>2. x \in {conns[c][1], conns[c][2]}
    BY <1>2, <2>1, Ends
  <2> QED BY <1>2, <2>2
<1>4. Joined'
  <2>1. \A c \in Made : conns'[c][1] # conns'[c][2]
    BY <1>1, <1>2 DEF Joined
  <2>2. ASSUME NEW c \in Conns \ Made
        PROVE  ~ up'[c] /\ \A n \in Nodes : inbox'[n][c] = << >>
    <3>1. ~ up[c] /\ \A n \in Nodes : inbox[n][c] = << >>
      BY <1>2 DEF Joined
    <3>2. ~ up'[c]
      BY <1>2, <3>1
    <3>3. ASSUME NEW n \in Nodes PROVE inbox'[n][c] = << >>
      BY <1>1, <3>1
    <3> QED BY <3>2, <3>3
  <2> QED BY <1>2, <1>3, <2>1, <2>2 DEF Joined
<1>5. Greeting'
  BY <1>1, <1>2 DEF FlowInv, Greeting
<1>6. Had'
  BY <1>1 DEF FlowInv, Had
<1>7. Sound'
  BY <1>1 DEF FlowInv, Sound
<1>8. \A n \in Nodes : \A m \in Nodes \ {n} : Way(n, m)'
  BY <1>3 DEF Way, CatchesUp
<1>9. ASSUME OweInv PROVE OweInv'
  <2>1. ASSUME NEW n \in Nodes, NEW c \in Conns, answer'[n][c] # << >>
        PROVE  c \in peers'[n] /\ Len(answer'[n][c]) <= Len(chain'[n])
    <3>1. answer'[n][c] = IF n = x THEN << >> ELSE answer[n][c]
      BY DEF Restart, Ind, HeldInv
    <3>2. n # x /\ answer'[n][c] = answer[n][c]
      BY <2>1, <3>1
    <3>3. chain'[n] = chain[n] /\ peers'[n] = peers[n]
      BY <1>1, <3>2
    <3> QED BY <1>9, <2>1, <3>2, <3>3 DEF OweInv, Answers
  <2> QED BY <1>3, <2>1 DEF OweInv, Answers
<1> QED BY <1>4, <1>5, <1>6, <1>7, <1>8, <1>9 DEF FlowInv, StillFlows

\* A connection on which nothing but requests wait is in order.
LEMMA OnlyRequests ==
    ASSUME NEW n \in Nodes, NEW m \in Nodes, NEW c \in Conns,
           \A i \in 1 .. Len(inbox'[m][c]) : inbox'[m][c][i].type = "REQUEST_CHAIN",
           Len(chain'[n]) \in Nat, Len(chain'[m]) \in Nat, relay'[m][c] = NoBlock
    PROVE  Flow(n, m, c)'
<1>1. \A i \in 1 .. Len(inbox'[m][c]) : Height(inbox'[m][c][i]) = 0
  BY DEF Height
<1>2. Within(n, m, c)'
  BY <1>1 DEF Within, Height
<1>3. InOrder(n, m, c)' /\ Followed(n, m, c)' /\ FromPeer(n, m, c)' /\ AnnouncedLast(n, m, c)'
  BY DEF InOrder, Followed, FromPeer, AnnouncedLast
<1> QED BY <1>2, <1>3 DEF Flow

\* The connection e of x and y has just been made.
Connected(x, y, e) ==
    /\ x # y /\ e \in Conns \ Made /\ Made' = Made \cup {e} /\ Working' = Working \cup {e}
    /\ conns'[e] = <<x, y>> /\ \A c \in Made : conns'[c] = conns[c]
    /\ backlog' = backlog \cup {e} /\ backlog \subseteq Made
    /\ \A n \in Nodes : peers'[n] = (IF n = x THEN peers[n] \cup {e} ELSE peers[n])
    /\ \A n \in Nodes : peers[n] \subseteq Made
    /\ \A n \in Nodes, c \in Conns :
          inbox'[n][c] = IF n = y /\ c = e THEN <<RequestChain>> ELSE inbox[n][c]
    /\ \A c \in Conns : up'[c] = (IF c = e THEN TRUE ELSE up[c])
    /\ \A n \in Nodes : pc'[n] = IF n = x THEN "greet" ELSE pc[n]
    /\ pc[x] = "menu"

\* What a connection of x and y that has just been made brings about.
LEMMA ConnectFields ==
    ASSUME Ind, NEW x \in Nodes, NEW y \in Nodes, Connect(x, y),
           NEW e, e = Len(conns) + 1
    PROVE  Connected(x, y, e)
<1> USE DEF Connect
<1>1. conns \in Seq(Nodes \X Nodes) /\ Len(conns) \in Nat /\ MaxConns \in Nat
  BY LenProperties, BoundAssumption DEF Ind, NodeTypes
<1>2. /\ conns' = Append(conns, <<x, y>>) /\ Len(conns') = Len(conns) + 1
      /\ conns'[Len(conns) + 1] = <<x, y>>
      /\ \A c \in 1 .. Len(conns) : conns'[c] = conns[c]
  BY <1>1, AppendProperties
<1>3. e \in Conns \ Made /\ Made' = Made \cup {e}
  BY <1>1, <1>2 DEF Made, Conns
<1>4. conns'[e] = <<x, y>> /\ \A c \in Made : conns'[c] = conns[c]
  BY <1>2 DEF Made
<1>5. \A c \in Conns : up'[c] = (IF c = e THEN TRUE ELSE up[c])
  BY <1>3 DEF Ind, NodeTypes
<1>6. Working' = Working \cup {e}
  BY <1>3, <1>5, WorkingIs DEF Working
<1>7. \A n \in Nodes : peers'[n] = (IF n = x THEN peers[n] \cup {e} ELSE peers[n])
  BY DEF Ind, NodeTypes
<1>8. \A n \in Nodes, c \in Conns :
         inbox'[n][c] = IF n = y /\ c = e THEN <<RequestChain>> ELSE inbox[n][c]
  BY <1>3 DEF Ind, HeldInv
<1>9. \A n \in Nodes : pc'[n] = IF n = x THEN "greet" ELSE pc[n]
  BY DEF Ind, NodeTypes
<1>10. backlog \subseteq Made /\ \A n \in Nodes : peers[n] \subseteq Made
  BY DEF Ind, NodeTypes
<1> QED BY <1>3, <1>4, <1>5, <1>6, <1>7, <1>8, <1>9, <1>10 DEF Connected

\* A new connection brings both chains.
LEMMA ConnectFlow ==
    ASSUME Ind, TwoNodes, FlowInv, NEW x \in Nodes, NEW y \in Nodes, Connect(x, y)
    PROVE  StillFlows
<1>0. Len(conns) + 1 \in Conns
  BY ConnectFields DEF Connected
<1>20. PICK e \in Conns : e = Len(conns) + 1
  BY <1>0
<1>21. Connected(x, y, e)
  BY <1>20, ConnectFields
<1>1. /\ x # y /\ e \in Conns \ Made /\ Made' = Made \cup {e} /\ Working' = Working \cup {e}
      /\ conns'[e] = <<x, y>> /\ \A c \in Made : conns'[c] = conns[c]
      /\ backlog' = backlog \cup {e} /\ backlog \subseteq Made
      /\ \A n \in Nodes : peers'[n] = (IF n = x THEN peers[n] \cup {e} ELSE peers[n])
      /\ \A n \in Nodes : peers[n] \subseteq Made
      /\ \A n \in Nodes, c \in Conns :
            inbox'[n][c] = IF n = y /\ c = e THEN <<RequestChain>> ELSE inbox[n][c]
      /\ \A c \in Conns : up'[c] = (IF c = e THEN TRUE ELSE up[c])
      /\ \A n \in Nodes : pc'[n] = IF n = x THEN "greet" ELSE pc[n]
      /\ pc[x] = "menu"
  BY <1>21 DEF Connected
<1>2. UNCHANGED <<chain, new_block, accepting, relay, answer, built>>
  BY DEF Connect, nodeVars
<1>3. /\ Joined /\ Working \subseteq Conns /\ Made \subseteq Conns /\ Working \subseteq Made
  BY WorkingIs DEF Working, FlowInv
<1>4. RequestChain \in Range(<<RequestChain>>)
  <2>1. DOMAIN <<RequestChain>> = 1 .. 1 /\ <<RequestChain>>[1] = RequestChain
    OBVIOUS
  <2> QED BY <2>1 DEF Range
<1>5. \A n \in Nodes : inbox[n][e] = << >> /\ relay[n][e] = NoBlock
  <2>1. \A n \in Nodes : inbox[n][e] = << >>
    BY <1>1, <1>3 DEF Joined
  <2>2. \A n \in Nodes : relay[n][e] # NoBlock => e \in Made
    BY <1>1 DEF FlowInv, Had
  <2> QED BY <1>1, <2>1, <2>2
<1>6. Joined'
  <2>1. \A c \in Made' : conns'[c][1] # conns'[c][2]
    <3>1. \A c \in Made : conns'[c][1] # conns'[c][2]
      BY <1>1, <1>3 DEF Joined
    <3>2. conns'[e][1] # conns'[e][2]
      BY <1>1
    <3> QED BY <1>1, <3>1, <3>2
  <2>2. ASSUME NEW c \in Conns \ Made'
        PROVE  ~ up'[c] /\ \A n \in Nodes : inbox'[n][c] = << >>
    <3>1. c \in Conns \ Made /\ c # e
      BY <1>1
    <3>2. ~ up[c] /\ \A n \in Nodes : inbox[n][c] = << >>
      BY <1>3, <3>1 DEF Joined
    <3>3. ~ up'[c]
      BY <1>1, <3>1, <3>2
    <3>4. ASSUME NEW n \in Nodes PROVE inbox'[n][c] = << >>
      BY <1>1, <3>1, <3>2
    <3> QED BY <3>3, <3>4
  <2>3. ASSUME NEW c \in Working
        PROVE  /\ c \in peers'[conns'[c][1]]
               /\ c \notin backlog' => c \in peers'[conns'[c][2]]
               /\ c \in backlog' => /\ c \notin peers'[conns'[c][2]]
                                    /\ RequestChain \in Range(inbox'[conns'[c][2]][c])
                                    /\ inbox'[conns'[c][1]][c] = << >>
    <3>1. c # e /\ c \in Conns /\ conns[c][1] \in Nodes /\ conns[c][2] \in Nodes /\ conns'[c] = conns[c]
      <4>1. conns[c] \in Nodes \X Nodes
        BY <1>3, ElementOfSeq DEF Ind, NodeTypes, Made
      <4> QED BY <1>1, <1>3, <4>1
    <3>2. /\ c \in peers[conns[c][1]]
          /\ c \notin backlog => c \in peers[conns[c][2]]
          /\ c \in backlog => /\ c \notin peers[conns[c][2]]
                              /\ RequestChain \in Range(inbox[conns[c][2]][c])
                              /\ inbox[conns[c][1]][c] = << >>
      BY <1>3 DEF Joined
    <3>3. /\ inbox'[conns[c][1]][c] = inbox[conns[c][1]][c]
          /\ inbox'[conns[c][2]][c] = inbox[conns[c][2]][c]
      BY <1>1, <3>1
    <3>4. ASSUME NEW n \in Nodes PROVE c \in peers'[n] <=> c \in peers[n]
      <4>1. peers'[n] = IF n = x THEN peers[n] \cup {e} ELSE peers[n]
        BY <1>1
      <4> QED BY <3>1, <4>1
    <3>5. c \in backlog' <=> c \in backlog
      BY <1>1, <3>1
    <3> QED BY <3>1, <3>2, <3>3, <3>4, <3>5
  <2>4. /\ e \in peers'[conns'[e][1]] /\ e \in backlog' /\ e \notin peers'[conns'[e][2]]
        /\ RequestChain \in Range(inbox'[conns'[e][2]][e])
        /\ inbox'[conns'[e][1]][e] = << >>
    <3>1. conns'[e][1] = x /\ conns'[e][2] = y
      BY <1>1
    <3>2. e \in peers'[x] /\ e \in backlog' /\ e \notin peers'[y]
      BY <1>1
    <3>3. inbox'[y][e] = <<RequestChain>> /\ inbox'[x][e] = << >>
      BY <1>1, <1>5
    <3> QED BY <1>4, <3>1, <3>2, <3>3
  <2> QED BY <1>1, <2>1, <2>2, <2>3, <2>4 DEF Joined
<1>7. Greeting'
  <2>1. \A n \in Nodes : accepting[n] \in {0} \cup (Made \ backlog)
    BY DEF FlowInv, Greeting
  <2>2. Made \ backlog \subseteq Made' \ backlog'
    BY <1>1
  <2>3. ASSUME NEW n \in Nodes, pc'[n] = "greet"
        PROVE  \E c \in Made' : conns'[c][1] = n
    <3>1. CASE n = x
      <4>1. e \in Made' /\ conns'[e][1] = n
        BY <1>1, <3>1
      <4> QED BY <4>1
    <3>2. CASE n # x
      <4>1. pc[n] = "greet"
        BY <1>1, <2>3, <3>2
      <4>2. PICK c \in Made : conns[c][1] = n
        BY <4>1 DEF FlowInv, Greeting
      <4> QED BY <1>1, <4>2
    <3> QED BY <3>1, <3>2
  <2> QED BY <1>2, <2>1, <2>2, <2>3 DEF Greeting
<1>8. Had'
  <2>1. \A n \in Nodes : pc'[n] = "announce" => pc[n] = "announce"
    BY <1>1
  <2>2. \A n \in Nodes : peers[n] \subseteq peers'[n]
    BY <1>1
  <2> QED BY <1>2, <2>1, <2>2 DEF FlowInv, Had
<1>9. Sound'
  BY <1>2 DEF FlowInv, Sound
<1>10. ASSUME NEW n \in Nodes, NEW m \in Nodes \ {n}
       PROVE  Way(n, m)'
  <2>0. Len(chain'[n]) \in Nat /\ Len(chain'[m]) \in Nat
    BY <1>2, ChainFields
  <2>1. ASSUME NEW c \in Working PROVE Flow(n, m, c)'
    <3>1. c \in Conns /\ c \in Made /\ c # e
      BY <1>1, <1>3
    <3>2. inbox'[m][c] = inbox[m][c] /\ inbox'[n][c] = inbox[n][c] /\ conns'[c] = conns[c]
      BY <1>1, <3>1
    <3>3. Asked(n, c) => Asked(n, c)'
      BY <1>1, <3>2 DEF Asked
    <3>4. FromPeer(n, m, c) /\ Flow(n, m, c)
      BY DEF FlowInv, Way, Flow
    <3>5. FromPeer(n, m, c)'
      BY <1>2, <3>4 DEF FromPeer
    <3>6. pc'[n] = "announce" <=> pc[n] = "announce"
      BY <1>1
    <3>7. c \in peers[n] => c \in peers'[n]
      BY <1>1
    <3>8. /\ chain'[n] = chain[n] /\ new_block'[n] = new_block[n]
          /\ answer'[n][c] = answer[n][c] /\ Len(chain'[m]) >= Len(chain[m])
      BY <1>2, <2>0
    <3> QED BY <2>0, <3>1, <3>2, <3>3, <3>4, <3>5, <3>6, <3>7, <3>8, FlowIdle
  <2>2. Flow(n, m, e)'
    <3>1. inbox'[m][e] = <<RequestChain>> \/ inbox'[m][e] = << >>
      BY <1>1, <1>5
    <3>2. Len(<<RequestChain>>) = 1 /\ <<RequestChain>>[1] = RequestChain /\ Len(<< >>) = 0
      OBVIOUS
    <3>3. \A i \in 1 .. Len(inbox'[m][e]) : inbox'[m][e][i].type = "REQUEST_CHAIN"
      BY <3>1, <3>2 DEF RequestChain
    <3> QED BY <1>1, <1>2, <1>5, <2>0, <3>3, OnlyRequests
  <2>3. Asked(n, e)'
    <3>1. n = x \/ n = y
      BY <1>1 DEF TwoNodes
    <3>2. CASE n = x
      BY <1>1, <3>2 DEF Asked
    <3>3. CASE n = y
      <4>1. inbox'[n][e] = <<RequestChain>>
        BY <1>1, <3>3
      <4> QED BY <1>4, <4>1 DEF Asked
    <3> QED BY <3>1, <3>2, <3>3
  <2>4. RestDelivered(n, m, e, 0, Len(chain[m]))'
    BY <2>3 DEF RestDelivered, Delivered, ToBeSent
  <2> QED BY <1>1, <2>1, <2>2, <2>4 DEF Way, CatchesUp
<1>11. ASSUME OweInv PROVE OweInv'
  <2>1. \A n \in Nodes : Len(chain'[n]) \in Nat /\ Len(chain'[n]) >= Len(chain[n])
    <3>1. \A n \in Nodes : Len(chain[n]) \in Nat
      BY ChainFields
    <3> QED BY <1>2, <3>1
  <2>2. \A n \in Nodes : peers[n] \subseteq peers'[n]
    BY <1>1
  <2>3. \A n \in Nodes, c \in Conns : answer'[n][c] = answer[n][c] /\ (c \in peers[n] => c \in peers'[n])
    BY <1>2, <2>2
  <2>4. \A n \in Nodes : answer[n][e] = << >>
    <3>1. \A n \in Nodes : answer[n][e] # << >> => e \in Made
      BY <1>1, <1>11 DEF OweInv, Answers
    <3> QED BY <1>1, <3>1
  <2>5. ASSUME NEW n \in Nodes, NEW c \in Working PROVE Remembers(n, c)
    <3>1. c \in Conns /\ c \in Made /\ c # e
      BY <1>1, <1>3
    <3>2. inbox'[n][c] = inbox[n][c] /\ conns'[c] = conns[c]
      BY <1>1, <3>1
    <3>3. Asked(n, c) => Asked(n, c)'
      BY <1>1, <3>2 DEF Asked
    <3>4. pc[n] = "announce" => pc'[n] = "announce"
      BY <1>1
    <3> QED BY <1>2, <2>2, <3>3, <3>4 DEF Remembers
  <2>6. Working' \subseteq Conns
    BY <1>1, <1>3
  <2>7. \A n \in Nodes, c \in Working' : answer[n][c] # << >> => c \in Working /\ Remembers(n, c)
    BY <1>1, <2>4, <2>5
  <2> QED BY <1>11, <2>1, <2>3, <2>6, <2>7, OweStep
<1> QED BY <1>6, <1>7, <1>8, <1>9, <1>10, <1>11 DEF FlowInv, StillFlows
-----------------------------------------------------------------------------
(* Mining *)

\* What a chain with one more block keeps.
LEMMA SoundGrows ==
    ASSUME Ind, Sound, NEW c \in built, NEW b, AddBlockAccepts(c, b),
           built' = built \cup {Append(c, b)}
    PROVE  Sound' /\ b.index = Len(c)
<1> DEFINE d == Append(c, b)
<1>1. /\ c \in Seq(Range(c)) /\ Len(c) \in Nat \ {0} /\ Last(c).index = Len(c) - 1
  BY BuiltIs, BuiltFields DEF Ind
<1>2. /\ Len(d) = Len(c) + 1 /\ d[Len(c) + 1] = b
      /\ \A i \in 1 .. Len(c) : d[i] = c[i]
  BY <1>1, AppendChain DEF Last
<1>3. b.index = Len(c) /\ b.prev_hash = Last(c).hash /\ BlockValidate(b)
  BY <1>1 DEF AddBlockAccepts
<1>4. Last(c) = c[Len(c)]
  BY DEF Last
<1>5. ChainValidate(c) /\ \A i \in 1 .. Len(c) : c[i].index = i - 1
  BY DEF Sound
<1> HIDE DEF d
<1>6. \A i \in 1 .. Len(d) : d[i].index = i - 1
  <2> SUFFICES ASSUME NEW i \in 1 .. Len(d) PROVE d[i].index = i - 1
    OBVIOUS
  <2>1. CASE i \in 1 .. Len(c)
    BY <1>2, <1>5, <2>1
  <2>2. CASE i = Len(c) + 1
    BY <1>1, <1>2, <1>3, <2>2
  <2> QED BY <1>1, <1>2, <2>1, <2>2
<1>7. ChainValidate(d)
  <2> SUFFICES ASSUME NEW i \in 2 .. Len(d)
               PROVE  d[i].prev_hash = d[i - 1].hash /\ BlockValidate(d[i])
    BY DEF ChainValidate
  <2>1. CASE i \in 1 .. Len(c)
    <3>1. d[i] = c[i] /\ d[i - 1] = c[i - 1] /\ i \in 2 .. Len(c)
      <4>1. i - 1 \in 1 .. Len(c) /\ i \in 2 .. Len(c)
        BY <1>1, <2>1
      <4> QED BY <1>2, <2>1, <4>1
    <3> QED BY <1>5, <3>1 DEF ChainValidate
  <2>2. CASE i = Len(c) + 1
    <3>1. i - 1 = Len(c) /\ Len(c) \in 1 .. Len(c)
      BY <1>1, <2>2
    <3>2. d[i] = b /\ d[i - 1] = Last(c)
      BY <1>2, <1>4, <2>2, <3>1
    <3> QED BY <1>3, <3>2
  <2> QED BY <1>1, <1>2, <2>1, <2>2
<1>8. \A a \in built' : a \in built \/ a = d
  BY DEF d
<1> QED BY <1>3, <1>6, <1>7, <1>8 DEF Sound

\* chain_add_block of a mined block: it will be announced.
LEMMA MinedFlow ==
    ASSUME Ind, TwoNodes, FlowInv, NEW x \in Nodes, MineAdd(x), pc'[x] # "menu"
    PROVE  StillFlows
<1>0. PICK b : b = BlockMine(new_block[x])
  OBVIOUS
<1>1. /\ AddBlockAccepts(chain[x], b) /\ pc[x] = "mine"
      /\ UNCHANGED <<mempool, total_fees, tx, netVars, sent, faults>>
      /\ chain' = [chain EXCEPT ![x] = Append(chain[x], b)]
      /\ new_block' = [new_block EXCEPT ![x] = b]
      /\ pc' = [pc EXCEPT ![x] = "announce"]
      /\ built' = built \cup {chain'[x]}
  <2>1. AddBlockAccepts(chain[x], b)
    BY <1>0 DEF MineAdd, Ind, NodeTypes
  <2>2. chain' = [chain EXCEPT ![x] = Append(chain[x], b)]
    BY <1>0, <2>1 DEF MineAdd, AddBlock, Ind, HeldInv
  <2> QED BY <1>0, <2>1, <2>2 DEF MineAdd
<1>2. /\ chain'[x] = Append(chain[x], b)
      /\ \A n \in Nodes \ {x} : chain'[n] = chain[n] /\ new_block'[n] = new_block[n]
      /\ \A n \in Nodes : pc'[n] = IF n = x THEN "announce" ELSE pc[n]
      /\ new_block'[x] = b
  BY <1>1 DEF Ind, HeldInv, NodeTypes
<1>3. /\ chain[x] \in built /\ built' = built \cup {Append(chain[x], b)}
      /\ \A n \in Nodes : chain[n] \in built
  BY <1>1, <1>2 DEF Ind, HeldInv
<1>4. Sound' /\ b.index = Len(chain[x])
  BY <1>1, <1>3, SoundGrows DEF FlowInv
<1>5. /\ \A n \in Nodes : Len(chain[n]) \in Nat /\ Len(chain'[n]) \in Nat
                          /\ Len(chain'[n]) >= Len(chain[n])
      /\ Len(chain'[x]) = Len(chain[x]) + 1
  <2>1. \A n \in Nodes : Len(chain[n]) \in Nat
    BY ChainFields
  <2>2. Len(Append(chain[x], b)) = Len(chain[x]) + 1
    BY <1>3, PrefixOfAppend
  <2>3. ASSUME NEW n \in Nodes PROVE Len(chain'[n]) \in Nat /\ Len(chain'[n]) >= Len(chain[n])
    <3>1. CASE n = x
      BY <1>2, <2>1, <2>2, <3>1
    <3>2. CASE n # x
      BY <1>2, <2>1, <3>2
    <3> QED BY <3>1, <3>2
  <2> QED BY <1>2, <2>1, <2>2, <2>3
<1>6. /\ Joined /\ Working \subseteq Conns /\ Made \subseteq Conns /\ Working \subseteq Made
      /\ Made' = Made /\ Working' = Working
      /\ UNCHANGED <<conns, up, backlog, peers, accepting, inbox, relay, answer>>
  BY <1>1, WorkingIs DEF Working, Made, FlowInv, netVars, peerVars
<1>7. Joined'
  BY <1>6 DEF Joined
<1>8. Greeting'
  BY <1>2, <1>6 DEF FlowInv, Greeting
<1>9. Had'
  <2>1. ASSUME NEW n \in Nodes, pc'[n] = "announce"
        PROVE  new_block'[n].index < Len(chain'[n])
    <3>1. CASE n = x
      BY <1>2, <1>4, <1>5, <3>1
    <3>2. CASE n # x
      BY <1>2, <2>1, <3>2 DEF FlowInv, Had
    <3> QED BY <3>1, <3>2
  <2>2. ASSUME NEW n \in Nodes, NEW c \in Conns, relay[n][c] # NoBlock
        PROVE  c \in peers[n] /\ relay[n][c].index < Len(chain'[n])
    <3>1. c \in peers[n] /\ relay[n][c].index < Len(chain[n])
      BY <2>2 DEF FlowInv, Had
    <3>2. relay[n][c].index \in Nat
      BY <2>2, TipIsBlock DEF Ind, HeldInv, IsBlock
    <3> QED BY <1>5, <3>1, <3>2
  <2> QED BY <1>6, <2>1, <2>2 DEF Had
<1>10. ASSUME NEW y \in Nodes \ {x}
       PROVE  Way(x, y)'
  <2>1. Way(x, y)
    BY DEF FlowInv
  <2>2. ASSUME NEW c \in Working
        PROVE  /\ c \in Conns /\ (Asked(x, c) => Asked(x, c)')
               /\ Asked(x, c)' \/ c \in peers'[x]
    <3>1. Asked(x, c)' <=> Asked(x, c)
      BY <1>6 DEF Asked
    <3>2. c \in Made /\ (conns[c][1] = x \/ conns[c][2] = x)
      BY <1>6, Ends
    <3>3. Asked(x, c) \/ c \in peers[x]
      BY <1>6, <3>2 DEF Joined, Asked
    <3> QED BY <1>6, <3>1, <3>3
  <2>3. ASSUME NEW c \in Working
        PROVE  Flow(x, y, c)'
    <3>1. Flow(x, y, c) /\ FromPeer(x, y, c)
      BY <2>1 DEF Way, Flow
    <3>2. FromPeer(x, y, c)'
      <4>1. relay[y][c] # NoBlock => relay[y][c].index \in Nat
        BY <2>2, TipIsBlock DEF Ind, HeldInv, IsBlock
      <4> QED BY <1>5, <1>6, <3>1, <4>1 DEF FromPeer
    <3>3. /\ inbox'[y][c] = inbox[y][c] /\ chain'[y] = chain[y] /\ answer' = answer
          /\ pc[x] = "mine" /\ pc'[x] = "announce" /\ new_block'[x] = b
      BY <1>1, <1>2, <1>6
    <3> QED BY <1>2, <1>4, <2>2, <3>1, <3>2, <3>3, FlowMined
  <2>4. ASSUME NEW c \in Working, NEW k \in 0 .. Len(chain[x]),
               k < Len(chain[x]) => Delivered(x, y, c, 0, k)
        PROVE  Delivered(x, y, c, 0, k)'
    <3>1. /\ inbox'[y][c] = inbox[y][c] /\ answer' = answer
          /\ pc[x] = "mine" /\ pc'[x] = "announce" /\ new_block'[x] = b
      BY <1>1, <1>2, <1>6
    <3> QED BY <1>2, <2>2, <2>4, <3>1, DeliveredMined
  <2>5. CatchesUp(x, y)'
    <3> SUFFICES ASSUME Working # {}, IsPrefix(chain[y], Append(chain[x], b))
                 PROVE  \E c \in Working : \A k \in Len(chain[y]) .. Len(chain[x]) : Delivered(x, y, c, 0, k)'
      <4>1. Len(chain'[x]) - 1 = Len(chain[x])
        BY <1>5
      <4> QED BY <1>2, <1>6, <4>1 DEF CatchesUp, RestDelivered
    <3>1. CASE IsPrefix(chain[y], chain[x])
      <4>1. PICK c \in Working : RestDelivered(x, y, c, 0, Len(chain[y]))
        BY <2>1, <3>1 DEF Way, CatchesUp
      <4>2. ASSUME NEW k \in Len(chain[y]) .. Len(chain[x])
            PROVE  Delivered(x, y, c, 0, k)'
        <5>1. k \in 0 .. Len(chain[x]) /\ (k < Len(chain[x]) => k \in Len(chain[y]) .. Len(chain[x]) - 1)
          BY <1>5
        <5> QED BY <2>4, <4>1, <5>1 DEF RestDelivered
      <4> QED BY <4>2
    <3>2. CASE Len(chain[y]) = Len(chain[x]) + 1
      <4>1. Len(chain[y]) .. Len(chain[x]) = {}
        BY <1>5, <3>2
      <4> QED BY <4>1
    <3> QED BY <1>3, <3>1, <3>2, PrefixOfAppend
  <2> QED BY <1>6, <2>3, <2>5 DEF Way
<1>11. ASSUME NEW y \in Nodes \ {x}
       PROVE  Way(y, x)'
  <2>1. Way(y, x)
    BY DEF FlowInv
  <2>2. ASSUME NEW c \in Working
        PROVE  /\ Flow(y, x, c)'
               /\ \A k \in 0 .. Len(chain[y]) - 1 : Delivered(y, x, c, 0, k) => Delivered(y, x, c, 0, k)'
    <3>1. Flow(y, x, c) /\ FromPeer(y, x, c)
      BY <2>1 DEF Way, Flow
    <3>2. FromPeer(y, x, c)'
      BY <1>2, <1>6, <3>1 DEF FromPeer
    <3>3. Asked(y, c) => Asked(y, c)'
      BY <1>6 DEF Asked
    <3>4. /\ c \in Conns /\ inbox'[x][c] = inbox[x][c] /\ chain'[y] = chain[y]
          /\ (pc'[y] = "announce" <=> pc[y] = "announce") /\ new_block'[y] = new_block[y]
          /\ (c \in peers[y] => c \in peers'[y]) /\ answer'[y][c] = answer[y][c]
      BY <1>2, <1>6
    <3> QED BY <1>5, <3>1, <3>2, <3>3, <3>4, FlowIdle
  <2>3. CatchesUp(y, x)'
    <3> SUFFICES ASSUME Working # {}, IsPrefix(chain'[x], chain[y])
                 PROVE  \E c \in Working : \A k \in Len(chain'[x]) .. Len(chain[y]) - 1 :
                            Delivered(y, x, c, 0, k)'
      BY <1>2, <1>6 DEF CatchesUp, RestDelivered
    <3>1. IsPrefix(chain[x], chain[y])
      <4>1. chain[x] \in Seq(Range(chain[x])) /\ chain[y] \in Seq(Range(chain[y]))
        BY <1>3, BuiltIs
      <4>2. /\ chain'[x] \in Seq(Range(chain'[x]))
            /\ \A i \in 1 .. Len(chain[x]) : chain'[x][i] = chain[x][i]
        BY <1>2, <4>1, AppendChain
      <4>3. Len(chain'[x]) <= Len(chain[y]) /\ \A i \in 1 .. Len(chain'[x]) : chain'[x][i] = chain[y][i]
        <5>1. chain'[x] \in Seq(Range(chain'[x]))
          BY <4>2
        <5>2. chain[y] \in Seq(Range(chain[y]))
          BY <4>1
        <5>3. IsPrefix(chain'[x], chain[y])
          OBVIOUS
        <5> QED BY <5>1, <5>2, <5>3, PrefixIs
      <4>4. Len(chain[x]) <= Len(chain[y]) /\ \A i \in 1 .. Len(chain[x]) : chain[x][i] = chain[y][i]
        BY <1>5, <4>2, <4>3
      <4> QED BY <4>1, <4>4, PrefixIs
    <3>2. PICK c \in Working : RestDelivered(y, x, c, 0, Len(chain[x]))
      BY <2>1, <3>1 DEF Way, CatchesUp
    <3>3. ASSUME NEW k \in Len(chain'[x]) .. Len(chain[y]) - 1
          PROVE  Delivered(y, x, c, 0, k)'
      <4>1. k \in Len(chain[x]) .. Len(chain[y]) - 1 /\ k \in 0 .. Len(chain[y]) - 1
        BY <1>5
      <4> QED BY <2>2, <3>2, <4>1 DEF RestDelivered
    <3> QED BY <3>3
  <2> QED BY <1>6, <2>2, <2>3 DEF Way
<1>12. ASSUME NEW n \in Nodes, NEW m \in Nodes \ {n}
       PROVE  Way(n, m)'
  <2>1. n = x \/ m = x
    <3>1. Nodes = {n, m}
      BY DEF TwoNodes
    <3> QED BY <3>1
  <2> QED BY <1>10, <1>11, <2>1
<1>13. ASSUME OweInv PROVE OweInv'
  <2>1. \A n \in Nodes, c \in Conns : answer'[n][c] = answer[n][c] /\ (c \in peers[n] => c \in peers'[n])
    BY <1>6
  <2>2. ASSUME NEW n \in Nodes \ {x}, NEW c \in Working PROVE Remembers(n, c)
    <3>1. pc'[n] = pc[n] /\ chain'[n] = chain[n] /\ new_block'[n] = new_block[n]
      BY <1>2
    <3>2. Asked(n, c) => Asked(n, c)'
      BY <1>6 DEF Asked
    <3> QED BY <1>6, <3>1, <3>2 DEF Remembers
  <2>3. ASSUME NEW y \in Nodes \ {x}, NEW c \in Working, answer[x][c] # << >>,
               Len(answer[x][c]) > Len(chain[y]), IsPrefix(answer[x][c], chain'[x]),
               NEW k \in Len(answer[x][c]) .. Len(chain'[x]) - 1
        PROVE  Asked(x, c) \/ (c \in peers[x] /\ b = chain'[x][k + 1])
    <3>0. c \in Conns
      BY <1>6
    <3>1. /\ answer[x][c] \in built /\ c \in peers[x]
          /\ Len(answer[x][c]) \in Nat /\ Len(answer[x][c]) <= Len(chain[x])
      BY <1>13, <2>3, <3>0, AnswerIs DEF OweInv, Answers
    <3>2. IsPrefix(answer[x][c], chain[x])
      <4>1. Len(answer[x][c]) # Len(chain[x]) + 1
        BY <1>5, <3>1
      <4>2. PICK a \in built : a = answer[x][c]
        BY <3>1
      <4>3. IsPrefix(a, Append(chain[x], b))
        BY <1>2, <2>3, <4>2
      <4>4. IsPrefix(a, chain[x]) \/ Len(a) = Len(chain[x]) + 1
        BY <4>3, PrefixOfAppend
      <4> QED BY <4>1, <4>2, <4>4
    <3>3. /\ \A i \in 1 .. Len(chain[x]) : chain'[x][i] = chain[x][i]
          /\ chain'[x][Len(chain[x]) + 1] = b
      <4>1. chain[x] \in Seq(Range(chain[x]))
        BY <1>3, BuiltIs
      <4> QED BY <1>2, <4>1, AppendChain
    <3>4. CASE k = Len(chain[x])
      BY <3>1, <3>3, <3>4
    <3>5. CASE k # Len(chain[x])
      <4>1. k \in Len(answer[x][c]) .. Len(chain[x]) - 1
        BY <1>5, <3>1, <3>5
      <4>2. Owes(x, y, c)
        BY <1>13 DEF OweInv
      <4>3. Asked(x, c) \/ Announcing(x, c, chain[x][k + 1])
        BY <2>3, <3>2, <4>1, <4>2 DEF Owes
      <4> QED BY <1>1, <4>3 DEF Announcing
    <3> QED BY <3>4, <3>5
  <2>4. ASSUME NEW y \in Nodes \ {x}, NEW c \in Working, answer[x][c] # << >>
        PROVE  Owes(x, y, c)'
    <3>1. /\ answer'[x][c] = answer[x][c] /\ chain'[y] = chain[y]
          /\ pc'[x] = "announce" /\ new_block'[x] = b /\ peers' = peers
      BY <1>2, <1>6
    <3>2. Asked(x, c)' <=> Asked(x, c)
      BY <1>6 DEF Asked
    <3> QED BY <2>3, <2>4, <3>1, <3>2 DEF Owes, Announcing
  <2>5. \A n \in Nodes : \A m \in Nodes \ {n} : \A c \in Working :
           answer[n][c] # << >> => Remembers(n, c) \/ Owes(n, m, c)'
    <3> SUFFICES ASSUME NEW n \in Nodes, NEW m \in Nodes \ {n}, NEW c \in Working, answer[n][c] # << >>
                 PROVE  Remembers(n, c) \/ Owes(n, m, c)'
      OBVIOUS
    <3>1. CASE n = x
      BY <2>4, <3>1
    <3>2. CASE n # x
      BY <2>2, <3>2
    <3> QED BY <3>1, <3>2
  <2> QED BY <1>5, <1>6, <1>13, <2>1, <2>5, OweStep
<1> QED BY <1>4, <1>7, <1>8, <1>9, <1>12, <1>13 DEF FlowInv, StillFlows
-----------------------------------------------------------------------------
(* Two nodes catch up with each other: the steps, put together *)

\* Every step of the network leaves the invariant true, as long as two
\* connections between the same nodes both work and no answer is overtaken.
LEMMA StepFlow ==
    ASSUME Ind, TwoNodes, FlowInv, OweInv, BothWork, BothWork',
           NothingOvertakes, NothingOvertakes', [Next]_vars
    PROVE  FlowInv' /\ OweInv'
<1> SUFFICES StillFlows
  BY DEF StillFlows
<1>1. ASSUME NEW n \in Nodes, MainOnly(n) PROVE StillFlows
  BY <1>1, SilentFlow
<1>2. ASSUME NEW n \in Nodes, UserStep(n) PROVE StillFlows
  <2>1. CASE (\E t \in Times : MineSnapshot(n, t)) \/ (\E p \in Payments : SendCheck(n, p))
    BY <1>1, <2>1, MainOnlySteps
  <2>2. CASE \E m \in Nodes : Connect(n, m)
    BY <2>2, ConnectFlow
  <2> QED BY <1>2, <2>1, <2>2 DEF UserStep
<1>3. ASSUME NEW n \in Nodes, MainStep(n) PROVE StillFlows
  <2>1. CASE MineLock(n) \/ MineCollect(n) \/ MineSeal(n) \/ SendEnqueue(n)
    BY <1>1, <2>1, MainOnlySteps
  <2>2. CASE MineAdd(n)
    <3>1. CASE pc'[n] = "menu"
      BY <1>1, <2>2, <3>1, MainOnlySteps
    <3>2. CASE pc'[n] # "menu"
      BY <2>2, <3>2, MinedFlow
    <3> QED BY <3>1, <3>2
  <2>3. CASE MineAnnounce(n) \/ SendPublish(n)
    BY <2>3, AnnounceFlow, PublishFlow
  <2>4. CASE Greet(n) \/ RequestAgain(n)
    BY <2>4, GreetFlow, RequestAgainFlow
  <2> QED BY <1>3, <2>1, <2>2, <2>3, <2>4 DEF MainStep
<1>4. ASSUME NEW n \in Nodes, NEW c \in Conns, HandlerStep(n, c) PROVE StillFlows
  <2>1. CASE RecvBlock(n, c) \/ RelayBlock(n, c)
    BY <2>1, RecvBlockFlow, RelayFlow
  <2>2. CASE RecvTx(n, c) \/ RecvRequest(n, c) \/ RecvChain(n, c)
    BY <2>2, RecvTxFlow, RecvRequestFlow, RecvChainFlow
  <2>3. CASE SendAnswer(n, c) \/ PeerLost(n, c)
    BY <2>3, SendAnswerFlow, PeerLostFlow
  <2> QED BY <1>4, <2>1, <2>2, <2>3 DEF HandlerStep
<1>5. CASE \/ \E n \in Nodes : AcceptGreet(n) \/ Restart(n)
           \/ \E n \in Nodes, c \in Conns : Accept(n, c)
  BY <1>5, AcceptGreetFlow, RestartFlow, AcceptFlow
<1>6. CASE \E c \in Conns : LinkDown(c)
  BY <1>6, LinkDownFlow
<1>7. CASE UNCHANGED vars
  BY <1>7, StutterFlow
<1> QED BY <1>2, <1>3, <1>4, <1>5, <1>6, <1>7 DEF Next

\* The first block passes chain_validate, which looks at pairs of blocks only,
\* and nothing is connected.
LEMMA InitFlow ==
    ASSUME Init
    PROVE  FlowInv /\ OweInv
<1>1. Made = {} /\ Working = {} /\ \A c \in Conns : ~ up[c]
  <2>1. Len(conns) = 0
    BY LenProperties DEF Init
  <2> QED BY <2>1 DEF Made, Working, Init
<1>2. Joined
  BY <1>1 DEF Joined, Init
<1>3. Greeting
  BY DEF Greeting, Init
<1>4. Had
  BY DEF Had, Init
<1>5. Sound
  <2>1. Len(ChainInit) = 1 /\ ChainInit[1] = Genesis
    BY DEF ChainInit
  <2>2. ChainValidate(ChainInit)
    <3>1. 2 .. Len(ChainInit) = {}
      BY <2>1
    <3> QED BY <3>1 DEF ChainValidate
  <2>3. \A i \in 1 .. Len(ChainInit) : ChainInit[i].index = i - 1
    BY <2>1, GenesisFields
  <2>4. built = {ChainInit}
    BY DEF Init
  <2> QED BY <2>2, <2>3, <2>4 DEF Sound
<1>6. \A n \in Nodes : \A m \in Nodes \ {n} : Way(n, m)
  BY <1>1 DEF Way, CatchesUp
<1>7. OweInv
  <2>1. \A n \in Nodes, c \in Conns : answer[n][c] = << >>
    BY DEF Init
  <2> QED BY <1>1, <2>1 DEF OweInv, Answers
<1> QED BY <1>2, <1>3, <1>4, <1>5, <1>6, <1>7 DEF FlowInv

\* When nothing is under way, nothing is left to bring.
LEMMA LevelWhenQuiet ==
    ASSUME Ind, TwoNodes, FlowInv
    PROVE  NoNeighbourLags
<1> SUFFICES ASSUME Quiet, NEW n \in Nodes, NEW m \in Nodes,
                    Linked(n, m), IsPrefix(chain[m], chain[n])
             PROVE  chain[m] = chain[n]
  BY DEF NoNeighbourLags
<1>1. CASE n = m
  BY <1>1
<1>2. CASE n # m
  <2>1. Way(n, m) /\ Working \subseteq Conns
    BY <1>2, WorkingIs DEF FlowInv
  <2>2. Working # {}
    BY DEF Linked, Working
  <2>3. PICK c \in Working : RestDelivered(n, m, c, 0, Len(chain[m]))
    BY <2>1, <2>2 DEF Way, CatchesUp
  <2>4. /\ pc[n] = "menu" /\ backlog = {}
        /\ inbox[n][c] = << >> /\ inbox[m][c] = << >> /\ answer[n][c] = << >>
    BY <2>1 DEF Quiet
  <2>5. ASSUME NEW k \in Nat PROVE ~ Delivered(n, m, c, 0, k)
    <3>1. Range(inbox[n][c]) = {} /\ Len(inbox[m][c]) = 0 /\ Len(answer[n][c]) = 0
      BY <2>4, LenProperties DEF Range
    <3>2. ~ ToBeSent(n, c, k)
      BY <2>4, <3>1 DEF ToBeSent, Asked, Announcing, Answering
    <3>3. ~ InTransit(n, m, c, 0, k)
      BY <3>1 DEF InTransit
    <3> QED BY <3>2, <3>3 DEF Delivered
  <2>6. /\ chain[n] \in Seq(Range(chain[n])) /\ chain[m] \in Seq(Range(chain[m]))
        /\ Len(chain[n]) \in Nat /\ Len(chain[m]) \in Nat
    BY BuiltIs, ChainFields
  <2>7. /\ Len(chain[m]) <= Len(chain[n])
        /\ \A i \in 1 .. Len(chain[m]) : chain[m][i] = chain[n][i]
    BY <2>6, PrefixIs
  <2>8. Len(chain[m]) = Len(chain[n])
    <3>1. \A k \in Len(chain[m]) .. Len(chain[n]) - 1 : FALSE
      BY <2>3, <2>5, <2>6 DEF RestDelivered
    <3>2. CASE Len(chain[m]) < Len(chain[n])
      <4>1. Len(chain[m]) \in Len(chain[m]) .. Len(chain[n]) - 1
        BY <2>6, <3>2
      <4> QED BY <3>1, <4>1
    <3> QED BY <2>6, <2>7, <3>2
  <2> QED BY <2>6, <2>7, <2>8, SeqEqual
<1> QED BY <1>1, <1>2

-----------------------------------------------------------------------------
(* The theorem *)

\* Two nodes that are connected catch up with each other, whatever they mine and
\* send at the same time, however many connections they hold, how often one
\* breaks and how often either process is restarted: when everything has been
\* handled neither is behind the other on the same branch.  That takes two
\* things: while two connections join them both work, and no announcement gets
\* in between the reading and the sending of an answer.  Then this is what
\* node_broadcast_block, REQUEST_CHAIN on both sides of a connection and
\* chain_replace achieve together.
THEOREM NeighboursLevel == NoHashCollision /\ TwoNodes => (Spec => NeighboursCatchUp)
<1> SUFFICES ASSUME NoHashCollision, TwoNodes
             PROVE  Spec => NeighboursCatchUp
  OBVIOUS
<1>1. Spec => []Ind
  BY Inductive
<1>2. Init => FlowInv /\ OweInv
  BY InitFlow
<1>3. /\ Ind /\ FlowInv /\ OweInv /\ BothWork /\ BothWork'
      /\ NothingOvertakes /\ NothingOvertakes' /\ [Next]_vars
      => FlowInv' /\ OweInv'
  BY StepFlow
<1>4. Ind /\ FlowInv => NoNeighbourLags
  BY LevelWhenQuiet
<1> QED BY <1>1, <1>2, <1>3, <1>4, PTL DEF Spec, NeighboursCatchUp

\* Connections work until one is broken or a process is restarted.
AllWork == faults = 0 => \A c \in Made : up[c]

\* Nothing else makes a connection go down.
LEMMA AllWorkStep ==
    ASSUME Ind, AllWork, [Next]_vars
    PROVE  AllWork'
<1> SUFFICES ASSUME faults' = 0 PROVE (\A c \in Made : up[c])'
  BY DEF AllWork
<1> USE DEF nodeVars, mainVars, netVars, peerVars
<1>1. /\ conns' = conns /\ up' = up /\ faults' = faults
      => (\A c \in Made : up[c])'
  BY DEF AllWork, Made
<1>2. faults \in Nat
  BY BoundAssumption DEF Ind, NodeTypes
<1>3. ASSUME NEW n \in Nodes, UserStep(n) PROVE (\A c \in Made : up[c])'
  <2>1. CASE \E t \in Times : MineSnapshot(n, t)
    BY <1>1, <2>1 DEF MineSnapshot
  <2>2. CASE \E p \in Payments : SendCheck(n, p)
    BY <1>1, <2>2 DEF SendCheck
  <2>3. ASSUME NEW m \in Nodes, Connect(n, m)
        PROVE  (\A c \in Made : up[c])'
    <3>1. \A c \in Made : up[c]
      BY <2>3 DEF Connect, AllWork
    <3>2. PICK e : e = Len(conns) + 1
      OBVIOUS
    <3>3. Connected(n, m, e)
      BY <2>3, <3>2, ConnectFields
    <3>4. e \in Conns /\ Made \subseteq Conns /\ Made' = Made \cup {e}
      BY <3>3, WorkingIs DEF Connected
    <3> QED BY <3>1, <3>3, <3>4 DEF Connected
  <2> QED BY <1>3, <2>1, <2>2, <2>3 DEF UserStep
<1>4. ASSUME NEW n \in Nodes, MainStep(n) PROVE (\A c \in Made : up[c])'
  BY <1>1, <1>4 DEF MainStep, MineLock, MineCollect, MineSeal, MineAdd, MineAnnounce,
     SendEnqueue, SendPublish, Greet, RequestAgain
<1>5. ASSUME NEW n \in Nodes, NEW c \in Conns, HandlerStep(n, c)
      PROVE  (\A d \in Made : up[d])'
  BY <1>1, <1>5 DEF HandlerStep, RecvBlock, RelayBlock, RecvTx, RecvRequest, SendAnswer,
     RecvChain, PeerLost
<1>6. ASSUME NEW n \in Nodes, AcceptGreet(n) \/ \E c \in Conns : Accept(n, c)
      PROVE  (\A d \in Made : up[d])'
  BY <1>1, <1>6 DEF AcceptGreet, Accept
<1>7. CASE (\E n \in Nodes : Restart(n)) \/ \E c \in Conns : LinkDown(c)
  BY <1>2, <1>7 DEF Restart, LinkDown
<1>8. CASE UNCHANGED vars
  BY <1>1, <1>8 DEF vars
<1> QED BY <1>3, <1>4, <1>5, <1>6, <1>7, <1>8 DEF Next

\* As long as no connection breaks, no process ends and no announcement gets in
\* between the reading and the sending of an answer, neither of two nodes is ever
\* left behind by the other on the same branch: in every order of mining,
\* connecting twice and in both directions, announcing, answering and passing on.
THEOREM NeighbourNeverLags ==
    NoHashCollision /\ TwoNodes /\ MaxFaults = 0
        => (Spec => ([]NothingOvertakes => []NoNeighbourLags))
<1> SUFFICES ASSUME NoHashCollision, TwoNodes, MaxFaults = 0
             PROVE  Spec => ([]NothingOvertakes => []NoNeighbourLags)
  OBVIOUS
<1>1. Spec => []Ind
  BY Inductive
<1>2. Init => AllWork
  <2> SUFFICES ASSUME Init PROVE AllWork
    OBVIOUS
  <2>1. Made = {}
    BY DEF Made, Init
  <2> QED BY <2>1 DEF AllWork
<1>3. Ind /\ AllWork /\ [Next]_vars => AllWork'
  BY AllWorkStep
<1>4. Ind /\ AllWork => BothWork
  BY DEF Ind, NodeTypes, AllWork, BothWork
<1>5. Spec => NeighboursCatchUp
  BY NeighboursLevel
<1> QED BY <1>1, <1>2, <1>3, <1>4, <1>5, PTL DEF Spec, NeighboursCatchUp
-----------------------------------------------------------------------------
(* Two nodes share their mempools: the invariant *)

\* No payment is turned away: a mempool fills up only when it holds them all.
RoomLeft ==
    \A n \in Nodes : Len(mempool[n]) < MEMPOOL_SIZE \/ UserTxs \subseteq Range(mempool[n])

\* n will send its mempool on c: c waits to be accepted by n, or is greeted.
Greets(n, c) ==
    \/ c \in backlog /\ conns[c][2] = n
    \/ accepting[n] = c
    \/ pc[n] = "greet" /\ OwnLatest(n) = c

\* The payment t is on its way from n to m on c.
Comes(n, m, c, t) ==
    \/ Greets(n, c)
    \/ pc[n] = "publish" /\ tx[n] = t /\ c \in peers[n]
    \/ NewTx(t) \in Range(inbox[m][c])

\* What n holds is at m or comes there on c; what comes from n on c, n holds.
PoolFlow(n, m, c) ==
    /\ \A t \in Range(mempool[n]) : t \in Range(mempool[m]) \/ Comes(n, m, c, t)
    /\ \A t \in UserTxs : NewTx(t) \in Range(inbox[m][c]) => t \in Range(mempool[n])

\* A payment is pooled before it is published, and while nobody mines it stays.
PoolInv ==
    /\ \A n \in Nodes : pc[n] \notin {"lock", "collect", "mine", "announce"}
    /\ \A n \in Nodes : pc[n] = "publish" => tx[n] \in Range(mempool[n])
    /\ \A n \in Nodes : \A m \in Nodes \ {n} : \A c \in Working : PoolFlow(n, m, c)

-----------------------------------------------------------------------------
(* Queues of payments *)

\* What is in two queues is in the one they make together.
LEMMA RangeJoined ==
    ASSUME NEW S, NEW s \in Seq(S), NEW t \in Seq(S)
    PROVE  Range(s \o t) = Range(s) \cup Range(t)
<1>1. /\ s \o t \in Seq(S) /\ Len(s \o t) = Len(s) + Len(t)
      /\ Len(s) \in Nat /\ Len(t) \in Nat
      /\ \A i \in 1 .. Len(s) : (s \o t)[i] = s[i]
      /\ \A i \in 1 .. Len(t) : (s \o t)[Len(s) + i] = t[i]
      /\ \A i \in Len(s) + 1 .. Len(s \o t) :
            i - Len(s) \in 1 .. Len(t) /\ (s \o t)[i] = t[i - Len(s)]
  BY QueueGrows
<1>2. /\ DOMAIN s = 1 .. Len(s) /\ DOMAIN t = 1 .. Len(t)
      /\ DOMAIN (s \o t) = 1 .. Len(s \o t)
  BY <1>1, LenProperties
<1>3. Range(s) \subseteq Range(s \o t)
  BY RangeGrows
<1>4. ASSUME NEW x \in Range(t) PROVE x \in Range(s \o t)
  <2>1. PICK i \in 1 .. Len(t) : x = t[i]
    BY <1>2 DEF Range
  <2>2. Len(s) + i \in 1 .. Len(s \o t)
    BY <1>1
  <2> QED BY <1>1, <1>2, <2>1, <2>2 DEF Range
<1>5. ASSUME NEW x \in Range(s \o t) PROVE x \in Range(s) \cup Range(t)
  <2>1. PICK i \in 1 .. Len(s \o t) : x = (s \o t)[i]
    BY <1>2 DEF Range
  <2>2. CASE i \in 1 .. Len(s)
    BY <1>1, <1>2, <2>1, <2>2 DEF Range
  <2>3. CASE i \in Len(s) + 1 .. Len(s \o t)
    BY <1>1, <1>2, <2>1, <2>3 DEF Range
  <2>4. i \in 1 .. Len(s) \/ i \in Len(s) + 1 .. Len(s \o t)
    BY <1>1
  <2> QED BY <2>2, <2>3, <2>4
<1> QED BY <1>3, <1>4, <1>5

\* Reading the first message leaves the others.
LEMMA RangeRead ==
    ASSUME NEW S, NEW s \in Seq(S), s # << >>
    PROVE  Range(s) = {Head(s)} \cup Range(Tail(s))
<1>1. /\ Tail(s) \in Seq(S) /\ Len(Tail(s)) = Len(s) - 1
      /\ Len(s) \in Nat \ {0} /\ Head(s) = s[1]
      /\ \A i \in 1 .. Len(s) - 1 : Tail(s)[i] = s[i + 1]
  BY QueueShrinks
<1>2. DOMAIN s = 1 .. Len(s) /\ DOMAIN Tail(s) = 1 .. Len(s) - 1
  BY <1>1, LenProperties
<1>3. Range(s) \subseteq {Head(s)} \cup Range(Tail(s))
  BY RangeTail
<1>4. Head(s) \in Range(s)
  <2>1. 1 \in 1 .. Len(s)
    BY <1>1
  <2> QED BY <1>1, <1>2, <2>1 DEF Range
<1>5. ASSUME NEW x \in Range(Tail(s)) PROVE x \in Range(s)
  <2>1. PICK i \in 1 .. Len(s) - 1 : x = Tail(s)[i]
    BY <1>2 DEF Range
  <2>2. i + 1 \in 1 .. Len(s)
    BY <1>1
  <2> QED BY <1>1, <1>2, <2>1, <2>2 DEF Range
<1> QED BY <1>3, <1>4, <1>5

\* Another message is not taken for a payment, nor one payment for another.
LEMMA NewTxIs ==
    ASSUME NEW t
    PROVE  NewTx(t).type = "NEW_TX" /\ NewTx(t).tx = t
BY DEF NewTx

\* A queue of one message.
LEMMA RangeOfOne ==
    ASSUME NEW S, NEW x \in S
    PROVE  <<x>> \in Seq(S) /\ Range(<<x>>) = {x}
<1>1. <<x>> \in Seq(S) /\ DOMAIN <<x>> = {1} /\ <<x>>[1] = x
  OBVIOUS
<1> QED BY <1>1 DEF Range

\* The payments on a connection are the same after the step.
SameTxs(m, c) ==
    \A t \in UserTxs : NewTx(t) \in Range(inbox'[m][c]) <=> NewTx(t) \in Range(inbox[m][c])

\* send_message of something else.
LEMMA SendOther ==
    ASSUME Ind, NEW n \in Nodes, NEW cs, NEW msg \in Wire, msg.type # "NEW_TX",
           NEW box \in [Nodes -> [Conns -> Seq(Wire)]], inbox' = Send(box, n, cs, <<msg>>),
           NEW m \in Nodes, NEW c \in Conns,
           \A t \in UserTxs : NewTx(t) \in Range(box[m][c]) <=> NewTx(t) \in Range(inbox[m][c])
    PROVE  SameTxs(m, c)
<1>1. inbox'[m][c] = IF c \in cs /\ up[c] /\ m = Other(n, c)
                     THEN box[m][c] \o <<msg>> ELSE box[m][c]
  BY DEF Send
<1>2. <<msg>> \in Seq(Wire) /\ Range(<<msg>>) = {msg} /\ box[m][c] \in Seq(Wire)
  BY RangeOfOne
<1>3. Range(box[m][c] \o <<msg>>) = Range(box[m][c]) \cup {msg}
  <2>1. Range(box[m][c] \o <<msg>>) = Range(box[m][c]) \cup Range(<<msg>>)
    BY <1>2, RangeJoined
  <2> QED BY <1>2, <2>1
<1> QED BY <1>1, <1>3, NewTxIs DEF SameTxs

\* read_message of something else.
LEMMA ReadOther ==
    ASSUME Ind, NEW n \in Nodes, NEW e \in Conns, inbox[n][e] # << >>,
           Head(inbox[n][e]).type # "NEW_TX",
           NEW m \in Nodes, NEW c \in Conns
    PROVE  /\ Consumed(n, e) \in [Nodes -> [Conns -> Seq(Wire)]]
           /\ \A t \in UserTxs : NewTx(t) \in Range(Consumed(n, e)[m][c])
                                    <=> NewTx(t) \in Range(inbox[m][c])
<1>1. inbox \in [Nodes -> [Conns -> Seq(Wire)]]
  BY DEF Ind, HeldInv
<1>2. Tail(inbox[n][e]) \in Seq(Wire)
  BY <1>1, QueueShrinks
<1>3. Consumed(n, e) \in [Nodes -> [Conns -> Seq(Wire)]]
  BY <1>1, <1>2 DEF Consumed
<1>4. Consumed(n, e)[m][c] = IF m = n /\ c = e THEN Tail(inbox[n][e]) ELSE inbox[m][c]
  BY <1>1 DEF Consumed
<1>5. Range(inbox[n][e]) = {Head(inbox[n][e])} \cup Range(Tail(inbox[n][e]))
  BY <1>1, RangeRead
<1> QED BY <1>3, <1>4, <1>5, NewTxIs
-----------------------------------------------------------------------------
(* Two nodes share their mempools: the steps *)

\* What comes still comes or has been put on the connection, and nothing is put
\* on it that the sender does not hold.
PoolFits(n, m, c) ==
    /\ \A t \in Range(mempool[n]) : Comes(n, m, c, t) => Comes(n, m, c, t)'
    /\ \A t \in UserTxs : NewTx(t) \in Range(inbox'[m][c])
                             => NewTx(t) \in Range(inbox[m][c]) \/ t \in Range(mempool[n])

\* Nobody mines in the next state, and a payment that is being published was.
NoneMines ==
    \A n \in Nodes : /\ pc'[n] \notin {"lock", "collect", "mine", "announce"}
                     /\ pc'[n] = "publish" => pc[n] = "publish" /\ tx'[n] = tx[n]

\* A step that leaves the mempools alone.
LEMMA PoolStep ==
    ASSUME PoolInv, mempool' = mempool, Working' \subseteq Working, NoneMines,
           \A n \in Nodes : \A m \in Nodes \ {n} : \A c \in Working' : PoolFits(n, m, c)
    PROVE  PoolInv'
<1>1. \A n \in Nodes : pc'[n] = "publish" => tx'[n] \in Range(mempool'[n])
  BY DEF PoolInv, NoneMines
<1>2. ASSUME NEW n \in Nodes, NEW m \in Nodes \ {n}, NEW c \in Working'
      PROVE  PoolFlow(n, m, c)'
  <2>1. PoolFlow(n, m, c) /\ PoolFits(n, m, c)
    BY <1>2 DEF PoolInv
  <2>2. ASSUME NEW t \in Range(mempool[n])
        PROVE  t \in Range(mempool[m]) \/ Comes(n, m, c, t)'
    BY <2>1 DEF PoolFlow, PoolFits
  <2>3. ASSUME NEW t \in UserTxs, NewTx(t) \in Range(inbox'[m][c])
        PROVE  t \in Range(mempool[n])
    BY <2>1, <2>3 DEF PoolFlow, PoolFits
  <2> QED BY <2>2, <2>3 DEF PoolFlow
<1> QED BY <1>1, <1>2 DEF PoolInv, NoneMines

\* Payments are of users.
LEMMA PooledIsUsers ==
    ASSUME Ind, NEW n \in Nodes
    PROVE  Range(mempool[n]) \subseteq UserTxs /\ mempool[n] \in Seq(UserTxs)
<1>1. mempool[n] \in Seq(UserTxs)
  BY DEF Ind, NodeTypes
<1> QED BY <1>1, LenProperties, ElementOfSeq DEF Range

\* What such a step leaves alone when it is not about payments.
Elsewhere ==
    /\ UNCHANGED <<mempool, conns, backlog, peers, accepting>>
    /\ Working' \subseteq Working
    /\ \A n \in Nodes : /\ pc'[n] \notin {"lock", "collect", "mine", "announce"}
                        /\ pc'[n] = "publish" <=> pc[n] = "publish"
                        /\ pc[n] = "publish" => tx'[n] = tx[n]
                        /\ pc[n] = "greet" => pc'[n] = "greet"

\* A step that has nothing to do with payments.
LEMMA OtherPool ==
    ASSUME Ind, PoolInv, Elsewhere, \A m \in Nodes, c \in Conns : c \in Working' => SameTxs(m, c)
    PROVE  PoolInv'
<1>1. NoneMines
  BY DEF Elsewhere, NoneMines
<1>2. ASSUME NEW n \in Nodes, NEW m \in Nodes \ {n}, NEW c \in Working'
      PROVE  PoolFits(n, m, c)
  <2>1. SameTxs(m, c)
    BY WorkingIs, <1>2 DEF Elsewhere
  <2>2. Greets(n, c) => Greets(n, c)'
    BY DEF Greets, OwnLatest, Made, Elsewhere
  <2>3. ASSUME NEW t \in Range(mempool[n]), Comes(n, m, c, t)
        PROVE  Comes(n, m, c, t)'
    <3>1. t \in UserTxs
      BY PooledIsUsers
    <3> QED BY <2>1, <2>2, <2>3, <3>1 DEF Comes, SameTxs, Elsewhere
  <2> QED BY <2>1, <2>3 DEF PoolFits, SameTxs
<1> QED BY <1>1, <1>2, PoolStep DEF Elsewhere

\* The steps of the main thread that send no payment and pool none.
LEMMA QuietMainPool ==
    ASSUME Ind, PoolInv, NEW n \in Nodes,
           RequestAgain(n) \/ \E p \in Payments : SendCheck(n, p)
    PROVE  PoolInv'
<1> USE DEF nodeVars, netVars, peerVars
<1>0. pc \in [Nodes -> MainPoints] /\ tx \in [Nodes -> UserTxs \cup {NoTx}]
  BY DEF Ind, NodeTypes
<1>1. CASE RequestAgain(n)
  <2>1. RequestChain \in Wire /\ RequestChain.type # "NEW_TX"
    BY DEF Wire, RequestChain
  <2>2. inbox \in [Nodes -> [Conns -> Seq(Wire)]]
    BY DEF Ind, HeldInv
  <2>3. \A m \in Nodes, c \in Conns : SameTxs(m, c)
    BY <1>1, <2>1, <2>2, SendOther DEF RequestAgain
  <2>4. Elsewhere
    BY <1>0, <1>1 DEF RequestAgain, Elsewhere, PoolInv, Working, Made
  <2> QED BY <2>3, <2>4, OtherPool
<1>2. CASE \E p \in Payments : SendCheck(n, p)
  <2>1. \A m \in Nodes, c \in Conns : SameTxs(m, c)
    BY <1>2 DEF SendCheck, SameTxs
  <2>2. Elsewhere
    BY <1>0, <1>2 DEF SendCheck, Elsewhere, PoolInv, Working, Made
  <2> QED BY <2>1, <2>2, OtherPool
<1> QED BY <1>1, <1>2

\* The readers, when what they read is not a payment.
LEMMA ReaderPool ==
    ASSUME Ind, PoolInv, NEW n \in Nodes, NEW e \in Conns,
           \/ RecvBlock(n, e) \/ RelayBlock(n, e) \/ RecvRequest(n, e)
           \/ SendAnswer(n, e) \/ RecvChain(n, e) \/ PeerLost(n, e)
    PROVE  PoolInv'
<1> USE DEF nodeVars, mainVars, peerVars
<1>0. inbox \in [Nodes -> [Conns -> Seq(Wire)]]
  BY DEF Ind, HeldInv
<1>1. CASE RecvBlock(n, e) \/ RecvRequest(n, e) \/ RecvChain(n, e)
  <2>1. inbox' = Consumed(n, e) /\ inbox[n][e] # << >> /\ Head(inbox[n][e]).type # "NEW_TX"
    BY <1>1 DEF RecvBlock, RecvRequest, RecvChain, Reading
  <2>2. \A m \in Nodes, c \in Conns : SameTxs(m, c)
    BY <2>1, ReadOther DEF SameTxs
  <2>3. Elsewhere
    BY <1>1 DEF RecvBlock, RecvRequest, RecvChain, Elsewhere, PoolInv, Working, Made
  <2> QED BY <2>2, <2>3, OtherPool
<1>2. CASE RelayBlock(n, e)
  <2>1. relay[n][e] \in Tips
    BY <1>2 DEF RelayBlock, Ind, HeldInv
  <2>2. NewBlock(relay[n][e]) \in Wire /\ NewBlock(relay[n][e]).type # "NEW_TX"
    BY <2>1 DEF Wire, NewBlock
  <2>3. \A m \in Nodes, c \in Conns : SameTxs(m, c)
    BY <1>0, <1>2, <2>2, SendOther DEF RelayBlock
  <2>4. Elsewhere
    BY <1>2 DEF RelayBlock, Elsewhere, PoolInv, Working, Made
  <2> QED BY <2>3, <2>4, OtherPool
<1>3. CASE SendAnswer(n, e)
  <2>1. answer[n][e] \in built
    BY <1>3 DEF SendAnswer, Ind, HeldInv
  <2>2. ChainResponse(answer[n][e]) \in Wire /\ ChainResponse(answer[n][e]).type # "NEW_TX"
    BY <2>1 DEF Wire, ChainResponse
  <2>3. \A m \in Nodes, c \in Conns : SameTxs(m, c)
    BY <1>0, <1>3, <2>2, SendOther DEF SendAnswer
  <2>4. Elsewhere
    BY <1>3 DEF SendAnswer, Elsewhere, PoolInv, Working, Made
  <2> QED BY <2>3, <2>4, OtherPool
<1>4. CASE PeerLost(n, e)
  <2>1. NoneMines /\ mempool' = mempool /\ Working' = Working /\ e \notin Working
    BY <1>4 DEF PeerLost, NoneMines, PoolInv, Working, Made
  <2>2. ASSUME NEW k \in Nodes, NEW m \in Nodes \ {k}, NEW c \in Working'
        PROVE  PoolFits(k, m, c)
    <3>1. c \in Conns /\ c # e
      BY <2>1, <2>2, WorkingIs
    <3>2. inbox'[m][c] = inbox[m][c] /\ (c \in peers[k] => c \in peers'[k])
      BY <1>0, <1>4, <3>1 DEF PeerLost, Ind, NodeTypes
    <3>3. Greets(k, c) => Greets(k, c)'
      BY <1>4 DEF PeerLost, Greets, OwnLatest, Made
    <3> QED BY <1>4, <3>2, <3>3 DEF PeerLost, PoolFits, Comes
  <2> QED BY <2>1, <2>2, PoolStep
<1> QED BY <1>1, <1>2, <1>3, <1>4

\* A connection breaks, or nothing happens.
LEMMA LinkDownPool ==
    ASSUME Ind, PoolInv, UNCHANGED vars \/ \E e \in Conns : LinkDown(e)
    PROVE  PoolInv'
<1> USE DEF vars, nodeVars, mainVars, netVars, peerVars
<1>1. Elsewhere
  <2>1. UNCHANGED <<mempool, conns, backlog, peers, accepting, pc, tx>>
    BY DEF LinkDown
  <2>2. Working' \subseteq Working
    <3>1. \A c \in Conns : up'[c] => up[c]
      BY DEF LinkDown, Ind, NodeTypes
    <3> QED BY <2>1, <3>1, WorkingIs DEF Working, Made
  <2> QED BY <2>1, <2>2 DEF Elsewhere, PoolInv
<1>2. \A m \in Nodes, c \in Conns : SameTxs(m, c)
  BY DEF LinkDown, SameTxs
<1> QED BY <1>1, <1>2, OtherPool

\* The process of one of two nodes ends, and no connection is left.
LEMMA RestartPool ==
    ASSUME Ind, TwoNodes, FlowInv, PoolInv, NEW x \in Nodes, Restart(x)
    PROVE  PoolInv'
<1>1. Working' = {}
  <2>1. PICK y \in Nodes \ {x} : TRUE
    BY DEF TwoNodes
  <2>2. ASSUME NEW c \in Made PROVE ~ up'[c]
    <3>1. c \in Conns /\ (conns[c][1] = x \/ conns[c][2] = x)
      BY <2>1, Ends DEF FlowInv
    <3> QED BY <3>1 DEF Restart
  <2> QED BY <2>2 DEF Restart, Working, Made
<1>2. \A n \in Nodes : pc'[n] = (IF n = x THEN "menu" ELSE pc[n])
  BY DEF Restart, Ind, NodeTypes
<1>3. \A n \in Nodes \ {x} : tx'[n] = tx[n] /\ mempool'[n] = mempool[n]
  BY DEF Restart, Ind, NodeTypes
<1> QED BY <1>1, <1>2, <1>3 DEF PoolInv
\* node_send_tx for a whole mempool puts every payment of it on the connection.
LEMMA MempoolSent ==
    ASSUME Ind, NEW n \in Nodes
    PROVE  /\ MempoolMsgs(n) \in Seq(Wire)
           /\ \A t : NewTx(t) \in Range(MempoolMsgs(n)) <=> t \in Range(mempool[n])
<1>1. mempool[n] \in Seq(UserTxs) /\ DOMAIN mempool[n] = 1 .. Len(mempool[n])
  BY PooledIsUsers, LenProperties
<1>2. DOMAIN MempoolMsgs(n) = 1 .. Len(mempool[n])
  BY DEF MempoolMsgs
<1>3. \A i \in 1 .. Len(mempool[n]) : MempoolMsgs(n)[i] = NewTx(mempool[n][i])
  BY DEF MempoolMsgs
<1>4. MempoolMsgs(n) \in Seq(Wire)
  BY MempoolPlain
<1> QED BY <1>1, <1>2, <1>3, <1>4, NewTxIs DEF Range

\* What send_message of n puts on the connections.
LEMMA SentTxs ==
    ASSUME Ind, NEW n \in Nodes, NEW cs, NEW msgs \in Seq(Wire),
           inbox' = Send(inbox, n, cs, msgs), NEW m \in Nodes, NEW c \in Conns
    PROVE  Range(inbox'[m][c]) = IF c \in cs /\ up[c] /\ m = Other(n, c)
                                 THEN Range(inbox[m][c]) \cup Range(msgs)
                                 ELSE Range(inbox[m][c])
<1>1. inbox'[m][c] = IF c \in cs /\ up[c] /\ m = Other(n, c)
                     THEN inbox[m][c] \o msgs ELSE inbox[m][c]
  BY DEF Send
<1>2. inbox[m][c] \in Seq(Wire)
  BY InboxIs
<1>3. Range(inbox[m][c] \o msgs) = Range(inbox[m][c]) \cup Range(msgs)
  BY <1>2, RangeJoined
<1> QED BY <1>1, <1>3

\* The same for one message.
LEMMA OneSent ==
    ASSUME Ind, NEW n \in Nodes, NEW cs, NEW msg \in Wire,
           inbox' = Send(inbox, n, cs, <<msg>>), NEW m \in Nodes, NEW c \in Conns
    PROVE  Range(inbox'[m][c]) = IF c \in cs /\ up[c] /\ m = Other(n, c)
                                 THEN Range(inbox[m][c]) \cup {msg}
                                 ELSE Range(inbox[m][c])
<1>1. <<msg>> \in Seq(Wire) /\ Range(<<msg>>) = {msg}
  BY RangeOfOne
<1>2. inbox'[m][c] = IF c \in cs /\ up[c] /\ m = Other(n, c)
                     THEN inbox[m][c] \o <<msg>> ELSE inbox[m][c]
  BY DEF Send
<1>3. inbox[m][c] \in Seq(Wire) /\ <<msg>> \in Seq(Wire)
  BY <1>1, InboxIs
<1>4. Range(inbox[m][c] \o <<msg>>) = Range(inbox[m][c]) \cup Range(<<msg>>)
  BY <1>3, RangeJoined
<1> QED BY <1>1, <1>2, <1>4

\* on_peer_connected on connection d of x: the connection is greeted.
Greeted(x, d) ==
    /\ UNCHANGED <<mempool, conns, up, backlog, peers, tx>>
    /\ inbox' = Send(inbox, x, {d}, MempoolMsgs(x))
    /\ NoneMines
    /\ \A n \in Nodes : pc[n] = "publish" => pc'[n] = "publish"
    /\ \A n \in Nodes, c \in Working :
         Greets(n, c) /\ ~ (n = x /\ c = d) => Greets(n, c)'

\* Both callers of on_peer_connected.
LEMMA GreetedPool ==
    ASSUME Ind, TwoNodes, FlowInv, PoolInv, NEW x \in Nodes, NEW d, Greeted(x, d)
    PROVE  PoolInv'
<1>1. mempool' = mempool /\ Working' = Working /\ NoneMines /\ Working \subseteq Made
  BY DEF Greeted, Working, Made
<1>2. ASSUME NEW n \in Nodes, NEW m \in Nodes \ {n}, NEW c \in Working'
      PROVE  PoolFits(n, m, c)
  <2>1. c \in Conns /\ up[c] /\ c \in Made /\ c \in Working
    BY <1>1, WorkingIs DEF Working
  <2>2. Nodes = {n, m} /\ Other(n, c) = m /\ Other(m, c) = n
    BY <2>1, Ends DEF FlowInv
  <2>3. /\ MempoolMsgs(x) \in Seq(Wire)
        /\ \A t : NewTx(t) \in Range(MempoolMsgs(x)) <=> t \in Range(mempool[x])
    BY MempoolSent
  <2>4. Range(inbox'[m][c]) = IF c = d /\ m = Other(x, c)
                              THEN Range(inbox[m][c]) \cup Range(MempoolMsgs(x))
                              ELSE Range(inbox[m][c])
    <3>1. inbox' = Send(inbox, x, {d}, MempoolMsgs(x))
      BY DEF Greeted
    <3>2. PICK cs : cs = {d}
      OBVIOUS
    <3>3. PICK msgs \in Seq(Wire) : msgs = MempoolMsgs(x)
      BY <2>3
    <3>4. inbox' = Send(inbox, x, cs, msgs)
      BY <3>1, <3>2, <3>3
    <3>5. Range(inbox'[m][c]) = IF c \in cs /\ up[c] /\ m = Other(x, c)
                                THEN Range(inbox[m][c]) \cup Range(msgs)
                                ELSE Range(inbox[m][c])
      BY <2>1, <3>4, SentTxs, SMTT(60)
    <3> QED BY <2>1, <3>2, <3>3, <3>5
  <2>5. m = Other(x, c) <=> n = x
    BY <2>2
  <2>6. ASSUME NEW t \in Range(mempool[n]), Comes(n, m, c, t)
        PROVE  Comes(n, m, c, t)'
    <3>1. CASE n = x /\ c = d
      BY <2>3, <2>4, <2>5, <3>1 DEF Comes
    <3>2. CASE ~ (n = x /\ c = d)
      BY <2>1, <2>4, <2>5, <2>6, <3>2 DEF Comes, Greeted
    <3> QED BY <3>1, <3>2
  <2>7. ASSUME NEW t \in UserTxs, NewTx(t) \in Range(inbox'[m][c])
        PROVE  NewTx(t) \in Range(inbox[m][c]) \/ t \in Range(mempool[n])
    BY <2>3, <2>4, <2>5, <2>7
  <2> QED BY <2>6, <2>7 DEF PoolFits
<1> QED BY <1>1, <1>2, PoolStep

\* on_peer_connected in the main thread and in the accept thread.
LEMMA GreetPool ==
    ASSUME Ind, TwoNodes, FlowInv, PoolInv, NEW x \in Nodes, Greet(x) \/ AcceptGreet(x)
    PROVE  PoolInv'
<1> USE DEF nodeVars, mainVars, peerVars
<1>1. CASE Greet(x)
  <2>1. \A n \in Nodes : pc'[n] = IF n = x THEN "request" ELSE pc[n]
    BY <1>1 DEF Greet, Ind, NodeTypes
  <2>2. NoneMines /\ pc[x] = "greet"
    BY <1>1, <2>1 DEF NoneMines, Greet, PoolInv
  <2>3. ASSUME NEW n \in Nodes, NEW c \in Working, Greets(n, c), ~ (n = x /\ c = OwnLatest(x))
        PROVE  Greets(n, c)'
    BY <1>1, <2>1, <2>3 DEF Greet, Greets, OwnLatest, Made
  <2>4. Greeted(x, OwnLatest(x))
    BY <1>1, <2>1, <2>2, <2>3 DEF Greet, Greeted
  <2>5. PICK d : d = OwnLatest(x)
    OBVIOUS
  <2> QED BY <2>4, <2>5, GreetedPool
<1>2. CASE AcceptGreet(x)
  <2>1. \A n \in Nodes : accepting'[n] = IF n = x THEN 0 ELSE accepting[n]
    BY <1>2 DEF AcceptGreet, Ind, NodeTypes
  <2>2. NoneMines
    BY <1>2 DEF NoneMines, AcceptGreet, PoolInv
  <2>3. ASSUME NEW n \in Nodes, NEW c \in Working, Greets(n, c), ~ (n = x /\ c = accepting[x])
        PROVE  Greets(n, c)'
    BY <1>2, <2>1, <2>3 DEF AcceptGreet, Greets, OwnLatest, Made
  <2>4. Greeted(x, accepting[x])
    BY <1>2, <2>2, <2>3 DEF AcceptGreet, Greeted
  <2>5. PICK d : d = accepting[x]
    OBVIOUS
  <2> QED BY <2>4, <2>5, GreetedPool
<1> QED BY <1>1, <1>2
\* node_broadcast_tx.
LEMMA PublishPool ==
    ASSUME Ind, TwoNodes, FlowInv, PoolInv, NEW x \in Nodes, SendPublish(x)
    PROVE  PoolInv'
<1>1. \A n \in Nodes : pc'[n] = (IF n = x THEN "menu" ELSE pc[n])
                       /\ (n # x => tx'[n] = tx[n])
  BY DEF SendPublish, Ind, NodeTypes, nodeVars, peerVars
<1>2. mempool' = mempool /\ Working' = Working /\ NoneMines /\ Working \subseteq Made
  BY <1>1 DEF SendPublish, Working, Made, NoneMines, PoolInv, nodeVars, peerVars
<1>3. tx[x] \in Range(mempool[x]) /\ tx[x] \in UserTxs
  BY PooledIsUsers DEF PoolInv, SendPublish
<1>4. PICK msg \in Wire : msg = NewTx(tx[x])
  BY <1>3 DEF Wire
<1>5. ASSUME NEW n \in Nodes, NEW m \in Nodes \ {n}, NEW c \in Working'
      PROVE  PoolFits(n, m, c)
  <2>1. c \in Conns /\ up[c] /\ c \in Made
    BY <1>2, WorkingIs DEF Working
  <2>2. Nodes = {n, m} /\ Other(n, c) = m /\ Other(m, c) = n
    BY <2>1, Ends DEF FlowInv
  <2>3. <<msg>> \in Seq(Wire) /\ Range(<<msg>>) = {msg}
    BY RangeOfOne
  <2>4. inbox' = Send(inbox, x, peers[x], <<msg>>)
    BY <1>4 DEF SendPublish
  <2>5. Range(inbox'[m][c]) = IF c \in peers[x] /\ up[c] /\ m = Other(x, c)
                              THEN Range(inbox[m][c]) \cup Range(<<msg>>)
                              ELSE Range(inbox[m][c])
    <3>1. Range(inbox'[m][c]) = IF c \in peers[x] /\ up[c] /\ m = Other(x, c)
                                THEN Range(inbox[m][c]) \cup {msg}
                                ELSE Range(inbox[m][c])
      BY <2>1, <2>4, OneSent
    <3> QED BY <2>3, <3>1
  <2>6. m = Other(x, c) <=> n = x
    BY <2>2
  <2>7. Greets(n, c) => Greets(n, c)'
    BY <1>1 DEF SendPublish, Greets, OwnLatest, Made, nodeVars, peerVars
  <2>8. ASSUME NEW t \in Range(mempool[n]), Comes(n, m, c, t)
        PROVE  Comes(n, m, c, t)'
    <3>1. CASE NewTx(t) \in Range(inbox[m][c])
      BY <2>5, <3>1 DEF Comes
    <3>2. CASE pc[n] = "publish" /\ tx[n] = t /\ c \in peers[n] /\ n = x
      BY <1>4, <2>1, <2>3, <2>5, <2>6, <3>2 DEF Comes
    <3>3. CASE pc[n] = "publish" /\ tx[n] = t /\ c \in peers[n] /\ n # x
      BY <1>1, <3>3 DEF Comes, SendPublish, nodeVars, peerVars
    <3> QED BY <2>7, <2>8, <3>1, <3>2, <3>3 DEF Comes
  <2>9. ASSUME NEW t \in UserTxs, NewTx(t) \in Range(inbox'[m][c])
        PROVE  NewTx(t) \in Range(inbox[m][c]) \/ t \in Range(mempool[n])
    <3>1. CASE NewTx(t) = msg /\ n = x
      BY <1>3, <1>4, <3>1, NewTxIs
    <3> QED BY <2>3, <2>5, <2>6, <2>9, <3>1
  <2> QED BY <2>8, <2>9 DEF PoolFits
<1> QED BY <1>2, <1>5, PoolStep

\* accept_thread takes a connection, which will be greeted.
LEMMA AcceptPool ==
    ASSUME Ind, TwoNodes, FlowInv, PoolInv, NEW x \in Nodes, NEW d \in Conns, Accept(x, d)
    PROVE  PoolInv'
<1> USE DEF nodeVars, mainVars
<1>1. /\ \A n \in Nodes : /\ accepting'[n] = (IF n = x THEN d ELSE accepting[n])
                          /\ peers[n] \subseteq peers'[n]
      /\ accepting[x] = 0 /\ backlog' = backlog \ {d} /\ conns[d][2] = x
  BY DEF Accept, Ind, NodeTypes
<1>2. mempool' = mempool /\ Working' = Working /\ NoneMines
  BY DEF Accept, Working, Made, NoneMines, PoolInv
<1>3. RequestChain \in Wire /\ RequestChain.type # "NEW_TX"
  BY DEF Wire, RequestChain
<1>4. inbox \in [Nodes -> [Conns -> Seq(Wire)]]
  BY DEF Ind, HeldInv
<1>5. ASSUME NEW n \in Nodes, NEW m \in Nodes \ {n}, NEW c \in Working'
      PROVE  PoolFits(n, m, c)
  <2>1. c \in Conns
    BY <1>2, WorkingIs
  <2>2. SameTxs(m, c)
    BY <1>3, <1>4, <2>1, SendOther DEF Accept
  <2>3. Greets(n, c) => Greets(n, c)'
    <3>1. CASE c \in backlog /\ conns[c][2] = n
      BY <1>1, <3>1 DEF Greets, Accept
    <3>2. CASE accepting[n] = c
      <4>1. c # 0
        BY <2>1, BoundAssumption DEF Conns
      <4> QED BY <1>1, <3>2, <4>1 DEF Greets
    <3>3. CASE pc[n] = "greet" /\ OwnLatest(n) = c
      BY <3>3 DEF Greets, OwnLatest, Made, Accept
    <3> QED BY <3>1, <3>2, <3>3 DEF Greets
  <2>4. ASSUME NEW t \in Range(mempool[n]), Comes(n, m, c, t)
        PROVE  Comes(n, m, c, t)'
    <3>1. t \in UserTxs
      BY PooledIsUsers
    <3> QED BY <1>1, <2>2, <2>3, <2>4, <3>1 DEF Comes, SameTxs, Accept
  <2> QED BY <2>2, <2>4 DEF PoolFits, SameTxs
<1> QED BY <1>2, <1>5, PoolStep

\* What the mempool of n holds after on_new_tx or do_send has put t into it.
LEMMA Pooled ==
    ASSUME Ind, RoomLeft, NEW n \in Nodes, NEW t \in UserTxs
    PROVE  Range(Pool(mempool[n], t)) = Range(mempool[n]) \cup {t}
<1>1. mempool[n] \in Seq(UserTxs) /\ Len(mempool[n]) \in Nat
  BY PooledIsUsers, LenProperties
<1>2. CASE Len(mempool[n]) < MEMPOOL_SIZE
  <2>1. /\ Append(mempool[n], t) \in Seq(UserTxs)
        /\ Len(Append(mempool[n], t)) = Len(mempool[n]) + 1
        /\ \A i \in 1 .. Len(mempool[n]) : Append(mempool[n], t)[i] = mempool[n][i]
        /\ Append(mempool[n], t)[Len(mempool[n]) + 1] = t
    BY <1>1, AppendProperties
  <2>2. /\ DOMAIN mempool[n] = 1 .. Len(mempool[n])
        /\ DOMAIN Append(mempool[n], t) = 1 .. Len(mempool[n]) + 1
    BY <1>1, <2>1, LenProperties
  <2>3. Range(mempool[n]) \cup {t} \subseteq Range(Append(mempool[n], t))
    <3>1. Len(mempool[n]) + 1 \in 1 .. Len(mempool[n]) + 1
      BY <1>1
    <3>2. 1 .. Len(mempool[n]) \subseteq 1 .. Len(mempool[n]) + 1
      BY <1>1
    <3> QED BY <2>1, <2>2, <3>1, <3>2 DEF Range
  <2>4. Range(Append(mempool[n], t)) \subseteq Range(mempool[n]) \cup {t}
    <3>1. \A i \in 1 .. Len(mempool[n]) + 1 : i \in 1 .. Len(mempool[n]) \/ i = Len(mempool[n]) + 1
      BY <1>1
    <3> QED BY <2>1, <2>2, <3>1 DEF Range
  <2> QED BY <1>2, <2>3, <2>4 DEF Pool
<1>3. CASE ~ (Len(mempool[n]) < MEMPOOL_SIZE)
  BY <1>3 DEF Pool, RoomLeft
<1> QED BY <1>2, <1>3
\* What is pooled will be published on every connection the node holds, and the
\* others are still to be accepted and greeted.
LEMMA EnqueuePool ==
    ASSUME Ind, FlowInv, TwoNodes, PoolInv, RoomLeft, NEW x \in Nodes, SendEnqueue(x)
    PROVE  PoolInv'
<1> USE DEF netVars, peerVars
<1>1. /\ \A n \in Nodes : pc'[n] = (IF n = x THEN "publish" ELSE pc[n])
      /\ \A n \in Nodes \ {x} : mempool'[n] = mempool[n]
      /\ mempool'[x] = Pool(mempool[x], tx[x]) /\ tx' = tx
      /\ pc[x] = "send" /\ tx[x] \in UserTxs
  BY DEF SendEnqueue, Ind, NodeTypes, HeldInv
<1>2. Range(mempool'[x]) = Range(mempool[x]) \cup {tx[x]}
  BY <1>1, Pooled
<1>3. Working' = Working /\ Working \subseteq Made
  BY DEF SendEnqueue, Working, Made
<1>4. ASSUME NEW n \in Nodes, NEW m \in Nodes \ {n}, NEW c \in Working
      PROVE  PoolFlow(n, m, c)'
  <2>1. PoolFlow(n, m, c)
    BY DEF PoolInv
  <2>2. Range(mempool[n]) \subseteq Range(mempool'[n]) /\ Range(mempool[m]) \subseteq Range(mempool'[m])
    BY <1>1, <1>2
  <2>3. Greets(n, c) => Greets(n, c)'
    BY <1>1 DEF SendEnqueue, Greets, OwnLatest, Made
  <2>4. ASSUME NEW t \in Range(mempool[n])
        PROVE  t \in Range(mempool'[m]) \/ Comes(n, m, c, t)'
    BY <1>1, <2>1, <2>2, <2>3 DEF PoolFlow, Comes, SendEnqueue
  <2>5. CASE n = x
    <3>1. c \in peers[x] \/ Greets(x, c)
      <4>1. c \in Made /\ (conns[c][1] = x \/ conns[c][2] = x)
        BY <1>3, <2>5, Ends DEF FlowInv
      <4> QED BY <4>1 DEF FlowInv, Joined, Greets
    <3>2. Comes(n, m, c, tx[x])'
      BY <1>1, <2>3, <2>5, <3>1 DEF Comes, SendEnqueue
    <3> QED BY <1>2, <2>1, <2>2, <2>4, <2>5, <3>2 DEF PoolFlow, SendEnqueue
  <2>6. CASE n # x
    BY <1>1, <2>1, <2>2, <2>4, <2>6 DEF PoolFlow, SendEnqueue
  <2> QED BY <2>5, <2>6
<1>5. \A n \in Nodes : pc'[n] = "publish" => tx'[n] \in Range(mempool'[n])
  BY <1>1, <1>2 DEF PoolInv
<1>6. \A n \in Nodes : pc'[n] \notin {"lock", "collect", "mine", "announce"}
  BY <1>1 DEF PoolInv
<1> QED BY <1>3, <1>4, <1>5, <1>6 DEF PoolInv

\* on_new_tx.  On a connection that works the payment came from the mempool of
\* the other node; on another one, no connection that works is held as a peer,
\* and those in the backlog will be greeted.
LEMMA RecvTxPool ==
    ASSUME Ind, FlowInv, TwoNodes, PoolInv, RoomLeft, BothWork,
           NEW x \in Nodes, NEW e \in Conns, RecvTx(x, e)
    PROVE  PoolInv'
<1> USE DEF mainVars, peerVars
<1>0. inbox \in [Nodes -> [Conns -> Seq(Wire)]] /\ inbox[x][e] # << >> /\ e \in peers[x]
  BY DEF RecvTx, Reading, Ind, HeldInv
<1>1. PICK u \in UserTxs : Head(inbox[x][e]) = NewTx(u)
  <2>1. Head(inbox[x][e]) \in Wire /\ Head(inbox[x][e]).type = "NEW_TX"
    <3>1. Head(inbox[x][e]) = inbox[x][e][1] /\ 1 \in 1 .. Len(inbox[x][e])
      BY <1>0, QueueShrinks
    <3> QED BY <3>1, InboxIs DEF RecvTx, Reading
  <2> QED BY <2>1 DEF Wire, NewBlock, RequestChain, ChainResponse
<1>2. /\ \A n \in Nodes \ {x} : mempool'[n] = mempool[n]
      /\ mempool'[x] = Pool(mempool[x], u)
  BY <1>1, NewTxIs DEF RecvTx, Ind, NodeTypes
<1>3. Range(mempool'[x]) = Range(mempool[x]) \cup {u}
  BY <1>2, Pooled
<1>4. \A n \in Nodes, c \in Conns :
         inbox'[n][c] = IF n = x /\ c = e THEN Tail(inbox[x][e]) ELSE inbox[n][c]
  BY <1>0 DEF RecvTx, Consumed
<1>5. Range(inbox[x][e]) = {NewTx(u)} \cup Range(Tail(inbox[x][e]))
  BY <1>0, <1>1, RangeRead
<1>6. Working' = Working /\ Working \subseteq Made /\ Working \subseteq Conns
  BY WorkingIs DEF RecvTx, Working, Made
<1>7. ASSUME NEW n \in Nodes, NEW m \in Nodes \ {n}, NEW c \in Working
      PROVE  PoolFlow(n, m, c)'
  <2>1. PoolFlow(n, m, c)
    BY DEF PoolInv
  <2>2. /\ Range(mempool[n]) \subseteq Range(mempool'[n])
        /\ Range(mempool[m]) \subseteq Range(mempool'[m])
        /\ Range(inbox'[m][c]) \subseteq Range(inbox[m][c])
    BY <1>2, <1>3, <1>4, <1>5, <1>6
  <2>3. Greets(n, c) => Greets(n, c)'
    BY DEF RecvTx, Greets, OwnLatest, Made
  <2>4. ASSUME NEW t \in Range(mempool[n])
        PROVE  t \in Range(mempool'[m]) \/ Comes(n, m, c, t)'
    <3>1. CASE t \in Range(mempool[m]) \/ Greets(n, c)
      BY <2>2, <2>3, <3>1 DEF Comes
    <3>2. CASE pc[n] = "publish" /\ tx[n] = t /\ c \in peers[n]
      BY <3>2 DEF Comes, RecvTx
    <3>3. CASE NewTx(t) \in Range(inbox[m][c])
      <4>1. CASE m = x /\ c = e /\ t = u
        BY <1>3, <4>1
      <4>2. CASE ~ (m = x /\ c = e /\ t = u)
        <5>1. NewTx(t) # NewTx(u) \/ ~ (m = x /\ c = e)
          BY <4>2, NewTxIs
        <5>2. NewTx(t) \in Range(inbox'[m][c])
          BY <1>4, <1>5, <1>6, <3>3, <5>1
        <5> QED BY <5>2 DEF Comes
      <4> QED BY <4>1, <4>2
    <3> QED BY <2>1, <3>1, <3>2, <3>3 DEF PoolFlow, Comes
  <2>5. ASSUME NEW t \in UserTxs, NewTx(t) \in Range(inbox'[m][c])
        PROVE  t \in Range(mempool'[n])
    BY <2>1, <2>2, <2>5 DEF PoolFlow
  <2>6. CASE n = x
    <3>1. u \in Range(mempool'[m]) \/ Greets(x, c)
      <4>0. /\ e \in Made /\ c \in Made /\ Nodes = {x, m} /\ Other(x, e) = Other(x, c)
            /\ (conns[c][1] = x \/ conns[c][2] = x)
        <5>1. e \in Made /\ c \in Made
          BY <1>0, <1>6 DEF Ind, NodeTypes
        <5>2. m \in Nodes \ {x}
          BY <2>6
        <5>3. Nodes = {x, m} /\ Other(x, e) = m
          BY <5>1, <5>2, Ends DEF FlowInv
        <5>4. Other(x, c) = m /\ (conns[c][1] = x \/ conns[c][2] = x)
          BY <5>1, <5>2, Ends DEF FlowInv
        <5> QED BY <5>1, <5>3, <5>4
      <4>1. CASE e \in Working
        <5>1. m \in Nodes /\ x \in Nodes \ {m}
          BY <2>6
        <5>2. PoolFlow(m, x, e)
          BY <4>1, <5>1 DEF PoolInv
        <5>3. u \in Range(mempool[m])
          BY <1>5, <5>2 DEF PoolFlow
        <5> QED BY <2>2, <5>3
      <4>2. CASE e \notin Working
        <5>1. c # e /\ ~ up[e]
          BY <4>0, <4>2 DEF Working
        <5>2. c \notin peers[x]
          BY <1>0, <4>0, <5>1 DEF BothWork
        <5> QED BY <4>0, <5>2 DEF FlowInv, Joined, Greets
      <4> QED BY <4>1, <4>2
    <3>2. u \in Range(mempool'[m]) \/ Comes(n, m, c, u)'
      BY <2>3, <2>6, <3>1 DEF Comes
    <3>3. \A t \in Range(mempool'[n]) : t \in Range(mempool'[m]) \/ Comes(n, m, c, t)'
      BY <1>3, <2>4, <2>6, <3>2
    <3> QED BY <2>5, <3>3 DEF PoolFlow
  <2>7. CASE n # x
    BY <1>2, <2>4, <2>5, <2>7 DEF PoolFlow
  <2> QED BY <2>6, <2>7
<1>8. \A n \in Nodes : pc'[n] = "publish" => tx'[n] \in Range(mempool'[n])
  BY <1>2, <1>3 DEF PoolInv, RecvTx
<1>9. \A n \in Nodes : pc'[n] \notin {"lock", "collect", "mine", "announce"}
  BY DEF PoolInv, RecvTx
<1> QED BY <1>6, <1>7, <1>8, <1>9 DEF PoolInv
\* A new connection is greeted at one end and waits to be accepted at the other.
LEMMA ConnectPool ==
    ASSUME Ind, TwoNodes, FlowInv, PoolInv, NEW x \in Nodes, NEW y \in Nodes, Connect(x, y)
    PROVE  PoolInv'
<1> USE DEF nodeVars
<1>1. PICK e : e = Len(conns) + 1
  OBVIOUS
<1>2. Connected(x, y, e)
  BY <1>1, ConnectFields
<1> USE <1>2 DEF Connected
<1>3. Nodes = {x, y} /\ tx' = tx /\ mempool' = mempool /\ accepting' = accepting
  BY DEF TwoNodes, Connect
<1>4. ASSUME NEW n \in Nodes, NEW m \in Nodes \ {n}, NEW c \in Working
      PROVE  PoolFlow(n, m, c)'
  <2>1. PoolFlow(n, m, c) /\ c \in Conns /\ c \in Made /\ c # e
    BY WorkingIs DEF PoolInv, Working
  <2>2. inbox'[m][c] = inbox[m][c] /\ (c \in peers[n] => c \in peers'[n])
    BY <2>1
  <2>3. Greets(n, c) => Greets(n, c)'
    <3>1. CASE pc[n] = "greet" /\ OwnLatest(n) = c
      <4>1. n # x /\ n = y
        BY <1>3, <3>1
      <4>2. {d \in Made' : conns'[d][1] = n} = {d \in Made : conns[d][1] = n}
        BY <4>1
      <4>3. OwnLatest(n)' = OwnLatest(n)
        BY <4>2 DEF OwnLatest
      <4>4. pc'[n] = "greet"
        BY <3>1, <4>1
      <4> QED BY <3>1, <4>3, <4>4 DEF Greets
    <3>2. CASE (c \in backlog /\ conns[c][2] = n) \/ accepting[n] = c
      BY <1>3, <2>1, <3>2 DEF Greets
    <3> QED BY <3>1, <3>2 DEF Greets
  <2>4. ASSUME NEW t \in Range(mempool[n])
        PROVE  t \in Range(mempool[m]) \/ Comes(n, m, c, t)'
    <3>1. pc[n] = "publish" => pc'[n] = "publish"
      OBVIOUS
    <3> QED BY <1>3, <2>1, <2>2, <2>3, <3>1 DEF PoolFlow, Comes
  <2> QED BY <1>3, <2>1, <2>2, <2>4 DEF PoolFlow
<1>5. ASSUME NEW n \in Nodes, NEW m \in Nodes \ {n}
      PROVE  PoolFlow(n, m, e)'
  <2>1. Greets(n, e)'
    <3>1. CASE n = x
      <4> DEFINE own == {d \in Made' : conns'[d][1] = x}
      <4>0. Len(conns) \in Nat /\ Made = 1 .. Len(conns) /\ conns'[e] = <<x, y>>
        BY LenProperties DEF Ind, NodeTypes, Made
      <4>1. e \in own /\ own \subseteq 0 .. e
        <5>1. e \in Made' /\ conns'[e][1] = x
          BY <4>0
        <5>2. Made' \subseteq 0 .. e
          BY <1>1, <4>0
        <5> QED BY <5>1, <5>2
      <4>2. e \in Nat
        BY <1>1, <4>0
      <4>3. Max(own) \in own /\ \A d \in own : d <= Max(own)
        BY <4>1, <4>2, MaxProperties
      <4>4. Max(own) = e
        <5>1. Max(own) \in 0 .. e /\ e <= Max(own)
          BY <4>1, <4>3
        <5> QED BY <4>2, <5>1
      <4>5. OwnLatest(x)' = e
        BY <4>4 DEF OwnLatest
      <4> QED BY <3>1, <4>5 DEF Greets
    <3>2. CASE n = y
      BY <3>2 DEF Greets
    <3> QED BY <1>3, <3>1, <3>2
  <2>2. ASSUME NEW t \in UserTxs PROVE NewTx(t) \notin Range(inbox'[m][e])
    <3>1. inbox[m][e] = << >> /\ Range(<< >>) = {}
      BY DEF FlowInv, Joined, Range
    <3>2. Range(<<RequestChain>>) = {RequestChain}
      <4>1. PICK S : RequestChain \in S
        <5>1. RequestChain \in {RequestChain}
          OBVIOUS
        <5> QED BY <5>1
      <4> QED BY <4>1, RangeOfOne
    <3>3. NewTx(t) # RequestChain
      BY DEF RequestChain, NewTx
    <3> QED BY <3>1, <3>2, <3>3
  <2> QED BY <2>1, <2>2 DEF PoolFlow, Comes
<1>6. \A n \in Nodes : pc'[n] = "publish" => tx'[n] \in Range(mempool'[n])
  BY <1>3 DEF PoolInv
<1>7. \A n \in Nodes : pc'[n] \notin {"lock", "collect", "mine", "announce"}
  BY DEF PoolInv
<1> QED BY <1>4, <1>5, <1>6, <1>7 DEF PoolInv

\* Every step, as long as nobody mines and nothing is turned away.
LEMMA StepPool ==
    ASSUME Ind, TwoNodes, FlowInv, PoolInv, BothWork, RoomLeft, NobodyMines', [Next]_vars
    PROVE  PoolInv'
<1>1. ASSUME NEW n \in Nodes, UserStep(n) PROVE PoolInv'
  <2>1. CASE \E t \in Times : MineSnapshot(n, t)
    <3>1. pc'[n] = "lock"
      BY <2>1 DEF MineSnapshot, Ind, NodeTypes
    <3> QED BY <3>1 DEF NobodyMines
  <2>2. CASE \E p \in Payments : SendCheck(n, p)
    BY <2>2, QuietMainPool
  <2>3. CASE \E m \in Nodes : Connect(n, m)
    BY <2>3, ConnectPool
  <2> QED BY <1>1, <2>1, <2>2, <2>3 DEF UserStep
<1>2. ASSUME NEW n \in Nodes, MainStep(n) PROVE PoolInv'
  <2>1. ~ (MineLock(n) \/ MineCollect(n) \/ MineSeal(n) \/ MineAdd(n) \/ MineAnnounce(n))
    BY DEF PoolInv, MineLock, MineCollect, MineSeal, MineAdd, MineAnnounce
  <2>2. CASE SendEnqueue(n) \/ SendPublish(n)
    BY <2>2, EnqueuePool, PublishPool
  <2>3. CASE Greet(n) \/ RequestAgain(n)
    BY <2>3, GreetPool, QuietMainPool
  <2> QED BY <1>2, <2>1, <2>2, <2>3 DEF MainStep
<1>3. ASSUME NEW n \in Nodes, NEW c \in Conns, HandlerStep(n, c) PROVE PoolInv'
  BY <1>3, ReaderPool, RecvTxPool DEF HandlerStep
<1>4. CASE \/ \E n \in Nodes : AcceptGreet(n) \/ Restart(n)
           \/ \E n \in Nodes, c \in Conns : Accept(n, c)
  BY <1>4, GreetPool, RestartPool, AcceptPool
<1>5. CASE (\E c \in Conns : LinkDown(c)) \/ UNCHANGED vars
  BY <1>5, LinkDownPool
<1> QED BY <1>1, <1>2, <1>3, <1>4, <1>5 DEF Next

\* Nothing is pooled and nobody is connected.
LEMMA InitPool ==
    ASSUME Init
    PROVE  PoolInv
<1>1. Working = {}
  <2>1. Len(conns) = 0
    BY LenProperties DEF Init
  <2> QED BY <2>1 DEF Made, Working
<1> QED BY <1>1 DEF PoolInv, Init

\* When nothing is under way, each node holds what the other one holds.
LEMMA SharedWhenQuiet ==
    ASSUME Ind, TwoNodes, FlowInv, PoolInv
    PROVE  MempoolsAgree
<1> SUFFICES ASSUME Quiet, NEW n \in Nodes, NEW m \in Nodes \ {n}, Linked(n, m)
             PROVE  Range(mempool[n]) \subseteq Range(mempool[m])
  <2>1. ASSUME NEW n \in Nodes, NEW m \in Nodes \ {n}, Linked(n, m)
        PROVE  Linked(m, n)
    BY <2>1 DEF Linked
  <2> QED BY <2>1 DEF MempoolsAgree
<1>1. PICK c \in Working : c \in Conns
  BY WorkingIs DEF Linked, Working
<1>2. ASSUME NEW t PROVE ~ Comes(n, m, c, t)
  <2>1. inbox[m][c] = << >> /\ backlog = {} /\ pc[n] = "menu" /\ accepting[n] = 0
    BY <1>1 DEF Quiet
  <2>2. c # 0 /\ Range(<< >>) = {}
    BY <1>1, BoundAssumption DEF Conns, Range
  <2> QED BY <2>1, <2>2 DEF Comes, Greets
<1>3. PoolFlow(n, m, c)
  BY DEF PoolInv
<1> QED BY <1>2, <1>3 DEF PoolFlow

\* While nobody mines there is no chain but genesis.
NothingMined == built = {ChainInit}

LEMMA MinedNever ==
    ASSUME PoolInv, NothingMined, [Next]_vars
    PROVE  NothingMined'
<1> USE DEF NothingMined
<1>1. ASSUME NEW n \in Nodes, UserStep(n) PROVE NothingMined'
  BY <1>1 DEF UserStep, MineSnapshot, SendCheck, Connect
<1>2. ASSUME NEW n \in Nodes, MainStep(n) PROVE NothingMined'
  <2>1. ~ MineAdd(n)
    BY DEF PoolInv, MineAdd
  <2> QED BY <1>2, <2>1 DEF MainStep, MineLock, MineCollect, MineSeal, MineAnnounce, SendEnqueue,
             SendPublish, Greet, RequestAgain
<1>3. ASSUME NEW n \in Nodes, NEW c \in Conns, HandlerStep(n, c) PROVE NothingMined'
  BY <1>3 DEF HandlerStep, RecvBlock, RelayBlock, RecvTx, RecvRequest, SendAnswer, RecvChain,
     PeerLost
<1>4. CASE \/ \E n \in Nodes : AcceptGreet(n) \/ Restart(n)
           \/ \E n \in Nodes, c \in Conns : Accept(n, c)
  BY <1>4 DEF AcceptGreet, Restart, Accept
<1>5. CASE (\E c \in Conns : LinkDown(c)) \/ UNCHANGED vars
  BY <1>5 DEF LinkDown, vars
<1> QED BY <1>1, <1>2, <1>3, <1>4, <1>5 DEF Next

\* So no block is announced, and none overtakes an answer.
LEMMA NoneOvertakes ==
    ASSUME Ind, NothingMined
    PROVE  NothingOvertakes
<1> SUFFICES ASSUME NEW n \in Nodes, NEW c \in Made, NEW msg \in Range(inbox[Other(n, c)][c]),
                    msg.type = "NEW_BLOCK"
             PROVE  FALSE
  BY DEF NothingOvertakes
<1>1. c \in Conns /\ Other(n, c) \in Nodes
  <2>1. conns[c] \in Nodes \X Nodes
    BY ElementOfSeq DEF Ind, NodeTypes, Made
  <2> QED BY <2>1, WorkingIs DEF Other
<1>2. inbox[Other(n, c)][c] \in Seq(Wire)
  BY <1>1, InboxIs
<1>3. msg \in Wire
  BY <1>2, LenProperties, ElementOfSeq DEF Range
<1>4. msg.block \in Tips
  BY <1>3, WireIs
<1>5. Tips = {}
  BY DEF Tips, NothingMined
<1> QED BY <1>4, <1>5

\* Two connected nodes end up with the same payments in their mempools, in every
\* order of checking, pooling, publishing, connecting, accepting and greeting,
\* and after breaks and restarts, as long as nobody mines, no mempool turns a
\* payment away, and two connections of the two nodes both work.
THEOREM PaymentsShared ==
    NoHashCollision /\ TwoNodes =>
        (Spec /\ []BothWork /\ []RoomLeft => MempoolShared)
<1> SUFFICES ASSUME NoHashCollision, TwoNodes
             PROVE  Spec /\ []BothWork /\ []RoomLeft => MempoolShared
  OBVIOUS
<1>1. Spec => []Ind
  BY Inductive
<1>2. Init => FlowInv /\ OweInv /\ PoolInv /\ NothingMined
  BY InitFlow, InitPool DEF Init, NothingMined
<1>3. PoolInv /\ NothingMined /\ [Next]_vars => NothingMined'
  BY MinedNever
<1>4. Ind /\ NothingMined => NothingOvertakes
  BY NoneOvertakes
<1>5. /\ Ind /\ FlowInv /\ OweInv /\ BothWork /\ BothWork'
      /\ NothingOvertakes /\ NothingOvertakes' /\ [Next]_vars
      => FlowInv' /\ OweInv'
  BY StepFlow
<1>6. Ind /\ FlowInv /\ PoolInv /\ BothWork /\ RoomLeft /\ NobodyMines' /\ [Next]_vars
      => PoolInv'
  BY StepPool
<1>7. Ind /\ FlowInv /\ PoolInv => MempoolsAgree
  BY SharedWhenQuiet
<1> QED BY <1>1, <1>2, <1>3, <1>4, <1>5, <1>6, <1>7, PTL DEF Spec, MempoolShared
=============================================================================
