-------------------------- MODULE SharedChainProofs --------------------------
(***************************************************************************)
(* Proofs about SharedChain, for any number of readers and whatever chains *)
(* they receive: chain_replace works alone on the array and the length     *)
(* never shrinks; whenever nobody copies, the array holds a chain that was *)
(* mined; a balance that do_mine reads without the lock is that of the     *)
(* chain below its block, or the block is refused; and a response read     *)
(* without the lock is never a splice of two chains that chain_validate    *)
(* accepts.                                                                *)
(***************************************************************************)
EXTENDS SharedChain, LedgerProofs

Points == {"idle", "copy", "first", "rest", "reply", "collect", "mine"}

\* The variables that chain_replace works with.
Shapes ==
    /\ DOMAIN blocks = 1 .. MAX_BLOCKS
    /\ length \in 1 .. MAX_BLOCKS
    /\ pc \in [Readers \cup {Main} -> Points]
    /\ other \in [Readers -> Offers \cup {<< >>}]
    /\ todo \in [Readers -> SUBSET (1 .. MAX_BLOCKS)]
    /\ lock \in Readers \cup {NoThread}
    /\ pc[Main] # "copy"

\* CopyAlone says who copies; beside it, that the received chain is the longer
\* one until the length is set.
Longer == \A r \in Readers : pc[r] = "copy" => other[r] \in Offers /\ Len(other[r]) > length

CopyInv == Shapes /\ CopyAlone /\ Longer

\* The chain in the array has the length of the field length.
LEMMA HeldLength ==
    ASSUME length \in Nat
    PROVE  Len(Held) = length /\ DOMAIN Held = 1 .. length
<1>1. Held \in Seq(Range(Held)) /\ DOMAIN Held = 1 .. length
  <2>1. DOMAIN Held = 1 .. length
    BY DEF Held
  <2>2. Held \in [1 .. length -> Range(Held)]
    BY DEF Held, Range
  <2> QED BY <2>1, <2>2, SeqDef
<1> QED BY <1>1, LenProperties

\* A received chain fits into the array.
LEMMA OfferLength ==
    ASSUME NEW c \in Offers
    PROVE  Len(c) \in 1 .. MAX_BLOCKS /\ DOMAIN c = 1 .. Len(c)
BY OfferAssumption, LenProperties DEF TreeOf, ChainOf

\* CopyInv holds at the start.
LEMMA CopyInvInit == Init => CopyInv
<1> SUFFICES ASSUME Init PROVE CopyInv
  OBVIOUS
<1> USE DEF Init
<1>1. Shapes
  BY CapacityAssumption DEF Shapes, Points
<1>2. CopyAlone
  BY ThreadAssumption DEF CopyAlone
<1>3. Longer
  BY DEF Longer
<1> QED BY <1>1, <1>2, <1>3 DEF CopyInv

-----------------------------------------------------------------------------
(* One lemma for each kind of step *)

\* chain_add_block of either kind of thread: nobody copies, for the lock is free.
LEMMA BlockAdded ==
    ASSUME CopyInv, lock = NoThread, NEW b, length < MAX_BLOCKS,
           blocks' = [blocks EXCEPT ![length + 1] = b],
           length' = length + 1,
           UNCHANGED <<lock, other, todo>>,
           \/ pc' = pc
           \/ pc' = [pc EXCEPT ![Main] = "idle"]
    PROVE  CopyInv' /\ length' >= length
<1> USE DEF CopyInv, Shapes
<1>1. \A r \in Readers : pc'[r] = pc[r] /\ pc[r] # "copy" /\ lock # r
  BY ThreadAssumption DEF CopyAlone
<1>2. /\ DOMAIN blocks' = 1 .. MAX_BLOCKS
      /\ pc' \in [Readers \cup {Main} -> Points]
      /\ pc'[Main] # "copy"
  BY DEF Points
<1>3. length' \in 1 .. MAX_BLOCKS /\ length' >= length
  BY CapacityAssumption
<1>4. CopyAlone'
  BY <1>1 DEF CopyAlone
<1>5. Longer'
  BY <1>1 DEF Longer
<1> QED BY <1>2, <1>3, <1>4, <1>5

\* A thread that does not copy goes to another point than "copy", and leaves the
\* array and the lock alone.
LEMMA Elsewhere ==
    ASSUME CopyInv, NEW t \in Readers \cup {Main}, NEW point \in Points \ {"copy"},
           pc[t] # "copy",
           pc' = [pc EXCEPT ![t] = point],
           UNCHANGED <<chainVars, other, todo>>
    PROVE  CopyInv'
<1> USE DEF CopyInv, chainVars
<1>1. /\ pc' \in [Readers \cup {Main} -> Points]
      /\ \A r \in Readers \cup {Main} : pc'[r] = "copy" <=> pc[r] = "copy"
  BY DEF Shapes
<1>2. Shapes'
  BY <1>1 DEF Shapes
<1>3. CopyAlone'
  BY <1>1 DEF CopyAlone
<1>4. Longer'
  BY <1>1 DEF Longer
<1> QED BY <1>2, <1>3, <1>4

\* chain_replace up to its comparison: only a longer chain is copied.
LEMMA ReplaceBegins ==
    ASSUME CopyInv, NEW r \in Readers, NEW c \in Offers, ReplaceBegin(r, c)
    PROVE  CopyInv' /\ length' >= length
<1> USE DEF CopyInv, ReplaceBegin, Go
<1>1. Len(c) > length
  BY HeldLength, CapacityAssumption DEF ReplaceAccepts, Shapes
<1>2. /\ pc' \in [Readers \cup {Main} -> Points]
      /\ pc'[r] = "copy" /\ \A s \in (Readers \cup {Main}) \ {r} : pc'[s] = pc[s]
  BY DEF Shapes, Points
<1>3. /\ other' \in [Readers -> Offers \cup {<< >>}]
      /\ other'[r] = c /\ \A s \in Readers \ {r} : other'[s] = other[s]
  BY DEF Shapes
<1>4. /\ todo' \in [Readers -> SUBSET (1 .. MAX_BLOCKS)]
      /\ todo'[r] = {i \in 1 .. Len(c) : blocks[i] # c[i]}
  BY OfferLength, CapacityAssumption DEF Shapes
<1>5. Shapes'
  BY <1>2, <1>3, <1>4, ThreadAssumption DEF Shapes
<1>6. CopyAlone'
  <2>1. \A s \in Readers \ {r} : pc[s] # "copy"
    BY ThreadAssumption DEF CopyAlone
  <2>2. DOMAIN c = 1 .. Len(c)
    BY OfferLength
  <2> QED BY <1>2, <1>3, <1>4, <2>1, <2>2 DEF CopyAlone
<1>7. Longer'
  <2>1. \A s \in Readers \ {r} : pc[s] # "copy"
    BY ThreadAssumption DEF CopyAlone
  <2> QED BY <1>1, <1>2, <1>3, <2>1 DEF Longer
<1>8. length' >= length
  BY CapacityAssumption DEF Shapes
<1> QED BY <1>5, <1>6, <1>7, <1>8

\* One block is copied.
LEMMA BlockCopied ==
    ASSUME CopyInv, NEW r \in Readers, NEW i \in todo[r], ReplaceCopy(r, i)
    PROVE  CopyInv' /\ length' >= length
<1> USE DEF CopyInv, ReplaceCopy
<1>1. \A s \in Readers \ {r} : pc[s] # "copy"
  BY DEF CopyAlone
<1>2. /\ todo' \in [Readers -> SUBSET (1 .. MAX_BLOCKS)]
      /\ todo'[r] = todo[r] \ {i}
  BY DEF Shapes
<1>3. i \in 1 .. MAX_BLOCKS
  BY DEF Shapes
<1>4. /\ DOMAIN blocks' = 1 .. MAX_BLOCKS
      /\ blocks'[i] = other[r][i]
      /\ \A j \in (1 .. MAX_BLOCKS) \ {i} : blocks'[j] = blocks[j]
  BY <1>3 DEF Shapes
<1>5. Shapes'
  BY <1>2, <1>4 DEF Shapes
<1>6. CopyAlone'
  <2>1. \A j \in DOMAIN other[r] \ todo'[r] : blocks'[j] = other[r][j]
    <3>1. other[r] \in Offers
      BY DEF Longer
    <3>2. DOMAIN other[r] \subseteq 1 .. MAX_BLOCKS
      BY <3>1, OfferLength, CapacityAssumption
    <3> QED BY <1>2, <1>4, <3>2 DEF CopyAlone
  <2> QED BY <1>1, <2>1 DEF CopyAlone
<1>7. Longer'
  BY DEF Longer
<1>8. length' >= length
  BY CapacityAssumption DEF Shapes
<1> QED BY <1>5, <1>6, <1>7, <1>8

\* The length is set, and the lock given back.
LEMMA ReplaceEnds ==
    ASSUME CopyInv, NEW r \in Readers, ReplaceEnd(r)
    PROVE  CopyInv' /\ length' >= length
<1> USE DEF CopyInv, ReplaceEnd, Go
<1>1. other[r] \in Offers /\ Len(other[r]) > length
  BY DEF Longer
<1>2. length' \in 1 .. MAX_BLOCKS /\ length' >= length
  BY <1>1, OfferLength, CapacityAssumption DEF Shapes
<1>3. /\ pc' \in [Readers \cup {Main} -> Points]
      /\ pc'[r] = "idle" /\ \A s \in (Readers \cup {Main}) \ {r} : pc'[s] = pc[s]
  BY DEF Shapes, Points
<1>4. other' \in [Readers -> Offers \cup {<< >>}]
  BY DEF Shapes
<1>5. Shapes'
  BY <1>2, <1>3, <1>4, ThreadAssumption DEF Shapes
<1>6. \A s \in Readers : pc'[s] # "copy"
  BY <1>3 DEF CopyAlone
<1>7. CopyAlone'
  BY <1>6, ThreadAssumption DEF CopyAlone
<1>8. Longer'
  BY <1>6 DEF Longer
<1> QED BY <1>2, <1>5, <1>7, <1>8

-----------------------------------------------------------------------------
\* Every step keeps CopyInv, and none makes the chain shorter.
LEMMA CopyInvStep == CopyInv /\ [Next]_vars => CopyInv' /\ length' >= length
<1> SUFFICES ASSUME CopyInv, [Next]_vars PROVE CopyInv' /\ length' >= length
  OBVIOUS
<1>0. length \in Nat /\ MAX_BLOCKS \in Nat /\ length <= MAX_BLOCKS
  BY CapacityAssumption DEF CopyInv, Shapes
<1>1. ASSUME NEW r \in Readers, NEW c \in Offers, ReceiveBlock(r, Last(c))
      PROVE  CopyInv' /\ length' >= length
  <2>1. length < MAX_BLOCKS
    BY <1>0, <1>1, HeldLength DEF ReceiveBlock, AddBlockAccepts
  <2> QED BY <1>1, <2>1, BlockAdded DEF ReceiveBlock
<1>2. ASSUME NEW r \in Readers, AnswerBegin(r) \/ Answering(r)
      PROVE  CopyInv' /\ length' >= length
  <2>1. /\ pc[r] # "copy"
        /\ \E point \in Points \ {"copy"} : pc' = [pc EXCEPT ![r] = point]
        /\ UNCHANGED <<chainVars, other, todo>>
    BY <1>2 DEF AnswerBegin, Answering, AnswerFirst, AnswerRest, AnswerEnd, Reply, Go, Points
  <2>2. PICK point \in Points \ {"copy"} : pc' = [pc EXCEPT ![r] = point]
    BY <2>1
  <2>3. CopyInv'
    BY <2>1, <2>2, Elsewhere
  <2> QED BY <1>0, <2>1, <2>3 DEF chainVars
<1>3. CASE (\E t \in Times : MineSnapshot(t)) \/ \E take \in BOOLEAN : MineSeal(take)
  <2>1. /\ \E point \in Points \ {"copy"} : pc' = [pc EXCEPT ![Main] = point]
        /\ UNCHANGED <<chainVars, other, todo>>
    BY <1>3 DEF MineSnapshot, MineSeal, Go, Points
  <2>2. pc[Main] # "copy"
    BY DEF CopyInv, Shapes
  <2>3. PICK point \in Points \ {"copy"} : pc' = [pc EXCEPT ![Main] = point]
    BY <2>1
  <2>4. CopyInv'
    BY <2>1, <2>2, <2>3, Elsewhere
  <2> QED BY <1>0, <2>1, <2>4 DEF chainVars
<1>4. CASE MineRead \/ UNCHANGED vars
  <2>1. UNCHANGED <<chainVars, pc, other, todo>>
    BY <1>4 DEF MineRead, vars
  <2> QED BY <1>0, <2>1 DEF chainVars, CopyInv, Shapes, CopyAlone, Longer
<1>5. CASE MineAdd
  <2> DEFINE b == BlockMine(draft)
  <2>1. CASE AddBlockAccepts(Held, b)
    <3>1. length < MAX_BLOCKS
      BY <1>0, <2>1, HeldLength DEF AddBlockAccepts
    <3> QED BY <1>5, <2>1, <3>1, BlockAdded DEF MineAdd, Go
  <2>2. CASE ~ AddBlockAccepts(Held, b)
    <3>1. /\ pc' = [pc EXCEPT ![Main] = "idle"]
          /\ UNCHANGED <<chainVars, other, todo>>
      BY <1>5, <2>2 DEF MineAdd, Go, chainVars
    <3>2. pc[Main] # "copy"
      BY DEF CopyInv, Shapes
    <3>3. "idle" \in Points \ {"copy"}
      BY DEF Points
    <3>4. CopyInv'
      BY <3>1, <3>2, <3>3, Elsewhere
    <3> QED BY <1>0, <3>1, <3>4 DEF chainVars
  <2> QED BY <2>1, <2>2
<1> QED
  BY <1>1, <1>2, <1>3, <1>4, <1>5, ReplaceBegins, BlockCopied, ReplaceEnds
     DEF Next, Replacing, Mining

\* CopyInv in every state.
LEMMA CopyInvariant == Spec => []CopyInv
<1>1. CopyInv /\ [Next]_vars => CopyInv'
  BY CopyInvStep
<1> QED BY CopyInvInit, <1>1, PTL DEF Spec

\* chain_replace is alone while it copies: it holds chain.lock, every other path
\* of chain_add_block and chain_replace (chain.c) has given the lock back, and
\* nobody overwrites what has been copied.
THEOREM CopiesAlone == Spec => []CopyAlone
<1>1. CopyInv => CopyAlone
  BY DEF CopyInv
<1> QED BY CopyInvariant, <1>1, PTL

\* Whoever reads the chain without the lock (chain_get_balance, chain.c, and
\* protocol_serialize_chain, protocol.c:210) never sees it shrink, however many
\* replacements there are.
THEOREM LengthNeverShrinks == Spec => LengthGrows
<1>1. CopyInv /\ [Next]_vars => [length' >= length]_vars
  BY CopyInvStep
<1> QED BY CopyInvariant, <1>1, PTL DEF Spec, LengthGrows

-----------------------------------------------------------------------------
(* The array holds chains of the tree *)

Tree == TreeOf(KnownTxs, built) /\ Offers \subseteq built

\* Also while chain_replace is copying, each slot holds a block of a chain at its
\* place in that chain.
Placed(b, i) == \E c \in built : i <= Len(c) /\ b = c[i]
ArrayInv == \A i \in 1 .. length : Placed(blocks[i], i)

ChainInv == Tree /\ ArrayInv /\ ChainIntact /\ BlockOf(KnownTxs, draft)

\* The chain in the array, as a sequence.
LEMMA HeldChain ==
    ASSUME length \in Nat
    PROVE  /\ Held \in Seq(Range(Held)) /\ Len(Held) = length
           /\ \A i \in 1 .. length : Held[i] = blocks[i]
<1>1. Held \in [1 .. length -> Range(Held)]
  BY DEF Held, Range
<1>2. Held \in Seq(Range(Held))
  BY <1>1, SeqDef
<1> QED BY <1>2, HeldLength DEF Held

\* A block stored behind the last one.
LEMMA HeldAppend ==
    ASSUME length \in 1 .. MAX_BLOCKS, length < MAX_BLOCKS, DOMAIN blocks = 1 .. MAX_BLOCKS,
           NEW b, blocks' = [blocks EXCEPT ![length + 1] = b], length' = length + 1
    PROVE  Held' = Append(Held, b)
<1>0. length \in Nat \ {0} /\ MAX_BLOCKS \in Nat /\ length' \in Nat
  BY CapacityAssumption
<1>1. /\ Held \in Seq(Range(Held)) /\ Len(Held) = length
      /\ \A i \in 1 .. length : Held[i] = blocks[i]
  BY <1>0, HeldChain
<1>2. DOMAIN Held' = 1 .. length + 1 /\ \A i \in 1 .. length + 1 : Held'[i] = blocks'[i]
  BY <1>0 DEF Held
<1>3. /\ DOMAIN Append(Held, b) = 1 .. length + 1
      /\ \A i \in 1 .. length : Append(Held, b)[i] = blocks[i]
      /\ Append(Held, b)[length + 1] = b
  <2>1. /\ Append(Held, b) \in Seq(Range(Append(Held, b)))
        /\ Len(Append(Held, b)) = length + 1 /\ Last(Append(Held, b)) = b
        /\ \A i \in 1 .. length : Append(Held, b)[i] = blocks[i]
    BY <1>1, AppendChain
  <2>2. DOMAIN Append(Held, b) = 1 .. length + 1
    BY <2>1, LenProperties
  <2> QED BY <2>1, <2>2 DEF Last
<1>4. blocks'[length + 1] = b /\ \A i \in 1 .. length : blocks'[i] = blocks[i]
  BY <1>0
<1>5. \A i \in 1 .. length + 1 : Held'[i] = Append(Held, b)[i]
  BY <1>0, <1>2, <1>3, <1>4
<1>6. Held' = [i \in 1 .. length + 1 |-> Held'[i]]
  BY <1>0 DEF Held
<1>7. Append(Held, b) = [i \in 1 .. length + 1 |-> Append(Held, b)[i]]
  <2>1. Append(Held, b) \in Seq(Range(Append(Held, b))) /\ Len(Append(Held, b)) = length + 1
    BY <1>1, AppendChain
  <2> QED BY <2>1, LenProperties
<1> HIDE DEF Held
<1> QED BY <1>5, <1>6, <1>7

\* A chain in the array is in its slots.
LEMMA HeldPlaced ==
    ASSUME length \in Nat, Held \in built
    PROVE  ArrayInv
BY HeldChain DEF ArrayInv, Placed

\* ChainInv holds at the start: genesis is a chain of the tree.
LEMMA ChainInvInit == Init => ChainInv
<1> SUFFICES ASSUME Init PROVE ChainInv
  OBVIOUS
<1>1. built = Offers \cup {ChainInit} /\ draft = Empty /\ length = 1
  BY DEF Init
<1>2. Tree
  BY <1>1, OfferAssumption DEF Tree
<1>3. Held = ChainInit
  <2>1. blocks[1] = Genesis
    <3>1. 1 \in 1 .. MAX_BLOCKS
      BY CapacityAssumption
    <3> QED BY <3>1 DEF Init
  <2>2. Held = [i \in 1 .. 1 |-> Genesis]
    BY <1>1, <2>1 DEF Held
  <2>3. <<Genesis>> = [i \in 1 .. 1 |-> Genesis]
    OBVIOUS
  <2> QED BY <2>2, <2>3 DEF ChainInit
<1>4. Held \in built
  BY <1>1, <1>3
<1>5. ArrayInv
  BY <1>1, <1>4, HeldPlaced
<1>6. BlockOf(KnownTxs, draft)
  <2>1. << >> \in Seq(KnownTxs)
    BY EmptySeq
  <2> QED BY <1>1, <2>1 DEF BlockOf, Empty
<1> QED BY <1>2, <1>4, <1>5, <1>6 DEF ChainInv, ChainIntact

\* Neither the array nor the tree changes, whatever else the threads do.
LEMMA ChainUntouched ==
    ASSUME ChainInv, UNCHANGED <<blocks, length, built>>,
           lock' = NoThread => lock = NoThread, BlockOf(KnownTxs, draft')
    PROVE  ChainInv' /\ built \subseteq built'
<1>1. Tree' /\ built \subseteq built'
  BY DEF ChainInv, Tree
<1>2. ArrayInv'
  BY DEF ChainInv, ArrayInv, Placed
<1>3. ChainIntact'
  <2>1. Held' = Held
    BY DEF Held
  <2> QED BY <2>1 DEF ChainInv, ChainIntact
<1> QED BY <1>1, <1>2, <1>3 DEF ChainInv

\* A block is stored behind the last one and the array then holds a chain of the
\* tree.
LEMMA ChainExtended ==
    ASSUME CopyInv, ChainInv, lock = NoThread, length < MAX_BLOCKS, NEW b,
           blocks' = [blocks EXCEPT ![length + 1] = b], length' = length + 1,
           Tree', built \subseteq built', Append(Held, b) \in built',
           BlockOf(KnownTxs, draft')
    PROVE  ChainInv'
<1>1. Held' = Append(Held, b)
  BY HeldAppend DEF CopyInv, Shapes
<1>2. Held' \in built'
  BY <1>1
<1>3. length' \in Nat
  BY CapacityAssumption DEF CopyInv, Shapes
<1>4. ArrayInv'
  <2>1. \A i \in 1 .. length' : Held'[i] = blocks'[i]
    BY <1>3 DEF Held
  <2>2. Len(Held') = length'
    BY <1>1, HeldChain, AppendChain, CapacityAssumption DEF CopyInv, Shapes
  <2> QED BY <1>2, <1>3, <2>1, <2>2 DEF ArrayInv, Placed
<1> QED BY <1>2, <1>4 DEF ChainInv, ChainIntact

\* chain_add_block of a received block: the tree already has the result.
LEMMA ReceiveBlockChain ==
    ASSUME NoHashCollision, CopyInv, ChainInv, NEW r \in Readers, NEW c \in Offers,
           ReceiveBlock(r, Last(c))
    PROVE  ChainInv' /\ built' = built
<1>1. Held \in built /\ c \in built /\ TreeOf(KnownTxs, built) /\ CollisionFree(KnownTxs)
  BY DEF ReceiveBlock, ChainInv, ChainIntact, Tree, NoHashCollision
<1>2. Append(Held, Last(c)) = c
  BY <1>1, TreeKnownBlock DEF ReceiveBlock
<1>3. length < MAX_BLOCKS
  BY HeldLength, CapacityAssumption DEF ReceiveBlock, AddBlockAccepts, CopyInv, Shapes
<1>4. Tree' /\ built' = built /\ BlockOf(KnownTxs, draft')
  BY DEF ReceiveBlock, ChainInv, Tree, mineVars
<1> QED BY <1>1, <1>2, <1>3, <1>4, ChainExtended DEF ReceiveBlock

\* chain_add_block of the own block: the tree grows by the result.
LEMMA MineAddChain ==
    ASSUME NoHashCollision, CopyInv, ChainInv, MineAdd
    PROVE  ChainInv' /\ built \subseteq built'
<1> DEFINE b == BlockMine(draft)
<1>1. BlockOf(KnownTxs, draft')
  <2>1. << >> \in Seq(KnownTxs)
    BY EmptySeq
  <2> QED BY <2>1 DEF MineAdd, BlockOf, Empty
<1>2. CASE AddBlockAccepts(Held, b)
  <2>1. BlockOf(KnownTxs, b)
    BY MinedBlock DEF ChainInv
  <2>2. Held \in built /\ TreeOf(KnownTxs, built)
    BY DEF MineAdd, ChainInv, ChainIntact, Tree
  <2>3. TreeOf(KnownTxs, built \cup {Append(Held, b)})
    BY <1>2, <2>1, <2>2, TreeAddBlock
  <2>4. /\ lock = NoThread
        /\ blocks' = [blocks EXCEPT ![length + 1] = b]
        /\ length' = length + 1
        /\ built' = built \cup {Append(Held, b)}
    BY <1>2 DEF MineAdd
  <2>5. length < MAX_BLOCKS
    BY <1>2, HeldLength, CapacityAssumption DEF AddBlockAccepts, CopyInv, Shapes
  <2>6. Tree' /\ built \subseteq built' /\ Append(Held, b) \in built'
    BY <2>3, <2>4 DEF ChainInv, Tree
  <2> HIDE DEF b
  <2> QED BY <1>1, <2>4, <2>5, <2>6, ChainExtended
<1>3. CASE ~ AddBlockAccepts(Held, b)
  <2>1. UNCHANGED <<blocks, length, built, lock>>
    BY <1>3 DEF MineAdd
  <2> QED BY <1>1, <2>1, ChainUntouched
<1> QED BY <1>2, <1>3

\* A block copied by chain_replace is placed in the tree, though the array may mix
\* two chains for the moment.
LEMMA ReplaceCopyChain ==
    ASSUME CopyInv, ChainInv, NEW r \in Readers, NEW i \in todo[r], ReplaceCopy(r, i)
    PROVE  ChainInv' /\ built' = built
<1>1. lock = r /\ lock' = r /\ r # NoThread
  BY ThreadAssumption DEF ReplaceCopy, CopyInv, CopyAlone
<1>2. other[r] \in Offers /\ Len(other[r]) > length
  BY DEF ReplaceCopy, CopyInv, Longer
<1>3. other[r] \in built /\ length \in Nat /\ length <= MAX_BLOCKS /\ MAX_BLOCKS \in Nat
  BY <1>2, CapacityAssumption DEF ChainInv, Tree, CopyInv, Shapes
<1>4. ArrayInv'
  <2>1. length' = length /\ built' = built
    BY DEF ReplaceCopy
  <2>2. ASSUME NEW j \in 1 .. length
        PROVE  \E c \in built : j <= Len(c) /\ blocks'[j] = c[j]
    <3>1. CASE j = i
      <4>1. blocks'[j] = other[r][j]
        BY <1>3, <3>1 DEF ReplaceCopy, CopyInv, Shapes
      <4>2. j <= Len(other[r])
        BY <1>2, <1>3, OfferLength, CapacityAssumption
      <4> QED BY <1>3, <4>1, <4>2
    <3>2. CASE j # i
      <4>1. blocks'[j] = blocks[j]
        BY <1>3, <3>2 DEF ReplaceCopy, CopyInv, Shapes
      <4> QED BY <4>1 DEF ChainInv, ArrayInv, Placed
    <3> QED BY <3>1, <3>2
  <2> QED BY <2>1, <2>2 DEF ArrayInv, Placed
<1>5. Tree' /\ built' = built /\ BlockOf(KnownTxs, draft')
  BY DEF ReplaceCopy, ChainInv, Tree, mineVars
<1> QED BY <1>1, <1>4, <1>5 DEF ChainInv, ChainIntact

\* When the length is set, every slot of the received chain has been copied.
LEMMA ReplaceEndChain ==
    ASSUME CopyInv, ChainInv, NEW r \in Readers, ReplaceEnd(r)
    PROVE  ChainInv' /\ built' = built /\ Held' = other[r]
<1>1. other[r] \in Offers
  BY DEF ReplaceEnd, CopyInv, Longer
<1>2. other[r] \in built /\ DOMAIN other[r] = 1 .. Len(other[r]) /\ Len(other[r]) \in Nat
  BY <1>1, OfferLength, CapacityAssumption DEF ChainInv, Tree
<1>3. \A i \in 1 .. Len(other[r]) : blocks[i] = other[r][i]
  BY <1>2 DEF ReplaceEnd, CopyInv, CopyAlone
<1>4. Held' = other[r]
  <2>1. Held' = [i \in 1 .. Len(other[r]) |-> other[r][i]]
    BY <1>3 DEF Held, ReplaceEnd
  <2>2. other[r] \in Seq(Range(other[r]))
    BY <1>1, OfferAssumption DEF TreeOf, ChainOf
  <2>3. other[r] = [i \in 1 .. Len(other[r]) |-> other[r][i]]
    BY <2>2, LenProperties
  <2> QED BY <2>1, <2>3
<1>5. ArrayInv'
  BY <1>2, <1>3 DEF ReplaceEnd, ArrayInv, Placed
<1>6. Tree' /\ built' = built /\ BlockOf(KnownTxs, draft')
  BY DEF ReplaceEnd, ChainInv, Tree, mineVars
<1> QED BY <1>2, <1>4, <1>5, <1>6 DEF ChainInv, ChainIntact
-----------------------------------------------------------------------------
\* Every step keeps ChainInv, and the tree only grows.
LEMMA ChainInvStep ==
    ASSUME NoHashCollision, CopyInv, ChainInv, [Next]_vars
    PROVE  ChainInv' /\ built \subseteq built'
<1>1. ASSUME NEW r \in Readers, NEW c \in Offers, ReceiveBlock(r, Last(c))
      PROVE  ChainInv' /\ built \subseteq built'
  BY <1>1, ReceiveBlockChain
<1>2. ASSUME NEW r \in Readers, NEW c \in Offers, ReplaceBegin(r, c)
      PROVE  ChainInv' /\ built \subseteq built'
  <2>1. UNCHANGED <<blocks, length, built, draft>> /\ lock = NoThread
    BY <1>2 DEF ReplaceBegin, mineVars
  <2> QED BY <2>1, ChainUntouched DEF ChainInv
<1>3. ASSUME NEW r \in Readers, Replacing(r)
      PROVE  ChainInv' /\ built \subseteq built'
  <2>1. CASE \E i \in todo[r] : ReplaceCopy(r, i)
    BY <2>1, ReplaceCopyChain
  <2>2. CASE ReplaceEnd(r)
    BY <2>2, ReplaceEndChain
  <2> QED BY <1>3, <2>1, <2>2 DEF Replacing
<1>4. ASSUME NEW r \in Readers, AnswerBegin(r) \/ Answering(r)
      PROVE  ChainInv' /\ built \subseteq built'
  <2>1. UNCHANGED <<blocks, length, lock, built, draft>>
    BY <1>4 DEF AnswerBegin, Answering, AnswerFirst, AnswerRest, AnswerEnd, Reply,
                chainVars, mineVars
  <2> QED BY <2>1, ChainUntouched DEF ChainInv
<1>5. ASSUME NEW t \in Times, MineSnapshot(t)
      PROVE  ChainInv' /\ built \subseteq built'
  <2>1. BlockOf(KnownTxs, draft')
    <3>1. Held \in built /\ TreeOf(KnownTxs, built)
      BY <1>5 DEF MineSnapshot, ChainInv, ChainIntact, Tree
    <3>2. Last(Held).index + 1 \in Nat
      BY <3>1, TreeChain
    <3>3. << >> \in Seq(KnownTxs)
      BY EmptySeq
    <3> QED BY <1>5, <3>2, <3>3 DEF MineSnapshot, BlockOf, Empty
  <2>2. UNCHANGED <<blocks, length, lock, built>>
    BY <1>5 DEF MineSnapshot, chainVars
  <2> QED BY <2>1, <2>2, ChainUntouched
<1>6. CASE MineRead \/ UNCHANGED vars
  <2>1. UNCHANGED <<blocks, length, lock, built, draft>>
    BY <1>6 DEF MineRead, vars, chainVars, mineVars
  <2> QED BY <2>1, ChainUntouched DEF ChainInv
<1>7. ASSUME NEW take \in BOOLEAN, MineSeal(take)
      PROVE  ChainInv' /\ built \subseteq built'
  <2>1. BlockOf(KnownTxs, draft')
    <3> DEFINE txs == IF take THEN <<Coinbase(me, Pending.fee), Pending>>
                              ELSE <<Coinbase(me, 0)>>
    <3>1. txs \in Seq(KnownTxs)
      <4>1. {Pending, Coinbase(me, 0), Coinbase(me, Pending.fee)} \subseteq KnownTxs
        BY DEF KnownTxs
      <4> HIDE DEF KnownTxs
      <4> QED BY <4>1
    <3>2. draft' = [draft EXCEPT !.transactions = txs]
      BY <1>7 DEF MineSeal
    <3> HIDE DEF txs
    <3> QED BY <3>1, <3>2 DEF BlockOf, ChainInv
  <2>2. UNCHANGED <<blocks, length, lock, built>>
    BY <1>7 DEF MineSeal, chainVars
  <2> QED BY <2>1, <2>2, ChainUntouched
<1>8. CASE MineAdd
  BY <1>8, MineAddChain
<1> QED
  BY <1>1, <1>2, <1>3, <1>4, <1>5, <1>6, <1>7, <1>8 DEF Next, Mining

\* ChainInv in every state.
LEMMA ChainInvariant == NoHashCollision => (Spec => []ChainInv)
<1> SUFFICES ASSUME NoHashCollision PROVE Spec => []ChainInv
  OBVIOUS
<1>1. CopyInv /\ ChainInv /\ [Next]_vars => ChainInv'
  BY ChainInvStep
<1> QED BY CopyInvariant, ChainInvInit, <1>1, PTL DEF Spec

\* Whenever the mutex of blockchain_t is free (chain.c), the array holds one chain
\* of the tree and no mixture of two: however chain_add_block and chain_replace of
\* all threads follow each other, and with any number of readers and of blocks.
THEOREM ChainStaysIntact == NoHashCollision => (Spec => []ChainIntact)
<1>1. ChainInv => ChainIntact
  BY DEF ChainInv
<1> QED BY ChainInvariant, <1>1, PTL

-----------------------------------------------------------------------------
(* do_mine: the balance it has read is that of the chain below its block *)

\* The block being prepared still fits behind the chain: no thread has replaced or
\* extended the chain since the snapshot, and nobody is at it.
OnTop == draft.index = length /\ lock = NoThread

\* The mempool's payment is checked against the sum that chain_get_balance has
\* formed; the sum is that of the blocks it has been through.  Of a chain that has
\* changed since the snapshot nothing is known, but its length has changed with it.
MinerInv ==
    /\ read \in 0 .. length
    /\ pc[Main] \in {"collect", "mine"} => draft.index <= length
    /\ pc[Main] = "collect" /\ OnTop =>
         balance = GetBalance(SubSeq(Held, 1, read), Pending.sender)
    /\ pc[Main] = "mine" /\ OnTop =>
         \A i \in 2 .. Len(draft.transactions) : CanAfford(Held, draft.transactions[i])

\* The amounts and fees of all transactions are numbers.
LEMMA KnownTxsPriced == Priced(KnownTxs) /\ Pending \in KnownTxs
<1>1. UInt64 \subseteq Nat
  BY WordAssumption DEF UInt64
<1>2. Priced(KnownTxs)
  BY <1>1, PriceAssumption DEF Priced
<1>3. Pending \in KnownTxs
  BY DEF KnownTxs
<1> QED BY <1>2, <1>3

\* What is needed of the array while the lock is free.
LEMMA HeldFacts ==
    ASSUME CopyInv, ChainInv, lock = NoThread
    PROVE  /\ Held \in built /\ TreeOf(KnownTxs, built)
           /\ Held \in Seq(Range(Held)) /\ Len(Held) = length /\ length \in Nat
           /\ \A i \in 1 .. length : Held[i] = blocks[i]
           /\ BlocksOver(KnownTxs, Held)
           /\ Last(Held).index + 1 = length
<1>1. Held \in built /\ TreeOf(KnownTxs, built) /\ length \in Nat
  BY CapacityAssumption DEF CopyInv, Shapes, ChainInv, ChainIntact, Tree
<1>2. /\ Held \in Seq(Range(Held)) /\ Len(Held) = length
      /\ \A i \in 1 .. length : Held[i] = blocks[i]
  BY <1>1, HeldChain
<1>3. (\A i \in 1 .. Len(Held) : BlockOf(KnownTxs, Held[i])) /\ Last(Held).index = Len(Held) - 1
  BY <1>1, TreeChain
<1>4. BlocksOver(KnownTxs, Held)
  BY <1>3 DEF BlocksOver, BlockOf
<1> QED BY <1>1, <1>2, <1>3, <1>4

\* MinerInv holds at the start: nothing is being mined.
LEMMA MinerInvInit == Init => MinerInv
BY ThreadAssumption DEF Init, MinerInv

\* The main thread stands still; if its block still fits it fitted before, behind
\* the same chain.
LEMMA MinerUntouched ==
    ASSUME CopyInv, ChainInv, MinerInv, UNCHANGED <<draft, read, balance>>, pc'[Main] = pc[Main],
           length' \in Nat, length' >= length, OnTop' => OnTop /\ Held' = Held
    PROVE  MinerInv'
<1>1. length \in Nat /\ draft.index \in Nat
  BY CapacityAssumption DEF CopyInv, Shapes, ChainInv, BlockOf
<1>2. read' \in 0 .. length'
  BY <1>1 DEF MinerInv
<1>3. pc'[Main] \in {"collect", "mine"} => draft'.index <= length'
  BY <1>1 DEF MinerInv
<1>4. OnTop' => SubSeq(Held', 1, read') = SubSeq(Held, 1, read)
  OBVIOUS
<1> HIDE DEF Held, OnTop
<1> QED BY <1>2, <1>3, <1>4 DEF MinerInv

\* do_mine looks at the last block: its draft stands on the chain.
LEMMA MineSnapshotMiner ==
    ASSUME CopyInv, ChainInv, MinerInv, NEW t \in Times, MineSnapshot(t)
    PROVE  MinerInv'
<1>1. length \in Nat /\ Last(Held).index + 1 = length /\ Held \in Seq(Range(Held))
  BY HeldFacts DEF MineSnapshot
<1>2. length' = length /\ read' = 0 /\ balance' = 0 /\ draft'.index = length
  BY <1>1 DEF MineSnapshot, chainVars, Empty
<1>3. pc'[Main] = "collect"
  BY DEF MineSnapshot, Go, CopyInv, Shapes
<1>4. GetBalance(SubSeq(Held', 1, 0), Pending.sender) = 0
  <2>1. SubSeq(Held', 1, 0) = << >>
    OBVIOUS
  <2> QED BY <2>1, GetBalanceEmpty
<1> HIDE DEF Held, OnTop
<1> QED BY <1>1, <1>2, <1>3, <1>4 DEF MinerInv

\* chain_get_balance goes on by a block: its sum is that of a beginning of the chain.
LEMMA MineReadMiner ==
    ASSUME CopyInv, ChainInv, MinerInv, MineRead
    PROVE  MinerInv'
<1>1. length \in Nat /\ length' = length /\ read \in Nat /\ read < length
  <2>1. length \in Nat /\ read \in 0 .. length
    BY CapacityAssumption DEF MinerInv, CopyInv, Shapes
  <2>2. length' = length /\ read < length
    BY Zenon DEF MineRead, chainVars
  <2> QED BY <2>1, <2>2
<1>2. read' = read + 1 /\ pc[Main] = "collect" /\ pc' = pc /\ draft' = draft
      /\ lock' = lock /\ blocks' = blocks
  BY Zenon DEF MineRead, chainVars
<1>3. ASSUME OnTop
      PROVE  balance' = GetBalance(SubSeq(Held, 1, read + 1), Pending.sender)
  <2> DEFINE a == Pending.sender
             before == GetBalance(SubSeq(Held, 1, read), a)
  <2>1. balance = before /\ lock = NoThread
    BY <1>2, <1>3 DEF MinerInv, OnTop
  <2>2. /\ Held \in Seq(Range(Held)) /\ Len(Held) = length /\ BlocksOver(KnownTxs, Held)
        /\ Held[read + 1] = blocks[read + 1]
    BY <1>1, <2>1, HeldFacts
  <2>3. before \in Int
    <3>1. /\ SubSeq(Held, 1, read) \in Seq(Range(Held))
          /\ Len(SubSeq(Held, 1, read)) = read
          /\ \A i \in 1 .. read : SubSeq(Held, 1, read)[i] = Held[i]
      BY <1>1, <2>2, InitialSegment
    <3>2. SubSeq(Held, 1, read) \in Seq(Range(SubSeq(Held, 1, read)))
      BY <3>1, OverItsRange
    <3>3. BlocksOver(KnownTxs, SubSeq(Held, 1, read))
      BY <1>1, <2>2, <3>1 DEF BlocksOver
    <3> QED BY <3>2, <3>3, KnownTxsPriced, GetBalanceType
  <2>4. balance # Unset
    BY <2>1, <2>3, UnsetAssumption
  <2>5. balance' = TxsBalance(balance, blocks[read + 1].transactions, a)
    BY <2>1, <2>4 DEF MineRead, TxsBalance
  <2>6. GetBalance(SubSeq(Held, 1, read + 1), a)
          = TxsBalance(before, Held[read + 1].transactions, a)
    BY <1>1, <2>2, KnownTxsPriced, GetBalancePrefix
  <2> QED BY <2>1, <2>2, <2>5, <2>6
<1>4. Held' = Held /\ (OnTop' <=> OnTop)
  BY <1>1, <1>2 DEF Held, OnTop
<1>5. read' \in 0 .. length' /\ (pc'[Main] \in {"collect", "mine"} => draft'.index <= length')
  BY <1>1, <1>2 DEF MinerInv
<1> HIDE DEF Held, OnTop
<1> QED BY <1>2, <1>3, <1>4, <1>5 DEF MinerInv

\* The payment is taken on the strength of the balance that was read.
LEMMA MineSealMiner ==
    ASSUME CopyInv, ChainInv, MinerInv, NEW take \in BOOLEAN, MineSeal(take)
    PROVE  MinerInv'
<1>1. length \in Nat /\ length' = length /\ read = length /\ read' = read
  BY CapacityAssumption DEF MineSeal, chainVars, MinerInv, CopyInv, Shapes
<1>2. pc[Main] = "collect" /\ pc'[Main] = "mine"
  BY DEF MineSeal, Go, CopyInv, Shapes
<1>3. /\ draft'.index = draft.index
      /\ draft'.transactions = IF take THEN <<Coinbase(me, Pending.fee), Pending>>
                                       ELSE <<Coinbase(me, 0)>>
  <2>1. draft = [index |-> draft.index, timestamp |-> draft.timestamp,
                 transactions |-> draft.transactions, prev_hash |-> draft.prev_hash,
                 nonce |-> draft.nonce, hash |-> draft.hash]
    BY DEF ChainInv, BlockOf
  <2> QED BY <2>1 DEF MineSeal
<1>4. ASSUME OnTop, NEW i \in 2 .. Len(draft'.transactions)
      PROVE  CanAfford(Held, draft'.transactions[i])
  <2>1. take /\ draft'.transactions[i] = Pending
    BY <1>3, <1>4
  <2>2. balance = GetBalance(SubSeq(Held, 1, read), Pending.sender) /\ lock = NoThread
    BY <1>2, <1>4 DEF MinerInv, OnTop
  <2>3. Held \in Seq(Range(Held)) /\ Len(Held) = length /\ BlocksOver(KnownTxs, Held)
    BY <2>2, HeldFacts
  <2>4. SubSeq(Held, 1, read) = Held
    <3>1. /\ SubSeq(Held, 1, length) \in Seq(Range(Held))
          /\ Len(SubSeq(Held, 1, length)) = length
          /\ \A j \in 1 .. length : SubSeq(Held, 1, length)[j] = Held[j]
      BY <1>1, <2>3, InitialSegment
    <3> QED BY <1>1, <2>3, <3>1, SeqEqual
  <2>5. GetBalance(Held, Pending.sender) \in Int
    BY <2>3, KnownTxsPriced, GetBalanceType
  <2>6. balance = GetBalance(Held, Pending.sender) /\ balance # Unset
    BY <2>2, <2>4, <2>5, UnsetAssumption
  <2>7. balance >= ToInt64((Pending.amount + Pending.fee) % Two64)
    BY <2>1, <2>6 DEF MineSeal
  <2> QED BY <2>1, <2>6, <2>7 DEF CanAfford
<1>5. Held' = Held /\ (OnTop' <=> OnTop)
  BY <1>1, <1>3 DEF Held, OnTop, MineSeal, chainVars
<1>6. read' \in 0 .. length' /\ draft'.index <= length'
  BY <1>1, <1>2, <1>3 DEF MinerInv
<1> HIDE DEF Held, OnTop
<1> QED BY <1>2, <1>4, <1>5, <1>6 DEF MinerInv

\* The block goes on the chain that the balances were read from, or nowhere.
LEMMA MineAddMiner ==
    ASSUME CopyInv, ChainInv, MinerInv, CheckedOnTop, MineAdd
    PROVE  MinerInv' /\ CheckedOnTop'
<1> DEFINE b == BlockMine(draft)
<1>1. length \in Nat /\ MAX_BLOCKS \in Nat /\ read \in 0 .. length /\ lock = NoThread
  BY CapacityAssumption DEF MineAdd, MinerInv, CopyInv, Shapes
<1>2. pc'[Main] = "idle" /\ read' = read
  BY DEF MineAdd, Go, CopyInv, Shapes
<1>3. length' = length \/ length' = length + 1
  BY DEF MineAdd
<1>4. MinerInv'
  BY <1>1, <1>2, <1>3 DEF MinerInv
<1>5. CASE AddBlockAccepts(Held, b)
  <2>1. built' = built \cup {Append(Held, b)} /\ pc[Main] = "mine"
    BY <1>5 DEF MineAdd
  <2>2. /\ Held \in Seq(Range(Held)) /\ Len(Held) = length
        /\ Last(Held).index + 1 = length
    BY <1>1, HeldFacts
  <2>3. b.index = draft.index /\ b.transactions = draft.transactions
    BY MinedBlock DEF ChainInv
  <2>4. OnTop
    BY <1>1, <1>5, <2>2, <2>3 DEF OnTop, AddBlockAccepts
  <2>5. \A i \in 2 .. Len(b.transactions) : CanAfford(Held, b.transactions[i])
    BY <2>1, <2>3, <2>4 DEF MinerInv
  <2>6. Last(Append(Held, b)) = b /\ Front(Append(Held, b)) = Held
    <3> HIDE DEF b, Held
    <3> QED BY <2>2, AppendChain
  <2> HIDE DEF b, Held
  <2> QED BY <1>4, <2>1, <2>5, <2>6 DEF CheckedOnTop
<1>6. CASE ~ AddBlockAccepts(Held, b)
  <2>1. built' = built
    BY <1>6 DEF MineAdd
  <2> QED BY <1>4, <2>1 DEF CheckedOnTop
<1> QED BY <1>5, <1>6

\* Every step keeps MinerInv; the other threads do, because a chain that has become
\* longer never comes back.
LEMMA MinerInvStep ==
    ASSUME CopyInv, CopyInv', length' >= length, ChainInv, MinerInv, CheckedOnTop, [Next]_vars
    PROVE  MinerInv' /\ CheckedOnTop'
<1>1. length \in Nat /\ length' \in Nat
  BY CapacityAssumption DEF CopyInv, Shapes
<1>2. ASSUME UNCHANGED <<draft, read, balance>>, pc'[Main] = pc[Main], built' = built,
             OnTop' => OnTop /\ Held' = Held
      PROVE  MinerInv' /\ CheckedOnTop'
  <2>1. MinerInv'
    BY <1>1, <1>2, MinerUntouched
  <2> QED BY <1>2, <2>1 DEF CheckedOnTop
<1>3. ASSUME NEW r \in Readers, NEW c \in Offers, ReceiveBlock(r, Last(c))
      PROVE  MinerInv' /\ CheckedOnTop'
  <2>1. UNCHANGED <<draft, read, balance, built>> /\ pc'[Main] = pc[Main]
    BY <1>3 DEF ReceiveBlock, mineVars
  <2>2. OnTop' => pc[Main] \notin {"collect", "mine"}
    BY <1>1, <1>3 DEF ReceiveBlock, OnTop, MinerInv, mineVars
  <2>3. read' \in 0 .. length'
    BY <1>1, <2>1 DEF MinerInv
  <2>4. pc[Main] \in {"collect", "mine"} => draft'.index <= length'
    BY <1>1, <2>1 DEF MinerInv, ChainInv, BlockOf
  <2>5. MinerInv'
    BY <2>1, <2>2, <2>3, <2>4 DEF MinerInv
  <2> QED BY <2>1, <2>5 DEF CheckedOnTop
<1>4. ASSUME NEW r \in Readers, ReplaceEnd(r)
      PROVE  MinerInv' /\ CheckedOnTop'
  <2>1. UNCHANGED <<draft, read, balance, built>> /\ pc'[Main] = pc[Main]
    BY <1>4, ThreadAssumption DEF ReplaceEnd, mineVars, Go, CopyInv, Shapes
  <2>0. length' > length
    BY <1>4 DEF ReplaceEnd, CopyInv, Longer
  <2>2. OnTop' => pc[Main] \notin {"collect", "mine"}
    BY <1>1, <2>0, <2>1 DEF OnTop, MinerInv
  <2>3. read' \in 0 .. length'
    BY <1>1, <2>1 DEF MinerInv
  <2>4. pc[Main] \in {"collect", "mine"} => draft'.index <= length'
    BY <1>1, <2>1 DEF MinerInv, ChainInv, BlockOf
  <2>5. MinerInv'
    BY <2>1, <2>2, <2>3, <2>4 DEF MinerInv
  <2> QED BY <2>1, <2>5 DEF CheckedOnTop
<1>5. ASSUME NEW r \in Readers, NEW c \in Offers, ReplaceBegin(r, c)
      PROVE  MinerInv' /\ CheckedOnTop'
  <2>1. UNCHANGED <<draft, read, balance, built>> /\ pc'[Main] = pc[Main]
    BY <1>5, ThreadAssumption DEF ReplaceBegin, mineVars, Go, CopyInv, Shapes
  <2>2. ~ OnTop'
    BY <1>5, ThreadAssumption DEF ReplaceBegin, OnTop
  <2> QED BY <1>2, <2>1, <2>2
<1>6. ASSUME NEW r \in Readers, NEW i \in todo[r], ReplaceCopy(r, i)
      PROVE  MinerInv' /\ CheckedOnTop'
  <2>1. UNCHANGED <<draft, read, balance, built>> /\ pc'[Main] = pc[Main]
    BY <1>6 DEF ReplaceCopy, mineVars
  <2>2. ~ OnTop'
    BY <1>6, ThreadAssumption DEF ReplaceCopy, OnTop, CopyInv, CopyAlone
  <2> QED BY <1>2, <2>1, <2>2
<1>7. ASSUME NEW r \in Readers, AnswerBegin(r) \/ Answering(r)
      PROVE  MinerInv' /\ CheckedOnTop'
  <2>1. UNCHANGED <<draft, read, balance, built, blocks, length, lock>>
    BY <1>7 DEF AnswerBegin, Answering, AnswerFirst, AnswerRest, AnswerEnd, Reply,
                chainVars, mineVars
  <2>2. \E point : pc' = [pc EXCEPT ![r] = point]
    BY <1>7 DEF AnswerBegin, Answering, AnswerFirst, AnswerRest, AnswerEnd, Reply, Go
  <2>3. pc'[Main] = pc[Main]
    BY <2>2, ThreadAssumption DEF CopyInv, Shapes
  <2>4. OnTop' => OnTop /\ Held' = Held
    BY <2>1 DEF OnTop, Held
  <2> QED BY <1>2, <2>1, <2>3, <2>4
<1>8. CASE UNCHANGED vars
  BY <1>2, <1>8 DEF vars, chainVars, mineVars, OnTop, Held
<1>9. CASE (\E t \in Times : MineSnapshot(t)) \/ MineRead \/ \E take \in BOOLEAN : MineSeal(take)
  <2>1. built' = built
    BY <1>9 DEF MineSnapshot, MineRead, MineSeal
  <2>2. MinerInv'
    BY <1>9, MineSnapshotMiner, MineReadMiner, MineSealMiner
  <2> QED BY <2>1, <2>2 DEF CheckedOnTop
<1>10. CASE MineAdd
  BY <1>10, MineAddMiner
<1> QED
  BY <1>3, <1>4, <1>5, <1>6, <1>7, <1>8, <1>9, <1>10 DEF Next, Replacing, Mining

\* do_mine checks a payment against balances it reads without the mutex
\* (chain_get_balance, chain.c) while readers add and replace: a block is added only
\* where each of its payments is affordable on the chain below it, for the array has
\* not changed between the snapshot and chain_add_block if the block still fits.
THEOREM BalancesReadOnTop == NoHashCollision => (Spec => []CheckedOnTop)
<1> SUFFICES ASSUME NoHashCollision PROVE Spec => []CheckedOnTop
  OBVIOUS
<1> DEFINE Inv == CopyInv /\ ChainInv /\ MinerInv /\ CheckedOnTop
<1>1. Init => Inv
  <2>1. Init => CheckedOnTop
    BY Zenon DEF Init, CheckedOnTop
  <2> QED BY <2>1, CopyInvInit, ChainInvInit, MinerInvInit
<1>2. Inv /\ [Next]_vars => Inv'
  BY CopyInvStep, ChainInvStep, MinerInvStep
<1>3. Inv => CheckedOnTop
  OBVIOUS
<1> HIDE DEF Inv
<1> QED BY <1>1, <1>2, <1>3, PTL DEF Spec

-----------------------------------------------------------------------------
(* The readers' counters stay within the array *)

\* A response that a reader at the given point is writing.
AnswerOf(a, point) ==
    /\ a = [length |-> a.length, blocks |-> a.blocks, first |-> a.first]
    /\ a.blocks \in Seq(Range(a.blocks)) /\ Len(a.blocks) <= length
    /\ point = "rest" => Len(a.blocks) < length
    /\ point \in {"first", "rest", "reply"} => a.length \in Nat \ {0}
    /\ point = "reply" => Len(a.blocks) >= 1

ReadInv ==
    /\ read \in 0 .. length
    /\ answer = [r \in Readers |-> answer[r]]
    /\ \A r \in Readers : AnswerOf(answer[r], pc[r])

\* An answer that has only its length in it.
LEMMA EmptyAnswer ==
    ASSUME length \in Nat \ {0}
    PROVE  AnswerOf([NoAnswer EXCEPT !.length = length], "first") /\ AnswerOf(NoAnswer, "idle")
<1>1. << >> \in Seq(Range(<< >>)) /\ Len(<< >>) = 0
  BY EmptySeq
<1>2. [NoAnswer EXCEPT !.length = length] = [length |-> length, blocks |-> << >>, first |-> << >>]
  BY DEF NoAnswer
<1> QED BY <1>1, <1>2 DEF AnswerOf, NoAnswer

\* ReadInv holds at the start: no answer is being written.
LEMMA ReadInvInit == Init => ReadInv
<1> SUFFICES ASSUME Init PROVE ReadInv
  OBVIOUS
<1>1. length = 1 /\ read = 0 /\ answer = [r \in Readers |-> answer[r]]
  BY DEF Init
<1>2. \A r \in Readers : answer[r] = NoAnswer /\ pc[r] = "idle"
  BY DEF Init
<1>3. AnswerOf(NoAnswer, "idle")
  BY <1>1, EmptyAnswer
<1> QED BY <1>1, <1>2, <1>3 DEF ReadInv

\* The length has grown; the readers that are writing have gone on writing.
LEMMA ReadUntouched ==
    ASSUME ReadInv, length \in Nat, length' \in Nat, length' >= length,
           UNCHANGED <<read, answer>>,
           \A r \in Readers : pc'[r] = pc[r] \/ pc'[r] \in {"idle", "copy"}
    PROVE  ReadInv'
<1>1. read' \in 0 .. length' /\ answer' = [r \in Readers |-> answer'[r]]
  BY DEF ReadInv
<1>2. ASSUME NEW r \in Readers PROVE AnswerOf(answer[r], pc[r])'
  <2>1. AnswerOf(answer[r], pc[r]) /\ answer'[r] = answer[r]
    BY DEF ReadInv
  <2>2. Len(answer[r].blocks) \in Nat
    BY <2>1, LenProperties DEF AnswerOf
  <2> QED BY <2>1, <2>2 DEF AnswerOf
<1> QED BY <1>1, <1>2 DEF ReadInv

\* A reader goes on with its response.
LEMMA AnswerGoesOn ==
    ASSUME CopyInv, ReadInv, NEW r \in Readers, NEW a, NEW point,
           answer' = [answer EXCEPT ![r] = a], pc' = [pc EXCEPT ![r] = point],
           length' = length, read' = read, AnswerOf(a, point)
    PROVE  ReadInv'
<1>1. answer' = [s \in Readers |-> answer'[s]] /\ answer'[r] = a /\ pc'[r] = point
  BY DEF ReadInv, CopyInv, Shapes
<1>2. \A s \in Readers \ {r} : answer'[s] = answer[s] /\ pc'[s] = pc[s]
  BY DEF ReadInv, CopyInv, Shapes
<1>3. \A s \in Readers : AnswerOf(answer'[s], pc'[s])
  BY <1>1, <1>2 DEF ReadInv
<1>4. \A s \in Readers : AnswerOf(answer[s], pc[s])'
  BY <1>3 DEF AnswerOf
<1> QED BY <1>1, <1>4 DEF ReadInv

\* The record of an answer when it goes on to the next block.
LEMMA NextBlock ==
    ASSUME NEW a, a = [length |-> a.length, blocks |-> a.blocks, first |-> a.first], NEW bs
    PROVE  [a EXCEPT !.blocks = bs, !.first = << >>]
              = [length |-> a.length, blocks |-> bs, first |-> << >>]
<1> DEFINE x == [a EXCEPT !.blocks = bs]
<1>1. x = [length |-> a.length, blocks |-> bs, first |-> a.first]
  OBVIOUS
<1> HIDE DEF x
<1>2. [x EXCEPT !.first = << >>] = [length |-> a.length, blocks |-> bs, first |-> << >>]
  BY <1>1
<1> QED BY <1>2 DEF x

\* Every step keeps ReadInv: the length only grows, so the blocks to read exist.
LEMMA ReadInvStep ==
    ASSUME CopyInv, CopyInv', length' >= length, ReadInv, [Next]_vars
    PROVE  ReadInv'
<1>1. length \in Nat \ {0} /\ length' \in Nat
  BY CapacityAssumption DEF CopyInv, Shapes
<1>2. ASSUME NEW r \in Readers, NEW c \in Offers, ReceiveBlock(r, Last(c)) \/ ReplaceBegin(r, c)
      PROVE  ReadInv'
  <2>1. UNCHANGED <<read, answer>>
    BY <1>2 DEF ReceiveBlock, ReplaceBegin, mineVars
  <2>2. \A s \in Readers : pc'[s] = pc[s] \/ pc'[s] \in {"idle", "copy"}
    BY <1>2 DEF ReceiveBlock, ReplaceBegin, Go, CopyInv, Shapes
  <2> QED BY <1>1, <2>1, <2>2, ReadUntouched
<1>3. ASSUME NEW r \in Readers, Replacing(r)
      PROVE  ReadInv'
  <2>1. UNCHANGED <<read, answer>>
    BY <1>3 DEF Replacing, ReplaceCopy, ReplaceEnd, mineVars
  <2>2. \A s \in Readers : pc'[s] = pc[s] \/ pc'[s] \in {"idle", "copy"}
    BY <1>3 DEF Replacing, ReplaceCopy, ReplaceEnd, Go, CopyInv, Shapes
  <2> QED BY <1>1, <2>1, <2>2, ReadUntouched
<1>4. ASSUME NEW r \in Readers, AnswerBegin(r)
      PROVE  ReadInv'
  <2>1. AnswerOf([NoAnswer EXCEPT !.length = length], "first")
    BY <1>1, EmptyAnswer
  <2> QED BY <1>4, <2>1, AnswerGoesOn DEF AnswerBegin, Go, chainVars, mineVars
<1>5. ASSUME NEW r \in Readers, AnswerFirst(r)
      PROVE  ReadInv'
  <2> DEFINE txs == blocks[Len(answer[r].blocks) + 1].transactions
             a == [answer[r] EXCEPT !.first = txs]
  <2>1. AnswerOf(answer[r], "first") /\ Len(answer[r].blocks) < length
    BY <1>5 DEF AnswerFirst, ReadInv
  <2>2. a = [length |-> answer[r].length, blocks |-> answer[r].blocks, first |-> txs]
    BY <2>1 DEF AnswerOf
  <2>3. AnswerOf(a, "rest")
    BY <2>1, <2>2 DEF AnswerOf
  <2>4. answer' = [answer EXCEPT ![r] = a] /\ pc' = [pc EXCEPT ![r] = "rest"]
    BY <1>5 DEF AnswerFirst, Go, ReadInv
  <2>5. length' = length /\ read' = read
    BY <1>5 DEF AnswerFirst, chainVars, mineVars
  <2> HIDE DEF a
  <2> QED BY <2>3, <2>4, <2>5, AnswerGoesOn
<1>6. ASSUME NEW r \in Readers, AnswerRest(r)
      PROVE  ReadInv'
  <2> DEFINE old == answer[r].blocks
             b == WithFirst(blocks[Len(old) + 1], answer[r].first)
             a == [length |-> answer[r].length, blocks |-> Append(old, b), first |-> << >>]
  <2>1. AnswerOf(answer[r], "rest")
    BY <1>6 DEF AnswerRest, ReadInv
  <2>2. /\ Append(old, b) \in Seq(Range(Append(old, b)))
        /\ Len(Append(old, b)) = Len(old) + 1
    <3> HIDE DEF b
    <3> QED BY <2>1, AppendChain DEF AnswerOf
  <2>3. Len(old) \in Nat /\ Len(old) < length
    BY <2>1, LenProperties DEF AnswerOf
  <2>4. AnswerOf(a, "first")
    <3> HIDE DEF b, old
    <3> QED BY <1>1, <2>1, <2>2, <2>3 DEF AnswerOf
  <2>5. answer' = [answer EXCEPT ![r] = a] /\ pc' = [pc EXCEPT ![r] = "first"]
    <3>1. pc' = [pc EXCEPT ![r] = "first"]
      BY <1>6 DEF AnswerRest, Go
    <3>2. answer[r] = [length |-> answer[r].length, blocks |-> old, first |-> answer[r].first]
      BY <2>1 DEF AnswerOf
    <3>3. answer' = [answer EXCEPT ![r].blocks = Append(old, b), ![r].first = << >>]
      BY <1>6 DEF AnswerRest, ReadInv
    <3>4. answer = [s \in Readers |-> answer[s]]
      BY DEF ReadInv
    <3> HIDE DEF b
    <3> QED BY <3>1, <3>2, <3>3, <3>4, NextBlock
  <2>6. length' = length /\ read' = read
    BY <1>6 DEF AnswerRest, chainVars, mineVars
  <2> HIDE DEF a
  <2> QED BY <2>4, <2>5, <2>6, AnswerGoesOn
<1>7. ASSUME NEW r \in Readers, AnswerEnd(r)
      PROVE  ReadInv'
  <2>1. AnswerOf(answer[r], "first") /\ Len(answer[r].blocks) >= length
    BY <1>7 DEF AnswerEnd, ReadInv
  <2>2. AnswerOf(answer[r], "reply")
    <3>1. Len(answer[r].blocks) \in Nat
      BY <2>1, LenProperties DEF AnswerOf
    <3> QED BY <1>1, <2>1, <3>1 DEF AnswerOf
  <2>3. answer' = [answer EXCEPT ![r] = answer[r]] /\ pc' = [pc EXCEPT ![r] = "reply"]
    BY <1>7 DEF AnswerEnd, Go, ReadInv
  <2>4. length' = length /\ read' = read
    BY <1>7 DEF AnswerEnd, chainVars, mineVars
  <2> QED BY <2>2, <2>3, <2>4, AnswerGoesOn
<1>8. ASSUME NEW r \in Readers, Reply(r)
      PROVE  ReadInv'
  <2>1. AnswerOf(NoAnswer, "idle")
    BY <1>1, EmptyAnswer
  <2> QED BY <1>8, <2>1, AnswerGoesOn DEF Reply, Go, chainVars, mineVars
<1>9. CASE (\E t \in Times : MineSnapshot(t)) \/ Mining \/ UNCHANGED vars
  <2>1. answer' = answer
    BY <1>9 DEF MineSnapshot, Mining, MineRead, MineSeal, MineAdd, vars
  <2>2. pc' = pc \/ \E point : pc' = [pc EXCEPT ![Main] = point]
    BY <1>9 DEF MineSnapshot, Mining, MineRead, MineSeal, MineAdd, vars, Go
  <2>3. \A s \in Readers : pc'[s] = pc[s]
    BY <2>2, ThreadAssumption DEF CopyInv, Shapes
  <2>4. CASE MineRead
    <3>1. read' = read + 1 /\ read < length /\ length' = length
      BY Zenon, <2>4 DEF MineRead, chainVars
    <3>2. read' \in 0 .. length'
      BY <1>1, <3>1 DEF ReadInv
    <3>3. \A s \in Readers : AnswerOf(answer[s], pc[s])'
      BY <2>1, <2>3, <3>1 DEF ReadInv, AnswerOf
    <3> QED BY <2>1, <3>2, <3>3 DEF ReadInv
  <2>5. CASE \E t \in Times : MineSnapshot(t)
    <3>1. read' = 0 /\ length' = length
      BY <2>5 DEF MineSnapshot, chainVars
    <3>2. read' \in 0 .. length'
      BY <1>1, <3>1
    <3>3. \A s \in Readers : AnswerOf(answer[s], pc[s])'
      BY <2>1, <2>3, <3>1 DEF ReadInv, AnswerOf
    <3> QED BY <2>1, <3>2, <3>3 DEF ReadInv
  <2>6. CASE (\E take \in BOOLEAN : MineSeal(take)) \/ MineAdd \/ UNCHANGED vars
    <3>1. read' = read
      BY <2>6 DEF MineSeal, MineAdd, vars, mineVars
    <3> QED BY <1>1, <2>1, <2>3, <3>1, ReadUntouched
  <2> QED BY <1>9, <2>4, <2>5, <2>6 DEF Mining
<1> QED
  BY <1>2, <1>3, <1>4, <1>5, <1>6, <1>7, <1>8, <1>9 DEF Next, Answering

\* The indices that run beside a moving length without the mutex
\* (chain_get_balance, chain.c; protocol_serialize_chain, protocol.c) stay within
\* the array of MAX_BLOCKS blocks, and so does what chain_replace copies.
THEOREM TypeCorrect == Spec => []TypeOK
<1> DEFINE Inv == CopyInv /\ ReadInv
<1>1. Init => Inv
  BY CopyInvInit, ReadInvInit
<1>2. Inv /\ [Next]_vars => Inv'
  BY CopyInvStep, ReadInvStep
<1>3. Inv => TypeOK
  <2> SUFFICES ASSUME Inv PROVE TypeOK
    OBVIOUS
  <2>1. length \in Nat /\ MAX_BLOCKS \in Nat /\ length <= MAX_BLOCKS
    BY CapacityAssumption DEF CopyInv, Shapes
  <2>2. ASSUME NEW r \in Readers PROVE Len(answer[r].blocks) <= MAX_BLOCKS
    <3>1. Len(answer[r].blocks) \in Nat /\ Len(answer[r].blocks) <= length
      BY LenProperties DEF ReadInv, AnswerOf
    <3> QED BY <2>1, <3>1
  <2>3. read \in 0 .. MAX_BLOCKS
    BY <2>1 DEF ReadInv
  <2> QED BY <2>2, <2>3 DEF TypeOK, CopyInv, Shapes, Points
<1> HIDE DEF Inv
<1> QED BY <1>1, <1>2, <1>3, PTL DEF Spec

-----------------------------------------------------------------------------
(* A response is never spliced *)

\* A block with the hash and the link of one that stands in this slot in some chain.
Found(b, i) ==
    \E c \in built : i <= Len(c) /\ b.hash = c[i].hash /\ b.prev_hash = c[i].prev_hash

FoundInv ==
    \A r \in Readers : \A i \in 1 .. Len(answer[r].blocks) : Found(answer[r].blocks[i], i)

\* Reading the first transaction earlier than the rest leaves hash and link alone.
LEMMA WithFirstLinks ==
    ASSUME NEW b, BlockOf(KnownTxs, b), NEW txs
    PROVE  WithFirst(b, txs).hash = b.hash /\ WithFirst(b, txs).prev_hash = b.prev_hash
<1>1. \A x : [b EXCEPT !.transactions = x].hash = b.hash
             /\ [b EXCEPT !.transactions = x].prev_hash = b.prev_hash
  BY DEF BlockOf
<1> QED BY <1>1 DEF WithFirst

\* Every step keeps FoundInv: what was read is in the tree and stays there.
LEMMA FoundInvStep ==
    ASSUME CopyInv, ReadInv, ChainInv, built \subseteq built', FoundInv, [Next]_vars
    PROVE  FoundInv'
<1>1. ASSUME NEW r \in Readers,
             \A s \in Readers \ {r} : answer'[s] = answer[s],
             \A i \in 1 .. Len(answer'[r].blocks) : Found(answer'[r].blocks[i], i)
      PROVE  FoundInv'
  <2>1. \A s \in Readers : \A i \in 1 .. Len(answer'[s].blocks) : Found(answer'[s].blocks[i], i)
    BY <1>1 DEF FoundInv
  <2> QED BY <2>1 DEF FoundInv, Found
<1>2. CASE answer' = answer
  BY <1>2 DEF FoundInv, Found
<1>3. ASSUME NEW r \in Readers, AnswerBegin(r) \/ Reply(r)
      PROVE  FoundInv'
  <2>1. /\ answer'[r].blocks = << >>
        /\ \A s \in Readers \ {r} : answer'[s] = answer[s]
    <3>1. NoAnswer.blocks = << >> /\ [NoAnswer EXCEPT !.length = length].blocks = << >>
      BY DEF NoAnswer
    <3>2. answer = [s \in Readers |-> answer[s]]
      BY DEF ReadInv
    <3>3. \/ answer' = [answer EXCEPT ![r] = [NoAnswer EXCEPT !.length = length]]
          \/ answer' = [answer EXCEPT ![r] = NoAnswer]
      BY <1>3 DEF AnswerBegin, Reply
    <3> HIDE DEF NoAnswer
    <3> QED BY <3>1, <3>2, <3>3
  <2>2. Len(<< >>) = 0
    OBVIOUS
  <2> QED BY <1>1, <2>1, <2>2
<1>4. ASSUME NEW r \in Readers, AnswerFirst(r)
      PROVE  FoundInv'
  <2> DEFINE txs == blocks[Len(answer[r].blocks) + 1].transactions
  <2>1. answer' = [answer EXCEPT ![r] = [answer[r] EXCEPT !.first = txs]]
    BY <1>4 DEF AnswerFirst, ReadInv
  <2>2. [answer[r] EXCEPT !.first = txs].blocks = answer[r].blocks
    <3>1. answer[r] = [length |-> answer[r].length, blocks |-> answer[r].blocks,
                       first |-> answer[r].first]
      BY DEF ReadInv, AnswerOf
    <3> HIDE DEF txs
    <3> QED BY <3>1
  <2>3. answer = [s \in Readers |-> answer[s]]
    BY DEF ReadInv
  <2>4. /\ answer'[r].blocks = answer[r].blocks
        /\ \A s \in Readers \ {r} : answer'[s] = answer[s]
    <3> HIDE DEF txs
    <3> QED BY <2>1, <2>2, <2>3
  <2> QED BY <1>1, <2>4 DEF FoundInv
<1>5. ASSUME NEW r \in Readers, AnswerRest(r)
      PROVE  FoundInv'
  <2> DEFINE old == answer[r].blocks
             k == Len(old) + 1
             b == WithFirst(blocks[k], answer[r].first)
  <2>1. AnswerOf(answer[r], "rest")
    BY <1>5 DEF AnswerRest, ReadInv
  <2>2. /\ answer'[r].blocks = Append(old, b)
        /\ \A s \in Readers \ {r} : answer'[s] = answer[s]
    <3>1. answer' = [answer EXCEPT ![r].blocks = Append(old, b), ![r].first = << >>]
      BY <1>5 DEF AnswerRest, ReadInv
    <3>2. /\ answer = [s \in Readers |-> answer[s]]
          /\ answer[r] = [length |-> answer[r].length, blocks |-> old, first |-> answer[r].first]
      BY <2>1 DEF ReadInv, AnswerOf
    <3>3. answer' = [answer EXCEPT ![r] = [length |-> answer[r].length,
                                           blocks |-> Append(old, b), first |-> << >>]]
      <4> HIDE DEF b
      <4> QED BY <3>1, <3>2, NextBlock
    <3> HIDE DEF b
    <3> QED BY <3>2, <3>3
  <2>3. /\ old \in Seq(Range(old)) /\ Len(old) \in Nat /\ Len(old) < length /\ length \in Nat
    BY <2>1, LenProperties, CapacityAssumption DEF AnswerOf, CopyInv, Shapes
  <2>4. /\ Len(Append(old, b)) = k /\ Append(old, b)[k] = b
        /\ \A i \in 1 .. Len(old) : Append(old, b)[i] = old[i]
    <3> HIDE DEF b
    <3>1. Len(Append(old, b)) = k /\ Last(Append(old, b)) = b
          /\ \A i \in 1 .. Len(old) : Append(old, b)[i] = old[i]
      BY <2>3, AppendChain
    <3> QED BY <3>1 DEF Last
  <2>5. Found(b, k)
    <3>1. k \in 1 .. length
      BY <2>3
    <3>2. PICK c \in built : k <= Len(c) /\ blocks[k] = c[k]
      BY <3>1 DEF ChainInv, ArrayInv, Placed
    <3>3. BlockOf(KnownTxs, c[k])
      <4>1. k \in 1 .. Len(c)
        BY <3>1, <3>2, TreeChain DEF ChainInv, Tree
      <4> QED BY <4>1, TreeChain DEF ChainInv, Tree
    <3>4. b.hash = c[k].hash /\ b.prev_hash = c[k].prev_hash
      BY <3>2, <3>3, WithFirstLinks
    <3> QED BY <3>2, <3>4 DEF Found
  <2>6. ASSUME NEW i \in 1 .. k PROVE Found(Append(old, b)[i], i)
    <3>1. CASE i = k
      BY <2>4, <2>5, <3>1
    <3>2. CASE i # k
      <4>1. i \in 1 .. Len(old)
        BY <2>3, <3>2
      <4> QED BY <2>4, <4>1 DEF FoundInv
    <3> QED BY <3>1, <3>2
  <2> HIDE DEF b, old, k
  <2> QED BY <1>1, <2>2, <2>4, <2>6
<1>6. CASE \/ \E r \in Readers : \/ \E c \in Offers : ReceiveBlock(r, Last(c)) \/ ReplaceBegin(r, c)
                                 \/ Replacing(r) \/ AnswerEnd(r)
           \/ \E t \in Times : MineSnapshot(t)
           \/ Mining \/ UNCHANGED vars
  <2>1. answer' = answer
    BY <1>6 DEF ReceiveBlock, ReplaceBegin, Replacing, ReplaceCopy, ReplaceEnd, AnswerEnd,
                MineSnapshot, Mining, MineRead, MineSeal, MineAdd, vars
  <2> QED BY <1>2, <2>1
<1> QED BY <1>3, <1>4, <1>5, <1>6 DEF Next, Answering

\* What the peer parses has the blocks of the answer, and at least one.
LEMMA ParsedBlocks ==
    ASSUME NEW a, AnswerOf(a, "reply")
    PROVE  /\ Len(Parsed(a)) \in Nat \ {0} /\ DOMAIN Parsed(a) = 1 .. Len(Parsed(a))
           /\ Len(Parsed(a)) <= Len(a.blocks)
           /\ \A i \in 1 .. Len(Parsed(a)) : Parsed(a)[i] = a.blocks[i]
<1> DEFINE k == Min({a.length, Len(a.blocks)})
<1>1. a.blocks \in Seq(Range(a.blocks)) /\ Len(a.blocks) \in Nat \ {0} /\ a.length \in Nat \ {0}
  BY LenProperties DEF AnswerOf
<1>2. k \in Nat \ {0} /\ k <= Len(a.blocks)
  <2> DEFINE N == {a.length, Len(a.blocks)}
  <2>1. N \subseteq Nat /\ N # {}
    BY <1>1
  <2>2. Min(N) \in N /\ \A y \in N : Min(N) <= y
    <3> HIDE DEF N
    <3> QED BY <2>1, MinProperties
  <2> QED BY <1>1, <2>2
<1>3. /\ SubSeq(a.blocks, 1, k) \in Seq(Range(a.blocks)) /\ Len(SubSeq(a.blocks, 1, k)) = k
      /\ \A i \in 1 .. k : SubSeq(a.blocks, 1, k)[i] = a.blocks[i]
  <2> HIDE DEF k
  <2> QED BY <1>1, <1>2, InitialSegment
<1>4. DOMAIN SubSeq(a.blocks, 1, k) = 1 .. k
  <2> HIDE DEF k
  <2> QED BY <1>3, LenProperties
<1> HIDE DEF k
<1> QED BY <1>2, <1>3, <1>4 DEF Parsed, k

\* protocol_serialize_chain (protocol.c) reads the array without the mutex while
\* chain_replace copies over it: what the peer's chain_validate accepts still has the
\* hashes of one chain of the tree, for every block's link names all that is below.
THEOREM ResponseNotSpliced == NoHashCollision => (Spec => []AnswerNotSpliced)
<1> SUFFICES ASSUME NoHashCollision PROVE Spec => []AnswerNotSpliced
  OBVIOUS
<1> DEFINE Inv == CopyInv /\ ReadInv /\ ChainInv /\ FoundInv
<1>1. Init => Inv
  <2>1. ASSUME Init PROVE FoundInv
    <3>1. \A r \in Readers : answer[r].blocks = << >>
      BY <2>1 DEF Init, NoAnswer
    <3>2. Len(<< >>) = 0
      OBVIOUS
    <3> QED BY <3>1, <3>2 DEF FoundInv
  <2> QED BY <2>1, CopyInvInit, ReadInvInit, ChainInvInit
<1>2. Inv /\ [Next]_vars => Inv'
  BY CopyInvStep, ReadInvStep, ChainInvStep, FoundInvStep
<1>3. Inv => AnswerNotSpliced
  <2> SUFFICES ASSUME Inv, NEW r \in Readers, pc[r] = "reply",
                      ChainValidate(Parsed(answer[r]))
               PROVE  \E c \in built : Hashes(c) = Hashes(Parsed(answer[r]))
    BY DEF AnswerNotSpliced
  <2> DEFINE p == Parsed(answer[r])
  <2>1. /\ Len(p) \in Nat \ {0} /\ DOMAIN p = 1 .. Len(p) /\ Len(p) <= Len(answer[r].blocks)
        /\ \A i \in 1 .. Len(p) : p[i] = answer[r].blocks[i]
    BY ParsedBlocks DEF ReadInv
  <2>2. Len(answer[r].blocks) \in Nat
    BY LenProperties DEF ReadInv, AnswerOf
  <2>3. \A i \in 1 .. Len(p) : \E c \in built :
            i <= Len(c) /\ p[i].hash = c[i].hash /\ p[i].prev_hash = c[i].prev_hash
    <3> HIDE DEF p
    <3> QED BY <2>1, <2>2 DEF FoundInv, Found
  <2>4. \A i \in 2 .. Len(p) : p[i].prev_hash = p[i - 1].hash
    BY DEF ChainValidate
  <2>5. TreeOf(KnownTxs, built) /\ CollisionFree(KnownTxs)
    BY DEF ChainInv, Tree, NoHashCollision
  <2>6. \E c \in built : Len(c) = Len(p) /\ \A i \in 1 .. Len(p) : c[i].hash = p[i].hash
    <3> HIDE DEF p
    <3> QED BY <2>1, <2>3, <2>4, <2>5, LinkedHashes
  <2>7. PICK c \in built : Len(c) = Len(p) /\ \A i \in 1 .. Len(p) : c[i].hash = p[i].hash
    BY <2>6
  <2>8. DOMAIN c = DOMAIN p
    <3>1. DOMAIN c = 1 .. Len(c)
      BY <2>5, TreeChain, LenProperties
    <3> QED BY <2>1, <2>7, <3>1
  <2>9. Hashes(c) = Hashes(p)
    <3> HIDE DEF p
    <3> QED BY <2>1, <2>7, <2>8 DEF Hashes
  <2> QED BY <2>9
<1> HIDE DEF Inv
<1> QED BY <1>1, <1>2, <1>3, PTL DEF Spec
=============================================================================
