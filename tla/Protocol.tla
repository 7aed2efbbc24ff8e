------------------------------ MODULE Protocol ------------------------------
(***************************************************************************)
(* The text of the messages (protocol.c), and two nodes that exchange it:  *)
(* a payer, whose user types the addresses of the receivers, and a peer.   *)
(* do_send takes any text without blanks for an address, also one with     *)
(* quotes, backslashes and braces; the parser of the peer is not a JSON    *)
(* parser, but looks for keys and counts braces.                           *)
(*                                                                         *)
(* A C string is a sequence of tokens: single characters where the parser  *)
(* looks at them, and one token for a key with its quotes and colon, for   *)
(* the digits of a number, and for a word (an address of a wallet, a       *)
(* digest, a signature).  Typed text never has a key in it: its quotes are *)
(* escaped, so none stands where a key has one.  No text is longer than    *)
(* the arrays it is copied to: an address has at most 64 characters and    *)
(* twice as many when escaped.                                             *)
(***************************************************************************)
EXTENDS Ledger

CONSTANTS
    Payer,          \* the address of the payer's wallet, a string
    Receivers,      \* what the user may type as the receiver, strings
    Amount, Fee,    \* of every payment
    MaxPayments     \* bound: payments made

VARIABLES
    chain,      \* the payer's chain
    mempool,    \* the payer's mempool
    paid,       \* the payments made so far
    copy,       \* the peer's chain
    pool,       \* the payments in the peer's mempool
    wire        \* the line under way and, as history, what was serialized

vars == <<chain, mempool, paid, copy, pool, wire>>

Char(c) == <<"char", c>>
Word(w) == <<"word", w>>
Key(k) == <<"key", k>>
Number(n) == <<"number", n>>

Open == Char("{")
Close == Char("}")
OpenList == Char("[")
CloseList == Char("]")
Comma == Char(",")
Quote == Char("\"")
Backslash == Char("\\")
NUL == Char("NUL")

\* What is an address, or can be typed as one, is a C string, and has no key in
\* it; the address of a wallet is a word of hex digits.
ASSUME TypedAssumption ==
    \A a \in Receivers \cup {Payer, COINBASE_ADDR} :
       a \in Seq(Range(a)) /\ \A i \in DOMAIN a : a[i] # NUL /\ a[i][1] # "key"
ASSUME WalletAssumption == Payer = <<Word(Payer[1][2])>>

MSG_NEW_BLOCK == 0
MSG_NEW_TX == 1
MSG_REQUEST_CHAIN == 2
MSG_CHAIN_RESPONSE == 3

-----------------------------------------------------------------------------
(* Signatures: wallet.c.  Only the owner of an address makes signatures that *)
(* verify for it; what is signed is the tx_hash.                             *)

Signature(addr, hash) == <<Word([by |-> addr, of |-> hash])>>

\* A transaction of Ledger with its signature field, a string.
WithSignature(t, sig) ==
    [sender |-> t.sender, receiver |-> t.receiver, amount |-> t.amount,
     fee |-> t.fee, tx_hash |-> t.tx_hash, signature |-> sig]

\* wallet_sign_tx.
SignTx(addr, t) == WithSignature(t, Signature(addr, t.tx_hash))

\* wallet_verify_tx: the address is the public key.
VerifyTx(t) ==
    \/ t.sender = COINBASE_ADDR
    \/ t.signature = Signature(t.sender, t.tx_hash)

\* tx_create_coinbase writes the same word for the sender and the signature.
SignedCoinbase(miner, fees) == WithSignature(Coinbase(miner, fees), COINBASE_ADDR)

-----------------------------------------------------------------------------
(* Serializing *)

\* Mutant of JsonEscape: backslashes are copied as they are.
JsonEscapeQuotes(s) ==
    FlattenSeq([i \in 1 .. Len(s) |->
        IF s[i] = Quote THEN <<Backslash, s[i]>> ELSE <<s[i]>>])

JsonEscape(s) ==
    FlattenSeq([i \in 1 .. Len(s) |->
        IF s[i] \in {Quote, Backslash} THEN <<Backslash, s[i]>> ELSE <<s[i]>>])

Quoted(s) == <<Quote>> \o s \o <<Quote>>

\* The characters of a digest; a field that was never filled has none.
Hex(digest) == IF digest = Unset THEN << >> ELSE <<Word(digest)>>

\* Texts with commas between them, in brackets.
List(texts) ==
    <<OpenList>>
      \o FlattenSeq([i \in 1 .. Len(texts) |->
            IF i = 1 THEN texts[i] ELSE <<Comma>> \o texts[i]])
      \o <<CloseList>>

\* protocol_serialize_tx.
SerializeTx(t) ==
    <<Open, Key("sender")>> \o Quoted(JsonEscape(t.sender))
      \o <<Comma, Key("receiver")>> \o Quoted(JsonEscape(t.receiver))
      \o <<Comma, Key("amount"), Number(t.amount), Comma, Key("fee"), Number(t.fee)>>
      \o <<Comma, Key("signature")>> \o Quoted(t.signature)
      \o <<Comma, Key("tx_hash")>> \o Quoted(Hex(t.tx_hash)) \o <<Close>>

\* protocol_serialize_block.
SerializeBlock(b) ==
    <<Open, Key("index"), Number(b.index), Comma, Key("timestamp"),
      Number(b.timestamp), Comma, Key("prev_hash")>> \o Quoted(Hex(b.prev_hash))
      \o <<Comma, Key("nonce"), Number(b.nonce), Comma, Key("hash")>>
      \o Quoted(Hex(b.hash))
      \o <<Comma, Key("tx_count"), Number(Len(b.transactions)), Comma, Key("transactions")>>
      \o List([i \in DOMAIN b.transactions |-> SerializeTx(b.transactions[i])])
      \o <<Close>>

\* protocol_serialize_chain.
SerializeChain(c) ==
    <<Open, Key("length"), Number(Len(c)), Comma, Key("blocks")>>
      \o List([i \in DOMAIN c |-> SerializeBlock(c[i])]) \o <<Close>>

\* protocol_serialize_msg, without the end of the line.
SerializeMsg(type, payload) ==
    <<Open, Key("type"), Number(type), Comma, Key("payload")>> \o payload \o <<Close>>

-----------------------------------------------------------------------------
(* Looking into a text.  A position past the end holds the terminating zero. *)

At(s, p) == IF p <= Len(s) THEN s[p] ELSE NUL

\* json_find_key: where the value of the first such key begins; 0 for NULL.
FindKey(s, k) ==
    LET found == SelectInSeq(s, LAMBDA t : t = Key(k))
    IN  IF found = 0 THEN 0 ELSE found + 1

\* json_get_string succeeds.
HasString(s, k) == FindKey(s, k) # 0 /\ At(s, FindKey(s, k)) = Quote

\* What json_get_string leaves in a buffer of zeros.
GetString(s, k) ==
    LET read[p \in Nat] ==
            CASE At(s, p) \in {Quote, NUL} -> << >>
              [] At(s, p) = Backslash /\ At(s, p + 1) # NUL
                    -> <<At(s, p + 1)>> \o read[p + 2]
              [] OTHER -> <<At(s, p)>> \o read[p + 1]
    IN  IF HasString(s, k) THEN read[FindKey(s, k) + 1] ELSE << >>

\* json_get_uint64 and json_get_int; what is not a number reads as 0.
GetNumber(s, k) ==
    LET t == At(s, FindKey(s, k))
    IN  IF FindKey(s, k) # 0 /\ t[1] = "number" THEN t[2] ELSE 0

\* The digest in a field of hex digits.
GetDigest(s, k) ==
    LET digits == GetString(s, k)
    IN  IF digits = << >> THEN Unset ELSE digits[1][2]

\* Mutant of ObjectEnd: braces are not counted ("jednoúrovňový").
ObjectEndFlat(s, from) == Min({p \in from .. Len(s) : s[p] = Close} \cup {Len(s)}) + 1

\* The loop that looks for the end of the object at position from: braces are
\* counted wherever they stand, also in strings.  It returns the position after
\* the object, or after the text.
ObjectEnd(s, from) ==
    LET opens == {i \in from .. Len(s) : s[i] = Open}
        closes == {i \in from .. Len(s) : s[i] = Close}
        depth(p) == Cardinality(opens \cap (from .. p)) - Cardinality(closes \cap (from .. p))
    IN  Min({p \in closes : depth(p) <= 0} \cup {Len(s)}) + 1

\* The objects found from position p on, at most n of them; what stands
\* between two of them is skipped.
Objects(s, p, n) ==
    LET all[from \in 1 .. Len(s) + 1] ==
            LET starts == {i \in from .. Len(s) : s[i] = Open}
                end == ObjectEnd(s, Min(starts))
            IN  IF starts = {} THEN << >>
                ELSE <<SubSeq(s, Min(starts), end - 1)>> \o all[end]
    IN  SubSeq(all[p], 1, Min({n, Len(all[p])}))

-----------------------------------------------------------------------------
(* Parsing *)

\* protocol_deserialize_tx returns 0.
TxParses(s) ==
    HasString(s, "sender") /\ HasString(s, "receiver") /\ FindKey(s, "amount") # 0

\* What protocol_deserialize_tx leaves in *tx: it stops at the first of these
\* three fields that is missing, and the fields after it stay zero.
ParseTx(s) ==
    LET sender == HasString(s, "sender")
        receiver == sender /\ HasString(s, "receiver")
    IN  [sender |-> GetString(s, "sender"),
         receiver |-> IF sender THEN GetString(s, "receiver") ELSE << >>,
         amount |-> IF receiver THEN GetNumber(s, "amount") ELSE 0,
         fee |-> IF TxParses(s) THEN GetNumber(s, "fee") ELSE 0,
         signature |-> IF TxParses(s) THEN GetString(s, "signature") ELSE << >>,
         tx_hash |-> IF TxParses(s) THEN GetDigest(s, "tx_hash") ELSE Unset]

\* The elements of the array at position p of s, at most n.
Elements(s, p, n) == IF p # 0 /\ At(s, p) = OpenList THEN Objects(s, p + 1, n) ELSE << >>

\* protocol_deserialize_block returns 0.
BlockParses(s) ==
    /\ \A k \in {"index", "timestamp", "nonce", "tx_count"} : FindKey(s, k) # 0
    /\ HasString(s, "prev_hash") /\ HasString(s, "hash")

\* The block it fills in: tx_count slots, of which those without an object stay
\* zero; whether an object was a transaction is not asked.
ParseBlock(s) ==
    LET count == GetNumber(s, "tx_count")
        limit == IF count < MAX_TX_PER_BLOCK THEN count ELSE MAX_TX_PER_BLOCK
        objects == Elements(s, FindKey(s, "transactions"), limit)
    IN  [index |-> GetNumber(s, "index"), timestamp |-> GetNumber(s, "timestamp"),
         transactions |-> [i \in 1 .. count |->
            ParseTx(IF i <= Len(objects) THEN objects[i] ELSE << >>)],
         prev_hash |-> GetDigest(s, "prev_hash"), nonce |-> GetNumber(s, "nonce"),
         hash |-> GetDigest(s, "hash")]

BlockTexts(s) == Elements(s, FindKey(s, "blocks"), GetNumber(s, "length"))

\* protocol_deserialize_chain returns 0: every block text that was found must
\* parse, though there may be fewer of them than announced.
ChainParses(s) ==
    /\ GetNumber(s, "length") \in 1 .. MAX_BLOCKS
    /\ FindKey(s, "blocks") # 0 /\ At(s, FindKey(s, "blocks")) = OpenList
    /\ \A i \in DOMAIN BlockTexts(s) : BlockParses(BlockTexts(s)[i])

ParseChain(s) == [i \in DOMAIN BlockTexts(s) |-> ParseBlock(BlockTexts(s)[i])]

\* The payload in protocol_parse_msg: braces and brackets are counted outside
\* strings; a quote after a backslash does not begin or end a string, also when
\* that backslash is an escaped one.  A key begins and ends one.
ParsePayload(line) ==
    LET start == FindKey(line, "payload")
        places == start .. Len(line)
        quotes == {p \in places : line[p] = Quote /\ (p = start \/ line[p - 1] # Backslash)}
        outside == {p \in places \ quotes : Cardinality(quotes \cap (start .. p)) % 2 = 0}
        opens == {p \in outside : line[p] \in {Open, OpenList}}
        closes == {p \in outside : line[p] \in {Close, CloseList}}
        depth(p) == Cardinality(opens \cap (start .. p)) - Cardinality(closes \cap (start .. p))
        end == Min({p \in closes : depth(p) <= 0} \cup {Len(line)})
    IN  IF start = 0 THEN << >> ELSE SubSeq(line, start, end)

-----------------------------------------------------------------------------
(* The messages, as values, and their lines *)

NewBlock(b)      == [type |-> MSG_NEW_BLOCK, block |-> b]
NewTx(t)         == [type |-> MSG_NEW_TX, tx |-> t]
RequestChain     == [type |-> MSG_REQUEST_CHAIN]
ChainResponse(c) == [type |-> MSG_CHAIN_RESPONSE, chain |-> c]
Nothing          == [type |-> -1]

Payload(msg) ==
    CASE msg.type = MSG_NEW_BLOCK -> SerializeBlock(msg.block)
      [] msg.type = MSG_NEW_TX -> SerializeTx(msg.tx)
      [] msg.type = MSG_REQUEST_CHAIN -> <<Open, Close>>
      [] msg.type = MSG_CHAIN_RESPONSE -> SerializeChain(msg.chain)

OnWire(msg) == [line |-> SerializeMsg(msg.type, Payload(msg)), means |-> msg]
Quiet == [line |-> << >>, means |-> Nothing]

\* The first block, with the payer's reward.
Reward ==
    BlockMine([index |-> 1, timestamp |-> Min(Times),
               transactions |-> <<SignedCoinbase(Payer, 0)>>,
               prev_hash |-> Genesis.hash, nonce |-> 0, hash |-> Unset])

\* A line is sent; nobody hears it as long as the peer is not connected.
Broadcast(msg) == wire' = OnWire(msg) \/ wire' = Quiet

\* The payer has mined a block before the two nodes meet.
Init ==
    /\ chain = <<Genesis, Reward>>
    /\ mempool = << >>
    /\ paid = 0
    /\ copy = ChainInit
    /\ pool = {}
    /\ wire = Quiet

\* do_send: the payment is signed, pooled and broadcast.
Pay(receiver) ==
    /\ wire = Quiet
    /\ paid < MaxPayments
    /\ LET t == SignTx(Payer, TxCreate(Payer, receiver, Amount, Fee)) IN
         /\ CanAfford(chain, t)
         /\ mempool' = Append(mempool, t)
         /\ Broadcast(NewTx(t))
    /\ paid' = paid + 1
    /\ UNCHANGED <<chain, copy, pool>>

\* The loop of do_mine over the mempool; what cannot be afforded takes no room
\* in the block.
Collected ==
    FoldLeft(LAMBDA kept, t :
                IF Len(kept) < MAX_TX_PER_BLOCK - 1 /\ CanAfford(chain, t)
                THEN Append(kept, t) ELSE kept,
             << >>, mempool)

\* do_mine: a block with what was collected is added and broadcast.
Mine(time) ==
    /\ wire = Quiet
    /\ LET taken == Collected
           fees == FoldLeft(LAMBDA sum, t : sum + t.fee, 0, taken)
           b == BlockMine([index |-> Last(chain).index + 1, timestamp |-> time,
                           transactions |-> <<SignedCoinbase(Payer, fees)>> \o taken,
                           prev_hash |-> Last(chain).hash, nonce |-> 0, hash |-> Unset])
       IN  /\ AddBlockAccepts(chain, b)
           /\ chain' = Append(chain, b)
           /\ Broadcast(NewBlock(b))
    /\ mempool' = << >>
    /\ UNCHANGED <<paid, copy, pool>>

\* The peer connects and asks for the chain.
Ask ==
    /\ wire = Quiet
    /\ wire' = OnWire(RequestChain)
    /\ UNCHANGED <<chain, mempool, paid, copy, pool>>

\* A line is read; protocol_parse_msg takes its type and its payload.
Reading(type) == wire # Quiet /\ GetNumber(wire.line, "type") = type

\* handle_message, case MSG_NEW_BLOCK.
HandleNewBlock ==
    /\ Reading(MSG_NEW_BLOCK)
    /\ LET payload == ParsePayload(wire.line)
       IN  copy' = IF BlockParses(payload) THEN AddBlock(copy, ParseBlock(payload)) ELSE copy
    /\ wire' = Quiet
    /\ UNCHANGED <<chain, mempool, paid, pool>>

\* handle_message, case MSG_NEW_TX, with on_new_tx.
HandleNewTx ==
    /\ Reading(MSG_NEW_TX)
    /\ LET payload == ParsePayload(wire.line)
       IN  pool' = IF TxParses(payload) THEN pool \cup {ParseTx(payload)} ELSE pool
    /\ wire' = Quiet
    /\ UNCHANGED <<chain, mempool, paid, copy>>

\* handle_message, case MSG_REQUEST_CHAIN, at the payer.
HandleRequest ==
    /\ Reading(MSG_REQUEST_CHAIN)
    /\ wire' = OnWire(ChainResponse(chain))
    /\ UNCHANGED <<chain, mempool, paid, copy, pool>>

\* handle_message, case MSG_CHAIN_RESPONSE.
HandleChain ==
    /\ Reading(MSG_CHAIN_RESPONSE)
    /\ LET payload == ParsePayload(wire.line)
       IN  copy' = IF ChainParses(payload) THEN ChainReplace(copy, ParseChain(payload)) ELSE copy
    /\ wire' = Quiet
    /\ UNCHANGED <<chain, mempool, paid, pool>>

Next ==
    \/ \E r \in Receivers : Pay(r)
    \/ \E t \in Times : Mine(t)
    \/ Ask
    \/ HandleNewBlock \/ HandleNewTx \/ HandleRequest \/ HandleChain

Spec == Init /\ [][Next]_vars
-----------------------------------------------------------------------------
(* Properties *)

\* A block in what its hash covers: of its transactions only their tx_hash.
Covered(b) == [b EXCEPT !.transactions = [i \in DOMAIN @ |-> @[i].tx_hash]]

\* Whatever has been typed as a receiver, and however the brace counting cuts
\* the texts of the blocks that carry it, the peer's chain is a beginning of
\* the payer's in all that the hashes cover: a block that lost a transaction,
\* or was put behind the wrong one, never passes chain_add_block or
\* chain_replace.  The rest of a transaction is not covered: when braces are
\* typed, a payment may be taken over with a wrong sender or receiver.
CopyGenuine ==
    IsPrefix([i \in DOMAIN copy |-> Covered(copy[i])],
             [i \in DOMAIN chain |-> Covered(chain[i])])

\* In this step a line with a message of this type has been handled.
Handled(type) == wire.means.type = type /\ wire' # wire

\* What is typed as a receiver comes out of the escaping, the scan for the
\* payload and the unescaping as it was typed: a payment that is broadcast
\* reaches the mempool of the peer whole, and its signature would verify there.
TxArrives ==
    [][Handled(MSG_NEW_TX) => /\ pool' = pool \cup {wire.means.tx}
                              /\ \A t \in pool' : VerifyTx(t)]_vars

ReceiversIn(msg) ==
    LET typed(b) == {b.transactions[i].receiver : i \in DOMAIN b.transactions}
    IN  CASE msg.type = MSG_NEW_BLOCK -> typed(msg.block)
          [] msg.type = MSG_NEW_TX -> {msg.tx.receiver}
          [] msg.type = MSG_CHAIN_RESPONSE -> UNION {typed(msg.chain[i]) : i \in DOMAIN msg.chain}
          [] OTHER -> {}

Plain(s) == \A i \in DOMAIN s : s[i] \notin {Open, Close, OpenList, CloseList}

\* As long as no receiver has a brace or a bracket in it, quotes and
\* backslashes or not, handling a line does what handling the serialized block,
\* payment or chain itself would do: none is refused because of its text.
LineMeansMessage ==
    [][LET msg == wire.means IN
       (\A r \in ReceiversIn(msg) : Plain(r)) =>
         /\ Handled(MSG_NEW_BLOCK) => copy' = AddBlock(copy, msg.block)
         /\ Handled(MSG_CHAIN_RESPONSE) => copy' = ChainReplace(copy, msg.chain)
         /\ Handled(MSG_NEW_TX) => pool' = pool \cup {msg.tx}]_vars
=============================================================================
