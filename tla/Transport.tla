------------------------------ MODULE Transport ------------------------------
(***************************************************************************)
(* One connection between two nodes, and the threads at its ends that send *)
(* on it (net.c): with no common lock, through sockets of limited room,    *)
(* where send waits while there is none.  The connection has just been     *)
(* made and registered by both nodes: each asks for the chain and greets   *)
(* the other with its mempool, while other threads broadcast.              *)
(*                                                                         *)
(* What a message says is abstracted to its kind, its length to a few      *)
(* units, of which the last carries the newline.  Contents and handling    *)
(* are the subjects of Protocol.tla and MiniCoin.tla.                      *)
(***************************************************************************)
EXTENDS Integers, Sequences, SequencesExt, FiniteSetsExt

CONSTANTS
    Dialer, Listener,   \* the node that connects, and the one that accepts
    Room,           \* Room[n]: units that sockets hold on the way to node n
    ChainUnits,     \* ChainUnits[n]: length of the message with n's chain
    BlockUnits,     \* length of a message with a block
    LineUnits,      \* MAX_MSG_SIZE: units after which a line is cut
    MEMPOOL_SIZE,   \* capacity of the mempool
    Pooled,         \* Pooled[n]: transactions in n's mempool to begin with
    MaxBroadcasts   \* bound: MaxBroadcasts[n] broadcasts by node n

Nodes == {Dialer, Listener}

ASSUME TransportAssumption ==
    /\ Dialer # Listener
    /\ Room \in [Nodes -> Nat \ {0}] /\ ChainUnits \in [Nodes -> Nat \ {0}]
    /\ {BlockUnits, LineUnits} \subseteq Nat \ {0}
    /\ MEMPOOL_SIZE \in Nat /\ MaxBroadcasts \in [Nodes -> Nat]
    /\ Pooled \in [Nodes -> 0 .. MEMPOOL_SIZE]

\* The adder runs add_peer: the main thread of the dialer, the accept thread of
\* the listener.  The reader is the peer_handler of this connection.  The other
\* stands for the threads that broadcast: readers of other connections, and the
\* main thread.
Threads == {"adder", "other", "reader"}

VARIABLES
    pc,             \* pc[n][t]: where thread t of node n is
    out,            \* out[n][t]: what it has still to send before it goes on
    wire,           \* wire[n]: the units on their way to node n
    line,           \* line[n]: what read_message of n has read so far
    peers_lock,     \* peers_lock[n]: the thread that holds it, or "nobody"
    mempool_lock,
    mempool_count,
    broadcasts,     \* broadcasts[n]: broadcasts made so far
    mixed,          \* history: nodes that were sent a message inside another
    lost,           \* history: lost[n]: kinds of messages that n did not read whole
    heard           \* history: nodes that have read a chain response whole

vars == <<pc, out, wire, line, peers_lock, mempool_lock, mempool_count,
          broadcasts, mixed, lost, heard>>

Other(n) == IF n = Dialer THEN Listener ELSE Dialer

Kinds == {"NEW_BLOCK", "NEW_TX", "REQUEST_CHAIN", "CHAIN_RESPONSE"}
Units(n, kind) ==
    CASE kind = "NEW_BLOCK" -> BlockUnits
      [] kind = "CHAIN_RESPONSE" -> ChainUnits[n]
      [] OTHER -> 1

\* A message of node n, sent under peers_lock or not.
Message(n, kind, locked) ==
    [i \in 1 .. Units(n, kind) |->
        [kind |-> kind, locked |-> locked, part |-> i, last |-> i = Units(n, kind)]]

UnitType ==
    [kind : Kinds, locked : BOOLEAN,
     part : 1 .. Max({1, BlockUnits} \cup {ChainUnits[n] : n \in Nodes}), last : BOOLEAN]

TypeOK ==
    /\ pc \in [Nodes -> [Threads -> {"ask", "greet", "ask_again", "free", "broadcast",
                                     "done", "read", "answer", "enqueue", "relay"}]]
    /\ \A n \in Nodes : \A t \in Threads : out[n][t] \in Seq(UnitType)
    /\ \A n \in Nodes : wire[n] \in Seq(UnitType) /\ Len(wire[n]) <= Room[n]
    /\ \A n \in Nodes : line[n] \in Seq(UnitType) /\ Len(line[n]) < LineUnits
    /\ {peers_lock, mempool_lock} \subseteq [Nodes -> Threads \cup {"nobody"}]
    /\ mempool_count \in [Nodes -> 0 .. MEMPOOL_SIZE]
    /\ \A n \in Nodes : broadcasts[n] \in 0 .. MaxBroadcasts[n]
    /\ mixed \subseteq Nodes /\ heard \subseteq Nodes
    /\ lost \in [Nodes -> SUBSET Kinds]

Init ==
    /\ pc = [n \in Nodes |-> [adder |-> "ask", other |-> "free", reader |-> "read"]]
    /\ out = [n \in Nodes |-> [t \in Threads |-> << >>]]
    /\ wire = [n \in Nodes |-> << >>]
    /\ line = [n \in Nodes |-> << >>]
    /\ peers_lock = [n \in Nodes |-> "nobody"]
    /\ mempool_lock = [n \in Nodes |-> "nobody"]
    /\ mempool_count = Pooled
    /\ broadcasts = [n \in Nodes |-> 0]
    /\ mixed = {} /\ heard = {}
    /\ lost = [n \in Nodes |-> {}]

-----------------------------------------------------------------------------
(* What threads send *)

At(n, t, point) == pc[n][t] = point /\ out[n][t] = << >>
To(n, t, point) == pc' = [pc EXCEPT ![n][t] = point]

\* send_message has returned for all of it: the locks are given back.
AfterSend(n, point) ==
    CASE point = "ask" -> "greet"
      [] point = "greet" -> IF n = Dialer THEN "ask_again" ELSE "done"
      [] point \in {"ask_again", "broadcast"} -> "free"
      [] point = "answer" -> "read"

Free(locks, n, t) == IF locks[n] = t THEN [locks EXCEPT ![n] = "nobody"] ELSE locks

\* node_request_chain, by add_peer and by node_connect_peer once more.
RequestChain(n) ==
    /\ At(n, "adder", "ask") \/ At(n, "adder", "ask_again")
    /\ out' = [out EXCEPT ![n]["adder"] = Message(n, "REQUEST_CHAIN", FALSE)]
    /\ UNCHANGED <<pc, wire, line, peers_lock, mempool_lock, mempool_count,
                   broadcasts, mixed, lost, heard>>

\* on_peer_connected: the mempool is sent under mempool_lock, a unit for each
\* transaction.
Greet(n) ==
    /\ At(n, "adder", "greet")
    /\ mempool_lock[n] = "nobody"
    /\ IF mempool_count[n] = 0
       THEN To(n, "adder", AfterSend(n, "greet")) /\ UNCHANGED <<out, mempool_lock>>
       ELSE /\ out' = [out EXCEPT ![n]["adder"] =
                 [i \in 1 .. mempool_count[n] |-> Message(n, "NEW_TX", FALSE)[1]]]
            /\ mempool_lock' = [mempool_lock EXCEPT ![n] = "adder"]
            /\ UNCHANGED pc
    /\ UNCHANGED <<wire, line, peers_lock, mempool_count, broadcasts, mixed, lost, heard>>

\* Mutant of Broadcast: peers_lock is not taken.
BroadcastUnlocked(n, t) ==
    /\ At(n, t, "free")
    /\ broadcasts[n] < MaxBroadcasts[n]
    /\ peers_lock[n] = "nobody"
    /\ To(n, t, "broadcast")
    /\ \E kind \in {"NEW_BLOCK", "NEW_TX"} :
           out' = [out EXCEPT ![n][t] = Message(n, kind, TRUE)]
    /\ broadcasts' = [broadcasts EXCEPT ![n] = @ + 1]
    /\ UNCHANGED <<wire, line, peers_lock, mempool_lock, mempool_count, mixed, lost, heard>>

\* node_broadcast_block, node_broadcast_tx, and broadcast_block_except from the
\* reader of another connection: a message is sent under peers_lock.
Broadcast(n, t) ==
    /\ At(n, t, "free")
    /\ broadcasts[n] < MaxBroadcasts[n]
    /\ peers_lock[n] = "nobody"
    /\ peers_lock' = [peers_lock EXCEPT ![n] = t]
    /\ To(n, t, "broadcast")
    /\ \E kind \in {"NEW_BLOCK", "NEW_TX"} :
           out' = [out EXCEPT ![n][t] = Message(n, kind, TRUE)]
    /\ broadcasts' = [broadcasts EXCEPT ![n] = @ + 1]
    /\ UNCHANGED <<wire, line, mempool_lock, mempool_count, mixed, lost, heard>>

\* A thread that is in the middle of a message.
Amid(n, t) == out[n][t] # << >> /\ Head(out[n][t]).part > 1

\* Mutant of Taken: the whole rest of the message, as if there were always room.
TakenUnbounded(n, t) == Min({i \in DOMAIN out[n][t] : out[n][t][i].last})

\* Units that the kernel takes from thread t at once: what the call to send has
\* left of its message, or what there is room for.
Taken(n, t) ==
    Min({Room[Other(n)] - Len(wire[Other(n)]),
         Min({i \in DOMAIN out[n][t] : out[n][t][i].last})})

\* Mutant of Send: mempool_lock is kept.
SendKeepLock(n, t) ==
    /\ out[n][t] # << >>
    /\ LET k == Taken(n, t)
           left == SubSeq(out[n][t], k + 1, Len(out[n][t])) IN
       /\ k > 0
       /\ wire' = [wire EXCEPT ![Other(n)] = @ \o SubSeq(out[n][t], 1, k)]
       /\ out' = [out EXCEPT ![n][t] = left]
       /\ mixed' = IF \E s \in Threads \ {t} : Amid(n, s) THEN mixed \cup {Other(n)} ELSE mixed
       /\ IF left # << >>
          THEN UNCHANGED <<pc, peers_lock>>
          ELSE To(n, t, AfterSend(n, pc[n][t])) /\ peers_lock' = Free(peers_lock, n, t)
       /\ UNCHANGED <<line, mempool_lock, mempool_count, broadcasts, lost, heard>>

\* send_message: one turn of its loop, or what send does in the kernel while it
\* waits.  The other threads may send between two turns.
Send(n, t) ==
    /\ out[n][t] # << >>
    /\ LET k == Taken(n, t)
           left == SubSeq(out[n][t], k + 1, Len(out[n][t])) IN
       /\ k > 0
       /\ wire' = [wire EXCEPT ![Other(n)] = @ \o SubSeq(out[n][t], 1, k)]
       /\ out' = [out EXCEPT ![n][t] = left]
       /\ mixed' = IF \E s \in Threads \ {t} : Amid(n, s) THEN mixed \cup {Other(n)} ELSE mixed
       /\ IF left # << >>
          THEN UNCHANGED <<pc, peers_lock, mempool_lock>>
          ELSE /\ To(n, t, AfterSend(n, pc[n][t]))
               /\ peers_lock' = Free(peers_lock, n, t)
               /\ mempool_lock' = Free(mempool_lock, n, t)
       /\ UNCHANGED <<line, mempool_count, broadcasts, lost, heard>>

-----------------------------------------------------------------------------
(* What the reader makes of it *)

\* A line that is exactly one message.
Whole(text) ==
    /\ \A i \in DOMAIN text : text[i].part = i /\ text[i].kind = text[1].kind
    /\ Last(text).last

\* What protocol_parse_msg takes for the type of the line: that of the first
\* message that begins in it.  Without one, the line is ignored.
TypeOfLine(text) ==
    LET heads == {i \in DOMAIN text : text[i].part = 1}
    IN  IF heads = {} THEN "none" ELSE text[Min(heads)].kind

\* handle_message.  A block may be accepted, and is passed on then; of a damaged
\* transaction something may be left that parses.
Handle(n, text) ==
    LET type == TypeOfLine(text) IN
    /\ \/ /\ type = "REQUEST_CHAIN"
          /\ To(n, "reader", "answer")
          /\ out' = [out EXCEPT ![n]["reader"] = Message(n, "CHAIN_RESPONSE", FALSE)]
       \/ type = "NEW_BLOCK" /\ To(n, "reader", "relay") /\ UNCHANGED out
       \/ type = "NEW_TX" /\ To(n, "reader", "enqueue") /\ UNCHANGED out
       \/ /\ type # "REQUEST_CHAIN"
          /\ ~ (type = "NEW_TX" /\ Whole(text))
          /\ UNCHANGED <<pc, out>>
    /\ IF Whole(text)
       THEN /\ heard' = IF type = "CHAIN_RESPONSE" THEN heard \cup {n} ELSE heard
            /\ UNCHANGED lost
       ELSE /\ lost' = [lost EXCEPT ![n] = @ \cup {text[i].kind : i \in DOMAIN text}]
            /\ UNCHANGED heard

\* Mutant of ReadLine: the buffer is not emptied any more once it was full.
ReadLineKept(n) ==
    /\ At(n, "reader", "read")
    /\ wire[n] # << >>
    /\ LET text == Append(line[n], Head(wire[n])) IN
       /\ Head(wire[n]).last \/ Len(text) = LineUnits
       /\ Handle(n, text)
       /\ line' = [line EXCEPT ![n] = IF Len(text) = LineUnits THEN @ ELSE << >>]
    /\ wire' = [wire EXCEPT ![n] = Tail(@)]
    /\ UNCHANGED <<peers_lock, mempool_lock, mempool_count, broadcasts, mixed>>

\* read_message: another unit of the line; or the end of a message or of the
\* buffer, and the line is handled.  What follows a cut is the next line.
ReadMore(n) ==
    /\ At(n, "reader", "read")
    /\ wire[n] # << >>
    /\ ~ Head(wire[n]).last /\ Len(line[n]) + 1 < LineUnits
    /\ line' = [line EXCEPT ![n] = Append(@, Head(wire[n]))]
    /\ wire' = [wire EXCEPT ![n] = Tail(@)]
    /\ UNCHANGED <<pc, out, peers_lock, mempool_lock, mempool_count, broadcasts,
                   mixed, lost, heard>>

ReadLine(n) ==
    /\ At(n, "reader", "read")
    /\ wire[n] # << >>
    /\ LET text == Append(line[n], Head(wire[n])) IN
       /\ Head(wire[n]).last \/ Len(text) = LineUnits
       /\ Handle(n, text)
    /\ line' = [line EXCEPT ![n] = << >>]
    /\ wire' = [wire EXCEPT ![n] = Tail(@)]
    /\ UNCHANGED <<peers_lock, mempool_lock, mempool_count, broadcasts, mixed>>

\* on_new_tx needs mempool_lock.
Enqueue(n) ==
    /\ At(n, "reader", "enqueue")
    /\ mempool_lock[n] = "nobody"
    /\ mempool_count' = [mempool_count EXCEPT ![n] = Min({@ + 1, MEMPOOL_SIZE})]
    /\ To(n, "reader", "read")
    /\ UNCHANGED <<out, wire, line, peers_lock, mempool_lock, broadcasts, mixed,
                   lost, heard>>

\* broadcast_block_except needs peers_lock; the other connections have room.
Relay(n) ==
    /\ At(n, "reader", "relay")
    /\ peers_lock[n] = "nobody"
    /\ To(n, "reader", "read")
    /\ UNCHANGED <<out, wire, line, peers_lock, mempool_lock, mempool_count,
                   broadcasts, mixed, lost, heard>>

-----------------------------------------------------------------------------
AddPeer(n) == RequestChain(n) \/ Greet(n)
Reader(n) == ReadMore(n) \/ ReadLine(n) \/ Enqueue(n) \/ Relay(n)

Next ==
    \E n \in Nodes :
        \/ AddPeer(n)
        \/ \E t \in {"adder", "other"} : Broadcast(n, t)
        \/ \E t \in Threads : Send(n, t)
        \/ Reader(n)

Spec == Init /\ [][Next]_vars

\* Some thread goes on as long as one can; it may be any of them.  Nobody has to
\* broadcast.
Fairness ==
    WF_vars(\E n \in Nodes :
                \/ AddPeer(n)
                \/ \E t \in Threads : Send(n, t)
                \/ Reader(n))

FairSpec == Spec /\ Fairness

-----------------------------------------------------------------------------
(* Properties *)

\* u does not come right before v within one message, nor ends one (net.c:62).
Interrupts(u, v) == ~ u.last /\ ~ (v.kind = u.kind /\ v.part = u.part + 1)

\* peers_lock keeps broadcasts apart: where the text of one message is inside that
\* of another, one of the two was sent without it, as an answer, a request or a
\* greeting (net.c:62, 378).
BroadcastsApart ==
    \A n \in Nodes :
        LET stream == line[n] \o wire[n] IN
        \A i \in DOMAIN stream \ {1} :
            Interrupts(stream[i - 1], stream[i]) =>
                ~ stream[i - 1].locked \/ ~ stream[i].locked

\* A node to which messages were sent one after the other reads each of them as it
\* was sent, except a chain that is longer than a line: cutting it costs nothing
\* else (net.c:37).
OnlyLongChainsLost ==
    \A n \in Nodes \ mixed :
        lost[n] \subseteq
            {kind \in Kinds : Units(Other(n), kind) > LineUnits}

Busy(n, t) == out[n][t] # << >> \/ pc[n][t] \in {"greet", "enqueue", "relay"}

\* Again and again everything has been sent and nobody waits for a lock, however
\* little room there is on the way to the listener, when the connection has room
\* for all that the listener may send (net.c:62, 378, main.c:62).
NobodyStuck == []<>(\A n \in Nodes : \A t \in Threads : ~ Busy(n, t))

\* Both nodes ask for the chain and both get it (docs/diagrams.md:49).
ChainsExchanged == \A n \in Nodes : <>(n \in heard)
=============================================================================
