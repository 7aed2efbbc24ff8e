------------------------------ MODULE PeerTable ------------------------------
(***************************************************************************)
(* The table of peers (net.c): its slots, the descriptors they name, which *)
(* the kernel gives out again once they are closed, and the threads that   *)
(* use them: the main thread and the accept thread add peers, a reader per *)
(* slot gives its peer up, broadcasts and node_stop go through the table   *)
(* under peers_lock.  `active' and `running' are read and written without  *)
(* the lock as well.                                                       *)
(*                                                                         *)
(* What is sent and received is the subject of MiniCoin.tla and of         *)
(* Transport.tla.  Here a thread that goes through the table with a block  *)
(* or a payment is, for each peer, in a send that returns only when the    *)
(* other side takes the text or the connection is gone: it holds           *)
(* peers_lock all the while.  A slot's reader may likewise stay in the     *)
(* handling of a message.  What add_peer sends on the bare descriptor      *)
(* after it has filled in the slot is left out.  The main thread's own     *)
(* steps are in NodeProcess.tla.                                           *)
(***************************************************************************)
EXTENDS Integers, Sequences, SequencesExt, FiniteSetsExt

CONSTANTS
    MAX_PEERS,      \* capacity of the table: 16
    MaxConns,       \* bound: connections that the first process makes
    Main, Acceptor, \* the main thread and the accept thread
    Nobody,         \* the owner of a free lock or a free descriptor
    Destroyed       \* the "owner" of a lock after pthread_mutex_destroy

ASSUME TableAssumption == MAX_PEERS \in Nat \ {0} /\ MaxConns \in Nat
ASSUME NameAssumption == /\ Main # Acceptor /\ Nobody # Destroyed
                         /\ {Nobody, Destroyed, Main, Acceptor} \cap Int = {}

VARIABLES
    owner,      \* owner[f]: what descriptor f refers to: a connection, the
                \*           listening socket (0), or Nobody
    conns,      \* how many connections have been made
    broken,     \* the connections that the other side has given up
    peers,      \* the slots in use: the descriptor, the connection it was
                \* (history) and `active'
    reader,     \* reader[i]: where the reader of slot i is
    lock,       \* who holds peers_lock; Destroyed when nobody can any more
    running,    \* node.running
    target,     \* target[t]: the slot to whose peer thread t, which goes through
                \* the table under peers_lock, sends; 0 if none is left
    pc,         \* where the main thread and the accept thread are
    fd          \* fd[t]: the new descriptor that thread t is adding, or 0

tableVars == <<owner, conns, broken, peers, reader, lock, running, target>>
peerVars == <<tableVars, pc, fd>>

Conns == 1 .. MaxConns
Slots == 1 .. MAX_PEERS
Adders == {Main, Acceptor}
Senders == {Main} \cup Slots

\* Enough for the listening socket and every connection; 0 to 2 are taken.
Descriptors == 3 .. (MaxConns + 3)
Server == 3

\* The kernel gives out the lowest descriptor that is free.
LowestFree == Min({f \in Descriptors : owner[f] = Nobody})
Closed(f) == [owner EXCEPT ![f] = Nobody]

\* pthread_mutex_lock goes ahead: at once when the lock is free, and with an
\* error that nobody looks at when it has been destroyed.
CanLock == lock \in {Nobody, Destroyed}
Locked(t) == IF lock = Nobody THEN t ELSE lock
Unlocked(t) == IF lock = t THEN Nobody ELSE lock

TableTypeOK ==
    /\ owner \in [Descriptors -> {Nobody} \cup 0 .. MaxConns]
    /\ conns \in 0 .. MaxConns /\ broken \subseteq Conns
    /\ peers \in Seq([fd : Descriptors, conn : Conns, active : BOOLEAN])
    /\ Len(peers) <= MAX_PEERS
    /\ reader \in [Slots -> {"none", "read", "handle", "relay", "send", "lost", "done"}]
    /\ lock \in {Nobody, Destroyed} \cup Adders \cup Slots
    /\ running \in BOOLEAN
    /\ target \in [Senders -> {0} \cup Slots]
    /\ fd \in [Adders -> {0} \cup Descriptors]

\* The memory and the descriptors of a process that has ended.  The next one
\* starts with the same empty table, so that (bound) only the first makes
\* connections.
NoTable ==
    /\ owner' = [f \in Descriptors |-> Nobody]
    /\ conns' = MaxConns
    /\ broken' = {}
    /\ peers' = << >>
    /\ reader' = [i \in Slots |-> "none"]
    /\ lock' = Nobody
    /\ running' = FALSE
    /\ target' = [t \in Senders |-> 0]
    /\ fd' = [t \in Adders |-> 0]

-----------------------------------------------------------------------------
(* The loop over the peers, by main or a reader, under peers_lock *)

\* The slots after slot k that thread t sends to: a reader leaves out whoever has
\* the number of its own descriptor.
Targets(t, k) ==
    {j \in DOMAIN peers :
        j > k /\ peers[j].active /\ (t \in Slots => peers[j].fd # peers[t].fd)}

NextTarget(t, k) == IF Targets(t, k) = {} THEN 0 ELSE Min(Targets(t, k))

\* The send of thread t is to a connection that is up.
WaitsForRoom(t) ==
    target[t] # 0 /\ owner[peers[target[t]].fd] \in Conns \ broken

\* The send returns, and active is read of the slots that follow.
SendReturns(t) ==
    /\ target[t] # 0
    /\ target' = [target EXCEPT ![t] = NextTarget(t, target[t])]
    /\ UNCHANGED <<owner, conns, broken, peers, reader, lock, running, pc, fd>>

\* Either the other side has taken the text, which nothing makes it do, or the
\* connection is gone, closed by its reader in the meantime perhaps, and send
\* fails; its result is not looked at.
SendTaken(t) == WaitsForRoom(t) /\ SendReturns(t)
SendFails(t) == ~ WaitsForRoom(t) /\ SendReturns(t)

-----------------------------------------------------------------------------
(* add_peer, by the main thread or the accept thread *)

\* A connection comes into being and gets a descriptor.
NewConnection(t) ==
    /\ conns < MaxConns
    /\ conns' = conns + 1
    /\ owner' = [owner EXCEPT ![LowestFree] = conns']
    /\ fd' = [fd EXCEPT ![t] = LowestFree]
    /\ pc' = [pc EXCEPT ![t] = "add"]
    /\ UNCHANGED <<broken, target, peers, reader, lock, running>>

\* main goes back to the menu; accept_thread tests running.
AfterAdding(t) == IF t = Acceptor /\ ~ running THEN "gone" ELSE "loop"

\* Mutants of AddFull: the early return forgets to unlock, or to close.
AddFullLocked(t) ==
    /\ pc[t] = "add"
    /\ CanLock
    /\ Len(peers) >= MAX_PEERS
    /\ lock' = Locked(t)
    /\ owner' = Closed(fd[t])
    /\ fd' = [fd EXCEPT ![t] = 0]
    /\ pc' = [pc EXCEPT ![t] = AfterAdding(t)]
    /\ UNCHANGED <<conns, broken, target, peers, reader, running>>

AddFullOpen(t) ==
    /\ pc[t] = "add"
    /\ CanLock
    /\ Len(peers) >= MAX_PEERS
    /\ fd' = [fd EXCEPT ![t] = 0]
    /\ pc' = [pc EXCEPT ![t] = AfterAdding(t)]
    /\ UNCHANGED tableVars

\* The table is full, for slots are never used again: the lock is given back and
\* the connection closed.
AddFull(t) ==
    /\ pc[t] = "add"
    /\ CanLock
    /\ Len(peers) >= MAX_PEERS
    /\ owner' = Closed(fd[t])
    /\ fd' = [fd EXCEPT ![t] = 0]
    /\ pc' = [pc EXCEPT ![t] = AfterAdding(t)]
    /\ UNCHANGED <<conns, broken, target, peers, reader, lock, running>>

\* Mutant of AddSlot: the capacity test is off by one.
AddSlotOverfull(t) ==
    /\ pc[t] = "add"
    /\ CanLock
    /\ Len(peers) <= MAX_PEERS
    /\ peers' = Append(peers, [fd |-> fd[t], conn |-> owner[fd[t]], active |-> TRUE])
    /\ reader' = [reader EXCEPT ![Len(peers) + 1] = IF running THEN "read" ELSE "done"]
    /\ fd' = [fd EXCEPT ![t] = 0]
    /\ pc' = [pc EXCEPT ![t] = AfterAdding(t)]
    /\ UNCHANGED <<owner, conns, broken, target, lock, running>>

\* The next slot is filled in under the lock, and a reader made for it after the
\* lock is given back; nobody minds that it does not run yet.  (The request for the
\* chain and the greeting, on the descriptor fd[t] whoever has it by then, are left
\* out.)
AddSlot(t) ==
    /\ pc[t] = "add"
    /\ CanLock
    /\ Len(peers) < MAX_PEERS
    /\ peers' = Append(peers, [fd |-> fd[t], conn |-> owner[fd[t]], active |-> TRUE])
    /\ reader' = [reader EXCEPT ![Len(peers) + 1] = IF running THEN "read" ELSE "done"]
    /\ fd' = [fd EXCEPT ![t] = 0]
    /\ pc' = [pc EXCEPT ![t] = AfterAdding(t)]
    /\ UNCHANGED <<owner, conns, broken, target, lock, running>>

AddStep(t) == AddFull(t) \/ AddSlot(t)

-----------------------------------------------------------------------------
(* accept_thread.  add_peer's result is not looked at. *)

\* accept returns a connection: not after the listening socket was shut down.
AcceptConnection ==
    /\ pc[Acceptor] = "loop"
    /\ owner[Server] = 0
    /\ NewConnection(Acceptor)

\* accept fails, and running is no longer set.
AcceptEnds ==
    /\ pc[Acceptor] = "loop"
    /\ owner[Server] # 0
    /\ pc' = [pc EXCEPT ![Acceptor] = "gone"]
    /\ UNCHANGED <<tableVars, fd>>

AcceptStep == AcceptEnds \/ AddStep(Acceptor)

-----------------------------------------------------------------------------
(* peer_handler of slot i *)

ReaderAt(i, point) == i \in DOMAIN peers /\ reader[i] = point
ReaderTo(i, point) == reader' = [reader EXCEPT ![i] = point]

\* The test of the loop, after a message.
NextRead(i) == IF running /\ peers[i].active THEN "read" ELSE "done"

\* What the descriptor of slot i refers to still carries data.
Readable(i) == owner[peers[i].fd] \in Conns \ broken

\* A message is read.
ReadMessage(i) ==
    /\ ReaderAt(i, "read")
    /\ Readable(i)
    /\ ReaderTo(i, "handle")
    /\ UNCHANGED <<owner, conns, broken, target, peers, lock, running, pc, fd>>

\* It is handled: the answer is sent, a payment has gone into the mempool, an
\* accepted block is to be passed on.
HandleMessage(i) ==
    /\ ReaderAt(i, "handle")
    /\ ReaderTo(i, NextRead(i)) \/ ReaderTo(i, "relay")
    /\ UNCHANGED <<owner, conns, broken, target, peers, lock, running, pc, fd>>

\* broadcast_block_except: peers_lock is held while blocks are sent.
RelayLock(i) ==
    /\ ReaderAt(i, "relay")
    /\ CanLock
    /\ lock' = Locked(i)
    /\ ReaderTo(i, "send")
    /\ target' = [target EXCEPT ![i] = NextTarget(i, 0)]
    /\ UNCHANGED <<owner, conns, broken, peers, running, pc, fd>>

\* Mutant of RelayUnlock: the lock is kept.
RelayKeepLock(i) ==
    /\ ReaderAt(i, "send")
    /\ target[i] = 0
    /\ ReaderTo(i, NextRead(i))
    /\ UNCHANGED <<owner, conns, broken, target, peers, lock, running, pc, fd>>

RelayUnlock(i) ==
    /\ ReaderAt(i, "send")
    /\ target[i] = 0
    /\ lock' = Unlocked(i)
    /\ ReaderTo(i, NextRead(i))
    /\ UNCHANGED <<owner, conns, broken, target, peers, running, pc, fd>>

\* Mutant of ReadFails: active is not cleared.
ReadFailsActive(i) ==
    /\ ReaderAt(i, "read")
    /\ ~ Readable(i)
    /\ ReaderTo(i, "lost")
    /\ UNCHANGED <<owner, conns, broken, target, peers, lock, running, pc, fd>>

\* read_message returns NULL: the slot becomes inactive, and stays so.
ReadFails(i) ==
    /\ ReaderAt(i, "read")
    /\ ~ Readable(i)
    /\ peers' = [peers EXCEPT ![i].active = FALSE]
    /\ ReaderTo(i, "lost")
    /\ UNCHANGED <<owner, conns, broken, target, lock, running, pc, fd>>

\* Then the descriptor is closed, whatever it refers to by now.
CloseLost(i) ==
    /\ ReaderAt(i, "lost")
    /\ owner' = Closed(peers[i].fd)
    /\ ReaderTo(i, "done")
    /\ UNCHANGED <<conns, broken, target, peers, lock, running, pc, fd>>

ReaderWork(i) ==
    RelayLock(i) \/ SendFails(i) \/ RelayUnlock(i) \/ ReadFails(i) \/ CloseLost(i)

\* The other side closes connection c, or it breaks.
Break(c) ==
    /\ \E f \in Descriptors : owner[f] = c
    /\ c \notin broken
    /\ broken' = broken \cup {c}
    /\ UNCHANGED <<owner, conns, target, peers, reader, lock, running, pc, fd>>
=============================================================================
