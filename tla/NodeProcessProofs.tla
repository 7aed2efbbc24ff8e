-------------------------- MODULE NodeProcessProofs --------------------------
(***************************************************************************)
(* Proofs about NodeProcess, for any number of connections, slots, keys    *)
(* and restarts: the address that a user has been shown is not lost when   *)
(* the process is killed; and the threads never read, answer or close a    *)
(* connection that is not their slot's, and forget none, although numbers  *)
(* of descriptors are used again.                                          *)
(***************************************************************************)
EXTENDS NodeProcess, DataLemmas

\* The wallet between the start of a process and the moment when its address is
\* shown: a key is made, and the file opened for writing, only when no address
\* has been shown before; and a key that is about to be shown is in the file.
WalletInv ==
    /\ pc \in [Adders -> Points]
    /\ disk_faults \in Nat
    /\ wallet \in Nat /\ keys_made \in Nat
    /\ shown \subseteq Nat
    /\ disk_faults = 0 =>
         /\ \A key \in shown : file = key
         /\ pc[Main] \in {"create", "save", "flush"} => shown = {}
         /\ pc[Main] = "show" => file = wallet

\* WalletInv holds before the first start.
LEMMA WalletInvInit == Init => WalletInv
<1> SUFFICES ASSUME Init PROVE WalletInv
  OBVIOUS
<1>1. /\ pc = [t \in Adders |-> "off"]
      /\ disk_faults = 0 /\ wallet = 0 /\ keys_made = 0 /\ shown = {}
  BY DEF Init, WalletInit
<1>2. pc \in [Adders -> Points] /\ pc[Main] = "off"
  BY <1>1 DEF Adders, Points
<1> QED BY <1>1, <1>2 DEF WalletInv

\* A step of another thread, or of main after the start, does not touch the
\* wallet and leads to no point of the start.
LEMMA Later ==
    ASSUME WalletInv,
           UNCHANGED <<walletVars, shown>>,
           pc' \in [Adders -> Points],
           \/ pc'[Main] = pc[Main]
           \/ pc'[Main] \notin {"create", "save", "flush", "show"}
    PROVE  WalletInv'
BY DEF WalletInv, walletVars

\* A thread goes on to some other point.
LEMMA Goes ==
    ASSUME WalletInv, NEW t \in Adders, NEW point \in Points,
           pc' = [pc EXCEPT ![t] = point]
    PROVE  /\ pc' \in [Adders -> Points]
           /\ pc'[Main] = IF t = Main THEN point ELSE pc[Main]
BY DEF WalletInv, Adders

\* The counter moves when the disk fails.
LEMMA DiskFailed ==
    ASSUME WalletInv, DiskFails
    PROVE  disk_faults' \in Nat /\ disk_faults' # 0
<1>1. disk_faults \in Nat /\ disk_faults' = disk_faults + 1
  BY DEF WalletInv, DiskFails
<1> QED BY <1>1

\* Every step keeps WalletInv.
LEMMA WalletInvStep == WalletInv /\ [Next]_vars => WalletInv'
<1> SUFFICES ASSUME WalletInv, [Next]_vars PROVE WalletInv'
  OBVIOUS
<1> USE DEF MainAt, MainTo, Points
<1>0. Main \in Adders
  BY DEF Adders
<1>1. CASE Start
  <2>1. pc' \in [Adders -> Points] /\ pc'[Main] = "load"
    BY <1>0, <1>1, Goes DEF Start
  <2> QED BY <1>1, <2>1, Later DEF Start
<1>2. CASE LoadWallet
  <2>1. CASE WalletLoad /\ MainTo("show")
    <3>1. pc' \in [Adders -> Points] /\ pc'[Main] = "show"
      BY <1>0, <2>1, Goes
    <3>2. file \in Keys /\ wallet' = file /\ UNCHANGED <<file, keys_made, disk_faults, shown>>
      BY <1>2, <2>1 DEF WalletLoad, LoadWallet, mainVars
    <3>3. wallet' \in Nat
      BY <3>2, FileAssumption DEF Keys
    <3> QED BY <3>1, <3>2, <3>3 DEF WalletInv
  \* Without a failure of the disk, the file holds no key: none was ever shown.
  <2>2. CASE WalletLoadFails /\ MainTo("create")
    <3>1. pc' \in [Adders -> Points] /\ pc'[Main] = "create"
      BY <1>0, <2>2, Goes
    <3>2. UNCHANGED <<file, keys_made, shown>> /\ wallet' = 0
      BY <1>2, <2>2 DEF WalletLoadFails, LoadWallet, mainVars
    <3>3. CASE file \in {Absent, Broken} /\ UNCHANGED disk_faults
      <4>1. file \notin Nat
        BY <3>3, FileAssumption
      <4>2. disk_faults = 0 => shown = {}
        BY <4>1 DEF WalletInv
      <4> QED BY <3>1, <3>2, <3>3, <4>2 DEF WalletInv
    <3>4. CASE DiskFails
      BY <3>1, <3>2, <3>4, DiskFailed DEF WalletInv
    <3> QED BY <2>2, <3>3, <3>4 DEF WalletLoadFails
  <2> QED BY <1>2, <2>1, <2>2 DEF LoadWallet
<1>3. CASE CreateWallet
  <2>1. pc' \in [Adders -> Points] /\ pc'[Main] = "save"
    BY <1>0, <1>3, Goes DEF CreateWallet
  <2>2. /\ pc[Main] = "create" /\ wallet' = keys_made + 1 /\ keys_made' = keys_made + 1
        /\ UNCHANGED <<file, disk_faults, shown>>
    BY <1>3 DEF CreateWallet, WalletCreate, mainVars
  <2>3. wallet' \in Nat /\ keys_made' \in Nat
    <3>1. keys_made \in Nat
      BY DEF WalletInv
    <3> QED BY <2>2, <3>1
  <2> QED BY <2>1, <2>2, <2>3 DEF WalletInv
<1>4. CASE OpenWallet
  <2>1. CASE WalletOpen /\ MainTo("flush")
    <3>1. pc' \in [Adders -> Points] /\ pc'[Main] = "flush"
      BY <1>0, <2>1, Goes
    <3>2. pc[Main] = "save" /\ UNCHANGED <<wallet, keys_made, disk_faults, shown>>
      BY <1>4, <2>1 DEF OpenWallet, WalletOpen, mainVars
    <3> QED BY <3>1, <3>2 DEF WalletInv
  <2>2. CASE WalletOpenFails /\ MainTo("show")
    <3>1. pc' \in [Adders -> Points] /\ pc'[Main] = "show"
      BY <1>0, <2>2, Goes
    <3>2. DiskFails /\ UNCHANGED <<file, wallet, keys_made, shown>>
      BY <1>4, <2>2 DEF OpenWallet, WalletOpenFails, mainVars
    <3> QED BY <3>1, <3>2, DiskFailed DEF WalletInv
  <2> QED BY <1>4, <2>1, <2>2 DEF OpenWallet
<1>5. CASE FlushWallet
  <2>1. pc' \in [Adders -> Points] /\ pc'[Main] = "show"
    BY <1>0, <1>5, Goes DEF FlushWallet
  <2>2. pc[Main] = "flush" /\ UNCHANGED <<wallet, keys_made, shown>>
    BY <1>5 DEF FlushWallet, WalletFlush, mainVars
  <2>3. CASE file' = wallet /\ UNCHANGED disk_faults
    BY <2>1, <2>2, <2>3 DEF WalletInv
  <2>4. CASE DiskFails
    BY <2>1, <2>2, <2>4, DiskFailed DEF WalletInv
  <2> QED BY <1>5, <2>3, <2>4 DEF FlushWallet, WalletFlush
\* The address that is shown is in the file, and is the only one.
<1>6. CASE ShowAddress
  <2>1. pc' \in [Adders -> Points] /\ pc'[Main] = "listen"
    BY <1>0, <1>6, Goes DEF ShowAddress
  <2>2. /\ pc[Main] = "show" /\ shown' = shown \cup {wallet}
        /\ UNCHANGED <<file, wallet, keys_made, disk_faults>>
    BY <1>6 DEF ShowAddress, walletVars
  <2> QED BY <2>1, <2>2 DEF WalletInv
<1>7. CASE NodeInit
  <2>1. pc' \in [Adders -> Points] /\ pc'[Main] = "loop"
    BY <1>7 DEF NodeInit, WalletInv, Adders
  <2> QED BY <1>7, <2>1, Later DEF NodeInit, mainVars
\* The end of the process leaves the file as it is.
<1>8. CASE Gone
  <2>1. pc' \in [Adders -> Points] /\ pc'[Main] = "off"
    BY <1>0, <1>8 DEF Gone
  <2>2. wallet' = 0 /\ UNCHANGED <<file, keys_made, disk_faults, shown>>
    BY <1>8 DEF Gone, WalletForget
  <2> QED BY <2>1, <2>2 DEF WalletInv
<1>9. CASE Stopping /\ ~ Exit
  <2>1. UNCHANGED <<walletVars, shown>>
    BY <1>9 DEF Stopping, Stop, StopServer, StopLock, StopTest, StopClose, StopUnlock,
                StopDestroy, mainVars
  <2>2. \/ UNCHANGED pc
        \/ \E point \in {"stop_server", "stop_lock", "stop_peers", "stop_close",
                           "stop_destroy", "exit"} : MainTo(point)
    BY <1>9 DEF Stopping, Stop, StopServer, StopLock, StopTest, StopClose, StopUnlock,
                StopDestroy
  <2>3. /\ pc' \in [Adders -> Points]
        /\ pc'[Main] = pc[Main] \/ pc'[Main] \notin {"create", "save", "flush", "show"}
    BY <1>0, <2>2, Goes DEF WalletInv
  <2> QED BY <2>1, <2>3, Later
<1>10. CASE ShowMenu \/ BroadcastLock \/ BroadcastUnlock \/ User
  <2>1. UNCHANGED <<walletVars, shown>>
    BY <1>10 DEF ShowMenu, BroadcastLock, BroadcastUnlock, User, Interrupt, EnterQuit,
                 EnterConnect, EnterBroadcast, EnterOther, mainVars
  <2>2. \/ UNCHANGED pc
        \/ \E point \in {"stop", "scanf", "send", "loop", "broadcast", "add"} : MainTo(point)
    BY <1>10 DEF ShowMenu, BroadcastLock, BroadcastUnlock, User, Interrupt, EnterQuit,
                 EnterConnect, NewConnection, EnterBroadcast, EnterOther, peerVars
  <2>3. /\ pc' \in [Adders -> Points]
        /\ pc'[Main] = pc[Main] \/ pc'[Main] \notin {"create", "save", "flush", "show"}
    BY <1>0, <2>2, Goes DEF WalletInv
  <2> QED BY <2>1, <2>3, Later
<1>11. CASE (Threads \/ AddStep(Main) \/ SendFails(Main)) /\ UNCHANGED <<walletVars, mainVars>>
  <2>1. UNCHANGED <<walletVars, shown>>
    BY <1>11 DEF mainVars
  <2>2. \/ UNCHANGED pc
        \/ \E t \in Adders : \E point \in {"add", "loop", "gone"} :
              pc' = [pc EXCEPT ![t] = point]
    <3>1. CASE \E t \in Adders : AddStep(t)
      BY <3>1 DEF AddStep, AddFull, AddSlot, AfterAdding
    <3>2. CASE AcceptEnds \/ AcceptConnection
      BY <3>2 DEF AcceptEnds, AcceptConnection, NewConnection, Adders
    <3>3. CASE \E i \in Slots : ReaderWork(i) \/ ReadMessage(i) \/ HandleMessage(i)
      BY <3>3 DEF ReaderWork, ReadMessage, HandleMessage, RelayLock, RelayUnlock, ReadFails,
                  CloseLost, SendFails, SendReturns
    <3>5. CASE SendFails(Main) \/ \E t \in Senders : SendTaken(t)
      BY <3>5 DEF SendFails, SendTaken, SendReturns
    <3>4. CASE \E c \in Conns : Break(c)
      BY <3>4 DEF Break
    <3> QED BY <1>0, <1>11, <3>1, <3>2, <3>3, <3>4, <3>5 DEF Threads, AcceptStep, Adders
  <2>3. /\ pc' \in [Adders -> Points]
        /\ pc'[Main] = pc[Main] \/ pc'[Main] \notin {"create", "save", "flush", "show"}
    BY <2>2, Goes DEF WalletInv
  <2> QED BY <2>1, <2>3, Later
<1>12. CASE UNCHANGED vars
  BY <1>12 DEF vars, walletVars, peerVars, mainVars, WalletInv
<1> QED
  BY <1>1, <1>2, <1>3, <1>4, <1>5, <1>6, <1>7, <1>8, <1>9, <1>10, <1>11, <1>12
     DEF Next, MainWork, Starting, Stopping, StartFails, Kill, Exit

\* Whenever a process is killed or ends, in whatever state of making, saving or
\* loading a key (wallet.c, main.c:455), the address that a user has been shown
\* is the one in wallet.pem, unless an operation on the disk has failed.
THEOREM AddressesSurvive == Spec => []AddressSurvives
<1>1. WalletInv => AddressSurvives
  BY DEF WalletInv, AddressSurvives
<1> QED BY WalletInvInit, WalletInvStep, <1>1, PTL DEF Spec
-----------------------------------------------------------------------------
(* The table of peers and the descriptors *)

\* Main before node_init has opened the listening socket; and after node_stop has
\* closed it.
Early == {"off", "load", "create", "save", "flush", "show", "listen"}
Late == {"stop_lock", "stop_peers", "stop_close", "stop_destroy", "exit"}

TableTypes ==
    /\ TableTypeOK
    /\ pc \in [Adders -> Points]
    /\ stop_i \in 0 .. MAX_PEERS + 1

\* No two descriptors are one connection; connections are numbered as they are made.
OwnersApart ==
    /\ \A f, g \in Descriptors : owner[f] = owner[g] /\ owner[f] # Nobody => f = g
    /\ \A f \in Descriptors : owner[f] # Nobody => owner[f] <= conns

\* No two slots are.
SlotsApart ==
    /\ \A i, j \in DOMAIN peers : peers[i].conn = peers[j].conn => i = j
    /\ \A i \in DOMAIN peers : peers[i].conn <= conns

\* The listening socket is open from node_init to node_stop, which clears running
\* before.  There is no table before.
Phases ==
    /\ pc[Main] \in Early =>
         /\ peers = << >> /\ ~ running
         /\ \A f \in Descriptors : owner[f] = Nobody
         /\ \A t \in Adders : fd[t] = 0 /\ pc[t] # "add"
    /\ pc[Main] \notin Early \cup Late => owner[Server] = 0
    /\ pc[Main] \in Late => owner[Server] = Nobody
    /\ pc[Main] \in Late \cup {"stop_server"} => ~ running
    /\ pc[Main] \in {"stop_peers", "stop_close"} => stop_i >= 1
    /\ pc[Main] = "stop_close" => stop_i <= Len(peers)

\* What a thread is adding is open and in no slot yet.
Adding ==
    /\ \A t \in Adders : pc[t] = "add" <=> fd[t] # 0
    /\ \A t \in Adders : fd[t] # 0 =>
         /\ owner[fd[t]] \in Conns
         /\ \A i \in DOMAIN peers : peers[i].conn # owner[fd[t]]
    /\ fd[Main] = fd[Acceptor] => fd[Main] = 0

\* Slot i answers for its descriptor.
Answers(i) ==
    \/ peers[i].active
    \/ reader[i] \in {"read", "handle", "relay", "send", "lost"}
    \/ MainAt("stop_close") /\ stop_i = i

\* As long as connections are made, the descriptor of such a slot is open, so that
\* its number is not given out again.
Owned ==
    \A i \in DOMAIN peers : Answers(i) =>
        \/ owner[peers[i].fd] = peers[i].conn
        \/ owner[peers[i].fd] = Nobody /\ pc[Main] \in Late

\* A reader that has given its peer up has made the slot inactive, and nobody else
\* does before node_stop.
Given ==
    \A i \in DOMAIN peers :
        /\ reader[i] = "lost" => ~ peers[i].active
        /\ running /\ reader[i] \in {"read", "handle", "relay", "send"} => peers[i].active

TableInv ==
    /\ TableTypes /\ OwnersApart /\ SlotsApart /\ Phases /\ Adding /\ Owned /\ Given
    /\ ServedOrClosed

\* Names are no numbers.
LEMMA Names ==
    /\ Main # Acceptor /\ Nobody # Destroyed
    /\ Nobody \notin Int /\ Destroyed \notin Int /\ Main \notin Int /\ Acceptor \notin Int
    /\ MaxConns \in Nat /\ MAX_PEERS \in Nat \ {0}
    /\ Main \in Adders /\ Acceptor \in Adders
    /\ \A t \in Adders : t = Main \/ t = Acceptor
    /\ Server \in Descriptors /\ 0 \notin Descriptors
    /\ 0 \notin Conns /\ Nobody \notin Conns
BY NameAssumption, TableAssumption DEF Adders, Server, Descriptors, Conns

\* The slots, by their numbers.
LEMMA Slotted ==
    ASSUME TableTypes
    PROVE  /\ Len(peers) \in Nat /\ DOMAIN peers = 1 .. Len(peers) /\ Len(peers) <= MAX_PEERS
           /\ DOMAIN peers \subseteq Slots
           /\ \A i \in DOMAIN peers : /\ peers[i].fd \in Descriptors /\ peers[i].conn \in Conns
                                      /\ peers[i].conn # Nobody
                                      /\ peers[i].active \in BOOLEAN
                                      /\ peers[i] = [fd |-> peers[i].fd, conn |-> peers[i].conn,
                                                     active |-> peers[i].active]
<1> DEFINE S == [fd : Descriptors, conn : Conns, active : BOOLEAN]
<1>1. peers \in Seq(S) /\ Len(peers) <= MAX_PEERS
  BY DEF TableTypes, TableTypeOK
<1>2. Len(peers) \in Nat /\ DOMAIN peers = 1 .. Len(peers) /\ \A i \in DOMAIN peers : peers[i] \in S
  BY <1>1, LenProperties, ElementOfSeq
<1>3. DOMAIN peers \subseteq Slots
  BY <1>1, <1>2, Names DEF Slots
<1>4. \A i \in DOMAIN peers : peers[i].conn # Nobody
  BY <1>2, Names
<1> QED BY <1>1, <1>2, <1>3, <1>4

\* TableInv holds before the first start.
LEMMA TableInvInit == Init => TableInv
<1> SUFFICES ASSUME Init PROVE TableInv
  OBVIOUS
<1> USE DEF Init
<1>1. peers = << >> /\ Len(<< >>) = 0 /\ DOMAIN << >> = {}
  OBVIOUS
<1>2. TableTypes
  <2>1. << >> \in Seq([fd : Descriptors, conn : Conns, active : BOOLEAN])
    BY EmptySeq
  <2>2. TableTypeOK
    <3>1. conns \in 0 .. MaxConns /\ Len(peers) <= MAX_PEERS
      BY <1>1, Names
    <3>2. /\ owner \in [Descriptors -> {Nobody} \cup 0 .. MaxConns]
          /\ reader \in [Slots -> {"none", "read", "handle", "relay", "send", "lost", "done"}]
          /\ fd \in [Adders -> {0} \cup Descriptors]
          /\ target \in [Senders -> {0} \cup Slots]
      OBVIOUS
    <3> QED BY <2>1, <3>1, <3>2 DEF TableTypeOK
  <2>3. pc \in [Adders -> Points] /\ stop_i \in 0 .. MAX_PEERS + 1
    BY Names DEF Points
  <2> QED BY <2>2, <2>3 DEF TableTypes
<1>3. OwnersApart
  BY DEF OwnersApart
<1>4. SlotsApart /\ Owned /\ Given
  BY <1>1 DEF SlotsApart, Owned, Given
<1>5. Phases
  BY <1>1, Names DEF Phases, Early, Late
<1>6. Adding
  BY Names DEF Adding
<1>7. ServedOrClosed
  BY DEF ServedOrClosed
<1> QED BY <1>2, <1>3, <1>4, <1>5, <1>6, <1>7 DEF TableInv

-----------------------------------------------------------------------------
(* One lemma for each kind of step *)

\* Main goes on, perhaps with peers_lock or without, and perhaps clears running.
LEMMA MainGoesOn ==
    ASSUME TableInv, NEW point \in Points,
           UNCHANGED <<owner, conns, broken, peers, reader, fd>>,
           pc' = [pc EXCEPT ![Main] = point],
           lock' \in {Nobody, Destroyed} \cup Adders \cup Slots,
           running' \in BOOLEAN, running' => running,
           target' \in [Senders -> {0} \cup Slots],
           stop_i' \in 0 .. MAX_PEERS + 1,
           pc[Main] # "add", point # "add",
           pc[Main] \in Early <=> point \in Early,
           pc[Main] \in Late <=> point \in Late,
           point \in Late \cup {"stop_server"} => ~ running',
           point \in {"stop_peers", "stop_close"} => stop_i' >= 1,
           point = "stop_close" => /\ stop_i' \in DOMAIN peers
                                   /\ peers[stop_i'].active
    PROVE  TableInv'
<1> USE DEF TableInv
<1>1. /\ pc' \in [Adders -> Points] /\ pc'[Main] = point
      /\ pc'[Acceptor] = pc[Acceptor]
  BY Names DEF TableTypes
<1>2. TableTypes'
  BY <1>1 DEF TableTypes, TableTypeOK
<1>3. OwnersApart' /\ SlotsApart'
  BY DEF OwnersApart, SlotsApart
<1>4. Phases'
  <2>0. DOMAIN peers = 1 .. Len(peers) /\ Len(peers) \in Nat
    BY Slotted
  <2>1. ASSUME point = "stop_close" PROVE stop_i' <= Len(peers)
    <3>1. stop_i' \in DOMAIN peers
      BY <2>1
    <3> QED BY ONLY <2>0, <3>1
  <2>2. point \in Early => /\ peers = << >> /\ ~ running'
                           /\ \A f \in Descriptors : owner[f] = Nobody
                           /\ \A t \in Adders : fd[t] = 0 /\ pc'[t] # "add"
    BY <1>1, Names DEF Phases
  <2>3. /\ point \notin Early \cup Late => owner[Server] = 0
        /\ point \in Late => owner[Server] = Nobody
    BY DEF Phases
  <2> QED BY <1>1, <2>1, <2>2, <2>3 DEF Phases
<1>5. Adding'
  BY <1>1, Names DEF Adding
<1>6. Owned'
  <2>1. \A i \in DOMAIN peers : Answers(i)' => Answers(i)
    BY <1>1 DEF Answers, MainAt
  <2> QED BY <1>1, <2>1 DEF Owned
<1>7. Given'
  BY DEF Given
<1>8. ServedOrClosed'
  BY DEF ServedOrClosed
<1> QED BY <1>2, <1>3, <1>4, <1>5, <1>6, <1>7, <1>8

\* The reader of slot i goes on, or stops when the slot is no longer active or the
\* node stops.
LEMMA ReaderGoesOn ==
    ASSUME TableInv, NEW i \in DOMAIN peers, NEW point \in {"read", "handle", "relay", "send", "done"},
           reader[i] \in {"read", "handle", "relay", "send"},
           point = "done" => ~ (running /\ peers[i].active),
           reader' = [reader EXCEPT ![i] = point],
           lock' \in {Nobody, Destroyed} \cup Adders \cup Slots,
           target' \in [Senders -> {0} \cup Slots],
           UNCHANGED <<owner, conns, broken, peers, running, pc, fd, stop_i>>
    PROVE  TableInv'
<1> USE DEF TableInv
<1>1. /\ reader' \in [Slots -> {"none", "read", "handle", "relay", "send", "lost", "done"}]
      /\ reader'[i] = point /\ \A j \in DOMAIN peers \ {i} : reader'[j] = reader[j]
  BY Slotted DEF TableTypes, TableTypeOK
<1>2. TableTypes'
  BY <1>1 DEF TableTypes, TableTypeOK
<1>3. OwnersApart' /\ SlotsApart' /\ Adding'
  BY DEF OwnersApart, SlotsApart, Adding
<1>4. Phases'
  BY DEF Phases
<1>5. Owned'
  <2>1. \A j \in DOMAIN peers : Answers(j)' => Answers(j)
    BY <1>1 DEF Answers, MainAt
  <2> QED BY <2>1 DEF Owned
<1>6. Given'
  BY <1>1 DEF Given
<1>7. ServedOrClosed'
  <2>1. running => point # "done"
    BY DEF Given
  <2> QED BY <1>1, <2>1 DEF ServedOrClosed
<1> QED BY <1>2, <1>3, <1>4, <1>5, <1>6, <1>7

\* While a connection can still be made there is a free descriptor: the listening
\* socket and the connections that were made do not take them all.
LEMMA FreeDescriptor ==
    ASSUME TableTypes, OwnersApart, conns < MaxConns
    PROVE  LowestFree \in Descriptors /\ owner[LowestFree] = Nobody
<1>1. conns \in Nat /\ MaxConns \in Nat
  BY Names DEF TableTypes, TableTypeOK
<1>2. \E f \in Descriptors : owner[f] = Nobody
  <2> SUFFICES ASSUME \A f \in Descriptors : owner[f] # Nobody PROVE FALSE
    OBVIOUS
  <2>1. owner \in [Descriptors -> 0 .. conns]
    <3>1. \A f \in Descriptors : owner[f] \in 0 .. conns
      BY <1>1 DEF TableTypes, TableTypeOK, OwnersApart
    <3> QED BY <3>1 DEF TableTypes, TableTypeOK
  <2>2. IsFiniteSet(Descriptors) /\ Cardinality(Descriptors) = MaxConns + 1
    <3>1. /\ IsFiniteSet(3 .. MaxConns + 3)
          /\ Cardinality(3 .. MaxConns + 3)
                = IF 3 > MaxConns + 3 THEN 0 ELSE MaxConns + 3 - 3 + 1
      BY <1>1, FS_Interval
    <3> QED BY <1>1, <3>1 DEF Descriptors
  <2>3. IsFiniteSet(0 .. conns) /\ Cardinality(0 .. conns) = conns + 1
    <3>1. /\ IsFiniteSet(0 .. conns)
          /\ Cardinality(0 .. conns) = IF 0 > conns THEN 0 ELSE conns - 0 + 1
      BY <1>1, FS_Interval
    <3> QED BY <1>1, <3>1
  <2>4. \E f, g \in Descriptors : f # g /\ owner[f] = owner[g]
    <3>1. Cardinality(0 .. conns) < Cardinality(Descriptors)
      BY <1>1, <2>2, <2>3
    <3> QED BY <2>1, <2>2, <2>3, <3>1, FS_PigeonHole
  <2> QED BY <2>4 DEF OwnersApart
<1>3. LowestFree \in {f \in Descriptors : owner[f] = Nobody}
  <2> DEFINE F == {f \in Descriptors : owner[f] = Nobody}
  <2>1. F \subseteq Nat /\ F # {}
    BY <1>1, <1>2 DEF Descriptors
  <2>2. Min(F) \in F
    <3> HIDE DEF F
    <3> QED BY <2>1, MinProperties
  <2> QED BY <2>2 DEF LowestFree
<1> QED BY <1>3

\* A thread gets a new connection: its number is new, and its descriptor is one
\* that no slot answers for.
LEMMA ConnectionMade ==
    ASSUME TableInv, NEW t \in Adders, NewConnection(t), stop_i' = stop_i,
           pc[t] # "add", pc[Main] \notin Early \cup Late
    PROVE  TableInv'
<1> USE DEF TableInv
<1> DEFINE f == LowestFree
           c == conns + 1
<1>1. f \in Descriptors /\ owner[f] = Nobody
  BY FreeDescriptor DEF NewConnection
<1>2. /\ conns \in Nat /\ MaxConns \in Nat /\ conns' = c
      /\ c \in Conns /\ c \in 0 .. MaxConns /\ c \in Nat /\ c > conns
  <2>1. conns \in 0 .. MaxConns /\ MaxConns \in Nat
    BY Names DEF TableTypes, TableTypeOK
  <2>2. conns < MaxConns /\ conns' = conns + 1
    BY DEF NewConnection
  <2> QED BY ONLY <2>1, <2>2 DEF Conns, c
<1>3. /\ owner' = [owner EXCEPT ![f] = c] /\ fd' = [fd EXCEPT ![t] = f]
      /\ pc' = [pc EXCEPT ![t] = "add"]
      /\ UNCHANGED <<broken, target, peers, reader, lock, running>>
  BY <1>2 DEF NewConnection
<1> HIDE DEF f, c
<1>4. /\ owner \in [Descriptors -> {Nobody} \cup 0 .. MaxConns]
      /\ owner' \in [Descriptors -> {Nobody} \cup 0 .. MaxConns]
      /\ owner'[f] = c /\ \A g \in Descriptors \ {f} : owner'[g] = owner[g]
  BY <1>1, <1>2, <1>3 DEF TableTypes, TableTypeOK
<1>5. /\ pc' \in [Adders -> Points] /\ pc'[t] = "add"
      /\ \A s \in Adders \ {t} : pc'[s] = pc[s]
  BY <1>3 DEF TableTypes, Points
<1>6. /\ fd' \in [Adders -> {0} \cup Descriptors] /\ fd'[t] = f
      /\ \A s \in Adders \ {t} : fd'[s] = fd[s]
  BY <1>1, <1>3 DEF TableTypes, TableTypeOK
<1>7. \A g \in Descriptors : owner[g] # Nobody => owner[g] < c /\ owner[g] \in Nat /\ g # f
  <2> SUFFICES ASSUME NEW g \in Descriptors, owner[g] # Nobody
               PROVE  owner[g] < c /\ owner[g] \in Nat /\ g # f
    OBVIOUS
  <2>1. owner[g] \in 0 .. MaxConns /\ owner[g] <= conns /\ g # f
    BY <1>1, <1>4 DEF OwnersApart
  <2> QED BY <1>2, <2>1
<1>8. TableTypes'
  BY <1>2, <1>3, <1>4, <1>5, <1>6 DEF TableTypes, TableTypeOK
<1>9. OwnersApart'
  <2>0. \A g \in Descriptors : owner[g] # Nobody => owner[g] <= c /\ owner[g] # c
    BY <1>2, <1>7
  <2>1. \A g, h \in Descriptors : owner'[g] = owner'[h] /\ owner'[g] # Nobody => g = h
    BY <1>4, <2>0 DEF OwnersApart
  <2>2. \A g \in Descriptors : owner'[g] # Nobody => owner'[g] <= c
    BY <1>2, <1>4, <2>0
  <2> QED BY <1>2, <2>1, <2>2 DEF OwnersApart
<1>10. SlotsApart' /\ \A i \in DOMAIN peers : peers[i].conn # c
  <2>0. Conns \subseteq Nat
    BY <1>2 DEF Conns
  <2>1. \A i \in DOMAIN peers : peers[i].conn <= conns /\ peers[i].conn \in Nat
    BY <2>0, Slotted DEF SlotsApart
  <2>2. \A i \in DOMAIN peers : peers[i].conn <= c /\ peers[i].conn # c
    BY <1>2, <2>1
  <2> QED BY <1>2, <1>3, <2>2 DEF SlotsApart
<1>11. Phases'
  <2>1. owner[Server] = 0 /\ Server # f
    <3>1. owner[Server] = 0
      BY DEF Phases
    <3> QED BY <1>1, <3>1, Names
  <2>2. owner'[Server] = 0
    BY <1>4, <2>1, Names
  <2>3. pc'[Main] \notin Early \cup Late
    BY <1>5, Names DEF Early, Late
  <2>4. pc'[Main] = "stop_server" => pc[Main] = "stop_server"
    BY <1>5, Names
  <2> QED BY <1>3, <2>2, <2>3, <2>4 DEF Phases, Late
<1>12. Adding'
  <2>1. f # 0
    BY <1>1, Names DEF Descriptors
  <2>2. \A s \in Adders \ {t} : fd[s] # 0 => fd[s] # f /\ owner'[fd[s]] = owner[fd[s]]
    <3>1. \A s \in Adders : fd[s] # 0 => fd[s] \in Descriptors
      BY DEF TableTypes, TableTypeOK
    <3>2. \A s \in Adders : fd[s] # 0 => owner[fd[s]] # Nobody
      BY Names DEF Adding, Conns
    <3> QED BY <1>1, <1>4, <3>1, <3>2
  <2>3. \A s \in Adders : pc'[s] = "add" <=> fd'[s] # 0
    BY <1>5, <1>6, <2>1 DEF Adding
  <2>4. ASSUME NEW s \in Adders, fd'[s] # 0
        PROVE  owner'[fd'[s]] \in Conns /\ \A i \in DOMAIN peers : peers[i].conn # owner'[fd'[s]]
    <3>1. CASE s = t
      BY <1>2, <1>4, <1>6, <1>10, <3>1
    <3>2. CASE s # t
      BY <1>6, <2>2, <2>4, <3>2 DEF Adding
    <3> QED BY <3>1, <3>2
  <2>5. fd'[Main] = fd'[Acceptor] => fd'[Main] = 0
    <3>1. \A s \in Adders \ {t} : fd'[s] # fd'[t]
      BY <1>6, <2>1, <2>2
    <3>2. \/ Main \in Adders \ {t} /\ t = Acceptor
          \/ Acceptor \in Adders \ {t} /\ t = Main
      BY Names
    <3> QED BY <3>1, <3>2
  <2> QED BY <1>3, <2>3, <2>4, <2>5 DEF Adding
<1>13. Owned'
  <2>1. \A i \in DOMAIN peers : Answers(i)' => Answers(i)
    BY <1>3, <1>5, Names DEF Answers, MainAt
  <2>2. \A i \in DOMAIN peers : Answers(i) => owner[peers[i].fd] = peers[i].conn
    BY DEF Owned
  <2>3. \A i \in DOMAIN peers : Answers(i) => owner'[peers[i].fd] = peers[i].conn
    <3>1. \A i \in DOMAIN peers : peers[i].conn # Nobody /\ peers[i].fd \in Descriptors
      BY Slotted
    <3> QED BY <1>1, <1>4, <2>2, <3>1
  <2> QED BY <1>3, <2>1, <2>3 DEF Owned
<1>14. Given'
  BY <1>3 DEF Given
<1>15. ServedOrClosed'
  <2>1. \A s \in Adders : s = t \/ fd'[s] = fd[s]
    BY <1>6
  <2>2. fd[t] = 0
    BY DEF Adding
  <2>3. ASSUME running, NEW g \in Descriptors, owner'[g] \in Conns
        PROVE  \/ \E s \in Adders : fd'[s] = g
               \/ \E i \in DOMAIN peers : /\ peers[i].fd = g /\ peers[i].conn = owner'[g]
                                          /\ reader[i] \notin {"none", "done"}
    <3>1. CASE g = f
      BY <1>6, <3>1
    <3>2. CASE g # f
      <4>1. owner'[g] = owner[g] /\ g # 0
        BY <1>4, <2>3, <3>2, Names
      <4>2. CASE \E s \in Adders : fd[s] = g
        BY <2>1, <2>2, <4>1, <4>2
      <4>3. CASE \E i \in DOMAIN peers : /\ peers[i].fd = g /\ peers[i].conn = owner[g]
                                         /\ reader[i] \notin {"none", "done"}
        BY <4>1, <4>3
      <4> QED BY <2>3, <4>1, <4>2, <4>3 DEF ServedOrClosed
    <3> QED BY <3>1, <3>2
  <2> QED BY <1>3, <2>3 DEF ServedOrClosed
<1> QED BY <1>8, <1>9, <1>10, <1>11, <1>12, <1>13, <1>14, <1>15

\* Descriptor f is closed.  A slot that answers for it is that of a reader that has
\* given it up, or node_stop is closing them all.
LEMMA ClosedFacts ==
    ASSUME TableTypes, OwnersApart, NEW f \in Descriptors, owner' = Closed(f)
    PROVE  /\ owner' \in [Descriptors -> {Nobody} \cup 0 .. MaxConns]
           /\ owner'[f] = Nobody /\ \A g \in Descriptors \ {f} : owner'[g] = owner[g]
           /\ \A g, h \in Descriptors : owner'[g] = owner'[h] /\ owner'[g] # Nobody => g = h
           /\ \A g \in Descriptors : owner'[g] # Nobody => owner'[g] <= conns
<1>1. /\ owner' \in [Descriptors -> {Nobody} \cup 0 .. MaxConns]
      /\ owner'[f] = Nobody /\ \A g \in Descriptors \ {f} : owner'[g] = owner[g]
  BY DEF Closed, TableTypes, TableTypeOK
<1> QED BY <1>1 DEF OwnersApart

\* A thread of the two goes on from adding; its descriptor is in a slot or closed.
LEMMA TableFull ==
    ASSUME TableInv, NEW t \in Adders, AddFull(t), stop_i' = stop_i
    PROVE  TableInv'
<1> USE DEF TableInv
<1> DEFINE f == fd[t]
           point == AfterAdding(t)
<1>1. /\ f \in Descriptors /\ f # 0 /\ pc[t] = "add"
      /\ owner[f] \in Conns /\ \A i \in DOMAIN peers : peers[i].conn # owner[f]
  BY DEF AddFull, Adding, TableTypes, TableTypeOK
<1>2. point \in {"gone", "loop"}
  BY DEF AfterAdding
<1>3. /\ owner' = Closed(f) /\ fd' = [fd EXCEPT ![t] = 0]
      /\ pc' = [pc EXCEPT ![t] = point]
      /\ UNCHANGED <<conns, broken, target, peers, reader, lock, running>>
  BY DEF AddFull
<1> HIDE DEF point, f
<1>4. /\ owner' \in [Descriptors -> {Nobody} \cup 0 .. MaxConns]
      /\ owner'[f] = Nobody /\ \A g \in Descriptors \ {f} : owner'[g] = owner[g]
      /\ OwnersApart'
  <2>1. UNCHANGED conns
    BY <1>3
  <2> QED BY <1>1, <1>3, <2>1, ClosedFacts DEF OwnersApart
<1>5. /\ pc' \in [Adders -> Points] /\ pc'[t] = point
      /\ \A s \in Adders \ {t} : pc'[s] = pc[s]
  BY <1>2, <1>3 DEF TableTypes, Points
<1>6. /\ fd' \in [Adders -> {0} \cup Descriptors] /\ fd'[t] = 0
      /\ \A s \in Adders \ {t} : fd'[s] = fd[s]
  BY <1>3 DEF TableTypes, TableTypeOK
<1>7. TableTypes'
  BY <1>3, <1>4, <1>5, <1>6 DEF TableTypes, TableTypeOK
<1>8. SlotsApart'
  BY <1>3 DEF SlotsApart
<1>9. pc[Main] \notin Early
  BY <1>1 DEF Phases
<1>10. Phases'
  <2>1. owner[Server] = 0 \/ owner[Server] = Nobody
    BY <1>9 DEF Phases
  <2>2. owner'[Server] = owner[Server]
    BY <1>1, <1>4, <2>1, Names DEF Conns
  <2>3. /\ pc'[Main] \notin Early
        /\ pc'[Main] \in Late <=> pc[Main] \in Late
        /\ pc'[Main] \in {"stop_server", "stop_peers", "stop_close"} => pc'[Main] = pc[Main]
    BY <1>1, <1>2, <1>5, <1>9, Names DEF Early, Late
  <2>4. stop_i' = stop_i /\ running' = running /\ Len(peers') = Len(peers)
    BY <1>3
  <2> QED BY <1>9, <2>2, <2>3, <2>4 DEF Phases, Late
<1>11. Adding'
  <2>1. \A s \in Adders \ {t} : fd[s] # 0 => fd[s] # f /\ fd[s] \in Descriptors
    BY <1>1, Names DEF Adding, TableTypes, TableTypeOK, f
  <2>2. \A s \in Adders : pc'[s] = "add" <=> fd'[s] # 0
    BY <1>2, <1>5, <1>6 DEF Adding
  <2>3. \A s \in Adders : fd'[s] # 0 =>
           owner'[fd'[s]] \in Conns /\ \A i \in DOMAIN peers : peers[i].conn # owner'[fd'[s]]
    BY <1>4, <1>6, <2>1 DEF Adding
  <2>4. fd'[Main] = fd'[Acceptor] => fd'[Main] = 0
    BY <1>6, Names
  <2> QED BY <1>3, <2>2, <2>3, <2>4 DEF Adding
<1>12. Owned'
  <2>1. \A i \in DOMAIN peers : Answers(i)' => Answers(i)
    BY <1>1, <1>2, <1>3, <1>5, Names DEF Answers, MainAt
  <2>2. pc[Main] \in Late => pc'[Main] \in Late
    BY <1>1, <1>5, Names DEF Late
  <2>3. \A i \in DOMAIN peers : Answers(i) =>
           owner'[peers[i].fd] = peers[i].conn \/ (owner'[peers[i].fd] = Nobody /\ pc[Main] \in Late)
    <3>1. \A i \in DOMAIN peers : peers[i].fd \in Descriptors
      BY Slotted
    <3> QED BY <1>1, <1>4, <3>1, Names DEF Owned, Conns
  <2> QED BY <1>3, <2>1, <2>2, <2>3 DEF Owned
<1>13. Given'
  BY <1>3 DEF Given
<1>14. ServedOrClosed'
  <2>1. ASSUME running, NEW g \in Descriptors, owner'[g] \in Conns
        PROVE  \/ \E s \in Adders : fd'[s] = g
               \/ \E i \in DOMAIN peers : /\ peers[i].fd = g /\ peers[i].conn = owner'[g]
                                          /\ reader[i] \notin {"none", "done"}
    <3>1. g # f /\ owner'[g] = owner[g]
      BY <1>4, <2>1, Names DEF Conns
    <3> QED BY <1>6, <2>1, <3>1 DEF ServedOrClosed, f
  <2> QED BY <1>3, <2>1 DEF ServedOrClosed
<1> QED BY <1>4, <1>7, <1>8, <1>10, <1>11, <1>12, <1>13, <1>14

\* What a thread has added is a slot of its own, which answers for the descriptor.
LEMMA SlotAdded ==
    ASSUME TableInv, NEW t \in Adders, AddSlot(t), stop_i' = stop_i
    PROVE  TableInv'
<1> USE DEF TableInv
<1> DEFINE f == fd[t]
           point == AfterAdding(t)
           n == Len(peers) + 1
           new == [fd |-> f, conn |-> owner[f], active |-> TRUE]
           start == IF running THEN "read" ELSE "done"
           SlotType == [fd : Descriptors, conn : Conns, active : BOOLEAN]
<1>1. /\ f \in Descriptors /\ f # 0 /\ pc[t] = "add"
      /\ owner[f] \in Conns /\ \A i \in DOMAIN peers : peers[i].conn # owner[f]
  BY DEF AddSlot, Adding, TableTypes, TableTypeOK
<1>2. point \in {"gone", "loop"}
  BY DEF AfterAdding
<1>3. /\ peers' = Append(peers, new) /\ reader' = [reader EXCEPT ![n] = start]
      /\ fd' = [fd EXCEPT ![t] = 0] /\ pc' = [pc EXCEPT ![t] = point]
      /\ UNCHANGED <<owner, conns, broken, target, lock, running>> /\ Len(peers) < MAX_PEERS
  BY DEF AddSlot
<1>4. Len(peers) \in Nat /\ DOMAIN peers = 1 .. Len(peers) /\ n \in Slots /\ n \notin DOMAIN peers
  BY <1>3, Slotted, Names DEF Slots
<1>5. /\ peers \in Seq(SlotType) /\ new \in SlotType
      /\ peers' \in Seq(SlotType) /\ Len(peers') = n
      /\ peers'[n] = new /\ \A i \in DOMAIN peers : peers'[i] = peers[i]
  <2>1. peers \in Seq(SlotType) /\ new \in SlotType
    BY <1>1 DEF TableTypes, TableTypeOK
  <2> HIDE DEF new, SlotType
  <2> QED BY <1>3, <1>4, <2>1, AppendProperties
<1>6. DOMAIN peers' = 1 .. n /\ DOMAIN peers' = DOMAIN peers \cup {n}
  <2>1. DOMAIN peers' = 1 .. n
    <3> HIDE DEF n, SlotType
    <3> QED BY <1>5, LenProperties
  <2> QED BY <1>4, <2>1
<1>7. new.fd = f /\ new.conn = owner[f] /\ new.active
  OBVIOUS
<1>8. start \in {"read", "done"} /\ (running => start = "read")
  OBVIOUS
<1> HIDE DEF point, f, n, new, start, SlotType
<1>9. /\ reader' \in [Slots -> {"none", "read", "handle", "relay", "send", "lost", "done"}]
      /\ reader'[n] = start /\ \A i \in DOMAIN peers : reader'[i] = reader[i]
  BY <1>3, <1>4, <1>8 DEF TableTypes, TableTypeOK
<1>10. /\ pc' \in [Adders -> Points] /\ pc'[t] = point
       /\ \A s \in Adders \ {t} : pc'[s] = pc[s]
  BY <1>2, <1>3 DEF TableTypes, Points
<1>11. /\ fd' \in [Adders -> {0} \cup Descriptors] /\ fd'[t] = 0
       /\ \A s \in Adders \ {t} : fd'[s] = fd[s]
  BY <1>3 DEF TableTypes, TableTypeOK
<1>12. TableTypes'
  <2>1. Len(peers') <= MAX_PEERS
    BY <1>3, <1>4, <1>5, Names DEF n
  <2>2. TableTypeOK'
    BY <1>3, <1>5, <1>9, <1>11, <2>1 DEF TableTypes, TableTypeOK, SlotType
  <2> QED BY <1>10, <2>2 DEF TableTypes
<1>13. OwnersApart'
  BY <1>3 DEF OwnersApart
<1>14. SlotsApart'
  <2>1. owner[f] <= conns
    BY <1>1, Names DEF OwnersApart
  <2>2. ASSUME NEW i \in DOMAIN peers', NEW j \in DOMAIN peers', peers'[i].conn = peers'[j].conn
        PROVE  i = j
    <3>1. CASE i = n \/ j = n
      <4>1. \A k \in DOMAIN peers : peers'[k].conn # peers'[n].conn
        BY <1>1, <1>5, <1>7
      <4> QED BY <1>6, <2>2, <3>1, <4>1
    <3>2. CASE i \in DOMAIN peers /\ j \in DOMAIN peers
      BY <1>5, <2>2, <3>2 DEF SlotsApart
    <3> QED BY <1>6, <3>1, <3>2
  <2>3. \A i \in DOMAIN peers' : peers'[i].conn <= conns
    BY <1>5, <1>6, <1>7, <2>1 DEF SlotsApart
  <2> QED BY <1>3, <2>2, <2>3 DEF SlotsApart
<1>15. pc[Main] \notin Early
  BY <1>1 DEF Phases
<1>16. Phases'
  <2>1. /\ pc'[Main] \notin Early
        /\ pc'[Main] \in Late <=> pc[Main] \in Late
        /\ pc'[Main] \in {"stop_server", "stop_peers", "stop_close"} => pc'[Main] = pc[Main]
    BY <1>1, <1>2, <1>10, <1>15, Names DEF Early, Late
  <2>2. stop_i' = stop_i /\ running' = running /\ owner' = owner
    BY <1>3
  <2>3. pc'[Main] = "stop_close" => stop_i' <= Len(peers')
    <3>1. pc[Main] = "stop_close" => stop_i <= Len(peers)
      BY DEF Phases
    <3>2. stop_i \in Nat
      BY Names DEF TableTypes
    <3> QED BY <1>4, <1>5, <2>1, <2>2, <3>1, <3>2 DEF n
  <2> QED BY <1>15, <2>1, <2>2, <2>3 DEF Phases, Late
<1>17. Adding'
  <2>1. \A s \in Adders \ {t} : fd[s] # 0 => /\ fd[s] # f /\ fd[s] \in Descriptors
                                             /\ owner[fd[s]] # owner[f]
    <3>1. \A s \in Adders \ {t} : fd[s] # 0 => fd[s] # f /\ fd[s] \in Descriptors
      BY <1>1, Names DEF Adding, TableTypes, TableTypeOK, f
    <3> QED BY <1>1, <3>1, Names DEF OwnersApart
  <2>2. \A s \in Adders : pc'[s] = "add" <=> fd'[s] # 0
    BY <1>2, <1>10, <1>11 DEF Adding
  <2>3. ASSUME NEW s \in Adders, fd'[s] # 0
        PROVE  owner[fd'[s]] \in Conns /\ \A i \in DOMAIN peers' : peers'[i].conn # owner[fd'[s]]
    <3>1. s # t /\ fd'[s] = fd[s]
      BY <1>11, <2>3
    <3>2. owner[fd[s]] \in Conns /\ \A i \in DOMAIN peers : peers[i].conn # owner[fd[s]]
      BY <2>3, <3>1 DEF Adding
    <3>3. owner[fd[s]] # owner[f]
      BY <2>1, <2>3, <3>1
    <3> QED BY <1>5, <1>6, <1>7, <3>1, <3>2, <3>3
  <2>4. fd'[Main] = fd'[Acceptor] => fd'[Main] = 0
    BY <1>11, Names
  <2> QED BY <1>3, <2>2, <2>3, <2>4 DEF Adding
<1>18. Owned'
  <2>1. \A i \in DOMAIN peers : Answers(i)' => Answers(i)
    BY <1>1, <1>2, <1>5, <1>9, <1>10, Names DEF Answers, MainAt
  <2>2. pc[Main] \in Late => pc'[Main] \in Late
    BY <1>1, <1>10, Names DEF Late
  <2>3. ASSUME NEW i \in DOMAIN peers', Answers(i)'
        PROVE  owner[peers'[i].fd] = peers'[i].conn \/ (owner[peers'[i].fd] = Nobody /\ pc'[Main] \in Late)
    <3>1. CASE i = n
      BY <1>5, <1>7, <3>1
    <3>2. CASE i \in DOMAIN peers
      BY <1>5, <2>1, <2>2, <2>3, <3>2 DEF Owned
    <3> QED BY <1>6, <3>1, <3>2
  <2> QED BY <1>3, <2>3 DEF Owned
<1>19. Given'
  <2>1. ASSUME NEW i \in DOMAIN peers'
        PROVE  /\ reader'[i] = "lost" => ~ peers'[i].active
               /\ running /\ reader'[i] \in {"read", "handle", "relay", "send"} => peers'[i].active
    <3>1. CASE i = n
      BY <1>5, <1>7, <1>8, <1>9, <3>1
    <3>2. CASE i \in DOMAIN peers
      BY <1>5, <1>9, <3>2 DEF Given
    <3> QED BY <1>6, <3>1, <3>2
  <2> QED BY <1>3, <2>1 DEF Given
<1>20. ServedOrClosed'
  <2>1. ASSUME running, NEW g \in Descriptors, owner[g] \in Conns
        PROVE  \/ \E s \in Adders : fd'[s] = g
               \/ \E i \in DOMAIN peers' : /\ peers'[i].fd = g /\ peers'[i].conn = owner[g]
                                           /\ reader'[i] \notin {"none", "done"}
    <3>1. CASE g = f
      BY <1>5, <1>6, <1>7, <1>8, <1>9, <2>1, <3>1
    <3>2. CASE g # f /\ \E s \in Adders : fd[s] = g
      BY <1>11, <3>2 DEF f
    <3>3. CASE \E i \in DOMAIN peers : /\ peers[i].fd = g /\ peers[i].conn = owner[g]
                                       /\ reader[i] \notin {"none", "done"}
      BY <1>5, <1>6, <1>9, <3>3
    <3> QED BY <2>1, <3>1, <3>2, <3>3 DEF ServedOrClosed
  <2> QED BY <1>3, <2>1 DEF ServedOrClosed
<1> QED BY <1>12, <1>13, <1>14, <1>16, <1>17, <1>18, <1>19, <1>20

\* The accept thread ends.
LEMMA AcceptorGone ==
    ASSUME TableInv, AcceptEnds, stop_i' = stop_i
    PROVE  TableInv'
<1> USE DEF TableInv
<1>1. /\ pc' \in [Adders -> Points] /\ pc'[Acceptor] = "gone" /\ pc'[Main] = pc[Main]
      /\ pc[Acceptor] # "add"
  BY Names DEF AcceptEnds, TableTypes, Points
<1>2. UNCHANGED <<owner, conns, broken, target, peers, reader, lock, running, fd>>
  BY DEF AcceptEnds, tableVars
<1>3. TableTypes' /\ OwnersApart' /\ SlotsApart'
  BY <1>1, <1>2 DEF TableTypes, TableTypeOK, OwnersApart, SlotsApart
<1>4. \A t \in Adders : pc'[t] = "add" <=> pc[t] = "add"
  BY <1>1, Names
<1>5. Phases' /\ Adding'
  BY <1>1, <1>2, <1>4 DEF Phases, Adding
<1>6. Owned' /\ Given' /\ ServedOrClosed'
  BY <1>1, <1>2 DEF Owned, Answers, MainAt, Given, ServedOrClosed
<1> QED BY <1>3, <1>5, <1>6

\* What an assignment to the member `active' leaves.
LEMMA InactiveRecord ==
    ASSUME NEW p, NEW b, p = [fd |-> p.fd, conn |-> p.conn, active |-> p.active]
    PROVE  [p EXCEPT !.active = b] = [fd |-> p.fd, conn |-> p.conn, active |-> b]
OBVIOUS

\* A slot becomes inactive.
LEMMA SlotInactive ==
    ASSUME TableTypes, NEW i \in DOMAIN peers, peers' = [peers EXCEPT ![i].active = FALSE]
    PROVE  /\ peers' \in Seq([fd : Descriptors, conn : Conns, active : BOOLEAN])
           /\ Len(peers') = Len(peers) /\ DOMAIN peers' = DOMAIN peers
           /\ ~ peers'[i].active /\ \A j \in DOMAIN peers \ {i} : peers'[j] = peers[j]
           /\ \A j \in DOMAIN peers : /\ peers'[j].fd = peers[j].fd
                                      /\ peers'[j].conn = peers[j].conn
<1> DEFINE S == [fd : Descriptors, conn : Conns, active : BOOLEAN]
           new == [fd |-> peers[i].fd, conn |-> peers[i].conn, active |-> FALSE]
<1>1. peers \in Seq(S)
  BY DEF TableTypes, TableTypeOK
<1>2. peers' = [peers EXCEPT ![i] = new]
  <2>1. peers[i] = [fd |-> peers[i].fd, conn |-> peers[i].conn, active |-> peers[i].active]
    BY Slotted
  <2>2. [peers[i] EXCEPT !.active = FALSE] = new
    BY <2>1, InactiveRecord
  <2> QED BY <2>2
<1>3. new \in S
  BY Slotted
<1>4. new.fd = peers[i].fd /\ new.conn = peers[i].conn /\ ~ new.active
  OBVIOUS
<1> HIDE DEF S, new
<1>5. peers' \in Seq(S) /\ Len(peers') = Len(peers)
  <2>1. i \in 1 .. Len(peers)
    BY Slotted
  <2> QED BY ONLY <1>1, <1>2, <1>3, <2>1, ExceptSeq
<1>6. DOMAIN peers' = DOMAIN peers /\ peers'[i] = new
      /\ \A j \in DOMAIN peers \ {i} : peers'[j] = peers[j]
  BY <1>2
<1> QED BY <1>4, <1>5, <1>6 DEF S

\* The descriptor of a slot that answers for it is closed: it was the slot's
\* connection, or closed before, and nobody else's.
LEMMA SlotClosed ==
    ASSUME TableInv, NEW i \in DOMAIN peers, Answers(i), pc[Main] \notin Early,
           owner' = Closed(peers[i].fd)
    PROVE  /\ owner' \in [Descriptors -> {Nobody} \cup 0 .. MaxConns]
           /\ conns' = conns => OwnersApart'
           /\ owner'[peers[i].fd] = Nobody
           /\ \A g \in Descriptors : owner'[g] # Nobody => owner'[g] = owner[g]
           /\ owner'[Server] = owner[Server]
           /\ \A t \in Adders : fd[t] # 0 => owner'[fd[t]] = owner[fd[t]]
           /\ \A j \in DOMAIN peers \ {i} : Answers(j) =>
                 owner'[peers[j].fd] = owner[peers[j].fd]
<1> USE DEF TableInv
<1> DEFINE f == peers[i].fd
           c == peers[i].conn
<1>1. f \in Descriptors /\ c \in Conns /\ c # Nobody
  BY Slotted
<1>2. owner[f] = c \/ owner[f] = Nobody
  BY DEF Owned
<1>3. /\ owner' \in [Descriptors -> {Nobody} \cup 0 .. MaxConns]
      /\ owner'[f] = Nobody /\ \A g \in Descriptors \ {f} : owner'[g] = owner[g]
      /\ conns' = conns => OwnersApart'
  BY <1>1, ClosedFacts DEF OwnersApart
<1>4. \A j \in DOMAIN peers \ {i} : Answers(j) => owner'[peers[j].fd] = owner[peers[j].fd]
  <2> SUFFICES ASSUME NEW j \in DOMAIN peers \ {i}, Answers(j)
               PROVE  owner'[peers[j].fd] = owner[peers[j].fd]
    OBVIOUS
  <2>1. peers[j].conn # c /\ peers[j].fd \in Descriptors
    BY Slotted DEF SlotsApart
  <2>2. owner[peers[j].fd] = peers[j].conn \/ owner[peers[j].fd] = Nobody
    BY DEF Owned
  <2> HIDE DEF f, c
  <2> QED BY <1>2, <1>3, <2>1, <2>2
<1> HIDE DEF f
<1>5. owner'[Server] = owner[Server]
  <2>1. owner[Server] = 0 \/ owner[Server] = Nobody
    BY DEF Phases
  <2> QED BY <1>1, <1>2, <1>3, <2>1, Names
<1>6. \A t \in Adders : fd[t] # 0 => owner'[fd[t]] = owner[fd[t]]
  <2> SUFFICES ASSUME NEW t \in Adders, fd[t] # 0 PROVE owner'[fd[t]] = owner[fd[t]]
    OBVIOUS
  <2>1. fd[t] \in Descriptors
    BY DEF TableTypes, TableTypeOK
  <2>2. owner[fd[t]] # c /\ owner[fd[t]] # Nobody
    BY Names DEF Adding
  <2> QED BY <1>2, <1>3, <2>1, <2>2
<1> QED BY <1>3, <1>4, <1>5, <1>6 DEF f

\* A reader finds that its connection is lost.
LEMMA PeerLost ==
    ASSUME TableInv, NEW i \in Slots, ReadFails(i), stop_i' = stop_i
    PROVE  TableInv'
<1> USE DEF TableInv
<1>1. /\ i \in DOMAIN peers /\ reader[i] = "read" /\ reader' = [reader EXCEPT ![i] = "lost"]
      /\ peers' = [peers EXCEPT ![i].active = FALSE]
      /\ UNCHANGED <<owner, conns, broken, target, lock, running, pc, fd>>
  BY DEF ReadFails, ReaderAt, ReaderTo
<1>2. /\ peers' \in Seq([fd : Descriptors, conn : Conns, active : BOOLEAN])
      /\ Len(peers') = Len(peers) /\ DOMAIN peers' = DOMAIN peers
      /\ ~ peers'[i].active /\ \A j \in DOMAIN peers \ {i} : peers'[j] = peers[j]
      /\ \A j \in DOMAIN peers : /\ peers'[j].fd = peers[j].fd
                                 /\ peers'[j].conn = peers[j].conn
  BY <1>1, SlotInactive
<1>3. /\ reader' \in [Slots -> {"none", "read", "handle", "relay", "send", "lost", "done"}]
      /\ reader'[i] = "lost" /\ \A j \in DOMAIN peers \ {i} : reader'[j] = reader[j]
  BY <1>1, Slotted DEF TableTypes, TableTypeOK
<1>4. TableTypes'
  BY <1>1, <1>2, <1>3 DEF TableTypes, TableTypeOK
<1>5. OwnersApart' /\ SlotsApart' /\ Adding'
  BY <1>1, <1>2 DEF OwnersApart, SlotsApart, Adding
<1>6. Phases'
  <2>1. pc[Main] \notin Early
    BY <1>1 DEF Phases
  <2> QED BY <1>1, <1>2, <2>1 DEF Phases
<1>7. Owned'
  <2>1. \A j \in DOMAIN peers : Answers(j)' => Answers(j)
    BY <1>1, <1>2, <1>3 DEF Answers, MainAt
  <2> QED BY <1>1, <1>2, <2>1 DEF Owned
<1>8. Given'
  BY <1>1, <1>2, <1>3 DEF Given
<1>9. ServedOrClosed'
  <2>1. \A j \in DOMAIN peers : reader[j] \notin {"none", "done"} => reader'[j] \notin {"none", "done"}
    BY <1>3
  <2> QED BY <1>1, <1>2, <2>1 DEF ServedOrClosed
<1> QED BY <1>4, <1>5, <1>6, <1>7, <1>8, <1>9

\* And closes it.
LEMMA LostIsClosed ==
    ASSUME TableInv, NEW i \in Slots, CloseLost(i), stop_i' = stop_i
    PROVE  TableInv'
<1> USE DEF TableInv
<1>1. /\ i \in DOMAIN peers /\ reader[i] = "lost" /\ reader' = [reader EXCEPT ![i] = "done"]
      /\ owner' = Closed(peers[i].fd)
      /\ UNCHANGED <<conns, broken, target, peers, lock, running, pc, fd>>
  BY DEF CloseLost, ReaderAt, ReaderTo
<1>2. Answers(i) /\ ~ peers[i].active /\ pc[Main] \notin Early
  BY <1>1 DEF Answers, Given, Phases
<1>3. /\ owner' \in [Descriptors -> {Nobody} \cup 0 .. MaxConns]
      /\ OwnersApart'
      /\ owner'[peers[i].fd] = Nobody
      /\ \A g \in Descriptors : owner'[g] # Nobody => owner'[g] = owner[g]
      /\ owner'[Server] = owner[Server]
      /\ \A t \in Adders : fd[t] # 0 => owner'[fd[t]] = owner[fd[t]]
      /\ \A j \in DOMAIN peers \ {i} : Answers(j) => owner'[peers[j].fd] = owner[peers[j].fd]
  <2>1. conns' = conns
    BY <1>1
  <2> QED BY <1>1, <1>2, <2>1, SlotClosed
<1>4. /\ reader' \in [Slots -> {"none", "read", "handle", "relay", "send", "lost", "done"}]
      /\ reader'[i] = "done" /\ \A j \in DOMAIN peers \ {i} : reader'[j] = reader[j]
  BY <1>1, Slotted DEF TableTypes, TableTypeOK
<1>5. TableTypes'
  BY <1>1, <1>3, <1>4 DEF TableTypes, TableTypeOK
<1>6. SlotsApart' /\ Phases' /\ Adding'
  BY <1>1, <1>2, <1>3 DEF SlotsApart, Phases, Adding
<1>7. Owned'
  <2>1. \A j \in DOMAIN peers : Answers(j)' => Answers(j)
    BY <1>1, <1>4 DEF Answers, MainAt
  <2>2. ASSUME NEW j \in DOMAIN peers, Answers(j)'
        PROVE  \/ owner'[peers[j].fd] = peers[j].conn
               \/ owner'[peers[j].fd] = Nobody /\ pc[Main] \in Late
    <3>1. CASE j = i
      <4>1. MainAt("stop_close")
        BY <1>1, <1>2, <1>4, <2>2, <3>1 DEF Answers, MainAt
      <4> QED BY <1>3, <3>1, <4>1 DEF MainAt, Late
    <3>2. CASE j # i
      BY <1>3, <2>1, <2>2, <3>2 DEF Owned
    <3> QED BY <3>1, <3>2
  <2> QED BY <1>1, <2>2 DEF Owned
<1>8. Given'
  BY <1>1, <1>4 DEF Given
<1>9. ServedOrClosed'
  <2>1. ASSUME running, NEW g \in Descriptors, owner'[g] \in Conns
        PROVE  \/ \E t \in Adders : fd[t] = g
               \/ \E j \in DOMAIN peers : /\ peers[j].fd = g /\ peers[j].conn = owner'[g]
                                          /\ reader'[j] \notin {"none", "done"}
    <3>1. owner'[g] # Nobody /\ owner'[g] = owner[g] /\ peers[i].fd # g
      BY <1>3, <2>1, Names
    <3>2. CASE \E t \in Adders : fd[t] = g
      BY <3>2
    <3>3. CASE \E j \in DOMAIN peers : /\ peers[j].fd = g /\ peers[j].conn = owner[g]
                                       /\ reader[j] \notin {"none", "done"}
      BY <1>4, <3>1, <3>3
    <3> QED BY <2>1, <3>1, <3>2, <3>3 DEF ServedOrClosed
  <2> QED BY <1>1, <2>1 DEF ServedOrClosed
<1> QED BY <1>3, <1>5, <1>6, <1>7, <1>8, <1>9

\* The process ends, and its table with it.
LEMMA TableGone ==
    ASSUME TableInv, Gone
    PROVE  TableInv'
<1>1. /\ pc' = [t \in Adders |-> "off"] /\ stop_i' = 0
      /\ owner' = [f \in Descriptors |-> Nobody] /\ conns' = MaxConns /\ broken' = {}
      /\ peers' = << >> /\ reader' = [i \in Slots |-> "none"] /\ lock' = Nobody
      /\ ~ running' /\ running' \in BOOLEAN /\ fd' = [t \in Adders |-> 0]
      /\ target' = [t \in Senders |-> 0]
  BY DEF Gone, NoTable
<1>2. Len(<< >>) = 0 /\ DOMAIN << >> = {}
  OBVIOUS
<1>3. TableTypes'
  <2>1. << >> \in Seq([fd : Descriptors, conn : Conns, active : BOOLEAN])
    BY EmptySeq
  <2>2. conns' \in 0 .. MaxConns /\ Len(peers') <= MAX_PEERS
    BY <1>1, <1>2, Names
  <2>3. /\ owner' \in [Descriptors -> {Nobody} \cup 0 .. MaxConns]
        /\ reader' \in [Slots -> {"none", "read", "handle", "relay", "send", "lost", "done"}]
        /\ fd' \in [Adders -> {0} \cup Descriptors]
        /\ target' \in [Senders -> {0} \cup Slots]
    BY <1>1
  <2>4. TableTypeOK'
    BY <1>1, <2>1, <2>2, <2>3 DEF TableTypeOK
  <2>5. pc' \in [Adders -> Points] /\ stop_i' \in 0 .. MAX_PEERS + 1
    BY <1>1, Names DEF Points
  <2> QED BY <2>4, <2>5 DEF TableTypes
<1>4. OwnersApart'
  BY <1>1 DEF OwnersApart
<1>5. SlotsApart' /\ Owned' /\ Given'
  BY <1>1, <1>2 DEF SlotsApart, Owned, Given
<1>6. Phases'
  BY <1>1, Names DEF Phases, Early, Late
<1>7. Adding'
  BY <1>1, Names DEF Adding
<1>8. ServedOrClosed'
  BY <1>1 DEF ServedOrClosed
<1> QED BY <1>3, <1>4, <1>5, <1>6, <1>7, <1>8 DEF TableInv

\* The listening socket opens, and the accept thread starts.
LEMMA NodeStarts ==
    ASSUME TableInv, NodeInit
    PROVE  TableInv'
<1> USE DEF TableInv
<1>1. /\ pc[Main] = "listen" /\ owner' = [owner EXCEPT ![Server] = 0] /\ running' = TRUE
      /\ pc' = [pc EXCEPT ![Main] = "loop", ![Acceptor] = "loop"]
      /\ UNCHANGED <<conns, broken, target, peers, reader, lock, fd, stop_i>>
  BY DEF NodeInit, MainAt, mainVars
<1>2. /\ peers = << >> /\ \A f \in Descriptors : owner[f] = Nobody
      /\ \A t \in Adders : fd[t] = 0
  BY <1>1 DEF Phases, Early
<1>3. DOMAIN << >> = {}
  OBVIOUS
<1>4. /\ owner' \in [Descriptors -> {Nobody} \cup 0 .. MaxConns]
      /\ owner'[Server] = 0 /\ \A f \in Descriptors \ {Server} : owner'[f] = Nobody
  BY <1>1, <1>2, Names DEF TableTypes, TableTypeOK
<1>5. /\ pc' \in [Adders -> Points] /\ pc'[Main] = "loop" /\ pc'[Acceptor] = "loop"
  BY <1>1, Names DEF TableTypes, Points
<1>6. TableTypes'
  BY <1>1, <1>4, <1>5 DEF TableTypes, TableTypeOK
<1>7. OwnersApart'
  <2>1. conns \in 0 .. MaxConns
    BY DEF TableTypes, TableTypeOK
  <2> QED BY <1>1, <1>4, <2>1, Names DEF OwnersApart
<1>8. SlotsApart' /\ Owned' /\ Given'
  BY <1>1, <1>2, <1>3 DEF SlotsApart, Owned, Given
<1>9. Phases'
  BY <1>4, <1>5 DEF Phases, Early, Late
<1>10. Adding'
  BY <1>1, <1>2, <1>5, Names DEF Adding
<1>11. ServedOrClosed'
  BY <1>4, Names DEF ServedOrClosed
<1> QED BY <1>6, <1>7, <1>8, <1>9, <1>10, <1>11

\* node_stop closes the listening socket.
LEMMA ServerClosed ==
    ASSUME TableInv, StopServer
    PROVE  TableInv'
<1> USE DEF TableInv
<1>1. /\ pc[Main] = "stop_server" /\ owner' = Closed(Server)
      /\ pc' = [pc EXCEPT ![Main] = "stop_lock"]
      /\ UNCHANGED <<conns, broken, target, peers, reader, lock, running, fd, stop_i>>
  BY DEF StopServer, MainAt, MainTo, mainVars
<1>2. owner[Server] = 0 /\ ~ running
  BY <1>1 DEF Phases, Early, Late
<1>3. /\ owner' \in [Descriptors -> {Nobody} \cup 0 .. MaxConns]
      /\ owner'[Server] = Nobody
      /\ \A g \in Descriptors \ {Server} : owner'[g] = owner[g]
      /\ OwnersApart'
  <2>1. conns' = conns
    BY <1>1
  <2> QED BY <1>1, <2>1, Names, ClosedFacts DEF OwnersApart
<1>4. /\ pc' \in [Adders -> Points] /\ pc'[Main] = "stop_lock" /\ pc'[Acceptor] = pc[Acceptor]
  BY <1>1, Names DEF TableTypes, Points
<1>5. TableTypes'
  BY <1>1, <1>3, <1>4 DEF TableTypes, TableTypeOK
<1>6. SlotsApart' /\ Given'
  BY <1>1 DEF SlotsApart, Given
<1>7. Phases'
  BY <1>1, <1>2, <1>3, <1>4 DEF Phases, Early, Late
<1>8. Adding'
  <2>1. \A t \in Adders : fd[t] # 0 => fd[t] \in Descriptors \ {Server}
    BY <1>2, Names DEF Adding, TableTypes, TableTypeOK
  <2>2. \A t \in Adders : pc'[t] = "add" <=> pc[t] = "add"
    BY <1>1, <1>4, Names
  <2> QED BY <1>1, <1>3, <2>1, <2>2 DEF Adding
<1>9. Owned'
  <2>1. \A j \in DOMAIN peers : Answers(j)' => Answers(j)
    BY <1>1, <1>4 DEF Answers, MainAt
  <2>2. \A j \in DOMAIN peers : peers[j].fd \in Descriptors /\ peers[j].conn # 0
    BY Slotted, Names
  <2>3. \A j \in DOMAIN peers : Answers(j) => owner'[peers[j].fd] = peers[j].conn
    BY <1>1, <1>2, <1>3, <2>2 DEF Owned, Late
  <2> QED BY <1>1, <2>1, <2>3 DEF Owned
<1>10. ServedOrClosed'
  BY <1>1, <1>2 DEF ServedOrClosed
<1> QED BY <1>3, <1>5, <1>6, <1>7, <1>8, <1>9, <1>10

\* node_stop closes the descriptor of an active slot, perhaps for the second time.
LEMMA PeerStopped ==
    ASSUME TableInv, StopClose
    PROVE  TableInv'
<1> USE DEF TableInv
<1> DEFINE i == stop_i
<1>1. /\ pc[Main] = "stop_close" /\ peers' = [peers EXCEPT ![i].active = FALSE]
      /\ owner' = Closed(peers[i].fd) /\ stop_i' = stop_i + 1
      /\ pc' = [pc EXCEPT ![Main] = "stop_peers"]
      /\ UNCHANGED <<conns, broken, target, reader, lock, running, fd>>
  BY DEF StopClose, MainAt, MainTo
<1>2. /\ i \in DOMAIN peers /\ Answers(i) /\ pc[Main] \notin Early /\ pc[Main] \in Late
      /\ ~ running /\ i \in Nat
  <2>1. pc[Main] \notin Early /\ pc[Main] \in Late
    BY <1>1 DEF Early, Late
  <2>2. /\ i >= 1 /\ i <= Len(peers) /\ ~ running
    BY <1>1, <2>1 DEF Phases
  <2>3. i \in Nat /\ DOMAIN peers = 1 .. Len(peers) /\ Len(peers) \in Nat
    BY Slotted, Names DEF TableTypes
  <2>4. i \in DOMAIN peers
    <3> HIDE DEF i
    <3> QED BY ONLY <2>2, <2>3
  <2>5. Answers(i)
    BY <1>1 DEF Answers, MainAt
  <2> QED BY <2>1, <2>2, <2>3, <2>4, <2>5
<1>3. stop_i' \in 0 .. MAX_PEERS + 1 /\ stop_i' >= 1
  <2>1. i <= MAX_PEERS
    BY <1>2, Slotted, Names
  <2> QED BY <1>1, <1>2, <2>1, Names
<1> HIDE DEF i
<1>4. /\ owner' \in [Descriptors -> {Nobody} \cup 0 .. MaxConns]
      /\ OwnersApart'
      /\ owner'[peers[i].fd] = Nobody
      /\ owner'[Server] = owner[Server]
      /\ \A t \in Adders : fd[t] # 0 => owner'[fd[t]] = owner[fd[t]]
      /\ \A j \in DOMAIN peers \ {i} : Answers(j) => owner'[peers[j].fd] = owner[peers[j].fd]
  <2>1. conns' = conns
    BY <1>1
  <2> QED BY <1>1, <1>2, <2>1, SlotClosed
<1>5. /\ peers' \in Seq([fd : Descriptors, conn : Conns, active : BOOLEAN])
      /\ Len(peers') = Len(peers) /\ DOMAIN peers' = DOMAIN peers
      /\ ~ peers'[i].active /\ \A j \in DOMAIN peers \ {i} : peers'[j] = peers[j]
      /\ \A j \in DOMAIN peers : /\ peers'[j].fd = peers[j].fd
                                 /\ peers'[j].conn = peers[j].conn
  BY <1>1, <1>2, SlotInactive
<1>6. /\ pc' \in [Adders -> Points] /\ pc'[Main] = "stop_peers" /\ pc'[Acceptor] = pc[Acceptor]
  BY <1>1, Names DEF TableTypes, Points
<1>7. TableTypes'
  BY <1>1, <1>3, <1>4, <1>5, <1>6 DEF TableTypes, TableTypeOK
<1>8. SlotsApart' /\ Given'
  BY <1>1, <1>2, <1>5 DEF SlotsApart, Given
<1>9. Phases'
  BY <1>1, <1>2, <1>3, <1>4, <1>5, <1>6 DEF Phases, Early, Late
<1>10. Adding'
  BY <1>1, <1>4, <1>5, <1>6, Names DEF Adding
<1>11. Owned'
  <2>1. pc'[Main] \in Late
    BY <1>6 DEF Late
  <2>2. \A j \in DOMAIN peers \ {i} : Answers(j)' => Answers(j)
    BY <1>1, <1>5, <1>6 DEF Answers, MainAt
  <2>3. ASSUME NEW j \in DOMAIN peers', Answers(j)'
        PROVE  \/ owner'[peers'[j].fd] = peers'[j].conn
               \/ owner'[peers'[j].fd] = Nobody
    <3>1. CASE j = i
      BY <1>2, <1>4, <1>5, <3>1
    <3>2. CASE j # i
      BY <1>4, <1>5, <2>2, <2>3, <3>2 DEF Owned
    <3> QED BY <3>1, <3>2
  <2> QED BY <2>1, <2>3 DEF Owned
<1>12. ServedOrClosed'
  BY <1>1, <1>2 DEF ServedOrClosed
<1> QED BY <1>4, <1>7, <1>8, <1>9, <1>10, <1>11, <1>12

\* The lock has an owner of one of these kinds, whoever takes it or gives it back.
LEMMA Holders ==
    ASSUME TableTypes, NEW t \in Adders \cup Slots
    PROVE  /\ lock \in {Nobody, Destroyed} \cup Adders \cup Slots
           /\ Locked(t) \in {Nobody, Destroyed} \cup Adders \cup Slots
           /\ Unlocked(t) \in {Nobody, Destroyed} \cup Adders \cup Slots
BY DEF TableTypes, TableTypeOK, Locked, Unlocked

\* The next peer to send to is in a slot, and so the thread's target is one.
LEMMA Aimed ==
    ASSUME TableTypes, NEW t \in Senders, NEW k,
           target' = [target EXCEPT ![t] = NextTarget(t, k)]
    PROVE  target' \in [Senders -> {0} \cup Slots]
<1>1. NextTarget(t, k) \in {0} \cup Slots
  <2>1. CASE Targets(t, k) = {}
    BY <2>1 DEF NextTarget
  <2>2. CASE Targets(t, k) # {}
    <3>1. Targets(t, k) \subseteq Slots /\ Targets(t, k) \subseteq Nat
      BY Slotted DEF Targets, Slots
    <3>2. Min(Targets(t, k)) \in Targets(t, k)
      BY <2>2, <3>1, MinProperties
    <3> QED BY <2>2, <3>1, <3>2 DEF NextTarget
  <2> QED BY <2>1, <2>2
<1>2. target \in [Senders -> {0} \cup Slots]
  BY DEF TableTypes, TableTypeOK
<1> QED BY <1>1, <1>2

\* A send returns: the thread that goes through the table is at the next peer.
LEMMA SendKeepsTable ==
    ASSUME TableInv, NEW t \in Senders, SendReturns(t), stop_i' = stop_i
    PROVE  TableInv'
<1>1. UNCHANGED <<owner, conns, broken, peers, reader, lock, running, pc, fd, stop_i>>
  BY DEF SendReturns
<1>2. target' \in [Senders -> {0} \cup Slots]
  BY Aimed DEF SendReturns, TableInv
<1>3. TableTypes' /\ OwnersApart' /\ SlotsApart' /\ Phases' /\ Adding'
  BY <1>1, <1>2 DEF TableInv, TableTypes, TableTypeOK, OwnersApart, SlotsApart, Phases, Adding
<1>4. Owned' /\ Given' /\ ServedOrClosed'
  BY <1>1 DEF TableInv, Owned, Answers, MainAt, Given, ServedOrClosed
<1> QED BY <1>3, <1>4 DEF TableInv

\* The start of main, and the menu.
LEMMA MenuKeepsTable ==
    ASSUME TableInv,
           \/ Start \/ LoadWallet \/ CreateWallet \/ OpenWallet \/ FlushWallet \/ ShowAddress
           \/ ShowMenu \/ EnterQuit \/ EnterBroadcast \/ EnterOther
           \/ BroadcastLock \/ BroadcastUnlock
    PROVE  TableInv'
<1> DEFINE Before == {"off", "load", "create", "save", "flush", "show"}
           Menu == {"loop", "scanf", "broadcast", "send"}
<1>1. \E point \in Points :
         /\ pc' = [pc EXCEPT ![Main] = point]
         /\ \/ pc[Main] \in Before /\ point \in Early
            \/ pc[Main] \in Menu /\ point \in Menu \cup {"stop"}
  BY DEF Start, LoadWallet, CreateWallet, OpenWallet, FlushWallet, ShowAddress, ShowMenu,
         EnterQuit, EnterBroadcast, EnterOther, BroadcastLock, BroadcastUnlock,
         MainAt, MainTo, Points, Early
<1>2. UNCHANGED <<owner, conns, broken, peers, reader, running, fd, stop_i>>
  BY DEF Start, LoadWallet, CreateWallet, OpenWallet, FlushWallet, ShowAddress, ShowMenu,
         EnterQuit, EnterBroadcast, EnterOther, BroadcastLock, BroadcastUnlock,
         tableVars, mainVars
<1>3. lock' = lock \/ lock' = Locked(Main) \/ lock' = Unlocked(Main)
  BY DEF Start, LoadWallet, CreateWallet, OpenWallet, FlushWallet, ShowAddress, ShowMenu,
         EnterQuit, EnterBroadcast, EnterOther, BroadcastLock, BroadcastUnlock, tableVars
<1>4. /\ lock' \in {Nobody, Destroyed} \cup Adders \cup Slots
      /\ stop_i' \in 0 .. MAX_PEERS + 1 /\ running' \in BOOLEAN
  BY <1>2, <1>3, Holders, Names DEF TableInv, TableTypes, TableTypeOK
<1>8. target' \in [Senders -> {0} \cup Slots]
  <2>1. CASE BroadcastLock
    <3>1. target' = [target EXCEPT ![Main] = NextTarget(Main, 0)]
      BY <2>1 DEF BroadcastLock
    <3>2. Main \in Senders
      BY DEF Senders
    <3> QED BY <3>1, <3>2, Aimed DEF TableInv
  <2>2. CASE ~ BroadcastLock
    <3>1. target' = target
      BY <2>2 DEF Start, LoadWallet, CreateWallet, OpenWallet, FlushWallet, ShowAddress,
             ShowMenu, EnterQuit, EnterBroadcast, EnterOther, BroadcastUnlock, tableVars
    <3> QED BY <3>1 DEF TableInv, TableTypes, TableTypeOK
  <2> QED BY <2>1, <2>2
<1>5. PICK point \in Points :
         /\ pc' = [pc EXCEPT ![Main] = point]
         /\ \/ pc[Main] \in Before /\ point \in Early
            \/ pc[Main] \in Menu /\ point \in Menu \cup {"stop"}
  BY <1>1
<1>6. /\ pc[Main] # "add" /\ point # "add"
      /\ pc[Main] \in Early <=> point \in Early
      /\ pc[Main] \in Late <=> point \in Late
      /\ point \notin Late \cup {"stop_server"}
      /\ point \notin {"stop_peers", "stop_close"}
  BY <1>5 DEF Early, Late
<1>7. running' => running
  BY <1>2
<1> HIDE DEF Before, Menu
<1> QED BY ONLY TableInv, <1>2, <1>4, <1>5, <1>6, <1>7, <1>8, MainGoesOn

\* node_stop, but for the steps that close a descriptor.
LEMMA StoppingKeepsTable ==
    ASSUME TableInv, Stop \/ StopLock \/ StopTest \/ StopUnlock \/ StopDestroy
    PROVE  TableInv'
<1>0. target' \in [Senders -> {0} \cup Slots]
  <2>1. target' = target
    BY DEF Stop, StopLock, StopTest, StopUnlock, StopDestroy, tableVars
  <2> QED BY <2>1 DEF TableInv, TableTypes, TableTypeOK
<1>1. CASE Stop
  <2>1. /\ pc[Main] = "stop" /\ ~ running' /\ running' \in BOOLEAN
        /\ pc' = [pc EXCEPT ![Main] = "stop_server"]
        /\ UNCHANGED <<owner, conns, broken, peers, reader, fd, lock, stop_i>>
    BY <1>1 DEF Stop, MainAt, MainTo, mainVars
  <2>2. /\ lock' \in {Nobody, Destroyed} \cup Adders \cup Slots
        /\ stop_i' \in 0 .. MAX_PEERS + 1 /\ "stop_server" \in Points
    BY <2>1, Holders, Names DEF TableInv, TableTypes, Points
  <2>3. "stop" \notin Early \cup Late /\ "stop_server" \notin Early \cup Late
    BY DEF Early, Late
  <2> QED BY ONLY TableInv, <1>0, <2>1, <2>2, <2>3, MainGoesOn
<1>2. CASE StopLock \/ StopUnlock \/ StopDestroy
  <2>1. /\ \/ stop_i' = stop_i
           \/ stop_i' = 1 /\ pc[Main] = "stop_lock"
        /\ UNCHANGED <<owner, conns, broken, peers, reader, fd, running>>
        /\ lock' = Locked(Main) \/ lock' = Unlocked(Main) \/ lock' = Destroyed \/ lock' = lock
    BY <1>2 DEF StopLock, StopUnlock, StopDestroy, MainAt, mainVars
  <2>2. \/ pc[Main] = "stop_lock" /\ pc' = [pc EXCEPT ![Main] = "stop_peers"] /\ stop_i' = 1
        \/ pc[Main] = "stop_peers" /\ pc' = [pc EXCEPT ![Main] = "stop_destroy"]
        \/ pc[Main] = "stop_destroy" /\ pc' = [pc EXCEPT ![Main] = "exit"]
    BY <1>2 DEF StopLock, StopUnlock, StopDestroy, MainAt, MainTo
  <2>3. PICK point \in Points :
           /\ pc' = [pc EXCEPT ![Main] = point]
           /\ point \in {"stop_peers", "stop_destroy", "exit"}
           /\ point = "stop_peers" => stop_i' = 1
    BY <2>2 DEF Points
  <2>4. pc[Main] \in {"stop_lock", "stop_peers", "stop_destroy"} /\ ~ running
    BY <2>2 DEF TableInv, Phases, Late
  <2>5. /\ lock' \in {Nobody, Destroyed} \cup Adders \cup Slots
        /\ stop_i' \in 0 .. MAX_PEERS + 1 /\ running' \in BOOLEAN
    <3>1. lock' \in {Nobody, Destroyed} \cup Adders \cup Slots
      BY <2>1, Holders, Names DEF TableInv
    <3>2. stop_i' \in 0 .. MAX_PEERS + 1
      BY <2>1, Names DEF TableInv, TableTypes
    <3> QED BY <2>1, <3>1, <3>2 DEF TableInv, TableTypes, TableTypeOK
  <2>6. /\ pc[Main] # "add" /\ point # "add"
        /\ pc[Main] \in Early <=> point \in Early
        /\ pc[Main] \in Late <=> point \in Late
        /\ ~ running' /\ point # "stop_close"
        /\ point = "stop_peers" => stop_i' >= 1
    BY <2>1, <2>3, <2>4 DEF Early, Late
  <2> QED BY ONLY TableInv, <1>0, <2>1, <2>3, <2>5, <2>6, MainGoesOn
<1>3. CASE StopTest
  <2>1. /\ pc[Main] = "stop_peers" /\ stop_i <= Len(peers)
        /\ \/ /\ peers[stop_i].active /\ pc' = [pc EXCEPT ![Main] = "stop_close"]
              /\ stop_i' = stop_i
           \/ pc' = pc /\ stop_i' = stop_i + 1
        /\ UNCHANGED <<owner, conns, broken, peers, reader, fd, running, lock>>
    BY <1>3 DEF StopTest, MainAt, MainTo, tableVars
  <2>2. pc[Main] \notin Early /\ pc[Main] \in Late /\ ~ running /\ stop_i >= 1
    BY <2>1 DEF TableInv, Phases, Early, Late
  <2>3. stop_i \in DOMAIN peers /\ stop_i \in Nat /\ stop_i <= MAX_PEERS
    <3>1. stop_i \in Nat /\ DOMAIN peers = 1 .. Len(peers) /\ Len(peers) \in Nat
          /\ Len(peers) <= MAX_PEERS /\ MAX_PEERS \in Nat
      BY Slotted, Names DEF TableInv, TableTypes
    <3> QED BY ONLY <2>1, <2>2, <3>1
  <2>4. /\ stop_i' \in 0 .. MAX_PEERS + 1 /\ stop_i' >= 1
    BY <2>1, <2>2, <2>3, Names
  <2>5. PICK point \in Points :
           /\ pc' = [pc EXCEPT ![Main] = point]
           /\ \/ point = "stop_close" /\ peers[stop_i].active /\ stop_i' = stop_i
              \/ point = "stop_peers"
    <3>1. pc = [pc EXCEPT ![Main] = "stop_peers"]
      BY <2>1, Names DEF TableInv, TableTypes
    <3> QED BY <2>1, <3>1 DEF Points
  <2>6. /\ lock' \in {Nobody, Destroyed} \cup Adders \cup Slots
        /\ running' \in BOOLEAN
    BY <2>1 DEF TableInv, TableTypes, TableTypeOK
  <2>7. /\ pc[Main] # "add" /\ point # "add"
        /\ pc[Main] \in Early <=> point \in Early
        /\ pc[Main] \in Late <=> point \in Late
        /\ ~ running'
        /\ point = "stop_close" => stop_i' \in DOMAIN peers /\ peers[stop_i'].active
    BY <2>1, <2>2, <2>3, <2>5 DEF Early, Late
  <2>8. UNCHANGED <<owner, conns, broken, peers, reader, fd>>
    BY <2>1
  <2> QED BY ONLY TableInv, <1>0, <2>2, <2>4, <2>5, <2>6, <2>7, <2>8, MainGoesOn
<1> QED BY <1>1, <1>2, <1>3

\* The reader of a slot.
LEMMA ReaderKeepsTable ==
    ASSUME TableInv, NEW i \in Slots, ReaderWork(i) \/ ReadMessage(i) \/ HandleMessage(i),
           stop_i' = stop_i
    PROVE  TableInv'
<1>0. i \in Senders
  BY DEF Senders
<1>1. CASE RelayLock(i) \/ RelayUnlock(i) \/ ReadMessage(i) \/ HandleMessage(i)
  <2>1. /\ i \in DOMAIN peers /\ reader[i] \in {"read", "handle", "relay", "send"}
        /\ UNCHANGED <<owner, conns, broken, peers, running, pc, fd, stop_i>>
        /\ lock' = Locked(i) \/ lock' = Unlocked(i) \/ lock' = lock
    BY <1>1 DEF RelayLock, RelayUnlock, ReadMessage, HandleMessage, ReaderAt
  <2>2. PICK point \in {"read", "handle", "relay", "send", "done"} :
           /\ reader' = [reader EXCEPT ![i] = point]
           /\ point = "done" => ~ (running /\ peers[i].active)
    BY <1>1 DEF RelayLock, RelayUnlock, ReadMessage, HandleMessage, ReaderTo, NextRead
  <2>3. lock' \in {Nobody, Destroyed} \cup Adders \cup Slots
    BY <2>1, Holders DEF TableInv
  <2>4. target' \in [Senders -> {0} \cup Slots]
    <3>1. \/ target' = target
          \/ target' = [target EXCEPT ![i] = NextTarget(i, 0)]
      BY <1>1 DEF RelayLock, RelayUnlock, ReadMessage, HandleMessage
    <3>2. target \in [Senders -> {0} \cup Slots] /\ TableTypes
      BY DEF TableInv, TableTypes, TableTypeOK
    <3> QED BY <1>0, <3>1, <3>2, Aimed
  <2> QED BY ONLY TableInv, <2>1, <2>2, <2>3, <2>4, ReaderGoesOn
<1>2. CASE SendFails(i)
  BY <1>0, <1>2, SendKeepsTable DEF SendFails
<1> QED BY <1>1, <1>2, PeerLost, LostIsClosed DEF ReaderWork

\* The other side gives up.
LEMMA BrokenKeepsTable ==
    ASSUME TableInv, NEW c \in Conns, Break(c), stop_i' = stop_i
    PROVE  TableInv'
<1>1. /\ UNCHANGED <<owner, conns, target, peers, reader, lock, running, pc, fd>>
      /\ broken' = broken \cup {c}
  BY DEF Break
<1> USE DEF TableInv
<1>2. TableTypes'
  BY <1>1 DEF TableTypes, TableTypeOK
<1>3. OwnersApart' /\ SlotsApart' /\ Phases' /\ Adding'
  BY <1>1 DEF OwnersApart, SlotsApart, Phases, Adding
<1>4. Owned' /\ Given' /\ ServedOrClosed'
  BY <1>1 DEF Owned, Answers, MainAt, Given, ServedOrClosed
<1> QED BY <1>2, <1>3, <1>4

\* Every step keeps TableInv.
LEMMA TableInvStep == TableInv /\ [Next]_vars => TableInv'
<1> SUFFICES ASSUME TableInv, [Next]_vars PROVE TableInv'
  OBVIOUS
<1>1. CASE Start \/ StartFails \/ Kill
  BY <1>1, MenuKeepsTable, TableGone DEF StartFails, Kill
<1>2. CASE Starting
  BY <1>2, MenuKeepsTable, NodeStarts DEF Starting
<1>3. CASE Stopping
  BY <1>3, StoppingKeepsTable, ServerClosed, PeerStopped, TableGone DEF Stopping, Exit
<1>4. CASE ShowMenu \/ BroadcastLock \/ BroadcastUnlock
  BY <1>4, MenuKeepsTable
<1>5. CASE (AddStep(Main) \/ SendFails(Main)) /\ UNCHANGED <<walletVars, mainVars>>
  <2>1. stop_i' = stop_i /\ Main \in Senders
    BY <1>5 DEF mainVars, Senders
  <2> QED BY <1>5, <2>1, Names, TableFull, SlotAdded, SendKeepsTable DEF AddStep, SendFails
<1>6. CASE Interrupt \/ UNCHANGED vars
  <2>1. UNCHANGED <<owner, conns, broken, target, peers, reader, lock, running, pc, fd,
                    stop_i>>
    BY <1>6 DEF Interrupt, vars, peerVars, tableVars, mainVars
  <2>2. TableTypes' /\ OwnersApart' /\ SlotsApart' /\ Phases' /\ Adding'
    BY <2>1 DEF TableInv, TableTypes, TableTypeOK, OwnersApart, SlotsApart, Phases, Adding
  <2>3. Owned' /\ Given' /\ ServedOrClosed'
    BY <2>1 DEF TableInv, Owned, Answers, MainAt, Given, ServedOrClosed
  <2> QED BY <2>2, <2>3 DEF TableInv
<1>7. CASE EnterQuit \/ EnterBroadcast \/ EnterOther
  BY <1>7, MenuKeepsTable
<1>8. CASE EnterConnect
  <2>1. pc[Main] = "scanf" /\ NewConnection(Main) /\ stop_i' = stop_i
    BY <1>8 DEF EnterConnect, MainAt, mainVars
  <2>2. pc[Main] # "add" /\ pc[Main] \notin Early \cup Late
    BY <2>1 DEF Early, Late
  <2> QED BY ONLY TableInv, <2>1, <2>2, Names, ConnectionMade
<1>9. CASE Threads /\ UNCHANGED <<walletVars, mainVars>>
  <2>1. stop_i' = stop_i
    BY <1>9 DEF mainVars
  <2>2. CASE AcceptStep
    BY <2>1, <2>2, Names, AcceptorGone, TableFull, SlotAdded DEF AcceptStep, AddStep
  <2>3. CASE AcceptConnection
    <3>1. pc[Acceptor] = "loop" /\ NewConnection(Acceptor) /\ owner[Server] = 0
      BY <2>3 DEF AcceptConnection
    <3>2. pc[Acceptor] # "add" /\ pc[Main] \notin Early \cup Late
      BY <3>1, Names DEF TableInv, Phases
    <3> QED BY ONLY TableInv, <2>1, <3>1, <3>2, Names, ConnectionMade
  <2>4. CASE \E i \in Slots : ReaderWork(i) \/ ReadMessage(i) \/ HandleMessage(i)
    BY <2>1, <2>4, ReaderKeepsTable
  <2>6. CASE \E t \in Senders : SendTaken(t)
    BY <2>1, <2>6, SendKeepsTable DEF SendTaken
  <2>5. CASE \E c \in Conns : Break(c)
    BY <2>1, <2>5, BrokenKeepsTable
  <2> QED BY <1>9, <2>2, <2>3, <2>4, <2>5, <2>6 DEF Threads
<1> QED
  BY <1>1, <1>2, <1>3, <1>4, <1>5, <1>6, <1>7, <1>8, <1>9 DEF Next, MainWork, User

\* However the kernel gives numbers of closed descriptors out again, and however
\* peer_handler, add_peer and node_stop run against each other (net.c:176, 195,
\* 316): no thread reads, answers or closes a connection that is not its slot's.
THEOREM DescriptorsOwned == Spec => []DescriptorOwned
<1>1. TableInv => DescriptorOwned
  BY DEF TableInv, Owned, Answers, DescriptorOwned
<1> QED BY TableInvInit, TableInvStep, <1>1, PTL DEF Spec

\* No connection is forgotten while the node runs: not by the early return of
\* add_peer when the table is full (net.c:193), nor by a reader that ends.
THEOREM AllServedOrClosed == Spec => []ServedOrClosed
<1>1. TableInv => ServedOrClosed
  BY DEF TableInv
<1> QED BY TableInvInit, TableInvStep, <1>1, PTL DEF Spec
-----------------------------------------------------------------------------
(* Types *)

\* What the process knows besides the table: main has a key where it saves or
\* shows one.
ProcessTypes ==
    /\ WalletTypeOK
    /\ quit_flag \in BOOLEAN
    /\ starts \in 0 .. MaxStarts
    /\ shown \subseteq Keys
    /\ pc[Main] \in {"save", "flush", "show"} => wallet \in Keys

\* A failure of the disk stays within the bound on failures.
LEMMA FaultCounted ==
    ASSUME WalletTypeOK, DiskFails
    PROVE  disk_faults' \in 0 .. MaxDiskFaults
<1>1. disk_faults \in 0 .. MaxDiskFaults /\ disk_faults < MaxDiskFaults
      /\ disk_faults' = disk_faults + 1 /\ MaxDiskFaults \in Nat
  BY FileAssumption DEF WalletTypeOK, DiskFails
<1> QED BY ONLY <1>1

\* A step that leaves the wallet alone and leads to no point of the start.
LEMMA LaterTypes ==
    ASSUME ProcessTypes,
           UNCHANGED <<walletVars, starts, shown>>, quit_flag' \in BOOLEAN,
           \/ pc'[Main] = pc[Main]
           \/ pc'[Main] \notin {"save", "flush", "show"}
    PROVE  ProcessTypes'
BY DEF ProcessTypes, WalletTypeOK, walletVars

\* Every step keeps the types of the process and its wallet.
LEMMA ProcessTypesStep ==
    ASSUME pc \in [Adders -> Points], ProcessTypes, [Next]_vars
    PROVE  ProcessTypes'
<1> USE DEF MainAt, MainTo
<1>0. Main \in Adders /\ pc[Main] \in Points
  BY DEF Adders
<1>1. CASE Start
  <2>1. pc'[Main] = "load" /\ UNCHANGED <<walletVars, quit_flag, shown>>
    BY <1>0, <1>1 DEF Start
  <2>2. starts' \in 0 .. MaxStarts
    <3>1. /\ starts \in 0 .. MaxStarts /\ starts < MaxStarts /\ starts' = starts + 1
          /\ MaxStarts \in Nat
      BY <1>1, StartsAssumption DEF Start, ProcessTypes
    <3> QED BY ONLY <3>1
  <2> QED BY <2>1, <2>2 DEF ProcessTypes, WalletTypeOK, walletVars
<1>2. CASE LoadWallet
  <2>1. UNCHANGED <<file, keys_made, quit_flag, starts, shown>>
    BY <1>2 DEF LoadWallet, WalletLoad, WalletLoadFails, mainVars
  <2>2. CASE WalletLoad
    <3>1. wallet' \in Keys /\ wallet' \in 0 .. MaxKeys /\ disk_faults' = disk_faults
      BY <2>2, FileAssumption DEF WalletLoad, Keys
    <3> QED BY <2>1, <3>1 DEF ProcessTypes, WalletTypeOK
  <2>3. CASE WalletLoadFails /\ MainTo("create")
    <3>1. wallet' \in 0 .. MaxKeys /\ pc'[Main] = "create"
      BY <1>0, <2>3, FileAssumption DEF WalletLoadFails
    <3>2. disk_faults' \in 0 .. MaxDiskFaults
      BY <2>3, FaultCounted DEF WalletLoadFails, ProcessTypes, WalletTypeOK
    <3> QED BY <2>1, <3>1, <3>2 DEF ProcessTypes, WalletTypeOK
  <2> QED BY <1>2, <2>2, <2>3 DEF LoadWallet
<1>3. CASE CreateWallet
  <2>1. /\ keys_made \in 0 .. MaxKeys /\ keys_made < MaxKeys /\ keys_made' = keys_made + 1
        /\ wallet' = keys_made + 1 /\ MaxKeys \in Nat
    BY <1>3, FileAssumption DEF CreateWallet, WalletCreate, ProcessTypes, WalletTypeOK
  <2>2. keys_made' \in 0 .. MaxKeys /\ wallet' \in 0 .. MaxKeys /\ wallet' \in Keys
    BY ONLY <2>1 DEF Keys
  <2>3. UNCHANGED <<file, disk_faults, quit_flag, starts, shown>>
    BY <1>3 DEF CreateWallet, WalletCreate, mainVars
  <2> QED BY <2>2, <2>3 DEF ProcessTypes, WalletTypeOK
<1>4. CASE OpenWallet
  <2>1. pc[Main] = "save" /\ UNCHANGED <<wallet, keys_made, quit_flag, starts, shown>>
    BY <1>4 DEF OpenWallet, WalletOpen, WalletOpenFails, mainVars
  <2>2. /\ file' \in Keys \cup {Absent, Broken}
        /\ disk_faults' \in 0 .. MaxDiskFaults
    BY <1>4, FaultCounted DEF OpenWallet, WalletOpen, WalletOpenFails, ProcessTypes, WalletTypeOK
  <2> QED BY <2>1, <2>2 DEF ProcessTypes, WalletTypeOK
<1>5. CASE FlushWallet
  <2>1. pc[Main] = "flush" /\ UNCHANGED <<wallet, keys_made, quit_flag, starts, shown>>
    BY <1>5 DEF FlushWallet, WalletFlush, mainVars
  <2>2. /\ file' \in Keys \cup {Absent, Broken}
        /\ disk_faults' \in 0 .. MaxDiskFaults
    BY <1>5, <2>1, FaultCounted DEF FlushWallet, WalletFlush, ProcessTypes, WalletTypeOK
  <2> QED BY <2>1, <2>2 DEF ProcessTypes, WalletTypeOK
<1>6. CASE ShowAddress
  <2>1. pc[Main] = "show" /\ shown' = shown \cup {wallet} /\ UNCHANGED <<quit_flag, starts>>
        /\ UNCHANGED <<file, wallet, keys_made, disk_faults>>
    BY <1>6 DEF ShowAddress, walletVars
  <2> QED BY <2>1 DEF ProcessTypes, WalletTypeOK
<1>7. CASE NodeInit
  <2>1. pc'[Main] = "loop" /\ UNCHANGED <<walletVars, mainVars>>
    BY <1>7 DEF NodeInit, Adders
  <2> QED BY <2>1, LaterTypes DEF mainVars, ProcessTypes
<1>8. CASE Gone
  <2>1. pc'[Main] = "off" /\ wallet' \in 0 .. MaxKeys /\ quit_flag' = FALSE
        /\ UNCHANGED <<file, keys_made, disk_faults, starts, shown>>
    BY <1>0, <1>8, FileAssumption DEF Gone, WalletForget
  <2> QED BY <2>1 DEF ProcessTypes, WalletTypeOK
<1>9. CASE Stopping /\ ~ Exit
  <2>1. UNCHANGED <<walletVars, quit_flag, starts, shown>>
    BY <1>9 DEF Stopping, Stop, StopServer, StopLock, StopTest, StopClose, StopUnlock,
                StopDestroy, mainVars
  <2>2. \/ UNCHANGED pc
        \/ \E point \in {"stop_server", "stop_lock", "stop_peers", "stop_close",
                           "stop_destroy", "exit"} : MainTo(point)
    BY <1>9 DEF Stopping, Stop, StopServer, StopLock, StopTest, StopClose, StopUnlock,
                StopDestroy
  <2>3. pc'[Main] = pc[Main] \/ pc'[Main] \notin {"save", "flush", "show"}
    BY <1>0, <2>2
  <2> QED BY <2>1, <2>3, LaterTypes DEF ProcessTypes
<1>10. CASE ShowMenu \/ BroadcastLock \/ BroadcastUnlock \/ User
  <2>1. UNCHANGED <<walletVars, starts, shown>> /\ quit_flag' \in BOOLEAN
    BY <1>10 DEF ShowMenu, BroadcastLock, BroadcastUnlock, User, Interrupt, EnterQuit,
                 EnterConnect, EnterBroadcast, EnterOther, mainVars, ProcessTypes
  <2>2. \/ UNCHANGED pc
        \/ \E point \in {"stop", "scanf", "send", "loop", "broadcast", "add"} : MainTo(point)
    BY <1>10 DEF ShowMenu, BroadcastLock, BroadcastUnlock, User, Interrupt, EnterQuit,
                 EnterConnect, NewConnection, EnterBroadcast, EnterOther, peerVars
  <2>3. pc'[Main] = pc[Main] \/ pc'[Main] \notin {"save", "flush", "show"}
    BY <1>0, <2>2
  <2> QED BY <2>1, <2>3, LaterTypes
<1>11. CASE (Threads \/ AddStep(Main) \/ SendFails(Main)) /\ UNCHANGED <<walletVars, mainVars>>
  <2>1. UNCHANGED <<walletVars, starts, shown>> /\ quit_flag' \in BOOLEAN
    BY <1>11 DEF mainVars, ProcessTypes
  <2>2. \/ UNCHANGED pc
        \/ \E t \in Adders : \E point \in {"add", "loop", "gone"} :
              pc' = [pc EXCEPT ![t] = point]
    <3>1. CASE \E t \in Adders : AddStep(t)
      BY <3>1 DEF AddStep, AddFull, AddSlot, AfterAdding
    <3>2. CASE AcceptEnds \/ AcceptConnection
      BY <3>2 DEF AcceptEnds, AcceptConnection, NewConnection, Adders
    <3>3. CASE \E i \in Slots : ReaderWork(i) \/ ReadMessage(i) \/ HandleMessage(i)
      BY <3>3 DEF ReaderWork, ReadMessage, HandleMessage, RelayLock, RelayUnlock, ReadFails,
                  CloseLost, SendFails, SendReturns
    <3>5. CASE SendFails(Main) \/ \E t \in Senders : SendTaken(t)
      BY <3>5 DEF SendFails, SendTaken, SendReturns
    <3>4. CASE \E c \in Conns : Break(c)
      BY <3>4 DEF Break
    <3> QED BY <1>0, <1>11, <3>1, <3>2, <3>3, <3>4, <3>5 DEF Threads, AcceptStep, Adders
  <2>3. pc'[Main] = pc[Main] \/ pc'[Main] \notin {"save", "flush", "show"}
    BY <1>0, <2>2
  <2> QED BY <2>1, <2>3, LaterTypes
<1>12. CASE UNCHANGED vars
  BY <1>12 DEF vars, walletVars, peerVars, mainVars, ProcessTypes, WalletTypeOK
<1> QED
  BY <1>1, <1>2, <1>3, <1>4, <1>5, <1>6, <1>7, <1>8, <1>9, <1>10, <1>11, <1>12
     DEF Next, MainWork, Starting, Stopping, StartFails, Kill, Exit

\* The table never holds more than MAX_PEERS slots (net.c:193), the number of
\* node_stop's slot stays in it, and a wallet is never saved or shown before it
\* holds a key.
THEOREM TypeCorrect == Spec => []TypeOK
<1>1. Init => ProcessTypes
  <2> SUFFICES ASSUME Init PROVE ProcessTypes
    OBVIOUS
  <2>1. /\ file = Absent /\ wallet = 0 /\ keys_made = 0 /\ disk_faults = 0
        /\ quit_flag = FALSE /\ starts = 0 /\ shown = {} /\ pc[Main] = "off"
    BY Names DEF Init, WalletInit
  <2>2. WalletTypeOK
    BY <2>1, FileAssumption DEF WalletTypeOK
  <2>3. starts \in 0 .. MaxStarts
    BY <2>1, StartsAssumption
  <2> QED BY <2>1, <2>2, <2>3 DEF ProcessTypes
<1>2. TableInv /\ ProcessTypes /\ [Next]_vars => TableInv' /\ ProcessTypes'
  BY TableInvStep, ProcessTypesStep DEF TableInv, TableTypes
<1>3. TableInv /\ ProcessTypes => TypeOK
  BY DEF TableInv, TableTypes, ProcessTypes, TypeOK
<1> QED BY TableInvInit, <1>1, <1>2, <1>3, PTL DEF Spec
=============================================================================
