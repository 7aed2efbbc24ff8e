----------------------------- MODULE NodeProcess -----------------------------
(***************************************************************************)
(* The life of a node's process (main.c): it loads or makes its wallet,    *)
(* starts listening, serves the menu, and stops when the user quits, when  *)
(* there is no more input or after Ctrl+C; or it is killed at any point.   *)
(* It may then be started again.  The wallet is Wallet.tla's, the threads  *)
(* that share the table of peers are PeerTable.tla's.                      *)
(*                                                                         *)
(* What mining, paying and the display do to the chain and the mempool is  *)
(* not repeated here: a command of the menu adds a peer, broadcasts, or    *)
(* leaves this state alone.                                                *)
(***************************************************************************)
EXTENDS Wallet, PeerTable

CONSTANT MaxStarts      \* bound: how often the process is started

ASSUME StartsAssumption == MaxStarts \in Nat

VARIABLES
    quit_flag,      \* set by the handler of SIGINT
    stop_i,         \* node_stop's loop variable, from 1
    starts,         \* how often the process has been started
    shown           \* history: the addresses shown to the user

mainVars == <<quit_flag, stop_i, starts, shown>>
vars == <<walletVars, peerVars, mainVars>>

MainAt(point) == pc[Main] = point
MainTo(point) == pc' = [pc EXCEPT ![Main] = point]

Alive == ~ MainAt("off")

Init ==
    /\ WalletInit
    /\ owner = [f \in Descriptors |-> Nobody]
    /\ conns = 0 /\ broken = {}
    /\ peers = << >>
    /\ reader = [i \in Slots |-> "none"]
    /\ lock = Nobody
    /\ running = FALSE
    /\ target = [t \in Senders |-> 0]
    /\ pc = [t \in Adders |-> "off"]
    /\ fd = [t \in Adders |-> 0]
    /\ quit_flag = FALSE
    /\ stop_i = 0
    /\ starts = 0
    /\ shown = {}

-----------------------------------------------------------------------------
(* The start of main *)

Start ==
    /\ MainAt("off")
    /\ starts < MaxStarts
    /\ starts' = starts + 1
    /\ MainTo("load")
    /\ UNCHANGED <<walletVars, tableVars, fd, quit_flag, stop_i, shown>>

LoadWallet ==
    /\ MainAt("load")
    /\ \/ WalletLoad /\ MainTo("show")
       \/ WalletLoadFails /\ MainTo("create")
    /\ UNCHANGED <<tableVars, fd, mainVars>>

CreateWallet ==
    /\ MainAt("create")
    /\ WalletCreate
    /\ MainTo("save")
    /\ UNCHANGED <<tableVars, fd, mainVars>>

\* When wallet_save fails main goes on with the key it has.
OpenWallet ==
    /\ MainAt("save")
    /\ \/ WalletOpen /\ MainTo("flush")
       \/ WalletOpenFails /\ MainTo("show")
    /\ UNCHANGED <<tableVars, fd, mainVars>>

FlushWallet ==
    /\ MainAt("flush")
    /\ WalletFlush
    /\ MainTo("show")
    /\ UNCHANGED <<tableVars, fd, mainVars>>

\* The address is printed; it is where the user is paid from now on.
ShowAddress ==
    /\ MainAt("show")
    /\ shown' = shown \cup {wallet}
    /\ MainTo("listen")
    /\ UNCHANGED <<walletVars, tableVars, fd, quit_flag, stop_i, starts>>

\* node_init: the listening socket, and the accept thread.
NodeInit ==
    /\ MainAt("listen")
    /\ owner' = [owner EXCEPT ![Server] = 0]
    /\ running' = TRUE
    /\ pc' = [pc EXCEPT ![Main] = "loop", ![Acceptor] = "loop"]
    /\ UNCHANGED <<walletVars, conns, broken, target, peers, reader, lock, fd, mainVars>>

-----------------------------------------------------------------------------
(* The end of the process *)

\* All threads end with main, or are killed with it; so does what they hold.
Gone ==
    /\ WalletForget
    /\ NoTable
    /\ pc' = [t \in Adders |-> "off"]
    /\ quit_flag' = FALSE
    /\ stop_i' = 0
    /\ UNCHANGED <<starts, shown>>

\* wallet_create or node_init fails: main returns 1.
StartFails == (MainAt("create") \/ MainAt("listen")) /\ Gone

\* The process is killed, and the machine goes on.
Kill == Alive /\ Gone

\* wallet_destroy, chain_destroy and the return from main.
Exit == MainAt("exit") /\ Gone

-----------------------------------------------------------------------------
(* The menu *)

\* The handler runs in any thread at any point of main.
Interrupt ==
    /\ Alive
    /\ ~ quit_flag
    /\ quit_flag' = TRUE
    /\ UNCHANGED <<walletVars, peerVars, stop_i, starts, shown>>

\* The test of the loop, and print_menu, which takes peers_lock for a moment.
ShowMenu ==
    /\ MainAt("loop")
    /\ IF quit_flag THEN MainTo("stop") ELSE CanLock /\ MainTo("scanf")
    /\ UNCHANGED <<walletVars, tableVars, fd, mainVars>>

\* The user enters something: scanf is not interrupted by a signal, for signal()
\* makes it go on afterwards (SA_RESTART), here and inside the commands.
EnterQuit ==
    /\ MainAt("scanf")
    /\ MainTo("stop")
    /\ UNCHANGED <<walletVars, tableVars, fd, quit_flag, stop_i, starts, shown>>

\* 5: node_connect_peer.  When no connection is made the descriptor is closed
\* at once, and main is back at the menu.
EnterConnect ==
    /\ MainAt("scanf")
    /\ NewConnection(Main)
    /\ UNCHANGED <<walletVars, mainVars>>

\* 1 or 2: something is to be broadcast.
EnterBroadcast ==
    /\ MainAt("scanf")
    /\ MainTo("broadcast")
    /\ UNCHANGED <<walletVars, tableVars, fd, mainVars>>

\* Anything else, and commands that come to nothing.
EnterOther ==
    /\ MainAt("scanf")
    /\ MainTo("loop")
    /\ UNCHANGED <<walletVars, tableVars, fd, mainVars>>

BroadcastLock ==
    /\ MainAt("broadcast")
    /\ CanLock
    /\ lock' = Locked(Main)
    /\ target' = [target EXCEPT ![Main] = NextTarget(Main, 0)]
    /\ MainTo("send")
    /\ UNCHANGED <<walletVars, owner, conns, broken, peers, reader, running, fd, mainVars>>

BroadcastUnlock ==
    /\ MainAt("send")
    /\ target[Main] = 0
    /\ lock' = Unlocked(Main)
    /\ MainTo("loop")
    /\ UNCHANGED <<walletVars, owner, conns, broken, target, peers, reader, running, fd, mainVars>>

-----------------------------------------------------------------------------
(* node_stop *)

\* running = 0.
Stop ==
    /\ MainAt("stop")
    /\ running' = FALSE
    /\ MainTo("stop_server")
    /\ UNCHANGED <<walletVars, owner, conns, broken, target, peers, reader, lock, fd, mainVars>>

StopServer ==
    /\ MainAt("stop_server")
    /\ owner' = Closed(Server)
    /\ MainTo("stop_lock")
    /\ UNCHANGED <<walletVars, conns, broken, target, peers, reader, lock, running, fd, mainVars>>

StopLock ==
    /\ MainAt("stop_lock")
    /\ CanLock
    /\ lock' = Locked(Main)
    /\ stop_i' = 1
    /\ MainTo("stop_peers")
    /\ UNCHANGED <<walletVars, owner, conns, broken, target, peers, reader, running, fd,
                   quit_flag, starts, shown>>

\* A turn of the loop looks at active; the accept thread no longer adds slots
\* while the lock is held.
StopTest ==
    /\ MainAt("stop_peers")
    /\ stop_i <= Len(peers)
    /\ IF peers[stop_i].active THEN MainTo("stop_close") /\ UNCHANGED stop_i
       ELSE stop_i' = stop_i + 1 /\ UNCHANGED pc
    /\ UNCHANGED <<walletVars, tableVars, fd, quit_flag, starts, shown>>

\* It may be the second to close the descriptor: the reader of the slot can have
\* given the peer up since.
StopClose ==
    /\ MainAt("stop_close")
    /\ peers' = [peers EXCEPT ![stop_i].active = FALSE]
    /\ owner' = Closed(peers[stop_i].fd)
    /\ stop_i' = stop_i + 1
    /\ MainTo("stop_peers")
    /\ UNCHANGED <<walletVars, conns, broken, target, reader, lock, running, fd,
                   quit_flag, starts, shown>>

StopUnlock ==
    /\ MainAt("stop_peers")
    /\ stop_i > Len(peers)
    /\ lock' = Unlocked(Main)
    /\ MainTo("stop_destroy")
    /\ UNCHANGED <<walletVars, owner, conns, broken, target, peers, reader, running, fd, mainVars>>

\* A mutex that a thread has taken meanwhile is not destroyed (EBUSY).
StopDestroy ==
    /\ MainAt("stop_destroy")
    /\ lock' = IF lock = Nobody THEN Destroyed ELSE lock
    /\ MainTo("exit")
    /\ UNCHANGED <<walletVars, owner, conns, broken, target, peers, reader, running, fd, mainVars>>

-----------------------------------------------------------------------------
Starting == LoadWallet \/ CreateWallet \/ OpenWallet \/ FlushWallet \/ ShowAddress \/ NodeInit

Stopping ==
    Stop \/ StopServer \/ StopLock \/ StopTest \/ StopClose \/ StopUnlock \/ StopDestroy \/ Exit

\* What main does by itself, without waiting for the user.
MainWork ==
    \/ Starting \/ Stopping
    \/ ShowMenu \/ BroadcastLock \/ BroadcastUnlock
    \/ (AddStep(Main) \/ SendFails(Main)) /\ UNCHANGED <<walletVars, mainVars>>

User == Interrupt \/ EnterQuit \/ EnterConnect \/ EnterBroadcast \/ EnterOther

\* The other threads, and what happens on the connections.
Threads ==
    \/ AcceptStep \/ AcceptConnection
    \/ \E i \in Slots : ReaderWork(i) \/ ReadMessage(i) \/ HandleMessage(i)
    \/ \E t \in Senders : SendTaken(t)
    \/ \E c \in Conns : Break(c)

Next ==
    \/ Start \/ StartFails \/ Kill
    \/ MainWork
    \/ User
    \/ Threads /\ UNCHANGED <<walletVars, mainVars>>

Spec == Init /\ [][Next]_vars

\* The threads are scheduled.  A reader gets peers_lock in the end if it comes free
\* again and again: whoever broadcasts waits for its user or its peer before the
\* next broadcast.  Nothing makes the user enter anything, or a peer send or read:
\* a send comes back for certain only when the connection is gone.
Fairness ==
    /\ WF_vars(MainWork)
    /\ WF_vars(AcceptStep /\ UNCHANGED <<walletVars, mainVars>>)
    /\ \A i \in Slots :
         /\ WF_vars(ReaderWork(i) /\ UNCHANGED <<walletVars, mainVars>>)
         /\ SF_vars(RelayLock(i) /\ UNCHANGED <<walletVars, mainVars>>)

FairSpec == Spec /\ Fairness
-----------------------------------------------------------------------------
(* Properties *)

Points ==
    {"off", "load", "create", "save", "flush", "show", "listen", "loop", "scanf", "add",
     "broadcast", "send", "stop", "stop_server", "stop_lock", "stop_peers", "stop_close",
     "stop_destroy", "exit", "gone"}

TypeOK ==
    /\ WalletTypeOK
    /\ TableTypeOK
    /\ pc \in [Adders -> Points]
    /\ quit_flag \in BOOLEAN
    /\ stop_i \in 0 .. MAX_PEERS + 1
    /\ starts \in 0 .. MaxStarts
    /\ shown \subseteq Keys

\* Whenever the process is killed, and whichever key it was making or saving,
\* the address that a user has been shown is in the file as long as the disk
\* does not fail: it is the address after every restart.
AddressSurvives == disk_faults = 0 => \A key \in shown : file = key

\* A descriptor that a slot still answers for - active, its reader at work, or
\* about to be closed by node_stop - is that slot's connection or closed: reader,
\* node_stop and the kernel's reuse of numbers never make a thread read, answer
\* or close another peer's connection.
DescriptorOwned ==
    \A i \in DOMAIN peers :
        (\/ peers[i].active
         \/ reader[i] \in {"read", "handle", "relay", "send", "lost"}
         \/ MainAt("stop_close") /\ stop_i = i)
          => owner[peers[i].fd] \in {peers[i].conn, Nobody}

\* As long as the node runs, every connection that is open is in the hands of a
\* thread, which reads from it, will close it or is adding it: also when the
\* table is full, and when the peer is lost while it is being added.
ServedOrClosed ==
    running => \A f \in Descriptors : owner[f] \in Conns =>
        \/ \E t \in Adders : fd[t] = f
        \/ \E i \in DOMAIN peers :
             /\ peers[i].fd = f /\ peers[i].conn = owner[f]
             /\ reader[i] \notin {"none", "done"}

\* Slot i is active, or its connection still open.
InUse(i) == i \in DOMAIN peers /\ (peers[i].active \/ owner[peers[i].fd] = peers[i].conn)
Lost(i) == i \in DOMAIN peers /\ peers[i].conn \in broken

\* No thread stays for ever in a send to one peer while it holds peers_lock: the
\* code does not see to that, for send has no time limit.
PeersTake == \A t \in Senders : []<> ~ WaitsForRoom(t)

\* Nor in the handling of one message: in the send of an answer, or waiting for
\* mempool_lock, which a thread holds while it greets a new peer.
MessagesDone == \A i \in Slots : []<>(reader[i] # "handle")

\* As long as no thread hangs in a send, a connection that is lost is closed and
\* its slot made inactive, although its reader has to take turns for peers_lock, or
\* the process ends.
LostClosed ==
    PeersTake /\ MessagesDone =>
        \A i \in Slots : (running /\ Lost(i)) ~> (~ running \/ ~ InUse(i))

\* The process ends when the user quits at the menu, and after Ctrl+C once the
\* command that was running or is entered next is done - unless some thread hangs
\* for ever in a send under peers_lock, which node_stop waits for: readers that
\* hang elsewhere, or never get a message, do not keep it, however many there are.
\* (Until something is entered, main stays in scanf.)
QuitEnds ==
    PeersTake =>
        ((MainAt("stop") \/ (quit_flag /\ MainAt("loop"))) ~> ~ Alive)
=============================================================================
