--------------------------- MODULE TransportProofs ---------------------------
(***************************************************************************)
(* Proofs about Transport, for any room in the sockets, lengths of chains, *)
(* blocks and lines, capacity of the mempool and number of broadcasts: the *)
(* texts of two messages that were sent under peers_lock are never one in  *)
(* the other, and where no messages were sent one in the other only what   *)
(* is longer than a line is lost.                                          *)
(***************************************************************************)
EXTENDS Transport, DataLemmas

\* Two units of the text come one after the other, as one thread sends them.
Follows(u, v) ==
    IF u.last THEN v.part = 1
    ELSE v.kind = u.kind /\ v.part = u.part + 1 /\ v.locked = u.locked

Chained(s) == \A i \in 2 .. Len(s) : Follows(s[i - 1], s[i])

\* The units of messages of node n.
MessageUnit(n) ==
    {u \in UnitType : u.part <= Units(n, u.kind) /\ (u.last <=> u.part = Units(n, u.kind))}

-----------------------------------------------------------------------------
(* Nodes and messages *)

\* The two ends, and the assumptions on the constants spelled out.
LEMMA Ends ==
    /\ Dialer # Listener
    /\ \A n \in Nodes : Other(n) \in Nodes /\ Other(n) # n /\ Other(Other(n)) = n
    /\ \A m, n \in Nodes : m = n \/ m = Other(n)
    /\ LineUnits \in Nat \ {0} /\ BlockUnits \in Nat \ {0} /\ MEMPOOL_SIZE \in Nat
    /\ \A n \in Nodes : /\ Room[n] \in Nat \ {0} /\ ChainUnits[n] \in Nat \ {0}
                        /\ MaxBroadcasts[n] \in Nat /\ Pooled[n] \in 0 .. MEMPOOL_SIZE
BY TransportAssumption DEF Nodes, Other

\* The length of the longest message, which bounds `part' in UnitType.
Longest == Max({1, BlockUnits} \cup {ChainUnits[n] : n \in Nodes})

\* Every message has at least one unit and at most Longest.
LEMMA LongestBounds ==
    /\ Longest \in Nat
    /\ \A n \in Nodes : \A kind \in Kinds : Units(n, kind) \in 1 .. Longest
<1> DEFINE T == {1, BlockUnits} \cup {ChainUnits[n] : n \in Nodes}
           top == 1 + BlockUnits + ChainUnits[Dialer] + ChainUnits[Listener]
<1>1. /\ BlockUnits \in Nat \ {0} /\ Dialer \in Nodes /\ Listener \in Nodes
      /\ ChainUnits[Dialer] \in Nat \ {0} /\ ChainUnits[Listener] \in Nat \ {0}
      /\ \A n \in Nodes : n = Dialer \/ n = Listener
  BY Ends DEF Nodes
<1>2. top \in Nat /\ T \subseteq 0 .. top /\ 1 \in T
  <2>1. top \in Nat /\ {1, BlockUnits, ChainUnits[Dialer], ChainUnits[Listener]} \subseteq 0 .. top
    BY <1>1
  <2>2. T = {1, BlockUnits, ChainUnits[Dialer], ChainUnits[Listener]}
    BY <1>1
  <2> QED BY <2>1, <2>2
<1>3. Max(T) \in T /\ \A x \in T : Max(T) >= x
  <2> HIDE DEF T, top
  <2> QED BY <1>2, MaxProperties
<1>4. Longest = Max(T)
  BY DEF Longest
<1>5. \A n \in Nodes : \A kind \in Kinds : Units(n, kind) \in T /\ Units(n, kind) \in Nat \ {0}
  BY Ends DEF Units, Kinds
<1>6. T \subseteq Nat
  BY <1>2
<1> HIDE DEF T, top
<1>7. Longest \in Nat /\ \A x \in T : x <= Longest
  BY <1>3, <1>4, <1>6
<1>8. ASSUME NEW n \in Nodes, NEW kind \in Kinds PROVE Units(n, kind) \in 1 .. Longest
  <2> DEFINE x == Units(n, kind)
  <2>1. x \in T /\ x \in Nat \ {0}
    BY <1>5
  <2> HIDE DEF x
  <2>2. x \in 1 .. Longest
    BY <1>7, <2>1
  <2> QED BY <2>2 DEF x
<1> QED BY <1>7, <1>8

\* A function on 1 .. k is a sequence of length k.
LEMMA FunctionIsSeq ==
    ASSUME NEW k \in Nat, NEW S, NEW s \in [1 .. k -> S]
    PROVE  s \in Seq(S) /\ Len(s) = k
<1>1. s \in Seq(S)
  BY SeqDef
<1>2. DOMAIN s = 1 .. Len(s) /\ DOMAIN s = 1 .. k /\ Len(s) \in Nat
  BY <1>1, LenProperties
<1> QED BY <1>1, <1>2

\* Messages that are to be sent one after the other.
Sendable(n, o) ==
    /\ o \in Seq(MessageUnit(n))
    /\ Chained(o)
    /\ o # << >> => o[Len(o)].last

\* A message is sent from its first unit to the one with the newline.
LEMMA MessageSendable ==
    ASSUME NEW n \in Nodes, NEW kind \in Kinds, NEW locked \in BOOLEAN
    PROVE  /\ Sendable(n, Message(n, kind, locked))
           /\ Message(n, kind, locked) # << >> /\ Message(n, kind, locked)[1].part = 1
           /\ Message(n, kind, locked)[1] \in MessageUnit(n)
           /\ Message(n, kind, locked)[1].last <=> Units(n, kind) = 1
           /\ \A i \in 1 .. Len(Message(n, kind, locked)) :
                 Message(n, kind, locked)[i].locked <=> locked
<1> DEFINE k == Units(n, kind)
           unit == [i \in 1 .. k |->
                     [kind |-> kind, locked |-> locked, part |-> i, last |-> i = k]]
<1>1. Message(n, kind, locked) = unit
  BY DEF Message
<1>2. k \in 1 .. Longest /\ k \in Nat \ {0} /\ Longest \in Nat
  BY LongestBounds
<1>3. UnitType = [kind : Kinds, locked : BOOLEAN, part : 1 .. Longest, last : BOOLEAN]
  BY DEF UnitType, Longest
<1>4. \A i \in 1 .. k : /\ unit[i].kind = kind /\ unit[i].locked = locked
                        /\ unit[i].part = i /\ (unit[i].last <=> i = k)
  OBVIOUS
<1>5. \A i \in 1 .. k : unit[i] \in MessageUnit(n)
  <2> SUFFICES ASSUME NEW i \in 1 .. k PROVE unit[i] \in MessageUnit(n)
    OBVIOUS
  <2>1. unit[i] = [kind |-> kind, locked |-> locked, part |-> i, last |-> i = k]
    OBVIOUS
  <2>2. i \in 1 .. Longest
    BY <1>2
  <2>3. (i = k) \in BOOLEAN
    OBVIOUS
  <2>4. unit[i] \in UnitType
    BY <1>3, <2>1, <2>2, <2>3
  <2>5. unit[i].part <= k /\ (unit[i].last <=> unit[i].part = k)
    <3> HIDE DEF unit, k
    <3> QED BY <1>4, <1>2
  <2> QED BY <1>4, <2>4, <2>5 DEF MessageUnit
<1>6. unit \in [1 .. k -> MessageUnit(n)]
  BY <1>5
<1>7. unit \in Seq(MessageUnit(n)) /\ Len(unit) = k
  <2> HIDE DEF unit, k
  <2> QED BY <1>2, <1>6, FunctionIsSeq
<1> HIDE DEF unit, k
<1>8. unit # << >>
  BY <1>2, <1>7, EmptySeq
<1>9. Chained(unit)
  <2> SUFFICES ASSUME NEW i \in 2 .. k PROVE Follows(unit[i - 1], unit[i])
    BY <1>7 DEF Chained
  <2>1. i - 1 \in 1 .. k /\ i \in 1 .. k /\ i - 1 # k
    BY <1>2
  <2> QED BY <1>4, <2>1 DEF Follows
<1> QED BY <1>1, <1>2, <1>4, <1>5, <1>7, <1>8, <1>9 DEF Sendable, k

\* The transactions of the mempool, with a unit for each.
LEMMA GreetingSendable ==
    ASSUME NEW n \in Nodes, NEW k \in Nat \ {0},
           NEW o, o = [i \in 1 .. k |-> Message(n, "NEW_TX", FALSE)[1]]
    PROVE  /\ Sendable(n, o) /\ o # << >> /\ o[1].part = 1
           /\ \A i \in 1 .. Len(o) : ~ o[i].locked
<1> DEFINE u == Message(n, "NEW_TX", FALSE)[1]
<1>1. "NEW_TX" \in Kinds /\ Units(n, "NEW_TX") = 1
  BY DEF Kinds, Units
<1>2. u \in MessageUnit(n) /\ u.part = 1 /\ u.last /\ ~ u.locked
  <2> DEFINE m == Message(n, "NEW_TX", FALSE)
  <2>1. /\ m \in Seq(MessageUnit(n)) /\ m # << >> /\ m[1] \in MessageUnit(n)
        /\ m[1].part = 1 /\ m[1].last
        /\ \A i \in 1 .. Len(m) : ~ m[i].locked
    BY <1>1, MessageSendable DEF Sendable
  <2>2. 1 \in 1 .. Len(m)
    <3> HIDE DEF m
    <3> QED BY <2>1, EmptySeq
  <2> QED BY <2>1, <2>2
<1> HIDE DEF u
<1>3. o \in [1 .. k -> MessageUnit(n)] /\ \A i \in 1 .. k : o[i] = u
  BY <1>2 DEF u
<1>4. o \in Seq(MessageUnit(n)) /\ Len(o) = k
  BY <1>3, FunctionIsSeq
<1>5. o # << >>
  BY <1>4, EmptySeq
<1>6. \A i \in 1 .. Len(o) : o[i] = u /\ o[i].part = 1 /\ o[i].last /\ ~ o[i].locked
  BY <1>2, <1>3, <1>4
<1>7. Chained(o)
  <2> SUFFICES ASSUME NEW i \in 2 .. Len(o) PROVE Follows(o[i - 1], o[i])
    BY DEF Chained
  <2>1. i - 1 \in 1 .. Len(o) /\ i \in 1 .. Len(o)
    BY ONLY <1>4, k \in Nat \ {0}, i \in 2 .. Len(o)
  <2> QED BY <1>6, <2>1 DEF Follows
<1>8. 1 \in 1 .. Len(o) /\ Len(o) \in 1 .. Len(o)
  BY ONLY <1>4, k \in Nat \ {0}
<1> QED BY <1>4, <1>5, <1>6, <1>7, <1>8 DEF Sendable

-----------------------------------------------------------------------------
(* The text on its way to a node, and what the threads at the other end have *)
(* still to send: s and o[t]                                                 *)

Stream(n) == line[n] \o wire[n]

\* A thread is inside a message.
Inside(o, t) == o[t] # << >> /\ o[t][1].part # 1

\* Between units that were sent under peers_lock, each is followed by the next of
\* its message, and the next of the last such unit is still to come.
LockedRuns(s, o) ==
    /\ \A i \in 2 .. Len(s) : s[i - 1].locked /\ s[i].locked => ~ Interrupts(s[i - 1], s[i])
    /\ s # << >> /\ s[Len(s)].locked /\ ~ s[Len(s)].last =>
         \E t \in Threads : /\ o[t] # << >> /\ o[t][1].locked
                            /\ Follows(s[Len(s)], o[t][1])

\* Messages to n of this kind are longer than a line.
Long(n, kind) == Units(Other(n), kind) > LineUnits

\* The text is one message after the other, but for a beginning that is what a cut
\* has left of a message; at most one thread is inside of one, the text's last.
WholeRuns(n, s, o) ==
    /\ Chained(s)
    /\ s # << >> /\ s[1].part # 1 => Long(n, s[1].kind)
    /\ \A t \in Threads : Inside(o, t) =>
         \/ s = << >> /\ Long(n, o[t][1].kind)
         \/ s # << >> /\ ~ s[Len(s)].last /\ Follows(s[Len(s)], o[t][1])
    /\ s # << >> /\ ~ s[Len(s)].last => \E t \in Threads : Inside(o, t)
    /\ \A t, u \in Threads : Inside(o, t) /\ Inside(o, u) => t = u

\* What has been read of the line is from one message.
OneMessage(l) ==
    \A i \in 1 .. Len(l) : l[i].kind = l[1].kind /\ l[i].part = l[1].part + i - 1

\* Where the first of the messages that are to be sent ends.
FirstEnd(o) == Min({i \in DOMAIN o : o[i].last})

\* x are the first k units of o, from one message, and r what is left.
Cut(n, o, k, x, r) ==
    /\ k <= Len(o)
    /\ x \in Seq(MessageUnit(n)) /\ Len(x) = k /\ x[1] = o[1] /\ Chained(x)
    /\ Sendable(n, r)
    /\ r = << >> => x[k].last
    /\ r # << >> => Follows(x[k], r[1])
    /\ \A i \in 1 .. Len(r) : i + k \in 1 .. Len(o) /\ r[i] = o[i + k]

\* A thread sends the first k units of what it has, from one message.
LEMMA Sent ==
    ASSUME NEW n \in Nodes, NEW o, Sendable(n, o), o # << >>,
           NEW k \in Nat \ {0}, k <= FirstEnd(o),
           NEW x, x = SubSeq(o, 1, k), NEW r, r = SubSeq(o, k + 1, Len(o))
    PROVE  Cut(n, o, k, x, r)
<1> DEFINE U == MessageUnit(n)
           N == Len(o)
           E == {i \in DOMAIN o : o[i].last}
<1>1. o \in Seq(U) /\ Chained(o) /\ o[N].last
  BY DEF Sendable
<1> HIDE DEF U
<1>2. DOMAIN o = 1 .. N /\ N \in Nat \ {0}
  BY <1>1, LenProperties, EmptySeq
<1>3. k <= N /\ \A i \in 1 .. k - 1 : ~ o[i].last
  <2>1. E \subseteq Nat /\ N \in E
    BY <1>1, <1>2
  <2>2. Min(E) <= N /\ \A i \in E : Min(E) <= i /\ Min(E) \in Nat
    <3> HIDE DEF E, N
    <3> QED BY <2>1, MinProperties
  <2>3. k <= Min(E)
    BY DEF FirstEnd
  <2>4. \A i \in 1 .. N : o[i].last => k <= i
    <3>1. \A i \in 1 .. N : o[i].last => i \in E
      BY <1>2
    <3> HIDE DEF E, N
    <3> QED BY <1>2, <2>2, <2>3, <3>1
  <2>5. k <= N
    BY <1>1, <1>2, <2>4
  <2> HIDE DEF E, N
  <2> QED BY <1>2, <2>4, <2>5
<1> HIDE DEF N
<1>4. x \in Seq(U) /\ Len(x) = k /\ \A i \in 1 .. k : x[i] = o[i]
  BY <1>1, <1>3, InitialSegment DEF N
<1>5. /\ r \in Seq(U) /\ Len(r) = N - k
      /\ \A i \in 1 .. N - k : r[i] = o[i + k] /\ i + k \in 1 .. N
  <2>1. \A i \in k + 1 .. N : o[i] \in U
    BY <1>1, <1>2, ElementOfSeq DEF N
  <2>2. /\ SubSeq(o, k + 1, N) \in Seq(U)
        /\ Len(SubSeq(o, k + 1, N)) = IF k + 1 <= N THEN N - (k + 1) + 1 ELSE 0
        /\ \A i \in 1 .. N - (k + 1) + 1 : SubSeq(o, k + 1, N)[i] = o[k + 1 + i - 1]
    BY <1>2, <2>1, SubSeqProperties
  <2>3. r = SubSeq(o, k + 1, N)
    BY DEF N
  <2>4. \A i \in 1 .. N - k : k + 1 + i - 1 = i + k /\ i + k \in 1 .. N
    BY <1>2, <1>3
  <2> QED BY <1>2, <1>3, <2>2, <2>3, <2>4
<1>6. r = << >> <=> k = N
  <2>1. r \in Seq(U)
    BY <1>5
  <2>2. Len(<< >>) = 0 /\ (r # << >> => Len(r) \in Nat \ {0})
    BY ONLY <2>1, EmptySeq
  <2>3. Len(r) = 0 <=> r = << >>
    BY ONLY <2>2
  <2>4. Len(r) = N - k /\ N \in Nat /\ k \in Nat
    BY <1>2, <1>5
  <2> QED BY ONLY <2>3, <2>4
<1>7. Chained(x)
  <2> SUFFICES ASSUME NEW i \in 2 .. k PROVE Follows(x[i - 1], x[i])
    BY <1>4 DEF Chained
  <2>1. i - 1 \in 1 .. k /\ i \in 1 .. k /\ i \in 2 .. N
    BY <1>2, <1>3
  <2> QED BY <1>1, <1>4, <2>1 DEF Chained, N
<1>8. Chained(r)
  <2> SUFFICES ASSUME NEW i \in 2 .. N - k PROVE Follows(r[i - 1], r[i])
    BY <1>5 DEF Chained
  <2>1. /\ i - 1 \in 1 .. N - k /\ i \in 1 .. N - k
        /\ (i - 1) + k = (i + k) - 1 /\ i + k \in 2 .. N
    BY <1>2, <1>3
  <2>2. r[i - 1] = o[(i + k) - 1] /\ r[i] = o[i + k]
    BY <1>5, <2>1
  <2> QED BY <1>1, <2>1, <2>2 DEF Chained, N
<1>9. r # << >> => r[Len(r)].last
  <2>1. r # << >> => N - k \in 1 .. N - k /\ (N - k) + k = N
    BY <1>2, <1>3, <1>6
  <2> QED BY <1>1, <1>5, <2>1
<1>10. r = << >> => x[k].last
  BY <1>1, <1>2, <1>4, <1>6
<1>11. r # << >> => Follows(x[k], r[1])
  <2>1. r # << >> => 1 \in 1 .. N - k /\ 1 + k \in 2 .. N /\ (1 + k) - 1 = k /\ k \in 1 .. k
    BY <1>2, <1>3, <1>6
  <2>2. r # << >> => r[1] = o[1 + k] /\ x[k] = o[(1 + k) - 1]
    BY <1>4, <1>5, <2>1
  <2> QED BY <1>1, <2>1, <2>2 DEF Chained, N
<1>12. x[1] = o[1]
  BY <1>4
<1> QED BY <1>3, <1>4, <1>5, <1>7, <1>8, <1>9, <1>10, <1>11, <1>12 DEF Cut, Sendable, U, N

\* One text after the other.
LEMMA Joined ==
    ASSUME NEW U, NEW s \in Seq(U), NEW x \in Seq(U), x # << >>
    PROVE  /\ s \o x \in Seq(U) /\ s \o x # << >>
           /\ Len(s) \in Nat /\ Len(x) \in Nat \ {0} /\ Len(s \o x) = Len(s) + Len(x)
           /\ \A i \in 1 .. Len(s) : (s \o x)[i] = s[i]
           /\ \A i \in 1 .. Len(x) : (s \o x)[Len(s) + i] = x[i]
           /\ s # << >> <=> Len(s) > 0
           /\ (s \o x)[Len(s \o x)] = x[Len(x)]
           /\ (s \o x)[1] = IF s = << >> THEN x[1] ELSE s[1]
<1> DEFINE y == s \o x
<1>1. Len(s) \in Nat /\ Len(x) \in Nat \ {0}
  BY LenProperties, EmptySeq
<1>2. /\ y \in Seq(U) /\ Len(y) = Len(s) + Len(x)
      /\ \A i \in 1 .. Len(s) + Len(x) : y[i] = IF i <= Len(s) THEN s[i] ELSE x[i - Len(s)]
  BY ConcatProperties
<1>3. y # << >>
  <2>1. Len(<< >>) = 0
    OBVIOUS
  <2> HIDE DEF y
  <2> QED BY <1>1, <1>2, <2>1
<1>4. s # << >> <=> Len(s) > 0
  BY <1>1, EmptySeq
<1> HIDE DEF y
<1>5. \A i \in 1 .. Len(s) : y[i] = s[i]
  BY <1>1, <1>2
<1>6. \A i \in 1 .. Len(x) : y[Len(s) + i] = x[i]
  <2> SUFFICES ASSUME NEW i \in 1 .. Len(x) PROVE y[Len(s) + i] = x[i]
    OBVIOUS
  <2>1. Len(s) + i \in 1 .. Len(s) + Len(x) /\ ~ (Len(s) + i <= Len(s)) /\ Len(s) + i - Len(s) = i
    BY <1>1
  <2> QED BY <1>2, <2>1
<1>7. y[Len(y)] = x[Len(x)]
  BY <1>1, <1>2, <1>6
<1>8. y[1] = IF s = << >> THEN x[1] ELSE s[1]
  <2>1. CASE s = << >>
    <3>1. Len(s) = 0
      BY <1>1, <1>4, <2>1
    <3>2. 1 \in 1 .. Len(x) /\ Len(s) + 1 = 1
      BY <1>1, <3>1
    <3> QED BY <1>6, <2>1, <3>2
  <2>2. CASE s # << >>
    BY <1>1, <1>4, <1>5, <2>2
  <2> QED BY <2>1, <2>2
<1> QED BY <1>1, <1>2, <1>3, <1>4, <1>5, <1>6, <1>7, <1>8 DEF y

\* Where the unit at i and the one before are from, in the text s followed by x.
Origin(s, x, y, i) ==
    \/ i \in 2 .. Len(s) /\ y[i - 1] = s[i - 1] /\ y[i] = s[i]
    \/ s # << >> /\ i = Len(s) + 1 /\ y[i - 1] = s[Len(s)] /\ y[i] = x[1]
    \/ \E j \in 2 .. Len(x) : y[i - 1] = x[j - 1] /\ y[i] = x[j]

\* Neighbours in joined texts were neighbours before, or stand at the seam.
LEMMA JoinedChain ==
    ASSUME NEW U, NEW s \in Seq(U), NEW x \in Seq(U), x # << >>,
           NEW y, y = s \o x, NEW i \in 2 .. Len(y)
    PROVE  Origin(s, x, y, i)
<1> USE DEF Origin
<1>1. /\ Len(s) \in Nat /\ Len(x) \in Nat \ {0} /\ Len(y) = Len(s) + Len(x)
      /\ \A j \in 1 .. Len(s) : y[j] = s[j]
      /\ \A j \in 1 .. Len(x) : y[Len(s) + j] = x[j]
      /\ s # << >> <=> Len(s) > 0
  BY Joined
<1>2. i \in 2 .. Len(s) + Len(x)
  BY <1>1
<1>3. CASE i <= Len(s)
  <2>1. i \in 2 .. Len(s) /\ i - 1 \in 1 .. Len(s) /\ i \in 1 .. Len(s)
    BY <1>1, <1>2, <1>3
  <2> QED BY <1>1, <2>1
<1>4. CASE i = Len(s) + 1
  <2>1. Len(s) > 0 /\ i - 1 = Len(s) /\ Len(s) \in 1 .. Len(s) /\ 1 \in 1 .. Len(x)
    BY <1>1, <1>2, <1>4
  <2> QED BY <1>1, <1>4, <2>1
<1>5. CASE i > Len(s) + 1
  <2> DEFINE j == i - Len(s)
  <2>1. /\ j \in 2 .. Len(x) /\ j - 1 \in 1 .. Len(x) /\ j \in 1 .. Len(x)
        /\ Len(s) + j = i /\ Len(s) + (j - 1) = i - 1
    BY <1>1, <1>2, <1>5
  <2>2. y[i] = x[j] /\ y[i - 1] = x[j - 1]
    <3> HIDE DEF j
    <3> QED BY <1>1, <2>1
  <2> QED BY <2>1, <2>2
<1> QED BY <1>1, <1>2, <1>3, <1>4, <1>5

\* Thread t sends x of what it has; only one thread, the holder of peers_lock, has
\* units that are sent under it.
LEMMA SendKeepsLockedRuns ==
    ASSUME NEW U, NEW s \in Seq(U), NEW o \in [Threads -> Seq(U)], LockedRuns(s, o),
           NEW holder, \A v \in Threads : \A i \in 1 .. Len(o[v]) : o[v][i].locked => v = holder,
           NEW t \in Threads, NEW x \in Seq(U), x # << >>, Chained(x),
           o[t] # << >>, x[1] = o[t][1],
           NEW r \in Seq(U), r = << >> => x[Len(x)].last,
           r # << >> => Follows(x[Len(x)], r[1]),
           NEW o2, o2 = [o EXCEPT ![t] = r]
    PROVE  LockedRuns(s \o x, o2)
<1> DEFINE y == s \o x
<1>1. y = s \o x /\ y \in Seq(U) /\ y # << >> /\ y[Len(y)] = x[Len(x)]
  BY Joined
<1> HIDE DEF y
<1>2. o2[t] = r /\ \A v \in Threads \ {t} : o2[v] = o[v]
  OBVIOUS
<1>3. \A v \in Threads : o[v] # << >> /\ o[v][1].locked => v = holder
  <2>1. \A v \in Threads : o[v] # << >> => 1 \in 1 .. Len(o[v])
    BY EmptySeq
  <2> QED BY <2>1
<1>4. ASSUME NEW i \in 2 .. Len(y), y[i - 1].locked, y[i].locked
      PROVE  ~ Interrupts(y[i - 1], y[i])
  <2>1. CASE i \in 2 .. Len(s) /\ y[i - 1] = s[i - 1] /\ y[i] = s[i]
    BY <1>4, <2>1 DEF LockedRuns
  <2>2. CASE s # << >> /\ i = Len(s) + 1 /\ y[i - 1] = s[Len(s)] /\ y[i] = x[1]
    <3>1. s[Len(s)].locked /\ x[1].locked /\ t = holder
      BY <1>3, <1>4, <2>2
    <3>2. CASE s[Len(s)].last
      BY <2>2, <3>2 DEF Interrupts
    <3>3. CASE ~ s[Len(s)].last
      <4>1. PICK v \in Threads : o[v] # << >> /\ o[v][1].locked /\ Follows(s[Len(s)], o[v][1])
        BY <2>2, <3>1, <3>3 DEF LockedRuns
      <4>2. v = t
        BY <1>3, <3>1, <4>1
      <4> QED BY <2>2, <3>3, <4>1, <4>2 DEF Follows, Interrupts
    <3> QED BY <3>2, <3>3
  <2>3. CASE \E j \in 2 .. Len(x) : y[i - 1] = x[j - 1] /\ y[i] = x[j]
    BY <2>3 DEF Chained, Follows, Interrupts
  <2>4. Origin(s, x, y, i)
    <3>1. s \in Seq(U) /\ x \in Seq(U) /\ x # << >> /\ y = s \o x /\ i \in 2 .. Len(y)
      BY <1>1
    <3> QED BY ONLY <3>1, JoinedChain
  <2> QED BY <2>1, <2>2, <2>3, <2>4 DEF Origin
<1>5. y[Len(y)].locked /\ ~ y[Len(y)].last =>
         \E v \in Threads : /\ o2[v] # << >> /\ o2[v][1].locked
                            /\ Follows(y[Len(y)], o2[v][1])
  <2> SUFFICES ASSUME x[Len(x)].locked, ~ x[Len(x)].last
               PROVE  o2[t] # << >> /\ o2[t][1].locked /\ Follows(x[Len(x)], o2[t][1])
    BY <1>1
  <2> QED BY <1>2 DEF Follows
<1>6. LockedRuns(y, o2)
  BY <1>4, <1>5 DEF LockedRuns
<1> QED BY <1>1, <1>6

\* The same when the text is of whole messages and no other thread is inside one.
LEMMA SendKeepsWholeRuns ==
    ASSUME NEW n, NEW U, NEW s \in Seq(U), NEW o \in [Threads -> Seq(U)], WholeRuns(n, s, o),
           \A u \in U : u.part \in Nat \ {0},
           NEW t \in Threads, \A v \in Threads \ {t} : ~ Inside(o, v),
           NEW x \in Seq(U), x # << >>, Chained(x),
           o[t] # << >>, x[1] = o[t][1],
           NEW r \in Seq(U), r = << >> => x[Len(x)].last,
           r # << >> => Follows(x[Len(x)], r[1]),
           NEW o2, o2 = [o EXCEPT ![t] = r]
    PROVE  WholeRuns(n, s \o x, o2)
<1> DEFINE y == s \o x
<1>1. /\ y = s \o x /\ y \in Seq(U) /\ y # << >> /\ y[Len(y)] = x[Len(x)]
      /\ y[1] = IF s = << >> THEN x[1] ELSE s[1]
      /\ Len(x) \in 1 .. Len(x)
  BY Joined
<1> HIDE DEF y
<1>2. o2[t] = r /\ \A v \in Threads \ {t} : o2[v] = o[v]
  OBVIOUS
<1>3. x[Len(x)].part \in Nat \ {0}
  BY <1>1, ElementOfSeq
<1>4. Chained(y)
  <2> SUFFICES ASSUME NEW i \in 2 .. Len(y) PROVE Follows(y[i - 1], y[i])
    BY DEF Chained
  <2>1. CASE i \in 2 .. Len(s) /\ y[i - 1] = s[i - 1] /\ y[i] = s[i]
    BY <2>1 DEF WholeRuns, Chained
  <2>2. CASE s # << >> /\ i = Len(s) + 1 /\ y[i - 1] = s[Len(s)] /\ y[i] = x[1]
    <3>1. CASE s[Len(s)].last
      <4>1. ~ Inside(o, t)
        BY <3>1, <2>2 DEF WholeRuns
      <4>2. x[1].part = 1
        BY <4>1 DEF Inside
      <4> QED BY <2>2, <3>1, <4>2 DEF Follows
    <3>2. CASE ~ s[Len(s)].last
      <4>1. Inside(o, t)
        BY <2>2, <3>2 DEF WholeRuns
      <4>2. Follows(s[Len(s)], o[t][1])
        BY <2>2, <4>1 DEF WholeRuns
      <4> QED BY <2>2, <4>2
    <3> QED BY <3>1, <3>2
  <2>3. CASE \E j \in 2 .. Len(x) : y[i - 1] = x[j - 1] /\ y[i] = x[j]
    BY <2>3 DEF Chained
  <2>4. Origin(s, x, y, i)
    <3>1. s \in Seq(U) /\ x \in Seq(U) /\ x # << >> /\ y = s \o x /\ i \in 2 .. Len(y)
      BY <1>1
    <3> QED BY ONLY <3>1, JoinedChain
  <2> QED BY <2>1, <2>2, <2>3, <2>4 DEF Origin
<1>5. y[1].part # 1 => Long(n, y[1].kind)
  <2>1. CASE s = << >>
    BY <1>1, <2>1 DEF WholeRuns, Inside
  <2>2. CASE s # << >>
    BY <1>1, <2>2 DEF WholeRuns
  <2> QED BY <2>1, <2>2
<1>6. \A v \in Threads : Inside(o2, v) => v = t
  BY <1>2 DEF Inside
<1>7. Inside(o2, t) => ~ y[Len(y)].last /\ Follows(y[Len(y)], o2[t][1])
  BY <1>1, <1>2 DEF Inside, Follows
<1>8. ~ y[Len(y)].last => Inside(o2, t)
  <2> SUFFICES ASSUME ~ x[Len(x)].last PROVE Inside(o2, t)
    BY <1>1
  <2>1. r # << >> /\ r[1].part = x[Len(x)].part + 1
    BY DEF Follows
  <2>2. r[1].part # 1
    BY ONLY <1>3, <2>1
  <2> QED BY <1>2, <2>1, <2>2 DEF Inside
<1>9. WholeRuns(n, y, o2)
  <2>1. \A v \in Threads : Inside(o2, v) =>
           \/ y = << >> /\ Long(n, o2[v][1].kind)
           \/ y # << >> /\ ~ y[Len(y)].last /\ Follows(y[Len(y)], o2[v][1])
    BY <1>1, <1>6, <1>7
  <2>2. \A v, u \in Threads : Inside(o2, v) /\ Inside(o2, u) => v = u
    BY <1>6
  <2> QED BY <1>4, <1>5, <1>8, <2>1, <2>2 DEF WholeRuns
<1> QED BY <1>1, <1>9

\* A thread that has nothing to send gets a message: it is not inside of it yet.
LEMMA NewKeepsRuns ==
    ASSUME NEW n, NEW s, NEW U, NEW o \in [Threads -> Seq(U)],
           NEW t \in Threads, o[t] = << >>,
           NEW new, new # << >>, new[1].part = 1,
           NEW o2, o2 = [o EXCEPT ![t] = new]
    PROVE  /\ LockedRuns(s, o) => LockedRuns(s, o2)
           /\ WholeRuns(n, s, o) => WholeRuns(n, s, o2)
<1>1. o2[t] = new /\ \A v \in Threads \ {t} : o2[v] = o[v]
  OBVIOUS
<1>2. \A v \in Threads : o[v] # << >> => o2[v] = o[v]
  BY <1>1
<1>3. LockedRuns(s, o) => LockedRuns(s, o2)
  <2> SUFFICES ASSUME LockedRuns(s, o) PROVE LockedRuns(s, o2)
    OBVIOUS
  <2>1. s # << >> /\ s[Len(s)].locked /\ ~ s[Len(s)].last =>
           \E v \in Threads : o2[v] # << >> /\ o2[v][1].locked /\ Follows(s[Len(s)], o2[v][1])
    BY <1>2 DEF LockedRuns
  <2> QED BY <2>1 DEF LockedRuns
<1>4. \A v \in Threads : Inside(o2, v) <=> Inside(o, v)
  BY <1>1 DEF Inside
<1>5. \A v \in Threads : Inside(o2, v) => o2[v] = o[v]
  BY <1>1 DEF Inside
<1>6. WholeRuns(n, s, o) => WholeRuns(n, s, o2)
  <2> SUFFICES ASSUME WholeRuns(n, s, o) PROVE WholeRuns(n, s, o2)
    OBVIOUS
  <2>1. \A v \in Threads : Inside(o2, v) =>
           \/ s = << >> /\ Long(n, o2[v][1].kind)
           \/ s # << >> /\ ~ s[Len(s)].last /\ Follows(s[Len(s)], o2[v][1])
    BY <1>4, <1>5 DEF WholeRuns
  <2>2. \A v, u \in Threads : Inside(o2, v) /\ Inside(o2, u) => v = u
    BY <1>4 DEF WholeRuns
  <2>3. s # << >> /\ ~ s[Len(s)].last => \E v \in Threads : Inside(o2, v)
    BY <1>4 DEF WholeRuns
  <2> QED BY <2>1, <2>2, <2>3 DEF WholeRuns
<1> QED BY <1>3, <1>6

\* The first j units are read off; if that ends inside a message, it is a long one.
LEMMA ReadKeepsRuns ==
    ASSUME NEW n, NEW U, NEW s \in Seq(U), NEW o,
           NEW j \in 1 .. Len(s), NEW y \in Seq(U), Len(y) = Len(s) - j,
           \A i \in 1 .. Len(y) : y[i] = s[i + j]
    PROVE  /\ LockedRuns(s, o) => LockedRuns(y, o)
           /\ WholeRuns(n, s, o) /\ (~ s[j].last => Long(n, s[j].kind)) => WholeRuns(n, y, o)
<1>1. Len(s) \in Nat \ {0} /\ Len(y) \in Nat /\ s # << >>
  <2>1. Len(s) \in Nat /\ Len(y) \in Nat
    BY LenProperties
  <2>2. Len(s) \in Nat \ {0}
    BY <2>1
  <2>3. Len(<< >>) = 0
    OBVIOUS
  <2> QED BY <2>1, <2>2, <2>3
<1>2. y # << >> <=> Len(y) > 0
  BY <1>1, EmptySeq
<1>3. y # << >> => y[Len(y)] = s[Len(s)] /\ y[1] = s[j + 1] /\ j + 1 \in 2 .. Len(s)
  <2>1. y # << >> => /\ Len(y) \in 1 .. Len(y) /\ Len(y) + j = Len(s)
                     /\ 1 \in 1 .. Len(y) /\ 1 + j = j + 1 /\ j + 1 \in 2 .. Len(s)
    BY <1>1, <1>2
  <2> QED BY <2>1
<1>4. y = << >> => j = Len(s)
  BY <1>1, <1>2
<1>5. \A i \in 2 .. Len(y) : /\ i + j \in 2 .. Len(s)
                             /\ y[i] = s[i + j] /\ y[i - 1] = s[(i + j) - 1]
  <2> SUFFICES ASSUME NEW i \in 2 .. Len(y)
               PROVE  i + j \in 2 .. Len(s) /\ y[i] = s[i + j] /\ y[i - 1] = s[(i + j) - 1]
    OBVIOUS
  <2>1. /\ i + j \in 2 .. Len(s) /\ i \in 1 .. Len(y) /\ i - 1 \in 1 .. Len(y)
        /\ (i - 1) + j = (i + j) - 1
    BY <1>1
  <2> QED BY <2>1
<1>6. LockedRuns(s, o) => LockedRuns(y, o)
  <2> SUFFICES ASSUME LockedRuns(s, o) PROVE LockedRuns(y, o)
    OBVIOUS
  <2>1. \A i \in 2 .. Len(y) : y[i - 1].locked /\ y[i].locked => ~ Interrupts(y[i - 1], y[i])
    BY <1>5 DEF LockedRuns
  <2> QED BY <1>1, <1>3, <2>1 DEF LockedRuns
<1>7. ASSUME WholeRuns(n, s, o), ~ s[j].last => Long(n, s[j].kind) PROVE WholeRuns(n, y, o)
  <2>1. Chained(y)
    BY <1>5, <1>7 DEF WholeRuns, Chained
  <2>2. y # << >> /\ y[1].part # 1 => Long(n, y[1].kind)
    <3> SUFFICES ASSUME y # << >>, y[1].part # 1 PROVE Long(n, y[1].kind)
      OBVIOUS
    <3>1. (j + 1) - 1 = j
      BY <1>1
    <3>2. Follows(s[j], y[1])
      BY <1>3, <1>7, <3>1 DEF WholeRuns, Chained
    <3> QED BY <1>7, <3>2 DEF Follows
  <2>3. ASSUME NEW t \in Threads, Inside(o, t)
        PROVE  \/ y = << >> /\ Long(n, o[t][1].kind)
               \/ y # << >> /\ ~ y[Len(y)].last /\ Follows(y[Len(y)], o[t][1])
    <3>1. ~ s[Len(s)].last /\ Follows(s[Len(s)], o[t][1])
      BY <1>1, <1>7, <2>3 DEF WholeRuns
    <3>2. CASE y = << >>
      BY <1>4, <1>7, <3>1, <3>2 DEF Follows
    <3>3. CASE y # << >>
      BY <1>3, <3>1, <3>3
    <3> QED BY <3>2, <3>3
  <2>4. y # << >> /\ ~ y[Len(y)].last => \E t \in Threads : Inside(o, t)
    BY <1>1, <1>3, <1>7 DEF WholeRuns
  <2> QED BY <1>7, <2>1, <2>2, <2>3, <2>4 DEF WholeRuns
<1> QED BY <1>6, <1>7

-----------------------------------------------------------------------------
(* What read_message makes of the text *)

\* Another unit is read.
LEMMA UnitRead ==
    ASSUME NEW U, NEW l \in Seq(U), NEW w \in Seq(U), w # << >>
    PROVE  /\ Head(w) \in U /\ Head(w) = w[1] /\ Tail(w) \in Seq(U)
           /\ Len(w) \in Nat \ {0} /\ Len(Tail(w)) = Len(w) - 1 /\ Len(l) \in Nat
           /\ \A i \in 1 .. Len(Tail(w)) : Tail(w)[i] = w[i + 1]
           /\ Append(l, Head(w)) \in Seq(U) /\ Len(Append(l, Head(w))) = Len(l) + 1
           /\ Append(l, Head(w))[Len(l) + 1] = Head(w)
           /\ \A i \in 1 .. Len(l) : Append(l, Head(w))[i] = l[i]
<1>1. Head(w) \in U /\ Head(w) = w[1]
  <2>1. Head(w) \in U
    BY HeadTailProperties
  <2>2. Head(w) = w[1]
    OBVIOUS
  <2> QED BY <2>1, <2>2
<1> DEFINE h == Head(w)
<1>2. /\ Append(l, h) \in Seq(U) /\ Len(Append(l, h)) = Len(l) + 1
      /\ Append(l, h)[Len(l) + 1] = h
      /\ \A i \in 1 .. Len(l) : Append(l, h)[i] = l[i]
  <2> HIDE DEF h
  <2>1. h \in U
    BY <1>1 DEF h
  <2> QED BY <2>1, AppendProperties
<1>3. /\ Tail(w) \in Seq(U) /\ Len(Tail(w)) = Len(w) - 1
      /\ \A i \in 1 .. Len(Tail(w)) : Tail(w)[i] = w[i + 1]
  BY HeadTailProperties
<1>4. Len(w) \in Nat \ {0} /\ Len(l) \in Nat
  BY LenProperties, EmptySeq
<1> QED BY <1>1, <1>2, <1>3, <1>4

\* Where the units of the text are after it.
LEMMA TextRead ==
    ASSUME NEW U, NEW l \in Seq(U), NEW w \in Seq(U), w # << >>,
           NEW s, s = l \o w, NEW text, text = Append(l, Head(w))
    PROVE  /\ s \in Seq(U) /\ s # << >> /\ Len(text) \in 1 .. Len(s) /\ Len(text) = Len(l) + 1
           /\ text \in Seq(U) /\ text[Len(text)] = Head(w)
           /\ \A i \in 1 .. Len(text) : text[i] = s[i]
           /\ \A i \in 1 .. Len(l) : text[i] = l[i]
           /\ text \o Tail(w) = s
           /\ Len(Tail(w)) = Len(s) - Len(text)
           /\ \A i \in 1 .. Len(Tail(w)) : Tail(w)[i] = s[i + Len(text)]
<1> DEFINE v == Tail(w)
           h == Head(w)
<1>1. /\ h \in U /\ h = w[1] /\ v \in Seq(U)
      /\ Len(w) \in Nat \ {0} /\ Len(v) = Len(w) - 1 /\ Len(l) \in Nat
      /\ \A i \in 1 .. Len(v) : v[i] = w[i + 1]
      /\ text \in Seq(U) /\ Len(text) = Len(l) + 1 /\ text[Len(l) + 1] = h
      /\ \A i \in 1 .. Len(l) : text[i] = l[i]
  BY UnitRead
<1>2. /\ s \in Seq(U) /\ s # << >> /\ Len(s) = Len(l) + Len(w)
      /\ \A i \in 1 .. Len(l) : s[i] = l[i]
      /\ \A i \in 1 .. Len(w) : s[Len(l) + i] = w[i]
  BY Joined
<1>3. /\ text \o v \in Seq(U) /\ Len(text \o v) = Len(text) + Len(v)
      /\ \A i \in 1 .. Len(text) + Len(v) : (text \o v)[i] =
            IF i <= Len(text) THEN text[i] ELSE v[i - Len(text)]
  BY <1>1, ConcatProperties
<1> DEFINE y == text \o v
<1> HIDE DEF v, h, y
<1>4. \A i \in 1 .. Len(text) : text[i] = s[i]
  <2> SUFFICES ASSUME NEW i \in 1 .. Len(text) PROVE text[i] = s[i]
    OBVIOUS
  <2>1. CASE i \in 1 .. Len(l)
    BY <1>1, <1>2, <2>1
  <2>2. CASE i = Len(l) + 1
    <3>1. 1 \in 1 .. Len(w)
      BY <1>1
    <3> QED BY <1>1, <1>2, <2>2, <3>1
  <2>3. i \in 1 .. Len(l) \/ i = Len(l) + 1
    BY <1>1
  <2> QED BY <2>1, <2>2, <2>3
<1>5. \A i \in 1 .. Len(v) : v[i] = s[i + Len(text)]
  <2> SUFFICES ASSUME NEW i \in 1 .. Len(v) PROVE v[i] = s[i + Len(text)]
    OBVIOUS
  <2>1. i + 1 \in 1 .. Len(w) /\ Len(l) + (i + 1) = i + Len(text)
    BY <1>1
  <2>2. s[Len(l) + (i + 1)] = w[i + 1] /\ v[i] = w[i + 1]
    BY <1>1, <1>2, <2>1
  <2> QED BY <2>1, <2>2
<1>6. /\ Len(v) = Len(s) - Len(text) /\ Len(text) \in 1 .. Len(s) /\ Len(y) = Len(s)
      /\ Len(s) \in Nat /\ Len(text) \in Nat
  <2>1. Len(y) = Len(text) + Len(v)
    BY <1>3 DEF y
  <2>2. /\ Len(w) \in Nat \ {0} /\ Len(v) = Len(w) - 1 /\ Len(l) \in Nat
        /\ Len(text) = Len(l) + 1 /\ Len(s) = Len(l) + Len(w)
    BY <1>1, <1>2
  <2> QED BY ONLY <2>1, <2>2
<1>7. \A i \in 1 .. Len(y) : y[i] = s[i]
  <2> SUFFICES ASSUME NEW i \in 1 .. Len(y) PROVE y[i] = s[i]
    OBVIOUS
  <2>1. i \in 1 .. Len(text) + Len(v)
    BY <1>6
  <2>2. CASE i <= Len(text)
    <3>1. i \in 1 .. Len(text)
      BY <2>1, <2>2
    <3> QED BY <1>3, <1>4, <2>1, <2>2, <3>1 DEF y
  <2>3. CASE ~ (i <= Len(text))
    <3>1. i - Len(text) \in 1 .. Len(v) /\ (i - Len(text)) + Len(text) = i
      BY <1>6, <2>1, <2>3
    <3>2. v[i - Len(text)] = s[(i - Len(text)) + Len(text)]
      BY <1>5, <3>1
    <3> QED BY <1>3, <2>1, <2>3, <3>1, <3>2 DEF y
  <2> QED BY <2>2, <2>3
<1>8. y = s
  <2>1. y \in Seq(U)
    BY <1>3 DEF y
  <2> QED BY ONLY <1>2, <1>6, <1>7, <2>1, SeqEqual
<1> QED BY <1>1, <1>2, <1>4, <1>5, <1>6, <1>8 DEF v, h, y

\* A line of a text of whole messages is from one message; it is cut, or not the
\* whole of it, only when the message is longer than a line.
LEMMA LineRead ==
    ASSUME NEW n \in Nodes, NEW l \in Seq(MessageUnit(Other(n))),
           NEW w \in Seq(MessageUnit(Other(n))), w # << >>,
           NEW s, s = l \o w, NEW o, WholeRuns(n, s, o),
           OneMessage(l), \A i \in 1 .. Len(l) : ~ l[i].last, Len(l) < LineUnits,
           NEW text, text = Append(l, Head(w))
    PROVE  /\ OneMessage(text)
           /\ Len(text) = LineUnits /\ ~ Head(w).last => Long(n, Head(w).kind)
           /\ (Head(w).last \/ Len(text) = LineUnits) /\ ~ Whole(text) =>
                 \A i \in 1 .. Len(text) : Long(n, text[i].kind)
<1> DEFINE U == MessageUnit(Other(n))
           h == Head(w)
           N == Len(text)
<1>1. /\ s \in Seq(U) /\ s # << >> /\ N \in 1 .. Len(s) /\ N = Len(l) + 1
      /\ text \in Seq(U) /\ text[N] = h
      /\ \A i \in 1 .. N : text[i] = s[i]
      /\ \A i \in 1 .. Len(l) : text[i] = l[i]
  BY TextRead
<1>2. /\ \A u \in U : /\ u.part \in Nat \ {0} /\ u.part <= Units(Other(n), u.kind)
                      /\ u.last <=> u.part = Units(Other(n), u.kind)
                      /\ Units(Other(n), u.kind) \in Nat
      /\ Len(l) \in Nat /\ Len(s) \in Nat /\ LineUnits \in Nat \ {0}
  <2>1. \A u \in U : u \in UnitType /\ u.kind \in Kinds /\ u.part \in Nat \ {0}
    BY LongestBounds DEF MessageUnit, UnitType
  <2>2. \A u \in U : Units(Other(n), u.kind) \in Nat
    BY <2>1, Ends, LongestBounds
  <2>3. \A u \in U : /\ u.part <= Units(Other(n), u.kind)
                     /\ u.last <=> u.part = Units(Other(n), u.kind)
    BY DEF MessageUnit
  <2>4. Len(l) \in Nat /\ Len(s) \in Nat
    BY <1>1, LenProperties
  <2> QED BY <2>1, <2>2, <2>3, <2>4, Ends
<1>3. \A i \in 1 .. N : text[i] \in U /\ text[i].part \in Nat
  BY <1>1, <1>2, ElementOfSeq
<1> HIDE DEF U, h, N
<1>4. OneMessage(text)
  <2>1. \A i \in 1 .. Len(l) : text[i].kind = l[1].kind /\ text[i].part = l[1].part + i - 1
    BY <1>1 DEF OneMessage
  <2>2. CASE l = << >>
    <3>1. Len(l) = 0
      BY <2>2
    <3>2. N = 1 /\ 1 \in 1 .. N
      BY <1>1, <3>1
    <3> QED BY <1>3, <3>2 DEF OneMessage, N
  <2>3. CASE l # << >>
    <3>1. Len(l) \in 1 .. Len(l) /\ 1 \in 1 .. Len(l) /\ N \in 2 .. Len(s) /\ N - 1 = Len(l)
          /\ Len(l) \in 1 .. N
      BY <1>1, <1>2, <2>3, EmptySeq
    <3>2. Follows(s[Len(l)], s[N])
      BY <3>1 DEF WholeRuns, Chained
    <3>3. Follows(l[Len(l)], text[N])
      BY <1>1, <3>1, <3>2
    <3>4. /\ text[N].kind = l[Len(l)].kind /\ text[N].part = l[Len(l)].part + 1
      BY <3>1, <3>3 DEF Follows
    <3>5. text[Len(l)].part = l[1].part + Len(l) - 1 /\ text[Len(l)].kind = l[1].kind
          /\ text[Len(l)] = l[Len(l)] /\ text[1] = l[1]
      BY <1>1, <2>1, <3>1
    <3>6. text[1].part \in Nat
      BY <1>1, <1>3, <3>1
    <3>7. /\ text[N].kind = text[1].kind
          /\ text[N].part = text[1].part + N - 1
      <4>1. text[N].part = (text[1].part + Len(l) - 1) + 1
        BY <3>4, <3>5
      <4> DEFINE a == text[1].part
                 b == text[N].part
      <4>2. b = (a + Len(l) - 1) + 1 /\ a \in Nat /\ Len(l) \in Nat /\ N = Len(l) + 1
        BY <1>1, <1>2, <3>6, <4>1
      <4> HIDE DEF a, b
      <4>3. b = a + N - 1
        BY ONLY <4>2
      <4> QED BY <3>4, <3>5, <4>3 DEF a, b
    <3>8. \A i \in 1 .. N : i \in 1 .. Len(l) \/ i = N
      BY <1>1, <1>2
    <3> QED BY <2>1, <3>5, <3>7, <3>8 DEF OneMessage, N
  <2> QED BY <2>2, <2>3
<1>5. text[1].part # 1 => Long(n, text[1].kind)
  <2>1. text[1] = s[1]
    BY <1>1
  <2> QED BY <1>1, <2>1 DEF WholeRuns
<1>6. \A i \in 1 .. N : text[i].kind = text[1].kind /\ text[i].part = text[1].part + i - 1
  BY <1>4 DEF OneMessage, N
<1>7. N \in 1 .. N /\ 1 \in 1 .. N /\ N \in Nat
  BY <1>1, <1>2
<1>8. N = LineUnits /\ ~ h.last => Long(n, h.kind)
  <2> SUFFICES ASSUME N = LineUnits, ~ h.last PROVE Long(n, h.kind)
    OBVIOUS
  <2>1. CASE text[1].part # 1
    BY <1>1, <1>5, <1>6, <1>7, <2>1
  <2>2. CASE text[1].part = 1
    <3>1. h.part = LineUnits
      <4>1. h.part = 1 + N - 1
        BY <1>1, <1>6, <1>7, <2>2
      <4> QED BY <1>7, <4>1
    <3>2. h \in U
      BY <1>1, <1>3, <1>7
    <3>3. /\ h.part <= Units(Other(n), h.kind) /\ h.part # Units(Other(n), h.kind)
          /\ Units(Other(n), h.kind) \in Nat
      BY <1>2, <3>2
    <3>4. Units(Other(n), h.kind) > LineUnits
      BY ONLY <3>1, <3>3, <1>2
    <3> QED BY <3>4 DEF Long
  <2> QED BY <2>1, <2>2
<1>9. ASSUME h.last \/ N = LineUnits, ~ Whole(text)
      PROVE  \A i \in 1 .. N : Long(n, text[i].kind)
  <2>1. Last(text) = h /\ DOMAIN text = 1 .. N
    BY <1>1, LenProperties DEF Last, N
  <2>2. CASE text[1].part # 1
    BY <1>5, <1>6, <2>2
  <2>3. CASE text[1].part = 1
    <3>1. \A i \in DOMAIN text : text[i].part = i /\ text[i].kind = text[1].kind
      BY <1>6, <1>7, <2>1, <2>3
    <3>2. ~ h.last
      BY <1>9, <2>1, <3>1 DEF Whole
    <3>3. Long(n, h.kind) /\ h.kind = text[1].kind
      BY <1>1, <1>6, <1>7, <1>8, <1>9, <3>2
    <3> QED BY <1>6, <3>3
  <2> QED BY <2>2, <2>3
<1> QED BY <1>4, <1>8, <1>9 DEF h, N

-----------------------------------------------------------------------------
(* The invariant *)

Points == {"ask", "greet", "ask_again", "free", "broadcast",
           "done", "read", "answer", "enqueue", "relay"}

\* Where a thread is while it sends.
Sending == {"ask", "greet", "ask_again", "broadcast", "answer"}

Shapes ==
    /\ pc \in [Nodes -> [Threads -> Points]]
    /\ out \in [Nodes -> [Threads -> Seq(UnitType)]]
    /\ wire \in [Nodes -> Seq(UnitType)] /\ line \in [Nodes -> Seq(UnitType)]
    /\ {peers_lock, mempool_lock} \subseteq [Nodes -> Threads \cup {"nobody"}]
    /\ mempool_count \in [Nodes -> 0 .. MEMPOOL_SIZE]
    /\ broadcasts \in [Nodes -> Nat]
    /\ \A n \in Nodes : broadcasts[n] <= MaxBroadcasts[n]
    /\ mixed \subseteq Nodes /\ heard \subseteq Nodes
    /\ lost \in [Nodes -> SUBSET Kinds]

\* What the threads have to send; what is sent under peers_lock is its holder's.
OutInv ==
    \A n \in Nodes : \A t \in Threads :
        /\ Sendable(n, out[n][t])
        /\ out[n][t] # << >> => pc[n][t] \in Sending
        /\ \A i \in 1 .. Len(out[n][t]) : out[n][t][i].locked => peers_lock[n] = t

\* What is on its way, and has been read of a line.
TextInv ==
    \A n \in Nodes :
        /\ wire[n] \in Seq(MessageUnit(Other(n))) /\ Len(wire[n]) <= Room[n]
        /\ line[n] \in Seq(MessageUnit(Other(n))) /\ Len(line[n]) < LineUnits
        /\ \A i \in 1 .. Len(line[n]) : ~ line[n][i].last

RunsInv ==
    /\ \A n \in Nodes : LockedRuns(Stream(n), out[Other(n)])
    /\ \A n \in Nodes \ mixed :
         /\ WholeRuns(n, Stream(n), out[Other(n)])
         /\ OneMessage(line[n])
         /\ \A kind \in lost[n] : Long(n, kind)

TransportInv == Shapes /\ OutInv /\ TextInv /\ RunsInv

\* TransportInv holds when the connection has just been made.
LEMMA TransportInvInit == Init => TransportInv
<1> SUFFICES ASSUME Init PROVE TransportInv
  OBVIOUS
<1> USE DEF Init
<1>1. \A S : << >> \in Seq(S) /\ Len(<< >>) = 0
  BY EmptySeq
<1>2. /\ \A n \in Nodes : line[n] = << >> /\ wire[n] = << >> /\ lost[n] = {}
      /\ \A n \in Nodes : \A t \in Threads : out[n][t] = << >>
  OBVIOUS
<1>3. Shapes
  <2>1. /\ out \in [Nodes -> [Threads -> Seq(UnitType)]]
        /\ wire \in [Nodes -> Seq(UnitType)] /\ line \in [Nodes -> Seq(UnitType)]
    BY <1>1
  <2>2. pc \in [Nodes -> [Threads -> Points]]
    <3>1. [adder |-> "ask", other |-> "free", reader |-> "read"] \in [Threads -> Points]
      BY DEF Threads, Points
    <3> QED BY <3>1
  <2>3. mempool_count \in [Nodes -> 0 .. MEMPOOL_SIZE]
    BY TransportAssumption
  <2>4. /\ {peers_lock, mempool_lock} \subseteq [Nodes -> Threads \cup {"nobody"}]
        /\ mixed \subseteq Nodes /\ heard \subseteq Nodes
        /\ lost \in [Nodes -> SUBSET Kinds]
    OBVIOUS
  <2>5. broadcasts \in [Nodes -> Nat] /\ \A n \in Nodes : broadcasts[n] <= MaxBroadcasts[n]
    BY Ends
  <2> QED BY <2>1, <2>2, <2>3, <2>4, <2>5 DEF Shapes
<1>4. OutInv
  BY <1>1, <1>2 DEF OutInv, Sendable, Chained
<1>5. TextInv
  BY <1>1, <1>2, Ends DEF TextInv
<1>6. RunsInv
  <2>1. \A n \in Nodes : Stream(n) = << >>
    BY <1>1, <1>2, ConcatEmptySeq DEF Stream
  <2>2. \A n \in Nodes : \A t \in Threads : out[Other(n)][t] = << >>
    BY <1>2, Ends
  <2>3. \A n \in Nodes : LockedRuns(Stream(n), out[Other(n)]) /\ WholeRuns(n, Stream(n), out[Other(n)])
    <3>1. Len(<< >>) = 0 /\ 2 .. 0 = {}
      OBVIOUS
    <3>2. ASSUME NEW n, NEW o, \A t \in Threads : o[t] = << >>
          PROVE  LockedRuns(<< >>, o) /\ WholeRuns(n, << >>, o)
      BY <3>1, <3>2 DEF LockedRuns, WholeRuns, Chained, Inside
    <3> QED BY <2>1, <2>2, <3>2
  <2>4. \A n \in Nodes : OneMessage(line[n]) /\ \A kind \in lost[n] : Long(n, kind)
    <3>1. Len(<< >>) = 0 /\ 1 .. 0 = {}
      OBVIOUS
    <3> QED BY <1>2, <3>1 DEF OneMessage
  <2> QED BY <2>3, <2>4 DEF RunsInv
<1> QED BY <1>3, <1>4, <1>5, <1>6 DEF TransportInv

\* A thread of a node gets something new.
LEMMA ThreadSet ==
    ASSUME NEW S, NEW f \in [Nodes -> [Threads -> S]], NEW n \in Nodes, NEW t \in Threads,
           NEW v \in S, NEW g, g = [f EXCEPT ![n][t] = v]
    PROVE  /\ g \in [Nodes -> [Threads -> S]]
           /\ g[n] = [f[n] EXCEPT ![t] = v] /\ g[n][t] = v
           /\ \A m \in Nodes : \A u \in Threads : m # n \/ u # t => g[m][u] = f[m][u]
           /\ \A m \in Nodes \ {n} : g[m] = f[m]
OBVIOUS

\* The units of messages are units.
LEMMA UnitsTyped ==
    ASSUME NEW n \in Nodes
    PROVE  /\ \A s \in Seq(MessageUnit(n)) : s \in Seq(UnitType)
           /\ \A u \in MessageUnit(n) : u.part \in Nat \ {0} /\ u.kind \in Kinds
<1>1. MessageUnit(n) \subseteq UnitType
  BY DEF MessageUnit
<1>2. \A s \in Seq(MessageUnit(n)) : s \in Seq(UnitType)
  BY <1>1, SeqMonotonic
<1>3. \A u \in MessageUnit(n) : u.part \in Nat \ {0} /\ u.kind \in Kinds
  BY LongestBounds DEF MessageUnit, UnitType
<1> QED BY <1>2, <1>3

\* The text stays in order, with what the threads had to send before.
TextKept ==
    /\ TextInv'
    /\ \A n \in Nodes : LockedRuns(Stream(n)', out[Other(n)])
    /\ \A n \in Nodes \ mixed' :
         /\ WholeRuns(n, Stream(n)', out[Other(n)])
         /\ OneMessage(line'[n])
         /\ \A kind \in lost'[n] : Long(n, kind)

\* A step that sends and reads nothing keeps what is said of the texts.
LEMMA TextUnchanged ==
    ASSUME TransportInv, UNCHANGED <<wire, line, mixed, lost>>
    PROVE  TextKept
<1>1. TextInv'
  BY DEF TransportInv, TextInv
<1>2. \A n \in Nodes : Stream(n)' = Stream(n)
  BY DEF Stream
<1> QED BY <1>1, <1>2 DEF TextKept, TransportInv, RunsInv

\* A thread without anything to send goes on, and perhaps gets a message to send;
\* of other threads' locks it takes none.
LEMMA MessageKeeps ==
    ASSUME TransportInv, NEW n \in Nodes, NEW t \in Threads, out[n][t] = << >>,
           NEW point \in Points, pc' = [pc EXCEPT ![n][t] = point],
           NEW new, out' = [out EXCEPT ![n][t] = new],
           Sendable(n, new),
           new # << >> => new[1].part = 1 /\ point \in Sending,
           \A i \in 1 .. Len(new) : new[i].locked => peers_lock'[n] = t,
           peers_lock' = peers_lock \/ (peers_lock[n] = "nobody" /\
                                          peers_lock' = [peers_lock EXCEPT ![n] = t]),
           TextKept
    PROVE  OutInv' /\ TextInv' /\ RunsInv' /\ out' \in [Nodes -> [Threads -> Seq(UnitType)]]
           /\ pc' \in [Nodes -> [Threads -> Points]]
<1> USE DEF TransportInv
<1>1. new \in Seq(MessageUnit(n)) /\ new \in Seq(UnitType)
  BY UnitsTyped DEF Sendable
<1>2. /\ out' \in [Nodes -> [Threads -> Seq(UnitType)]]
      /\ out'[n] = [out[n] EXCEPT ![t] = new] /\ out'[n][t] = new
      /\ \A m \in Nodes : \A u \in Threads : m # n \/ u # t => out'[m][u] = out[m][u]
      /\ \A m \in Nodes \ {n} : out'[m] = out[m]
  <2> DEFINE S == Seq(UnitType)
  <2>1. out \in [Nodes -> [Threads -> S]] /\ new \in S
    BY <1>1 DEF Shapes
  <2> HIDE DEF S
  <2>2. /\ out' \in [Nodes -> [Threads -> S]]
        /\ out'[n] = [out[n] EXCEPT ![t] = new] /\ out'[n][t] = new
        /\ \A m \in Nodes : \A u \in Threads : m # n \/ u # t => out'[m][u] = out[m][u]
        /\ \A m \in Nodes \ {n} : out'[m] = out[m]
    BY <2>1, ThreadSet
  <2> QED BY <2>2 DEF S
<1>3. /\ pc' \in [Nodes -> [Threads -> Points]] /\ pc'[n][t] = point
      /\ \A m \in Nodes : \A u \in Threads : m # n \/ u # t => pc'[m][u] = pc[m][u]
  <2>1. pc \in [Nodes -> [Threads -> Points]]
    BY DEF Shapes
  <2> QED BY <2>1, ThreadSet
<1>4. OutInv'
  <2> SUFFICES ASSUME NEW m \in Nodes, NEW u \in Threads
               PROVE  /\ Sendable(m, out'[m][u])
                      /\ out'[m][u] # << >> => pc'[m][u] \in Sending
                      /\ \A i \in 1 .. Len(out'[m][u]) : out'[m][u][i].locked => peers_lock'[m] = u
    BY DEF OutInv
  <2>1. CASE m = n /\ u = t
    BY <1>2, <1>3, <2>1
  <2>2. CASE m # n \/ u # t
    <3>1. out'[m][u] = out[m][u] /\ pc'[m][u] = pc[m][u]
      BY <1>2, <1>3, <2>2
    <3>2. Sendable(m, out[m][u]) /\ (out[m][u] # << >> => pc[m][u] \in Sending)
          /\ \A i \in 1 .. Len(out[m][u]) : out[m][u][i].locked => peers_lock[m] = u
      BY DEF OutInv
    <3>3. peers_lock[m] = u => peers_lock'[m] = peers_lock[m]
      <4>1. u # "nobody" /\ peers_lock \in [Nodes -> Threads \cup {"nobody"}]
        BY DEF Threads, Shapes
      <4> QED BY <4>1
    <3> QED BY <3>1, <3>2, <3>3
  <2> QED BY <2>1, <2>2
<1>5. TextInv'
  BY DEF TextKept
<1>6. RunsInv'
  <2>2. ASSUME NEW m \in Nodes
        PROVE  /\ LockedRuns(Stream(m)', out[Other(m)]) => LockedRuns(Stream(m)', out'[Other(m)])
               /\ WholeRuns(m, Stream(m)', out[Other(m)]) =>
                     WholeRuns(m, Stream(m)', out'[Other(m)])
    <3>1. CASE Other(m) = n
      <4>1. CASE new = << >>
        <5>1. out'[n] = out[n]
          BY <1>2, <4>1 DEF Shapes
        <5> QED BY <3>1, <5>1
      <4>2. CASE new # << >>
        <5> DEFINE o == out[n]
                   o2 == out'[n]
                   s == Stream(m)'
        <5>1. o \in [Threads -> Seq(UnitType)] /\ o[t] = << >> /\ o2 = [o EXCEPT ![t] = new]
              /\ new[1].part = 1
          BY <1>2, <4>2 DEF Shapes
        <5> HIDE DEF o, o2, s
        <5>2. /\ LockedRuns(s, o) => LockedRuns(s, o2)
              /\ WholeRuns(m, s, o) => WholeRuns(m, s, o2)
          BY ONLY <4>2, <5>1, t \in Threads, NewKeepsRuns
        <5> QED BY <3>1, <5>2 DEF o, o2, s
      <4> QED BY <4>1, <4>2
    <3>2. CASE Other(m) # n
      <4>1. out'[Other(m)] = out[Other(m)]
        BY <1>2, <3>2, Ends
      <4> QED BY <4>1
    <3> QED BY <3>1, <3>2
  <2> QED BY <2>2 DEF RunsInv, TextKept
<1> QED BY <1>2, <1>3, <1>4, <1>5, <1>6

\* The least of two numbers.
LEMMA LeastOfTwo ==
    ASSUME NEW a \in Nat, NEW b \in Nat
    PROVE  Min({a, b}) \in Nat /\ Min({a, b}) <= a /\ Min({a, b}) <= b
<1>1. {a, b} \subseteq Nat /\ {a, b} # {}
  OBVIOUS
<1>2. Min({a, b}) \in {a, b} /\ \A y \in {a, b} : Min({a, b}) <= y
  BY <1>1, MinProperties
<1> QED BY <1>2

\* What Send takes: at least a unit, not more than there is room for, and of one
\* message only.
LEMMA TakenBounds ==
    ASSUME TransportInv, NEW n \in Nodes, NEW t \in Threads, out[n][t] # << >>,
           Taken(n, t) > 0
    PROVE  /\ Taken(n, t) \in Nat \ {0}
           /\ Len(wire[Other(n)]) + Taken(n, t) <= Room[Other(n)]
           /\ Taken(n, t) <= FirstEnd(out[n][t])
<1> DEFINE q == Other(n)
           o == out[n][t]
           a == Room[q] - Len(wire[q])
           E == {i \in DOMAIN o : o[i].last}
           b == Min(E)
<1>1. q \in Nodes /\ Room[q] \in Nat /\ Len(wire[q]) \in Nat /\ Len(wire[q]) <= Room[q]
  BY Ends, LenProperties DEF TransportInv, TextInv
<1>2. a \in Nat
  BY <1>1
<1>3. b \in Nat
  <2>1. o \in Seq(MessageUnit(n)) /\ o[Len(o)].last /\ o # << >>
    BY DEF TransportInv, OutInv, Sendable
  <2>2. Len(o) \in DOMAIN o /\ DOMAIN o \subseteq Nat
    BY <2>1, LenProperties, EmptySeq
  <2>3. E \subseteq Nat /\ E # {}
    BY <2>1, <2>2
  <2> HIDE DEF E
  <2> QED BY <2>3, MinProperties
<1>4. Taken(n, t) = Min({a, b})
  BY DEF Taken
<1> HIDE DEF a, b
<1>5. Taken(n, t) \in Nat /\ Taken(n, t) <= a /\ Taken(n, t) <= b
  BY <1>2, <1>3, <1>4, LeastOfTwo
<1>6. Len(wire[q]) + Taken(n, t) <= Room[q]
  <2> DEFINE k == Taken(n, t)
             v == Len(wire[q])
             u == Room[q]
  <2>1. u \in Nat /\ v \in Nat /\ k \in Nat /\ k <= a /\ a = u - v
    BY <1>1, <1>5 DEF a
  <2> HIDE DEF k, u, v
  <2>2. v + k <= u
    BY ONLY <2>1
  <2> QED BY <2>2 DEF k, u, v
<1> QED BY <1>5, <1>6 DEF b, FirstEnd

\* One turn of send_message: it begins its message, goes on with it or ends it.
LEMMA SendKeeps ==
    ASSUME TransportInv, NEW n \in Nodes, NEW t \in Threads, Send(n, t)
    PROVE  TransportInv'
<1> USE DEF TransportInv
<1> DEFINE q == Other(n)
           U == MessageUnit(n)
           o == out[n]
           k == Taken(n, t)
           x == SubSeq(o[t], 1, k)
           r == SubSeq(o[t], k + 1, Len(o[t]))
<1>1. /\ o[t] # << >> /\ k > 0
      /\ wire' = [wire EXCEPT ![q] = wire[q] \o x]
      /\ out' = [out EXCEPT ![n][t] = r]
      /\ mixed' = IF \E s \in Threads \ {t} : Amid(n, s) THEN mixed \cup {q} ELSE mixed
      /\ IF r # << >>
         THEN UNCHANGED <<pc, peers_lock, mempool_lock>>
         ELSE /\ pc' = [pc EXCEPT ![n][t] = AfterSend(n, pc[n][t])]
              /\ peers_lock' = Free(peers_lock, n, t)
              /\ mempool_lock' = Free(mempool_lock, n, t)
      /\ UNCHANGED <<line, mempool_count, broadcasts, lost, heard>>
  BY Zenon DEF Send, To
<1>2. /\ q \in Nodes /\ q # n /\ Other(q) = n
      /\ \A m \in Nodes : m = n \/ m = q
  BY Ends
<1>3. /\ Sendable(n, o[t]) /\ pc[n][t] \in Sending
      /\ \A i \in 1 .. Len(o[t]) : o[t][i].locked => peers_lock[n] = t
      /\ \A v \in Threads : o[v] \in Seq(U) /\ Sendable(n, o[v])
  BY <1>1 DEF OutInv, Sendable
<1>4. k \in Nat \ {0} /\ Len(wire[q]) + k <= Room[q] /\ k <= FirstEnd(o[t])
  BY <1>1, TakenBounds
<1>5. /\ k <= Len(o[t])
      /\ x \in Seq(U) /\ Len(x) = k /\ x[1] = o[t][1] /\ Chained(x)
      /\ Sendable(n, r)
      /\ r = << >> => x[k].last
      /\ r # << >> => Follows(x[k], r[1])
      /\ \A i \in 1 .. Len(r) : i + k \in 1 .. Len(o[t]) /\ r[i] = o[t][i + k]
  <2> DEFINE y == o[t]
  <2>1. /\ y # << >> /\ Sendable(n, y) /\ k \in Nat \ {0}
        /\ k <= FirstEnd(y)
        /\ x = SubSeq(y, 1, k) /\ r = SubSeq(y, k + 1, Len(y))
    BY <1>1, <1>3, <1>4
  <2> HIDE DEF o, k, U, x, r, y
  <2>2. Cut(n, y, k, x, r)
    BY ONLY <2>1, n \in Nodes, Sent
  <2> QED BY <2>2 DEF Cut, U, y
<1>6. x # << >> /\ r \in Seq(U)
  <2>1. Len(<< >>) = 0
    OBVIOUS
  <2> HIDE DEF x, r, k, o
  <2> QED BY <1>4, <1>5, <2>1 DEF Sendable
<1> HIDE DEF k, x, r, o, U, q
<1>7. x \in Seq(UnitType) /\ r \in Seq(UnitType)
  BY <1>5, <1>6, UnitsTyped DEF U
<1>8. /\ out' \in [Nodes -> [Threads -> Seq(UnitType)]]
      /\ out'[n] = [o EXCEPT ![t] = r] /\ out'[n][t] = r
      /\ \A m \in Nodes : \A u \in Threads : m # n \/ u # t => out'[m][u] = out[m][u]
      /\ \A m \in Nodes \ {n} : out'[m] = out[m]
  <2> DEFINE S == Seq(UnitType)
  <2>1. out \in [Nodes -> [Threads -> S]] /\ r \in S /\ out' = [out EXCEPT ![n][t] = r]
    BY <1>1, <1>7 DEF Shapes
  <2> HIDE DEF S
  <2>2. /\ out' \in [Nodes -> [Threads -> S]]
        /\ out'[n] = [out[n] EXCEPT ![t] = r] /\ out'[n][t] = r
        /\ \A m \in Nodes : \A u \in Threads : m # n \/ u # t => out'[m][u] = out[m][u]
        /\ \A m \in Nodes \ {n} : out'[m] = out[m]
    BY <2>1, ThreadSet
  <2> QED BY <2>2 DEF S, o
<1>9. /\ pc' \in [Nodes -> [Threads -> Points]]
      /\ \A m \in Nodes : \A u \in Threads : m # n \/ u # t => pc'[m][u] = pc[m][u]
      /\ r # << >> => pc' = pc
  <2>0. pc \in [Nodes -> [Threads -> Points]]
    BY DEF Shapes
  <2>1. CASE r # << >>
    BY <1>1, <2>0, <2>1
  <2>2. CASE r = << >>
    <3>1. AfterSend(n, pc[n][t]) \in Points
      BY <1>3 DEF AfterSend, Sending, Points
    <3>2. pc' = [pc EXCEPT ![n][t] = AfterSend(n, pc[n][t])]
      BY <1>1, <2>2
    <3> QED BY <2>0, <2>2, <3>1, <3>2, ThreadSet
  <2> QED BY <2>1, <2>2
<1>10. /\ {peers_lock', mempool_lock'} \subseteq [Nodes -> Threads \cup {"nobody"}]
       /\ \A m \in Nodes : peers_lock'[m] = peers_lock[m] \/ (peers_lock[m] = t /\ m = n)
       /\ r # << >> => peers_lock' = peers_lock
  <2> DEFINE L == [Nodes -> Threads \cup {"nobody"}]
  <2>1. peers_lock \in L /\ mempool_lock \in L
    BY DEF Shapes
  <2>2. ASSUME NEW f \in L
        PROVE  /\ Free(f, n, t) \in L
               /\ \A m \in Nodes : Free(f, n, t)[m] = f[m] \/ (f[m] = t /\ m = n)
    <3> DEFINE g == [f EXCEPT ![n] = "nobody"]
    <3>1. g \in L /\ \A m \in Nodes \ {n} : g[m] = f[m]
      BY <2>2
    <3>2. Free(f, n, t) = IF f[n] = t THEN g ELSE f
      BY DEF Free
    <3> HIDE DEF g, L
    <3> QED BY <2>2, <3>1, <3>2
  <2>3. \/ r # << >> /\ peers_lock' = peers_lock /\ mempool_lock' = mempool_lock
        \/ /\ r = << >>
           /\ peers_lock' = Free(peers_lock, n, t) /\ mempool_lock' = Free(mempool_lock, n, t)
    BY <1>1
  <2> HIDE DEF L
  <2>4. /\ peers_lock' \in L /\ mempool_lock' \in L
        /\ \A m \in Nodes : peers_lock'[m] = peers_lock[m] \/ (peers_lock[m] = t /\ m = n)
        /\ r # << >> => peers_lock' = peers_lock
    BY ONLY <2>1, <2>2, <2>3
  <2> QED BY ONLY <2>4 DEF L
<1>11. OutInv'
  <2> SUFFICES ASSUME NEW m \in Nodes, NEW u \in Threads
               PROVE  /\ Sendable(m, out'[m][u])
                      /\ out'[m][u] # << >> => pc'[m][u] \in Sending
                      /\ \A i \in 1 .. Len(out'[m][u]) : out'[m][u][i].locked => peers_lock'[m] = u
    BY DEF OutInv
  <2>1. CASE m = n /\ u = t
    <3>1. \A i \in 1 .. Len(r) : r # << >> /\ (r[i].locked => peers_lock[n] = t)
      <4>1. \A i \in 1 .. Len(r) : r[i].locked => peers_lock[n] = t
        BY <1>3, <1>5
      <4>2. \A i \in 1 .. Len(r) : r # << >>
        <5>1. 1 .. Len(<< >>) = {}
          OBVIOUS
        <5> QED BY <5>1
      <4> QED BY <4>1, <4>2
    <3> QED BY <1>3, <1>5, <1>8, <1>9, <1>10, <2>1, <3>1
  <2>2. CASE m # n \/ u # t
    <3>1. out'[m][u] = out[m][u] /\ pc'[m][u] = pc[m][u]
      BY <1>8, <1>9, <2>2
    <3>2. /\ Sendable(m, out[m][u])
          /\ out[m][u] # << >> => pc[m][u] \in Sending
          /\ \A i \in 1 .. Len(out[m][u]) : out[m][u][i].locked => peers_lock[m] = u
      BY DEF OutInv
    <3>3. peers_lock[m] = u => peers_lock'[m] = u
      BY <1>10, <2>2
    <3> QED BY <3>1, <3>2, <3>3
  <2> QED BY <2>1, <2>2
<1>12. /\ wire[q] \in Seq(U) /\ line[q] \in Seq(U)
       /\ wire'[q] = wire[q] \o x /\ \A m \in Nodes \ {q} : wire'[m] = wire[m]
       /\ line' = line
  BY <1>1, <1>2 DEF TextInv, Shapes, U
<1>13. /\ wire'[q] \in Seq(U) /\ wire'[q] \in Seq(UnitType) /\ Len(wire'[q]) <= Room[q]
  <2>0. wire[q] \in Seq(U) /\ x \in Seq(U)
    BY <1>5, <1>12
  <2>1. wire[q] \o x \in Seq(U) /\ Len(wire[q] \o x) = Len(wire[q]) + Len(x)
    BY ONLY <2>0, ConcatProperties
  <2>2. wire'[q] \in Seq(U) /\ Len(wire'[q]) = Len(wire[q]) + Len(x)
    BY <1>12, <2>1
  <2> QED BY <1>4, <1>5, <2>2, UnitsTyped DEF U
<1>14. TextInv'
  <2> SUFFICES ASSUME NEW m \in Nodes
               PROVE  /\ wire'[m] \in Seq(MessageUnit(Other(m))) /\ Len(wire'[m]) <= Room[m]
                      /\ line[m] \in Seq(MessageUnit(Other(m))) /\ Len(line[m]) < LineUnits
                      /\ \A i \in 1 .. Len(line[m]) : ~ line[m][i].last
    BY <1>12 DEF TextInv
  <2>1. CASE m = q
    BY <1>2, <1>13, <2>1 DEF TextInv, U
  <2>2. CASE m # q
    BY <1>12, <2>2 DEF TextInv
  <2> QED BY <2>1, <2>2
<1>15. Shapes'
  <2>1. wire' \in [Nodes -> Seq(UnitType)]
    BY <1>1, <1>7, <1>13 DEF Shapes
  <2>2. mixed' \subseteq Nodes
    BY <1>1, <1>2 DEF Shapes
  <2> QED BY <1>1, <1>8, <1>9, <1>10, <2>1, <2>2 DEF Shapes
<1>16. Stream(q)' = Stream(q) \o x /\ Stream(q) \in Seq(U) /\ Stream(n)' = Stream(n)
  <2>0. wire[q] \in Seq(U) /\ line[q] \in Seq(U) /\ x \in Seq(U)
    BY <1>5, <1>12
  <2>1. (line[q] \o wire[q]) \o x = line[q] \o (wire[q] \o x)
    <3> DEFINE l == line[q]
               w == wire[q]
    <3>1. l \in Seq(U) /\ w \in Seq(U) /\ x \in Seq(U)
      BY <2>0
    <3> HIDE DEF l, w
    <3>2. (l \o w) \o x = l \o (w \o x)
      BY ONLY <3>1, ConcatAssociative
    <3> QED BY <3>2 DEF l, w
  <2>2. line[q] \o wire[q] \in Seq(U)
    BY ONLY <2>0, ConcatProperties
  <2> QED BY <1>2, <1>12, <2>1, <2>2 DEF Stream
<1>17. out'[q] = out[q]
  BY <1>2, <1>8
<1>18. o \in [Threads -> Seq(U)] /\ x[Len(x)] = x[k]
  BY <1>3, <1>5 DEF Shapes, o
<1>19. LockedRuns(Stream(q), o) /\ LockedRuns(Stream(n), out[q])
  BY <1>2 DEF RunsInv, o, q
<1>20. LockedRuns(Stream(q) \o x, out'[n])
  <2> DEFINE s == Stream(q)
             o2 == out'[n]
             holder == peers_lock[n]
  <2>1. \A v \in Threads : \A i \in 1 .. Len(o[v]) : o[v][i].locked => v = holder
    BY DEF OutInv, o
  <2>2. s \in Seq(U) /\ LockedRuns(s, o) /\ o2 = [o EXCEPT ![t] = r]
    BY <1>8, <1>16, <1>19
  <2>3. r = << >> => x[Len(x)].last
    BY <1>5, <1>18
  <2>4. r # << >> => Follows(x[Len(x)], r[1])
    BY <1>5, <1>18
  <2>5. x \in Seq(U) /\ x # << >> /\ Chained(x) /\ o[t] # << >> /\ x[1] = o[t][1] /\ r \in Seq(U)
    BY <1>1, <1>5, <1>6
  <2> HIDE DEF s, o2, holder
  <2>6. LockedRuns(s \o x, o2)
    BY ONLY <1>18, <2>1, <2>2, <2>3, <2>4, <2>5, t \in Threads, SendKeepsLockedRuns
  <2> QED BY <2>6 DEF s, o2
<1>21. q \notin mixed' => WholeRuns(q, Stream(q) \o x, out'[n])
  <2> SUFFICES ASSUME q \notin mixed' PROVE WholeRuns(q, Stream(q) \o x, out'[n])
    OBVIOUS
  <2> DEFINE s == Stream(q)
             o2 == out'[n]
  <2>1. \A v \in Threads \ {t} : ~ Inside(o, v)
    <3> SUFFICES ASSUME NEW v \in Threads \ {t}, Inside(o, v) PROVE FALSE
      OBVIOUS
    <3>1. o[v] \in Seq(U) /\ o[v] # << >> /\ o[v][1].part # 1
      BY <1>3 DEF Inside
    <3>2. o[v][1] \in U
      BY <3>1, EmptySeq, ElementOfSeq
    <3>3. o[v][1].part \in Nat \ {0}
      BY <3>2, UnitsTyped DEF U
    <3>4. Head(o[v]) = o[v][1]
      OBVIOUS
    <3>5. Amid(n, v)
      BY <3>1, <3>3, <3>4 DEF Amid, o
    <3> QED BY <1>1, <3>5
  <2>2. q \notin mixed
    BY <1>1
  <2>3. s \in Seq(U) /\ WholeRuns(q, s, o) /\ o2 = [o EXCEPT ![t] = r]
    BY <1>2, <1>8, <1>16, <2>2 DEF RunsInv, o
  <2>4. r = << >> => x[Len(x)].last
    BY <1>5, <1>18
  <2>5. r # << >> => Follows(x[Len(x)], r[1])
    BY <1>5, <1>18
  <2>6. x \in Seq(U) /\ x # << >> /\ Chained(x) /\ o[t] # << >> /\ x[1] = o[t][1] /\ r \in Seq(U)
    BY <1>1, <1>5, <1>6
  <2>7. \A u \in U : u.part \in Nat \ {0}
    BY UnitsTyped DEF U
  <2> HIDE DEF s, o2
  <2>8. WholeRuns(q, s \o x, o2)
    BY ONLY <1>18, <2>1, <2>3, <2>4, <2>5, <2>6, <2>7, t \in Threads, SendKeepsWholeRuns
  <2> QED BY <2>8 DEF s, o2
<1>22. RunsInv'
  <2>1. \A m \in Nodes : LockedRuns(Stream(m)', out'[Other(m)])
    BY <1>2, <1>16, <1>17, <1>19, <1>20 DEF q
  <2>2. mixed \subseteq mixed'
    BY <1>1
  <2>3. n \notin mixed' => WholeRuns(n, Stream(n)', out'[Other(n)])
    BY <1>16, <1>17, <2>2 DEF RunsInv, q
  <2>4. q \notin mixed' => WholeRuns(q, Stream(q)', out'[Other(q)])
    BY <1>2, <1>16, <1>21
  <2>5. \A m \in Nodes \ mixed' : OneMessage(line'[m]) /\ \A kind \in lost'[m] : Long(m, kind)
    BY <1>1, <2>2 DEF RunsInv
  <2> QED BY <1>2, <2>1, <2>3, <2>4, <2>5 DEF RunsInv
<1> QED BY <1>11, <1>14, <1>15, <1>22

\* What read_message has then, and what is still on its way.
LEMMA Reading ==
    ASSUME TransportInv, NEW n \in Nodes, wire[n] # << >>,
           NEW text, text = Append(line[n], Head(wire[n])),
           NEW rest, rest = Tail(wire[n])
    PROVE  /\ text \in Seq(MessageUnit(Other(n))) /\ rest \in Seq(MessageUnit(Other(n)))
           /\ text \in Seq(UnitType) /\ rest \in Seq(UnitType)
           /\ Len(text) = Len(line[n]) + 1 /\ Len(rest) <= Room[n]
           /\ text \o rest = Stream(n) /\ << >> \o rest = rest
           /\ \A i \in 1 .. Len(line[n]) : text[i] = line[n][i]
           /\ text[Len(text)] = Head(wire[n])
           /\ LockedRuns(rest, out[Other(n)])
           /\ n \notin mixed =>
                 /\ OneMessage(text)
                 /\ (Head(wire[n]).last \/ Len(text) = LineUnits) => WholeRuns(n, rest, out[Other(n)])
                 /\ (Head(wire[n]).last \/ Len(text) = LineUnits) /\ ~ Whole(text) =>
                       \A i \in 1 .. Len(text) : Long(n, text[i].kind)
<1> DEFINE U == MessageUnit(Other(n))
           l == line[n]
           w == wire[n]
           s == Stream(n)
           o == out[Other(n)]
<1>1. /\ l \in Seq(U) /\ w \in Seq(U) /\ w # << >> /\ s = l \o w
      /\ text = Append(l, Head(w)) /\ rest = Tail(w)
      /\ Len(w) <= Room[n] /\ Room[n] \in Nat
      /\ Len(l) < LineUnits /\ \A i \in 1 .. Len(l) : ~ l[i].last
      /\ LockedRuns(s, o)
  BY Ends DEF TransportInv, TextInv, RunsInv, Stream
<1>2. n \notin mixed => WholeRuns(n, s, o) /\ OneMessage(l)
  BY DEF TransportInv, RunsInv
<1>3. \A t \in Seq(U) : t \in Seq(UnitType)
  BY Ends, UnitsTyped
<1> HIDE DEF l, w, s, o
<1>4. /\ rest \in Seq(U) /\ Len(w) \in Nat \ {0} /\ Len(rest) = Len(w) - 1
      /\ Head(w) \in U
  BY <1>1, UnitRead DEF U
<1>5. /\ s \in Seq(U) /\ s # << >> /\ Len(text) \in 1 .. Len(s) /\ Len(text) = Len(l) + 1
      /\ text \in Seq(U) /\ text[Len(text)] = Head(w)
      /\ \A i \in 1 .. Len(text) : text[i] = s[i]
      /\ \A i \in 1 .. Len(l) : text[i] = l[i]
      /\ text \o rest = s
      /\ Len(rest) = Len(s) - Len(text)
      /\ \A i \in 1 .. Len(rest) : rest[i] = s[i + Len(text)]
  <2> HIDE DEF U
  <2> QED BY ONLY <1>1, TextRead
<1>6. << >> \o rest = rest
  <2> HIDE DEF U
  <2> QED BY ONLY <1>4, ConcatEmptySeq
<1>7. Len(rest) <= Room[n]
  BY ONLY <1>1, <1>4
<1>8. /\ LockedRuns(s, o) => LockedRuns(rest, o)
      /\ WholeRuns(n, s, o) /\ (~ Head(w).last => Long(n, Head(w).kind)) => WholeRuns(n, rest, o)
  <2> DEFINE j == Len(text)
  <2>1. /\ s \in Seq(U) /\ j \in 1 .. Len(s) /\ rest \in Seq(U) /\ Len(rest) = Len(s) - j
        /\ \A i \in 1 .. Len(rest) : rest[i] = s[i + j]
        /\ s[j] = Head(w)
    <3>1. j \in 1 .. j
      BY <1>5, LenProperties
    <3> QED BY <1>4, <1>5, <3>1
  <2> HIDE DEF j, U
  <2>2. /\ LockedRuns(s, o) => LockedRuns(rest, o)
        /\ WholeRuns(n, s, o) /\ (~ s[j].last => Long(n, s[j].kind)) => WholeRuns(n, rest, o)
    BY ONLY <2>1, ReadKeepsRuns
  <2> QED BY <2>1, <2>2
<1>9. n \notin mixed =>
         /\ OneMessage(text)
         /\ Len(text) = LineUnits /\ ~ Head(w).last => Long(n, Head(w).kind)
         /\ (Head(w).last \/ Len(text) = LineUnits) /\ ~ Whole(text) =>
               \A i \in 1 .. Len(text) : Long(n, text[i].kind)
  <2> SUFFICES ASSUME n \notin mixed
               PROVE  /\ OneMessage(text)
                      /\ Len(text) = LineUnits /\ ~ Head(w).last => Long(n, Head(w).kind)
                      /\ (Head(w).last \/ Len(text) = LineUnits) /\ ~ Whole(text) =>
                            \A i \in 1 .. Len(text) : Long(n, text[i].kind)
    OBVIOUS
  <2>1. WholeRuns(n, s, o) /\ OneMessage(l)
    BY <1>2
  <2> QED BY ONLY <1>1, <2>1, n \in Nodes, LineRead DEF U
<1> QED BY <1>1, <1>2, <1>3, <1>4, <1>5, <1>6, <1>7, <1>8, <1>9 DEF l, w, s, o

\* read_message, in the middle of a line.
LEMMA ReadMoreKeeps ==
    ASSUME TransportInv, NEW n \in Nodes, ReadMore(n)
    PROVE  TransportInv'
<1> USE DEF TransportInv
<1> DEFINE h == Head(wire[n])
           text == Append(line[n], h)
           rest == Tail(wire[n])
<1>1. /\ wire[n] # << >> /\ ~ h.last /\ Len(line[n]) + 1 < LineUnits
      /\ line' = [line EXCEPT ![n] = text] /\ wire' = [wire EXCEPT ![n] = rest]
      /\ UNCHANGED <<pc, out, peers_lock, mempool_lock, mempool_count, broadcasts,
                     mixed, lost, heard>>
  BY DEF ReadMore
<1> HIDE DEF text, rest
<1>2. /\ text \in Seq(MessageUnit(Other(n))) /\ rest \in Seq(MessageUnit(Other(n)))
      /\ text \in Seq(UnitType) /\ rest \in Seq(UnitType)
      /\ Len(text) = Len(line[n]) + 1 /\ Len(rest) <= Room[n]
      /\ text \o rest = Stream(n)
      /\ \A i \in 1 .. Len(line[n]) : text[i] = line[n][i]
      /\ text[Len(text)] = h
      /\ n \notin mixed => OneMessage(text)
  BY <1>1, Reading DEF text, rest
<1> HIDE DEF h
<1>3. /\ line'[n] = text /\ wire'[n] = rest
      /\ \A m \in Nodes \ {n} : line'[m] = line[m] /\ wire'[m] = wire[m]
      /\ line' \in [Nodes -> Seq(UnitType)] /\ wire' \in [Nodes -> Seq(UnitType)]
  BY <1>1, <1>2 DEF Shapes
<1>4. Shapes'
  BY <1>1, <1>3 DEF Shapes
<1>5. OutInv'
  BY <1>1 DEF OutInv
<1>6. \A i \in 1 .. Len(text) : ~ text[i].last
  <2>1. \A i \in 1 .. Len(text) : i \in 1 .. Len(line[n]) \/ i = Len(text)
    <3>1. Len(line[n]) \in Nat
      BY LenProperties DEF TextInv
    <3> QED BY <1>2, <3>1
  <2> QED BY <1>1, <1>2, <2>1 DEF TextInv
<1>7. TextInv'
  <2> SUFFICES ASSUME NEW m \in Nodes
               PROVE  /\ wire'[m] \in Seq(MessageUnit(Other(m))) /\ Len(wire'[m]) <= Room[m]
                      /\ line'[m] \in Seq(MessageUnit(Other(m))) /\ Len(line'[m]) < LineUnits
                      /\ \A i \in 1 .. Len(line'[m]) : ~ line'[m][i].last
    BY DEF TextInv
  <2>1. CASE m = n
    BY <1>1, <1>2, <1>3, <1>6, <2>1
  <2>2. CASE m # n
    BY <1>3, <2>2 DEF TextInv
  <2> QED BY <2>1, <2>2
<1>8. \A m \in Nodes : Stream(m)' = Stream(m)
  BY <1>2, <1>3 DEF Stream
<1>9. RunsInv'
  BY <1>1, <1>2, <1>3, <1>8 DEF RunsInv
<1> QED BY <1>4, <1>5, <1>7, <1>9

\* What handle_message does to the reader: it answers, waits for a lock, or goes on.
LEMMA Handled ==
    ASSUME TransportInv, NEW n \in Nodes, At(n, "reader", "read"), NEW text, Handle(n, text)
    PROVE  \E point \in Points : \E new :
              /\ pc' = [pc EXCEPT ![n]["reader"] = point]
              /\ out' = [out EXCEPT ![n]["reader"] = new]
              /\ Sendable(n, new)
              /\ new # << >> => new[1].part = 1 /\ point \in Sending
              /\ \A i \in 1 .. Len(new) : ~ new[i].locked
<1>1. /\ pc \in [Nodes -> [Threads -> Points]] /\ out \in [Nodes -> [Threads -> Seq(UnitType)]]
      /\ "reader" \in Threads /\ pc[n]["reader"] = "read" /\ out[n]["reader"] = << >>
      /\ {"read", "answer", "relay", "enqueue"} \subseteq Points /\ "answer" \in Sending
  BY DEF TransportInv, Shapes, At, Threads, Points, Sending
<1>2. pc = [pc EXCEPT ![n]["reader"] = "read"] /\ out = [out EXCEPT ![n]["reader"] = << >>]
  BY <1>1
<1>3. Sendable(n, << >>) /\ \A i \in 1 .. Len(<< >>) : ~ << >>[i].locked
  <2>1. << >> \in Seq(MessageUnit(n)) /\ Len(<< >>) = 0 /\ 2 .. 0 = {} /\ 1 .. 0 = {}
    BY EmptySeq
  <2> QED BY <2>1 DEF Sendable, Chained
<1>4. CASE /\ pc' = [pc EXCEPT ![n]["reader"] = "answer"]
           /\ out' = [out EXCEPT ![n]["reader"] = Message(n, "CHAIN_RESPONSE", FALSE)]
  <2> DEFINE new == Message(n, "CHAIN_RESPONSE", FALSE)
  <2>1. /\ Sendable(n, new) /\ new[1].part = 1
        /\ \A i \in 1 .. Len(new) : ~ new[i].locked
    <3>1. "CHAIN_RESPONSE" \in Kinds /\ FALSE \in BOOLEAN
      BY DEF Kinds
    <3> QED BY <3>1, MessageSendable
  <2> HIDE DEF new
  <2>2. out' = [out EXCEPT ![n]["reader"] = new]
    BY <1>4 DEF new
  <2> QED BY <1>1, <1>4, <2>1, <2>2
<1>5. CASE /\ \E point \in {"relay", "enqueue", "read"} : pc' = [pc EXCEPT ![n]["reader"] = point]
           /\ out' = out
  <2>1. PICK point \in {"relay", "enqueue", "read"} : pc' = [pc EXCEPT ![n]["reader"] = point]
    BY <1>5
  <2>2. point \in Points /\ out' = [out EXCEPT ![n]["reader"] = << >>]
    BY <1>1, <1>2, <1>5
  <2> QED BY <1>3, <2>1, <2>2
<1> QED BY <1>2, <1>4, <1>5 DEF Handle, To

\* A line that is not one message whole is lost, and only then is anything lost.
LEMMA LostLine ==
    ASSUME TransportInv, NEW n \in Nodes, NEW text \in Seq(UnitType), Handle(n, text),
           ~ Whole(text) => \A i \in 1 .. Len(text) : text[i].kind \in Kinds
    PROVE  /\ lost' \in [Nodes -> SUBSET Kinds] /\ heard' \subseteq Nodes
           /\ \A m \in Nodes \ {n} : lost'[m] = lost[m]
           /\ \A kind \in lost'[n] : kind \in lost[n] \/
                 (~ Whole(text) /\ \E i \in 1 .. Len(text) : kind = text[i].kind)
<1>1. lost \in [Nodes -> SUBSET Kinds] /\ heard \subseteq Nodes /\ DOMAIN text = 1 .. Len(text)
  BY LenProperties DEF TransportInv, Shapes
<1>2. CASE Whole(text)
  BY <1>1, <1>2 DEF Handle
<1>3. CASE ~ Whole(text)
  <2> DEFINE K == {text[i].kind : i \in DOMAIN text}
  <2>1. lost' = [lost EXCEPT ![n] = lost[n] \cup K] /\ heard' = heard
    BY <1>3 DEF Handle
  <2>2. K \subseteq Kinds /\ \A kind \in K : \E i \in 1 .. Len(text) : kind = text[i].kind
    BY <1>1, <1>3
  <2> HIDE DEF K
  <2> QED BY <1>1, <1>3, <2>1, <2>2
<1> QED BY <1>2, <1>3

\* read_message to the end of a line, and handle_message.
LEMMA ReadLineKeeps ==
    ASSUME TransportInv, NEW n \in Nodes, ReadLine(n)
    PROVE  TransportInv'
<1> DEFINE h == Head(wire[n])
           text == Append(line[n], h)
           rest == Tail(wire[n])
<1>1. /\ At(n, "reader", "read") /\ wire[n] # << >>
      /\ h.last \/ Len(text) = LineUnits
      /\ Handle(n, text)
      /\ line' = [line EXCEPT ![n] = << >>] /\ wire' = [wire EXCEPT ![n] = rest]
      /\ UNCHANGED <<peers_lock, mempool_lock, mempool_count, broadcasts, mixed>>
  BY DEF ReadLine
<1> HIDE DEF text, rest
<1>2. /\ rest \in Seq(MessageUnit(Other(n))) /\ text \in Seq(UnitType) /\ rest \in Seq(UnitType)
      /\ text \in Seq(MessageUnit(Other(n)))
      /\ Len(rest) <= Room[n] /\ << >> \o rest = rest
      /\ LockedRuns(rest, out[Other(n)])
      /\ n \notin mixed =>
            /\ WholeRuns(n, rest, out[Other(n)])
            /\ ~ Whole(text) => \A i \in 1 .. Len(text) : Long(n, text[i].kind)
  BY <1>1, Reading DEF text, rest
<1> HIDE DEF h
<1>3. \A i \in 1 .. Len(text) : text[i].kind \in Kinds
  <2>1. \A i \in 1 .. Len(text) : text[i] \in MessageUnit(Other(n))
    BY <1>2, ElementOfSeq
  <2> QED BY <2>1, Ends, UnitsTyped
<1>4. /\ lost' \in [Nodes -> SUBSET Kinds] /\ heard' \subseteq Nodes
      /\ \A m \in Nodes \ {n} : lost'[m] = lost[m]
      /\ \A kind \in lost'[n] : kind \in lost[n] \/
            (~ Whole(text) /\ \E i \in 1 .. Len(text) : kind = text[i].kind)
  BY <1>1, <1>2, <1>3, LostLine
<1>5. /\ line'[n] = << >> /\ wire'[n] = rest
      /\ \A m \in Nodes \ {n} : line'[m] = line[m] /\ wire'[m] = wire[m]
      /\ line' \in [Nodes -> Seq(UnitType)] /\ wire' \in [Nodes -> Seq(UnitType)]
  <2>1. << >> \in Seq(UnitType)
    BY EmptySeq
  <2> QED BY <1>1, <1>2, <2>1 DEF TransportInv, Shapes
<1>6. Stream(n)' = rest /\ \A m \in Nodes \ {n} : Stream(m)' = Stream(m)
  BY <1>2, <1>5 DEF Stream
<1>7. TextInv'
  <2> SUFFICES ASSUME NEW m \in Nodes
               PROVE  /\ wire'[m] \in Seq(MessageUnit(Other(m))) /\ Len(wire'[m]) <= Room[m]
                      /\ line'[m] \in Seq(MessageUnit(Other(m))) /\ Len(line'[m]) < LineUnits
                      /\ \A i \in 1 .. Len(line'[m]) : ~ line'[m][i].last
    BY DEF TextInv
  <2>1. CASE m = n
    <3>1. << >> \in Seq(MessageUnit(Other(m))) /\ Len(<< >>) = 0 /\ 1 .. 0 = {} /\ 0 < LineUnits
      BY EmptySeq, Ends
    <3> QED BY <1>2, <1>5, <2>1, <3>1
  <2>2. CASE m # n
    BY <1>5, <2>2 DEF TransportInv, TextInv
  <2> QED BY <2>1, <2>2
<1>8. TextKept
  <2>1. \A m \in Nodes : LockedRuns(Stream(m)', out[Other(m)])
    BY <1>2, <1>6 DEF TransportInv, RunsInv
  <2>2. ASSUME NEW m \in Nodes \ mixed'
        PROVE  /\ WholeRuns(m, Stream(m)', out[Other(m)])
               /\ OneMessage(line'[m])
               /\ \A kind \in lost'[m] : Long(m, kind)
    <3>1. m \notin mixed
      BY <1>1
    <3>2. /\ WholeRuns(m, Stream(m), out[Other(m)]) /\ OneMessage(line[m])
          /\ \A kind \in lost[m] : Long(m, kind)
      BY <3>1 DEF TransportInv, RunsInv
    <3>3. CASE m = n
      <4>1. OneMessage(<< >>)
        <5>1. Len(<< >>) = 0 /\ 1 .. 0 = {}
          OBVIOUS
        <5> QED BY <5>1 DEF OneMessage
      <4>2. \A kind \in lost'[n] : Long(n, kind)
        BY <1>2, <1>4, <3>1, <3>2, <3>3
      <4> QED BY <1>2, <1>5, <1>6, <3>1, <3>3, <4>1, <4>2
    <3>4. CASE m # n
      BY <1>4, <1>5, <1>6, <3>2, <3>4
    <3> QED BY <3>3, <3>4
  <2> QED BY <1>7, <2>1, <2>2 DEF TextKept
<1>9. PICK point, new :
         /\ point \in Points
         /\ pc' = [pc EXCEPT ![n]["reader"] = point]
         /\ out' = [out EXCEPT ![n]["reader"] = new]
         /\ Sendable(n, new)
         /\ new # << >> => new[1].part = 1 /\ point \in Sending
         /\ \A i \in 1 .. Len(new) : ~ new[i].locked
  BY <1>1, Handled
<1>10. OutInv' /\ TextInv' /\ RunsInv' /\ out' \in [Nodes -> [Threads -> Seq(UnitType)]]
       /\ pc' \in [Nodes -> [Threads -> Points]]
  <2>1. "reader" \in Threads /\ out[n]["reader"] = << >>
    BY <1>1 DEF At, Threads
  <2>2. peers_lock' = peers_lock
    BY <1>1
  <2>3. \A i \in 1 .. Len(new) : new[i].locked => peers_lock'[n] = "reader"
    BY <1>9
  <2> QED BY <1>8, <1>9, <2>1, <2>2, <2>3, MessageKeeps
<1>11. Shapes'
  BY <1>1, <1>4, <1>5, <1>10 DEF TransportInv, Shapes
<1> QED BY <1>10, <1>11 DEF TransportInv

\* add_peer writes its request, without the lock.
LEMMA RequestChainKeeps ==
    ASSUME TransportInv, NEW n \in Nodes, RequestChain(n)
    PROVE  TransportInv'
<1> DEFINE new == Message(n, "REQUEST_CHAIN", FALSE)
           point == pc[n]["adder"]
<1>1. /\ "adder" \in Threads /\ out[n]["adder"] = << >>
      /\ point \in Points /\ point \in Sending
      /\ out' = [out EXCEPT ![n]["adder"] = new]
      /\ UNCHANGED <<pc, wire, line, peers_lock, mempool_lock, mempool_count,
                     broadcasts, mixed, lost, heard>>
  BY DEF RequestChain, At, Threads, Points, Sending
<1>2. pc' = [pc EXCEPT ![n]["adder"] = point]
  BY <1>1 DEF TransportInv, Shapes
<1>3. /\ Sendable(n, new) /\ new[1].part = 1
      /\ \A i \in 1 .. Len(new) : new[i].locked => peers_lock'[n] = "adder"
  <2>1. "REQUEST_CHAIN" \in Kinds /\ FALSE \in BOOLEAN
    BY DEF Kinds
  <2> QED BY <2>1, MessageSendable
<1> HIDE DEF new, point
<1>4. TextKept
  BY <1>1, TextUnchanged
<1>5. OutInv' /\ TextInv' /\ RunsInv' /\ out' \in [Nodes -> [Threads -> Seq(UnitType)]]
      /\ pc' \in [Nodes -> [Threads -> Points]]
  BY <1>1, <1>2, <1>3, <1>4, MessageKeeps
<1> QED BY <1>1, <1>5 DEF TransportInv, Shapes

\* on_peer_connected writes the mempool under mempool_lock.
LEMMA GreetKeeps ==
    ASSUME TransportInv, NEW n \in Nodes, Greet(n)
    PROVE  TransportInv'
<1>1. /\ At(n, "adder", "greet")
      /\ IF mempool_count[n] = 0
         THEN To(n, "adder", AfterSend(n, "greet")) /\ UNCHANGED <<out, mempool_lock>>
         ELSE /\ out' = [out EXCEPT ![n]["adder"] =
                   [i \in 1 .. mempool_count[n] |-> Message(n, "NEW_TX", FALSE)[1]]]
              /\ mempool_lock' = [mempool_lock EXCEPT ![n] = "adder"]
              /\ UNCHANGED pc
      /\ UNCHANGED <<wire, line, peers_lock, mempool_count, broadcasts, mixed, lost, heard>>
  BY DEF Greet
<1>2. /\ "adder" \in Threads /\ out[n]["adder"] = << >> /\ pc[n]["adder"] = "greet"
      /\ "greet" \in Points /\ "greet" \in Sending
      /\ mempool_count[n] \in Nat
      /\ pc \in [Nodes -> [Threads -> Points]] /\ out \in [Nodes -> [Threads -> Seq(UnitType)]]
      /\ mempool_lock \in [Nodes -> Threads \cup {"nobody"}]
  BY <1>1, Ends DEF At, Threads, Points, Sending, TransportInv, Shapes
<1>3. TextKept
  BY <1>1, TextUnchanged
<1>4. PICK point, new :
         /\ point \in Points
         /\ pc' = [pc EXCEPT ![n]["adder"] = point]
         /\ out' = [out EXCEPT ![n]["adder"] = new]
         /\ Sendable(n, new)
         /\ new # << >> => new[1].part = 1 /\ point \in Sending
         /\ \A i \in 1 .. Len(new) : ~ new[i].locked
  <2>1. CASE mempool_count[n] = 0
    <3>1. AfterSend(n, "greet") \in Points
      BY DEF AfterSend, Points
    <3>2. pc' = [pc EXCEPT ![n]["adder"] = AfterSend(n, "greet")]
      BY <1>1, <2>1 DEF To
    <3>3. out' = [out EXCEPT ![n]["adder"] = << >>]
      BY <1>1, <1>2, <2>1
    <3>4. Sendable(n, << >>) /\ \A i \in 1 .. Len(<< >>) : ~ << >>[i].locked
      <4>1. << >> \in Seq(MessageUnit(n)) /\ Len(<< >>) = 0 /\ 2 .. 0 = {} /\ 1 .. 0 = {}
        BY EmptySeq
      <4> QED BY <4>1 DEF Sendable, Chained
    <3> QED BY <3>1, <3>2, <3>3, <3>4
  <2>2. CASE mempool_count[n] # 0
    <3> DEFINE k == mempool_count[n]
               new == [i \in 1 .. k |-> Message(n, "NEW_TX", FALSE)[1]]
    <3>1. out' = [out EXCEPT ![n]["adder"] = new] /\ pc' = pc
      BY <1>1, <2>2
    <3>2. /\ Sendable(n, new) /\ new # << >> /\ new[1].part = 1
          /\ \A i \in 1 .. Len(new) : ~ new[i].locked
      <4>1. k \in Nat \ {0}
        BY <1>2, <2>2
      <4> QED BY <4>1, GreetingSendable
    <3>3. pc' = [pc EXCEPT ![n]["adder"] = "greet"]
      BY <1>2, <3>1
    <3> HIDE DEF new
    <3> QED BY <1>2, <3>1, <3>2, <3>3
  <2> QED BY <2>1, <2>2
<1>5. OutInv' /\ TextInv' /\ RunsInv' /\ out' \in [Nodes -> [Threads -> Seq(UnitType)]]
      /\ pc' \in [Nodes -> [Threads -> Points]]
  <2>1. \A i \in 1 .. Len(new) : new[i].locked => peers_lock'[n] = "adder"
    BY <1>4
  <2>2. peers_lock' = peers_lock
    BY <1>1
  <2> QED BY <1>2, <1>3, <1>4, <2>1, <2>2, MessageKeeps
<1>6. mempool_lock' \in [Nodes -> Threads \cup {"nobody"}]
  BY <1>1, <1>2
<1> QED BY <1>1, <1>5, <1>6 DEF TransportInv, Shapes

\* A broadcast begins with peers_lock taken.
LEMMA BroadcastKeeps ==
    ASSUME TransportInv, NEW n \in Nodes, NEW t \in {"adder", "other"}, Broadcast(n, t)
    PROVE  TransportInv'
<1>1. /\ At(n, t, "free") /\ broadcasts[n] < MaxBroadcasts[n] /\ peers_lock[n] = "nobody"
      /\ peers_lock' = [peers_lock EXCEPT ![n] = t]
      /\ pc' = [pc EXCEPT ![n][t] = "broadcast"]
      /\ broadcasts' = [broadcasts EXCEPT ![n] = @ + 1]
      /\ UNCHANGED <<wire, line, mempool_lock, mempool_count, mixed, lost, heard>>
  BY DEF Broadcast, To
<1>2. PICK kind \in {"NEW_BLOCK", "NEW_TX"} :
         out' = [out EXCEPT ![n][t] = Message(n, kind, TRUE)]
  BY DEF Broadcast
<1> DEFINE new == Message(n, kind, TRUE)
<1>3. /\ t \in Threads /\ out[n][t] = << >> /\ "broadcast" \in Points /\ "broadcast" \in Sending
      /\ peers_lock \in [Nodes -> Threads \cup {"nobody"}]
      /\ broadcasts \in [Nodes -> Nat]
  BY <1>1 DEF At, Threads, Points, Sending, TransportInv, Shapes
<1>4. Sendable(n, new) /\ new[1].part = 1
  <2>1. kind \in Kinds /\ TRUE \in BOOLEAN
    BY DEF Kinds
  <2> QED BY <2>1, MessageSendable
<1>5. peers_lock'[n] = t /\ peers_lock' \in [Nodes -> Threads \cup {"nobody"}]
  BY <1>1, <1>3
<1>6. TextKept
  BY <1>1, TextUnchanged
<1> HIDE DEF new
<1>7. OutInv' /\ TextInv' /\ RunsInv' /\ out' \in [Nodes -> [Threads -> Seq(UnitType)]]
      /\ pc' \in [Nodes -> [Threads -> Points]]
  <2>1. out' = [out EXCEPT ![n][t] = new]
    BY <1>2 DEF new
  <2> QED BY <1>1, <1>3, <1>4, <1>5, <1>6, <2>1, MessageKeeps
<1>8. broadcasts' \in [Nodes -> Nat] /\ \A m \in Nodes : broadcasts'[m] <= MaxBroadcasts[m]
  <2>1. broadcasts' \in [Nodes -> Nat]
    BY <1>1, <1>3
  <2>2. broadcasts'[n] <= MaxBroadcasts[n]
    BY <1>1, <1>3, Ends
  <2>3. \A m \in Nodes \ {n} : broadcasts'[m] <= MaxBroadcasts[m]
    BY <1>1, <1>3 DEF TransportInv, Shapes
  <2> QED BY <2>1, <2>2, <2>3
<1> QED BY <1>1, <1>5, <1>7, <1>8 DEF TransportInv, Shapes

\* A received payment is pooled.
LEMMA EnqueueKeeps ==
    ASSUME TransportInv, NEW n \in Nodes, Enqueue(n)
    PROVE  TransportInv'
<1>1. /\ At(n, "reader", "enqueue")
      /\ mempool_count' = [mempool_count EXCEPT ![n] = Min({mempool_count[n] + 1, MEMPOOL_SIZE})]
      /\ pc' = [pc EXCEPT ![n]["reader"] = "read"]
      /\ UNCHANGED <<out, wire, line, peers_lock, mempool_lock, broadcasts, mixed, lost, heard>>
  BY DEF Enqueue, To
<1>2. /\ "reader" \in Threads /\ out[n]["reader"] = << >> /\ "read" \in Points
      /\ mempool_count \in [Nodes -> 0 .. MEMPOOL_SIZE]
      /\ out \in [Nodes -> [Threads -> Seq(UnitType)]]
  BY <1>1 DEF At, Threads, Points, TransportInv, Shapes
<1>3. mempool_count' \in [Nodes -> 0 .. MEMPOOL_SIZE]
  <2> DEFINE c == Min({mempool_count[n] + 1, MEMPOOL_SIZE})
  <2>1. mempool_count[n] + 1 \in Nat /\ MEMPOOL_SIZE \in Nat
    BY <1>2, Ends
  <2>2. c \in Nat /\ c <= MEMPOOL_SIZE
    BY <2>1, LeastOfTwo
  <2> HIDE DEF c
  <2>3. c \in 0 .. MEMPOOL_SIZE
    BY <2>1, <2>2
  <2>4. mempool_count' = [mempool_count EXCEPT ![n] = c]
    BY <1>1 DEF c
  <2> QED BY <1>2, <2>3, <2>4
<1>4. OutInv'
  <2> SUFFICES ASSUME NEW m \in Nodes, NEW u \in Threads
               PROVE  out[m][u] # << >> => pc'[m][u] \in Sending
    BY <1>1 DEF TransportInv, OutInv
  <2>1. CASE m = n /\ u = "reader"
    BY <1>2, <2>1
  <2>2. CASE m # n \/ u # "reader"
    <3>1. pc'[m][u] = pc[m][u]
      BY <1>1, <1>2, <2>2 DEF TransportInv, Shapes
    <3> QED BY <3>1 DEF TransportInv, OutInv
  <2> QED BY <2>1, <2>2
<1>5. pc' \in [Nodes -> [Threads -> Points]]
  BY <1>1, <1>2, ThreadSet DEF TransportInv, Shapes
<1>6. TextInv' /\ RunsInv'
  <2>1. TextKept /\ out' = out
    BY <1>1, TextUnchanged
  <2> QED BY <2>1 DEF TextKept, RunsInv
<1> QED BY <1>1, <1>3, <1>4, <1>5, <1>6 DEF TransportInv, Shapes

\* A received block is passed on.
LEMMA RelayKeeps ==
    ASSUME TransportInv, NEW n \in Nodes, Relay(n)
    PROVE  TransportInv'
<1>1. /\ At(n, "reader", "relay")
      /\ pc' = [pc EXCEPT ![n]["reader"] = "read"]
      /\ UNCHANGED <<out, wire, line, peers_lock, mempool_lock, mempool_count,
                     broadcasts, mixed, lost, heard>>
  BY DEF Relay, To
<1>2. /\ "reader" \in Threads /\ out[n]["reader"] = << >> /\ "read" \in Points
      /\ out \in [Nodes -> [Threads -> Seq(UnitType)]]
  BY <1>1 DEF At, Threads, Points, TransportInv, Shapes
<1>3. OutInv'
  <2> SUFFICES ASSUME NEW m \in Nodes, NEW u \in Threads
               PROVE  out[m][u] # << >> => pc'[m][u] \in Sending
    BY <1>1 DEF TransportInv, OutInv
  <2>1. CASE m = n /\ u = "reader"
    BY <1>2, <2>1
  <2>2. CASE m # n \/ u # "reader"
    <3>1. pc'[m][u] = pc[m][u]
      BY <1>1, <1>2, <2>2 DEF TransportInv, Shapes
    <3> QED BY <3>1 DEF TransportInv, OutInv
  <2> QED BY <2>1, <2>2
<1>4. pc' \in [Nodes -> [Threads -> Points]]
  BY <1>1, <1>2, ThreadSet DEF TransportInv, Shapes
<1>5. TextInv' /\ RunsInv'
  <2>1. TextKept /\ out' = out
    BY <1>1, TextUnchanged
  <2> QED BY <2>1 DEF TextKept, RunsInv
<1> QED BY <1>1, <1>3, <1>4, <1>5 DEF TransportInv, Shapes

\* Every step keeps TransportInv.
LEMMA TransportInvStep == TransportInv /\ [Next]_vars => TransportInv'
<1> SUFFICES ASSUME TransportInv, [Next]_vars PROVE TransportInv'
  OBVIOUS
<1>1. CASE UNCHANGED vars
  BY <1>1 DEF vars, TransportInv, Shapes, OutInv, TextInv, RunsInv, Stream
<1>2. ASSUME NEW n \in Nodes, NEW t \in Threads, Send(n, t) PROVE TransportInv'
  BY <1>2, SendKeeps
<1>3. ASSUME NEW n \in Nodes, NEW t \in {"adder", "other"}, Broadcast(n, t) PROVE TransportInv'
  BY <1>3, BroadcastKeeps
<1>4. ASSUME NEW n \in Nodes, AddPeer(n) PROVE TransportInv'
  BY <1>4, RequestChainKeeps, GreetKeeps DEF AddPeer
<1>5. ASSUME NEW n \in Nodes, Reader(n) PROVE TransportInv'
  BY <1>5, ReadMoreKeeps, ReadLineKeeps, EnqueueKeeps, RelayKeeps DEF Reader
<1> QED BY <1>1, <1>2, <1>3, <1>4, <1>5 DEF Next

\* What the threads still have to send, what stands in the sockets and what has been
\* read fit together, whatever the sizes of messages, lines and sockets.
THEOREM TransportInvariant == Spec => []TransportInv
BY TransportInvInit, TransportInvStep, PTL DEF Spec

-----------------------------------------------------------------------------
(* What the runs check *)

\* A socket never holds more than it has room for, nor read_message more than a
\* line; every thread is at a point of its code, and what it sends is of a message.
THEOREM TypeCorrect == Spec => []TypeOK
<1>1. TransportInv => TypeOK
  <2> SUFFICES ASSUME TransportInv PROVE TypeOK
    OBVIOUS
  <2>1. \A n \in Nodes : broadcasts[n] \in 0 .. MaxBroadcasts[n]
    BY Ends DEF TransportInv, Shapes
  <2>2. /\ \A n \in Nodes : \A t \in Threads : out[n][t] \in Seq(UnitType)
        /\ \A n \in Nodes : wire[n] \in Seq(UnitType) /\ Len(wire[n]) <= Room[n]
        /\ \A n \in Nodes : line[n] \in Seq(UnitType) /\ Len(line[n]) < LineUnits
    BY DEF TransportInv, Shapes, TextInv
  <2> QED BY <2>1, <2>2 DEF TypeOK, TransportInv, Shapes, Points
<1> QED BY <1>1, TransportInvariant, PTL

\* Of two messages that were sent under peers_lock, none is ever inside the other,
\* whatever is sent without it and however little the sockets hold.
THEOREM BroadcastsStayApart == Spec => []BroadcastsApart
<1>1. TransportInv => BroadcastsApart
  <2> SUFFICES ASSUME TransportInv, NEW n \in Nodes,
                      NEW i \in DOMAIN (line[n] \o wire[n]) \ {1},
                      Interrupts((line[n] \o wire[n])[i - 1], (line[n] \o wire[n])[i])
               PROVE  ~ (line[n] \o wire[n])[i - 1].locked \/ ~ (line[n] \o wire[n])[i].locked
    BY DEF BroadcastsApart
  <2> DEFINE s == line[n] \o wire[n]
  <2>1. LockedRuns(s, out[Other(n)])
    BY DEF TransportInv, RunsInv, Stream
  <2>2. i \in 2 .. Len(s)
    <3> DEFINE l == line[n]
               w == wire[n]
    <3>1. l \in Seq(UnitType) /\ w \in Seq(UnitType) /\ s = l \o w
      BY DEF TransportInv, Shapes
    <3> HIDE DEF l, w, s
    <3>2. l \o w \in Seq(UnitType)
      BY ONLY <3>1, ConcatProperties
    <3>3. DOMAIN s = 1 .. Len(s) /\ Len(s) \in Nat
      BY ONLY <3>1, <3>2, LenProperties
    <3>4. i \in DOMAIN s \ {1}
      BY Zenon DEF s
    <3> HIDE DEF s
    <3> QED BY ONLY <3>3, <3>4
  <2> HIDE DEF s
  <2>3. ~ (s[i - 1].locked /\ s[i].locked /\ Interrupts(s[i - 1], s[i]))
    BY <2>1, <2>2 DEF LockedRuns
  <2> QED BY <2>3 DEF s
<1> QED BY <1>1, TransportInvariant, PTL

\* A node to which no message was sent inside another loses only messages that are
\* longer than a line: what a cut leaves of one does not damage the next.
THEOREM OnlyLongChainsAreLost == Spec => []OnlyLongChainsLost
<1>1. TransportInv => OnlyLongChainsLost
  BY DEF TransportInv, Shapes, RunsInv, OnlyLongChainsLost, Long
<1> QED BY <1>1, TransportInvariant, PTL
=============================================================================
