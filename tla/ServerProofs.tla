---------------------------- MODULE ServerProofs ----------------------------
(***************************************************************************)
(* The loop handles the events of a batch for the connections they were    *)
(* reported for, forgets nobody, counts its clients, and saves what it     *)
(* should, for any number of connections and descriptors and batches of    *)
(* any size.                                                               *)
(***************************************************************************)
EXTENDS Server, FiniteSetTheorems, SequenceTheorems, WellFoundedInduction, TLAPS

Types ==
    /\ pc \in {"wait", "handle", "dump", "final", "last_dump", "done", "dead"}
    /\ running \in BOOLEAN
    /\ descriptors \in [Fds -> Occupants]
    /\ events \in Seq(Fds \X Occupants)
    /\ clients \in Int
    /\ store \in Nat
    /\ file \in Nat \cup {Truncated}
    /\ dumpFd \in {0} \cup Fds
    /\ sinceDump \in 0..DumpInterval
    /\ backlog \in Seq(Connections)
    /\ link \in [Connections -> {"new", "open", "closed", "refused"}]
    /\ requests \in Nat
    /\ pending \subseteq Connections
    /\ signals \in 0..MaxSignals
    /\ handler \in {"idle", "closing"}

\* The kernel's ready list names a descriptor once.
ReadyOnce == ready \in Seq(Fds) /\ IsInjective(ready)

\* What the descriptors below may denote, and the one of a dump.
Roles ==
    /\ \A fd \in Fds : descriptors[fd] = "listener" => fd = server_socket
    /\ descriptors[server_socket] \notin Connections
    /\ descriptors[epollFd] \notin Connections
    /\ pc \in {"wait", "handle", "dump", "dead"} => descriptors[epollFd] = "epoll"
    /\ pc = "final" => descriptors[epollFd] = "free"
    /\ pc \in {"dump", "last_dump"} =>
          dumpFd \in Fds /\ descriptors[dumpFd] \in {"dump", "free"}

\* A connection is new, or in the backlog once, or behind one descriptor.
Identity ==
    /\ \A f, g \in Fds : Open(f) /\ descriptors[f] = descriptors[g] => f = g
    /\ IsInjective(backlog)
    /\ \A i \in DOMAIN backlog :
          link[backlog[i]] # "new" /\ backlog[i] \notin Range(descriptors)
    /\ \A fd \in Fds : Open(fd) => link[descriptors[fd]] # "new"

\* A batch holds a descriptor once.
BatchInv ==
    /\ pc \notin {"handle", "dead"} => events = <<>>
    /\ \A i, j \in DOMAIN events : events[i][1] = events[j][1] => i = j
    /\ EventsAreCurrent

\* The file is truncated only while it is written, or until the end once the
\* signal handler has run.
FileInv ==
    /\ handler = "closing" => ~running
    /\ pc \in {"handle", "dead"} => file # Truncated
    /\ pc = "wait" /\ running => file # Truncated
    /\ pc = "dump" /\ running => descriptors[dumpFd] = "dump"

\* With one signal, the handler closes the listening socket and nothing else.
OneSignal ==
    /\ handler = "closing" => signals >= 1
    /\ descriptors[server_socket] # "listener" => handler = "idle" /\ signals >= 1
    /\ pc = "last_dump" => descriptors[dumpFd] = "dump"
    /\ GracefulShutdownSaves
-----------------------------------------------------------------------------
(* The kernel. *)

\* The two descriptors that the server starts with exist.
LEMMA LowestNumbers == 1 \in Fds /\ 2 \in Fds /\ Fds \subseteq Nat
BY ServerAssumption DEF Fds

\* accept and open return a descriptor that was free.
LEMMA NewFdIsFree == ASSUME FreeFds # {} PROVE NewFd \in FreeFds
<1>1. FreeFds \subseteq Nat
    BY LowestNumbers DEF FreeFds
<1> DEFINE R == OpToRel(<, Nat)
<1>2. \A m, n \in Nat : m < n => <<m, n>> \in R
    BY DEF OpToRel
<1>3. IsWellFoundedOn(R, Nat)
    BY NatLessThanWellFounded, Zenon
<1> HIDE DEF R
<1>4. PICK n \in FreeFds : \A m \in FreeFds : ~ (<<m, n>> \in R)
    BY <1>1, <1>3, WFMin, Zenon
<1>5. ASSUME NEW m \in FreeFds PROVE n =< m
    <2>1. ~ (m < n)
        BY <1>1, <1>2, <1>4, Zenon
    <2>2. m \in Nat /\ n \in Nat
        BY <1>1
    <2>3. QED
        BY <2>1, <2>2
<1>6. QED
    BY <1>5 DEF NewFd, Min

\* A function's values are in its range.
LEMMA RangeMember ==
    ASSUME NEW f, NEW x \in DOMAIN f
    PROVE  f[x] \in Range(f)
BY DEF Range

\* Waking a descriptor lists it once.
LEMMA WokenOnce ==
    ASSUME ReadyOnce, NEW fd \in Fds
    PROVE  Woken(fd) \in Seq(Fds) /\ IsInjective(Woken(fd))
<1>1. CASE fd \in Range(ready)
    BY <1>1 DEF Woken, ReadyOnce
<1>2. CASE fd \notin Range(ready)
    <2> DEFINE r == Append(ready, fd)
    <2>1. /\ ready \in Seq(Fds) /\ IsInjective(ready)
          /\ DOMAIN ready = 1..Len(ready) /\ Len(ready) \in Nat
        BY LenProperties DEF ReadyOnce
    <2>2. /\ r \in Seq(Fds) /\ Len(r) = Len(ready) + 1
          /\ \A i \in 1..Len(ready) : r[i] = ready[i]
          /\ r[Len(ready) + 1] = fd
        BY <2>1, AppendProperties
    <2>3. \A i \in 1..Len(ready) : ready[i] # fd
        BY <1>2, <2>1, RangeMember
    <2>4. DOMAIN r = 1..(Len(ready) + 1)
        BY <2>2, LenProperties
    <2> HIDE DEF r
    <2>5. IsInjective(r)
        BY <2>1, <2>2, <2>3, <2>4 DEF IsInjective
    <2>6. QED
        BY <1>2, <2>2, <2>5 DEF Woken, r
<1>3. QED
    BY <1>1, <1>2

\* What is left of the ready list names a descriptor once.
LEMMA KeptOnce ==
    ASSUME ReadyOnce, NEW S, NEW k \in Kept(S)
    PROVE  k \in Seq(Fds) /\ IsInjective(k) /\ \A i \in DOMAIN k : k[i] \in S
<1> DEFINE P == {i \in DOMAIN ready : ready[i] \in S}
           N == Cardinality(P)
<1>1. DOMAIN ready = 1..Len(ready) /\ Len(ready) \in Nat
    BY LenProperties DEF ReadyOnce
<1>2. N \in Nat
    <2>1. IsFiniteSet(1..Len(ready))
        <3> DEFINE n == Len(ready)
        <3>1. 1 \in Int /\ n \in Int
            BY <1>1
        <3> HIDE DEF n
        <3>2. IsFiniteSet(1..n)
            BY <3>1, FS_Interval, Zenon
        <3>3. QED
            BY <3>2 DEF n
    <2>2. P \subseteq 1..Len(ready)
        BY <1>1
    <2>3. QED
        BY <2>1, <2>2, FS_Subset, FS_CardinalityType
<1>3. PICK e \in Increasing(P) : k = Select(ready, e)
    BY DEF Kept
<1>4. e \in [1..N -> P] /\ \A i, j \in 1..N : i < j => e[i] < e[j]
    BY <1>3 DEF Increasing
<1> HIDE DEF N
<1>5. k = [j \in 1..N |-> ready[e[j]]]
    BY <1>3, <1>4 DEF Select
<1>6. \A j \in 1..N : k[j] \in Fds /\ k[j] \in S
    <2>1. \A i \in P : ready[i] \in Fds
        BY <1>1, ElementOfSeq DEF ReadyOnce
    <2>2. QED
        BY <1>4, <1>5, <2>1
<1>7. k \in Seq(Fds)
    BY <1>2, <1>5, <1>6
<1>8. IsInjective(k)
    <2> SUFFICES ASSUME NEW i \in 1..N, NEW j \in 1..N, k[i] = k[j]
                 PROVE  i = j
        BY <1>5 DEF IsInjective
    <2>1. e[i] \in DOMAIN ready /\ e[j] \in DOMAIN ready
        BY <1>4
    <2>2. ready[e[i]] = ready[e[j]]
        BY <1>5
    <2>3. e[i] = e[j]
        BY <2>1, <2>2 DEF ReadyOnce, IsInjective
    <2>4. ~(i < j) /\ ~(j < i)
        BY <1>1, <1>4, <2>1, <2>3
    <2>5. QED
        BY <1>2, <2>4
<1>9. QED
    BY <1>5, <1>6, <1>7, <1>8

\* Moving the reported descriptors to the end lists each of them once.
LEMMA RotatedOnce ==
    ASSUME NEW live \in Seq(Fds), IsInjective(live), NEW n \in 0..Len(live)
    PROVE  LET r == SubSeq(live, n + 1, Len(live)) \o SubSeq(live, 1, n)
           IN  r \in Seq(Fds) /\ IsInjective(r)
<1> DEFINE tail == SubSeq(live, n + 1, Len(live))
           head == SubSeq(live, 1, n)
           m == Len(live)
           r == tail \o head
<1>1. m \in Nat /\ DOMAIN live = 1..m /\ \A i \in 1..m : live[i] \in Fds
    BY LenProperties, ElementOfSeq
<1>2. n \in Int /\ n >= 0 /\ n =< m
    BY <1>1
<1>3. /\ tail \in Seq(Fds) /\ Len(tail) = m - n
      /\ \A i \in 1..(m - n) : tail[i] = live[n + i]
    <2>1. /\ tail \in Seq(Fds)
          /\ Len(tail) = IF n + 1 =< m THEN m - (n + 1) + 1 ELSE 0
          /\ \A i \in 1..(m - (n + 1) + 1) : tail[i] = live[(n + 1) + i - 1]
        BY <1>1, <1>2, SubSeqProperties
    <2> HIDE DEF tail, m
    <2>2. QED
        BY <1>1, <1>2, <2>1
<1>4. /\ head \in Seq(Fds) /\ Len(head) = n
      /\ \A i \in 1..n : head[i] = live[i]
    <2>1. /\ head \in Seq(Fds)
          /\ Len(head) = IF 1 =< n THEN n - 1 + 1 ELSE 0
          /\ \A i \in 1..(n - 1 + 1) : head[i] = live[1 + i - 1]
        BY <1>1, <1>2, SubSeqProperties
    <2> HIDE DEF head, m
    <2>2. QED
        BY <1>1, <1>2, <2>1
<1> HIDE DEF tail, head, m
<1>5. /\ r \in Seq(Fds) /\ Len(r) = m
      /\ \A i \in 1..m : r[i] = IF i =< m - n THEN live[n + i] ELSE live[i - (m - n)]
    <2>0. /\ tail \o head \in Seq(Fds)
          /\ Len(tail \o head) = Len(tail) + Len(head)
          /\ \A i \in 1..(Len(tail) + Len(head)) :
                (tail \o head)[i] = IF i =< Len(tail) THEN tail[i] ELSE head[i - Len(tail)]
        BY <1>3, <1>4, ConcatProperties, Zenon
    <2>1. /\ tail \o head \in Seq(Fds)
          /\ Len(tail \o head) = (m - n) + n
          /\ \A i \in 1..((m - n) + n) :
                (tail \o head)[i] = IF i =< m - n THEN tail[i] ELSE head[i - (m - n)]
        BY <1>3, <1>4, <2>0
    <2>2. (m - n) + n = m
        BY <1>1, <1>2
    <2>3. \A i \in 1..m :
              /\ i =< m - n => i \in 1..(m - n)
              /\ ~(i =< m - n) => i - (m - n) \in 1..n
        BY <1>1, <1>2
    <2>4. QED
        BY <1>3, <1>4, <2>1, <2>2, <2>3
<1>6. DOMAIN r = 1..m
    BY <1>5, LenProperties
<1> HIDE DEF r
<1>7. \A i, j \in 1..m : live[i] = live[j] => i = j
    BY <1>1 DEF IsInjective
<1> DEFINE at(i) == IF i =< m - n THEN n + i ELSE i - (m - n)
<1>8. /\ \A i \in 1..m : at(i) \in 1..m /\ r[i] = live[at(i)]
      /\ \A i, j \in 1..m : at(i) = at(j) => i = j
    BY <1>1, <1>2, <1>5
<1>9. \A i, j \in 1..m : r[i] = r[j] => i = j
    <2> HIDE DEF at
    <2>1. QED
        BY <1>7, <1>8
<1>10. IsInjective(r)
    BY <1>6, <1>9 DEF IsInjective
<1>11. QED
    BY <1>5, <1>10 DEF r, tail, head, m
-----------------------------------------------------------------------------
(* Types and roles. *)

\* The actions of the clients leave the loop, the handler and the descriptors
\* alone.
ClientStep == \E c \in Connections : Connect(c) \/ Send(c) \/ Leave(c)

\* A client reaches the loop only through the sockets.
LEMMA ClientsStayOutside ==
    ASSUME ClientStep
    PROVE  UNCHANGED <<loopVars, signalVars, descriptors, sinceDump>>
BY DEF ClientStep, Connect, Send, Leave

\* The server starts with its two descriptors and nothing to do.
LEMMA InitTypes == Init => Types /\ ReadyOnce /\ Roles
<1> SUFFICES ASSUME Init PROVE Types /\ ReadyOnce /\ Roles
    OBVIOUS
<1>1. descriptors \in [Fds -> {"free", "listener", "epoll"}]
    BY DEF Init
<1>2. Types
    BY <1>1, ServerAssumption DEF Init, Types, Occupants, Truncated
<1>3. ReadyOnce
    BY DEF Init, ReadyOnce, IsInjective
<1>4. Roles
    BY LowestNumbers, ServerAssumption DEF Init, Roles, server_socket, epollFd
<1>5. QED
    BY <1>2, <1>3, <1>4

\* The batch is taken from its front.
LEMMA TailOfEvents ==
    ASSUME Types, events # <<>>
    PROVE  /\ Tail(events) \in Seq(Fds \X Occupants)
           /\ Head(events) \in Fds \X Occupants
           /\ NextEvent \in Fds
BY HeadTailProperties DEF Types, NextEvent

\* Opening the dump file takes a free descriptor or none.
LEMMA OpenDumpTypes ==
    ASSUME Types, NEW a, NEW b, OpenDump(a, b)
    PROVE  /\ pc' \in {a, b}
           /\ descriptors' \in [Fds -> Occupants]
           /\ file' \in Nat \cup {Truncated}
           /\ dumpFd' \in {0} \cup Fds
           /\ \A fd \in Fds :
                 \/ descriptors'[fd] = descriptors[fd]
                 \/ descriptors[fd] = "free" /\ descriptors'[fd] = "dump"
           /\ pc' = b \/ (dumpFd' \in Fds /\ descriptors'[dumpFd'] = "dump")
<1>1. CASE FreeFds = {}
    <2>1. pc' = b /\ descriptors' = descriptors /\ dumpFd' = dumpFd /\ file' = file
        BY <1>1 DEF OpenDump
    <2>2. QED
        BY <2>1 DEF Types
<1>2. CASE FreeFds # {}
    <2>1. NewFd \in Fds /\ descriptors[NewFd] = "free"
        BY <1>2, NewFdIsFree DEF FreeFds
    <2>2. QED
        BY <1>2, <2>1 DEF OpenDump, Types, Occupants
<1>3. QED
    BY <1>1, <1>2

\* A batch is the head of the ready list; the list stays without doubles.
LEMMA ReportEffect ==
    ASSUME Types, ReadyOnce, Report
    PROVE  /\ events' \in Seq(Fds \X Occupants)
           /\ ready' \in Seq(Fds) /\ IsInjective(ready')
           /\ \A i \in DOMAIN events' :
                 /\ events'[i][1] \in Fds
                 /\ events'[i][2] = descriptors[events'[i][1]]
                 /\ Readable(events'[i][1])
           /\ \A i, j \in DOMAIN events' : events'[i][1] = events'[j][1] => i = j
<1> DEFINE R == {fd \in Fds : Readable(fd)}
<1>1. PICK live \in Kept(R) :
          LET n == Least(MaxEvents, Len(live))
              batch == SubSeq(live, 1, n)
          IN  /\ events' = [i \in 1..n |-> <<live[i], descriptors[live[i]]>>]
              /\ ready' = SubSeq(live, n + 1, Len(live)) \o batch
    BY DEF Report
<1> DEFINE n == Least(MaxEvents, Len(live))
<1>2. live \in Seq(Fds) /\ IsInjective(live) /\ \A i \in DOMAIN live : live[i] \in R
    BY KeptOnce
<1>3. Len(live) \in Nat /\ DOMAIN live = 1..Len(live)
    BY <1>2, LenProperties
<1>4. n \in 0..Len(live)
    BY <1>3, ServerAssumption DEF Least
<1> HIDE DEF n
<1>5. /\ events' = [i \in 1..n |-> <<live[i], descriptors[live[i]]>>]
      /\ ready' = SubSeq(live, n + 1, Len(live)) \o SubSeq(live, 1, n)
    BY <1>1 DEF n
<1>6. ready' \in Seq(Fds) /\ IsInjective(ready')
    BY <1>2, <1>4, <1>5, RotatedOnce
<1>7. \A i \in 1..n : i \in DOMAIN live /\ live[i] \in R /\ descriptors[live[i]] \in Occupants
    BY <1>2, <1>3, <1>4 DEF Types
<1>8. DOMAIN events' = 1..n /\ \A i \in 1..n : events'[i] = <<live[i], descriptors[live[i]]>>
    BY <1>5
<1>9. \A i \in 1..n : <<live[i], descriptors[live[i]]>> \in Fds \X Occupants
    BY <1>7
<1>10. n \in Nat
    BY <1>3, <1>4
<1>11. events' \in Seq(Fds \X Occupants)
    BY <1>5, <1>9, <1>10
<1>12. \A i, j \in 1..n : live[i] = live[j] => i = j
    BY <1>2, <1>7 DEF IsInjective
<1>13. QED
    BY <1>6, <1>7, <1>8, <1>11, <1>12

\* The tail of the backlog, and its head.
LEMMA TailOfBacklog ==
    ASSUME Types, backlog # <<>>
    PROVE  /\ Tail(backlog) \in Seq(Connections)
           /\ Head(backlog) \in Connections
           /\ Head(backlog) = backlog[1] /\ 1 \in DOMAIN backlog
           /\ \A i \in DOMAIN Tail(backlog) :
                 i + 1 \in DOMAIN backlog /\ i + 1 # 1 /\ Tail(backlog)[i] = backlog[i + 1]
<1>1. backlog \in Seq(Connections) /\ Len(backlog) \in Nat /\ DOMAIN backlog = 1..Len(backlog)
    BY LenProperties DEF Types
<1>2. Len(backlog) # 0
    BY <1>1, EmptySeq
<1>3. /\ Tail(backlog) \in Seq(Connections) /\ Head(backlog) \in Connections
      /\ Len(Tail(backlog)) = Len(backlog) - 1
      /\ \A i \in 1..Len(Tail(backlog)) : Tail(backlog)[i] = backlog[i + 1]
    BY <1>1, HeadTailProperties
<1>4. DOMAIN Tail(backlog) = 1..Len(Tail(backlog))
    BY <1>3, LenProperties
<1>5. QED
    BY <1>1, <1>2, <1>3, <1>4

\* Types are kept by every action.
LEMMA TypesStep == ASSUME Types, ReadyOnce, Roles, [Next]_serverVars PROVE Types'
<1>1. CASE Wait
    BY <1>1, ReportEffect DEF Types, Wait, Report, clientVars, signalVars
<1>2. CASE Accept
    <2>1. NewFd \in Fds
        BY <1>2, NewFdIsFree DEF Accept, CanAccept, FreeFds
    <2>2. Head(backlog) \in Connections /\ Tail(backlog) \in Seq(Connections)
        BY <1>2, TailOfBacklog DEF Accept, CanAccept
    <2>3. QED
        BY <1>2, <2>1, <2>2 DEF Types, Accept, signalVars, Occupants
<1>3. CASE Refuse
    <2>1. Head(backlog) \in Connections /\ Tail(backlog) \in Seq(Connections)
        BY <1>3, TailOfBacklog DEF Refuse, CanAccept
    <2>2. QED
        BY <1>3, <2>1 DEF Types, Refuse, loopVars, signalVars
<1>4. CASE AcceptNoMore
    BY <1>4, TailOfEvents DEF Types, AcceptNoMore, Handling, clientVars, signalVars
<1>5. CASE Answer
    BY <1>5, TailOfEvents DEF Types, Answer, Handling, signalVars
<1>6. CASE Throw
    BY <1>6, TailOfEvents DEF Types, Throw, Handling, signalVars
<1>7. CASE Disconnect
    <2>1. NextEvent \in Fds /\ Tail(events) \in Seq(Fds \X Occupants)
        BY <1>7, TailOfEvents DEF Disconnect, Handling
    <2>2. QED
        BY <1>7, <2>1 DEF Types, Disconnect, clientVars, signalVars, Occupants
<1>8. CASE NotDue
    BY <1>8 DEF Types, NotDue, clientVars, signalVars
<1>9. CASE PeriodicDump
    BY <1>9, OpenDumpTypes, ServerAssumption DEF Types, PeriodicDump, clientVars, signalVars
<1>10. CASE FinalDump
    BY <1>10, LowestNumbers DEF Types, FinalDump, clientVars, signalVars, Occupants, epollFd
<1>11. CASE OpenFinalDump
    BY <1>11, OpenDumpTypes DEF Types, OpenFinalDump, clientVars, signalVars
<1>12. CASE CloseDump
    BY <1>12 DEF Types, CloseDump, clientVars, signalVars, Occupants
<1>13. CASE Interrupt
    <2>1. signals \in 0..MaxSignals /\ signals < MaxSignals /\ signals' = signals + 1
        BY <1>13 DEF Types, Interrupt
    <2>2. signals' \in 0..MaxSignals
        BY <2>1, ServerAssumption
    <2>3. QED
        BY <1>13, <2>2 DEF Types, Interrupt, loopVars, clientVars
<1>14. CASE CloseListener
    BY <1>14, LowestNumbers
    DEF Types, CloseListener, loopVars, clientVars, Occupants, server_socket
<1>15. CASE Tick
    BY <1>15, ServerAssumption DEF Types, Tick, loopVars, clientVars, signalVars
<1>16. CASE ClientStep
    <2>1. ASSUME NEW c \in Connections, Connect(c) PROVE Types'
        BY <2>1, AppendProperties DEF Types, Connect, loopVars, signalVars
    <2>2. ASSUME NEW c \in Connections, Send(c) PROVE Types'
        BY <2>2 DEF Types, Send, loopVars, signalVars
    <2>3. ASSUME NEW c \in Connections, Leave(c) PROVE Types'
        BY <2>3 DEF Types, Leave, loopVars, signalVars
    <2>4. QED
        BY <1>16, <2>1, <2>2, <2>3 DEF ClientStep
<1>17. CASE UNCHANGED serverVars
    BY <1>17 DEF Types, serverVars, loopVars, clientVars, signalVars
<1>18. QED
    BY <1>1, <1>2, <1>3, <1>4, <1>5, <1>6, <1>7, <1>8, <1>9, <1>10, <1>11, <1>12,
       <1>13, <1>14, <1>15, <1>16, <1>17
    DEF Next, Loop, ClientStep

\* No step lists a descriptor twice.
LEMMA ReadyStep == ASSUME Types, ReadyOnce, Roles, [Next]_serverVars PROVE ReadyOnce'
<1>1. CASE Wait
    BY <1>1, ReportEffect DEF Wait, ReadyOnce
<1>2. CASE Accept
    <2>1. NewFd \in Fds
        BY <1>2, NewFdIsFree DEF Accept, CanAccept, FreeFds
    <2>2. ready' = ready \/ ready' = Woken(NewFd)
        BY <1>2 DEF Accept
    <2>3. QED
        BY <2>1, <2>2, WokenOnce DEF ReadyOnce
<1>3. CASE Refuse \/ AcceptNoMore \/ Answer \/ Throw \/ NotDue
    BY <1>3 DEF ReadyOnce, Refuse, AcceptNoMore, Answer, Throw, NotDue
<1>4. CASE Disconnect \/ CloseListener
    BY <1>4, KeptOnce DEF ReadyOnce, Disconnect, CloseListener
<1>5. CASE PeriodicDump \/ FinalDump \/ OpenFinalDump \/ CloseDump
    BY <1>5 DEF ReadyOnce, PeriodicDump, FinalDump, OpenFinalDump, CloseDump
<1>6. CASE Interrupt \/ Tick
    BY <1>6 DEF ReadyOnce, Interrupt, Tick
<1>7. CASE ClientStep
    <2>1. ASSUME NEW c \in Connections, Notify(c) PROVE ReadyOnce'
        BY <2>1, WokenOnce DEF Notify, ReadyOnce
    <2>2. ASSUME NEW c \in Connections, Connect(c) PROVE ReadyOnce'
        BY <2>2, WokenOnce, LowestNumbers DEF Connect, ReadyOnce, server_socket
    <2>3. QED
        BY <1>7, <2>1, <2>2 DEF ClientStep, Send, Leave
<1>8. CASE UNCHANGED serverVars
    BY <1>8 DEF ReadyOnce, serverVars
<1>9. QED
    BY <1>1, <1>2, <1>3, <1>4, <1>5, <1>6, <1>7, <1>8 DEF Next, Loop, ClientStep

\* The listener, epoll and the dump keep their numbers while the loop uses them.
LEMMA RolesStep == ASSUME Types, ReadyOnce, Roles, [Next]_serverVars PROVE Roles'
<1>1. Connections \cap {"free", "listener", "epoll", "dump"} = {}
    BY ServerAssumption
<1>2. CASE Accept
    <2>1. NewFd \in Fds /\ descriptors[NewFd] = "free"
        BY <1>2, NewFdIsFree DEF Accept, CanAccept, FreeFds
    <2>2. Head(backlog) \in Connections
        BY <1>2, TailOfBacklog DEF Accept, CanAccept
    <2>3. NewFd # server_socket /\ NewFd # epollFd
        BY <1>2, <2>1 DEF Accept, CanAccept, Handling, Roles
    <2>4. /\ descriptors' = [descriptors EXCEPT ![NewFd] = Head(backlog)]
          /\ pc' = pc /\ pc = "handle"
        BY <1>2 DEF Accept, Handling
    <2>5. QED
        BY <1>1, <2>1, <2>2, <2>3, <2>4, LowestNumbers
        DEF Roles, Types, server_socket, epollFd
<1>3. CASE Disconnect
    <2>1. NextEvent \in Fds /\ descriptors[NextEvent] \in Connections
        BY <1>3 DEF Disconnect, Handling, OpenFds, Open
    <2>2. /\ descriptors' = [descriptors EXCEPT ![NextEvent] = "free"]
          /\ pc' = pc /\ pc = "handle"
        BY <1>3 DEF Disconnect, Handling
    <2>3. QED
        BY <1>1, <2>1, <2>2, LowestNumbers DEF Roles, Types, server_socket, epollFd
<1>4. CASE Wait \/ NotDue \/ Throw
    BY <1>4 DEF Roles, Wait, Report, NotDue, Throw, Handling
<1>5. CASE Refuse \/ AcceptNoMore \/ Answer
    BY <1>5 DEF Roles, Refuse, AcceptNoMore, Answer, loopVars
<1>6. CASE PeriodicDump
    <2>1. /\ pc = "handle" /\ pc' \in {"dump", "wait"}
          /\ descriptors' \in [Fds -> Occupants]
          /\ \A fd \in Fds :
                \/ descriptors'[fd] = descriptors[fd]
                \/ descriptors[fd] = "free" /\ descriptors'[fd] = "dump"
          /\ pc' = "dump" => dumpFd' \in Fds /\ descriptors'[dumpFd'] = "dump"
        BY <1>6, OpenDumpTypes DEF PeriodicDump
    <2>2. QED
        BY <1>1, <2>1, LowestNumbers DEF Roles, server_socket, epollFd
<1>7. CASE FinalDump
    BY <1>1, <1>7, LowestNumbers DEF Roles, Types, FinalDump, server_socket, epollFd
<1>8. CASE OpenFinalDump
    <2>1. /\ pc' \in {"last_dump", "done"}
          /\ descriptors' \in [Fds -> Occupants]
          /\ \A fd \in Fds :
                \/ descriptors'[fd] = descriptors[fd]
                \/ descriptors[fd] = "free" /\ descriptors'[fd] = "dump"
          /\ pc' = "last_dump" => dumpFd' \in Fds /\ descriptors'[dumpFd'] = "dump"
        BY <1>8, OpenDumpTypes DEF OpenFinalDump
    <2>2. QED
        BY <1>1, <2>1, LowestNumbers DEF Roles, server_socket, epollFd
<1>9. CASE CloseDump
    <2>1. /\ pc \in {"dump", "last_dump"} /\ pc' = IF pc = "dump" THEN "wait" ELSE "done"
          /\ descriptors' = [descriptors EXCEPT ![dumpFd] = "free"]
        BY <1>9 DEF CloseDump
    <2>2. QED
        BY <1>1, <2>1, LowestNumbers DEF Roles, Types, server_socket, epollFd
<1>10. CASE CloseListener
    <2>1. /\ descriptors' = [descriptors EXCEPT ![server_socket] = "free"]
          /\ pc' = pc /\ dumpFd' = dumpFd
        BY <1>10 DEF CloseListener, loopVars
    <2>2. QED
        BY <1>1, <2>1, LowestNumbers DEF Roles, Types, server_socket, epollFd
<1>11. CASE Interrupt \/ Tick
    BY <1>11 DEF Roles, Interrupt, Tick, loopVars
<1>12. CASE ClientStep
    BY <1>12, ClientsStayOutside DEF Roles, loopVars
<1>13. CASE UNCHANGED serverVars
    BY <1>13 DEF Roles, serverVars, loopVars
<1>14. QED
    BY <1>2, <1>3, <1>4, <1>5, <1>6, <1>7, <1>8, <1>9, <1>10, <1>11, <1>12, <1>13
    DEF Next, Loop, ClientStep
-----------------------------------------------------------------------------
(* The gauge. *)

\* The connections of the process are finitely many.
LEMMA OpenFdsFinite == IsFiniteSet(OpenFds) /\ Cardinality(OpenFds) \in Nat
<1>1. IsFiniteSet(1..MaxFd)
    <2>1. 1 \in Int /\ MaxFd \in Int
        BY ServerAssumption
    <2>2. QED
        BY <2>1, FS_Interval, Zenon
<1>2. OpenFds \subseteq 1..MaxFd
    BY DEF OpenFds, Fds
<1>3. QED
    BY <1>1, <1>2, FS_Subset, FS_CardinalityType

\* A step that neither makes a descriptor one of a connection nor takes one
\* from it.
LEMMA SameOpenFds ==
    ASSUME \A fd \in Fds : descriptors'[fd] \in Connections <=> descriptors[fd] \in Connections
    PROVE  OpenFds' = OpenFds
BY DEF OpenFds, Open

\* Every accept and every close of a connection moves the gauge along.
LEMMA GaugeStep ==
    ASSUME Types, Roles, GaugeIsRight, [Next]_serverVars
    PROVE  GaugeIsRight'
<1>1. Connections \cap {"free", "listener", "epoll", "dump"} = {}
    BY ServerAssumption
<1>2. CASE clients' = clients /\ OpenFds' = OpenFds
    BY <1>2 DEF GaugeIsRight
<1>3. CASE Accept
    <2>1. NewFd \in Fds /\ descriptors[NewFd] = "free"
        BY <1>3, NewFdIsFree DEF Accept, CanAccept, FreeFds
    <2>2. Head(backlog) \in Connections
        BY <1>3, TailOfBacklog DEF Accept, CanAccept
    <2>3. clients' = clients + 1 /\ descriptors' = [descriptors EXCEPT ![NewFd] = Head(backlog)]
        BY <1>3 DEF Accept
    <2>4. NewFd \notin OpenFds /\ OpenFds' = OpenFds \cup {NewFd}
        BY <1>1, <2>1, <2>2, <2>3 DEF OpenFds, Open, Types
    <2>5. Cardinality(OpenFds') = Cardinality(OpenFds) + 1
        BY <2>4, OpenFdsFinite, FS_AddElement
    <2>6. QED
        BY <2>3, <2>5 DEF GaugeIsRight
<1>4. CASE Disconnect
    <2>1. NextEvent \in OpenFds
        BY <1>4 DEF Disconnect, Handling
    <2>2. clients' = clients - 1 /\ descriptors' = [descriptors EXCEPT ![NextEvent] = "free"]
        BY <1>4 DEF Disconnect
    <2>3. OpenFds' = OpenFds \ {NextEvent}
        BY <1>1, <2>1, <2>2 DEF OpenFds, Open, Types
    <2>4. Cardinality(OpenFds') = Cardinality(OpenFds) - 1
        BY <2>1, <2>3, OpenFdsFinite, FS_RemoveElement
    <2>5. QED
        BY <2>2, <2>4 DEF GaugeIsRight
<1>5. CASE UNCHANGED <<clients, descriptors>>
    BY <1>2, <1>5, SameOpenFds
<1>6. CASE Wait \/ NotDue \/ Throw \/ Refuse \/ AcceptNoMore \/ Answer
    BY <1>5, <1>6 DEF Wait, Report, NotDue, Throw, Refuse, AcceptNoMore, Answer, loopVars
<1>7. CASE PeriodicDump \/ OpenFinalDump
    <2>1. /\ clients' = clients
          /\ \A fd \in Fds :
                \/ descriptors'[fd] = descriptors[fd]
                \/ descriptors[fd] = "free" /\ descriptors'[fd] = "dump"
        BY <1>7, OpenDumpTypes DEF PeriodicDump, OpenFinalDump
    <2>2. QED
        BY <1>1, <1>2, <2>1, SameOpenFds
<1>8. CASE FinalDump
    <2>1. clients' = clients /\ descriptors' = [descriptors EXCEPT ![epollFd] = "free"]
        BY <1>8 DEF FinalDump
    <2>2. QED
        BY <1>1, <1>2, <2>1, SameOpenFds DEF Roles, Types
<1>9. CASE CloseDump
    <2>1. /\ clients' = clients /\ descriptors' = [descriptors EXCEPT ![dumpFd] = "free"]
          /\ pc \in {"dump", "last_dump"}
        BY <1>9 DEF CloseDump
    <2>2. QED
        BY <1>1, <1>2, <2>1, SameOpenFds DEF Roles, Types
<1>10. CASE CloseListener
    <2>1. clients' = clients /\ descriptors' = [descriptors EXCEPT ![server_socket] = "free"]
        BY <1>10 DEF CloseListener, loopVars
    <2>2. QED
        BY <1>1, <1>2, <2>1, SameOpenFds DEF Roles, Types
<1>11. CASE Interrupt \/ Tick
    BY <1>5, <1>11 DEF Interrupt, Tick, loopVars
<1>12. CASE ClientStep
    BY <1>5, <1>12, ClientsStayOutside DEF loopVars
<1>13. CASE UNCHANGED serverVars
    BY <1>5, <1>13 DEF serverVars, loopVars
<1>14. QED
    BY <1>3, <1>4, <1>6, <1>7, <1>8, <1>9, <1>10, <1>11, <1>12, <1>13
    DEF Next, Loop, ClientStep
-----------------------------------------------------------------------------
(* The dump file. *)

\* The file is truncated only while a dump is open.
LEMMA FileStep ==
    ASSUME Types, Roles, FileInv, [Next]_serverVars
    PROVE  FileInv'
<1>1. store # Truncated
    BY DEF Types, Truncated
<1>2. CASE Wait \/ NotDue \/ Throw
    BY <1>2 DEF FileInv, Wait, Report, NotDue, Throw, Handling, clientVars, signalVars
<1>3. CASE Accept
    BY <1>3 DEF FileInv, Accept, Handling, signalVars
<1>4. CASE Refuse \/ AcceptNoMore \/ Answer
    BY <1>4 DEF FileInv, Refuse, AcceptNoMore, Answer, Handling, loopVars, signalVars
<1>5. CASE Disconnect
    BY <1>5 DEF FileInv, Disconnect, Handling, clientVars, signalVars
<1>6. CASE PeriodicDump
    <2>1. CASE FreeFds = {}
        BY <1>6, <2>1 DEF FileInv, PeriodicDump, OpenDump, signalVars
    <2>2. CASE FreeFds # {}
        <3>1. NewFd \in Fds
            BY <2>2, NewFdIsFree DEF FreeFds
        <3>2. /\ pc' = "dump" /\ dumpFd' = NewFd
              /\ descriptors' = [descriptors EXCEPT ![NewFd] = "dump"]
              /\ UNCHANGED <<running, handler>>
            BY <1>6, <2>2 DEF PeriodicDump, OpenDump, signalVars
        <3>3. QED
            BY <3>1, <3>2 DEF FileInv, Types
    <2>3. QED
        BY <2>1, <2>2
<1>7. CASE FinalDump
    BY <1>7 DEF FileInv, FinalDump, signalVars
<1>8. CASE OpenFinalDump
    <2>1. pc' \in {"last_dump", "done"} /\ UNCHANGED <<running, handler>>
        BY <1>8, OpenDumpTypes DEF OpenFinalDump, signalVars
    <2>2. QED
        BY <2>1 DEF FileInv
<1>9. CASE CloseDump
    BY <1>1, <1>9 DEF FileInv, CloseDump, signalVars
<1>10. CASE CloseListener
    BY <1>10 DEF FileInv, CloseListener, loopVars
<1>11. CASE Interrupt
    BY <1>11 DEF FileInv, Interrupt, loopVars
<1>12. CASE Tick
    BY <1>12 DEF FileInv, Tick, loopVars, signalVars
<1>13. CASE ClientStep
    BY <1>13, ClientsStayOutside DEF FileInv, loopVars, signalVars
<1>14. CASE UNCHANGED serverVars
    BY <1>14 DEF FileInv, serverVars, loopVars, signalVars
<1>15. QED
    BY <1>2, <1>3, <1>4, <1>5, <1>6, <1>7, <1>8, <1>9, <1>10, <1>11, <1>12, <1>13, <1>14
    DEF Next, Loop, ClientStep

\* After its one signal the handler closes nothing else.
LEMMA OneSignalStep ==
    ASSUME MaxSignals =< 1, Types, Roles, OneSignal, [Next]_serverVars
    PROVE  OneSignal'
<1>1. signals \in Nat /\ MaxSignals \in Nat
    BY ServerAssumption DEF Types
<1>2. CASE Wait \/ NotDue \/ Throw
    BY <1>2 DEF OneSignal, GracefulShutdownSaves, Wait, Report, NotDue, Throw, Handling,
        clientVars, signalVars
<1>3. CASE Accept
    <2>1. NewFd # server_socket
        BY <1>3, NewFdIsFree DEF Accept, CanAccept, FreeFds
    <2>2. QED
        BY <1>3, <2>1, LowestNumbers
        DEF OneSignal, GracefulShutdownSaves, Accept, Handling, Types, signalVars, server_socket
<1>4. CASE Refuse \/ AcceptNoMore \/ Answer
    BY <1>4 DEF OneSignal, GracefulShutdownSaves, Refuse, AcceptNoMore, Answer, Handling,
        loopVars, signalVars
<1>5. CASE Disconnect
    <2>1. NextEvent # server_socket
        BY <1>5 DEF Disconnect, Handling, OpenFds, Open, Roles
    <2>2. QED
        BY <1>5, <2>1, LowestNumbers
        DEF OneSignal, GracefulShutdownSaves, Disconnect, Handling, Types, clientVars,
            signalVars, server_socket
<1>6. CASE PeriodicDump
    <2>1. /\ pc' \in {"dump", "wait"} /\ UNCHANGED <<handler, signals>>
          /\ \A fd \in Fds :
                \/ descriptors'[fd] = descriptors[fd]
                \/ descriptors[fd] = "free" /\ descriptors'[fd] = "dump"
        BY <1>6, OpenDumpTypes DEF PeriodicDump, signalVars
    <2>2. QED
        BY <2>1, LowestNumbers DEF OneSignal, GracefulShutdownSaves, server_socket
<1>7. CASE FinalDump
    BY <1>7, LowestNumbers
    DEF OneSignal, GracefulShutdownSaves, FinalDump, Types, signalVars, server_socket, epollFd
<1>8. CASE OpenFinalDump
    <2>1. FreeFds # {}
        BY <1>8, LowestNumbers DEF OpenFinalDump, Roles, FreeFds, epollFd
    <2>2. NewFd \in Fds /\ descriptors[NewFd] = "free"
        BY <2>1, NewFdIsFree DEF FreeFds
    <2>3. /\ pc' = "last_dump" /\ dumpFd' = NewFd
          /\ descriptors' = [descriptors EXCEPT ![NewFd] = "dump"]
          /\ UNCHANGED <<handler, signals>>
        BY <1>8, <2>1 DEF OpenFinalDump, OpenDump, signalVars
    <2>4. QED
        BY <2>2, <2>3, LowestNumbers DEF OneSignal, GracefulShutdownSaves, Types, server_socket
<1>9. CASE CloseDump
    <2>1. dumpFd \in Fds /\ descriptors[dumpFd] \in {"dump", "free"}
        BY <1>9 DEF CloseDump, Roles
    <2>2. /\ pc' = IF pc = "dump" THEN "wait" ELSE "done"
          /\ file' = IF descriptors[dumpFd] = "dump" THEN store ELSE file
          /\ descriptors' = [descriptors EXCEPT ![dumpFd] = "free"]
          /\ UNCHANGED <<handler, signals, store>>
          /\ pc \in {"dump", "last_dump"}
        BY <1>9 DEF CloseDump, signalVars
    <2>3. descriptors'[server_socket] # "listener" => descriptors[server_socket] # "listener"
        BY <2>1, <2>2, LowestNumbers DEF Types, server_socket
    <2>4. QED
        BY <2>2, <2>3 DEF OneSignal, GracefulShutdownSaves
<1>10. CASE CloseListener
    <2>1. /\ handler = "closing" /\ handler' = "idle"
          /\ descriptors' = [descriptors EXCEPT ![server_socket] = "free"]
          /\ UNCHANGED <<pc, dumpFd, file, store, signals>>
        BY <1>10 DEF CloseListener, loopVars
    <2>2. descriptors[server_socket] = "listener"
        BY <2>1 DEF OneSignal
    <2>3. pc = "last_dump" => descriptors'[dumpFd] = "dump"
        BY <2>1, <2>2 DEF OneSignal, Roles, Types
    <2>4. QED
        BY <2>1, <2>3 DEF OneSignal, GracefulShutdownSaves
<1>11. CASE Interrupt
    <2>1. /\ signals < MaxSignals /\ signals' = signals + 1
          /\ UNCHANGED <<pc, dumpFd, file, store, descriptors>>
        BY <1>11 DEF Interrupt, loopVars
    <2>2. signals' >= 1 /\ ~(signals >= 1)
        BY <1>1, <2>1
    <2>3. QED
        BY <2>1, <2>2 DEF OneSignal, GracefulShutdownSaves
<1>12. CASE Tick
    BY <1>12 DEF OneSignal, GracefulShutdownSaves, Tick, loopVars, signalVars
<1>13. CASE ClientStep
    BY <1>13, ClientsStayOutside DEF OneSignal, GracefulShutdownSaves, loopVars, signalVars
<1>14. CASE UNCHANGED serverVars
    BY <1>14 DEF OneSignal, GracefulShutdownSaves, serverVars, loopVars, signalVars
<1>15. QED
    BY <1>2, <1>3, <1>4, <1>5, <1>6, <1>7, <1>8, <1>9, <1>10, <1>11, <1>12, <1>13, <1>14
    DEF Next, Loop, ClientStep
-----------------------------------------------------------------------------
(* Connections and batches. *)

\* Closing a descriptor keeps connections apart.
LEMMA CloseKeepsIdentity ==
    ASSUME Types, Identity, NEW fd \in Fds,
           descriptors' = [descriptors EXCEPT ![fd] = "free"],
           UNCHANGED <<backlog, link>>
    PROVE  Identity'
<1>1. Connections \cap {"free", "listener", "epoll", "dump"} = {}
    BY ServerAssumption
<1>2. \A f \in Fds : descriptors'[f] = IF f = fd THEN "free" ELSE descriptors[f]
    BY DEF Types
<1>3. DOMAIN descriptors = Fds /\ DOMAIN descriptors' = Fds
    BY DEF Types
<1>4. \A c \in Connections : c \notin Range(descriptors) => c \notin Range(descriptors')
    BY <1>1, <1>2, <1>3 DEF Range
<1>5. \A i \in DOMAIN backlog : backlog[i] \in Connections
    BY LenProperties, ElementOfSeq DEF Types
<1>6. \A f \in Fds : Open(f)' => Open(f) /\ descriptors'[f] = descriptors[f]
    BY <1>1, <1>2 DEF Open
<1>7. \A f, g \in Fds : Open(f)' /\ descriptors'[f] = descriptors'[g] => f = g
    <2>1. \A f, g \in Fds : Open(f)' /\ descriptors'[f] = descriptors'[g] => Open(g)'
        BY DEF Open
    <2>2. QED
        BY <1>6, <2>1 DEF Identity
<1>8. QED
    BY <1>4, <1>5, <1>6, <1>7 DEF Identity

\* So does opening the dump file.
LEMMA OpenDumpKeepsIdentity ==
    ASSUME Types, Identity, NEW a, NEW b, OpenDump(a, b), UNCHANGED <<backlog, link>>
    PROVE  Identity'
<1>1. Connections \cap {"free", "listener", "epoll", "dump"} = {}
    BY ServerAssumption
<1>2. \A fd \in Fds :
          \/ descriptors'[fd] = descriptors[fd]
          \/ descriptors[fd] = "free" /\ descriptors'[fd] = "dump"
    BY OpenDumpTypes
<1>3. DOMAIN descriptors = Fds /\ DOMAIN descriptors' = Fds
    BY OpenDumpTypes DEF Types
<1>4. \A c \in Connections : c \notin Range(descriptors) => c \notin Range(descriptors')
    BY <1>1, <1>2, <1>3 DEF Range
<1>5. \A i \in DOMAIN backlog : backlog[i] \in Connections
    BY LenProperties, ElementOfSeq DEF Types
<1>6. \A fd \in Fds : Open(fd)' => Open(fd) /\ descriptors'[fd] = descriptors[fd]
    BY <1>1, <1>2 DEF Open
<1>7. \A f, g \in Fds : Open(f)' /\ descriptors'[f] = descriptors'[g] => f = g
    <2>1. \A f, g \in Fds : Open(f)' /\ descriptors'[f] = descriptors'[g] => Open(g)'
        BY DEF Open
    <2>2. QED
        BY <1>6, <2>1 DEF Identity
<1>8. QED
    BY <1>4, <1>5, <1>6, <1>7 DEF Identity

\* And leaving the backlog.
LEMMA TailIsApart ==
    ASSUME Types, Identity, backlog # <<>>
    PROVE  /\ IsInjective(Tail(backlog))
           /\ \A i \in DOMAIN Tail(backlog) :
                 /\ Tail(backlog)[i] # Head(backlog)
                 /\ link[Tail(backlog)[i]] # "new"
                 /\ Tail(backlog)[i] \notin Range(descriptors)
           /\ Head(backlog) \notin Range(descriptors)
           /\ link[Head(backlog)] # "new"
<1>1. DOMAIN Tail(backlog) \subseteq Nat
    <2>1. DOMAIN Tail(backlog) = 1..Len(Tail(backlog))
        BY TailOfBacklog, LenProperties
    <2>2. QED
        BY <2>1
<1>2. QED
    BY <1>1, TailOfBacklog DEF Identity, IsInjective

\* A connection has one descriptor, or one place in the backlog, and never both.
LEMMA IdentityStep ==
    ASSUME Types, Roles, Identity, [Next]_serverVars
    PROVE  Identity'
<1>1. Connections \cap {"free", "listener", "epoll", "dump"} = {}
    BY ServerAssumption
<1>2. CASE UNCHANGED <<descriptors, backlog, link>>
    BY <1>2 DEF Identity, Open
<1>3. CASE Wait \/ NotDue \/ Throw \/ AcceptNoMore \/ Answer
    BY <1>2, <1>3 DEF Wait, Report, NotDue, Throw, AcceptNoMore, Answer, clientVars
<1>4. CASE Accept
    <2> DEFINE c == Head(backlog)
    <2>1. NewFd \in Fds /\ descriptors[NewFd] = "free"
        BY <1>4, NewFdIsFree DEF Accept, CanAccept, FreeFds
    <2>2. backlog # <<>> /\ c \in Connections
        BY <1>4, TailOfBacklog DEF Accept, CanAccept
    <2>3. /\ descriptors' = [descriptors EXCEPT ![NewFd] = c]
          /\ backlog' = Tail(backlog) /\ link' = link
        BY <1>4 DEF Accept
    <2>4. /\ IsInjective(backlog')
          /\ \A i \in DOMAIN backlog' :
                /\ backlog'[i] # c
                /\ link[backlog'[i]] # "new"
                /\ backlog'[i] \notin Range(descriptors)
          /\ c \notin Range(descriptors) /\ link[c] # "new"
        BY <2>2, <2>3, TailIsApart
    <2> HIDE DEF c
    <2>5. \A fd \in Fds : descriptors'[fd] = IF fd = NewFd THEN c ELSE descriptors[fd]
        BY <2>1, <2>3 DEF Types
    <2>6. DOMAIN descriptors = Fds /\ DOMAIN descriptors' = Fds
        BY <2>3 DEF Types
    <2>7. \A fd \in Fds : descriptors[fd] # c
        BY <2>4, <2>6 DEF Range
    <2>8. \A d : d # c /\ d \notin Range(descriptors) => d \notin Range(descriptors')
        BY <2>5, <2>6 DEF Range
    <2>9. \A f, g \in Fds : Open(f)' /\ descriptors'[f] = descriptors'[g] => f = g
        <3>1. \A f \in Fds : f # NewFd /\ Open(f)' => Open(f)
            BY <2>5 DEF Open
        <3>2. \A f, g \in Fds : Open(f)' /\ descriptors'[f] = descriptors'[g] => Open(g)'
            BY DEF Open
        <3>3. QED
            BY <2>5, <2>7, <3>1, <3>2 DEF Identity
    <2>10. \A fd \in Fds : Open(fd)' => link'[descriptors'[fd]] # "new"
        BY <2>3, <2>4, <2>5 DEF Identity, Open
    <2>11. QED
        BY <2>3, <2>4, <2>8, <2>9, <2>10 DEF Identity
<1>5. CASE Refuse
    <2>1. /\ backlog # <<>> /\ backlog' = Tail(backlog)
          /\ link' = [link EXCEPT ![Head(backlog)] = "refused"]
          /\ descriptors' = descriptors
        BY <1>5 DEF Refuse, CanAccept
    <2>2. \A i \in DOMAIN backlog' : backlog'[i] \in Connections
        <3>1. Tail(backlog) \in Seq(Connections)
            BY <2>1, TailOfBacklog
        <3>2. QED
            BY <2>1, <3>1, LenProperties, ElementOfSeq
    <2>3. \A c \in Connections : link[c] # "new" => link'[c] # "new"
        BY <2>1 DEF Types
    <2>4. QED
        BY <2>1, <2>2, <2>3, TailIsApart DEF Identity, Open
<1>6. CASE Disconnect
    <2>1. NextEvent \in Fds
        BY <1>6 DEF Disconnect, Handling, OpenFds
    <2>2. QED
        BY <1>6, <2>1, CloseKeepsIdentity DEF Disconnect, clientVars
<1>7. CASE PeriodicDump \/ OpenFinalDump
    BY <1>7, OpenDumpKeepsIdentity DEF PeriodicDump, OpenFinalDump, clientVars
<1>8. CASE FinalDump
    BY <1>8, LowestNumbers, CloseKeepsIdentity DEF FinalDump, clientVars, epollFd
<1>9. CASE CloseDump
    <2>1. dumpFd \in Fds
        BY <1>9 DEF CloseDump, Roles
    <2>2. QED
        BY <1>9, <2>1, CloseKeepsIdentity DEF CloseDump, clientVars
<1>10. CASE CloseListener
    BY <1>10, LowestNumbers, CloseKeepsIdentity DEF CloseListener, clientVars, server_socket
<1>11. CASE Interrupt \/ Tick
    BY <1>2, <1>11 DEF Interrupt, Tick, clientVars
<1>12. ASSUME NEW c \in Connections, Connect(c) PROVE Identity'
    <2>1. /\ link[c] = "new" /\ link' = [link EXCEPT ![c] = "open"]
          /\ backlog' = Append(backlog, c) /\ descriptors' = descriptors
        BY <1>12 DEF Connect
    <2>2. backlog \in Seq(Connections) /\ Len(backlog) \in Nat /\ DOMAIN backlog = 1..Len(backlog)
        BY LenProperties DEF Types
    <2>3. /\ backlog' \in Seq(Connections) /\ Len(backlog') = Len(backlog) + 1
          /\ \A i \in 1..Len(backlog) : backlog'[i] = backlog[i]
          /\ backlog'[Len(backlog) + 1] = c
        BY <2>1, <2>2, AppendProperties
    <2>4. DOMAIN backlog' = 1..(Len(backlog) + 1)
        BY <2>3, LenProperties
    <2>5. \A i \in 1..Len(backlog) :
              /\ backlog[i] \in Connections /\ backlog[i] # c
              /\ link[backlog[i]] # "new" /\ backlog[i] \notin Range(descriptors)
        BY <2>1, <2>2, ElementOfSeq DEF Identity
    <2>6. c \notin Range(descriptors)
        BY <2>1 DEF Range, Identity, Open, Types
    <2>7. IsInjective(backlog')
        BY <2>2, <2>3, <2>4, <2>5 DEF Identity, IsInjective
    <2>8. \A d \in Connections : link'[d] = IF d = c THEN "open" ELSE link[d]
        BY <2>1 DEF Types
    <2>9. \A i \in 1..(Len(backlog) + 1) :
              link'[backlog'[i]] # "new" /\ backlog'[i] \notin Range(descriptors)
        BY <2>2, <2>3, <2>5, <2>6, <2>8
    <2>10. QED
        BY <2>1, <2>4, <2>7, <2>8, <2>9 DEF Identity, Open
<1>13. ASSUME NEW c \in Connections, Send(c) PROVE Identity'
    BY <1>2, <1>13 DEF Send
<1>14. ASSUME NEW c \in Connections, Leave(c) PROVE Identity'
    <2>1. /\ link' = [link EXCEPT ![c] = "closed"]
          /\ backlog' = backlog /\ descriptors' = descriptors
        BY <1>14 DEF Leave
    <2>2. \A d \in Connections : link[d] # "new" => link'[d] # "new"
        BY <2>1 DEF Types
    <2>3. \A i \in DOMAIN backlog : backlog[i] \in Connections
        BY LenProperties, ElementOfSeq DEF Types
    <2>4. QED
        BY <2>1, <2>2, <2>3 DEF Identity, Open
<1>15. CASE UNCHANGED serverVars
    BY <1>2, <1>15 DEF serverVars, clientVars
<1>16. QED
    BY <1>3, <1>4, <1>5, <1>6, <1>7, <1>8, <1>9, <1>10, <1>11, <1>12, <1>13, <1>14, <1>15
    DEF Next, Loop

\* An event that does not belong to the listening socket denotes a connection.
LEMMA EventsAreOpen ==
    ASSUME Types, Roles, BatchInv, NEW i \in DOMAIN events, events[i][1] # server_socket
    PROVE  /\ events[i][1] \in Fds /\ Open(events[i][1])
           /\ descriptors[events[i][1]] = events[i][2]
           /\ \/ descriptors[events[i][1]] \in pending
              \/ link[descriptors[events[i][1]]] = "closed"
<1>1. events[i] \in Fds \X Occupants
    BY LenProperties, ElementOfSeq DEF Types
<1>2. descriptors[events[i][1]] = events[i][2] /\ Readable(events[i][1])
    BY DEF BatchInv, EventsAreCurrent
<1>3. QED
    BY <1>1, <1>2 DEF Readable, Roles

\* A step that takes nothing away from what is readable on fd.
Undisturbed(fd) ==
    fd # server_socket =>
        /\ descriptors'[fd] = descriptors[fd]
        /\ descriptors[fd] \in pending => descriptors[fd] \in pending'
        /\ link[descriptors[fd]] = "closed" => link'[descriptors[fd]] = "closed"

\* A batch stays current as long as nothing is taken away from its events.
LEMMA EventsStayCurrent ==
    ASSUME Types, Roles, BatchInv,
           \A i \in DOMAIN events' :
               \E j \in DOMAIN events : events'[i] = events[j] /\ Undisturbed(events[j][1])
    PROVE  EventsAreCurrent'
<1>1. ASSUME NEW i \in DOMAIN events', events'[i][1] # server_socket
      PROVE  /\ descriptors'[events'[i][1]] = events'[i][2]
             /\ descriptors'[events'[i][1]] \in Connections
             /\ \/ descriptors'[events'[i][1]] \in pending'
                \/ link'[descriptors'[events'[i][1]]] = "closed"
    <2>1. PICK j \in DOMAIN events : events'[i] = events[j] /\ Undisturbed(events[j][1])
        OBVIOUS
    <2> DEFINE fd == events[j][1]
    <2>2. events'[i][1] = fd /\ fd # server_socket /\ events'[i][2] = events[j][2]
        BY <1>1, <2>1
    <2>3. /\ Open(fd) /\ descriptors[fd] = events[j][2]
          /\ descriptors[fd] \in pending \/ link[descriptors[fd]] = "closed"
        BY <2>2, EventsAreOpen
    <2>4. /\ descriptors'[fd] = descriptors[fd]
          /\ descriptors[fd] \in pending => descriptors[fd] \in pending'
          /\ link[descriptors[fd]] = "closed" => link'[descriptors[fd]] = "closed"
        BY <2>1, <2>2 DEF Undisturbed
    <2> HIDE DEF fd
    <2>5. /\ descriptors'[fd] \in Connections
          /\ descriptors'[fd] \in pending' \/ link'[descriptors'[fd]] = "closed"
        BY <2>3, <2>4 DEF Open
    <2>6. QED
        BY <2>2, <2>3, <2>4, <2>5
<1>2. QED
    BY <1>1 DEF EventsAreCurrent, Readable, Open

\* What is left of a batch after its first event.
LEMMA RestOfBatch ==
    ASSUME Types, BatchInv, events # <<>>, events' = Tail(events)
    PROVE  /\ \A i \in DOMAIN events' :
                 \E j \in DOMAIN events :
                     events'[i] = events[j] /\ events[j][1] # NextEvent
           /\ \A i, j \in DOMAIN events' : events'[i][1] = events'[j][1] => i = j
<1>1. /\ events \in Seq(Fds \X Occupants) /\ Len(events) \in Nat
      /\ DOMAIN events = 1..Len(events) /\ Len(events) # 0
    BY LenProperties, EmptySeq DEF Types
<1>2. /\ Tail(events) \in Seq(Fds \X Occupants) /\ Len(Tail(events)) = Len(events) - 1
      /\ \A i \in 1..Len(Tail(events)) : Tail(events)[i] = events[i + 1]
    BY <1>1, HeadTailProperties
<1>3. DOMAIN events' = 1..(Len(events) - 1)
    BY <1>2, LenProperties
<1>4. Head(events) = events[1]
    BY <1>1
<1>5. \A i \in 1..(Len(events) - 1) :
          /\ i + 1 \in DOMAIN events /\ i + 1 # 1 /\ 1 \in DOMAIN events
          /\ events'[i] = events[i + 1]
    BY <1>1, <1>2
<1>6. \A i \in DOMAIN events' : events[i + 1][1] # NextEvent
    BY <1>3, <1>4, <1>5 DEF BatchInv, NextEvent
<1>7. \A i, j \in DOMAIN events' : events'[i][1] = events'[j][1] => i = j
    <2>1. ASSUME NEW i \in DOMAIN events', NEW j \in DOMAIN events',
                 events'[i][1] = events'[j][1]
          PROVE  i = j
        <3>1. i + 1 = j + 1
            BY <1>3, <1>5, <2>1 DEF BatchInv
        <3>2. QED
            BY <1>1, <1>3, <3>1
    <2>2. QED
        BY <2>1
<1>8. QED
    BY <1>3, <1>5, <1>6, <1>7

\* While a batch is handled, only its own front is closed.
LEMMA BatchStep ==
    ASSUME Types, ReadyOnce, Roles, Identity, BatchInv, [Next]_serverVars
    PROVE  BatchInv'
<1>1. CASE Wait
    <2>1. EventsAreCurrent'
        <3>1. \A i \in DOMAIN events' :
                  /\ events'[i][1] \in Fds
                  /\ events'[i][2] = descriptors[events'[i][1]]
                  /\ Readable(events'[i][1])
            BY <1>1, ReportEffect DEF Wait
        <3>2. UNCHANGED <<descriptors, backlog, pending, link>>
            BY <1>1 DEF Wait, Report, clientVars
        <3>3. QED
            BY <3>1, <3>2 DEF EventsAreCurrent, Readable, Open
    <2>2. QED
        BY <1>1, <2>1, ReportEffect DEF BatchInv, Wait, Report
\* The same events, and nothing taken away from any of them.
<1>2. ASSUME events' = events, pc' = pc \/ events = <<>>,
             \A i \in DOMAIN events : Undisturbed(events[i][1])
      PROVE  BatchInv'
    <2>1. EventsAreCurrent'
        BY <1>2, EventsStayCurrent
    <2>2. CASE events = <<>>
        BY <1>2, <2>1, <2>2 DEF BatchInv
    <2>3. CASE pc' = pc
        BY <1>2, <2>1, <2>3 DEF BatchInv
    <2>4. QED
        BY <1>2, <2>2, <2>3
<1>3. CASE UNCHANGED <<pc, events, descriptors, pending, link>>
    BY <1>2, <1>3 DEF Undisturbed
<1>4. CASE Accept
    <2>1. NewFd \in Fds /\ descriptors[NewFd] = "free"
        BY <1>4, NewFdIsFree DEF Accept, CanAccept, FreeFds
    <2>2. /\ descriptors' = [descriptors EXCEPT ![NewFd] = Head(backlog)]
          /\ UNCHANGED <<pc, events, link, pending>>
        BY <1>4 DEF Accept
    <2>3. ASSUME NEW i \in DOMAIN events, events[i][1] # server_socket
          PROVE  descriptors'[events[i][1]] = descriptors[events[i][1]]
        <3>1. events[i][1] \in Fds /\ Open(events[i][1])
            BY <2>3, EventsAreOpen
        <3>2. "free" \notin Connections
            BY ServerAssumption
        <3>3. QED
            BY <2>1, <2>2, <3>1, <3>2 DEF Open, Types
    <2>4. QED
        BY <1>2, <2>2, <2>3 DEF Undisturbed
<1>5. CASE Refuse
    <2>1. /\ backlog # <<>> /\ link' = [link EXCEPT ![Head(backlog)] = "refused"]
          /\ UNCHANGED <<pc, events, descriptors, pending>>
        BY <1>5 DEF Refuse, CanAccept, loopVars
    <2>2. ASSUME NEW i \in DOMAIN events, events[i][1] # server_socket
          PROVE  link'[descriptors[events[i][1]]] = link[descriptors[events[i][1]]]
        <3>1. events[i][1] \in Fds /\ Open(events[i][1])
            BY <2>2, EventsAreOpen
        <3>2. descriptors[events[i][1]] # Head(backlog)
            BY <2>1, <3>1, TailIsApart DEF Types, Range
        <3>3. QED
            BY <2>1, <3>1, <3>2 DEF Types, Open
    <2>3. QED
        BY <1>2, <2>1, <2>2 DEF Undisturbed
<1>6. ASSUME events # <<>>, events' = Tail(events), pc' \in {"handle", "dead"},
             \A j \in DOMAIN events :
                 events[j][1] # NextEvent => Undisturbed(events[j][1])
      PROVE  BatchInv'
    <2>1. EventsAreCurrent'
        BY <1>6, RestOfBatch, EventsStayCurrent
    <2>2. QED
        BY <1>6, <2>1, RestOfBatch DEF BatchInv
<1>7. CASE AcceptNoMore
    BY <1>6, <1>7 DEF AcceptNoMore, Handling, Undisturbed, clientVars
<1>8. CASE Answer \/ Throw
    <2>1. /\ NextEvent \in Fds /\ Open(NextEvent)
          /\ pending' = pending \ {descriptors[NextEvent]}
          /\ UNCHANGED <<descriptors, link>>
          /\ events # <<>> /\ events' = Tail(events) /\ pc' \in {"handle", "dead"}
        BY <1>8 DEF Answer, Throw, Handling, OpenFds
    <2>2. ASSUME NEW j \in DOMAIN events, events[j][1] # NextEvent,
                 events[j][1] # server_socket
          PROVE  descriptors[events[j][1]] # descriptors[NextEvent]
        BY <2>1, <2>2, EventsAreOpen DEF Identity
    <2>3. QED
        BY <1>6, <2>1, <2>2 DEF Undisturbed
<1>9. CASE Disconnect
    <2>1. /\ NextEvent \in Fds
          /\ descriptors' = [descriptors EXCEPT ![NextEvent] = "free"]
          /\ UNCHANGED <<pending, link>>
          /\ events # <<>> /\ events' = Tail(events) /\ pc' = "handle"
        BY <1>9 DEF Disconnect, Handling, OpenFds, clientVars
    <2>2. ASSUME NEW j \in DOMAIN events, events[j][1] # NextEvent,
                 events[j][1] # server_socket
          PROVE  descriptors'[events[j][1]] = descriptors[events[j][1]]
        BY <2>1, <2>2, EventsAreOpen DEF Types
    <2>3. QED
        BY <1>6, <2>1, <2>2 DEF Undisturbed
\* Between two batches there is no event.
<1>11. ASSUME events = <<>>, events' = events PROVE BatchInv'
    BY <1>2, <1>11
<1>12. CASE NotDue \/ PeriodicDump
    BY <1>11, <1>12 DEF NotDue, PeriodicDump
<1>13. CASE FinalDump \/ OpenFinalDump \/ CloseDump
    BY <1>11, <1>13 DEF FinalDump, OpenFinalDump, CloseDump, BatchInv
<1>14. CASE CloseListener
    <2>1. /\ descriptors' = [descriptors EXCEPT ![server_socket] = "free"]
          /\ UNCHANGED <<pc, events, pending, link>>
        BY <1>14 DEF CloseListener, loopVars, clientVars
    <2>2. ASSUME NEW j \in DOMAIN events, events[j][1] # server_socket
          PROVE  descriptors'[events[j][1]] = descriptors[events[j][1]]
        BY <2>1, <2>2, EventsAreOpen DEF Types
    <2>3. QED
        BY <1>2, <2>1, <2>2 DEF Undisturbed
<1>15. CASE Interrupt \/ Tick
    BY <1>3, <1>15 DEF Interrupt, Tick, loopVars, clientVars
<1>16. ASSUME NEW c \in Connections, Connect(c) \/ Send(c) \/ Leave(c) PROVE BatchInv'
    <2>1. /\ UNCHANGED <<pc, events, descriptors>>
          /\ pending \subseteq pending'
          /\ link[c] # "closed"
          /\ link' = link \/ \E l \in {"open", "closed"} : link' = [link EXCEPT ![c] = l]
        <3>1. CASE Connect(c)
            BY <3>1 DEF Connect, loopVars
        <3>2. CASE Send(c)
            BY <3>2 DEF Send, loopVars
        <3>3. CASE Leave(c)
            BY <3>3 DEF Leave, loopVars
        <3>4. QED
            BY <1>16, <3>1, <3>2, <3>3
    <2>2. \A d \in Connections : link[d] = "closed" => link'[d] = "closed"
        BY <2>1 DEF Types
    <2>3. \A i \in DOMAIN events : Undisturbed(events[i][1])
        BY <2>1, <2>2, EventsAreOpen DEF Undisturbed, Open
    <2>4. QED
        BY <1>2, <2>1, <2>3
<1>17. CASE UNCHANGED serverVars
    BY <1>3, <1>17 DEF serverVars, loopVars, clientVars
<1>18. QED
    BY <1>1, <1>4, <1>5, <1>7, <1>8, <1>9, <1>12, <1>13, <1>14, <1>15, <1>16, <1>17
    DEF Next, Loop
-----------------------------------------------------------------------------
(* The ready list. *)

\* Whatever can be read is listed, while a batch is handled too.
Listed == \A fd \in Fds : Readable(fd) => fd \in Range(ready)

\* Waking a descriptor lists it beside the others.
LEMMA WokenLists ==
    ASSUME ReadyOnce, NEW fd \in Fds
    PROVE  fd \in Range(Woken(fd)) /\ Range(ready) \subseteq Range(Woken(fd))
<1>1. CASE fd \in Range(ready)
    BY <1>1 DEF Woken
<1>2. CASE fd \notin Range(ready)
    <2> DEFINE r == Append(ready, fd)
    <2>1. ready \in Seq(Fds) /\ DOMAIN ready = 1..Len(ready) /\ Len(ready) \in Nat
        BY LenProperties DEF ReadyOnce
    <2>2. /\ r \in Seq(Fds) /\ Len(r) = Len(ready) + 1
          /\ \A i \in 1..Len(ready) : r[i] = ready[i]
          /\ r[Len(ready) + 1] = fd
        BY <2>1, AppendProperties
    <2>3. DOMAIN r = 1..(Len(ready) + 1)
        BY <2>2, LenProperties
    <2> HIDE DEF r
    <2>4. fd \in Range(r) /\ Range(ready) \subseteq Range(r)
        BY <2>1, <2>2, <2>3 DEF Range
    <2>5. QED
        BY <1>2, <2>4 DEF Woken, r
<1>3. QED
    BY <1>1, <1>2

\* What is left of the ready list holds all that should stay.
LEMMA KeptLists ==
    ASSUME ReadyOnce, NEW S, NEW k \in Kept(S), NEW x \in S, x \in Range(ready)
    PROVE  x \in Range(k)
<1> DEFINE P == {i \in DOMAIN ready : ready[i] \in S}
           N == Cardinality(P)
<1>1. DOMAIN ready = 1..Len(ready) /\ Len(ready) \in Nat
    BY LenProperties DEF ReadyOnce
<1>2. IsFiniteSet(P) /\ N \in Nat
    <2>1. IsFiniteSet(1..Len(ready))
        <3> DEFINE n == Len(ready)
        <3>1. 1 \in Int /\ n \in Int
            BY <1>1
        <3> HIDE DEF n
        <3>2. IsFiniteSet(1..n)
            BY <3>1, FS_Interval, Zenon
        <3>3. QED
            BY <3>2 DEF n
    <2>2. P \subseteq 1..Len(ready)
        BY <1>1
    <2>3. QED
        BY <2>1, <2>2, FS_Subset, FS_CardinalityType
<1>3. PICK e \in Increasing(P) : k = Select(ready, e)
    BY DEF Kept
<1>4. e \in [1..N -> P] /\ \A i, j \in 1..N : i < j => e[i] < e[j]
    BY <1>3 DEF Increasing
<1>5. P \subseteq Nat
    BY <1>1
<1>6. PICK p \in P : ready[p] = x
    BY DEF Range
<1> HIDE DEF N, P
<1>7. e \in Injection(1..N, P)
    <2>1. ASSUME NEW i \in 1..N, NEW j \in 1..N, e[i] = e[j] PROVE i = j
        <3>1. e[i] \in Nat /\ e[j] \in Nat
            BY <1>4, <1>5
        <3>2. ~(e[i] < e[j]) /\ ~(e[j] < e[i])
            BY <2>1, <3>1
        <3>3. ~(i < j) /\ ~(j < i)
            BY <1>4, <3>2
        <3>4. QED
            BY <1>2, <3>3
    <2>2. QED
        BY <1>4, <2>1 DEF Injection, IsInjective
<1>8. Cardinality(1..N) = N
    <2>1. 1 \in Int /\ N \in Int
        BY <1>2
    <2>2. Cardinality(1..N) = IF 1 > N THEN 0 ELSE N - 1 + 1
        BY <2>1, FS_Interval, Zenon
    <2>3. QED
        BY <1>2, <2>2
<1>9. e \in Surjection(1..N, P)
    <2>1. Cardinality(1..N) = Cardinality(P)
        BY <1>8 DEF N
    <2>2. QED
        BY <1>2, <1>7, <2>1, FS_Injection
<1>10. PICK j \in 1..N : e[j] = p
    BY <1>9 DEF Surjection
<1>11. k = [i \in 1..N |-> ready[e[i]]]
    BY <1>3, <1>4 DEF Select
<1>12. QED
    BY <1>6, <1>10, <1>11 DEF Range

\* Moving the reported descriptors to the end loses none of them.
LEMMA RotatedLists ==
    ASSUME NEW live \in Seq(Fds), NEW n \in 0..Len(live)
    PROVE  Range(live) \subseteq Range(SubSeq(live, n + 1, Len(live)) \o SubSeq(live, 1, n))
<1> DEFINE tail == SubSeq(live, n + 1, Len(live))
           head == SubSeq(live, 1, n)
           m == Len(live)
           r == tail \o head
<1>1. m \in Nat /\ DOMAIN live = 1..m
    BY LenProperties
<1>2. n \in Int /\ n >= 0 /\ n =< m
    BY <1>1
<1>3. /\ tail \in Seq(Fds) /\ Len(tail) = m - n
      /\ \A i \in 1..(m - n) : tail[i] = live[n + i]
    <2>1. /\ tail \in Seq(Fds)
          /\ Len(tail) = IF n + 1 =< m THEN m - (n + 1) + 1 ELSE 0
          /\ \A i \in 1..(m - (n + 1) + 1) : tail[i] = live[(n + 1) + i - 1]
        BY <1>1, <1>2, SubSeqProperties
    <2> HIDE DEF tail, m
    <2>2. QED
        BY <1>1, <1>2, <2>1
<1>4. /\ head \in Seq(Fds) /\ Len(head) = n
      /\ \A i \in 1..n : head[i] = live[i]
    <2>1. /\ head \in Seq(Fds)
          /\ Len(head) = IF 1 =< n THEN n - 1 + 1 ELSE 0
          /\ \A i \in 1..(n - 1 + 1) : head[i] = live[1 + i - 1]
        BY <1>1, <1>2, SubSeqProperties
    <2> HIDE DEF head, m
    <2>2. QED
        BY <1>1, <1>2, <2>1
<1> HIDE DEF tail, head, m
<1>5. /\ r \in Seq(Fds) /\ Len(r) = (m - n) + n
      /\ \A i \in 1..((m - n) + n) :
            r[i] = IF i =< m - n THEN tail[i] ELSE head[i - (m - n)]
    <2>1. /\ tail \o head \in Seq(Fds)
          /\ Len(tail \o head) = Len(tail) + Len(head)
          /\ \A i \in 1..(Len(tail) + Len(head)) :
                (tail \o head)[i] = IF i =< Len(tail) THEN tail[i] ELSE head[i - Len(tail)]
        BY <1>3, <1>4, ConcatProperties, Zenon
    <2>2. QED
        BY <1>3, <1>4, <2>1
<1>6. DOMAIN r = 1..((m - n) + n)
    BY <1>5, LenProperties
<1> HIDE DEF r
<1>7. ASSUME NEW i \in 1..m PROVE live[i] \in Range(r)
    <2>1. CASE i =< n
        <3>1. m - n + i \in 1..((m - n) + n) /\ ~(m - n + i =< m - n)
              /\ (m - n + i) - (m - n) = i /\ i \in 1..n
            BY <1>1, <1>2, <2>1
        <3>2. r[m - n + i] = live[i]
            BY <1>4, <1>5, <3>1
        <3>3. QED
            BY <1>6, <3>1, <3>2 DEF Range
    <2>2. CASE ~(i =< n)
        <3>1. i - n \in 1..((m - n) + n) /\ i - n =< m - n /\ i - n \in 1..(m - n)
              /\ n + (i - n) = i
            BY <1>1, <1>2, <2>2
        <3>2. r[i - n] = live[i]
            BY <1>3, <1>5, <3>1
        <3>3. QED
            BY <1>6, <3>1, <3>2 DEF Range
    <2>3. QED
        BY <2>1, <2>2
<1>8. QED
    BY <1>1, <1>7 DEF Range, r, tail, head, m

\* A report keeps on the list all that can be read.
LEMMA ReportLists ==
    ASSUME ReadyOnce, Listed, Report
    PROVE  \A fd \in Fds : Readable(fd) => fd \in Range(ready')
<1> DEFINE R == {fd \in Fds : Readable(fd)}
<1>1. PICK live \in Kept(R) :
          LET n == Least(MaxEvents, Len(live))
              batch == SubSeq(live, 1, n)
          IN  ready' = SubSeq(live, n + 1, Len(live)) \o batch
    BY DEF Report
<1> DEFINE n == Least(MaxEvents, Len(live))
<1>2. live \in Seq(Fds)
    BY KeptOnce
<1>3. Len(live) \in Nat
    BY <1>2, LenProperties
<1>4. n \in 0..Len(live)
    BY <1>3, ServerAssumption DEF Least
<1>5. ready' = SubSeq(live, n + 1, Len(live)) \o SubSeq(live, 1, n)
    BY <1>1
<1> HIDE DEF n
<1>6. Range(live) \subseteq Range(ready')
    BY <1>2, <1>4, <1>5, RotatedLists
<1>7. \A fd \in R : fd \in Range(live)
    BY KeptLists DEF Listed
<1>8. QED
    BY <1>6, <1>7

\* A step that gives nobody anything to read and takes nobody off the list.
LEMMA StillListed ==
    ASSUME Listed, Range(ready) \subseteq Range(ready'),
           \A fd \in Fds : Readable(fd)' => Readable(fd) \/ fd \in Range(ready')
    PROVE  Listed'
BY DEF Listed

\* Closing a descriptor takes only itself off the list.
LEMMA CloseLists ==
    ASSUME Types, ReadyOnce, Listed, NEW fd \in Fds, ready' \in Kept(Fds \ {fd}),
           descriptors' = [descriptors EXCEPT ![fd] = "free"],
           UNCHANGED <<backlog, link, pending>>
    PROVE  Listed'
<1>1. Connections \cap {"free", "listener", "epoll", "dump"} = {}
    BY ServerAssumption
<1>2. ASSUME NEW f \in Fds, Readable(f)' PROVE f \in Range(ready')
    <2>1. descriptors'[f] = IF f = fd THEN "free" ELSE descriptors[f]
        BY DEF Types
    <2>2. f # fd /\ Readable(f)
        BY <1>1, <1>2, <2>1 DEF Readable, Open
    <2>3. QED
        BY <2>2, KeptLists DEF Listed
<1>3. QED
    BY <1>2 DEF Listed

\* A descriptor that nothing is read from leaves the list as it was.
LEMMA OthersListed ==
    ASSUME Listed, ready' = ready, UNCHANGED <<backlog, link, pending>>,
           \A fd \in Fds :
               descriptors'[fd] = descriptors[fd] \/ descriptors'[fd] \in {"free", "dump"}
    PROVE  Listed'
<1>1. Connections \cap {"free", "listener", "epoll", "dump"} = {}
    BY ServerAssumption
<1>2. ASSUME NEW fd \in Fds, Readable(fd)' PROVE Readable(fd)
    BY <1>1, <1>2 DEF Readable, Open
<1>3. QED
    BY <1>2 DEF Listed

\* Nothing that can be read leaves the ready list.
LEMMA ListedStep ==
    ASSUME Types, ReadyOnce, Roles, Identity, Listed, [Next]_serverVars
    PROVE  Listed'
<1>1. Connections \cap {"free", "listener", "epoll", "dump"} = {}
    BY ServerAssumption
<1>2. CASE UNCHANGED <<ready, descriptors, backlog, link, pending>>
    BY <1>2 DEF Listed, Readable, Open
<1>3. CASE Wait
    <2>1. UNCHANGED <<descriptors, backlog, link, pending>>
        BY <1>3 DEF Wait, Report, clientVars
    <2>2. \A fd \in Fds : Readable(fd)' => Readable(fd)
        BY <2>1 DEF Readable, Open
    <2>3. QED
        BY <1>3, <2>2, ReportLists DEF Listed, Wait
<1>4. CASE Accept
    <2> DEFINE c == Head(backlog)
    <2>1. NewFd \in Fds
        BY <1>4, NewFdIsFree DEF Accept, CanAccept, FreeFds
    <2>2. /\ descriptors' = [descriptors EXCEPT ![NewFd] = c]
          /\ UNCHANGED <<link, pending>>
          /\ backlog # <<>>
          /\ ready' = IF c \in pending \/ link[c] = "closed" THEN Woken(NewFd) ELSE ready
        BY <1>4 DEF Accept, CanAccept
    <2>3. c \in Connections
        BY <2>2, TailOfBacklog
    <2> HIDE DEF c
    <2>4. Range(ready) \subseteq Range(ready')
        BY <2>1, <2>2, WokenLists
    <2>5. ASSUME NEW fd \in Fds, Readable(fd)' PROVE Readable(fd) \/ fd \in Range(ready')
        <3>1. descriptors'[fd] = IF fd = NewFd THEN c ELSE descriptors[fd]
            BY <2>1, <2>2 DEF Types
        <3>2. CASE fd = NewFd
            <4>1. c \in pending \/ link[c] = "closed"
                BY <1>1, <2>2, <2>3, <2>5, <3>1, <3>2 DEF Readable, Open
            <4>2. QED
                BY <2>1, <2>2, <3>2, <4>1, WokenLists
        <3>3. CASE fd # NewFd
            BY <2>2, <2>5, <3>1, <3>3 DEF Readable, Open
        <3>4. QED
            BY <3>2, <3>3
    <2>6. QED
        BY <2>4, <2>5, StillListed
<1>5. CASE Refuse
    <2>1. /\ backlog # <<>> /\ link' = [link EXCEPT ![Head(backlog)] = "refused"]
          /\ UNCHANGED <<ready, descriptors, pending>>
        BY <1>5 DEF Refuse, CanAccept
    <2>2. \A c \in Connections : link'[c] = "closed" => link[c] = "closed"
        BY <2>1 DEF Types
    <2>3. \A fd \in Fds : Readable(fd)' => Readable(fd)
        BY <2>1, <2>2 DEF Readable, Open
    <2>4. QED
        BY <2>1, <2>3 DEF Listed
<1>6. CASE Answer \/ Throw
    <2>1. pending' \subseteq pending /\ UNCHANGED <<ready, descriptors, backlog, link>>
        BY <1>6 DEF Answer, Throw
    <2>2. QED
        BY <2>1 DEF Listed, Readable, Open
<1>7. CASE Disconnect
    <2>1. NextEvent \in Fds
        BY <1>7 DEF Disconnect, Handling, OpenFds
    <2>2. QED
        BY <1>7, <2>1, CloseLists DEF Disconnect, clientVars
<1>8. CASE CloseListener
    BY <1>8, LowestNumbers, CloseLists DEF CloseListener, clientVars, server_socket
<1>9. CASE PeriodicDump \/ OpenFinalDump
    <2>1. /\ UNCHANGED <<ready, backlog, link, pending>>
          /\ \A fd \in Fds :
                descriptors'[fd] = descriptors[fd] \/ descriptors'[fd] \in {"free", "dump"}
        BY <1>9, OpenDumpTypes DEF PeriodicDump, OpenFinalDump, clientVars
    <2>2. QED
        BY <2>1, OthersListed
<1>10. CASE FinalDump \/ CloseDump
    <2>1. /\ UNCHANGED <<ready, backlog, link, pending>>
          /\ \A fd \in Fds :
                descriptors'[fd] = descriptors[fd] \/ descriptors'[fd] \in {"free", "dump"}
        BY <1>10 DEF FinalDump, CloseDump, clientVars, Types
    <2>2. QED
        BY <2>1, OthersListed
<1>11. CASE NotDue \/ AcceptNoMore \/ Interrupt \/ Tick
    BY <1>2, <1>11 DEF NotDue, AcceptNoMore, Interrupt, Tick, clientVars
<1>12. ASSUME NEW c \in Connections, Connect(c) PROVE Listed'
    <2>1. /\ link' = [link EXCEPT ![c] = "open"]
          /\ ready' = Woken(server_socket) /\ server_socket \in Fds
          /\ UNCHANGED <<descriptors, pending>>
        BY <1>12, LowestNumbers DEF Connect, server_socket
    <2>2. server_socket \in Range(ready') /\ Range(ready) \subseteq Range(ready')
        BY <2>1, WokenLists
    <2>3. \A d \in Connections : link'[d] = "closed" => link[d] = "closed"
        BY <2>1 DEF Types
    <2>4. ASSUME NEW fd \in Fds, Readable(fd)' PROVE Readable(fd) \/ fd \in Range(ready')
        <3>1. CASE descriptors[fd] = "listener"
            BY <2>2, <3>1 DEF Roles
        <3>2. CASE descriptors[fd] # "listener"
            BY <2>1, <2>3, <2>4, <3>2 DEF Readable, Open
        <3>3. QED
            BY <3>1, <3>2
    <2>5. QED
        BY <2>2, <2>4, StillListed
\* A client that sends or leaves wakes its own descriptor.
<1>13. ASSUME NEW c \in Connections, Notify(c), UNCHANGED <<descriptors, backlog>>,
              pending' \subseteq pending \cup {c},
              \A d \in Connections \ {c} : link'[d] = link[d]
       PROVE  Listed'
    <2>1. /\ Range(ready) \subseteq Range(ready')
          /\ \A fd \in Fds : descriptors[fd] = c => fd \in Range(ready')
        <3>1. CASE c \in Range(descriptors)
            <4>1. PICK g \in Fds : descriptors[g] = c /\ ready' = Woken(g)
                BY <1>13, <3>1 DEF Notify
            <4>2. \A fd \in Fds : descriptors[fd] = c => fd = g
                BY <4>1 DEF Identity, Open
            <4>3. QED
                BY <4>1, <4>2, WokenLists
        <3>2. CASE c \notin Range(descriptors)
            <4>1. ready' = ready /\ DOMAIN descriptors = Fds
                BY <1>13, <3>2 DEF Notify, Types
            <4>2. QED
                BY <3>2, <4>1 DEF Range
        <3>3. QED
            BY <3>1, <3>2
    <2>2. ASSUME NEW fd \in Fds, Readable(fd)', descriptors[fd] # c PROVE Readable(fd)
        BY <1>13, <2>2 DEF Readable, Open
    <2>3. QED
        BY <2>1, <2>2, StillListed
<1>14. ASSUME NEW c \in Connections, Send(c) PROVE Listed'
    BY <1>13, <1>14 DEF Send
<1>15. ASSUME NEW c \in Connections, Leave(c) PROVE Listed'
    <2>1. /\ Notify(c) /\ UNCHANGED <<descriptors, backlog, pending>>
          /\ link' = [link EXCEPT ![c] = "closed"]
        BY <1>15 DEF Leave
    <2>2. \A d \in Connections \ {c} : link'[d] = link[d]
        BY <2>1 DEF Types
    <2>3. QED
        BY <1>13, <2>1, <2>2
<1>16. CASE UNCHANGED serverVars
    BY <1>2, <1>16 DEF serverVars, clientVars
<1>17. QED
    BY <1>3, <1>4, <1>5, <1>6, <1>7, <1>8, <1>9, <1>10, <1>11, <1>12, <1>14, <1>15, <1>16
    DEF Next, Loop
-----------------------------------------------------------------------------
(* The theorems. *)

IInv ==
    /\ Types /\ ReadyOnce /\ Roles /\ Identity /\ BatchInv
    /\ Listed /\ GaugeIsRight /\ FileInv

\* The server starts with no connection, no request and nothing to save.
LEMMA InitInv == Init => IInv
<1> SUFFICES ASSUME Init PROVE IInv
    OBVIOUS
<1>1. Connections \cap {"free", "listener", "epoll", "dump"} = {}
    BY ServerAssumption
<1>2. \A fd \in Fds : descriptors[fd] \in {"free", "listener", "epoll"}
    BY DEF Init
<1>3. Identity
    BY <1>1, <1>2 DEF Init, Identity, IsInjective, Open
<1>4. BatchInv
    BY DEF Init, BatchInv, EventsAreCurrent
<1>5. OpenFds = {} /\ Cardinality({}) = 0
    BY <1>1, <1>2, FS_EmptySet DEF OpenFds, Open
<1>6. Listed /\ GaugeIsRight
    <2>1. \A fd \in Fds : ~Readable(fd)
        BY <1>1, <1>2 DEF Init, Readable, Open
    <2>2. QED
        BY <1>5, <2>1 DEF Init, Listed, GaugeIsRight
<1>7. FileInv
    BY DEF Init, FileInv, Truncated
<1>8. QED
    BY <1>3, <1>4, <1>6, <1>7, InitTypes DEF IInv

\* Every step of the server keeps the invariant.
LEMMA StepInv == IInv /\ [Next]_serverVars => IInv'
BY TypesStep, ReadyStep, RolesStep, IdentityStep, BatchStep, ListedStep, GaugeStep, FileStep
DEF IInv

\* The invariant holds of every reachable state.
LEMMA Inductive == Spec => []IInv
BY InitInv, StepInv, PTL DEF Spec

\* Types, and the ready list names no descriptor twice; the gauge never goes
\* below 0.
THEOREM ServerTypes == Spec => []TypeOK
<1>1. IInv => TypeOK
    BY OpenFdsFinite DEF IInv, Types, ReadyOnce, GaugeIsRight, TypeOK
<1>2. QED
    BY <1>1, Inductive, PTL

\* Server.cpp 86-97 and 115, EPOLLIN alone: whatever can be read is on the
\* ready list when the loop waits again, for batches of any size.
THEOREM NobodyForgotten == Spec => []NobodyIsForgotten
<1>1. Listed => NobodyIsForgotten
    BY DEF Listed, NobodyIsForgotten
<1>2. QED
    BY <1>1, Inductive, PTL DEF IInv

\* Server.cpp 103-139: an event is handled for the connection that it was
\* reported for.
THEOREM EventsCurrent == Spec => []EventsAreCurrent
BY Inductive, PTL DEF IInv, BatchInv

\* Server.cpp 123 and 136: the gauge of clients is the number of connections.
THEOREM GaugeRight == Spec => []GaugeIsRight
BY Inductive, PTL DEF IInv

\* CommandHandler.cpp 228: an exception leaves the file of the last dump.
THEOREM ExceptionsKeepFile == Spec => []ExceptionKeepsTheFile
<1>1. FileInv => ExceptionKeepsTheFile
    BY DEF FileInv, ExceptionKeepsTheFile
<1>2. QED
    BY <1>1, Inductive, PTL DEF IInv

\* Server.cpp 44-48 and 153-158: with at most one SIGINT, a server that has
\* stopped has saved every write.  Run interrupted_twice shows why one.
THEOREM OneSignalSaves == ASSUME MaxSignals =< 1 PROVE Spec => []GracefulShutdownSaves
<1>1. Init => OneSignal
    <2>1. Init => descriptors[server_socket] = "listener"
        BY LowestNumbers DEF Init, server_socket, epollFd
    <2>2. QED
        BY <2>1 DEF Init, OneSignal, GracefulShutdownSaves
<1>2. IInv /\ OneSignal /\ [Next]_serverVars => OneSignal'
    BY OneSignalStep DEF IInv
<1>3. OneSignal => GracefulShutdownSaves
    BY DEF OneSignal
<1>4. QED
    BY <1>1, <1>2, <1>3, Inductive, PTL DEF Spec
=============================================================================
