------------------------------- MODULE Server -------------------------------
(***************************************************************************)
(* Server::run: one thread that waits on epoll, accepts connections,       *)
(* answers requests and dumps the store; the SIGINT handler, which runs    *)
(* beside it on any thread; and the clients, each of which sends a request *)
(* and waits for the reply, as Client does.                                *)
(*                                                                         *)
(* Every request is taken for a write: store counts them.  The model       *)
(* starts when the listening socket is registered.                         *)
(***************************************************************************)
EXTENDS Collections

CONSTANTS
    Connections,   \* the connections that clients open, each once
    MaxFd,         \* bound: the limit on descriptors
    MaxEvents,     \* MAX_EVENTS
    DumpInterval,  \* dumpInterval, in ticks of the clock
    MaxRequests,   \* bound: requests sent by all clients
    MaxSignals     \* bound: SIGINTs sent to the process

ASSUME ServerAssumption ==
    /\ IsFiniteSet(Connections)
    /\ Connections \cap {"free", "listener", "epoll", "dump"} = {}
    /\ MaxFd \in Nat /\ MaxFd >= 2
    /\ MaxEvents \in Nat \ {0}
    /\ DumpInterval \in Nat
    /\ MaxRequests \in Nat
    /\ MaxSignals \in Nat

VARIABLES
    pc,            \* where the loop's thread is
    running,       \* cleared by shutdown
    descriptors,   \* what every descriptor of the process denotes
    ready,         \* epoll's ready list
    events,        \* events not handled yet, with what each descriptor denoted
    clients,       \* the gauge of connected clients
    store,         \* number of writes applied to the database
    file,          \* number of writes in dump.my_db, or Truncated
    dumpFd,        \* descriptor of the dump in progress
    sinceDump,     \* time since lastDump, up to DumpInterval
    backlog,       \* connections the kernel has made and nobody accepted
    link,          \* what every client thinks of its connection
    requests,      \* number of requests sent
    pending,       \* connections on which a request waits to be read
    signals,       \* SIGINTs so far
    handler        \* where the signal handler is

loopVars == <<pc, events, clients, store, file, dumpFd>>
clientVars == <<backlog, link, requests, pending>>
signalVars == <<running, signals, handler>>
serverVars == <<loopVars, clientVars, signalVars, descriptors, ready, sinceDump>>

Fds == 1..MaxFd
server_socket == 1
epollFd == 2
Truncated == -1

Open(fd) == descriptors[fd] \in Connections
OpenFds == {fd \in Fds : Open(fd)}
FreeFds == {fd \in Fds : descriptors[fd] = "free"}

\* The kernel hands out the lowest free descriptor.
NewFd == Min(FreeFds)

Init ==
    /\ pc = "wait"
    /\ running = TRUE
    /\ descriptors = [fd \in Fds |-> CASE fd = server_socket -> "listener"
                                       [] fd = epollFd -> "epoll"
                                       [] OTHER -> "free"]
    /\ ready = <<>>
    /\ events = <<>>
    /\ clients = 0
    /\ store = 0
    /\ file = 0
    /\ dumpFd = 0
    /\ sinceDump = 0
    /\ backlog = <<>>
    /\ link = [c \in Connections |-> "new"]
    /\ requests = 0
    /\ pending = {}
    /\ signals = 0
    /\ handler = "idle"
-----------------------------------------------------------------------------
(* epoll, level-triggered.  A descriptor enters the ready list when        *)
(* something arrives, and goes back to its end each time it is reported.   *)

Readable(fd) ==
    \/ descriptors[fd] = "listener" /\ backlog # <<>>
    \/ Open(fd) /\ (descriptors[fd] \in pending \/ link[descriptors[fd]] = "closed")

Woken(fd) == IF fd \in Range(ready) THEN ready ELSE Append(ready, fd)

\* What is left of the ready list when only the descriptors of S stay in it.
Kept(S) == {Select(ready, e) : e \in Increasing({i \in DOMAIN ready : ready[i] \in S})}

\* A process that has ended does nothing, and nobody reaches it.
Alive == pc \notin {"done", "dead"}

Connect(c) ==
    /\ Alive
    /\ link[c] = "new"
    /\ descriptors[server_socket] = "listener"
    /\ link' = [link EXCEPT ![c] = "open"]
    /\ backlog' = Append(backlog, c)
    /\ ready' = Woken(server_socket)
    /\ UNCHANGED <<loopVars, signalVars, descriptors, sinceDump, requests, pending>>

\* The descriptor of a connection, once it is accepted, is ready.
Notify(c) ==
    IF c \in Range(descriptors)
    THEN \E fd \in Fds : descriptors[fd] = c /\ ready' = Woken(fd)
    ELSE ready' = ready

Send(c) ==
    /\ Alive
    /\ link[c] = "open"
    /\ c \notin pending
    /\ requests < MaxRequests
    /\ requests' = requests + 1
    /\ pending' = pending \cup {c}
    /\ Notify(c)
    /\ UNCHANGED <<loopVars, signalVars, descriptors, sinceDump, backlog, link>>

\* The client goes away, with or without its reply.
Leave(c) ==
    /\ Alive
    /\ link[c] = "open"
    /\ link' = [link EXCEPT ![c] = "closed"]
    /\ Notify(c)
    /\ UNCHANGED <<loopVars, signalVars, descriptors, sinceDump, backlog, requests, pending>>
-----------------------------------------------------------------------------
(* The loop. *)

\* A slip: EPOLLET, an event is reported once.
Report_EdgeTriggered ==
    /\ \E live \in Kept({fd \in Fds : Readable(fd)}) :
          LET n == Least(MaxEvents, Len(live))
          IN  /\ events' = [i \in 1..n |-> <<live[i], descriptors[live[i]]>>]
              /\ ready' = SubSeq(live, n + 1, Len(live))
    /\ pc' = "handle"
    /\ UNCHANGED <<clientVars, signalVars, descriptors, clients, store, file, dumpFd, sinceDump>>

\* epoll_wait returns the head of what is ready, or nothing after 300 ms.
Report ==
    /\ \E live \in Kept({fd \in Fds : Readable(fd)}) :
          LET n == Least(MaxEvents, Len(live))
              batch == SubSeq(live, 1, n)
          IN  /\ events' = [i \in 1..n |-> <<live[i], descriptors[live[i]]>>]
              /\ ready' = SubSeq(live, n + 1, Len(live)) \o batch
    /\ pc' = "handle"
    /\ UNCHANGED <<clientVars, signalVars, descriptors, clients, store, file, dumpFd, sinceDump>>

\* A slip: the loop does not look at running.
Wait_Always == pc = "wait" /\ Report

Wait == pc = "wait" /\ running /\ Report

NextEvent == Head(events)[1]

CanAccept ==
    descriptors[server_socket] = "listener" /\ backlog # <<>> /\ FreeFds # {}

Handling(fds) == pc = "handle" /\ events # <<>> /\ NextEvent \in fds

\* A slip: the client not counted.
Accept_Uncounted ==
    /\ Handling({server_socket})
    /\ CanAccept
    /\ descriptors' = [descriptors EXCEPT ![NewFd] = Head(backlog)]
    /\ backlog' = Tail(backlog)
    /\ ready' = IF Head(backlog) \in pending \/ link[Head(backlog)] = "closed"
                THEN Woken(NewFd) ELSE ready
    /\ UNCHANGED <<signalVars, pc, events, clients, store, file, dumpFd, sinceDump, link,
                   requests, pending>>

\* accept and epoll_ctl succeed; the loop tries to accept another one.
Accept ==
    /\ Handling({server_socket})
    /\ CanAccept
    /\ descriptors' = [descriptors EXCEPT ![NewFd] = Head(backlog)]
    /\ backlog' = Tail(backlog)
    /\ clients' = clients + 1
    /\ ready' = IF Head(backlog) \in pending \/ link[Head(backlog)] = "closed"
                THEN Woken(NewFd) ELSE ready
    /\ UNCHANGED <<signalVars, pc, events, store, file, dumpFd, sinceDump, link, requests, pending>>

\* A slip: the client counted before the registration is known to work.
Refuse_Counted ==
    /\ Handling({server_socket})
    /\ CanAccept
    /\ backlog' = Tail(backlog)
    /\ link' = [link EXCEPT ![Head(backlog)] = "refused"]
    /\ clients' = clients + 1
    /\ UNCHANGED <<signalVars, pc, descriptors, ready, events, store, file, dumpFd,
                   sinceDump, requests, pending>>

\* accept succeeds and epoll_ctl does not: the connection is closed at once.
Refuse ==
    /\ Handling({server_socket})
    /\ CanAccept
    /\ backlog' = Tail(backlog)
    /\ link' = [link EXCEPT ![Head(backlog)] = "refused"]
    /\ UNCHANGED <<signalVars, loopVars, descriptors, ready, sinceDump, requests, pending>>

\* A slip: the loop around accept never left.
AcceptNoMore_Spins ==
    /\ Handling({server_socket})
    /\ ~CanAccept
    /\ UNCHANGED serverVars

\* accept fails: nobody is waiting, no descriptor is free, or the handler has
\* closed the listening socket.
AcceptNoMore ==
    /\ Handling({server_socket})
    /\ ~CanAccept
    /\ events' = Tail(events)
    /\ UNCHANGED <<clientVars, signalVars, pc, descriptors, ready, clients, store, file,
                   dumpFd, sinceDump>>

\* recv returns a request, which is executed and answered.
Answer ==
    /\ Handling(OpenFds)
    /\ descriptors[NextEvent] \in pending
    /\ pending' = pending \ {descriptors[NextEvent]}
    /\ store' = store + 1
    /\ events' = Tail(events)
    /\ UNCHANGED <<signalVars, pc, descriptors, ready, clients, file, dumpFd, sinceDump,
                   backlog, link, requests>>

\* recv returns a request in which a number is none: std::stoi throws and
\* nobody catches.
Throw ==
    /\ Handling(OpenFds)
    /\ descriptors[NextEvent] \in pending
    /\ pending' = pending \ {descriptors[NextEvent]}
    /\ events' = Tail(events)
    /\ pc' = "dead"
    /\ UNCHANGED <<signalVars, descriptors, ready, clients, store, file, dumpFd, sinceDump,
                   backlog, link, requests>>

\* A slip: the connection handled once more after it was closed.
Disconnect_Again ==
    /\ Handling(OpenFds)
    /\ descriptors[NextEvent] \notin pending
    /\ link[descriptors[NextEvent]] = "closed"
    /\ descriptors' = [descriptors EXCEPT ![NextEvent] = "free"]
    /\ ready' \in Kept(Fds \ {NextEvent})
    /\ clients' = clients - 1
    /\ UNCHANGED <<clientVars, signalVars, pc, events, store, file, dumpFd, sinceDump>>

\* recv returns 0 or an error: the peer is gone.
Disconnect ==
    /\ Handling(OpenFds)
    /\ descriptors[NextEvent] \notin pending
    /\ link[descriptors[NextEvent]] = "closed"
    /\ descriptors' = [descriptors EXCEPT ![NextEvent] = "free"]
    /\ ready' \in Kept(Fds \ {NextEvent})
    /\ clients' = clients - 1
    /\ events' = Tail(events)
    /\ UNCHANGED <<clientVars, signalVars, pc, store, file, dumpFd, sinceDump>>

\* A slip: the store never due for a dump.
NotDue_Ever ==
    /\ pc = "handle" /\ events = <<>>
    /\ pc' = "wait"
    /\ UNCHANGED <<clientVars, signalVars, descriptors, ready, events, clients, store, file,
                   dumpFd, sinceDump>>

\* Every event is handled; there is nothing to save yet.
NotDue ==
    /\ pc = "handle" /\ events = <<>>
    /\ sinceDump < DumpInterval
    /\ pc' = "wait"
    /\ UNCHANGED <<clientVars, signalVars, descriptors, ready, events, clients, store, file,
                   dumpFd, sinceDump>>

\* dump opens the file, which truncates it, or finds no descriptor for it.
OpenDump(success, failure) ==
    IF FreeFds = {}
    THEN pc' = failure /\ UNCHANGED <<descriptors, dumpFd, file>>
    ELSE /\ pc' = success
         /\ dumpFd' = NewFd
         /\ descriptors' = [descriptors EXCEPT ![NewFd] = "dump"]
         /\ file' = Truncated

\* A slip: the stream kept open and unwritten until the next turns.
PeriodicDump_Later ==
    /\ pc = "handle" /\ events = <<>>
    /\ sinceDump = DumpInterval
    /\ sinceDump' = 0
    /\ OpenDump("wait", "wait")
    /\ UNCHANGED <<clientVars, signalVars, ready, events, clients, store>>

PeriodicDump ==
    /\ pc = "handle" /\ events = <<>>
    /\ sinceDump = DumpInterval
    /\ sinceDump' = 0
    /\ OpenDump("dump", "wait")
    /\ UNCHANGED <<clientVars, signalVars, ready, events, clients, store>>

\* A slip: no dump after the loop.
FinalDump_Skipped ==
    /\ pc = "wait"
    /\ ~running
    /\ pc' = "done"
    /\ descriptors' = [descriptors EXCEPT ![epollFd] = "free"]
    /\ UNCHANGED <<clientVars, signalVars, ready, events, clients, store, file, dumpFd, sinceDump>>

\* The loop ends: epollFd is closed and the store dumped a last time.
FinalDump ==
    /\ pc = "wait"
    /\ ~running
    /\ pc' = "final"
    /\ descriptors' = [descriptors EXCEPT ![epollFd] = "free"]
    /\ UNCHANGED <<clientVars, signalVars, ready, events, clients, store, file, dumpFd, sinceDump>>

OpenFinalDump ==
    /\ pc = "final"
    /\ OpenDump("last_dump", "done")
    /\ UNCHANGED <<clientVars, signalVars, ready, events, clients, store, sinceDump>>

\* The stream writes its buffer and closes its descriptor; whether that
\* worked is not looked at.
CloseDump ==
    /\ pc \in {"dump", "last_dump"}
    /\ pc' = IF pc = "dump" THEN "wait" ELSE "done"
    /\ file' = IF descriptors[dumpFd] = "dump" THEN store ELSE file
    /\ descriptors' = [descriptors EXCEPT ![dumpFd] = "free"]
    /\ dumpFd' = 0
    /\ UNCHANGED <<clientVars, signalVars, ready, events, clients, store, sinceDump>>

Loop ==
    \/ Wait \/ Accept \/ Refuse \/ AcceptNoMore \/ Answer \/ Throw \/ Disconnect
    \/ NotDue \/ PeriodicDump \/ FinalDump \/ OpenFinalDump \/ CloseDump
-----------------------------------------------------------------------------
(* SIGINT.  shutdown clears running and closes server_socket, whatever the *)
(* number denotes by then: it is never set to -1.                          *)

Interrupt ==
    /\ Alive
    /\ signals < MaxSignals
    /\ handler = "idle"
    /\ signals' = signals + 1
    /\ running' = FALSE
    /\ handler' = "closing"
    /\ UNCHANGED <<loopVars, clientVars, descriptors, ready, sinceDump>>

CloseListener ==
    /\ Alive
    /\ handler = "closing"
    /\ handler' = "idle"
    /\ descriptors' = [descriptors EXCEPT ![server_socket] = "free"]
    /\ ready' \in Kept(Fds \ {server_socket})
    /\ UNCHANGED <<loopVars, clientVars, running, signals, sinceDump>>

Tick ==
    /\ Alive
    /\ sinceDump < DumpInterval
    /\ sinceDump' = sinceDump + 1
    /\ UNCHANGED <<loopVars, clientVars, signalVars, descriptors, ready>>

Next ==
    \/ Loop \/ Interrupt \/ CloseListener \/ Tick
    \/ \E c \in Connections : Connect(c) \/ Send(c) \/ Leave(c)

\* The loop never blocks: epoll_wait has a timeout and the sockets are
\* non-blocking.  The handler runs to its end and time goes on.
Fairness == WF_serverVars(Loop) /\ WF_serverVars(CloseListener) /\ WF_serverVars(Tick)

Spec == Init /\ [][Next]_serverVars /\ Fairness
-----------------------------------------------------------------------------
(* Properties. *)

Occupants == Connections \cup {"free", "listener", "epoll", "dump"}

\* Types, and what the kernel guarantees of the ready list: no descriptor is
\* in it twice.
TypeOK ==
    /\ pc \in {"wait", "handle", "dump", "final", "last_dump", "done", "dead"}
    /\ running \in BOOLEAN
    /\ descriptors \in [Fds -> Occupants]
    /\ ready \in Seq(Fds) /\ IsInjective(ready)
    /\ events \in Seq(Fds \X Occupants)
    /\ clients \in Nat
    /\ store \in Nat
    /\ file \in Nat \cup {Truncated}
    /\ dumpFd \in {0} \cup Fds
    /\ sinceDump \in 0..DumpInterval
    /\ backlog \in Seq(Connections)
    /\ link \in [Connections -> {"new", "open", "closed", "refused"}]
    /\ requests \in Nat
    /\ pending \subseteq Connections
    /\ signals \in 0..MaxSignals
    /\ handler \in {"idle", "closing"}

\* The descriptors of a batch are reported together and handled one by one,
\* while connections are closed and accepted under the same numbers: an event
\* still denotes the connection that it was reported for, and there is
\* something to read on it.
EventsAreCurrent ==
    \A i \in DOMAIN events :
        LET fd == events[i][1]
        IN  fd # server_socket => descriptors[fd] = events[i][2] /\ Readable(fd)

\* Nobody is forgotten: when the loop waits again, epoll still lists whatever
\* can be read, though a batch is cut at MAX_EVENTS, a connection that sent a
\* request and left is read once for its event, and the accept loop gives up
\* for lack of a descriptor with clients in the backlog.
NobodyIsForgotten ==
    pc = "wait" => \A fd \in Fds : Readable(fd) => fd \in Range(ready)

\* fluxendb_connected_clients is the number of connections that are open.
GaugeIsRight == clients = Cardinality(OpenFds)

\* Server.h: "graceful shutdwn (ctrl + c)".  When the server has stopped, every
\* write is in dump.my_db.
GracefulShutdownSaves == pc = "done" => file = store

\* A request that ends the process by an exception costs the writes since the
\* last dump, never the dump itself: no request is handled while the file is
\* truncated.
ExceptionKeepsTheFile == pc = "dead" => file # Truncated

\* A request on a connection that was accepted is answered, unless its client
\* leaves first, the server is stopped or dies, however many other connections
\* want attention and even if no descriptor is left for the next client.
RequestsAreAnswered ==
    \A c \in Connections :
        c \in pending /\ c \in Range(descriptors) ~>
            c \notin pending \/ link[c] # "open" \/ ~running \/ pc = "dead"

\* After SIGINT the process ends.
ShutdownCompletes == ~running ~> ~Alive

\* The dump that is due finds no descriptor for its file.
DumpFails ==
    pc = "handle" /\ events = <<>> /\ sinceDump = DumpInterval /\ FreeFds = {}

\* A write that was applied reaches the file, in a periodic dump or in the
\* last one, unless the process dies or a dump that is due finds no descriptor.
WritesReachTheFile == file # store ~> file = store \/ pc = "dead" \/ DumpFails
=============================================================================
