---------------------------- MODULE Connections -----------------------------
(***************************************************************************)
(* The two threads of Server::Start (src/Server/core/server/src/server.cpp)*)
(* and the table of connections they share: the listener accepts and       *)
(* queues, the main thread adds queued descriptors to the table, polls and *)
(* scans it, and closes and removes clients while it scans.                *)
(*                                                                         *)
(* What a read returns is abstracted to pieces: one read takes one piece,  *)
(* which may or may not complete the header or body it asks for (Framing   *)
(* has the bytes).  Descriptors are numbers because accept gives out the   *)
(* lowest free one, which is how a descriptor comes to be used again.      *)
(***************************************************************************)
EXTENDS Integers, Sequences, FiniteSets

CONSTANTS
  Conns,     \* connections peers may open
  Fds,       \* descriptors the process may have for them
  None,      \* no connection, no descriptor
  MaxUnread  \* bound: pieces waiting in a receive buffer

ASSUME ConnectionsAssumption ==
  /\ Fds \subseteq Nat \ {0}
  /\ IsFiniteSet(Fds) /\ IsFiniteSet(Conns)
  /\ None \notin Conns \cup Fds
  /\ MaxUnread \in Nat

VARIABLES
  \* Kernel and peers.
  peer,       \* connection -> "idle", "open", "closed" (FIN sent) or "reset"
  unread,     \* connection -> pieces received and not yet read
  backlog,    \* connections waiting for accept
  owner,      \* descriptor -> connection open on it, or None
  listening,  \* FALSE once the listening socket is shut down
  \* Server.
  m_run, m_connection_queue, m_disconnection,
  m_observers,        \* sequence of pollfd: fd and POLLIN of the last poll
  m_observers_index,  \* descriptor -> index in m_observers
  m_overflows,        \* by index: the connection with half a body read, or None
  main,         \* what the main thread does next
  client_index,
  client_fd,    \* the descriptor closed and not yet removed, or None
  listener,     \* what the listener thread does next
  accepted,     \* the descriptor it accepted and has not yet queued, or None
  \* Hooks.
  session,  \* descriptor -> connection OnConnect was called for
  ended,    \* history: connections OnDisconnect was called for
  called    \* history: the last hook call

kernel == <<peer, unread, backlog, owner, listening>>
table == <<m_observers, m_observers_index, m_overflows>>
hooks == <<session, ended, called>>
vars == <<kernel, m_run, m_connection_queue, m_disconnection, table, main,
          client_index, client_fd, listener, accepted, hooks>>

TypeOK ==
  /\ peer \in [Conns -> {"idle", "open", "closed", "reset"}]
  /\ unread \in [Conns -> 0..MaxUnread]
  /\ backlog \in Seq(Conns)
  /\ owner \in [Fds -> Conns \cup {None}]
  /\ listening \in BOOLEAN /\ m_run \in BOOLEAN
  /\ m_connection_queue \in Seq(Fds)
  /\ m_disconnection \subseteq Fds
  /\ m_observers \in Seq([fd : Fds, ready : BOOLEAN])
  /\ DOMAIN m_observers_index \subseteq Fds
  /\ m_observers_index \in [DOMAIN m_observers_index -> Nat \ {0}]
  /\ m_overflows \in Seq(Conns \cup {None})
  /\ main \in {"console", "lock", "drain", "poll", "scan", "body", "drop",
               "shutdown", "join", "done"}
  /\ client_index \in Nat
  /\ client_fd \in Fds \cup {None}
  /\ listener \in {"accept", "push", "exit"}
  /\ accepted \in Fds \cup {None}
  /\ DOMAIN session \subseteq Fds
  /\ session \in [DOMAIN session -> Conns]
  /\ ended \subseteq Conns

-----------------------------------------------------------------------------
\* Peers: never under the server's control, never obliged to act.

Connect(c) ==
  /\ peer[c] = "idle" /\ listening
  /\ peer' = [peer EXCEPT ![c] = "open"]
  /\ backlog' = Append(backlog, c)
  /\ UNCHANGED <<unread, owner, listening, m_run, m_connection_queue,
                 m_disconnection, table, main, client_index, client_fd,
                 listener, accepted, hooks>>

SendPiece(c) ==
  /\ peer[c] = "open" /\ unread[c] < MaxUnread
  /\ c \notin ended
  /\ unread' = [unread EXCEPT ![c] = @ + 1]
  /\ UNCHANGED <<peer, backlog, owner, listening, m_run, m_connection_queue,
                 m_disconnection, table, main, client_index, client_fd,
                 listener, accepted, hooks>>

Leave(c) ==
  /\ peer[c] = "open"
  /\ \E how \in {"closed", "reset"} : peer' = [peer EXCEPT ![c] = how]
  /\ UNCHANGED <<unread, backlog, owner, listening, m_run, m_connection_queue,
                 m_disconnection, table, main, client_index, client_fd,
                 listener, accepted, hooks>>

-----------------------------------------------------------------------------
\* Listener thread.

FreeFds == {f \in Fds : owner[f] = None}
Lowest(f) == \A g \in FreeFds : f <= g

\* accept fails when the process is out of descriptors or the socket is shut
\* down; either way the thread ends.
Accept ==
  /\ listener = "accept"
  /\ \/ /\ listening /\ backlog # <<>>
        /\ \E f \in FreeFds :
             /\ Lowest(f)
             /\ owner' = [owner EXCEPT ![f] = Head(backlog)]
             /\ accepted' = f
        /\ backlog' = Tail(backlog)
        /\ listener' = "push"
     \/ /\ ~listening \/ (backlog # <<>> /\ FreeFds = {})
        /\ listener' = "exit"
        /\ UNCHANGED <<owner, backlog, accepted>>
  /\ UNCHANGED <<peer, unread, listening, m_run, m_connection_queue,
                 m_disconnection, table, main, client_index, client_fd, hooks>>

MutexHeldByMain == main = "drain"

\* m_run is read without m_run_mutex: the step sees it before or after a Stop
\* of the other thread.
Push ==
  /\ listener = "push" /\ ~MutexHeldByMain
  /\ m_connection_queue' = Append(m_connection_queue, accepted)
  /\ accepted' = None
  /\ listener' = IF m_run THEN "accept" ELSE "exit"
  /\ UNCHANGED <<kernel, m_run, m_disconnection, table, main, client_index,
                 client_fd, hooks>>

-----------------------------------------------------------------------------
\* Main thread: console, connection queue.

HasClient(f) == f \in DOMAIN m_observers_index

\* No line or one without effect, STOP, or DISCONNECT of some clients.
Console ==
  /\ main = "console" /\ main' = "lock"
  /\ \/ m_run' = FALSE /\ UNCHANGED m_disconnection
     \/ \E fds \in SUBSET {f \in Fds : HasClient(f)} :
          m_disconnection' = m_disconnection \cup fds /\ UNCHANGED m_run
  /\ UNCHANGED <<kernel, m_connection_queue, table, client_index, client_fd,
                 listener, accepted, hooks>>

Lock ==
  /\ main = "lock" /\ main' = "drain"
  /\ UNCHANGED <<kernel, m_run, m_connection_queue, m_disconnection, table,
                 client_index, client_fd, listener, accepted, hooks>>

\* std::unordered_map::emplace keeps the entry of a key it already has.
Emplace(map, key, value) ==
  [k \in DOMAIN map \cup {key} |-> IF k \in DOMAIN map THEN map[k] ELSE value]

AddClient(f) ==
  /\ m_observers_index' = Emplace(m_observers_index, f, Len(m_observers) + 1)
  /\ m_observers' = Append(m_observers, [fd |-> f, ready |-> FALSE])
  /\ m_overflows' = Append(m_overflows, None)

OnConnect(f) ==
  /\ session' = Emplace(session, f, owner[f])
  /\ called' = <<"OnConnect", f, owner[f]>>
  /\ UNCHANGED ended

DrainClears ==
  /\ main = "drain"
  /\ \/ /\ m_connection_queue # <<>>
        /\ m_connection_queue' = <<>>
        /\ AddClient(Head(m_connection_queue))
        /\ OnConnect(Head(m_connection_queue))
        /\ UNCHANGED main
     \/ /\ m_connection_queue = <<>>
        /\ main' = "poll"
        /\ UNCHANGED <<m_connection_queue, table, hooks>>
  /\ UNCHANGED <<kernel, m_run, m_disconnection, client_index, client_fd,
                 listener, accepted>>
Drain ==
  /\ main = "drain"
  /\ \/ /\ m_connection_queue # <<>>
        /\ m_connection_queue' = Tail(m_connection_queue)
        /\ AddClient(Head(m_connection_queue))
        /\ OnConnect(Head(m_connection_queue))
        /\ UNCHANGED main
     \/ /\ m_connection_queue = <<>>
        /\ main' = "poll"
        /\ UNCHANGED <<m_connection_queue, table, hooks>>
  /\ UNCHANGED <<kernel, m_run, m_disconnection, client_index, client_fd,
                 listener, accepted>>

-----------------------------------------------------------------------------
\* Main thread: the scan over the clients.

Readable(f) ==
  LET c == owner[f]
  IN  c # None /\ (unread[c] > 0 \/ peer[c] \in {"closed", "reset"})

Poll ==
  /\ main = "poll" /\ main' = "scan"
  /\ client_index' = 1
  /\ m_observers' = [k \in DOMAIN m_observers |->
                       [m_observers[k] EXCEPT !.ready = Readable(m_observers[k].fd)]]
  /\ UNCHANGED <<kernel, m_run, m_connection_queue, m_disconnection,
                 m_observers_index, m_overflows, client_fd, listener, accepted, hooks>>

Scanning == main = "scan" /\ client_index <= Len(m_observers)
Fd == m_observers[client_index].fd
Conn == owner[Fd]

ScanDoneAnyway ==
  /\ main = "scan" /\ client_index > Len(m_observers)
  /\ main' = "console"
  /\ client_index' = 0
  /\ UNCHANGED <<kernel, m_run, m_connection_queue, m_disconnection, table,
                 client_fd, listener, accepted, hooks>>
ScanDone ==
  /\ main = "scan" /\ client_index > Len(m_observers)
  /\ main' = IF m_run THEN "console" ELSE "shutdown"
  /\ client_index' = 0
  /\ UNCHANGED <<kernel, m_run, m_connection_queue, m_disconnection, table,
                 client_fd, listener, accepted, hooks>>

Skip ==
  /\ client_index' = client_index + 1
  /\ main' = "scan"

\* close comes first; from then on accept may give the descriptor out again.
Close ==
  /\ owner' = [owner EXCEPT ![Fd] = None]
  /\ client_fd' = Fd
  /\ main' = "drop"
  /\ UNCHANGED <<backlog, listening, client_index, table, hooks>>

AskedNever(f) == FALSE
Asked(f) == f \in m_disconnection

SkipIdle ==
  /\ Scanning /\ ~Asked(Fd) /\ ~m_observers[client_index].ready
  /\ Skip
  /\ UNCHANGED <<kernel, m_run, m_connection_queue, m_disconnection, table,
                 client_fd, listener, accepted, hooks>>

CloseAsked ==
  /\ Scanning /\ Asked(Fd)
  /\ Close
  /\ UNCHANGED <<peer, unread, m_run, m_connection_queue, m_disconnection,
                 listener, accepted>>

Ready == Scanning /\ ~Asked(Fd) /\ m_observers[client_index].ready

\* What a read finds: a piece, else the error of a reset (once), else the end.
TakePiece == unread[Conn] > 0 /\ unread' = [unread EXCEPT ![Conn] = @ - 1]
             /\ UNCHANGED peer
ReadFails == unread[Conn] = 0 /\ peer[Conn] = "reset"
             /\ peer' = [peer EXCEPT ![Conn] = "closed"] /\ UNCHANGED unread
ReadsEnd  == unread[Conn] = 0 /\ peer[Conn] = "closed"
             /\ UNCHANGED <<peer, unread>>

\* A failed read and part of a header are discarded, the end drops the client.
HeaderHandlerIgnoresEnd ==
  \/ /\ TakePiece /\ main' = "body"
     /\ UNCHANGED <<client_index, client_fd, owner, backlog, listening, table, hooks>>
  \/ /\ TakePiece \/ ReadFails \/ ReadsEnd
     /\ Skip
     /\ UNCHANGED <<client_fd, owner, backlog, listening, table, hooks>>
HeaderHandler ==
  \/ /\ TakePiece /\ main' = "body"
     /\ UNCHANGED <<client_index, client_fd, owner, backlog, listening, table, hooks>>
  \/ /\ TakePiece \/ ReadFails
     /\ Skip
     /\ UNCHANGED <<client_fd, owner, backlog, listening, table, hooks>>
  \/ /\ ReadsEnd /\ Close

ReadHeader ==
  /\ Ready /\ m_overflows[client_index] = None
  /\ HeaderHandler
  /\ UNCHANGED <<m_run, m_connection_queue, m_disconnection, listener, accepted>>

\* A handler may stop the server; none of them disconnects a client.
OnRequest ==
  /\ called' = <<"OnRequest", Fd, Conn>>
  /\ m_run' \in {m_run, FALSE}
  /\ UNCHANGED <<session, ended>>

\* A piece that is not the whole body starts or continues overflow mode.
BodyHandler ==
  \/ /\ TakePiece
     /\ m_overflows' = [m_overflows EXCEPT ![client_index] = None]
     /\ OnRequest /\ Skip
     /\ UNCHANGED <<client_fd, owner, backlog, listening, m_observers, m_observers_index>>
  \/ /\ TakePiece
     /\ m_overflows' = [m_overflows EXCEPT ![client_index] = Conn]
     /\ Skip
     /\ UNCHANGED <<m_run, client_fd, owner, backlog, listening, m_observers,
                    m_observers_index, hooks>>
  \/ /\ ReadFails \/ ReadsEnd
     /\ Close
     /\ UNCHANGED m_run

\* The body is not waited for: if poll finds none of it, the client is dropped.
ReadBody ==
  /\ main = "body"
  /\ \/ Readable(Fd) /\ BodyHandler
     \/ ~Readable(Fd) /\ Close /\ UNCHANGED <<peer, unread, m_run>>
  /\ UNCHANGED <<m_connection_queue, m_disconnection, listener, accepted>>

ReadOverflow ==
  /\ Ready /\ m_overflows[client_index] # None
  /\ BodyHandler
  /\ UNCHANGED <<m_connection_queue, m_disconnection, listener, accepted>>

\* The entry of the last client fills the hole.
DropLast(s) == SubSeq(s, 1, Len(s) - 1)
FillHole(s, hole) == DropLast([s EXCEPT ![hole] = s[Len(s)]])
NotReindexed(index, f, hole) == [g \in DOMAIN index \ {f} |-> index[g]]
ReindexedFromZero(index, f, hole) ==
  LET last_fd == m_observers[Len(m_observers)].fd
  IN  [g \in DOMAIN index \ {f} |->
         IF g = last_fd /\ hole # Len(m_observers) THEN hole - 1 ELSE index[g]]
Reindexed(index, f, hole) ==
  LET last_fd == m_observers[Len(m_observers)].fd
  IN  [g \in DOMAIN index \ {f} |->
         IF g = last_fd /\ hole # Len(m_observers) THEN hole ELSE index[g]]

RemoveClientNotOverflow(f) ==
  LET hole == m_observers_index[f] IN
  /\ m_overflows' = DropLast(m_overflows)
  /\ m_observers' = FillHole(m_observers, hole)
  /\ m_observers_index' = Reindexed(m_observers_index, f, hole)
RemoveClient(f) ==
  LET hole == m_observers_index[f] IN
  /\ m_overflows' = FillHole(m_overflows, hole)
  /\ m_observers' = FillHole(m_observers, hole)
  /\ m_observers_index' = Reindexed(m_observers_index, f, hole)

OnDisconnectNot(f) == UNCHANGED hooks
OnDisconnect(f) ==
  /\ session' = [g \in DOMAIN session \ {f} |-> session[g]]
  /\ ended' = ended \cup {session[f]}
  /\ called' = <<"OnDisconnect", f, session[f]>>

DropClosingAgain ==
  /\ main = "drop" /\ main' = "scan"
  /\ OnDisconnect(client_fd)
  /\ RemoveClient(client_fd)
  /\ owner' = [owner EXCEPT ![client_fd] = None]
  /\ client_fd' = None
  /\ UNCHANGED <<peer, unread, backlog, listening, m_run, m_connection_queue,
                 m_disconnection, client_index, listener, accepted>>
\* The scan goes on at the same index, where the last client may have moved.
Drop ==
  /\ main = "drop" /\ main' = "scan"
  /\ OnDisconnect(client_fd)
  /\ RemoveClient(client_fd)
  /\ client_fd' = None
  /\ UNCHANGED <<kernel, m_run, m_connection_queue, m_disconnection,
                 client_index, listener, accepted>>

-----------------------------------------------------------------------------
\* Main thread: the end of Start.

Shutdown ==
  /\ main = "shutdown" /\ main' = "join"
  /\ listening' = FALSE
  /\ UNCHANGED <<peer, unread, backlog, owner, m_run, m_connection_queue,
                 m_disconnection, table, client_index, client_fd, listener,
                 accepted, hooks>>

Join ==
  /\ main = "join" /\ listener = "exit" /\ main' = "done"
  /\ owner' = [f \in Fds |->
                 IF \E k \in DOMAIN m_observers : m_observers[k].fd = f
                   THEN None ELSE owner[f]]
  /\ m_observers' = <<>>
  /\ UNCHANGED <<peer, unread, backlog, listening, m_run, m_connection_queue,
                 m_disconnection, m_observers_index, m_overflows, client_index,
                 client_fd, listener, accepted, hooks>>

Finished == main = "done" /\ UNCHANGED vars

-----------------------------------------------------------------------------
Init ==
  /\ peer = [c \in Conns |-> "idle"] /\ unread = [c \in Conns |-> 0]
  /\ backlog = <<>> /\ owner = [f \in Fds |-> None] /\ listening = TRUE
  /\ m_run = TRUE /\ m_connection_queue = <<>> /\ m_disconnection = {}
  /\ m_observers = <<>> /\ m_observers_index = <<>> /\ m_overflows = <<>>
  /\ main = "console" /\ client_index = 0 /\ client_fd = None
  /\ listener = "accept" /\ accepted = None
  /\ session = <<>> /\ ended = {} /\ called = <<>>

Peers == \E c \in Conns : Connect(c) \/ SendPiece(c) \/ Leave(c)
Listen == Accept \/ Push
Start == Console \/ Lock \/ Drain \/ Poll \/ ScanDone \/ SkipIdle \/ CloseAsked
         \/ ReadHeader \/ ReadBody \/ ReadOverflow \/ Drop \/ Shutdown \/ Join

Next == Peers \/ Listen \/ Start \/ Finished

Spec == Init /\ [][Next]_vars

\* Each thread runs on when it is not blocked; peers owe nothing.
FairSpec == Spec /\ WF_vars(Accept) /\ WF_vars(Push) /\ WF_vars(Start)

-----------------------------------------------------------------------------
\* Invariants.

Tabled == {m_observers[k].fd : k \in DOMAIN m_observers}
Queued == {m_connection_queue[k] : k \in DOMAIN m_connection_queue}

\* m_observers, m_observers_index and m_overflows describe the same clients
\* under the same indices, whatever removals swapped entries during a scan.
TableConsistent ==
  main # "done" =>
    /\ Len(m_overflows) = Len(m_observers)
    /\ DOMAIN m_observers_index = Tabled
    /\ \A k \in DOMAIN m_observers : m_observers_index[m_observers[k].fd] = k

\* The hooks know the clients the table has, and what is sent to a descriptor
\* of the table reaches the connection OnConnect was called for, though accept
\* may hand the descriptor of a closed client out before it is removed.
SessionsReachTheirPeer ==
  main # "done" =>
    /\ DOMAIN session = Tabled
    /\ \A f \in DOMAIN session \ {client_fd} : owner[f] = session[f]

\* Half a body stays with the client it came from when entries move.
OverflowStaysWithClient ==
  \A k \in DOMAIN m_observers :
    m_overflows[k] \in {None, session[m_observers[k].fd]}

\* A descriptor on its way from accept to the table is open, is there once, and
\* is no client's, unless that client is closed and about to be removed; in the
\* queue's critical section it is no client's at all.
QueuedOnce ==
  /\ \A j, k \in DOMAIN m_connection_queue :
       m_connection_queue[j] = m_connection_queue[k] => j = k
  /\ accepted \notin Queued
  /\ \A f \in (Queued \cup {accepted}) \ {None} :
       owner[f] # None /\ (f \in DOMAIN session => f = client_fd)
  /\ main = "drain" => client_fd = None

\* A session is served by the connection it was opened for, once per connection:
\* what any hook sees is an alternation of OnConnect, OnRequest, OnDisconnect.
HC == INSTANCE HookContract
ContractKept == HC!Spec

-----------------------------------------------------------------------------
\* Liveness, while the server has a descriptor for every connection.

Admitted(c) == c \in ended \/ \E f \in DOMAIN session : session[f] = c

\* A connection the listener has put into m_connection_queue reaches OnConnect,
\* however many wait there, unless the server is stopped.  Nothing is promised
\* to a descriptor still waiting for the mutex: the main thread takes the mutex
\* in every iteration and std::mutex queues nobody (server.cpp:122-132).
QueuedAreAdmitted ==
  \A c \in Conns :
    (\E f \in Queued : owner[f] = c) ~> Admitted(c) \/ ~m_run

\* A client that left is noticed, half-read body or not, and its record erased.
LeaversAreDropped ==
  \A c \in Conns :
    Admitted(c) /\ peer[c] \in {"closed", "reset"} ~> c \in ended \/ ~m_run

\* DISCONNECT on the console ends the session it names.
DisconnectObeyed ==
  \A f \in Fds : f \in m_disconnection ~> f \notin DOMAIN session \/ ~m_run

\* After Stop the loop ends, the listener is woken and joined, Start returns.
StopEndsStart == ~m_run ~> main = "done"

-----------------------------------------------------------------------------
\* What the README says and the code does not do (see the violation runs).

\* README.md:28-30: a client that connects is accepted and takes part; it is not
\* closed on arrival because its predecessor on the descriptor was disconnected.
NewcomersNotCondemned ==
  [][\A f \in DOMAIN session' \ DOMAIN session : f \notin m_disconnection]_vars
=============================================================================
