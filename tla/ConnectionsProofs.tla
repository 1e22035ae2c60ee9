------------------------- MODULE ConnectionsProofs -------------------------
(***************************************************************************)
(* Theorems about Connections, for any connections, descriptors and bound  *)
(* on unread pieces.                                                       *)
(***************************************************************************)
EXTENDS Connections, SequenceTheorems, TLAPS

\* What the two program counters say of the variables the steps between them
\* share, and that the listener is over when Start returns.
Places ==
  /\ client_fd # None <=> main = "drop"
  /\ client_fd # None => client_fd \in Tabled
  /\ main \in {"scan", "drop"} => client_index # 0
  /\ main = "body" => client_index \in DOMAIN m_observers
  /\ accepted # None <=> listener = "push"
  /\ main = "done" => listener = "exit"

\* A connection is in one place: not yet there, in the backlog once, open on
\* one descriptor, being closed, or over.
Backlog == {backlog[k] : k \in DOMAIN backlog}
Owned == {owner[f] : f \in Fds} \ {None}
OnePlace ==
  /\ \A j, k \in DOMAIN backlog : backlog[j] = backlog[k] => j = k
  /\ \A f, g \in Fds : owner[f] # None /\ owner[f] = owner[g] => f = g
  /\ \A c \in Backlog \cup Owned \cup ended : peer[c] # "idle"
  /\ Backlog \cap (Owned \cup ended) = {}
  /\ Owned \cap ended = {}
  /\ main # "done" =>
       \A f \in DOMAIN session :
         /\ session[f] \notin Backlog \cup ended
         /\ peer[session[f]] # "idle"
         /\ f = client_fd => session[f] \notin Owned
         /\ \A g \in DOMAIN session : session[f] = session[g] => f = g

IInv ==
  /\ TypeOK
  /\ Places
  /\ TableConsistent
  /\ SessionsReachTheirPeer
  /\ OverflowStaysWithClient
  /\ QueuedOnce
  /\ OnePlace

-----------------------------------------------------------------------------
\* Sequences.

LEMMA FillHoleFacts ==
  ASSUME NEW S, NEW s \in Seq(S), NEW hole \in 1..Len(s)
  PROVE  /\ FillHole(s, hole) \in Seq(S)
         /\ Len(FillHole(s, hole)) = Len(s) - 1
         /\ \A k \in 1..(Len(s) - 1) :
              FillHole(s, hole)[k] = IF k = hole THEN s[Len(s)] ELSE s[k]
<1> DEFINE t == [s EXCEPT ![hole] = s[Len(s)]]
<1>1. Len(s) \in Nat /\ Len(s) >= 1 /\ DOMAIN s = 1..Len(s)
  BY LenProperties
<1>2. s[Len(s)] \in S
  BY <1>1, ElementOfSeq
<1>3. /\ t \in Seq(S)
      /\ Len(t) = Len(s)
      /\ \A k \in 1..Len(s) : t[k] = IF k = hole THEN s[Len(s)] ELSE s[k]
  BY <1>1, <1>2, ExceptSeq
<1> HIDE DEF t
<1>4. \A k \in 1..(Len(t) - 1) : t[k] \in S
  BY <1>1, <1>3, ElementOfSeq
<1>5. /\ SubSeq(t, 1, Len(t) - 1) \in Seq(S)
      /\ Len(SubSeq(t, 1, Len(t) - 1)) = IF 1 <= Len(t) - 1 THEN Len(t) - 1 - 1 + 1 ELSE 0
      /\ \A k \in 1..(Len(t) - 1 - 1 + 1) : SubSeq(t, 1, Len(t) - 1)[k] = t[1 + k - 1]
  <2>1. 1 \in Int /\ Len(t) - 1 \in Int
    BY <1>1, <1>3
  <2>2. QED
    BY <2>1, <1>4, SubSeqProperties
<1>6. FillHole(s, hole) = SubSeq(t, 1, Len(t) - 1)
  BY DEF FillHole, DropLast, t
<1>7. QED
  BY <1>1, <1>3, <1>5, <1>6

LEMMA TailFacts ==
  ASSUME NEW S, NEW s \in Seq(S), s # <<>>
  PROVE  /\ Head(s) \in S /\ Head(s) = s[1] /\ 1 \in DOMAIN s
         /\ Tail(s) \in Seq(S)
         /\ \A k \in DOMAIN Tail(s) : k + 1 \in DOMAIN s /\ Tail(s)[k] = s[k + 1]
<1>1. Len(s) \in Nat \ {0} /\ DOMAIN s = 1..Len(s)
  BY EmptySeq, LenProperties
<1>2. /\ Head(s) \in S /\ Tail(s) \in Seq(S) /\ Len(Tail(s)) = Len(s) - 1
      /\ \A k \in 1..Len(Tail(s)) : Tail(s)[k] = s[k + 1]
  BY HeadTailProperties
<1>3. DOMAIN Tail(s) = 1..(Len(s) - 1)
  BY <1>2, LenProperties
<1>4. Head(s) = s[1]
  OBVIOUS
<1>5. QED
  BY <1>1, <1>2, <1>3, <1>4

LEMMA AppendFacts ==
  ASSUME NEW S, NEW s \in Seq(S), NEW e \in S
  PROVE  /\ Append(s, e) \in Seq(S)
         /\ Len(Append(s, e)) = Len(s) + 1
         /\ DOMAIN Append(s, e) = 1..(Len(s) + 1)
         /\ DOMAIN s = 1..Len(s) /\ Len(s) \in Nat
         /\ \A k \in 1..(Len(s) + 1) :
              Append(s, e)[k] = IF k = Len(s) + 1 THEN e ELSE s[k]
<1>1. /\ Append(s, e) \in Seq(S) /\ Len(Append(s, e)) = Len(s) + 1
      /\ \A k \in 1..Len(s) : Append(s, e)[k] = s[k]
      /\ Append(s, e)[Len(s) + 1] = e
  BY AppendProperties
<1>2. DOMAIN s = 1..Len(s) /\ Len(s) \in Nat
  BY LenProperties
<1>3. DOMAIN Append(s, e) = 1..(Len(s) + 1)
  BY <1>1, LenProperties
<1>4. QED
  BY <1>1, <1>2, <1>3

-----------------------------------------------------------------------------
\* Peers.

LEMMA PeersInv ==
  ASSUME IInv, NEW c \in Conns, Connect(c) \/ SendPiece(c) \/ Leave(c)
  PROVE  IInv'
<1> USE ConnectionsAssumption
<1>1. UNCHANGED <<owner, m_run, m_connection_queue, m_disconnection, table, main,
                  client_index, client_fd, listener, accepted, hooks>>
  BY DEF Connect, SendPiece, Leave, kernel
<1>2. TypeOK'
  <2>1. peer' \in [Conns -> {"idle", "open", "closed", "reset"}]
    BY DEF IInv, TypeOK, Connect, SendPiece, Leave
  <2>2. unread' \in [Conns -> 0..MaxUnread]
    <3>1. unread \in [Conns -> 0..MaxUnread] /\ MaxUnread \in Nat
      BY DEF IInv, TypeOK, ConnectionsAssumption
    <3>2. CASE SendPiece(c)
      BY <3>1, <3>2 DEF SendPiece
    <3>3. CASE Connect(c) \/ Leave(c)
      BY <3>1, <3>3 DEF Connect, Leave
    <3>4. QED
      BY <3>2, <3>3
  <2>3. backlog' \in Seq(Conns)
    <3>1. backlog \in Seq(Conns)
      BY DEF IInv, TypeOK
    <3>2. CASE Connect(c)
      BY <3>1, <3>2, AppendProperties DEF Connect
    <3>3. CASE SendPiece(c) \/ Leave(c)
      BY <3>1, <3>3 DEF SendPiece, Leave
    <3>4. QED
      BY <3>2, <3>3
  <2>4. listening' \in BOOLEAN
    BY DEF IInv, TypeOK, Connect, SendPiece, Leave
  <2>5. QED
    BY <1>1, <2>1, <2>2, <2>3, <2>4 DEF IInv, TypeOK, table, hooks
<1>3. Places' /\ TableConsistent' /\ SessionsReachTheirPeer'
  BY <1>1 DEF IInv, Places, TableConsistent, SessionsReachTheirPeer, Tabled, table, hooks
<1>4. OverflowStaysWithClient' /\ QueuedOnce'
  BY <1>1 DEF IInv, OverflowStaysWithClient, QueuedOnce, Queued, table, hooks
<1>5. OnePlace'
  <2>1. Owned' = Owned /\ (Owned \cup ended) \subseteq Conns
    BY <1>1 DEF Owned, IInv, TypeOK
  <2>2. main # "done" => \A f \in DOMAIN session : session[f] \in Conns
    BY DEF IInv, TypeOK
  <2>3. CASE Connect(c)
    <3>1. c \notin Backlog \cup Owned \cup ended
      BY <2>3 DEF Connect, IInv, OnePlace
    <3>2. /\ DOMAIN backlog = 1..Len(backlog) /\ Len(backlog) \in Nat
          /\ DOMAIN backlog' = 1..(Len(backlog) + 1)
          /\ \A k \in 1..(Len(backlog) + 1) :
               backlog'[k] = IF k = Len(backlog) + 1 THEN c ELSE backlog[k]
      BY <2>3, AppendFacts DEF Connect, IInv, TypeOK
    <3>3. Backlog' = Backlog \cup {c}
      BY <3>2 DEF Backlog
    <3>4. \A j, k \in DOMAIN backlog' : backlog'[j] = backlog'[k] => j = k
      BY <3>1, <3>2 DEF IInv, OnePlace, Backlog
    <3>5. \A d \in Conns : peer'[d] = "idle" => peer[d] = "idle" /\ d # c
      BY <2>3 DEF Connect, IInv, TypeOK
    <3>6. Backlog \subseteq Conns
      BY DEF Backlog, IInv, TypeOK
    <3>7. main # "done" => \A f \in DOMAIN session : session[f] # c
      BY <2>3 DEF Connect, IInv, OnePlace
    <3>8. QED
      BY <1>1, <2>1, <2>2, <3>1, <3>3, <3>4, <3>5, <3>6, <3>7 DEF IInv, OnePlace, hooks
  <2>4. CASE SendPiece(c) \/ Leave(c)
    <3>1. backlog' = backlog /\ Backlog' = Backlog /\ Backlog \subseteq Conns
      BY <2>4 DEF SendPiece, Leave, Backlog, IInv, TypeOK
    <3>2. \A d \in Conns : peer'[d] = "idle" => peer[d] = "idle"
      BY <2>4 DEF SendPiece, Leave, IInv, TypeOK
    <3>3. QED
      BY <1>1, <2>1, <2>2, <3>1, <3>2 DEF IInv, OnePlace, hooks
  <2>5. QED
    BY <2>3, <2>4
<1>6. QED
  BY <1>2, <1>3, <1>4, <1>5 DEF IInv

-----------------------------------------------------------------------------
\* Listener thread.

LEMMA AcceptInv ==
  ASSUME IInv, Accept
  PROVE  IInv'
<1> USE ConnectionsAssumption
<1>1. UNCHANGED <<peer, unread, listening, m_run, m_connection_queue,
                  m_disconnection, table, main, client_index, client_fd, hooks>>
  BY DEF Accept
<1>2. CASE /\ listener' = "exit" /\ listener = "accept"
           /\ UNCHANGED <<owner, backlog, accepted>>
  <2>1. TypeOK'
    BY <1>1, <1>2 DEF IInv, TypeOK, table, hooks
  <2>2. Places' /\ TableConsistent' /\ SessionsReachTheirPeer'
    BY <1>1, <1>2 DEF IInv, Places, TableConsistent, SessionsReachTheirPeer, Tabled, table, hooks
  <2>3. OverflowStaysWithClient' /\ QueuedOnce' /\ OnePlace'
    BY <1>1, <1>2 DEF IInv, OverflowStaysWithClient, QueuedOnce, Queued,
                      OnePlace, Backlog, Owned, table, hooks
  <2>4. QED
    BY <2>1, <2>2, <2>3 DEF IInv
<1>3. ASSUME NEW f \in FreeFds, backlog # <<>>, listener = "accept",
             owner' = [owner EXCEPT ![f] = Head(backlog)],
             backlog' = Tail(backlog), accepted' = f, listener' = "push"
      PROVE  IInv'
  <2> DEFINE c == Head(backlog)
  <2>1. /\ c \in Conns /\ c = backlog[1] /\ 1 \in DOMAIN backlog
        /\ backlog' \in Seq(Conns)
        /\ \A k \in DOMAIN backlog' : k + 1 \in DOMAIN backlog /\ backlog'[k] = backlog[k + 1]
    BY <1>3, TailFacts DEF IInv, TypeOK
  <2> HIDE DEF c
  <2>2. /\ f \in Fds /\ owner[f] = None /\ c # None /\ f # None
        /\ owner' \in [Fds -> Conns \cup {None}]
        /\ \A g \in Fds : owner'[g] = IF g = f THEN c ELSE owner[g]
    BY <1>3, <2>1 DEF FreeFds, IInv, TypeOK, ConnectionsAssumption, c
  <2>3. accepted = None
    BY <1>3 DEF IInv, Places
  <2>4. f \notin Queued /\ Queued' = Queued
    BY <1>1, <2>2 DEF IInv, QueuedOnce, Queued
  <2>5. main # "done" => (f \in DOMAIN session => f = client_fd)
    BY <2>2 DEF IInv, SessionsReachTheirPeer, TypeOK, ConnectionsAssumption
  <2>6. main # "done"
    BY <1>3 DEF IInv, Places
  <2>7. TypeOK'
    BY <1>1, <1>3, <2>1, <2>2 DEF IInv, TypeOK, table, hooks
  <2>8. Places' /\ TableConsistent' /\ OverflowStaysWithClient'
    BY <1>1, <1>3, <2>2, <2>6 DEF IInv, Places, TableConsistent, OverflowStaysWithClient,
                                  Tabled, table, hooks
  <2>9. SessionsReachTheirPeer'
    BY <1>1, <2>2, <2>5, <2>6 DEF IInv, SessionsReachTheirPeer, TypeOK, Tabled, table, hooks
  <2>10. QueuedOnce'
    <3>1. \A g \in Queued : g \in Fds
      BY DEF Queued, IInv, TypeOK
    <3>2. QED
      BY <1>1, <1>3, <2>2, <2>3, <2>4, <2>5, <2>6, <3>1 DEF IInv, QueuedOnce, hooks
  <2>11. OnePlace'
    <3>1. \A j, k \in DOMAIN backlog' : backlog'[j] = backlog'[k] => j = k
      <4>1. SUFFICES ASSUME NEW j \in DOMAIN backlog', NEW k \in DOMAIN backlog',
                            backlog'[j] = backlog'[k]
                     PROVE  j = k
        OBVIOUS
      <4>2. j + 1 = k + 1
        BY <2>1, <4>1 DEF IInv, OnePlace
      <4>3. j \in Int /\ k \in Int
        BY <2>1, LenProperties
      <4>4. QED
        BY <4>2, <4>3
    <3>2. \A k \in DOMAIN backlog' : k + 1 # 1
      BY <2>1, LenProperties
    <3>3. Backlog' = {backlog'[k] : k \in DOMAIN backlog'}
      BY DEF Backlog
    <3>4. c \notin Backlog'
      BY <2>1, <3>2, <3>3 DEF IInv, OnePlace
    <3>5. Backlog' \subseteq Backlog /\ c \in Backlog
      BY <2>1, <3>3 DEF Backlog
    <3>6. Owned' = Owned \cup {c} /\ c \notin Owned
      <4>1. c \notin Owned
        BY <3>5 DEF IInv, OnePlace
      <4>2. Owned' = {owner'[g] : g \in Fds} \ {None}
        BY DEF Owned
      <4>3. Owned' \subseteq Owned \cup {c}
        BY <2>2, <4>2 DEF Owned
      <4>4. c \in Owned'
        BY <2>2, <4>2
      <4>5. Owned \subseteq Owned'
        BY <2>2, <4>2 DEF Owned
      <4>6. QED
        BY <4>1, <4>3, <4>4, <4>5
    <3>7. \A g, h \in Fds : owner'[g] # None /\ owner'[g] = owner'[h] => g = h
      <4>1. \A g \in Fds : owner[g] # c
        BY <2>2, <3>6 DEF Owned
      <4>2. QED
        BY <2>2, <4>1 DEF IInv, OnePlace
    <3>8. c \notin ended /\ (main # "done" => \A g \in DOMAIN session : session[g] # c)
      BY <3>5 DEF IInv, OnePlace
    <3>9. QED
      BY <1>1, <3>1, <3>4, <3>5, <3>6, <3>7, <3>8 DEF IInv, OnePlace, hooks
  <2>12. QED
    BY <2>7, <2>8, <2>9, <2>10, <2>11 DEF IInv
<1>4. QED
  BY <1>2, <1>3 DEF Accept

LEMMA PushInv ==
  ASSUME IInv, Push
  PROVE  IInv'
<1> USE ConnectionsAssumption
<1>1. /\ UNCHANGED <<kernel, m_run, m_disconnection, table, main, client_index,
                     client_fd, hooks>>
      /\ listener = "push" /\ accepted' = None /\ listener' \in {"accept", "exit"}
      /\ main # "drain"
      /\ m_connection_queue' = Append(m_connection_queue, accepted)
  BY DEF Push, MutexHeldByMain
<1>2. accepted \in Fds /\ accepted # None /\ main # "done"
  BY <1>1 DEF IInv, TypeOK, Places
<1>3. /\ m_connection_queue' \in Seq(Fds)
      /\ DOMAIN m_connection_queue = 1..Len(m_connection_queue)
      /\ Len(m_connection_queue) \in Nat
      /\ DOMAIN m_connection_queue' = 1..(Len(m_connection_queue) + 1)
      /\ \A k \in 1..(Len(m_connection_queue) + 1) :
           m_connection_queue'[k] = IF k = Len(m_connection_queue) + 1 THEN accepted
                                    ELSE m_connection_queue[k]
  BY <1>1, <1>2, AppendFacts DEF IInv, TypeOK
<1>4. Queued' = Queued \cup {accepted}
  BY <1>3 DEF Queued
<1>5. TypeOK'
  BY <1>1, <1>3 DEF IInv, TypeOK, kernel, table, hooks
<1>6. Places' /\ TableConsistent' /\ SessionsReachTheirPeer' /\ OverflowStaysWithClient'
  BY <1>1, <1>2 DEF IInv, Places, TableConsistent, SessionsReachTheirPeer,
                    OverflowStaysWithClient, Tabled, kernel, table, hooks
<1>7. QueuedOnce'
  <2>1. \A j, k \in DOMAIN m_connection_queue' :
          m_connection_queue'[j] = m_connection_queue'[k] => j = k
    BY <1>3 DEF IInv, QueuedOnce, Queued
  <2>2. None \notin Queued'
    <3>1. \A k \in 1..Len(m_connection_queue) : m_connection_queue[k] \in Fds
      BY ElementOfSeq DEF IInv, TypeOK
    <3>2. QED
      BY <1>2, <1>3, <1>4, <3>1 DEF Queued, ConnectionsAssumption
  <2>3. QED
    BY <1>1, <1>2, <1>4, <2>1, <2>2 DEF IInv, QueuedOnce, kernel, hooks
<1>8. OnePlace'
  BY <1>1 DEF IInv, OnePlace, Backlog, Owned, kernel, hooks
<1>9. QED
  BY <1>5, <1>6, <1>7, <1>8 DEF IInv

-----------------------------------------------------------------------------
\* Main thread: console, connection queue.

LEMMA ConsoleInv ==
  ASSUME IInv, Console \/ Lock
  PROVE  IInv'
<1>1. /\ UNCHANGED <<kernel, m_connection_queue, table, client_index, client_fd,
                     listener, accepted, hooks>>
      /\ main \in {"console", "lock"} /\ main' \in {"lock", "drain"}
      /\ m_run' \in {m_run, FALSE}
      /\ m_disconnection \subseteq Fds => m_disconnection' \subseteq Fds
  BY DEF Console, Lock
<1>2. TypeOK'
  BY <1>1 DEF IInv, TypeOK, kernel, table, hooks
<1>3. Places' /\ TableConsistent' /\ SessionsReachTheirPeer' /\ OverflowStaysWithClient'
  BY <1>1 DEF IInv, Places, TableConsistent, SessionsReachTheirPeer,
              OverflowStaysWithClient, Tabled, kernel, table, hooks
<1>4. QueuedOnce' /\ OnePlace'
  BY <1>1 DEF IInv, Places, QueuedOnce, Queued, OnePlace, Backlog, Owned, kernel, hooks
<1>5. QED
  BY <1>2, <1>3, <1>4 DEF IInv

\* The table, with f at its end.
LEMMA AddClientFacts ==
  ASSUME IInv, main # "done", NEW f \in Fds, f \notin Tabled, AddClient(f)
  PROVE  /\ m_observers' \in Seq([fd : Fds, ready : BOOLEAN])
         /\ m_overflows' \in Seq(Conns \cup {None})
         /\ Len(m_observers) \in Nat
         /\ DOMAIN m_observers = 1..Len(m_observers)
         /\ DOMAIN m_observers' = 1..(Len(m_observers) + 1)
         /\ Len(m_observers') = Len(m_observers) + 1
         /\ Len(m_overflows') = Len(m_observers) + 1
         /\ \A k \in 1..(Len(m_observers) + 1) :
              IF k = Len(m_observers) + 1
                THEN m_observers'[k].fd = f /\ m_overflows'[k] = None
                ELSE m_observers'[k] = m_observers[k] /\ m_overflows'[k] = m_overflows[k]
         /\ Tabled' = Tabled \cup {f}
         /\ DOMAIN m_observers_index' = Tabled'
         /\ \A g \in Tabled' : m_observers_index'[g] =
              IF g = f THEN Len(m_observers) + 1 ELSE m_observers_index[g]
<1> DEFINE client == [fd |-> f, ready |-> FALSE]
<1>1. client \in [fd : Fds, ready : BOOLEAN] /\ client.fd = f
  OBVIOUS
<1>2. m_observers \in Seq([fd : Fds, ready : BOOLEAN]) /\ m_overflows \in Seq(Conns \cup {None})
  BY DEF IInv, TypeOK
<1>3. m_observers' = Append(m_observers, client) /\ m_overflows' = Append(m_overflows, None)
  BY DEF AddClient
<1> HIDE DEF client
<1>4. /\ m_observers' \in Seq([fd : Fds, ready : BOOLEAN])
      /\ Len(m_observers') = Len(m_observers) + 1
      /\ DOMAIN m_observers' = 1..(Len(m_observers) + 1)
      /\ DOMAIN m_observers = 1..Len(m_observers) /\ Len(m_observers) \in Nat
      /\ \A k \in 1..(Len(m_observers) + 1) :
           m_observers'[k] = IF k = Len(m_observers) + 1 THEN client ELSE m_observers[k]
  BY <1>1, <1>2, <1>3, AppendFacts
<1>5. /\ m_overflows' \in Seq(Conns \cup {None})
      /\ Len(m_overflows') = Len(m_overflows) + 1
      /\ \A k \in 1..(Len(m_overflows) + 1) :
           m_overflows'[k] = IF k = Len(m_overflows) + 1 THEN None ELSE m_overflows[k]
  BY <1>2, <1>3, AppendFacts
<1>6. Len(m_overflows) = Len(m_observers) /\ DOMAIN m_observers_index = Tabled
  BY DEF IInv, TableConsistent
<1>7. Tabled' = Tabled \cup {f}
  <2>1. Tabled' = {m_observers'[k].fd : k \in 1..(Len(m_observers) + 1)}
    BY <1>4 DEF Tabled
  <2>2. Tabled = {m_observers[k].fd : k \in 1..Len(m_observers)}
    BY <1>4 DEF Tabled
  <2>3. Tabled' \subseteq Tabled \cup {f}
    BY <1>1, <1>4, <2>1, <2>2
  <2>4. f \in Tabled'
    BY <1>1, <1>4, <2>1
  <2>5. Tabled \subseteq Tabled'
    BY <1>4, <2>1, <2>2
  <2>6. QED
    BY <2>3, <2>4, <2>5
<1>8. /\ DOMAIN m_observers_index' = Tabled'
      /\ \A g \in Tabled' : m_observers_index'[g] =
           IF g = f THEN Len(m_observers) + 1 ELSE m_observers_index[g]
  BY <1>6, <1>7 DEF AddClient, Emplace
<1>9. QED
  BY <1>1, <1>4, <1>5, <1>6, <1>7, <1>8

LEMMA DrainInv ==
  ASSUME IInv, Drain
  PROVE  IInv'
<1> USE ConnectionsAssumption
<1>1. /\ UNCHANGED <<kernel, m_run, m_disconnection, client_index, client_fd, listener, accepted>>
      /\ main = "drain"
  BY DEF Drain
<1>2. CASE /\ m_connection_queue = <<>> /\ main' = "poll"
           /\ UNCHANGED <<m_connection_queue, table, hooks>>
  <2>1. TypeOK'
    BY <1>1, <1>2 DEF IInv, TypeOK, kernel, table, hooks
  <2>2. Places' /\ TableConsistent' /\ SessionsReachTheirPeer' /\ OverflowStaysWithClient'
    BY <1>1, <1>2 DEF IInv, Places, TableConsistent, SessionsReachTheirPeer,
                      OverflowStaysWithClient, Tabled, kernel, table, hooks
  <2>3. QueuedOnce' /\ OnePlace'
    BY <1>1, <1>2 DEF IInv, QueuedOnce, Queued, OnePlace, Backlog, Owned, kernel, hooks
  <2>4. QED
    BY <2>1, <2>2, <2>3 DEF IInv
<1>3. ASSUME m_connection_queue # <<>>,
             m_connection_queue' = Tail(m_connection_queue),
             AddClient(Head(m_connection_queue)), OnConnect(Head(m_connection_queue)),
             UNCHANGED main
      PROVE  IInv'
  <2> DEFINE f == Head(m_connection_queue)
  <2>1. /\ f \in Fds /\ f = m_connection_queue[1] /\ 1 \in DOMAIN m_connection_queue
        /\ m_connection_queue' \in Seq(Fds)
        /\ \A k \in DOMAIN m_connection_queue' :
             /\ k + 1 \in DOMAIN m_connection_queue
             /\ m_connection_queue'[k] = m_connection_queue[k + 1]
    BY <1>3, TailFacts DEF IInv, TypeOK
  <2>2. AddClient(f) /\ OnConnect(f)
    BY <1>3
  <2> HIDE DEF f
  <2>3. f \in Queued /\ f # None
    BY <2>1 DEF Queued, ConnectionsAssumption
  <2>4. client_fd = None /\ f \notin DOMAIN session /\ owner[f] # None /\ owner[f] \in Conns
    BY <1>1, <2>1, <2>3 DEF IInv, QueuedOnce, TypeOK
  <2>5. DOMAIN session = Tabled /\ \A g \in DOMAIN session : owner[g] = session[g] /\ g \in Fds
    BY <1>1, <2>4 DEF IInv, SessionsReachTheirPeer, TypeOK, ConnectionsAssumption
  <2>6. /\ m_observers' \in Seq([fd : Fds, ready : BOOLEAN])
        /\ m_overflows' \in Seq(Conns \cup {None})
        /\ Len(m_observers) \in Nat
        /\ DOMAIN m_observers = 1..Len(m_observers)
        /\ DOMAIN m_observers' = 1..(Len(m_observers) + 1)
        /\ Len(m_observers') = Len(m_observers) + 1
        /\ Len(m_overflows') = Len(m_observers) + 1
        /\ \A k \in 1..(Len(m_observers) + 1) :
             IF k = Len(m_observers) + 1
               THEN m_observers'[k].fd = f /\ m_overflows'[k] = None
               ELSE m_observers'[k] = m_observers[k] /\ m_overflows'[k] = m_overflows[k]
        /\ Tabled' = Tabled \cup {f}
        /\ DOMAIN m_observers_index' = Tabled'
        /\ \A g \in Tabled' : m_observers_index'[g] =
             IF g = f THEN Len(m_observers) + 1 ELSE m_observers_index[g]
    <3>1. main # "done" /\ f \notin Tabled
      BY <1>1, <2>4, <2>5
    <3>2. QED
      BY <2>1, <2>2, <3>1, AddClientFacts
  <2>7. /\ DOMAIN session' = DOMAIN session \cup {f}
        /\ \A g \in DOMAIN session' : session'[g] = IF g = f THEN owner[f] ELSE session[g]
        /\ ended' = ended
    BY <2>2, <2>4 DEF OnConnect, Emplace
  <2>8. \A k \in 1..Len(m_observers) : m_observers[k].fd \in Tabled /\ m_observers[k].fd # f
    BY <2>4, <2>5, <2>6 DEF Tabled
  <2>9. TypeOK'
    <3>1. DOMAIN session' \subseteq Fds /\ session' \in [DOMAIN session' -> Conns]
      <4>1. session' = [g \in DOMAIN session' |-> session'[g]]
        BY <2>2 DEF OnConnect, Emplace
      <4>2. QED
        BY <2>1, <2>4, <2>7, <4>1 DEF IInv, TypeOK
    <3>2. DOMAIN m_observers_index' \subseteq Fds
      BY <2>1, <2>5, <2>6
    <3>3. m_observers_index' \in [DOMAIN m_observers_index' -> Nat \ {0}]
      <4>1. m_observers_index' = [g \in DOMAIN m_observers_index' |-> m_observers_index'[g]]
        BY <2>2 DEF AddClient, Emplace
      <4>2. Tabled = DOMAIN m_observers_index
        BY <1>1 DEF IInv, TableConsistent
      <4>3. \A g \in DOMAIN m_observers_index' : m_observers_index'[g] \in Nat \ {0}
        BY <2>6, <4>2 DEF IInv, TypeOK
      <4>4. QED
        BY <4>1, <4>3
    <3>4. QED
      BY <1>1, <1>3, <2>1, <2>6, <2>7, <3>1, <3>2, <3>3 DEF IInv, TypeOK, kernel
  <2>10. Places'
    BY <1>1, <1>3, <2>4 DEF IInv, Places
  <2>11. TableConsistent'
    BY <1>1, <1>3, <2>6, <2>8 DEF IInv, TableConsistent
  <2>12. SessionsReachTheirPeer'
    BY <1>1, <2>4, <2>5, <2>6, <2>7 DEF SessionsReachTheirPeer, kernel
  <2>13. OverflowStaysWithClient'
    BY <2>5, <2>6, <2>7, <2>8 DEF IInv, OverflowStaysWithClient
  <2>14. QueuedOnce'
    <3>1. \A j, k \in DOMAIN m_connection_queue' :
            m_connection_queue'[j] = m_connection_queue'[k] => j = k
      <4>1. SUFFICES ASSUME NEW j \in DOMAIN m_connection_queue',
                            NEW k \in DOMAIN m_connection_queue',
                            m_connection_queue'[j] = m_connection_queue'[k]
                     PROVE  j = k
        OBVIOUS
      <4>2. j + 1 = k + 1
        BY <2>1, <4>1 DEF IInv, QueuedOnce
      <4>3. j \in Int /\ k \in Int
        BY <2>1, LenProperties
      <4>4. QED
        BY <4>2, <4>3
    <3>2. \A k \in DOMAIN m_connection_queue' : k + 1 # 1
      BY <2>1, LenProperties
    <3>3. Queued' = {m_connection_queue'[k] : k \in DOMAIN m_connection_queue'}
      BY DEF Queued
    <3>4. f \notin Queued'
      BY <2>1, <3>2, <3>3 DEF IInv, QueuedOnce
    <3>5. Queued' \subseteq Queued
      BY <2>1, <3>3 DEF Queued
    <3>6. accepted # f
      BY <2>3 DEF IInv, QueuedOnce
    <3>7. QED
      BY <1>1, <2>4, <2>7, <3>1, <3>4, <3>5, <3>6 DEF IInv, QueuedOnce, kernel
  <2>15. OnePlace'
    <3>1. Backlog' = Backlog /\ Owned' = Owned
      BY <1>1 DEF Backlog, Owned, kernel
    <3>2. owner[f] \in Owned
      BY <2>1, <2>4 DEF Owned
    <3>3. owner[f] \notin Backlog \cup ended /\ peer[owner[f]] # "idle"
      BY <3>2 DEF IInv, OnePlace
    <3>4. \A g \in DOMAIN session : session[g] # owner[f]
      <4>1. \A g \in Fds : owner[f] = owner[g] => f = g
        BY <2>1, <2>4 DEF IInv, OnePlace
      <4>2. QED
        BY <2>4, <2>5, <4>1
    <3>5. \A g \in DOMAIN session' :
            /\ session'[g] \notin Backlog' \cup ended'
            /\ peer'[session'[g]] # "idle"
            /\ g # client_fd'
            /\ \A h \in DOMAIN session' : session'[g] = session'[h] => g = h
      <4>1. peer' = peer /\ ended' = ended /\ client_fd' = None /\ None \notin DOMAIN session'
        BY <1>1, <2>1, <2>4, <2>5, <2>7 DEF kernel, ConnectionsAssumption
      <4>2. \A g \in DOMAIN session :
              /\ session[g] \notin Backlog \cup ended
              /\ peer[session[g]] # "idle"
              /\ \A h \in DOMAIN session : session[g] = session[h] => g = h
        BY <1>1 DEF IInv, OnePlace
      <4>3. QED
        BY <2>7, <3>1, <3>3, <3>4, <4>1, <4>2
    <3>6. QED
      BY <1>1, <2>7, <3>1, <3>5 DEF IInv, OnePlace, kernel
  <2>16. QED
    BY <2>9, <2>10, <2>11, <2>12, <2>13, <2>14, <2>15 DEF IInv
<1>4. QED
  BY <1>2, <1>3 DEF Drain

-----------------------------------------------------------------------------
\* Main thread: the scan.

\* The clients under the indices, the owners of their descriptors.
LEMMA ClientFacts ==
  ASSUME IInv, main \in {"scan", "body"}, client_index \in DOMAIN m_observers
  PROVE  /\ Fd \in Tabled /\ Fd \in Fds /\ Fd # None
         /\ client_fd = None
         /\ Fd \in DOMAIN session
         /\ Conn = session[Fd] /\ Conn \in Conns /\ Conn # None
         /\ \A g \in DOMAIN session : owner[g] = session[g]
<1>1. DOMAIN m_observers = 1..Len(m_observers)
  BY LenProperties DEF IInv, TypeOK
<1>2. m_observers[client_index] \in [fd : Fds, ready : BOOLEAN]
  BY <1>1, ElementOfSeq DEF IInv, TypeOK
<1>3. Fd \in Tabled /\ Fd \in Fds /\ Fd # None
  BY <1>2, ConnectionsAssumption DEF Fd, Tabled, ConnectionsAssumption
<1>4. client_fd = None /\ DOMAIN session = Tabled /\ DOMAIN session \subseteq Fds
  BY DEF IInv, Places, SessionsReachTheirPeer, TypeOK
<1>5. \A g \in DOMAIN session : owner[g] = session[g] /\ session[g] \in Conns
  BY <1>4, ConnectionsAssumption DEF IInv, SessionsReachTheirPeer, TypeOK, ConnectionsAssumption
<1>6. QED
  BY <1>3, <1>4, <1>5, ConnectionsAssumption DEF Conn, ConnectionsAssumption

LEMMA PollInv ==
  ASSUME IInv, Poll
  PROVE  IInv'
<1>1. /\ UNCHANGED <<kernel, m_run, m_connection_queue, m_disconnection,
                     m_observers_index, m_overflows, client_fd, listener, accepted, hooks>>
      /\ main = "poll" /\ main' = "scan" /\ client_index' = 1
  BY DEF Poll
<1>2. /\ m_observers \in Seq([fd : Fds, ready : BOOLEAN])
      /\ DOMAIN m_observers = 1..Len(m_observers) /\ Len(m_observers) \in Nat
  BY LenProperties DEF IInv, TypeOK
<1>3. \A k \in 1..Len(m_observers) : m_observers[k] \in [fd : Fds, ready : BOOLEAN]
  BY <1>2, ElementOfSeq
<1>4. \A f : Readable(f) \in BOOLEAN
  BY DEF Readable
<1>5. /\ DOMAIN m_observers' = 1..Len(m_observers)
      /\ \A k \in 1..Len(m_observers) :
           /\ m_observers'[k] \in [fd : Fds, ready : BOOLEAN]
           /\ m_observers'[k].fd = m_observers[k].fd
  BY <1>2, <1>3, <1>4 DEF Poll
<1>6. m_observers' \in Seq([fd : Fds, ready : BOOLEAN]) /\ Len(m_observers') = Len(m_observers)
  <2>1. m_observers' \in [1..Len(m_observers) -> [fd : Fds, ready : BOOLEAN]]
    BY <1>2, <1>5 DEF Poll
  <2>2. m_observers' \in Seq([fd : Fds, ready : BOOLEAN])
    BY <1>2, <2>1, SeqDef
  <2>3. QED
    BY <1>2, <1>5, <2>2, LenProperties
<1>7. Tabled' = Tabled
  BY <1>2, <1>5 DEF Tabled
<1>8. TypeOK'
  BY <1>1, <1>6 DEF IInv, TypeOK, kernel, hooks
<1>9. Places' /\ TableConsistent' /\ SessionsReachTheirPeer' /\ OverflowStaysWithClient'
  BY <1>1, <1>2, <1>5, <1>6, <1>7 DEF IInv, Places, TableConsistent, SessionsReachTheirPeer,
                                  OverflowStaysWithClient, kernel, hooks
<1>10. QueuedOnce' /\ OnePlace'
  BY <1>1 DEF IInv, QueuedOnce, Queued, OnePlace, Backlog, Owned, kernel, hooks
<1>11. QED
  BY <1>8, <1>9, <1>10 DEF IInv

\* A step of the scan that leaves the table and the owners alone, except for
\* what a read does to its own entry of m_overflows.
LEMMA ScanStepInv ==
  ASSUME IInv, main \in {"scan", "body"}, main' \in {"scan", "body", "console", "shutdown"},
         TypeOK',
         UNCHANGED <<backlog, owner, m_connection_queue, m_observers, m_observers_index,
                     client_fd, listener, accepted, session, ended>>,
         Len(m_overflows') = Len(m_overflows),
         OverflowStaysWithClient',
         \A c \in Conns : peer'[c] = "idle" => peer[c] = "idle",
         main' = "scan" => client_index' # 0,
         main' = "body" => client_index' \in DOMAIN m_observers
  PROVE  IInv'
<1>1. Places' /\ TableConsistent' /\ SessionsReachTheirPeer'
  BY DEF IInv, Places, TableConsistent, SessionsReachTheirPeer, Tabled
<1>2. QueuedOnce'
  BY DEF IInv, QueuedOnce, Queued
<1>3. Backlog \subseteq Conns /\ Owned \subseteq Conns /\ ended \subseteq Conns
      /\ \A f \in DOMAIN session : session[f] \in Conns
  <2>1. Backlog \subseteq Conns
    BY DEF IInv, TypeOK, Backlog
  <2>2. QED
    BY <2>1 DEF IInv, TypeOK, Owned
<1>4. Backlog' = Backlog /\ Owned' = Owned
  BY DEF Backlog, Owned
<1>5. OnePlace'
  BY <1>3, <1>4 DEF IInv, OnePlace
<1>6. QED
  BY <1>1, <1>2, <1>5 DEF IInv

\* Closing the client under client_index.
LEMMA CloseInv ==
  ASSUME IInv, main \in {"scan", "body"}, client_index \in DOMAIN m_observers, Close,
         UNCHANGED <<m_run, m_connection_queue, m_disconnection, listener, accepted>>,
         peer' \in [Conns -> {"idle", "open", "closed", "reset"}],
         unread' \in [Conns -> 0..MaxUnread],
         \A c \in Conns : peer'[c] = "idle" => peer[c] = "idle"
  PROVE  IInv'
<1>1. /\ Fd \in Tabled /\ Fd \in Fds /\ Fd # None
      /\ client_fd = None /\ Fd \in DOMAIN session
      /\ Conn = session[Fd] /\ Conn \in Conns /\ Conn # None
      /\ \A g \in DOMAIN session : owner[g] = session[g]
  BY ClientFacts
<1>2. /\ client_fd' = Fd /\ main' = "drop"
      /\ UNCHANGED <<backlog, listening, client_index, table, hooks>>
  BY DEF Close
<1>3. /\ owner' \in [Fds -> Conns \cup {None}]
      /\ \A g \in Fds : owner'[g] = IF g = Fd THEN None ELSE owner[g]
  <2>1. owner' = [owner EXCEPT ![Fd] = None] /\ owner \in [Fds -> Conns \cup {None}]
    BY DEF Close, IInv, TypeOK
  <2>2. QED
    BY <2>1, <1>1
<1>4. TypeOK'
  BY <1>1, <1>2, <1>3 DEF IInv, TypeOK, table, hooks
<1>5. Places' /\ TableConsistent' /\ OverflowStaysWithClient'
  <2>1. Tabled' = Tabled
    BY <1>2 DEF Tabled, table
  <2>2. QED
    BY <1>1, <1>2, <2>1, LenProperties
       DEF IInv, TypeOK, Places, TableConsistent, OverflowStaysWithClient, table, hooks
<1>6. SessionsReachTheirPeer'
  BY <1>1, <1>2, <1>3 DEF IInv, SessionsReachTheirPeer, TypeOK, Tabled, table, hooks
<1>7. QueuedOnce'
  <2>1. Queued' = Queued /\ Queued \subseteq Fds
    BY DEF Queued, IInv, TypeOK
  <2>2. \A f \in (Queued \cup {accepted}) \ {None} :
          f \in Fds /\ owner[f] # None /\ f \notin DOMAIN session
    BY <1>1, <2>1 DEF IInv, QueuedOnce, TypeOK
  <2>3. QED
    BY <1>1, <1>2, <1>3, <2>1, <2>2 DEF IInv, QueuedOnce, hooks
<1>8. OnePlace'
  <2>1. Backlog' = Backlog /\ Backlog \subseteq Conns
    BY <1>2 DEF Backlog, IInv, TypeOK
  <2>2. Conn \in Owned /\ Owned \subseteq Conns
    BY <1>1 DEF Owned, Conn, IInv, TypeOK
  <2>3. Owned' \subseteq Owned
    BY <1>3 DEF Owned
  <2>4. Conn \notin Owned'
    <3>1. \A g \in Fds : owner[g] = Conn => g = Fd
      BY <1>1 DEF IInv, OnePlace, Conn
    <3>2. Owned' = {owner'[g] : g \in Fds} \ {None}
      BY DEF Owned
    <3>3. QED
      BY <1>1, <1>3, <3>1, <3>2
  <2>5. \A f, g \in Fds : owner'[f] # None /\ owner'[f] = owner'[g] => f = g
    BY <1>3 DEF IInv, OnePlace
  <2>6. \A f \in DOMAIN session : f = Fd => session[f] \notin Owned'
    BY <1>1, <2>4
  <2>7. main # "done" /\ ended \subseteq Conns
        /\ \A f \in DOMAIN session : session[f] \in Conns
    BY DEF IInv, TypeOK
  <2>8. QED
    BY <1>2, <2>1, <2>2, <2>3, <2>5, <2>6, <2>7 DEF IInv, OnePlace, hooks
<1>9. QED
  BY <1>4, <1>5, <1>6, <1>7, <1>8 DEF IInv

LEMMA ReadFacts ==
  ASSUME IInv, Conn \in Conns, TakePiece \/ ReadFails \/ ReadsEnd
  PROVE  /\ peer' \in [Conns -> {"idle", "open", "closed", "reset"}]
         /\ unread' \in [Conns -> 0..MaxUnread]
         /\ \A c \in Conns : peer'[c] = "idle" => peer[c] = "idle"
<1>1. /\ peer \in [Conns -> {"idle", "open", "closed", "reset"}]
      /\ unread \in [Conns -> 0..MaxUnread] /\ MaxUnread \in Nat
  BY ConnectionsAssumption DEF IInv, TypeOK, ConnectionsAssumption
<1>2. CASE TakePiece
  BY <1>1, <1>2 DEF TakePiece
<1>3. CASE ReadFails
  BY <1>1, <1>3 DEF ReadFails
<1>4. CASE ReadsEnd
  BY <1>1, <1>4 DEF ReadsEnd
<1>5. QED
  BY <1>2, <1>3, <1>4

LEMMA ScanningFacts ==
  ASSUME IInv, Scanning
  PROVE  main = "scan" /\ client_index \in DOMAIN m_observers
<1>1. DOMAIN m_observers = 1..Len(m_observers) /\ Len(m_observers) \in Nat
  BY LenProperties DEF IInv, TypeOK
<1>2. QED
  BY <1>1 DEF Scanning, IInv, TypeOK, Places

LEMMA ScanDoneInv ==
  ASSUME IInv, ScanDone
  PROVE  IInv'
<1>1. /\ UNCHANGED <<kernel, m_run, m_connection_queue, m_disconnection, table,
                     client_fd, listener, accepted, hooks>>
      /\ main = "scan" /\ main' \in {"console", "shutdown"} /\ client_index' = 0
  BY DEF ScanDone
<1>2. TypeOK'
  BY <1>1 DEF IInv, TypeOK, kernel, table, hooks
<1>3. OverflowStaysWithClient'
  BY <1>1 DEF IInv, OverflowStaysWithClient, table, hooks
<1>4. QED
  BY <1>1, <1>2, <1>3, ScanStepInv DEF kernel, table, hooks

LEMMA SkipIdleInv ==
  ASSUME IInv, SkipIdle
  PROVE  IInv'
<1>1. /\ UNCHANGED <<kernel, m_run, m_connection_queue, m_disconnection, table,
                     client_fd, listener, accepted, hooks>>
      /\ main = "scan" /\ main' = "scan" /\ client_index' = client_index + 1
      /\ client_index' # 0
  BY DEF SkipIdle, Skip, Scanning, IInv, TypeOK
<1>2. TypeOK'
  BY <1>1 DEF IInv, TypeOK, kernel, table, hooks
<1>3. OverflowStaysWithClient'
  BY <1>1 DEF IInv, OverflowStaysWithClient, table, hooks
<1>4. QED
  BY <1>1, <1>2, <1>3, ScanStepInv DEF kernel, table, hooks

LEMMA CloseAskedInv ==
  ASSUME IInv, CloseAsked
  PROVE  IInv'
<1>1. main = "scan" /\ client_index \in DOMAIN m_observers /\ Close
      /\ UNCHANGED <<peer, unread, m_run, m_connection_queue, m_disconnection, listener, accepted>>
  BY ScanningFacts DEF CloseAsked
<1>2. QED
  BY <1>1, CloseInv DEF IInv, TypeOK

LEMMA ReadHeaderInv ==
  ASSUME IInv, ReadHeader
  PROVE  IInv'
<1>1. /\ main = "scan" /\ client_index \in DOMAIN m_observers /\ HeaderHandler
      /\ UNCHANGED <<m_run, m_connection_queue, m_disconnection, listener, accepted>>
  BY ScanningFacts DEF ReadHeader, Ready
<1>2. Conn \in Conns
  BY <1>1, ClientFacts
<1>3. CASE ReadsEnd /\ Close
  BY <1>1, <1>2, <1>3, ReadFacts, CloseInv
<1>4. CASE /\ TakePiece \/ ReadFails
           /\ (main' = "body" /\ client_index' = client_index) \/ Skip
           /\ UNCHANGED <<client_fd, owner, backlog, listening, table, hooks>>
  <2>1. /\ peer' \in [Conns -> {"idle", "open", "closed", "reset"}]
        /\ unread' \in [Conns -> 0..MaxUnread]
        /\ \A c \in Conns : peer'[c] = "idle" => peer[c] = "idle"
    BY <1>2, <1>4, ReadFacts
  <2>2. main' \in {"scan", "body"} /\ client_index' \in {client_index, client_index + 1}
        /\ (main' = "body" => client_index' = client_index)
        /\ client_index' # 0
    BY <1>1, <1>4 DEF Skip, IInv, TypeOK, Places
  <2>3. TypeOK'
    BY <1>1, <1>4, <2>1, <2>2 DEF IInv, TypeOK, table, hooks
  <2>4. OverflowStaysWithClient'
    BY <1>4 DEF IInv, OverflowStaysWithClient, table, hooks
  <2>5. QED
    BY <1>1, <1>4, <2>1, <2>2, <2>3, <2>4, ScanStepInv DEF table, hooks
<1>5. QED
  BY <1>1, <1>3, <1>4 DEF HeaderHandler

\* A body read: the same from the header's read and from overflow mode.
LEMMA BodyHandlerInv ==
  ASSUME IInv, main \in {"scan", "body"}, client_index \in DOMAIN m_observers, BodyHandler,
         UNCHANGED <<m_connection_queue, m_disconnection, listener, accepted>>
  PROVE  IInv'
<1>1. /\ Conn \in Conns /\ Conn = session[Fd] /\ client_fd = None
  BY ClientFacts
<1>2. TakePiece \/ ReadFails \/ ReadsEnd
  BY DEF BodyHandler
<1>3. /\ peer' \in [Conns -> {"idle", "open", "closed", "reset"}]
      /\ unread' \in [Conns -> 0..MaxUnread]
      /\ \A c \in Conns : peer'[c] = "idle" => peer[c] = "idle"
  BY <1>1, <1>2, ReadFacts
<1>4. CASE Close /\ UNCHANGED m_run
  BY <1>3, <1>4, CloseInv
<1>5. ASSUME NEW e \in {None, Conn},
             m_overflows' = [m_overflows EXCEPT ![client_index] = e],
             m_run' \in {m_run, FALSE}, session' = session, ended' = ended, Skip,
             UNCHANGED <<client_fd, owner, backlog, listening, m_observers, m_observers_index>>
      PROVE  IInv'
  <2>1. DOMAIN m_observers = 1..Len(m_observers) /\ Len(m_overflows) = Len(m_observers)
    BY LenProperties DEF IInv, TypeOK, TableConsistent
  <2>2. /\ m_overflows' \in Seq(Conns \cup {None}) /\ Len(m_overflows') = Len(m_overflows)
        /\ \A k \in DOMAIN m_observers :
             m_overflows'[k] = IF k = client_index THEN e ELSE m_overflows[k]
    <3>1. m_overflows \in Seq(Conns \cup {None}) /\ client_index \in 1..Len(m_overflows)
          /\ e \in Conns \cup {None}
      BY <1>1, <2>1 DEF IInv, TypeOK
    <3>2. QED
      BY <1>5, <2>1, <3>1, ExceptSeq
  <2>3. main' = "scan" /\ client_index' = client_index + 1 /\ client_index' # 0
    BY <1>5 DEF Skip, IInv, TypeOK
  <2>4. TypeOK'
    <3>1. m_run' \in BOOLEAN
      BY <1>5 DEF IInv, TypeOK
    <3>2. client_index' \in Nat /\ main' \in {"scan"}
      BY <2>3 DEF IInv, TypeOK
    <3>3. UNCHANGED <<client_fd, owner, backlog, listening, m_observers, m_observers_index,
                      m_connection_queue, m_disconnection, listener, accepted, session, ended>>
      BY <1>5
    <3>4. QED
      BY <1>3, <2>2, <3>1, <3>2, <3>3 DEF IInv, TypeOK
  <2>5. OverflowStaysWithClient'
    BY <1>1, <1>5, <2>2 DEF IInv, OverflowStaysWithClient, Fd
  <2>6. QED
    BY <1>3, <1>5, <2>2, <2>3, <2>4, <2>5, ScanStepInv
<1>6. QED
  BY <1>4, <1>5 DEF BodyHandler, OnRequest, hooks

LEMMA ReadBodyInv ==
  ASSUME IInv, ReadBody
  PROVE  IInv'
<1>1. /\ main = "body" /\ client_index \in DOMAIN m_observers
      /\ UNCHANGED <<m_connection_queue, m_disconnection, listener, accepted>>
      /\ BodyHandler \/ (Close /\ UNCHANGED <<peer, unread, m_run>>)
  BY DEF ReadBody, IInv, Places
<1>2. CASE BodyHandler
  BY <1>1, <1>2, BodyHandlerInv
<1>3. CASE Close /\ UNCHANGED <<peer, unread, m_run>>
  BY <1>1, <1>3, CloseInv DEF IInv, TypeOK
<1>4. QED
  BY <1>1, <1>2, <1>3

LEMMA ReadOverflowInv ==
  ASSUME IInv, ReadOverflow
  PROVE  IInv'
<1>1. /\ main = "scan" /\ client_index \in DOMAIN m_observers /\ BodyHandler
      /\ UNCHANGED <<m_connection_queue, m_disconnection, listener, accepted>>
  BY ScanningFacts DEF ReadOverflow, Ready
<1>2. QED
  BY <1>1, BodyHandlerInv

-----------------------------------------------------------------------------
\* Main thread: removal of a client.

\* The table without f: the last client is now where f was, if it was not f.
LEMMA RemoveClientFacts ==
  ASSUME IInv, main # "done", NEW f \in Tabled, RemoveClient(f),
         NEW hole, hole = m_observers_index[f],
         NEW n, n = Len(m_observers)
  PROVE  /\ n \in Nat /\ hole \in 1..n /\ m_observers[hole].fd = f
         /\ DOMAIN m_observers = 1..n
         /\ m_observers' \in Seq([fd : Fds, ready : BOOLEAN])
         /\ m_overflows' \in Seq(Conns \cup {None})
         /\ Len(m_observers') = n - 1 /\ Len(m_overflows') = n - 1
         /\ DOMAIN m_observers' = 1..(n - 1)
         /\ \A k \in 1..(n - 1) :
              /\ m_observers'[k] = m_observers[IF k = hole THEN n ELSE k]
              /\ m_overflows'[k] = m_overflows[IF k = hole THEN n ELSE k]
         /\ Tabled' = Tabled \ {f}
         /\ DOMAIN m_observers_index' = Tabled'
         /\ \A k \in 1..(n - 1) : m_observers_index'[m_observers'[k].fd] = k
<1>1. /\ m_observers \in Seq([fd : Fds, ready : BOOLEAN])
      /\ m_overflows \in Seq(Conns \cup {None})
      /\ Len(m_overflows) = n /\ n \in Nat /\ DOMAIN m_observers = 1..n
      /\ DOMAIN m_observers_index = Tabled
      /\ \A k \in 1..n : m_observers_index[m_observers[k].fd] = k
  BY LenProperties DEF IInv, TypeOK, TableConsistent
<1>2. Tabled = {m_observers[k].fd : k \in 1..n}
  BY <1>1 DEF Tabled
<1>3. hole \in 1..n /\ m_observers[hole].fd = f
  <2>1. PICK k \in 1..n : m_observers[k].fd = f
    BY <1>2
  <2>2. QED
    BY <1>1, <2>1
<1>4. \A j, k \in 1..n : m_observers[j].fd = m_observers[k].fd => j = k
  BY <1>1
<1>5. /\ m_observers' \in Seq([fd : Fds, ready : BOOLEAN])
      /\ Len(m_observers') = n - 1
      /\ \A k \in 1..(n - 1) : m_observers'[k] = m_observers[IF k = hole THEN n ELSE k]
  <2> DEFINE pollfd == [fd : Fds, ready : BOOLEAN]
  <2>1. m_observers' = FillHole(m_observers, hole)
    BY DEF RemoveClient
  <2>2. m_observers \in Seq(pollfd) /\ hole \in 1..Len(m_observers)
    BY <1>1, <1>3
  <2> HIDE DEF pollfd
  <2>3. /\ FillHole(m_observers, hole) \in Seq(pollfd)
        /\ Len(FillHole(m_observers, hole)) = n - 1
        /\ \A k \in 1..(n - 1) :
             FillHole(m_observers, hole)[k] = IF k = hole THEN m_observers[n] ELSE m_observers[k]
    BY <2>2, FillHoleFacts
  <2>4. QED
    BY <2>1, <2>3 DEF pollfd
<1>6. /\ m_overflows' \in Seq(Conns \cup {None})
      /\ Len(m_overflows') = n - 1
      /\ \A k \in 1..(n - 1) : m_overflows'[k] = m_overflows[IF k = hole THEN n ELSE k]
  <2>1. m_overflows' = FillHole(m_overflows, hole)
    BY DEF RemoveClient
  <2>2. QED
    BY <1>1, <1>3, <2>1, FillHoleFacts
<1>7. DOMAIN m_observers' = 1..(n - 1)
  BY <1>5, LenProperties
<1>8. Tabled' = Tabled \ {f}
  <2>1. Tabled' = {m_observers'[k].fd : k \in 1..(n - 1)}
    BY <1>7 DEF Tabled
  <2>2. ASSUME NEW k \in 1..(n - 1)
        PROVE  m_observers'[k].fd \in Tabled \ {f}
    <3>1. (IF k = hole THEN n ELSE k) \in 1..n /\ (IF k = hole THEN n ELSE k) # hole
      BY <1>1, <1>3
    <3>2. QED
      BY <1>2, <1>3, <1>4, <1>5, <3>1
  <2>3. ASSUME NEW g \in Tabled \ {f}
        PROVE  g \in Tabled'
    <3>1. PICK j \in 1..n : m_observers[j].fd = g
      BY <1>2
    <3>2. j # hole
      BY <1>3, <3>1
    <3>3. CASE j = n
      <4>1. hole \in 1..(n - 1)
        BY <1>1, <1>3, <3>2, <3>3
      <4>2. m_observers'[hole].fd = g
        BY <1>5, <3>1, <3>3, <4>1
      <4>3. QED
        BY <2>1, <4>1, <4>2
    <3>4. CASE j # n
      <4>1. j \in 1..(n - 1)
        BY <1>1, <3>4
      <4>2. m_observers'[j].fd = g
        BY <1>5, <3>1, <3>2, <4>1
      <4>3. QED
        BY <2>1, <4>1, <4>2
    <3>5. QED
      BY <3>3, <3>4
  <2>4. QED
    BY <2>1, <2>2, <2>3
<1>9. /\ DOMAIN m_observers_index' = Tabled \ {f}
      /\ \A g \in Tabled \ {f} : m_observers_index'[g] =
           IF g = m_observers[n].fd /\ hole # n THEN hole ELSE m_observers_index[g]
  BY <1>1 DEF RemoveClient, Reindexed
<1>10. ASSUME NEW k \in 1..(n - 1)
       PROVE  m_observers_index'[m_observers'[k].fd] = k
  <2>1. m_observers'[k].fd \in Tabled \ {f}
    BY <1>7, <1>8 DEF Tabled
  <2>2. k # n /\ n \in 1..n /\ k \in 1..n
    BY <1>1
  <2>3. CASE k = hole
    <3>1. m_observers'[k].fd = m_observers[n].fd
      BY <1>5, <2>3
    <3>2. QED
      BY <1>9, <2>1, <2>2, <2>3, <3>1
  <2>4. CASE k # hole
    <3>1. m_observers'[k].fd = m_observers[k].fd
      BY <1>5, <2>4
    <3>2. m_observers[k].fd # m_observers[n].fd
      BY <1>4, <2>2
    <3>3. QED
      BY <1>1, <1>9, <2>1, <2>2, <3>1, <3>2
  <2>5. QED
    BY <2>3, <2>4
<1>11. QED
  BY <1>1, <1>3, <1>5, <1>6, <1>7, <1>8, <1>9, <1>10

LEMMA DropInv ==
  ASSUME IInv, Drop
  PROVE  IInv'
<1> DEFINE f == client_fd
           hole == m_observers_index[client_fd]
           n == Len(m_observers)
<1>1. /\ UNCHANGED <<kernel, m_run, m_connection_queue, m_disconnection,
                     client_index, listener, accepted>>
      /\ main = "drop" /\ main' = "scan" /\ client_fd' = None
      /\ RemoveClient(f) /\ OnDisconnect(f)
  BY DEF Drop
<1>2. f # None /\ f \in Tabled /\ f \in Fds /\ client_index # 0
  BY <1>1 DEF IInv, Places, TypeOK
<1>3. /\ n \in Nat /\ hole \in 1..n /\ m_observers[hole].fd = f
      /\ DOMAIN m_observers = 1..n
      /\ m_observers' \in Seq([fd : Fds, ready : BOOLEAN])
      /\ m_overflows' \in Seq(Conns \cup {None})
      /\ Len(m_observers') = n - 1 /\ Len(m_overflows') = n - 1
      /\ DOMAIN m_observers' = 1..(n - 1)
      /\ \A k \in 1..(n - 1) :
           /\ m_observers'[k] = m_observers[IF k = hole THEN n ELSE k]
           /\ m_overflows'[k] = m_overflows[IF k = hole THEN n ELSE k]
      /\ Tabled' = Tabled \ {f}
      /\ DOMAIN m_observers_index' = Tabled'
      /\ \A k \in 1..(n - 1) : m_observers_index'[m_observers'[k].fd] = k
  BY <1>1, <1>2, RemoveClientFacts
<1>4. /\ DOMAIN session = Tabled /\ Tabled \subseteq Fds
      /\ \A g \in DOMAIN session : session[g] \in Conns
      /\ \A g \in DOMAIN session \ {f} : owner[g] = session[g]
  BY <1>1 DEF IInv, SessionsReachTheirPeer, TypeOK
<1>5. /\ DOMAIN session' = DOMAIN session \ {f}
      /\ \A g \in DOMAIN session' : session'[g] = session[g]
      /\ ended' = ended \cup {session[f]}
      /\ session' = [g \in DOMAIN session' |-> session'[g]]
  BY <1>1 DEF OnDisconnect
<1>6. TypeOK'
  <2>1. DOMAIN session' \subseteq Fds /\ session' \in [DOMAIN session' -> Conns]
        /\ ended' \subseteq Conns
    BY <1>2, <1>4, <1>5 DEF IInv, TypeOK
  <2>2. DOMAIN m_observers_index' \subseteq Fds
    BY <1>3, <1>4
  <2>3. m_observers_index' \in [DOMAIN m_observers_index' -> Nat \ {0}]
    <3>1. m_observers_index' = [g \in DOMAIN m_observers_index' |-> m_observers_index'[g]]
      BY <1>1 DEF RemoveClient, Reindexed
    <3>2. ASSUME NEW g \in DOMAIN m_observers_index'
          PROVE  m_observers_index'[g] \in Nat \ {0}
      <4>1. Tabled' = {m_observers'[k].fd : k \in 1..(n - 1)}
        BY <1>3 DEF Tabled
      <4>2. PICK k \in 1..(n - 1) : m_observers'[k].fd = g
        BY <1>3, <3>2, <4>1
      <4>3. m_observers_index'[g] = k
        BY <1>3, <4>2
      <4>4. QED
        BY <1>3, <4>3
    <3>3. QED
      BY <3>1, <3>2
  <2>4. QED
    BY <1>1, <1>3, <2>1, <2>2, <2>3 DEF IInv, TypeOK, kernel
<1>7. Places'
  BY <1>1, <1>2 DEF IInv, Places
<1>8. TableConsistent'
  BY <1>3 DEF TableConsistent
<1>9. SessionsReachTheirPeer'
  BY <1>1, <1>3, <1>4, <1>5 DEF SessionsReachTheirPeer, kernel
<1>10. OverflowStaysWithClient'
  <2>1. SUFFICES ASSUME NEW k \in 1..(n - 1)
                 PROVE  m_overflows'[k] \in {None, session'[m_observers'[k].fd]}
    BY <1>3 DEF OverflowStaysWithClient
  <2> DEFINE j == IF k = hole THEN n ELSE k
  <2>2. j \in 1..n /\ m_observers'[k] = m_observers[j] /\ m_overflows'[k] = m_overflows[j]
    BY <1>3
  <2> HIDE DEF j
  <2>3. m_overflows[j] \in {None, session[m_observers[j].fd]}
    BY <1>3, <2>2 DEF IInv, OverflowStaysWithClient
  <2>4. m_observers'[k].fd \in DOMAIN session'
    BY <1>3, <1>4, <1>5 DEF Tabled
  <2>5. QED
    BY <1>5, <2>2, <2>3, <2>4
<1>11. QueuedOnce'
  BY <1>1, <1>5 DEF IInv, QueuedOnce, Queued, kernel
<1>12. OnePlace'
  <2>1. Backlog' = Backlog /\ Owned' = Owned /\ peer' = peer
    BY <1>1 DEF Backlog, Owned, kernel
  <2>2. session[f] \notin Backlog \cup Owned /\ peer[session[f]] # "idle"
    BY <1>1, <1>2, <1>4 DEF IInv, OnePlace
  <2>3. \A g \in DOMAIN session' : session[g] # session[f]
    BY <1>1, <1>2, <1>4, <1>5 DEF IInv, OnePlace
  <2>4. \A g \in DOMAIN session' :
          /\ session'[g] \notin Backlog \cup ended'
          /\ peer[session'[g]] # "idle"
          /\ g # None
          /\ \A h \in DOMAIN session' : session'[g] = session'[h] => g = h
    BY <1>1, <1>4, <1>5, <2>3, ConnectionsAssumption DEF IInv, OnePlace, ConnectionsAssumption
  <2>5. /\ \A c \in Backlog \cup Owned \cup ended' : peer[c] # "idle"
        /\ Backlog \cap (Owned \cup ended') = {}
        /\ Owned \cap ended' = {}
    BY <1>5, <2>2 DEF IInv, OnePlace
  <2>6. UNCHANGED <<backlog, owner>>
    BY <1>1 DEF kernel
  <2>7. QED
    BY <1>1, <2>1, <2>4, <2>5, <2>6 DEF IInv, OnePlace
<1>13. QED
  BY <1>6, <1>7, <1>8, <1>9, <1>10, <1>11, <1>12 DEF IInv

-----------------------------------------------------------------------------
\* Main thread: the end of Start.

LEMMA ShutdownInv ==
  ASSUME IInv, Shutdown
  PROVE  IInv'
<1>1. /\ UNCHANGED <<peer, unread, backlog, owner, m_run, m_connection_queue,
                     m_disconnection, table, client_index, client_fd, listener,
                     accepted, hooks>>
      /\ main = "shutdown" /\ main' = "join" /\ listening' = FALSE
  BY DEF Shutdown
<1>2. TypeOK'
  BY <1>1 DEF IInv, TypeOK, table, hooks
<1>3. Places' /\ TableConsistent' /\ SessionsReachTheirPeer' /\ OverflowStaysWithClient'
  BY <1>1 DEF IInv, Places, TableConsistent, SessionsReachTheirPeer,
              OverflowStaysWithClient, Tabled, table, hooks
<1>4. QueuedOnce' /\ OnePlace'
  BY <1>1 DEF IInv, QueuedOnce, Queued, OnePlace, Backlog, Owned, hooks
<1>5. QED
  BY <1>2, <1>3, <1>4 DEF IInv

LEMMA JoinInv ==
  ASSUME IInv, Join
  PROVE  IInv'
<1>1. /\ UNCHANGED <<peer, unread, backlog, listening, m_run, m_connection_queue,
                     m_disconnection, m_observers_index, m_overflows, client_index,
                     client_fd, listener, accepted, hooks>>
      /\ main = "join" /\ main' = "done" /\ listener = "exit" /\ m_observers' = <<>>
  BY DEF Join
<1>2. /\ owner' \in [Fds -> Conns \cup {None}]
      /\ \A f \in Fds : owner'[f] = IF f \in Tabled THEN None ELSE owner[f]
  BY DEF Join, Tabled, IInv, TypeOK
<1>3. client_fd = None /\ accepted = None /\ DOMAIN session = Tabled
  BY <1>1 DEF IInv, Places, SessionsReachTheirPeer
<1>4. TypeOK'
  BY <1>1, <1>2 DEF IInv, TypeOK, hooks
<1>5. Places' /\ TableConsistent' /\ SessionsReachTheirPeer' /\ OverflowStaysWithClient'
  BY <1>1, <1>3 DEF IInv, Places, TableConsistent, SessionsReachTheirPeer,
                    OverflowStaysWithClient
<1>6. QueuedOnce'
  <2>1. Queued' = Queued /\ Queued \subseteq Fds
    BY <1>1 DEF Queued, IInv, TypeOK
  <2>2. \A f \in Queued : f # None => owner[f] # None /\ f \notin Tabled
    BY <1>3 DEF IInv, QueuedOnce
  <2>3. QED
    BY <1>1, <1>2, <1>3, <2>1, <2>2 DEF IInv, QueuedOnce, hooks
<1>7. OnePlace'
  <2>1. Backlog' = Backlog
    BY <1>1 DEF Backlog
  <2>2. Owned' \subseteq Owned
    BY <1>2 DEF Owned
  <2>3. QED
    BY <1>1, <1>2, <2>1, <2>2 DEF IInv, OnePlace, hooks
<1>8. QED
  BY <1>4, <1>5, <1>6, <1>7 DEF IInv

-----------------------------------------------------------------------------
LEMMA InitInv == Init => IInv
<1> SUFFICES ASSUME Init PROVE IInv
  OBVIOUS
<1> USE ConnectionsAssumption DEF ConnectionsAssumption
<1>1. /\ <<>> \in Seq(Conns) /\ <<>> \in Seq(Fds)
      /\ <<>> \in Seq([fd : Fds, ready : BOOLEAN]) /\ <<>> \in Seq(Conns \cup {None})
      /\ Len(<<>>) = 0
  OBVIOUS
<1>2. DOMAIN <<>> = {}
  OBVIOUS
<1>3. TypeOK
  BY <1>1, <1>2 DEF Init, TypeOK
<1>4. Places /\ TableConsistent /\ SessionsReachTheirPeer /\ OverflowStaysWithClient
  BY <1>2 DEF Init, Places, TableConsistent, SessionsReachTheirPeer,
              OverflowStaysWithClient, Tabled
<1>5. QueuedOnce
  BY <1>2 DEF Init, QueuedOnce, Queued
<1>6. OnePlace
  BY <1>2 DEF Init, OnePlace, Backlog, Owned
<1>7. QED
  BY <1>3, <1>4, <1>5, <1>6 DEF IInv

LEMMA NextInv == IInv /\ [Next]_vars => IInv'
<1> SUFFICES ASSUME IInv, [Next]_vars PROVE IInv'
  OBVIOUS
<1>1. CASE Peers
  BY <1>1, PeersInv DEF Peers
<1>2. CASE Listen
  BY <1>2, AcceptInv, PushInv DEF Listen
<1>3. CASE Start
  BY <1>3, ConsoleInv, DrainInv, PollInv, ScanDoneInv, SkipIdleInv, CloseAskedInv,
     ReadHeaderInv, ReadBodyInv, ReadOverflowInv, DropInv, ShutdownInv, JoinInv DEF Start
<1>4. CASE UNCHANGED vars
  <2>1. UNCHANGED <<kernel, m_run, m_connection_queue, m_disconnection, table, main,
                    client_index, client_fd, listener, accepted, hooks>>
    BY <1>4 DEF vars
  <2>2. TypeOK'
    BY <2>1 DEF IInv, TypeOK, kernel, table, hooks
  <2>3. Places' /\ TableConsistent' /\ SessionsReachTheirPeer' /\ OverflowStaysWithClient'
    BY <2>1 DEF IInv, Places, TableConsistent, SessionsReachTheirPeer,
                OverflowStaysWithClient, Tabled, kernel, table, hooks
  <2>4. QueuedOnce' /\ OnePlace'
    BY <2>1 DEF IInv, QueuedOnce, Queued, OnePlace, Backlog, Owned, kernel, hooks
  <2>5. QED
    BY <2>2, <2>3, <2>4 DEF IInv
<1>5. QED
  BY <1>1, <1>2, <1>3, <1>4 DEF Next, Finished

\* IInv is inductive.
THEOREM Invariant == Spec => []IInv
BY InitInv, NextInv, PTL DEF Spec

\* The variables keep their types.
THEOREM TypeCorrect == Spec => []TypeOK
<1>1. IInv => TypeOK
  BY DEF IInv
<1>2. QED
  BY Invariant, <1>1, PTL

\* Server's three containers describe the same clients under the same indices,
\* whatever clients were removed and whichever entry filled the hole.
THEOREM TableIsConsistent == Spec => []TableConsistent
<1>1. IInv => TableConsistent
  BY DEF IInv
<1>2. QED
  BY Invariant, <1>1, PTL

\* A descriptor of the table reaches the connection OnConnect was called for,
\* even while accept gives out the descriptor of a client being removed.
THEOREM SessionsAreServed == Spec => []SessionsReachTheirPeer
<1>1. IInv => SessionsReachTheirPeer
  BY DEF IInv
<1>2. QED
  BY Invariant, <1>1, PTL

\* Half a body never passes to another client.
THEOREM OverflowsAreOwned == Spec => []OverflowStaysWithClient
<1>1. IInv => OverflowStaysWithClient
  BY DEF IInv
<1>2. QED
  BY Invariant, <1>1, PTL

\* A descriptor waits in the connection queue once, and is no client's then.
THEOREM QueueIsClean == Spec => []QueuedOnce
<1>1. IInv => QueuedOnce
  BY DEF IInv
<1>2. QED
  BY Invariant, <1>1, PTL

-----------------------------------------------------------------------------
\* The hooks' view.

LEMMA HooksInit == Init => HC!Init
BY DEF Init, HC!Init

LEMMA HooksStep == IInv /\ [Next]_vars => [HC!Next]_(HC!vars)
<1> SUFFICES ASSUME IInv, [Next]_vars PROVE HC!Next \/ UNCHANGED hooks
  BY DEF HC!vars, hooks
<1>1. CASE Peers \/ Listen
  BY <1>1 DEF Peers, Connect, SendPiece, Leave, Listen, Accept, Push
<1>2. CASE Drain
  <2>1. CASE UNCHANGED hooks
    BY <2>1
  <2>2. ASSUME m_connection_queue # <<>>, OnConnect(Head(m_connection_queue))
        PROVE  HC!Next
    <3> DEFINE f == Head(m_connection_queue)
    <3>1. f \in Fds /\ f \in Queued /\ f # None
      <4>1. /\ f \in Fds /\ f = m_connection_queue[1] /\ 1 \in DOMAIN m_connection_queue
        BY <2>2, TailFacts DEF IInv, TypeOK
      <4>2. QED
        BY <4>1, ConnectionsAssumption DEF Queued, ConnectionsAssumption
    <3>2. main = "drain" /\ client_fd = None
      BY <1>2 DEF Drain, IInv, QueuedOnce
    <3>3. f \notin DOMAIN session /\ owner[f] # None /\ owner[f] \in Conns
      BY <3>1, <3>2 DEF IInv, QueuedOnce, TypeOK
    <3>4. /\ session' = [g \in DOMAIN session \cup {f} |->
                           IF g \in DOMAIN session THEN session[g] ELSE owner[f]]
          /\ called' = <<"OnConnect", f, owner[f]>> /\ ended' = ended
      BY <2>2 DEF OnConnect, Emplace
    <3> HIDE DEF f
    <3>5. \A g \in DOMAIN session : g \in Fds /\ owner[g] = session[g]
      BY <3>1, <3>2, ConnectionsAssumption
         DEF IInv, SessionsReachTheirPeer, TypeOK, ConnectionsAssumption
    <3>6. owner[f] \notin HC!InSession
      <4>1. \A g \in Fds : owner[f] = owner[g] => f = g
        BY <3>1, <3>3 DEF IInv, OnePlace
      <4>2. QED
        BY <3>3, <3>5, <4>1 DEF HC!InSession
    <3>7. owner[f] \notin ended
      BY <3>1, <3>3 DEF IInv, OnePlace, Owned
    <3>8. session' = [g \in DOMAIN session \cup {f} |-> IF g = f THEN owner[f] ELSE session[g]]
      BY <3>3, <3>4
    <3>9. HC!Connect(f, owner[f])
      BY <3>3, <3>4, <3>6, <3>7, <3>8 DEF HC!Connect
    <3>10. QED
      BY <3>1, <3>3, <3>9 DEF HC!Next
  <2>3. QED
    BY <1>2, <2>1, <2>2 DEF Drain
<1>3. CASE ReadBody \/ ReadOverflow
  <2>1. main \in {"scan", "body"} /\ client_index \in DOMAIN m_observers
    BY <1>3, ScanningFacts DEF ReadBody, ReadOverflow, Ready, IInv, Places
  <2>2. UNCHANGED hooks \/ OnRequest
    BY <1>3 DEF ReadBody, ReadOverflow, BodyHandler, Close
  <2>3. CASE OnRequest
    <3>1. Fd \in Fds /\ Fd \in DOMAIN session /\ Conn = session[Fd]
      BY <2>1, ClientFacts
    <3>2. HC!Request(Fd)
      BY <2>3, <3>1 DEF OnRequest, HC!Request
    <3>3. QED
      BY <3>1, <3>2 DEF HC!Next
  <2>4. QED
    BY <2>2, <2>3
<1>4. CASE Drop
  <2>1. client_fd \in Fds /\ client_fd \in DOMAIN session
    BY <1>4 DEF Drop, IInv, Places, TypeOK, SessionsReachTheirPeer
  <2>2. OnDisconnect(client_fd)
    BY <1>4 DEF Drop
  <2>3. HC!Disconnect(client_fd)
    BY <2>1, <2>2 DEF OnDisconnect, HC!Disconnect
  <2>4. QED
    BY <2>1, <2>3 DEF HC!Next
<1>5. CASE Console \/ Lock \/ Poll \/ ScanDone \/ SkipIdle \/ CloseAsked \/ ReadHeader
           \/ Shutdown \/ Join
  BY <1>5 DEF Console, Lock, Poll, ScanDone, SkipIdle, CloseAsked, Close, ReadHeader,
              HeaderHandler, Shutdown, Join
<1>6. CASE UNCHANGED vars
  BY <1>6 DEF vars
<1>7. QED
  BY <1>1, <1>2, <1>3, <1>4, <1>5, <1>6 DEF Next, Start, Finished

\* Server implements HookContract: a descriptor serves one connection at a
\* time, and every connection sees OnConnect, its own requests, OnDisconnect.
THEOREM HookContractKept == Spec => ContractKept
<1>1. Init => HC!Init
  BY HooksInit
<1>2. IInv /\ [Next]_vars => [HC!Next]_(HC!vars)
  BY HooksStep
<1>3. QED
  BY <1>1, <1>2, Invariant, PTL DEF Spec, ContractKept, HC!Spec
=============================================================================
