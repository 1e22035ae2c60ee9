---------------------------- MODULE VotingSystem ----------------------------
(***************************************************************************)
(* Voters, scripts and the server together.  The server is the command     *)
(* layer of Election; its main thread takes one message of one client at a *)
(* time and then sends the answers one after another, send() blocking      *)
(* while the receive buffer of the client is full.  Descriptors are the    *)
(* processes' own names: Connections is about how they are used again.     *)
(***************************************************************************)
EXTENDS Client

CONSTANTS
  Room,       \* bound: messages the buffers between send() and recv() hold
  MaxAtOnce,  \* bound: scripts under way at the same time
  MaxWindows, \* bound: windows that show the login at the same time
  Patient     \* do operators wait for the key before they end a poll (see Operate)?

ASSUME SystemAssumption ==
  /\ Room \in Nat \ {0} /\ MaxAtOnce \in Nat /\ MaxWindows \in Nat
  /\ Patient \in BOOLEAN

VARIABLES
  connected, m_clients, started, candidates, pallier, server, sent, result,
  round,    \* of Election
  backlog,  \* processes whose connection the server has yet to add
  outbox    \* what the hook under way has still to send: <<process, message>>

election == <<connected, m_clients, started, candidates, pallier, server, sent,
              result, round>>
vars == <<client_vars, election, backlog, outbox>>

E == INSTANCE Election WITH
       Sockets <- Processes, Candidates <- ToSet(Slate), Slates <- {Slate},
       Ciphers <- 0..2, Zero <- 2, NotANumber <- 3, Ballots <- [DOMAIN Slate -> {0, 1}],
       Malformed <- {"none"}, MaxRounds <- Scripts

-----------------------------------------------------------------------------
\* Server.

\* The counts the sums of a result decrypt to (see Paillier).
Counts(r) ==
  [i \in DOMAIN r.slate |->
     Cardinality({p \in DOMAIN r.counted :
                    i \in DOMAIN r.counted[p] /\ r.counted[p][i] = 1})]

\* A message of Election and the list it carries.
Filled(msg) ==
  <<msg[1], msg[2], msg[3],
    CASE msg[3] = "CHAR" -> candidates'
      [] msg[1] = "SEND_VOTE_RESULT" -> Counts(result')
      [] OTHER -> <<>> >>

\* A hook sends to one client, in the order of its calls of Send, or one message
\* to several: Broadcast goes through m_observers, in any order.
Post ==
  \E order \in SetToSeqs({p \in Processes : sent'[p] # <<>>}) :
    \/ /\ Len(order) = 1
       /\ outbox' = [k \in DOMAIN sent'[order[1]] |->
                      <<order[1], Filled(sent'[order[1]][k])>>]
    \/ /\ Len(order) # 1 /\ \A i \in DOMAIN order : Len(sent'[order[i]]) = 1
       /\ outbox' = [i \in DOMAIN order |-> <<order[i], Filled(sent'[order[i]][1])>>]

Free == outbox = <<>>

Accept(p) ==
  /\ Free /\ p \in backlog
  /\ E!OnConnect(p)
  /\ backlog' = backlog \ {p}
  /\ Post
  /\ UNCHANGED client_vars

\* CommandHandler::Handle, by the name of the command.
Handle(p, msg) ==
  \/ msg[1] = "SEND_KEY" /\ E!client_send_key(p, "valid")
  \/ msg[1] = "SEND_KEY_PROOF" /\ E!client_send_key_proof(p, "right")
  \/ msg[1] = "LOGIN" /\ E!client_login(p)
  \/ msg[1] = "GET_CANDIDATES" /\ E!client_get_candidates(p)
  \/ msg[1] = "SEND_ZKP" /\ E!client_send_zkp(p, msg[2], "none")
  \/ msg[1] = "VOTE" /\ E!client_vote(p, msg[2])
  \/ msg[1] = "VOTE_BEGIN" /\ E!vote_begin(p, msg[2])
  \/ msg[1] = "SEND_KEY_PAILLIER" /\ E!client_send_pallier_key(p, "valid")
  \/ msg[1] = "VOTE_END" /\ E!vote_end(p)

Request(p) ==
  /\ Free /\ p \in connected /\ to_server[p] # <<>>
  /\ Handle(p, Head(to_server[p]))
  /\ to_server' = [to_server EXCEPT ![p] = Tail(@)]
  /\ Post
  /\ UNCHANGED <<process, steps, to_client, responses, gui, backlog>>

\* read() returns 0.
Disconnect(p) ==
  /\ Free /\ p \in connected /\ to_server[p] = <<>> /\ process[p] = "exited"
  /\ E!OnDisconnect(p)
  /\ UNCHANGED <<client_vars, backlog, outbox>>

HasRoomAlways(p) == TRUE
HasRoom(p) == Len(to_client[p]) < Room

\* send() blocks while there is no room; to a process that is gone it fails,
\* and the error is logged.
SendNext ==
  /\ ~Free
  /\ LET p == outbox[1][1]
     IN  \/ /\ process[p] = "exited"
            /\ UNCHANGED to_client
         \/ /\ process[p] # "exited" /\ HasRoom(p)
            /\ to_client' = [to_client EXCEPT ![p] = Append(@, outbox[1][2])]
  /\ outbox' = Tail(outbox)
  /\ E!Silent
  /\ UNCHANGED <<process, steps, to_server, responses, gui, connected, m_clients,
                 started, candidates, pallier, server, result, round, backlog>>

Server == SendNext \/ \E p \in Processes : Accept(p) \/ Request(p) \/ Disconnect(p)

-----------------------------------------------------------------------------
\* Clients.

Launch(v) ==
  /\ Cardinality({x \in Voters : Running(x) /\ window[x] = "login"}) < MaxWindows
  /\ OpenWindow(v)
  /\ backlog' = backlog \cup {v}

\* A setup_vote.py that nobody interrupted is gone, as the server's log shows.
SetUp(k) ==
  /\ Setup(k) /\ Complete(k)
  /\ process[k] = "exited" /\ k \notin backlog \cup connected

\* Scripts are run at any time, several at once and in any order; but a patient
\* operator ends a poll only after a setup_vote.py that went through.
Operate(k) ==
  /\ Cardinality((backlog \cup connected) \cap (1..Scripts)) < MaxAtOnce
  /\ Patient /\ ~Setup(k) => \E j \in 1..Scripts : SetUp(j)
  /\ RunScript(k)
  /\ backlog' = backlog \cup {k}

Users ==
  /\ \/ \E v \in Voters :
          \/ Launch(v)
          \/ (verifier_login(v) \/ action(v) \/ CloseWindow(v)) /\ UNCHANGED backlog
     \/ \E k \in 1..Scripts :
          \/ Operate(k)
          \/ (SendCommand(k) \/ EndScript(k) \/ BreakScript(k)) /\ UNCHANGED backlog
  /\ UNCHANGED <<election, outbox>>

Listen(p) == listen(p) /\ UNCHANGED <<election, backlog, outbox>>
Update(v) == Timer(v) /\ UNCHANGED <<election, backlog, outbox>>

Init == ClientInit /\ E!Init /\ backlog = {} /\ outbox = <<>>

Threads ==
  \/ Server
  \/ \E p \in Processes : Listen(p)
  \/ \E v \in Voters : Update(v)

Next == Threads \/ Users

Spec == Init /\ [][Next]_vars

\* While the server's loop or a thread of a client can run, one of them does;
\* users owe nothing.
FairSpec == Spec /\ WF_vars(Threads)

-----------------------------------------------------------------------------
\* The server's variables keep their types by Election's own TypeOK.
TypeOK ==
  /\ process \in [Processes -> {"idle", "running", "exited"}]
  /\ \A k \in 1..Scripts : steps[k] \in 0..Len(Script(k))
  /\ \A p \in Processes : Len(to_client[p]) <= Room
  /\ candidats \in [Voters -> {<<>>, Slate}]
  /\ window \in [Voters -> {"login", "opening", "main", "refused"}]
  /\ logins \in [Voters -> 0..MaxLogins]
  /\ buttons \in [Voters -> SUBSET (ToSet(Slate) \cup {Letter})]
  /\ backlog \subseteq Processes
  /\ \A i \in DOMAIN outbox : outbox[i][1] \in Processes

VoteInTransit(v) == \E i \in DOMAIN to_server[v] : to_server[v][i][1] = "VOTE"

\* Once no ballot of a voter is on its way, the server has on file what the last
\* click asked for, for a voter logged in, and nothing for one who never clicked.
\* A click after VOTE_END is no exception, as client_vote does not look at started;
\* README.md:50 rules such a click out.
LastClickStands ==
  \A v \in Voters \cap connected :
    ~VoteInTransit(v) =>
      /\ m_clients[v].voted = (chosen[v] # <<>>)
      /\ chosen[v] # <<>> => m_clients[v].vote = Ballot(Slate, Last(chosen[v]))

\* With patient operators, whatever else users do with these programs and wherever
\* a script is interrupted, the server survives: no short ballot, missing key or
\* missing proof reaches VOTE_END.  Nothing in the scripts makes operators patient;
\* when they are not, VOTE_END before the key divides by zero
\* (client_commands.hpp:59).
HonestClientsSpareTheServer == server # "aborted"

\* The system as its users see it.
Marked(ballot) == {Slate[i] : i \in {j \in DOMAIN ballot : ballot[j] = 1}}
Casts(msgs) ==
  LET ballots == Column(Only(msgs, {"VOTE"}), 2)
  IN  [i \in DOMAIN ballots |-> Marked(ballots[i])]

\* All that is on its way to v, the oldest first.
Posted(v) == Column(Only(outbox, {v}), 2)
InTransit(v) == responses[v] \o to_client[v] \o Posted(v)
Mail(v) == IF Running(v) THEN Results(InTransit(v)) ELSE <<>>

P == INSTANCE Poll WITH
       present <- {v \in Voters : Running(v) /\ v \in connected}, open <- started,
       clicked <- [v \in Voters |-> Casts(to_server[v])],
       choice <- [v \in {x \in DOMAIN m_clients : m_clients[x].voted} |->
                    Marked(m_clients[v].vote)],
       mail <- [v \in Voters |-> Mail(v)], shown <- printed

\* Every click is one ballot, ballots arrive in order and are counted under the
\* names that were clicked, and every result reaches everybody whose connection the
\* server had added when it closed the poll, ballot or not, once and in order,
\* through all queues and both threads.  That ballots arrive after the poll is
\* closed too is P!DropLate, which README.md:50 rules out.
ImplementsPoll == P!Spec

-----------------------------------------------------------------------------
\* A LOGIN is decided: the window does not wait for an answer for ever.
LoginIsDecided ==
  \A v \in Voters : logins[v] > 0 /\ Running(v) ~> window[v] # "login" \/ ~Running(v)

\* Every result is printed at everybody present.
EveryoneLearnsTheResult == \A v \in Voters : Mail(v) # <<>> ~> Mail(v) = <<>>

\* The server gets through with everything that has been sent: no client, whatever
\* its window does, keeps the only thread in a send() that blocks, and a ballot
\* cast is recorded.
Behind == ~Free \/ \E p \in Processes : to_server[p] # <<>>
ServerCatchesUp == Behind ~> ~Behind

-----------------------------------------------------------------------------
\* What the README promises and the code does not do (see the violation run).

\* README.md:188: O0 tells a user that he is logged in and may vote; a window
\* does not close on somebody the server has just answered O0.
AcceptedIsNotRefused ==
  \A v \in Voters \cap connected : E!IsAuth(m_clients[v]) => window[v] # "refused"
=============================================================================
