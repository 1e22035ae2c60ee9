-------------------------- MODULE VotingInvariant --------------------------
(***************************************************************************)
(* The inductive invariant of VotingSystem.  That the server keeps the     *)
(* last click depends on what a window believes: its buttons are the       *)
(* candidates, or a code the server answered after a ballot; it is past    *)
(* the login only behind an O0, and what read() searches for is then not   *)
(* disturbed by key messages, none of which follows an O0 in any queue.    *)
(* That the server survives depends on the scripts and on the patience of  *)
(* the operators: one that ends a poll runs after one that set pallier.    *)
(***************************************************************************)
EXTENDS VotingSystem

\* What goes over the wire.
Words == {"", "LOGIN", "SEND_KEY", "SEND_KEY_PROOF", "GET_CANDIDATES", "VOTE"}
Labels == ToSet(Slate) \cup {Letter}
Papers == {Ballot(Slate, label) : label \in Labels}
ScriptRequests == {<<"SEND_KEY">>, <<"SEND_KEY_PROOF">>, <<"LOGIN">>,
                   <<"VOTE_BEGIN", Slate>>, <<"SEND_KEY_PAILLIER">>, <<"VOTE_END">>}
VoterRequests ==
  {<<"SEND_KEY">>, <<"SEND_KEY_PROOF">>, <<"LOGIN">>, <<"GET_CANDIDATES">>}
  \cup {<<"SEND_ZKP", i>> : i \in DOMAIN Slate} \cup {<<"VOTE", b>> : b \in Papers}
Requests == ScriptRequests \cup VoterRequests
Enclosed == [DOMAIN Slate -> Nat] \cup {<<>>, Slate}
Answer == E!Heads \X E!Commands \X E!Codes \X Enclosed

\* Every variable has its type; the records are Election's.
ClientTypes ==
  /\ process \in [Processes -> {"idle", "running", "exited"}]
  /\ steps \in [1..Scripts -> Nat]
  /\ to_server \in [Processes -> Seq(Requests)]
  /\ to_client \in [Processes -> Seq(Answer)]
  /\ \A p \in Processes : Len(to_client[p]) <= Room
  /\ responses \in [Voters -> Seq(Answer)]
  /\ search \in [Voters -> Words]
  /\ candidats \in [Voters -> {<<>>, Slate}]
  /\ window \in [Voters -> {"login", "opening", "main", "refused"}]
  /\ logins \in [Voters -> 0..MaxLogins]
  /\ buttons \in [Voters -> SUBSET Labels]
  /\ chosen \in [Voters -> Seq(Labels)]
  /\ printed \in [Voters -> Seq(Enclosed)]
ServerTypes ==
  /\ connected \subseteq Processes /\ backlog \subseteq Processes
  /\ m_clients \in [connected -> E!Client]
  /\ started \in BOOLEAN /\ candidates \in {<<>>, Slate}
  /\ started => candidates = Slate
  /\ pallier \in BOOLEAN
  /\ outbox \in Seq(connected \X Answer)
  /\ server = "running"

\* Where a process is: not started, waiting to be added, or on the server's table.
Presence ==
  /\ backlog \cap connected = {}
  /\ \A p \in Processes :
       /\ process[p] = "idle" => p \notin backlog \cup connected
       /\ process[p] = "running" => p \in backlog \cup connected
       /\ to_client[p] # <<>> => Running(p) /\ p \in connected
       /\ p \notin backlog \cup connected => to_server[p] = <<>>
  /\ \A v \in Voters :
       /\ responses[v] # <<>> \/ printed[v] # <<>> => Running(v) /\ v \in connected
       /\ process[v] = "idle" \/ v \in backlog => window[v] = "login"

Auth(p) == p \in connected /\ E!IsAuth(m_clients[p])

\* What may be said of a message on its way to v.  An answer to GET_CANDIDATES is
\* a list, an answer to VOTE follows a click, O0 says that v is logged in.
Genuine(v, m) ==
  /\ m[3] = "CHAR" => m[1] = "RETURN" /\ m[2] = "GET_CANDIDATES" /\ m[4] = Slate
  /\ m[1] = "RETURN" /\ m[2] = "GET_CANDIDATES" => m[3] = "CHAR"
  /\ m[1] = "RETURN" /\ m[2] = "VOTE" => chosen[v] # <<>>
  /\ m[3] = "O0" => Auth(v)
  /\ IsKey(m) => m[3] # "O0"
AllGenuine(v) ==
  /\ \A i \in DOMAIN responses[v] : Genuine(v, responses[v][i])
  /\ \A i \in DOMAIN to_client[v] : Genuine(v, to_client[v][i])
  /\ \A i \in DOMAIN outbox : outbox[i][1] = v => Genuine(v, outbox[i][2])

\* No message about keys comes after an O0, and none is left behind the login.
Past(v) == Running(v) /\ window[v] \in {"opening", "main"}
KeysFirst(v) ==
  /\ Auth(v) => \A i \in DOMAIN outbox : outbox[i][1] = v => ~IsKey(outbox[i][2])
  /\ \A i, j \in DOMAIN to_client[v] :
       i < j /\ to_client[v][i][3] = "O0" => ~IsKey(to_client[v][j])
  /\ \A i, j \in DOMAIN responses[v] :
       i < j /\ responses[v][i][3] = "O0" => ~IsKey(responses[v][j])
  /\ \A i \in DOMAIN responses[v], j \in DOMAIN to_client[v] :
       responses[v][i][3] = "O0" => ~IsKey(to_client[v][j])
  /\ Past(v) =>
       /\ Auth(v)
       /\ \A i \in DOMAIN responses[v] : ~IsKey(responses[v][i])
       /\ \A i \in DOMAIN to_client[v] : ~IsKey(to_client[v][i])

\* The window: buttons are there for a list that has arrived, and a click needs one.
WindowOf(v) ==
  /\ Past(v) => search[v] \in {"GET_CANDIDATES", "VOTE"}
  /\ search[v] = "VOTE" => chosen[v] # <<>>
  /\ buttons[v] # {} => candidats[v] = Slate /\ window[v] = "main" /\ Running(v)
  /\ chosen[v] # <<>> => window[v] = "main" /\ (Running(v) => buttons[v] # {})

\* Ballots: the last VOTE on its way is the last click, and when there is none the
\* record is.
IsLastVote(v, i) ==
  /\ to_server[v][i][1] = "VOTE"
  /\ \A j \in DOMAIN to_server[v] : j > i => to_server[v][j][1] # "VOTE"
Recorded(v) ==
  /\ m_clients[v].voted = (chosen[v] # <<>>)
  /\ chosen[v] # <<>> => m_clients[v].vote = Ballot(Slate, Last(chosen[v]))
BallotOf(v) ==
  /\ \A i \in DOMAIN to_server[v] : to_server[v][i] \in VoterRequests
  /\ VoteInTransit(v) => Auth(v) /\ chosen[v] # <<>>
  /\ \A i \in DOMAIN to_server[v] :
       IsLastVote(v, i) => to_server[v][i][2] = Ballot(Slate, Last(chosen[v]))
  /\ v \in connected /\ ~VoteInTransit(v) => Recorded(v)
  /\ v \in connected /\ m_clients[v].voted => m_clients[v].vote \in Papers

\* Scripts: what is on its way is what has been sent and not read, in the order of
\* the script; Done counts what the server has read.  A script that was read to its
\* end has set pallier, and none ends a poll before.
Done(k) == steps[k] - Len(to_server[k])
ScriptOf(k) ==
  /\ steps[k] <= Len(Script(k)) /\ Len(to_server[k]) <= steps[k]
  /\ \A i \in DOMAIN to_server[k] : to_server[k][i] = Script(k)[Done(k) + i]
  /\ process[k] = "idle" => steps[k] = 0
  /\ k \in backlog => Done(k) = 0
  /\ k \in connected =>
       /\ m_clients[k].is_admin /\ ~m_clients[k].voted
       /\ m_clients[k].vote = <<>> /\ m_clients[k].proofs = <<>>
       /\ Done(k) >= 3 => E!IsAuth(m_clients[k])
  /\ Setup(k) /\ Done(k) = Len(Script(k)) => pallier
  /\ ~Setup(k) /\ process[k] # "idle" => pallier

VoterOf(v) == AllGenuine(v) /\ KeysFirst(v) /\ WindowOf(v) /\ BallotOf(v)
VoterInv == \A v \in Voters : VoterOf(v)
ScriptInv == \A k \in 1..Scripts : ScriptOf(k)

Inv == Patient /\ ClientTypes /\ ServerTypes /\ Presence /\ VoterInv /\ ScriptInv
=============================================================================
