------------------------------- MODULE Client -------------------------------
(***************************************************************************)
(* The programs at the other end of the connections: the voting window     *)
(* (src/Client/interface.py) and the administrators' scripts               *)
(* (setup_vote.py, end_vote.py), all on top of client.py.                  *)
(*                                                                         *)
(* Each has two threads: one receives messages into the queue responses,   *)
(* the other is the window or the script.  The window reads the queue from *)
(* a timer; messages that come while read() runs are as good as there when *)
(* it starts, so a call of read() is one step.  A message is its words; in *)
(* a message of the server the fourth is the list it carries, if any.      *)
(***************************************************************************)
EXTENDS Naturals, Sequences, FiniteSets, SequencesExt

CONSTANTS
  Voters,     \* processes that run interface.py
  Scripts,    \* bound: scripts run; odd ones are setup_vote.py, even ones end_vote.py
  Slate,      \* the names setup_vote.py announces
  MaxLogins,  \* bound: clicks on the button of the login window
  MaxVotes,   \* bound: clicks on the buttons of the main window
  MaxClosed,  \* bound: windows closed by their users
  MaxBroken   \* bound: scripts interrupted

ASSUME ClientAssumption ==
  /\ Scripts \in Nat /\ MaxLogins \in Nat /\ MaxVotes \in Nat
  /\ MaxClosed \in Nat /\ MaxBroken \in Nat
  /\ IsFiniteSet(Voters) /\ Voters \cap (1..Scripts) = {}
  /\ Slate \in Seq(ToSet(Slate)) \ {<<>>}

Processes == Voters \cup 1..Scripts

VARIABLES
  process,    \* process -> "idle", "running" or "exited"
  steps,      \* script -> commands it has sent
  to_server,  \* process -> messages sent and not yet read by the server
  to_client,  \* process -> messages in the client's receive buffer
  responses,  \* voter -> responses of client.py; a script's is never read
  search,     \* search of client.py: the command whose answer read() keeps
  candidats,  \* candidats of client.py
  window,     \* voter -> "login", "opening" (main window), "main" or "refused"
  logins,     \* voter -> clicks in the login window; func is log after the first
  buttons,    \* voter -> labels of the buttons of the main window
  printed,    \* voter -> the results read() printed
  chosen      \* history: voter -> labels clicked

channels == <<to_server, to_client>>
gui == <<search, candidats, window, logins, buttons, printed, chosen>>
client_vars == <<process, steps, channels, responses, gui>>

\* set_candidats makes a button of each element of info: of each letter, when
\* info is an answer code.  No candidate is named by such a letter.
Letter == "letter of a code"

ClientInit ==
  /\ process = [p \in Processes |-> "idle"]
  /\ steps = [k \in 1..Scripts |-> 0]
  /\ to_server = [p \in Processes |-> <<>>]
  /\ to_client = [p \in Processes |-> <<>>]
  /\ responses = [v \in Voters |-> <<>>]
  /\ search = [v \in Voters |-> ""]
  /\ candidats = [v \in Voters |-> <<>>]
  /\ window = [v \in Voters |-> "login"]
  /\ logins = [v \in Voters |-> 0]
  /\ buttons = [v \in Voters |-> {}]
  /\ printed = [v \in Voters |-> <<>>]
  /\ chosen = [v \in Voters |-> <<>>]

Running(p) == process[p] = "running"
Send(p, msgs) == to_server' = [to_server EXCEPT ![p] = @ \o msgs]

\* The messages that begin with one of these words, in order (SelectSeq, as a function
\* on positions: of an operator parameter nothing can be proved), and a column of them.
Only(s, words) ==
  LET only[n \in 0..Len(s)] ==
        IF n = 0 THEN <<>>
        ELSE IF s[n][1] \in words THEN Append(only[n - 1], s[n]) ELSE only[n - 1]
  IN  only[Len(s)]
Column(s, k) == [n \in DOMAIN s |-> s[n][k]]

-----------------------------------------------------------------------------
\* client.py.

\* The listening thread: one message from the socket to the queue.
Queue(queue, m) == Append(queue, m)

ReceivesInWindow(p) == Running(p) /\ p \in Voters /\ to_client[p] # <<>>
Receives(p) == Running(p) /\ to_client[p] # <<>>

listen(p) ==
  /\ Receives(p)
  /\ to_client' = [to_client EXCEPT ![p] = Tail(@)]
  /\ responses' = [v \in Voters |-> IF v = p
                     THEN Queue(responses[v], Head(to_client[p])) ELSE responses[v]]
  /\ UNCHANGED <<process, steps, to_server, gui>>

\* read() answers a key message with one of the same name, and that name becomes
\* search.  Of the answers it keeps those to search, the last of all in the end;
\* the answer to a VOTE that is no longer search it returns at once, leaving the
\* messages behind it in the queue.  It drops other answers, and all of ERROR.
KeyWords == {"SEND_KEY", "SEND_KEY_PROOF"}
IsKey(m) == m[1] \in KeyWords

SearchAt(v, n) ==
  LET keys == {k \in 1..n : IsKey(responses[v][k])}
  IN  IF keys = {} THEN search[v] ELSE responses[v][Max(keys)][1]
Answers(v) == {n \in DOMAIN responses[v] : responses[v][n][1] = "RETURN"}
Kept(v) == {n \in Answers(v) : responses[v][n][2] = SearchAt(v, n)}
Late(v) == {n \in Answers(v) \ Kept(v) : responses[v][n][2] = "VOTE"}

Read(v) == IF Late(v) = {} THEN Len(responses[v]) ELSE Min(Late(v))
Taken(v) == SubSeq(responses[v], 1, Read(v))
Left(v) == SubSeq(responses[v], Read(v) + 1, Len(responses[v]))

\* What read() returns: a code, "CHAR" for a list, "E" for nothing.
Value(v) ==
  LET answers == (Kept(v) \cap 1..Read(v)) \cup (Late(v) \cap {Read(v)})
  IN  IF answers = {} THEN "E" ELSE responses[v][Max(answers)][3]

Replies(v) ==
  LET keys == Only(Taken(v), KeyWords) IN [n \in DOMAIN keys |-> << keys[n][1] >>]
Lists(v) == {n \in Kept(v) \cap 1..Read(v) : responses[v][n][3] = "CHAR"}
Fetched(v) ==
  IF Lists(v) = {} THEN candidats[v] ELSE responses[v][Max(Lists(v))][4]
\* The lists that the results among messages carry.
Results(msgs) == Column(Only(msgs, {"SEND_VOTE_RESULT"}), 4)

\* A call of read(); the caller may send something else and search for it.
read(v, msgs, for) ==
  /\ responses' = [responses EXCEPT ![v] = Left(v)]
  /\ candidats' = [candidats EXCEPT ![v] = Fetched(v)]
  /\ printed' = [printed EXCEPT ![v] = @ \o Results(Taken(v))]
  /\ Send(v, Replies(v) \o msgs)
  /\ search' = [search EXCEPT ![v] = for]
readOnly(v) == read(v, <<>>, SearchAt(v, Read(v)))

\* The arguments of VOTE: encryptions of 1 for the name chosen, of 0 for others.
Ballot(names, name) == [i \in DOMAIN names |-> IF names[i] = name THEN 1 ELSE 0]

\* A proof per ciphertext, then the ballot.
voteForLast(v, name) ==
  /\ Send(v, << <<"VOTE", Ballot(candidats[v], Last(candidats[v]))>> >>)
  /\ search' = [search EXCEPT ![v] = "VOTE"]
vote(v, name) ==
  /\ Send(v, [i \in DOMAIN candidats[v] |-> <<"SEND_ZKP", i>>]
             \o << <<"VOTE", Ballot(candidats[v], name)>> >>)
  /\ search' = [search EXCEPT ![v] = "VOTE"]

-----------------------------------------------------------------------------
\* Processes come and go; what one held goes with it.

Start(p) ==
  /\ process[p] = "idle"
  /\ process' = [process EXCEPT ![p] = "running"]

Exit(p) ==
  /\ process' = [process EXCEPT ![p] = "exited"]
  /\ to_client' = [to_client EXCEPT ![p] = <<>>]

Forget(v) ==
  /\ responses' = [responses EXCEPT ![v] = <<>>]
  /\ candidats' = [candidats EXCEPT ![v] = <<>>]
  /\ buttons' = [buttons EXCEPT ![v] = {}]
  /\ printed' = [printed EXCEPT ![v] = <<>>]
  /\ search' = [search EXCEPT ![v] = ""]

-----------------------------------------------------------------------------
\* interface.py.

\* import client connects; creer_fenetre_login shows the window.
OpenWindow(v) ==
  /\ Start(v)
  /\ UNCHANGED <<steps, channels, responses, gui>>

verifier_login(v) ==
  /\ Running(v) /\ window[v] = "login"
  /\ logins[v] < MaxLogins
  /\ logins' = [logins EXCEPT ![v] = @ + 1]
  /\ Send(v, << <<"LOGIN">> >>)
  /\ search' = [search EXCEPT ![v] = "LOGIN"]
  /\ UNCHANGED <<process, steps, to_client, responses, candidats, window, buttons,
                 printed, chosen>>

StayAnyway == {"E2", "E3", "E10", "E9", "E12", "O2"}
Stay == {"E2", "E3", "E10"}

\* update() of the login window: read(), then func, which is f or log.
LoginGoesOn(v) ==
  /\ logins[v] = 0 \/ Value(v) \in {"E"} \cup Stay
  /\ readOnly(v)
  /\ UNCHANGED <<process, steps, to_client, window, logins, buttons, chosen>>

\* ouvrir_fenetre_principale up to get_candidats.
LoginAccepted(v) ==
  /\ logins[v] > 0 /\ Value(v) = "O0"
  /\ window' = [window EXCEPT ![v] = "opening"]
  /\ read(v, << <<"GET_CANDIDATES">> >>, "GET_CANDIDATES")
  /\ UNCHANGED <<process, steps, to_client, logins, buttons, chosen>>

\* "Erreur inconnue, connexion fermée".
LoginRefused(v) ==
  /\ logins[v] > 0 /\ Value(v) \notin {"E", "O0"} \cup Stay
  /\ window' = [window EXCEPT ![v] = "refused"]
  /\ Exit(v) /\ Forget(v)
  /\ Send(v, Replies(v))
  /\ UNCHANGED <<steps, logins, chosen>>

UpdateClicked(v) ==
  /\ Running(v) /\ window[v] = "login" /\ responses[v] # <<>> /\ logins[v] > 0
  /\ LoginGoesOn(v) \/ LoginAccepted(v) \/ LoginRefused(v)
UpdateLogin(v) ==
  /\ Running(v) /\ window[v] = "login" /\ responses[v] # <<>>
  /\ LoginGoesOn(v) \/ LoginAccepted(v) \/ LoginRefused(v)

\* The read() that follows get_candidats at once; its value is not used.
OpenMain(v) ==
  /\ Running(v) /\ window[v] = "opening"
  /\ window' = [window EXCEPT ![v] = "main"]
  /\ readOnly(v)
  /\ UNCHANGED <<process, steps, to_client, logins, buttons, chosen>>

\* A button of each element of info: a name, or a letter of a code.
set_candidats(v) ==
  CASE Value(v) = "E" -> {}
    [] Value(v) = "CHAR" -> ToSet(Fetched(v))
    [] OTHER -> {Letter}

\* update() of the main window: func is set_candidats.
UpdateMain(v) ==
  /\ Running(v) /\ window[v] = "main" /\ responses[v] # <<>>
  /\ readOnly(v)
  /\ buttons' = [buttons EXCEPT ![v] = @ \cup set_candidats(v)]
  /\ UNCHANGED <<process, steps, to_client, window, logins, chosen>>

action(v) ==
  /\ Running(v) /\ window[v] = "main"
  /\ Len(chosen[v]) < MaxVotes
  /\ \E label \in buttons[v] :
       /\ vote(v, label)
       /\ chosen' = [chosen EXCEPT ![v] = Append(@, label)]
  /\ UNCHANGED <<process, steps, to_client, responses, candidats, window, logins,
                 buttons, printed>>

\* The user closes the window; the process ends and with it the connection.
CloseWindow(v) ==
  /\ Running(v) /\ window[v] \in {"login", "main"}
  /\ Cardinality({x \in Voters : window[x] # "refused" /\ process[x] = "exited"})
       < MaxClosed
  /\ Exit(v) /\ Forget(v)
  /\ UNCHANGED <<steps, to_server, window, logins, chosen>>

Timer(v) == UpdateLogin(v) \/ OpenMain(v) \/ UpdateMain(v)

-----------------------------------------------------------------------------
\* setup_vote.py and end_vote.py.

setup_vote_no_key == << <<"SEND_KEY">>, <<"SEND_KEY_PROOF">>, <<"LOGIN">>,
                        <<"VOTE_BEGIN", Slate>> >>
setup_vote == << <<"SEND_KEY">>, <<"SEND_KEY_PROOF">>, <<"LOGIN">>,
                 <<"VOTE_BEGIN", Slate>>, <<"SEND_KEY_PAILLIER">> >>
end_vote == << <<"SEND_KEY">>, <<"SEND_KEY_PROOF">>, <<"LOGIN">>, <<"VOTE_END">> >>

Setup(k) == k % 2 = 1
Script(k) == IF Setup(k) THEN setup_vote ELSE end_vote

\* import client connects.
RunScript(k) ==
  /\ Start(k)
  /\ UNCHANGED <<steps, channels, responses, gui>>

\* A pause, then the next command: other processes may do anything in between.
SendCommand(k) ==
  /\ Running(k) /\ steps[k] < Len(Script(k))
  /\ Send(k, << Script(k)[steps[k] + 1] >>)
  /\ steps' = [steps EXCEPT ![k] = @ + 1]
  /\ UNCHANGED <<process, to_client, responses, gui>>

Complete(k) == steps[k] = Len(Script(k))

EndScript(k) ==
  /\ Running(k) /\ Complete(k)
  /\ Exit(k)
  /\ UNCHANGED <<steps, to_server, responses, gui>>

\* Interrupted; what has been sent stays sent.
BreakScript(k) ==
  /\ Running(k) /\ ~Complete(k)
  /\ Cardinality({j \in 1..Scripts : process[j] = "exited" /\ ~Complete(j)}) < MaxBroken
  /\ Exit(k)
  /\ UNCHANGED <<steps, to_server, responses, gui>>
=============================================================================
