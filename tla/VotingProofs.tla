---------------------------- MODULE VotingProofs ----------------------------
(***************************************************************************)
(* The invariant of VotingSystem is inductive: one lemma for each step of  *)
(* the server, of the users and of the two threads of each client.  With   *)
(* it, for any number of voters, scripts, candidates and messages in the   *)
(* buffers: the last click of a voter stands, and the clients of the       *)
(* repository do not end the server.                                       *)
(***************************************************************************)
EXTENDS VotingServerProofs

\* What a step leaves alone.

SameClient(p) ==
  /\ process'[p] = process[p] /\ to_server'[p] = to_server[p]
  /\ (p \in backlog' <=> p \in backlog) /\ (p \in connected' <=> p \in connected)
  /\ p \in connected => SameRecord(m_clients[p], m_clients'[p])
SameWindow(v) ==
  /\ to_client'[v] = to_client[v] /\ responses'[v] = responses[v]
  /\ search'[v] = search[v] /\ candidats'[v] = candidats[v] /\ window'[v] = window[v]
  /\ buttons'[v] = buttons[v] /\ chosen'[v] = chosen[v]

LEMMA VoterLeftAlone ==
  ASSUME NEW v, VoterOf(v), SameClient(v), SameWindow(v),
         \A i \in DOMAIN outbox' : outbox'[i][1] = v =>
           \/ \E j \in DOMAIN outbox : outbox'[i] = outbox[j]
           \/ Genuine(v, outbox[i][2])' /\ (Auth(v)' => ~IsKey(outbox'[i][2]))
  PROVE  VoterOf(v)'
<1>1. Auth(v)' = Auth(v)
  BY DEF Auth, SameClient, SameRecord, E!IsAuth
<1>2. \A m : Genuine(v, m) => Genuine(v, m)'
  BY <1>1 DEF Genuine, SameWindow
<1>3. Past(v)' = Past(v)
  BY DEF Past, Running, SameClient, SameWindow
<1>4. AllGenuine(v)'
  <2>1. /\ \A i \in DOMAIN responses'[v] : Genuine(v, responses'[v][i])
        /\ \A i \in DOMAIN to_client'[v] : Genuine(v, to_client'[v][i])
    BY DEF VoterOf, AllGenuine, SameWindow
  <2>2. \A i \in DOMAIN outbox' : outbox'[i][1] = v => Genuine(v, outbox[i][2])'
    <3>1. SUFFICES ASSUME NEW i \in DOMAIN outbox', outbox'[i][1] = v
                   PROVE  Genuine(v, outbox[i][2])'
      OBVIOUS
    <3>2. CASE \E j \in DOMAIN outbox : outbox'[i] = outbox[j]
      BY <1>1, <3>1, <3>2 DEF VoterOf, AllGenuine, Genuine, SameWindow
    <3>3. QED
      BY <3>1, <3>2
  <2>3. QED
    BY <1>1, <2>1, <2>2 DEF AllGenuine, Genuine, SameWindow
<1>5. KeysFirst(v)'
  BY <1>1, <1>3 DEF VoterOf, KeysFirst, SameWindow, IsKey, KeyWords
<1>6. WindowOf(v)'
  BY <1>3 DEF VoterOf, WindowOf, SameWindow, SameClient, Running
<1>7. BallotOf(v)'
  <2>1. VoteInTransit(v)' = VoteInTransit(v)
    BY DEF VoteInTransit, SameClient
  <2>2. v \in connected => Recorded(v)' = Recorded(v)
    BY DEF Recorded, SameClient, SameRecord, SameWindow
  <2>3. \A i : IsLastVote(v, i)' = IsLastVote(v, i)
    BY DEF IsLastVote, SameClient
  <2>4. QED
    BY <1>1, <2>1, <2>2, <2>3 DEF VoterOf, BallotOf, SameClient, SameRecord, SameWindow
<1>8. QED
  BY <1>4, <1>5, <1>6, <1>7 DEF VoterOf

LEMMA ScriptLeftAlone ==
  ASSUME NEW k \in 1..Scripts, ScriptOf(k), SameClient(k), pallier => pallier',
         steps'[k] = steps[k]
  PROVE  ScriptOf(k)'
<1>1. Done(k)' = Done(k) /\ Script(k)' = Script(k) /\ Setup(k)' = Setup(k)
  BY DEF Done, Script, Setup, SameClient
<1> HIDE DEF Done, Script, Setup
<1>2. QED
  BY <1>1 DEF ScriptOf, SameClient, SameRecord, E!IsAuth

-----------------------------------------------------------------------------
\* Steps of the server.

LEMMA AuthKept ==
  ASSUME Inv, NEW p \in connected, NEW msg, Served(p, msg)
  PROVE  \A q : Auth(q) => Auth(q)'
BY DEF Served, Serves, SameRecord, Auth, E!IsAuth

LEMMA OutboxFacts ==
  ASSUME outbox' \in Seq(Deliverable)
  PROVE  /\ outbox' \in Seq(connected' \X Answer)
         /\ \A v \in Voters : \A i \in DOMAIN outbox' : outbox'[i][1] = v =>
              /\ Genuine(v, outbox[i][2])'
              /\ Auth(v)' => ~IsKey(outbox'[i][2])
<1>1. outbox' \in Seq(connected' \X Answer)
  BY SeqMonotonic DEF Deliverable
<1>2. \A i \in DOMAIN outbox' : outbox'[i] \in Deliverable
  OBVIOUS
<1>3. SUFFICES ASSUME NEW v \in Voters, NEW i \in DOMAIN outbox', outbox'[i][1] = v
               PROVE  Genuine(v, outbox[i][2])' /\ (Auth(v)' => ~IsKey(outbox'[i][2]))
  BY <1>1
<1>4. QED
  BY <1>2, <1>3 DEF Deliverable, Genuine

LEMMA RequestVoter ==
  ASSUME Inv, NEW p \in Voters, p \in connected, to_server[p] # <<>>,
         Served(p, Head(to_server[p])),
         to_server' = [to_server EXCEPT ![p] = Tail(@)],
         UNCHANGED <<process, steps, to_client, responses, gui, backlog>>
  PROVE  VoterOf(p)'
<1> DEFINE msg == Head(to_server[p])
<1>1. p \in Processes /\ VoterOf(p)
  BY ProcessFacts DEF Inv, VoterInv, VoterOf
<1>2. \A q : Auth(q) => Auth(q)'
  BY AuthKept
<1>3. \A m : Genuine(p, m) => Genuine(p, m)'
  BY <1>2 DEF Genuine, gui
<1>4. Past(p)' = Past(p)
  BY DEF Past, Running, gui
<1>5. \A i \in DOMAIN outbox' : outbox'[i][1] = p =>
        Genuine(p, outbox[i][2])' /\ (Auth(p)' => ~IsKey(outbox'[i][2]))
  BY OutboxFacts DEF Served
<1>6. AllGenuine(p)'
  BY <1>1, <1>3, <1>5 DEF VoterOf, AllGenuine
<1>7. KeysFirst(p)'
  BY <1>1, <1>2, <1>4, <1>5 DEF VoterOf, KeysFirst, IsKey, KeyWords
<1>8. WindowOf(p)'
  BY <1>1, <1>4 DEF VoterOf, WindowOf, gui, Running
<1>9. BallotOf(p)'
  <2> DEFINE old == to_server[p]
             new == to_server'[p]
  <2>1. /\ new = Tail(old) /\ 1 \in DOMAIN old /\ msg = old[1]
        /\ DOMAIN old = 1..Len(old) /\ DOMAIN new = 1..Len(old) - 1 /\ Len(old) \in Nat
        /\ \A i \in DOMAIN new : i + 1 \in DOMAIN old /\ new[i] = old[i + 1]
    BY <1>1, HeadFacts DEF Inv, ClientTypes
  <2> HIDE DEF old, new, msg
  <2>2. \A i \in DOMAIN new : new[i] \in VoterRequests
    BY <1>1, <2>1 DEF VoterOf, BallotOf, old
  <2>3. VoteInTransit(p) <=> msg[1] = "VOTE" \/ VoteInTransit(p)'
    <3>1. VoteInTransit(p) <=> \E i \in 1..Len(old) : old[i][1] = "VOTE"
      BY <2>1 DEF VoteInTransit, old
    <3>2. VoteInTransit(p)' <=> \E i \in 1..Len(old) - 1 : old[i + 1][1] = "VOTE"
      BY <2>1 DEF VoteInTransit, new
    <3>3. ASSUME NEW i \in 1..Len(old), i # 1
          PROVE  i - 1 \in 1..Len(old) - 1 /\ (i - 1) + 1 = i
      BY <2>1, <3>3
    <3>4. QED
      BY <2>1, <3>1, <3>2, <3>3
  <2>4. ASSUME NEW i \in DOMAIN new, IsLastVote(p, i)'
        PROVE  new[i][2] = Ballot(Slate, Last(chosen'[p]))
    <3>1. i + 1 \in DOMAIN old /\ new[i] = old[i + 1]
      BY <2>1, <2>4
    <3>2. ASSUME NEW j \in DOMAIN old, j > i + 1 PROVE old[j][1] # "VOTE"
      <4>1. j - 1 \in DOMAIN new /\ j - 1 > i /\ new[j - 1] = old[j]
        BY <2>1, <3>2
      <4>2. QED
        BY <2>4, <4>1 DEF IsLastVote, new
    <3>3. IsLastVote(p, i + 1)
      BY <2>4, <3>1, <3>2 DEF IsLastVote, new, old
    <3>4. QED
      BY <1>1, <3>1, <3>3 DEF VoterOf, BallotOf, gui, old
  <2>5. Serves(m_clients[p], m_clients'[p], msg) /\ connected' = connected
    BY DEF Served, msg
  <2>6. CASE msg[1] # "VOTE"
    <3>1. m_clients'[p].vote = m_clients[p].vote /\ m_clients'[p].voted = m_clients[p].voted
      BY <2>5, <2>6 DEF Serves
    <3>2. Recorded(p)' = Recorded(p)
      BY <3>1 DEF Recorded, gui
    <3>3. QED
      BY <1>1, <1>2, <2>2, <2>3, <2>4, <2>5, <2>6, <3>1, <3>2
         DEF VoterOf, BallotOf, gui, new
  <2>7. CASE msg[1] = "VOTE"
    <3>1. /\ Auth(p) /\ chosen[p] # <<>> /\ VoteInTransit(p)
          /\ msg[2] \in Papers
      BY <1>1, <2>3, <2>7, VoterHead DEF VoterOf, BallotOf, msg
    <3>2. m_clients'[p].voted /\ m_clients'[p].vote = msg[2]
      BY <2>5, <2>7, <3>1 DEF Serves, Auth
    <3>3. ~VoteInTransit(p)' => Recorded(p)'
      <4>1. SUFFICES ASSUME ~VoteInTransit(p)' PROVE Recorded(p)'
        OBVIOUS
      <4>2. ASSUME NEW j \in DOMAIN old, j > 1 PROVE old[j][1] # "VOTE"
        <5>1. j - 1 \in DOMAIN new /\ new[j - 1] = old[j]
          BY <2>1, <4>2
        <5>2. QED
          BY <4>1, <5>1 DEF VoteInTransit, new
      <4>3. IsLastVote(p, 1)
        BY <2>1, <2>7, <4>2 DEF IsLastVote, old
      <4>4. msg[2] = Ballot(Slate, Last(chosen[p]))
        BY <1>1, <2>1, <4>3 DEF VoterOf, BallotOf, old
      <4>5. QED
        BY <3>1, <3>2, <4>4 DEF Recorded, gui, ServerTypes, E!Client, Inv, Served
    <3>4. QED
      BY <1>2, <2>2, <2>4, <2>5, <3>1, <3>2, <3>3 DEF BallotOf, gui, new
  <2>8. QED
    BY <2>6, <2>7
<1>10. QED
  BY <1>6, <1>7, <1>8, <1>9 DEF VoterOf

LEMMA RequestScript ==
  ASSUME Inv, NEW p \in 1..Scripts, p \in connected, to_server[p] # <<>>,
         Served(p, Head(to_server[p])),
         to_server' = [to_server EXCEPT ![p] = Tail(@)],
         UNCHANGED <<process, steps, backlog>>
  PROVE  ScriptOf(p)'
<1> DEFINE msg == Head(to_server[p])
           new == to_server'[p]
           n == Len(to_server[p])
           d == Done(p)
           all == Len(Script(p))
<1>1. p \in Processes /\ ScriptOf(p) /\ process[p] # "idle"
  BY ProcessFacts DEF Inv, ScriptInv, Presence
<1>2. /\ n \in Nat \ {0} /\ Len(new) = n - 1 /\ DOMAIN new = 1..n - 1
      /\ \A i \in 1..n - 1 : i + 1 \in DOMAIN to_server[p] /\ new[i] = to_server[p][i + 1]
  BY <1>1, HeadFacts DEF Inv, ClientTypes
<1>3. all \in Nat /\ Script(p)' = Script(p) /\ Setup(p)' = Setup(p)
  BY ScriptFacts DEF Script, Setup
<1>4. /\ steps[p] \in Nat /\ steps[p] <= all /\ n <= steps[p] /\ d = steps[p] - n
      /\ \A i \in DOMAIN to_server[p] : to_server[p][i] = Script(p)[d + i]
  BY <1>1 DEF Inv, ClientTypes, ScriptOf, Done
<1>5. /\ d \in 0..all - 1
      /\ msg[1] = "VOTE_BEGIN" => msg[2] = Slate
      /\ msg[1] = "LOGIN" <=> d = 2
      /\ msg[1] = "SEND_KEY_PAILLIER" <=> d = 4
      /\ msg[1] \notin {"VOTE", "SEND_ZKP"}
  BY ScriptHead
<1>6. /\ m_clients'[p].is_admin /\ ~m_clients'[p].voted
      /\ m_clients'[p].vote = <<>> /\ m_clients'[p].proofs = <<>>
  BY <1>1, <1>5 DEF ScriptOf, Served, Serves
<1>7. d >= 3 => E!IsAuth(m_clients[p])
  BY <1>1 DEF ScriptOf
<1>8. Setup(p) /\ d + 1 = all => pallier'
  <2>1. SUFFICES ASSUME Setup(p), d + 1 = all PROVE pallier'
    OBVIOUS
  <2>2. all = 5
    BY <2>1, ScriptFacts
  <2>3. E!IsAdmin(m_clients[p])
    BY <1>1, <1>4, <1>7, <2>1, <2>2 DEF ScriptOf, E!IsAdmin
  <2>4. QED
    BY <1>4, <1>5, <2>1, <2>2, <2>3 DEF Served
<1>9. p \notin backlog' /\ p \in connected' /\ steps'[p] = steps[p]
      /\ process'[p] = process[p]
  BY DEF Inv, Presence, Served
<1>10. ~Setup(p) /\ process[p] # "idle" => pallier'
  BY <1>1 DEF ScriptOf, Served
<1>11. Done(p)' = d + 1
  BY <1>2, <1>4, <1>9 DEF Done
<1> HIDE DEF d, all, n, msg, new
<1>12. d + 1 >= 3 => E!IsAuth(m_clients'[p])
  <2>1. d \in Nat
    BY <1>3, <1>5
  <2>2. CASE d = 2
    BY <1>5, <2>2 DEF Served, Serves, msg
  <2>3. CASE d >= 3
    BY <1>7, <2>3 DEF Served, Serves, msg
  <2>4. QED
    BY <2>1, <2>2, <2>3
<1>13. \A i \in DOMAIN new : new[i] = Script(p)[(d + 1) + i]
  <2>1. TAKE i \in DOMAIN new
  <2>2. d + (i + 1) = (d + 1) + i
    BY <1>2, <1>3, <1>5
  <2>3. QED
    BY <1>2, <1>4, <2>2
<1>14. Len(new) <= steps[p]
  BY <1>2, <1>4
<1> HIDE DEF Done, Script, Setup
<1>15. QED
  BY <1>1, <1>3, <1>4, <1>6, <1>8, <1>9, <1>10, <1>11, <1>12, <1>13, <1>14
     DEF ScriptOf, new, all, E!IsAuth

LEMMA RequestInv ==
  ASSUME Inv, NEW p \in Processes, Request(p)
  PROVE  Inv'
<1> DEFINE msg == Head(to_server[p])
<1>1. /\ p \in connected /\ to_server[p] # <<>>
      /\ Handle(p, msg) /\ Post
      /\ to_server' = [to_server EXCEPT ![p] = Tail(@)]
      /\ UNCHANGED <<process, steps, to_client, responses, gui, backlog>>
  BY DEF Request
<1>2. Served(p, msg)
  BY <1>1, HandleServed DEF gui
<1> HIDE DEF msg
<1>3. Tail(to_server[p]) \in Seq(Requests)
  BY <1>1, HeadFacts
<1>4. \A q \in Processes \ {p} : to_server'[q] = to_server[q]
  BY <1>1 DEF Inv, ClientTypes
<1>5. ClientTypes'
  BY <1>1, <1>3 DEF Inv, ClientTypes, gui
<1>6. outbox' \in Seq(Deliverable) /\ connected' = connected
  BY <1>2 DEF Served
<1>7. ServerTypes'
  <2>1. outbox' \in Seq(connected' \X Answer)
    BY <1>6, OutboxFacts
  <2>2. QED
    BY <1>1, <1>2, <2>1 DEF Inv, ServerTypes, Served
<1>8. Presence'
  <2>1. \A q \in Processes : q \notin backlog' \cup connected' => to_server'[q] = <<>>
    BY <1>1, <1>4, <1>6 DEF Inv, Presence
  <2>2. QED
    BY <1>1, <1>6, <2>1 DEF Inv, Presence, gui, Running
<1>9. \A q \in Processes \ {p} : SameClient(q)
  BY <1>1, <1>2, <1>4, <1>6 DEF SameClient, Served
<1>10. VoterInv'
  <2>1. SUFFICES ASSUME NEW v \in Voters PROVE VoterOf(v)'
    BY DEF VoterInv
  <2>2. CASE v = p
    BY <1>1, <1>2, <2>2, RequestVoter DEF msg
  <2>3. CASE v # p
    <3>1. VoterOf(v) /\ SameClient(v) /\ SameWindow(v)
      BY <1>1, <1>9, <2>3, ProcessFacts DEF Inv, VoterInv, VoterOf, SameWindow, gui
    <3>2. \A i \in DOMAIN outbox' : outbox'[i][1] = v =>
            Genuine(v, outbox[i][2])' /\ (Auth(v)' => ~IsKey(outbox'[i][2]))
      BY <1>6, OutboxFacts
    <3>3. QED
      BY <3>1, <3>2, VoterLeftAlone
  <2>4. QED
    BY <2>2, <2>3
<1>11. ScriptInv'
  <2>1. SUFFICES ASSUME NEW k \in 1..Scripts PROVE ScriptOf(k)'
    BY DEF ScriptInv
  <2>2. CASE k = p
    BY <1>1, <1>2, <2>2, RequestScript DEF msg
  <2>3. CASE k # p
    <3>1. ScriptOf(k) /\ SameClient(k) /\ (pallier => pallier')
      BY <1>2, <1>9, <2>3, ProcessFacts DEF Inv, ScriptInv, Served
    <3>2. QED
      BY <1>1, <1>6, <3>1, ScriptLeftAlone
  <2>4. QED
    BY <2>2, <2>3
<1>12. QED
  BY <1>5, <1>7, <1>8, <1>10, <1>11 DEF Inv

LEMMA AcceptInv ==
  ASSUME Inv, NEW p \in Processes, Accept(p)
  PROVE  Inv'
<1> DEFINE record == [E!NewClient EXCEPT !.is_admin = TRUE]
           greeting == <<"SEND_KEY", "", "">>
<1>1. /\ p \in backlog /\ p \notin connected
      /\ connected' = connected \cup {p} /\ backlog' = backlog \ {p}
      /\ m_clients' = [x \in connected \cup {p} |-> IF x = p THEN record ELSE m_clients[x]]
      /\ E!Reply(p, <<greeting>>) /\ Post
      /\ UNCHANGED <<started, candidates, pallier, server, result, round, client_vars>>
  BY DEF Accept, E!OnConnect, Inv, ServerTypes
<1>2. /\ record \in E!Client /\ record.is_admin /\ ~record.voted
      /\ record.vote = <<>> /\ record.proofs = <<>> /\ ~E!IsAuth(record)
  <2>1. <<>> \in Seq(E!ZKProof) /\ <<>> \in Seq(0..2)
    OBVIOUS
  <2>2. QED
    BY <2>1 DEF E!NewClient, E!Client, E!State, E!IsAuth
<1> HIDE DEF record
<1>3. UNCHANGED <<process, steps, to_server, to_client, responses, search, candidats, window,
                  logins, buttons, printed, chosen>>
  BY <1>1 DEF client_vars, channels, gui
<1>4. ~Auth(p)'
  BY <1>1, <1>2 DEF Auth, E!IsAuth
<1>5. outbox' \in Seq(Deliverable)
  <2> DEFINE out == <<"SEND_KEY", "", "", <<>> >>
  <2>1. Filled(greeting) = out /\ Filled(greeting) \in Answer
    BY FilledPlain, WordFacts
  <2>5. greeting \in E!Message
    BY WordFacts DEF E!Message
  <2>2. Genuine(p, out)'
    BY DEF Genuine
  <2>3. <<p, Filled(greeting)>> \in Deliverable
    BY <1>1, <1>4, <2>1, <2>2 DEF Deliverable
  <2> HIDE DEF greeting
  <2>4. QED
    BY <1>1, <2>5, <2>3, SingleMessage, ReplyPosts
<1>6. ClientTypes'
  BY <1>3 DEF Inv, ClientTypes
<1>7. ServerTypes'
  <2>1. outbox' \in Seq(connected' \X Answer)
    BY <1>5, OutboxFacts
  <2>2. m_clients' \in [connected' -> E!Client]
    BY <1>1, <1>2 DEF Inv, ServerTypes
  <2>3. QED
    BY <1>1, <2>1, <2>2 DEF Inv, ServerTypes
<1>8. Presence'
  BY <1>1, <1>3 DEF Inv, Presence, Running
<1>9. \A q \in Processes \ {p} : SameClient(q)
  <2>1. TAKE q \in Processes \ {p}
  <2>2. q \in connected => m_clients'[q] = m_clients[q]
    BY <1>1
  <2>3. (q \in backlog' <=> q \in backlog) /\ (q \in connected' <=> q \in connected)
    BY <1>1
  <2>4. QED
    BY <1>3, <2>2, <2>3 DEF SameClient, SameRecord
<1>10. VoterInv'
  <2>1. SUFFICES ASSUME NEW v \in Voters PROVE VoterOf(v)'
    BY DEF VoterInv
  <2>2. VoterOf(v) /\ SameWindow(v)
    BY <1>3 DEF Inv, VoterInv, VoterOf, SameWindow
  <2>3. \A i \in DOMAIN outbox' : outbox'[i][1] = v =>
            Genuine(v, outbox[i][2])' /\ (Auth(v)' => ~IsKey(outbox'[i][2]))
    BY <1>5, OutboxFacts
  <2>4. CASE v # p
    BY <1>9, <2>2, <2>3, <2>4, ProcessFacts, VoterLeftAlone
  <2>5. CASE v = p
    <3>1. ~Auth(v) /\ ~Auth(v)'
      BY <1>1, <1>4, <2>5 DEF Auth
    <3>2. /\ window[v] = "login" /\ chosen[v] = <<>>
          /\ ~VoteInTransit(v) /\ responses[v] = <<>> /\ to_client[v] = <<>>
      BY <1>1, <2>2, <2>5, <3>1, ProcessFacts
         DEF Inv, Presence, VoterOf, WindowOf, BallotOf
    <3>3. AllGenuine(v)'
      BY <1>3, <2>3, <3>2 DEF AllGenuine
    <3>4. KeysFirst(v)'
      BY <1>3, <2>3, <3>1, <3>2 DEF KeysFirst, Past
    <3>5. WindowOf(v)'
      BY <1>3, <2>2 DEF VoterOf, WindowOf, Past, Running
    <3>6. BallotOf(v)'
      <4>1. ~VoteInTransit(v)' /\ \A i : ~IsLastVote(v, i)' \/ i \notin DOMAIN to_server'[v]
        BY <1>3, <3>2 DEF VoteInTransit, IsLastVote
      <4>2. m_clients'[v] = record
        BY <1>1, <2>5
      <4>3. Recorded(v)' /\ ~m_clients'[v].voted
        BY <1>2, <1>3, <3>2, <4>2 DEF Recorded, E!Client
      <4>4. QED
        BY <1>3, <2>2, <4>1, <4>3 DEF VoterOf, BallotOf
    <3>7. QED
      BY <3>3, <3>4, <3>5, <3>6 DEF VoterOf
  <2>6. QED
    BY <2>4, <2>5
<1>11. ScriptInv'
  <2>1. SUFFICES ASSUME NEW k \in 1..Scripts PROVE ScriptOf(k)'
    BY DEF ScriptInv
  <2>3. ScriptOf(k)
    BY DEF Inv, ScriptInv
  <2>4. CASE k # p
    BY <1>1, <1>3, <1>9, <2>3, <2>4, ProcessFacts, ScriptLeftAlone
  <2>5. CASE k = p
    <3>1. process[k] # "idle" /\ Done(k) = 0
      BY <1>1, <2>3, <2>5 DEF Inv, Presence, ScriptOf
    <3>2. Done(k)' = Done(k) /\ Script(k)' = Script(k) /\ Setup(k)' = Setup(k)
      BY <1>3 DEF Done, Script, Setup
    <3>3. m_clients'[k] = record
      BY <1>1, <2>5
    <3>4. /\ process'[k] = process[k] /\ to_server'[k] = to_server[k]
          /\ steps'[k] = steps[k] /\ k \notin backlog' /\ pallier' = pallier
      BY <1>1, <1>3, <2>5
    <3> HIDE DEF Done, Script, Setup
    <3>5. ~(Done(k)' >= 3)
      BY <3>1, <3>2
    <3>6. QED
      BY <1>2, <2>3, <3>1, <3>2, <3>3, <3>4, <3>5 DEF ScriptOf
  <2>6. QED
    BY <2>4, <2>5
<1>12. QED
  BY <1>6, <1>7, <1>8, <1>10, <1>11 DEF Inv

LEMMA DisconnectInv ==
  ASSUME Inv, NEW p \in Processes, Disconnect(p)
  PROVE  Inv'
<1>1. /\ outbox = <<>> /\ p \in connected
      /\ to_server[p] = <<>> /\ process[p] = "exited"
      /\ connected' = connected \ {p}
      /\ m_clients' = [x \in connected \ {p} |-> m_clients[x]]
      /\ UNCHANGED <<started, candidates, pallier, server>>
      /\ UNCHANGED <<client_vars, backlog, outbox>>
  BY DEF Disconnect, Free, E!OnDisconnect, E!Erase, Inv, ServerTypes
<1>2. UNCHANGED <<process, steps, to_server, to_client, responses, search, candidats, window,
                  logins, buttons, printed, chosen>>
  BY <1>1 DEF client_vars, channels, gui
<1>3. ClientTypes'
  BY <1>2 DEF Inv, ClientTypes
<1>4. ServerTypes'
  <2>1. outbox' \in Seq(connected' \X Answer)
    BY <1>1, EmptySeq
  <2>2. m_clients' \in [connected' -> E!Client]
    BY <1>1 DEF Inv, ServerTypes
  <2>3. QED
    BY <1>1, <2>1, <2>2 DEF Inv, ServerTypes
<1>5. Presence'
  BY <1>1, <1>2 DEF Inv, Presence, Running
<1>6. \A q \in Processes \ {p} : SameClient(q)
  BY <1>1, <1>2 DEF SameClient, SameRecord
<1>7. VoterInv'
  <2>1. SUFFICES ASSUME NEW v \in Voters PROVE VoterOf(v)'
    BY DEF VoterInv
  <2>2. VoterOf(v) /\ SameWindow(v)
    BY <1>2 DEF Inv, VoterInv, VoterOf, SameWindow
  <2>3. CASE v # p
    BY <1>1, <1>6, <2>2, <2>3, ProcessFacts, VoterLeftAlone
  <2>4. CASE v = p
    <3>1. ~Auth(v)' /\ ~Running(v) /\ to_client[v] = <<>> /\ responses[v] = <<>>
      BY <1>1, <2>4 DEF Auth, Running, Inv, Presence
    <3>2. AllGenuine(v)' /\ KeysFirst(v)'
      BY <1>1, <1>2, <3>1 DEF AllGenuine, KeysFirst, Past, Running
    <3>3. WindowOf(v)'
      BY <1>2, <2>2 DEF VoterOf, WindowOf, Past, Running
    <3>4. BallotOf(v)'
      BY <1>1, <1>2, <2>4 DEF BallotOf, VoteInTransit
    <3>5. QED
      BY <3>2, <3>3, <3>4 DEF VoterOf
  <2>5. QED
    BY <2>3, <2>4
<1>8. ScriptInv'
  <2>1. SUFFICES ASSUME NEW k \in 1..Scripts PROVE ScriptOf(k)'
    BY DEF ScriptInv
  <2>2. ScriptOf(k)
    BY DEF Inv, ScriptInv
  <2>3. CASE k # p
    BY <1>1, <1>2, <1>6, <2>2, <2>3, ProcessFacts, ScriptLeftAlone
  <2>4. CASE k = p
    <3>1. /\ Done(k)' = Done(k) /\ Script(k)' = Script(k) /\ Setup(k)' = Setup(k)
          /\ k \notin connected' /\ k \notin backlog'
      BY <1>1, <1>2, <2>4 DEF Done, Script, Setup, Inv, Presence
    <3> HIDE DEF Done, Script, Setup
    <3>2. QED
      BY <1>1, <1>2, <2>2, <3>1 DEF ScriptOf
  <2>5. QED
    BY <2>3, <2>4
<1>9. QED
  BY <1>3, <1>4, <1>5, <1>7, <1>8 DEF Inv

LEMMA SendNextInv ==
  ASSUME Inv, SendNext
  PROVE  Inv'
<1> DEFINE p == outbox[1][1]
           m == outbox[1][2]
<1>1. /\ outbox # <<>> /\ outbox' = Tail(outbox)
      /\ \/ UNCHANGED to_client
         \/ /\ process[p] # "exited" /\ Len(to_client[p]) < Room
            /\ to_client' = [to_client EXCEPT ![p] = Append(@, m)]
      /\ UNCHANGED <<process, steps, to_server, responses, search, candidats, window,
                     logins, buttons, printed, chosen, connected, m_clients,
                     started, candidates, pallier, server, backlog>>
  BY DEF SendNext, Free, HasRoom, gui
<1>2. outbox \in Seq(connected \X Answer) /\ connected \subseteq Processes
  BY DEF Inv, ServerTypes
<1>3. /\ Len(outbox) \in Nat \ {0} /\ 1 \in DOMAIN outbox
      /\ outbox[1] \in connected \X Answer
      /\ outbox' \in Seq(connected \X Answer)
      /\ \A i \in DOMAIN outbox' : \E j \in DOMAIN outbox : outbox'[i] = outbox[j]
  <2>1. outbox' \in Seq(connected \X Answer)
    BY <1>1, <1>2
  <2>2. Len(outbox) \in Nat \ {0} /\ DOMAIN outbox = 1..Len(outbox)
    BY <1>1, <1>2
  <2>3. /\ Len(outbox') = Len(outbox) - 1
        /\ \A i \in 1..Len(outbox') : outbox'[i] = outbox[i + 1]
    BY <1>1, <1>2, HeadTailProperties
  <2>4. DOMAIN outbox' = 1..Len(outbox) - 1
    BY <2>1, <2>3
  <2>5. \A i \in DOMAIN outbox' : i + 1 \in DOMAIN outbox /\ outbox'[i] = outbox[i + 1]
    BY <2>2, <2>3, <2>4
  <2>6. QED
    BY <1>2, <2>1, <2>2, <2>5
<1>4. p \in connected /\ p \in Processes /\ m \in Answer
  BY <1>2, <1>3
<1> HIDE DEF p, m
<1>5. ClientTypes'
  <2>1. CASE UNCHANGED to_client
    BY <1>1, <2>1 DEF Inv, ClientTypes
  <2>2. CASE /\ Len(to_client[p]) < Room
             /\ to_client' = [to_client EXCEPT ![p] = Append(@, m)]
    <3>1. to_client[p] \in Seq(Answer) /\ Room \in Nat
      BY <1>4, SystemAssumption DEF Inv, ClientTypes
    <3>2. Append(to_client[p], m) \in Seq(Answer) /\ Len(Append(to_client[p], m)) <= Room
      BY <1>4, <2>2, <3>1
    <3>3. QED
      BY <1>1, <1>4, <2>2, <3>2 DEF Inv, ClientTypes
  <2>3. QED
    BY <1>1, <2>1, <2>2
<1>6. ServerTypes'
  BY <1>1, <1>3 DEF Inv, ServerTypes
<1>7. \A q \in Processes : q # p => to_client'[q] = to_client[q]
  BY <1>1 DEF Inv, ClientTypes
<1>8. Presence'
  <2>1. process[p] \in {"running", "exited"}
    BY <1>4 DEF Inv, Presence, ClientTypes
  <2>2. \A q \in Processes : to_client'[q] # <<>> => Running(q)' /\ q \in connected'
    BY <1>1, <1>4, <1>7, <2>1 DEF Inv, Presence, Running
  <2>3. QED
    BY <1>1, <2>2 DEF Inv, Presence, Running
<1>9. \A q \in Processes : SameClient(q)
  BY <1>1 DEF SameClient, SameRecord
<1>10. VoterInv'
  <2>1. SUFFICES ASSUME NEW v \in Voters PROVE VoterOf(v)'
    BY DEF VoterInv
  <2>2. VoterOf(v) /\ v \in Processes
    BY ProcessFacts DEF Inv, VoterInv, VoterOf
  <2>3. CASE to_client'[v] = to_client[v]
    <3>1. SameWindow(v)
      BY <1>1, <2>3 DEF SameWindow
    <3>2. QED
      BY <1>3, <1>9, <2>2, <3>1, VoterLeftAlone
  <2>4. CASE to_client'[v] # to_client[v]
    <3>1. v = p /\ to_client'[v] = Append(to_client[v], m) /\ to_client[v] \in Seq(Answer)
      BY <1>1, <1>4, <1>7, <2>2, <2>4 DEF Inv, ClientTypes
    <3>2. Genuine(v, m) /\ (IsKey(m) => ~Auth(v))
      BY <1>3, <2>2, <3>1 DEF VoterOf, AllGenuine, KeysFirst, p, m
    <3>3. (Auth(v)' <=> Auth(v)) /\ (Past(v)' <=> Past(v))
      BY <1>1 DEF Auth, Past, Running
    <3>4. \A x : Genuine(v, x) => Genuine(v, x)'
      BY <1>1, <3>3 DEF Genuine
    <3> DEFINE old == to_client[v]
               new == to_client'[v]
               n == Len(old)
    <3>5. /\ n \in Nat /\ DOMAIN old = 1..n /\ DOMAIN new = 1..n + 1
          /\ \A i \in 1..n : new[i] = old[i]
          /\ new[n + 1] = m
      BY <3>1
    <3> HIDE DEF n, old, new
    <3>6. AllGenuine(v)'
      <4>1. \A i \in DOMAIN new : Genuine(v, new[i])
        BY <2>2, <3>2, <3>5 DEF VoterOf, AllGenuine, old
      <4>2. \A i \in DOMAIN outbox' : outbox'[i][1] = v => Genuine(v, outbox'[i][2])
        BY <1>3, <2>2 DEF VoterOf, AllGenuine
      <4>3. \A i \in DOMAIN responses'[v] : Genuine(v, responses'[v][i])
        BY <1>1, <2>2 DEF VoterOf, AllGenuine
      <4>4. QED
        BY <1>1, <3>3, <4>1, <4>2, <4>3 DEF AllGenuine, Genuine, new
    <3>7. KeysFirst(v)'
      <4>1. Auth(v) => \A i \in DOMAIN outbox' : outbox'[i][1] = v => ~IsKey(outbox'[i][2])
        BY <1>3, <2>2 DEF VoterOf, KeysFirst
      <4>2. IsKey(m) => /\ \A i \in DOMAIN old : old[i][3] # "O0"
                        /\ \A i \in DOMAIN responses[v] : responses[v][i][3] # "O0"
                        /\ ~Past(v)
        BY <2>2, <3>2 DEF VoterOf, AllGenuine, KeysFirst, Genuine, old
      <4>3. \A i, j \in DOMAIN new : i < j /\ new[i][3] = "O0" => ~IsKey(new[j])
        <5>1. SUFFICES ASSUME NEW i \in 1..n + 1, NEW j \in 1..n + 1,
                              i < j, new[i][3] = "O0"
                       PROVE  ~IsKey(new[j])
          BY <3>5
        <5>2. i \in 1..n /\ (j \in 1..n \/ j = n + 1)
          BY <3>5, <5>1
        <5>3. QED
          BY <2>2, <3>5, <4>2, <5>1, <5>2 DEF VoterOf, KeysFirst, old
      <4>4. \A i \in DOMAIN responses[v], j \in DOMAIN new :
              responses[v][i][3] = "O0" => ~IsKey(new[j])
        BY <2>2, <3>5, <4>2 DEF VoterOf, KeysFirst, old
      <4>5. Past(v) => \A i \in DOMAIN new : ~IsKey(new[i])
        BY <2>2, <3>5, <4>2 DEF VoterOf, KeysFirst, old
      <4>6. QED
        BY <1>1, <2>2, <3>3, <4>1, <4>3, <4>4, <4>5 DEF VoterOf, KeysFirst, new, IsKey
    <3>8. WindowOf(v)' /\ BallotOf(v)'
      <4>1. WindowOf(v)'
        BY <1>1, <2>2, <3>3 DEF VoterOf, WindowOf, Running
      <4>2. QED
        BY <1>1, <2>2, <3>3, <4>1 DEF VoterOf, BallotOf, VoteInTransit, IsLastVote, Recorded
    <3>9. QED
      BY <3>6, <3>7, <3>8 DEF VoterOf
  <2>5. QED
    BY <2>3, <2>4
<1>11. ScriptInv'
  <2>1. SUFFICES ASSUME NEW k \in 1..Scripts PROVE ScriptOf(k)'
    BY DEF ScriptInv
  <2>2. ScriptOf(k) /\ SameClient(k)
    BY <1>9, ProcessFacts DEF Inv, ScriptInv
  <2>3. QED
    BY <1>1, <2>2, ScriptLeftAlone
<1>12. QED
  BY <1>5, <1>6, <1>8, <1>10, <1>11 DEF Inv

-----------------------------------------------------------------------------
\* Steps of the clients.

\* What a client adds behind its ballots leaves them what they are.
LEMMA AppendQuiet ==
  ASSUME NEW v, to_server[v] \in Seq(Requests), BallotOf(v),
         NEW msgs \in Seq(VoterRequests), \A i \in DOMAIN msgs : msgs[i][1] # "VOTE",
         to_server'[v] = to_server[v] \o msgs, chosen'[v] = chosen[v],
         UNCHANGED <<connected, m_clients>>
  PROVE  BallotOf(v)'
<1> DEFINE old == to_server[v]
           new == to_server'[v]
           n == Len(old)
           k == Len(msgs)
<1>1. /\ n \in Nat /\ k \in Nat /\ DOMAIN old = 1..n /\ DOMAIN msgs = 1..k
      /\ DOMAIN new = 1..n + k
      /\ \A i \in 1..n : new[i] = old[i]
      /\ \A i \in 1..n + k : i > n => i - n \in 1..k /\ new[i] = msgs[i - n]
  <2>1. msgs \in Seq(Requests)
    BY SeqMonotonic DEF Requests
  <2>2. old \o msgs \in Seq(Requests) /\ Len(old \o msgs) = n + k
    BY <2>1
  <2>3. QED
    BY <2>1, <2>2
<1> HIDE DEF old, new, n, k
<1>2. \A i \in DOMAIN new : new[i] \in VoterRequests /\ (i > n => new[i][1] # "VOTE")
  <2>1. TAKE i \in DOMAIN new
  <2>2. CASE i > n
    <3>1. i - n \in DOMAIN msgs /\ new[i] = msgs[i - n]
      BY <1>1, <2>2
    <3>2. QED
      BY <3>1
  <2>3. CASE i \in 1..n
    <3>1. ~(i > n) /\ new[i] = old[i] /\ i \in DOMAIN to_server[v]
      BY <1>1, <2>3 DEF old
    <3>2. QED
      BY <3>1 DEF BallotOf, old
  <2>4. QED
    BY <1>1, <2>2, <2>3
<1>3. /\ \A i \in 1..n : i \in DOMAIN new
      /\ \A i \in DOMAIN new : i > n \/ i \in 1..n
  BY <1>1
<1>4. VoteInTransit(v)' <=> VoteInTransit(v)
  BY <1>1, <1>2, <1>3 DEF VoteInTransit, old, new
<1>5. \A i \in DOMAIN new : IsLastVote(v, i)' => i \in DOMAIN old /\ IsLastVote(v, i)
  BY <1>1, <1>2, <1>3 DEF IsLastVote, old, new
<1>6. Auth(v)' = Auth(v) /\ Recorded(v)' = Recorded(v)
  BY DEF Auth, Recorded
<1>7. QED
  BY <1>1, <1>2, <1>4, <1>5, <1>6 DEF BallotOf, old, new

LEMMA OthersLeftAlone ==
  ASSUME Inv, NEW p \in Processes, UNCHANGED <<election, outbox>>,
         \A q \in Processes \ {p} :
           process'[q] = process[q] /\ to_server'[q] = to_server[q]
           /\ (q \in backlog' <=> q \in backlog),
         \A u \in Voters \ {p} : SameWindow(u),
         \A k \in 1..Scripts : k # p => steps'[k] = steps[k]
  PROVE  /\ \A u \in Voters : u # p => VoterOf(u)'
         /\ \A k \in 1..Scripts : k # p => ScriptOf(k)'
<1>1. UNCHANGED <<connected, m_clients, pallier, outbox>>
  BY DEF election
<1>2. \A q \in Processes \ {p} : SameClient(q)
  BY <1>1 DEF SameClient, SameRecord
<1>3. ASSUME NEW u \in Voters, u # p PROVE VoterOf(u)'
  <2>1. VoterOf(u) /\ SameClient(u) /\ SameWindow(u)
    BY <1>2, <1>3, ProcessFacts DEF Inv, VoterInv, VoterOf
  <2>2. QED
    BY <1>1, <2>1, VoterLeftAlone
<1>4. ASSUME NEW k \in 1..Scripts, k # p PROVE ScriptOf(k)'
  <2>1. ScriptOf(k) /\ SameClient(k) /\ k \in Processes
    BY <1>2, <1>4, ProcessFacts DEF Inv, ScriptInv
  <2>2. QED
    BY <1>1, <1>4, <2>1, ScriptLeftAlone
<1>5. QED
  BY <1>3, <1>4

\* The server's side of a step of a client.
LEMMA ServerLeftAlone ==
  ASSUME ServerTypes, UNCHANGED <<election, outbox>>, backlog' \subseteq Processes
  PROVE  ServerTypes'
BY DEF ServerTypes, election

LEMMA LaunchInv ==
  ASSUME Inv, NEW v \in Voters, Launch(v), UNCHANGED <<election, outbox>>
  PROVE  Inv'
<1>1. /\ process[v] = "idle" /\ process' = [process EXCEPT ![v] = "running"]
      /\ backlog' = backlog \cup {v} /\ v \in Processes
      /\ UNCHANGED <<steps, to_server, to_client, responses, search, candidats, window,
                     logins, buttons, printed, chosen>>
      /\ UNCHANGED <<connected, m_clients, outbox>>
  BY ProcessFacts DEF Launch, OpenWindow, Start, channels, gui, election
<1>2. v \notin backlog \cup connected /\ to_server[v] = <<>>
  BY <1>1 DEF Inv, Presence
<1>3. ClientTypes'
  BY <1>1 DEF Inv, ClientTypes
<1>4. ServerTypes'
  BY <1>1, ServerLeftAlone DEF Inv, ServerTypes
<1>5. /\ process'[v] = "running"
      /\ \A q \in Processes \ {v} :
           process'[q] = process[q] /\ (q \in backlog' <=> q \in backlog)
  BY <1>1 DEF Inv, ClientTypes
<1>6. Presence'
  <2>1. backlog' \cap connected' = {}
    BY <1>1, <1>2 DEF Inv, Presence
  <2>2. \A p \in Processes :
       /\ process'[p] = "idle" => p \notin backlog' \cup connected'
       /\ process'[p] = "running" => p \in backlog' \cup connected'
       /\ to_client'[p] # <<>> => Running(p)' /\ p \in connected'
       /\ p \notin backlog' \cup connected' => to_server'[p] = <<>>
    BY <1>1, <1>5 DEF Inv, Presence, Running
  <2>3. \A u \in Voters :
       /\ responses'[u] # <<>> \/ printed'[u] # <<>> => Running(u)' /\ u \in connected'
       /\ process'[u] = "idle" \/ u \in backlog' => window'[u] = "login"
    BY <1>1, <1>5, ProcessFacts DEF Inv, Presence, Running
  <2>4. QED
    BY <2>1, <2>2, <2>3 DEF Presence
<1>7. /\ \A u \in Voters : u # v => VoterOf(u)'
      /\ \A k \in 1..Scripts : k # v => ScriptOf(k)'
  BY <1>1, <1>5, OthersLeftAlone DEF SameWindow
<1>8. VoterOf(v)'
  <2>1. VoterOf(v) /\ window[v] = "login"
    BY <1>1 DEF Inv, Presence, VoterInv, VoterOf
  <2>2. /\ \A m : Genuine(v, m)' <=> Genuine(v, m)
        /\ Auth(v)' = Auth(v) /\ ~Past(v)'
    BY <1>1, <2>1 DEF Genuine, Auth, Past
  <2>3. AllGenuine(v)' /\ KeysFirst(v)'
    BY <1>1, <2>1, <2>2 DEF VoterOf, AllGenuine, KeysFirst, Genuine, Auth
  <2>4. WindowOf(v)'
    BY <1>1, <2>1, <2>2 DEF VoterOf, WindowOf
  <2>5. BallotOf(v)'
    BY <1>1, <2>1, <2>2 DEF VoterOf, BallotOf, VoteInTransit, IsLastVote, Recorded
  <2>6. QED
    BY <2>3, <2>4, <2>5 DEF VoterOf
<1>9. QED
  BY <1>3, <1>4, <1>6, <1>7, <1>8, ProcessFacts DEF Inv, VoterInv, VoterOf, ScriptInv

LEMMA OperateInv ==
  ASSUME Inv, NEW p \in 1..Scripts, Operate(p), UNCHANGED <<election, outbox>>
  PROVE  Inv'
<1>1. /\ process[p] = "idle" /\ process' = [process EXCEPT ![p] = "running"]
      /\ backlog' = backlog \cup {p} /\ p \in Processes /\ p \notin Voters
      /\ UNCHANGED <<steps, to_server, to_client, responses, search, candidats, window,
                     logins, buttons, printed, chosen>>
      /\ UNCHANGED <<connected, m_clients, outbox, pallier>>
  BY ProcessFacts DEF Operate, RunScript, Start, channels, gui, election
<1>2. p \notin backlog \cup connected /\ to_server[p] = <<>>
  BY <1>1 DEF Inv, Presence
<1>3. ~Setup(p) => pallier
  <2>1. SUFFICES ASSUME ~Setup(p) PROVE pallier
    OBVIOUS
  <2>2. PICK j \in 1..Scripts : SetUp(j)
    BY <2>1 DEF Inv, Operate
  <2>3. to_server[j] = <<>>
    BY <2>2, ProcessFacts DEF SetUp, Inv, Presence
  <2>4. Done(j) = Len(Script(j))
    BY <2>2, <2>3, ScriptFacts DEF SetUp, Complete, Done
  <2>5. QED
    BY <2>2, <2>4 DEF SetUp, Inv, ScriptInv, ScriptOf
<1>4. /\ process'[p] = "running"
      /\ \A q \in Processes \ {p} :
           process'[q] = process[q] /\ (q \in backlog' <=> q \in backlog)
  BY <1>1 DEF Inv, ClientTypes
<1>5. ClientTypes'
  BY <1>1 DEF Inv, ClientTypes
<1>6. ServerTypes'
  BY <1>1, ServerLeftAlone DEF Inv, ServerTypes
<1>7. Presence'
  <2>1. backlog' \cap connected' = {}
    BY <1>1, <1>2 DEF Inv, Presence
  <2>2. \A q \in Processes :
       /\ process'[q] = "idle" => q \notin backlog' \cup connected'
       /\ process'[q] = "running" => q \in backlog' \cup connected'
       /\ to_client'[q] # <<>> => Running(q)' /\ q \in connected'
       /\ q \notin backlog' \cup connected' => to_server'[q] = <<>>
    BY <1>1, <1>4 DEF Inv, Presence, Running
  <2>3. \A u \in Voters :
       /\ responses'[u] # <<>> \/ printed'[u] # <<>> => Running(u)' /\ u \in connected'
       /\ process'[u] = "idle" \/ u \in backlog' => window'[u] = "login"
    BY <1>1, <1>4, ProcessFacts DEF Inv, Presence, Running
  <2>4. QED
    BY <2>1, <2>2, <2>3 DEF Presence
<1>8. /\ \A u \in Voters : u # p => VoterOf(u)'
      /\ \A k \in 1..Scripts : k # p => ScriptOf(k)'
  BY <1>1, <1>4, OthersLeftAlone DEF SameWindow
<1>9. ScriptOf(p)'
  <2>1. /\ Done(p)' = Done(p) /\ Script(p)' = Script(p) /\ Setup(p)' = Setup(p)
        /\ ScriptOf(p)
    BY <1>1 DEF Inv, ScriptInv, Done, Script, Setup
  <2>2. Done(p) = 0
    BY <1>1, <1>2, <2>1 DEF Done, ScriptOf
  <2>3. p \notin connected' /\ process'[p] # "idle"
    BY <1>1, <1>2, <1>4
  <2> HIDE DEF Done, Script, Setup
  <2>4. QED
    BY <1>1, <1>3, <2>1, <2>2, <2>3 DEF ScriptOf
<1>10. QED
  BY <1>1, <1>5, <1>6, <1>7, <1>8, <1>9 DEF Inv, VoterInv, VoterOf, ScriptInv

LEMMA SendCommandInv ==
  ASSUME Inv, NEW p \in 1..Scripts, SendCommand(p), UNCHANGED <<election, outbox, backlog>>
  PROVE  Inv'
<1> DEFINE n == steps[p]
           old == to_server[p]
           new == to_server'[p]
           msg == Script(p)[n + 1]
<1>1. /\ process[p] = "running" /\ n < Len(Script(p))
      /\ to_server' = [to_server EXCEPT ![p] = @ \o <<msg>>]
      /\ steps' = [steps EXCEPT ![p] = @ + 1]
      /\ p \in Processes /\ p \notin Voters
      /\ UNCHANGED <<process, to_client, responses, search, candidats, window,
                     logins, buttons, printed, chosen>>
      /\ UNCHANGED <<connected, m_clients, outbox, backlog, pallier>>
  BY ProcessFacts DEF SendCommand, Running, Send, gui, election
<1>2. /\ n \in Nat /\ old \in Seq(Requests) /\ ScriptOf(p)
      /\ Script(p) \in Seq(Requests) /\ Len(Script(p)) \in Nat
      /\ Script(p)' = Script(p) /\ Setup(p)' = Setup(p)
  <2>1. n \in Nat /\ old \in Seq(Requests) /\ ScriptOf(p)
    BY <1>1 DEF Inv, ClientTypes, ScriptInv
  <2>2. Script(p) \in Seq(Requests)
    BY ScriptFacts
  <2>3. Len(Script(p)) \in Nat
    BY <2>2
  <2>4. Script(p)' = Script(p) /\ Setup(p)' = Setup(p)
    BY DEF Script, Setup
  <2>5. QED
    BY <2>1, <2>2, <2>3, <2>4
<1>3. msg \in Requests
  BY ONLY <1>1, <1>2
<1>4. /\ \A q \in Processes \ {p} : to_server'[q] = to_server[q]
      /\ \A k \in 1..Scripts : k # p => steps'[k] = steps[k]
      /\ new = old \o <<msg>> /\ steps'[p] = n + 1
  BY <1>1 DEF Inv, ClientTypes
<1>5. /\ new \in Seq(Requests) /\ Len(old) \in Nat /\ Len(new) = Len(old) + 1
      /\ new[Len(old) + 1] = msg
      /\ \A i \in 1..Len(old) : i \in DOMAIN old /\ new[i] = old[i]
  <2> HIDE DEF msg, new, old
  <2>1. QED
    BY <1>2, <1>3, <1>4
<1>6. ClientTypes'
  <2>1. to_server' \in [Processes -> Seq(Requests)]
    BY <1>1, <1>5 DEF Inv, ClientTypes
  <2>2. steps' \in [1..Scripts -> Nat]
    BY <1>1, <1>2 DEF Inv, ClientTypes
  <2>3. QED
    BY <1>1, <2>1, <2>2 DEF Inv, ClientTypes
<1>7. ServerTypes'
  BY <1>1, ServerLeftAlone DEF Inv, ServerTypes
<1>8. Presence'
  <2>1. p \in backlog \cup connected
    BY <1>1 DEF Inv, Presence
  <2>2. \A q \in Processes : q \notin backlog' \cup connected' => to_server'[q] = <<>>
    BY <1>1, <1>4, <2>1 DEF Inv, Presence
  <2>3. QED
    BY <1>1, <2>2 DEF Inv, Presence, Running
<1>9. /\ \A u \in Voters : u # p => VoterOf(u)'
      /\ \A k \in 1..Scripts : k # p => ScriptOf(k)'
  BY <1>1, <1>4, OthersLeftAlone DEF SameWindow
<1>10. ScriptOf(p)'
  <2>1. Done(p)' = Done(p) /\ Done(p) = n - Len(old)
    <3>1. Done(p) = n - Len(old)
      BY DEF Done
    <3>2. Done(p)' = (n + 1) - (Len(old) + 1)
      BY <1>4, <1>5 DEF Done
    <3> HIDE DEF n, old, Done
    <3>3. QED
      BY <1>2, <1>5, <3>1, <3>2
  <2> HIDE DEF Done, Script, Setup
  <2>2. /\ Len(old) <= n
        /\ \A i \in DOMAIN old : old[i] = Script(p)[Done(p) + i]
    BY <1>2 DEF ScriptOf
  <2> HIDE DEF n, old, new
  <2>3. \A i \in DOMAIN new : new[i] = Script(p)[Done(p) + i]
    <3>1. TAKE i \in DOMAIN new
    <3>2. CASE i \in 1..Len(old)
      BY <1>5, <2>2, <3>2
    <3>3. CASE i = Len(old) + 1
      <4>1. Done(p) + i = n + 1
        BY <1>2, <1>5, <2>1, <3>3
      <4>2. QED
        BY <1>5, <3>3, <4>1
    <3>4. DOMAIN new = 1..Len(old) + 1
      BY <1>5
    <3>5. QED
      BY <1>5, <3>2, <3>3, <3>4
  <2>4. /\ steps'[p] <= Len(Script(p)) /\ Len(new) <= steps'[p]
    BY <1>1, <1>2, <1>4, <1>5, <2>2
  <2>5. QED
    BY <1>1, <1>2, <2>1, <2>3, <2>4 DEF ScriptOf, new, n
<1>11. QED
  BY <1>1, <1>6, <1>7, <1>8, <1>9, <1>10 DEF Inv, VoterInv, VoterOf, ScriptInv

LEMMA EndScriptInv ==
  ASSUME Inv, NEW p \in 1..Scripts, EndScript(p) \/ BreakScript(p),
         UNCHANGED <<election, outbox, backlog>>
  PROVE  Inv'
<1>1. /\ process[p] = "running" /\ process' = [process EXCEPT ![p] = "exited"]
      /\ to_client' = [to_client EXCEPT ![p] = <<>>]
      /\ p \in Processes /\ p \notin Voters
      /\ UNCHANGED <<steps, to_server, responses, search, candidats, window,
                     logins, buttons, printed, chosen>>
      /\ UNCHANGED <<connected, m_clients, outbox, backlog, pallier>>
  BY ProcessFacts DEF EndScript, BreakScript, Running, Exit, gui, election
<1>2. /\ process'[p] = "exited" /\ to_client'[p] = <<>>
      /\ \A q \in Processes \ {p} :
           process'[q] = process[q] /\ to_client'[q] = to_client[q]
  BY <1>1 DEF Inv, ClientTypes
<1>3. ClientTypes'
  <2>1. <<>> \in Seq(Answer) /\ Len(<<>>) <= Room
    BY SystemAssumption
  <2>2. to_client' \in [Processes -> Seq(Answer)]
    BY <1>1, <2>1 DEF Inv, ClientTypes
  <2>3. \A q \in Processes : Len(to_client'[q]) <= Room
    BY <1>2, <2>1 DEF Inv, ClientTypes
  <2>4. QED
    BY <1>1, <2>2, <2>3 DEF Inv, ClientTypes
<1>4. ServerTypes'
  BY <1>1, ServerLeftAlone DEF Inv, ServerTypes
<1>5. Presence'
  BY <1>1, <1>2, ProcessFacts DEF Inv, Presence, Running
<1>6. /\ \A u \in Voters : u # p => VoterOf(u)'
      /\ \A k \in 1..Scripts : k # p => ScriptOf(k)'
  <2>1. \A u \in Voters \ {p} : SameWindow(u)
    BY <1>1, <1>2, ProcessFacts DEF SameWindow
  <2>2. QED
    BY <1>1, <1>2, <2>1, OthersLeftAlone
<1>7. ScriptOf(p)'
  <2>1. /\ Done(p)' = Done(p) /\ Script(p)' = Script(p) /\ Setup(p)' = Setup(p)
        /\ ScriptOf(p)
    BY <1>1 DEF Inv, ScriptInv, Done, Script, Setup
  <2> HIDE DEF Done, Script, Setup
  <2>2. QED
    BY <1>1, <1>2, <2>1 DEF ScriptOf
<1>8. QED
  BY <1>1, <1>3, <1>4, <1>5, <1>6, <1>7 DEF Inv, VoterInv, VoterOf, ScriptInv

\* A step of the programs of v alone.
Isolated(v) ==
  /\ UNCHANGED <<election, outbox, backlog, steps>>
  /\ \A q \in Processes \ {v} :
       /\ process'[q] = process[q] /\ to_server'[q] = to_server[q]
       /\ to_client'[q] = to_client[q]
  /\ \A u \in Voters \ {v} : SameWindow(u) /\ printed'[u] = printed[u]

LEMMA VoterStep ==
  ASSUME Inv, NEW v \in Voters, Running(v), Isolated(v), ClientTypes', VoterOf(v)',
         process'[v] \in {"running", "exited"},
         to_client'[v] # <<>> => process'[v] = "running" /\ to_client[v] # <<>>,
         responses'[v] # <<>> \/ printed'[v] # <<>> =>
           process'[v] = "running" /\ v \in connected,
         v \in backlog => window'[v] = "login"
  PROVE  Inv'
<1>1. v \in Processes /\ UNCHANGED <<election, outbox, backlog, connected, m_clients>>
  BY ProcessFacts DEF Isolated, election
<1>2. ServerTypes'
  BY <1>1, ServerLeftAlone DEF Inv, ServerTypes
<1>3. \A p \in Processes :
       /\ process'[p] = "idle" => p \notin backlog' \cup connected'
       /\ process'[p] = "running" => p \in backlog' \cup connected'
       /\ to_client'[p] # <<>> => Running(p)' /\ p \in connected'
       /\ p \notin backlog' \cup connected' => to_server'[p] = <<>>
  <2>1. TAKE p \in Processes
  <2>2. CASE p # v
    BY <1>1, <2>2 DEF Inv, Presence, Running, Isolated
  <2>3. CASE p = v
    BY <1>1, <2>3 DEF Inv, Presence, Running
  <2>4. QED
    BY <2>2, <2>3
<1>4. \A u \in Voters :
       /\ responses'[u] # <<>> \/ printed'[u] # <<>> => Running(u)' /\ u \in connected'
       /\ process'[u] = "idle" \/ u \in backlog' => window'[u] = "login"
  <2>1. TAKE u \in Voters
  <2>2. CASE u # v
    BY <1>1, <2>2, ProcessFacts DEF Inv, Presence, Running, Isolated, SameWindow
  <2>3. CASE u = v
    BY <1>1, <2>3 DEF Running
  <2>4. QED
    BY <2>2, <2>3
<1>5. Presence'
  BY <1>1, <1>3, <1>4 DEF Inv, Presence
<1>6. /\ \A u \in Voters : u # v => VoterOf(u)'
      /\ \A k \in 1..Scripts : k # v => ScriptOf(k)'
  BY <1>1, OthersLeftAlone DEF Isolated, Running
<1>7. QED
  BY <1>2, <1>5, <1>6, ProcessFacts DEF Inv, VoterInv, VoterOf, ScriptInv

LEMMA SendType ==
  ASSUME Inv, NEW p \in Processes, NEW msgs \in Seq(VoterRequests), Send(p, msgs)
  PROVE  /\ to_server' \in [Processes -> Seq(Requests)]
         /\ to_server'[p] = to_server[p] \o msgs
         /\ \A q \in Processes \ {p} : to_server'[q] = to_server[q]
<1>1. msgs \in Seq(Requests) /\ to_server \in [Processes -> Seq(Requests)]
  BY SeqMonotonic DEF Inv, ClientTypes, Requests
<1>2. to_server[p] \o msgs \in Seq(Requests)
  BY <1>1
<1>3. QED
  BY <1>1, <1>2 DEF Send

\* With the messages to v and its record unchanged.
LEMMA MailLeftAlone ==
  ASSUME NEW v, AllGenuine(v), KeysFirst(v),
         UNCHANGED <<connected, m_clients, outbox>>,
         to_client'[v] = to_client[v], responses'[v] = responses[v],
         chosen[v] # <<>> => chosen'[v] # <<>>, Past(v)' => Past(v)
  PROVE  AllGenuine(v)' /\ KeysFirst(v)'
<1>1. Auth(v)' <=> Auth(v)
  BY DEF Auth
<1>2. AllGenuine(v)'
  BY <1>1 DEF AllGenuine, Genuine
<1>3. KeysFirst(v)'
  BY <1>1 DEF KeysFirst, IsKey
<1>4. QED
  BY <1>2, <1>3

LEMMA LoginClickInv ==
  ASSUME Inv, NEW v \in Voters, verifier_login(v), UNCHANGED <<election, outbox, backlog>>
  PROVE  Inv'
<1> DEFINE msgs == << <<"LOGIN">> >>
<1>1. /\ Running(v) /\ window[v] = "login" /\ v \in Processes
      /\ logins[v] < MaxLogins /\ logins' = [logins EXCEPT ![v] = @ + 1]
      /\ Send(v, msgs) /\ search' = [search EXCEPT ![v] = "LOGIN"]
      /\ UNCHANGED <<process, steps, to_client, responses, candidats, window, buttons,
                     printed, chosen>>
      /\ UNCHANGED <<connected, m_clients, outbox, backlog>>
  BY ProcessFacts DEF verifier_login, election
<1>2. msgs \in Seq(VoterRequests) /\ \A i \in DOMAIN msgs : msgs[i][1] # "VOTE"
  <2>1. <<"LOGIN">> \in VoterRequests
    BY DEF VoterRequests
  <2>2. QED
    BY <2>1
<1> HIDE DEF msgs
<1>3. /\ to_server' \in [Processes -> Seq(Requests)]
      /\ to_server'[v] = to_server[v] \o msgs
      /\ \A q \in Processes \ {v} : to_server'[q] = to_server[q]
  BY <1>1, <1>2, SendType
<1>4. ClientTypes'
  <2>1. logins' \in [Voters -> 0..MaxLogins]
    BY <1>1, ClientAssumption DEF Inv, ClientTypes
  <2>2. search' \in [Voters -> Words]
    BY <1>1 DEF Inv, ClientTypes, Words
  <2>3. QED
    BY <1>1, <1>3, <2>1, <2>2 DEF Inv, ClientTypes
<1>5. search'[v] = "LOGIN" /\ \A u \in Voters \ {v} : search'[u] = search[u]
  BY <1>1 DEF Inv, ClientTypes
<1>6. Isolated(v)
  BY <1>1, <1>3, <1>5 DEF Isolated, SameWindow
<1>7. VoterOf(v)'
  <2>1. VoterOf(v) /\ ~Past(v) /\ ~Past(v)'
    BY <1>1 DEF Inv, VoterInv, VoterOf, Past
  <2>2. AllGenuine(v)' /\ KeysFirst(v)'
    BY <1>1, <2>1, MailLeftAlone DEF VoterOf
  <2>3. WindowOf(v)'
    BY <1>1, <1>5, <2>1 DEF VoterOf, WindowOf, Running
  <2>4. BallotOf(v)'
    BY <1>1, <1>2, <1>3, <2>1, AppendQuiet DEF VoterOf, Inv, ClientTypes
  <2>5. QED
    BY <2>2, <2>3, <2>4 DEF VoterOf
<1>8. QED
  BY <1>1, <1>4, <1>6, <1>7, VoterStep DEF Inv, Presence, Running

\* What is left of a process whose window has closed; it may have answered keys
\* first.
LEMMA ExitInv ==
  ASSUME Inv, NEW v \in Voters, Running(v), Exit(v), Forget(v),
         NEW msgs \in Seq(VoterRequests), \A i \in DOMAIN msgs : msgs[i][1] # "VOTE",
         Send(v, msgs), UNCHANGED <<steps, logins, chosen>>,
         UNCHANGED <<election, outbox, backlog>>,
         window' \in [Voters -> {"login", "opening", "main", "refused"}],
         \A u \in Voters \ {v} : window'[u] = window[u],
         v \in backlog => window'[v] = "login",
         chosen[v] # <<>> => window'[v] = "main"
  PROVE  Inv'
<1>1. /\ v \in Processes
      /\ process' = [process EXCEPT ![v] = "exited"]
      /\ to_client' = [to_client EXCEPT ![v] = <<>>]
      /\ responses' = [responses EXCEPT ![v] = <<>>]
      /\ candidats' = [candidats EXCEPT ![v] = <<>>]
      /\ buttons' = [buttons EXCEPT ![v] = {}]
      /\ printed' = [printed EXCEPT ![v] = <<>>]
      /\ search' = [search EXCEPT ![v] = ""]
      /\ UNCHANGED <<connected, m_clients, outbox, backlog>>
  BY ProcessFacts DEF Exit, Forget, election
<1>2. /\ to_server' \in [Processes -> Seq(Requests)]
      /\ to_server'[v] = to_server[v] \o msgs
      /\ \A q \in Processes \ {v} : to_server'[q] = to_server[q]
  BY <1>1, SendType
<1>3. /\ process'[v] = "exited" /\ to_client'[v] = <<>> /\ responses'[v] = <<>>
      /\ search'[v] = "" /\ buttons'[v] = {}
      /\ \A q \in Processes \ {v} :
           process'[q] = process[q] /\ to_client'[q] = to_client[q]
      /\ \A u \in Voters \ {v} :
           /\ responses'[u] = responses[u] /\ candidats'[u] = candidats[u]
           /\ buttons'[u] = buttons[u] /\ search'[u] = search[u]
           /\ printed'[u] = printed[u]
      /\ printed'[v] = <<>>
  BY <1>1 DEF Inv, ClientTypes
<1>4. ClientTypes'
  <2>1. <<>> \in Seq(Answer) /\ Len(<<>>) <= Room
    BY SystemAssumption
  <2>2. to_client' \in [Processes -> Seq(Answer)] /\ responses' \in [Voters -> Seq(Answer)]
    BY <1>1, <2>1 DEF Inv, ClientTypes
  <2>3. \A q \in Processes : Len(to_client'[q]) <= Room
    BY <1>3, <2>1 DEF Inv, ClientTypes
  <2>4. /\ candidats' \in [Voters -> {<<>>, Slate}]
        /\ buttons' \in [Voters -> SUBSET Labels]
        /\ search' \in [Voters -> Words]
        /\ process' \in [Processes -> {"idle", "running", "exited"}]
    BY <1>1 DEF Inv, ClientTypes, Words
  <2>5. printed' \in [Voters -> Seq(Enclosed)]
    <3>1. <<>> \in Seq(Enclosed)
      OBVIOUS
    <3>2. QED
      BY <1>1, <3>1 DEF Inv, ClientTypes
  <2>6. QED
    BY <1>2, <2>2, <2>3, <2>4, <2>5 DEF Inv, ClientTypes
<1>5. Isolated(v)
  BY <1>2, <1>3, ProcessFacts DEF Isolated, SameWindow
<1>6. VoterOf(v)'
  <2>1. VoterOf(v) /\ ~Running(v)' /\ ~Past(v)'
    BY <1>3 DEF Inv, VoterInv, VoterOf, Past, Running
  <2>2. Auth(v)' <=> Auth(v)
    BY <1>1 DEF Auth
  <2>3. AllGenuine(v)' /\ KeysFirst(v)'
    <3>1. DOMAIN to_client'[v] = {} /\ DOMAIN responses'[v] = {}
      <4>1. DOMAIN <<>> = {}
        OBVIOUS
      <4>2. to_client'[v] = <<>> /\ responses'[v] = <<>>
        BY <1>3
      <4>3. QED
        BY ONLY <4>1, <4>2
    <3>2. outbox' = outbox /\ chosen' = chosen
      BY <1>1
    <3>3. \A m : Genuine(v, m) => Genuine(v, m)'
      BY <2>2, <3>2 DEF Genuine
    <3>4. AllGenuine(v)'
      BY <2>1, <3>1, <3>2, <3>3 DEF VoterOf, AllGenuine
    <3>5. KeysFirst(v)'
      BY <2>1, <2>2, <3>1, <3>2 DEF VoterOf, KeysFirst, IsKey
    <3>6. QED
      BY <3>4, <3>5
  <2>4. WindowOf(v)'
    BY <1>3, <2>1 DEF VoterOf, WindowOf
  <2>5. BallotOf(v)'
    BY <1>1, <1>2, <2>1, AppendQuiet DEF VoterOf, Inv, ClientTypes
  <2>6. QED
    BY <2>3, <2>4, <2>5 DEF VoterOf
<1>7. QED
  BY <1>3, <1>4, <1>5, <1>6, VoterStep

LEMMA CloseWindowInv ==
  ASSUME Inv, NEW v \in Voters, CloseWindow(v), UNCHANGED <<election, outbox, backlog>>
  PROVE  Inv'
<1>1. /\ Running(v) /\ Exit(v) /\ Forget(v)
      /\ UNCHANGED <<steps, to_server, window, logins, chosen>>
  BY DEF CloseWindow
<1>2. <<>> \in Seq(VoterRequests) /\ \A i \in DOMAIN <<>> : <<>>[i][1] # "VOTE"
  OBVIOUS
<1>3. Send(v, <<>>)
  <2>1. v \in Processes /\ to_server \in [Processes -> Seq(Requests)]
    BY ProcessFacts DEF Inv, ClientTypes
  <2>2. to_server[v] \o <<>> = to_server[v]
    BY <2>1, ConcatEmptySeq
  <2>3. [to_server EXCEPT ![v] = to_server[v] \o <<>>] = to_server
    BY <2>1, <2>2
  <2>4. QED
    BY <1>1, <2>3 DEF Send
<1>4. /\ window \in [Voters -> {"login", "opening", "main", "refused"}]
      /\ v \in backlog => window[v] = "login"
      /\ chosen[v] # <<>> => window[v] = "main"
  BY DEF Inv, ClientTypes, Presence, VoterInv, VoterOf, WindowOf
<1>5. QED
  BY <1>1, <1>2, <1>3, <1>4, ExitInv

LEMMA ActionInv ==
  ASSUME Inv, NEW v \in Voters, action(v), UNCHANGED <<election, outbox, backlog>>
  PROVE  Inv'
<1> DEFINE zkps == [i \in DOMAIN candidats[v] |-> <<"SEND_ZKP", i>>]
           old == to_server[v]
<1>1. PICK label \in buttons[v] :
        vote(v, label) /\ chosen' = [chosen EXCEPT ![v] = Append(@, label)]
  BY DEF action
<1> DEFINE paper == Ballot(Slate, label)
           ballot == <<"VOTE", paper>>
           msgs == zkps \o <<ballot>>
<1>2. VoterOf(v) /\ v \in Processes
  BY ProcessFacts DEF Inv, VoterInv, VoterOf
<1>3. candidats[v] = Slate /\ window[v] = "main" /\ Running(v)
  BY <1>1, <1>2 DEF VoterOf, WindowOf
<1>4. /\ Send(v, msgs) /\ search' = [search EXCEPT ![v] = "VOTE"]
      /\ UNCHANGED <<process, steps, to_client, responses, candidats, window, logins,
                     buttons, printed>>
      /\ UNCHANGED <<connected, m_clients, outbox, backlog>>
  BY <1>1, <1>3 DEF action, vote, election
<1>5. /\ zkps \in Seq(VoterRequests) /\ ballot \in VoterRequests /\ paper \in Papers
      /\ \A i \in DOMAIN zkps : zkps[i][1] # "VOTE"
  <2>1. DOMAIN zkps = 1..Len(Slate) /\ Len(Slate) \in Nat
    BY <1>3, SlateFacts
  <2>2. \A i \in DOMAIN zkps : zkps[i] \in VoterRequests /\ zkps[i][1] # "VOTE"
    BY <1>3 DEF VoterRequests
  <2>3. paper \in Papers
    BY <1>1 DEF Papers, Inv, ClientTypes
  <2>4. ballot \in VoterRequests
    BY <2>3 DEF VoterRequests
  <2>5. zkps \in [1..Len(Slate) -> VoterRequests]
    BY <2>1, <2>2
  <2>6. QED
    BY <2>1, <2>2, <2>3, <2>4, <2>5, SeqDef
<1>6. ballot[1] = "VOTE" /\ ballot[2] = paper
  OBVIOUS
<1> HIDE DEF zkps, ballot, paper
<1>7. /\ msgs \in Seq(VoterRequests) /\ Len(msgs) = Len(zkps) + 1 /\ Len(zkps) \in Nat
      /\ \A i \in 1..Len(zkps) : msgs[i] = zkps[i]
      /\ msgs[Len(zkps) + 1] = ballot
  BY <1>5
<1> HIDE DEF msgs
<1>8. /\ to_server' \in [Processes -> Seq(Requests)]
      /\ to_server'[v] = to_server[v] \o msgs
      /\ \A q \in Processes \ {v} : to_server'[q] = to_server[q]
  BY <1>2, <1>4, <1>7, SendType
<1>9. /\ chosen[v] \in Seq(Labels) /\ label \in Labels
      /\ chosen'[v] = Append(chosen[v], label) /\ chosen'[v] \in Seq(Labels)
      /\ chosen'[v] # <<>> /\ Last(chosen'[v]) = label
      /\ chosen' \in [Voters -> Seq(Labels)]
  <2>1. chosen[v] \in Seq(Labels) /\ label \in Labels
    BY <1>1 DEF Inv, ClientTypes
  <2>2. chosen'[v] = Append(chosen[v], label)
    BY <1>1 DEF Inv, ClientTypes
  <2>3. /\ chosen'[v] \in Seq(Labels) /\ Len(chosen'[v]) = Len(chosen[v]) + 1
        /\ chosen'[v][Len(chosen[v]) + 1] = label /\ Len(chosen[v]) \in Nat
    BY <2>1, <2>2, AppendProperties
  <2>4. chosen'[v] # <<>>
    BY <2>3
  <2>5. Last(chosen'[v]) = label
    BY <2>3 DEF Last
  <2>6. chosen' \in [Voters -> Seq(Labels)]
    BY <1>1, <2>1, <2>2, <2>3 DEF Inv, ClientTypes
  <2>7. QED
    BY <2>1, <2>2, <2>3, <2>4, <2>5, <2>6
<1>10. ClientTypes'
  <2>1. search' \in [Voters -> Words]
    BY <1>4 DEF Inv, ClientTypes, Words
  <2>2. QED
    BY <1>4, <1>8, <1>9, <2>1 DEF Inv, ClientTypes
<1>11. search'[v] = "VOTE" /\ \A u \in Voters \ {v} :
         search'[u] = search[u] /\ chosen'[u] = chosen[u]
  BY <1>1, <1>4 DEF Inv, ClientTypes
<1>12. Isolated(v)
  BY <1>4, <1>8, <1>11 DEF Isolated, SameWindow
<1>13. BallotOf(v)'
  <2> DEFINE new == to_server'[v]
             n == Len(old)
             k == Len(zkps)
  <2>1. old \in Seq(Requests) /\ msgs \in Seq(Requests)
    BY <1>2, <1>7, SeqMonotonic DEF Inv, ClientTypes, Requests
  <2>2. /\ n \in Nat /\ k \in Nat /\ DOMAIN old = 1..n /\ DOMAIN new = 1..n + k + 1
        /\ \A i \in 1..n : new[i] = old[i]
        /\ \A i \in 1..n + k + 1 : i > n => new[i] = msgs[i - n] /\ i - n \in 1..k + 1
    <3>1. old \o msgs \in Seq(Requests) /\ Len(old \o msgs) = n + k + 1
      BY <1>7, <2>1
    <3>2. QED
      BY <1>7, <1>8, <2>1, <3>1
  <2>3. DOMAIN msgs = 1..k + 1
    BY <1>7
  <2> HIDE DEF old, new, n, k
  <2>4. \A i \in DOMAIN new : new[i] \in VoterRequests
    <3>1. TAKE i \in DOMAIN new
    <3>2. CASE i > n
      <4>1. new[i] = msgs[i - n] /\ i - n \in DOMAIN msgs
        BY <2>2, <2>3, <3>2
      <4>2. QED
        BY <1>7, <4>1
    <3>3. CASE i \in 1..n
      BY <1>2, <2>2, <3>3 DEF VoterOf, BallotOf, old
    <3>4. QED
      BY <2>2, <3>2, <3>3
  <2>5. n + k + 1 \in DOMAIN new /\ new[n + k + 1] = ballot
    <3>1. n + k + 1 \in 1..n + k + 1 /\ n + k + 1 > n /\ (n + k + 1) - n = k + 1
      BY <2>2
    <3>2. QED
      BY <1>7, <2>2, <3>1 DEF k
  <2>6. ASSUME NEW i \in DOMAIN new, IsLastVote(v, i)'
        PROVE  i = n + k + 1
    <3>1. ~(n + k + 1 > i)
      BY <1>6, <2>5, <2>6 DEF IsLastVote, new
    <3>2. QED
      BY <2>2, <2>6, <3>1
  <2>7. VoteInTransit(v)'
    BY <1>6, <2>5 DEF VoteInTransit, new
  <2>8. Auth(v)
    BY <1>2, <1>3 DEF VoterOf, KeysFirst, Past
  <2>9. Auth(v)'
    BY <1>4, <2>8 DEF Auth
  <2>10. \A i \in DOMAIN new :
           IsLastVote(v, i)' => new[i][2] = Ballot(Slate, Last(chosen'[v]))
    BY <1>6, <1>9, <2>5, <2>6 DEF paper
  <2>11. QED
    BY <1>2, <1>4, <1>9, <2>4, <2>7, <2>9, <2>10 DEF VoterOf, BallotOf, new
<1>14. VoterOf(v)'
  <2>1. Past(v)' <=> Past(v)
    BY <1>4 DEF Past, Running
  <2>2. AllGenuine(v)' /\ KeysFirst(v)'
    BY <1>2, <1>4, <1>9, <2>1, MailLeftAlone DEF VoterOf
  <2>3. WindowOf(v)'
    BY <1>1, <1>2, <1>3, <1>4, <1>9, <1>11, <2>1 DEF VoterOf, WindowOf, Running
  <2>4. QED
    BY <1>13, <2>2, <2>3 DEF VoterOf
<1>15. QED
  BY <1>3, <1>4, <1>10, <1>12, <1>14, VoterStep DEF Inv, Presence, Running

LEMMA ListenVoter ==
  ASSUME Inv, NEW v \in Voters, Running(v), to_client[v] # <<>>, Isolated(v),
         to_client'[v] = Tail(to_client[v]),
         responses'[v] = Append(responses[v], Head(to_client[v])),
         UNCHANGED <<process, to_server, search, candidats, window, buttons, chosen>>
  PROVE  VoterOf(v)'
<1> DEFINE old == to_client[v]
           new == to_client'[v]
           queue == responses[v]
           kept == responses'[v]
           m == Head(to_client[v])
           n == Len(to_client[v])
           k == Len(responses[v])
<1>1. /\ VoterOf(v) /\ v \in Processes
      /\ UNCHANGED <<connected, m_clients, outbox>>
      /\ old \in Seq(Answer) /\ queue \in Seq(Answer)
  BY ProcessFacts DEF Inv, VoterInv, VoterOf, ClientTypes, Isolated, election
<1>2. /\ n \in Nat \ {0} /\ DOMAIN old = 1..n /\ m = old[1]
      /\ DOMAIN new = 1..n - 1 /\ \A i \in 1..n - 1 : new[i] = old[i + 1]
  <2>1. n \in Nat \ {0} /\ DOMAIN old = 1..n /\ m = old[1]
    BY <1>1
  <2>2. /\ new \in Seq(Answer) /\ Len(new) = n - 1
        /\ \A i \in 1..Len(new) : new[i] = old[i + 1]
    BY <1>1, HeadTailProperties
  <2>3. QED
    BY <2>1, <2>2
<1>3. /\ k \in Nat /\ DOMAIN queue = 1..k /\ DOMAIN kept = 1..k + 1
      /\ \A i \in 1..k : kept[i] = queue[i]
      /\ kept[k + 1] = m
  <2>1. m \in Answer
    BY <1>1, <1>2
  <2>2. QED
    BY <1>1, <2>1, AppendProperties
<1>4. 1 \in DOMAIN old /\ \A i \in 1..n - 1 : i + 1 \in DOMAIN old /\ i + 1 > 1
  BY <1>2
<1>5. /\ \A i \in 1..k + 1 : i \in 1..k \/ i = k + 1
      /\ \A i, j \in 1..k + 1 : i < j => i \in 1..k
      /\ \A i, j \in 1..n - 1 : i < j => i + 1 < j + 1
  BY <1>2, <1>3
<1> HIDE DEF old, new, queue, kept, m, n, k
<1>6. (Auth(v)' <=> Auth(v)) /\ (Past(v)' <=> Past(v))
  BY <1>1 DEF Auth, Past, Running
<1>7. AllGenuine(v)'
  <2>1. \A i \in DOMAIN new : Genuine(v, new[i])
    BY <1>1, <1>2, <1>4 DEF VoterOf, AllGenuine, old
  <2>2. \A i \in DOMAIN kept : Genuine(v, kept[i])
    BY <1>1, <1>2, <1>3, <1>4, <1>5 DEF VoterOf, AllGenuine, old, queue
  <2>3. (\A i \in DOMAIN to_client[v] : Genuine(v, to_client[v][i]))'
    BY <1>6, <2>1 DEF Genuine, new
  <2>4. (\A i \in DOMAIN responses[v] : Genuine(v, responses[v][i]))'
    BY <1>6, <2>2 DEF Genuine, kept
  <2>5. (\A i \in DOMAIN outbox : outbox[i][1] = v => Genuine(v, outbox[i][2]))'
    BY <1>1, <1>6 DEF VoterOf, AllGenuine, Genuine
  <2>6. QED
    BY <2>3, <2>4, <2>5 DEF AllGenuine
<1>8. KeysFirst(v)'
  <2>1. Auth(v) => \A i \in DOMAIN outbox' : outbox'[i][1] = v => ~IsKey(outbox'[i][2])
    BY <1>1 DEF VoterOf, KeysFirst
  <2>2. \A i, j \in DOMAIN new : i < j /\ new[i][3] = "O0" => ~IsKey(new[j])
    <3>1. TAKE i, j \in DOMAIN new
    <3>2. i + 1 \in DOMAIN old /\ j + 1 \in DOMAIN old /\ (i < j => i + 1 < j + 1)
      BY <1>2, <1>5
    <3>3. i + 1 < j + 1 /\ old[i + 1][3] = "O0" => ~IsKey(old[j + 1])
      BY <1>1, <3>2 DEF VoterOf, KeysFirst, old
    <3>4. QED
      BY <1>2, <3>2, <3>3
  <2>3. \A i, j \in DOMAIN kept : i < j /\ kept[i][3] = "O0" => ~IsKey(kept[j])
    <3>1. SUFFICES ASSUME NEW i \in DOMAIN kept, NEW j \in DOMAIN kept,
                          i < j, kept[i][3] = "O0"
                   PROVE  ~IsKey(kept[j])
      OBVIOUS
    <3>2. i \in 1..k /\ (j \in 1..k \/ j = k + 1)
      BY <1>3, <1>5, <3>1
    <3>3. i \in DOMAIN queue /\ queue[i] = kept[i]
      BY <1>3, <3>2
    <3>4. CASE j \in 1..k
      <4>1. j \in DOMAIN queue /\ queue[j] = kept[j]
        BY <1>3, <3>4
      <4>2. QED
        BY <1>1, <3>1, <3>3, <4>1 DEF VoterOf, KeysFirst, queue
    <3>5. CASE j = k + 1
      <4>1. kept[j] = old[1]
        BY <1>2, <1>3, <3>5
      <4>2. QED
        BY <1>1, <1>4, <3>1, <3>3, <4>1 DEF VoterOf, KeysFirst, queue, old
    <3>6. QED
      BY <3>2, <3>4, <3>5
  <2>4. \A i \in DOMAIN kept, j \in DOMAIN new : kept[i][3] = "O0" => ~IsKey(new[j])
    <3>1. SUFFICES ASSUME NEW i \in DOMAIN kept, NEW j \in DOMAIN new, kept[i][3] = "O0"
                   PROVE  ~IsKey(new[j])
      OBVIOUS
    <3>2. j + 1 \in DOMAIN old /\ j + 1 > 1 /\ 1 < j + 1 /\ new[j] = old[j + 1]
      BY <1>2, <1>4, <3>1
    <3>3. CASE i \in 1..k
      <4>1. i \in DOMAIN queue /\ queue[i] = kept[i]
        BY <1>3, <3>3
      <4>2. QED
        BY <1>1, <3>1, <3>2, <4>1 DEF VoterOf, KeysFirst, queue, old
    <3>4. CASE i = k + 1
      <4>1. kept[i] = old[1]
        BY <1>2, <1>3, <3>4
      <4>2. QED
        BY <1>1, <1>4, <3>1, <3>2, <4>1 DEF VoterOf, KeysFirst, old
    <3>5. QED
      BY <1>3, <1>5, <3>3, <3>4
  <2>5. Past(v) => /\ Auth(v)
                   /\ \A i \in DOMAIN kept : ~IsKey(kept[i])
                   /\ \A i \in DOMAIN new : ~IsKey(new[i])
    BY <1>1, <1>2, <1>3, <1>4, <1>5 DEF VoterOf, KeysFirst, old, queue
  <2>6. QED
    BY <1>6, <2>1, <2>2, <2>3, <2>4, <2>5 DEF KeysFirst, IsKey, new, kept
<1>9. WindowOf(v)'
  BY <1>1, <1>6 DEF VoterOf, WindowOf, Running
<1>10. BallotOf(v)'
  BY <1>1, <1>6 DEF VoterOf, BallotOf, VoteInTransit, IsLastVote, Recorded
<1>11. QED
  BY <1>7, <1>8, <1>9, <1>10 DEF VoterOf

LEMMA ListenInv ==
  ASSUME Inv, NEW p \in Processes, Listen(p)
  PROVE  Inv'
<1>1. /\ Running(p) /\ to_client[p] # <<>>
      /\ to_client' = [to_client EXCEPT ![p] = Tail(@)]
      /\ responses' = [u \in Voters |->
                         IF u = p THEN Append(responses[u], Head(to_client[p]))
                         ELSE responses[u]]
      /\ UNCHANGED <<process, steps, to_server, search, candidats, window, logins, buttons,
                     printed, chosen, election, outbox, backlog, connected, m_clients>>
  BY DEF Listen, listen, Receives, Queue, gui, election
<1>2. to_client[p] \in Seq(Answer) /\ Len(to_client[p]) <= Room /\ p \in connected
  BY <1>1 DEF Inv, ClientTypes, Presence
<1>3. /\ Head(to_client[p]) \in Answer /\ Tail(to_client[p]) \in Seq(Answer)
      /\ Len(Tail(to_client[p])) <= Room
  BY <1>1, <1>2, SystemAssumption
<1>4. /\ to_client'[p] = Tail(to_client[p])
      /\ \A q \in Processes \ {p} : to_client'[q] = to_client[q]
      /\ \A u \in Voters \ {p} : responses'[u] = responses[u]
  BY <1>1 DEF Inv, ClientTypes
<1>5. ClientTypes'
  <2>1. to_client' \in [Processes -> Seq(Answer)]
    BY <1>1, <1>3 DEF Inv, ClientTypes
  <2>2. \A q \in Processes : Len(to_client'[q]) <= Room
    BY <1>3, <1>4 DEF Inv, ClientTypes
  <2>3. responses' \in [Voters -> Seq(Answer)]
    <3>1. \A u \in Voters : responses[u] \in Seq(Answer)
      BY DEF Inv, ClientTypes
    <3>2. \A u \in Voters : Append(responses[u], Head(to_client[p])) \in Seq(Answer)
      BY <1>3, <3>1
    <3>3. QED
      BY <1>1, <3>1, <3>2
  <2>4. QED
    BY <1>1, <2>1, <2>2, <2>3 DEF Inv, ClientTypes
<1>6. CASE p \in Voters
  <2>1. Isolated(p)
    BY <1>1, <1>4, ProcessFacts DEF Isolated, SameWindow
  <2>2. VoterOf(p)'
    BY <1>1, <1>4, <1>6, <2>1, ListenVoter
  <2>3. p \in backlog => window'[p] = "login"
    BY <1>1, <1>6 DEF Inv, Presence
  <2>4. QED
    BY <1>1, <1>2, <1>5, <1>6, <2>1, <2>2, <2>3, VoterStep DEF Running
<1>7. CASE p \in 1..Scripts /\ p \notin Voters
  <2>1. \A u \in Voters : SameWindow(u)
    BY <1>1, <1>4, <1>7, ProcessFacts DEF SameWindow
  <2>2. /\ \A u \in Voters : VoterOf(u)'
        /\ \A k \in 1..Scripts : k # p => ScriptOf(k)'
    BY <1>1, <1>7, <2>1, OthersLeftAlone DEF Running
  <2>3. ScriptOf(p)'
    <3>1. SameClient(p) /\ ScriptOf(p)
      BY <1>1, <1>7 DEF SameClient, SameRecord, Inv, ScriptInv
    <3>2. pallier' = pallier
      BY <1>1 DEF election
    <3>3. QED
      BY <1>1, <1>7, <3>1, <3>2, ScriptLeftAlone
  <2>4. ServerTypes'
    BY <1>1, ServerLeftAlone DEF Inv, ServerTypes
  <2>5. Presence'
    BY <1>1, <1>2, <1>4, <1>7, ProcessFacts DEF Inv, Presence, Running
  <2>6. QED
    BY <1>5, <2>2, <2>3, <2>4, <2>5 DEF Inv, VoterInv, VoterOf, ScriptInv
<1>8. QED
  BY <1>6, <1>7, ProcessFacts

-----------------------------------------------------------------------------
\* A call of read().

KeyRequests == {<<"SEND_KEY">>, <<"SEND_KEY_PROOF">>}

LEMMA SearchFacts ==
  ASSUME Inv, NEW v \in Voters, NEW n \in 0..Len(responses[v])
  PROVE  /\ SearchAt(v, n) \in Words
         /\ SearchAt(v, n) = search[v] \/ SearchAt(v, n) \in KeyWords
         /\ (\A i \in DOMAIN responses[v] : ~IsKey(responses[v][i])) =>
              SearchAt(v, n) = search[v]
<1> DEFINE keys == {k \in 1..n : IsKey(responses[v][k])}
<1>1. /\ responses[v] \in Seq(Answer) /\ Len(responses[v]) \in Nat
      /\ DOMAIN responses[v] = 1..Len(responses[v]) /\ search[v] \in Words
      /\ n \in Nat /\ \A k \in 1..n : k \in DOMAIN responses[v]
  BY DEF Inv, ClientTypes
<1>2. CASE keys = {}
  BY <1>1, <1>2 DEF SearchAt
<1>3. CASE keys # {}
  <2>1. Max(keys) \in keys
    BY <1>1, <1>3, MaxIsGreatest
  <2>2. Max(keys) \in DOMAIN responses[v] /\ IsKey(responses[v][Max(keys)])
    BY <1>1, <2>1
  <2>3. SearchAt(v, n) = responses[v][Max(keys)][1]
    BY <1>3 DEF SearchAt
  <2>4. SearchAt(v, n) \in KeyWords
    BY <2>2, <2>3 DEF IsKey
  <2>5. KeyWords \subseteq Words
    BY DEF KeyWords, Words
  <2>6. QED
    BY <2>2, <2>4, <2>5
<1>4. QED
  BY <1>2, <1>3

LEMMA ReadFacts ==
  ASSUME Inv, NEW v \in Voters
  PROVE  /\ Read(v) \in 0..Len(responses[v])
         /\ \A i \in 1..Read(v) : i \in DOMAIN responses[v]
         /\ Left(v) \in Seq(Answer)
         /\ \A i \in DOMAIN Left(v) :
              /\ Read(v) + i \in DOMAIN responses[v]
              /\ Left(v)[i] = responses[v][Read(v) + i]
         /\ Replies(v) \in Seq(VoterRequests)
         /\ \A i \in DOMAIN Replies(v) : Replies(v)[i][1] # "VOTE"
<1> DEFINE R == responses[v]
           n == Len(R)
           r == Read(v)
<1>1. R \in Seq(Answer) /\ n \in Nat /\ DOMAIN R = 1..n
  BY DEF Inv, ClientTypes
<1>2. r \in 0..n
  <2>1. CASE Late(v) = {}
    BY <1>1, <2>1 DEF Read
  <2>2. CASE Late(v) # {}
    <3>1. Late(v) \subseteq 1..n
      BY <1>1 DEF Late, Answers
    <3>2. Late(v) \subseteq Nat
      BY <3>1
    <3>3. Min(Late(v)) \in 1..n
      BY <2>2, <3>1, <3>2, MinIsLeast
    <3>4. QED
      BY <2>2, <3>3 DEF Read
  <2>3. QED
    BY <2>1, <2>2
<1>3. /\ SubSeq(R, r + 1, n) \in Seq(Answer)
      /\ Len(SubSeq(R, r + 1, n)) = n - r
      /\ \A i \in 1..n - r : SubSeq(R, r + 1, n)[i] = R[r + i]
  <2>1. r + 1 \in 1..n + 1 /\ n \in r..n
    BY <1>1, <1>2
  <2>2. /\ SubSeq(R, r + 1, n) \in Seq(Answer)
        /\ Len(SubSeq(R, r + 1, n)) = IF r + 1 <= n THEN n - (r + 1) + 1 ELSE 0
        /\ \A i \in 1..n - (r + 1) + 1 : SubSeq(R, r + 1, n)[i] = R[(r + 1) + i - 1]
    BY <1>1, <1>2, <2>1, SubSeqProperties, SMTT(30)
  <2>3. n - (r + 1) + 1 = n - r /\ (~(r + 1 <= n) => n - r = 0)
    BY <1>1, <1>2
  <2>4. \A i \in 1..n - r : (r + 1) + i - 1 = r + i
    BY <1>1, <1>2
  <2>5. QED
    BY <2>2, <2>3, <2>4
<1>4. /\ SubSeq(R, 1, r) \in Seq(Answer)
      /\ \A i \in 1..r : i \in DOMAIN R
  <2>1. 1 \in 1..n + 1 /\ r \in 0..n
    BY <1>1, <1>2
  <2>2. QED
    BY <1>1, <2>1, SubSeqProperties
<1>5. Replies(v) \in Seq(KeyRequests)
  <2> DEFINE S == {x \in Answer : x[1] \in KeyWords}
             keys == Only(Taken(v), KeyWords)
  <2>1. keys \in Seq(S)
    BY <1>4, OnlyType DEF Taken
  <2> HIDE DEF keys
  <2>2. DOMAIN keys = 1..Len(keys) /\ Len(keys) \in Nat
        /\ \A i \in DOMAIN keys : keys[i] \in S
    BY <2>1
  <2>3. \A i \in DOMAIN keys : << keys[i][1] >> \in KeyRequests
    BY <2>2 DEF KeyWords, KeyRequests
  <2>4. [i \in DOMAIN keys |-> << keys[i][1] >>] \in [1..Len(keys) -> KeyRequests]
    BY <2>2, <2>3
  <2>5. Replies(v) = [i \in DOMAIN keys |-> << keys[i][1] >>]
    BY DEF Replies, keys
  <2>6. QED
    BY <2>2, <2>4, <2>5, SeqDef
<1>6. Replies(v) \in Seq(VoterRequests)
  <2>1. KeyRequests \subseteq VoterRequests
    BY DEF KeyRequests, VoterRequests
  <2>2. QED
    BY <1>5, <2>1, SeqMonotonic
<1>7. \A i \in DOMAIN Replies(v) : Replies(v)[i][1] # "VOTE"
  BY <1>5 DEF KeyRequests
<1>8. \A i \in DOMAIN Left(v) : r + i \in DOMAIN R /\ Left(v)[i] = R[r + i]
  <2>1. TAKE i \in DOMAIN Left(v)
  <2>2. Left(v) = SubSeq(R, r + 1, n)
    BY DEF Left
  <2>3. DOMAIN SubSeq(R, r + 1, n) = 1..n - r
    BY <1>3
  <2>4. i \in 1..n - r
    BY <2>2, <2>3
  <2>5. r + i \in 1..n
    BY <1>1, <1>2, <2>4
  <2>6. QED
    BY <1>1, <1>3, <2>2, <2>4, <2>5
<1>9. QED
  BY <1>2, <1>3, <1>4, <1>6, <1>7, <1>8 DEF Left

LEMMA TakenFacts ==
  ASSUME Inv, NEW v \in Voters
  PROVE  /\ Taken(v) \in Seq(Answer) /\ Left(v) \in Seq(Answer)
         /\ responses[v] = Taken(v) \o Left(v)
         /\ Results(Taken(v)) \in Seq(Enclosed)
<1> DEFINE R == responses[v]
           n == Len(R)
           r == Read(v)
<1>1. R \in Seq(Answer) /\ n \in Nat /\ r \in 0..n /\ Left(v) \in Seq(Answer)
  BY ReadFacts DEF Inv, ClientTypes
<1>2. /\ SubSeq(R, 1, r) \in Seq(Answer)
      /\ R = SubSeq(R, 1, r) \o SubSeq(R, r + 1, n)
  BY <1>1, CutIsWhole
<1>3. QED
  BY <1>1, <1>2, ResultsType DEF Taken, Left

LEMMA FetchedFacts ==
  ASSUME Inv, NEW v \in Voters
  PROVE  /\ Fetched(v) \in {<<>>, Slate}
         /\ candidats[v] = Slate \/ Lists(v) # {} => Fetched(v) = Slate
<1>1. candidats[v] \in {<<>>, Slate}
  BY DEF Inv, ClientTypes
<1>2. CASE Lists(v) = {}
  BY <1>1, <1>2 DEF Fetched
<1>3. CASE Lists(v) # {}
  <2>1. Read(v) \in Nat /\ Lists(v) \subseteq 1..Read(v)
    BY ReadFacts DEF Lists
  <2>2. Max(Lists(v)) \in Lists(v)
    BY <1>3, <2>1, MaxIsGreatest
  <2>3. /\ Max(Lists(v)) \in DOMAIN responses[v]
        /\ responses[v][Max(Lists(v))][3] = "CHAR"
    BY <2>2 DEF Lists, Kept, Answers
  <2>4. responses[v][Max(Lists(v))][4] = Slate
    BY <2>3 DEF Inv, VoterInv, VoterOf, AllGenuine, Genuine
  <2>5. QED
    BY <1>3, <2>4 DEF Fetched
<1>4. QED
  BY <1>2, <1>3

\* The answer whose code read() returns.
LEMMA ValueFacts ==
  ASSUME Inv, NEW v \in Voters, Value(v) # "E"
  PROVE  \E n \in 1..Read(v) :
           /\ n \in Answers(v) /\ Value(v) = responses[v][n][3]
           /\ \/ n \in Kept(v)
              \/ responses[v][n][2] = "VOTE"
<1> DEFINE answers == (Kept(v) \cap 1..Read(v)) \cup (Late(v) \cap {Read(v)})
<1>1. answers # {} /\ Value(v) = responses[v][Max(answers)][3]
  BY DEF Value
<1>2. Read(v) \in Nat /\ Late(v) \subseteq Nat \ {0}
  BY ReadFacts DEF Late, Answers, Inv, ClientTypes
<1>3. answers \subseteq 1..Read(v)
  BY <1>2
<1>4. Max(answers) \in answers
  BY <1>1, <1>2, <1>3, MaxIsGreatest
<1>5. /\ Max(answers) \in Answers(v) /\ Max(answers) \in 1..Read(v)
      /\ Max(answers) \in Kept(v) \/ responses[v][Max(answers)][2] = "VOTE"
  BY <1>3, <1>4 DEF Kept, Late
<1>6. QED
  BY <1>1, <1>5

\* The queues after a call of read(); a window goes past the login behind O0 only.
LEMMA ReadMail ==
  ASSUME Inv, NEW v \in Voters, UNCHANGED <<connected, m_clients, outbox, chosen>>,
         to_client'[v] = to_client[v], responses'[v] = Left(v),
         Past(v)' =>
           Past(v) \/ \E n \in 1..Read(v) : responses[v][n][3] = "O0"
  PROVE  AllGenuine(v)' /\ KeysFirst(v)'
<1>1. AllGenuine(v) /\ KeysFirst(v)
  BY DEF Inv, VoterInv, VoterOf
<1>2. Auth(v)' <=> Auth(v)
  BY DEF Auth
<1>3. /\ \A i \in DOMAIN Left(v) : /\ Read(v) + i \in DOMAIN responses[v]
                                   /\ Left(v)[i] = responses[v][Read(v) + i]
      /\ \A i \in 1..Read(v) : i \in DOMAIN responses[v]
      /\ Read(v) \in Nat /\ Left(v) \in Seq(Answer)
  BY ReadFacts DEF Inv, ClientTypes
<1>4. DOMAIN Left(v) = 1..Len(Left(v)) /\ Len(Left(v)) \in Nat
  BY <1>3
<1>5. AllGenuine(v)'
  <2>1. \A i \in DOMAIN Left(v) : Genuine(v, Left(v)[i])
    BY <1>1, <1>3 DEF AllGenuine
  <2>2. QED
    BY <1>1, <1>2, <2>1 DEF AllGenuine, Genuine
<1> DEFINE L == Left(v)
           C == to_client[v]
<1> HIDE DEF L, C
<1>6. \A i, j \in DOMAIN L : i < j /\ L[i][3] = "O0" => ~IsKey(L[j])
  <2>1. TAKE i, j \in DOMAIN L
  <2>2. i < j => Read(v) + i < Read(v) + j
    BY <1>3, <1>4 DEF L
  <2>3. QED
    BY <1>1, <1>3, <2>2 DEF KeysFirst, L
<1>7. \A i \in DOMAIN L, j \in DOMAIN C : L[i][3] = "O0" => ~IsKey(C[j])
  BY <1>1, <1>3 DEF KeysFirst, L, C
<1>8. Past(v)' => /\ Auth(v)
                  /\ \A i \in DOMAIN L : ~IsKey(L[i])
                  /\ \A i \in DOMAIN C : ~IsKey(C[i])
  <2>1. SUFFICES ASSUME Past(v)'
                 PROVE  /\ Auth(v)
                        /\ \A i \in DOMAIN L : ~IsKey(L[i])
                        /\ \A i \in DOMAIN C : ~IsKey(C[i])
    OBVIOUS
  <2>2. CASE Past(v)
    BY <1>1, <1>3, <2>2 DEF KeysFirst, L, C
  <2>3. CASE \E n \in 1..Read(v) : responses[v][n][3] = "O0"
    <3>1. PICK n \in 1..Read(v) : responses[v][n][3] = "O0"
      BY <2>3
    <3>2. n \in DOMAIN responses[v]
      BY <1>3
    <3>3. \A i \in DOMAIN L : n < Read(v) + i
      BY <1>3, <1>4 DEF L
    <3>4. Auth(v)
      BY <1>1, <3>1, <3>2 DEF AllGenuine, Genuine
    <3>5. \A i \in DOMAIN L : ~IsKey(L[i])
      BY <1>1, <1>3, <3>1, <3>2, <3>3 DEF KeysFirst, L
    <3>6. \A i \in DOMAIN C : ~IsKey(C[i])
      BY <1>1, <3>1, <3>2 DEF KeysFirst, C
    <3>7. QED
      BY <3>4, <3>5, <3>6
  <2>4. QED
    BY <2>1, <2>2, <2>3
<1>9. KeysFirst(v)'
  <2>1. to_client'[v] = C /\ responses'[v] = L
    BY DEF C, L
  <2>2. \A i, j \in DOMAIN C : i < j /\ C[i][3] = "O0" => ~IsKey(C[j])
    BY <1>1 DEF KeysFirst, C
  <2>3. Auth(v) => \A i \in DOMAIN outbox' : outbox'[i][1] = v => ~IsKey(outbox'[i][2])
    BY <1>1 DEF KeysFirst
  <2>4. QED
    BY <1>2, <1>6, <1>7, <1>8, <2>1, <2>2, <2>3 DEF KeysFirst, IsKey
<1>10. QED
  BY <1>5, <1>9

LEMMA ReadInv ==
  ASSUME Inv, NEW v \in Voters, Running(v),
         NEW msgs \in Seq(VoterRequests), \A i \in DOMAIN msgs : msgs[i][1] # "VOTE",
         NEW for \in Words, read(v, msgs, for),
         UNCHANGED <<process, steps, to_client, logins, chosen>>,
         UNCHANGED <<election, outbox, backlog>>,
         window' \in [Voters -> {"login", "opening", "main", "refused"}],
         \A u \in Voters \ {v} : window'[u] = window[u],
         buttons' \in [Voters -> SUBSET Labels],
         \A u \in Voters \ {v} : buttons'[u] = buttons[u],
         v \in backlog => window'[v] = "login",
         Past(v)' =>
           Past(v) \/ \E n \in 1..Read(v) : responses[v][n][3] = "O0",
         WindowOf(v)'
  PROVE  Inv'
<1> DEFINE all == Replies(v) \o msgs
<1>1. /\ v \in Processes
      /\ responses' = [responses EXCEPT ![v] = Left(v)]
      /\ candidats' = [candidats EXCEPT ![v] = Fetched(v)]
      /\ search' = [search EXCEPT ![v] = for]
      /\ printed' = [printed EXCEPT ![v] = @ \o Results(Taken(v))]
      /\ Send(v, all)
      /\ UNCHANGED <<connected, m_clients>>
  BY ProcessFacts DEF read, election
<1>2. all \in Seq(VoterRequests) /\ \A i \in DOMAIN all : all[i][1] # "VOTE"
  <2>1. /\ Replies(v) \in Seq(VoterRequests)
        /\ \A i \in DOMAIN Replies(v) : Replies(v)[i][1] # "VOTE"
    BY ReadFacts
  <2>2. /\ all \in Seq(VoterRequests) /\ Len(all) = Len(Replies(v)) + Len(msgs)
        /\ \A i \in 1..Len(Replies(v)) + Len(msgs) :
             all[i] = IF i <= Len(Replies(v)) THEN Replies(v)[i]
                      ELSE msgs[i - Len(Replies(v))]
    BY <2>1, ConcatProperties
  <2>3. /\ Len(Replies(v)) \in Nat /\ DOMAIN Replies(v) = 1..Len(Replies(v))
        /\ Len(msgs) \in Nat /\ DOMAIN msgs = 1..Len(msgs)
    BY <2>1
  <2>4. ASSUME NEW i \in 1..Len(Replies(v)) + Len(msgs) PROVE all[i][1] # "VOTE"
    <3>1. CASE i <= Len(Replies(v))
      <4>1. i \in DOMAIN Replies(v) /\ all[i] = Replies(v)[i]
        BY <2>2, <2>3, <3>1
      <4>2. QED
        BY <2>1, <4>1
    <3>2. CASE ~(i <= Len(Replies(v)))
      <4>1. i - Len(Replies(v)) \in DOMAIN msgs /\ all[i] = msgs[i - Len(Replies(v))]
        BY <2>2, <2>3, <3>2
      <4>2. QED
        BY <4>1
    <3>3. QED
      BY <3>1, <3>2
  <2>5. DOMAIN all = 1..Len(Replies(v)) + Len(msgs)
    BY <2>2
  <2>6. QED
    BY <2>2, <2>4, <2>5
<1> HIDE DEF all
<1>3. /\ to_server' \in [Processes -> Seq(Requests)]
      /\ to_server'[v] = to_server[v] \o all
      /\ \A q \in Processes \ {v} : to_server'[q] = to_server[q]
  BY <1>1, <1>2, SendType
<1>4. /\ responses'[v] = Left(v)
      /\ \A u \in Voters \ {v} :
           /\ responses'[u] = responses[u] /\ candidats'[u] = candidats[u]
           /\ search'[u] = search[u] /\ printed'[u] = printed[u]
  BY <1>1 DEF Inv, ClientTypes
<1>5. ClientTypes'
  <2>1. Left(v) \in Seq(Answer) /\ Fetched(v) \in {<<>>, Slate}
    BY ReadFacts, FetchedFacts
  <2>2. /\ responses' \in [Voters -> Seq(Answer)]
        /\ candidats' \in [Voters -> {<<>>, Slate}]
        /\ search' \in [Voters -> Words]
    BY <1>1, <2>1 DEF Inv, ClientTypes
  <2>3. printed' \in [Voters -> Seq(Enclosed)]
    <3>1. Results(Taken(v)) \in Seq(Enclosed)
      BY TakenFacts
    <3>2. printed \in [Voters -> Seq(Enclosed)]
      BY DEF Inv, ClientTypes
    <3>3. printed[v] \o Results(Taken(v)) \in Seq(Enclosed)
      BY <3>1, <3>2
    <3>4. QED
      BY <1>1, <3>2, <3>3
  <2>4. QED
    BY <1>1, <1>3, <2>2, <2>3 DEF Inv, ClientTypes
<1>6. Isolated(v)
  BY <1>1, <1>3, <1>4 DEF Isolated, SameWindow
<1>7. VoterOf(v)'
  <2>1. AllGenuine(v)' /\ KeysFirst(v)'
    BY <1>1, <1>4, ReadMail
  <2>2. BallotOf(v)'
    BY <1>1, <1>2, <1>3, AppendQuiet DEF Inv, VoterInv, VoterOf, ClientTypes
  <2>3. QED
    BY <2>1, <2>2 DEF VoterOf
<1>8. responses'[v] # <<>> => v \in connected
  <2>1. SUFFICES ASSUME Left(v) # <<>> PROVE v \in connected
    BY <1>4
  <2>2. Left(v) \in Seq(Answer)
    BY ReadFacts
  <2>3. 1 \in DOMAIN Left(v)
    BY <2>1, <2>2
  <2>4. Read(v) + 1 \in DOMAIN responses[v]
    BY <2>3, ReadFacts
  <2>5. responses[v] # <<>>
    BY <2>4
  <2>6. QED
    BY <2>5 DEF Inv, Presence
<1>9. printed'[v] # <<>> => v \in connected
  <2>1. CASE responses[v] # <<>>
    BY <2>1 DEF Inv, Presence
  <2>2. CASE responses[v] = <<>>
    <3>1. Taken(v) = <<>>
      BY <2>2, TakenFacts
    <3>2. Results(Taken(v)) = <<>>
      BY <3>1, OnlyEmpty, ColumnEmpty DEF Results
    <3>3. printed'[v] = printed[v] \o <<>> /\ printed[v] \in Seq(Enclosed)
      BY <1>1, <3>2 DEF Inv, ClientTypes
    <3>4. printed'[v] = printed[v]
      BY <3>3, ConcatEmptySeq
    <3>5. QED
      BY <3>4 DEF Inv, Presence
  <2>3. QED
    BY <2>1, <2>2
<1>10. QED
  BY <1>1, <1>5, <1>6, <1>7, <1>8, <1>9, VoterStep DEF Running

LEMMA NoRequest ==
  <<>> \in Seq(VoterRequests) /\ \A i \in DOMAIN <<>> : <<>>[i][1] # "VOTE"
OBVIOUS

\* What a window that has not clicked has, and one that has.
LEMMA WindowFacts ==
  ASSUME Inv, NEW v \in Voters, Running(v)
  PROVE  /\ WindowOf(v)
         /\ candidats[v] \in {<<>>, Slate} /\ buttons[v] \in SUBSET Labels
         /\ window[v] # "main" => buttons[v] = {} /\ chosen[v] = <<>>
         /\ window[v] = "login" => search[v] # "VOTE"
         /\ responses[v] # <<>> \/ window[v] # "login" => v \notin backlog
         /\ SearchAt(v, Read(v)) \in Words
         /\ SearchAt(v, Read(v)) = search[v] \/ SearchAt(v, Read(v)) \in KeyWords
         /\ Past(v) => \A n \in 0..Len(responses[v]) : SearchAt(v, n) = search[v]
<1>1. /\ WindowOf(v) /\ KeysFirst(v)
      /\ candidats[v] \in {<<>>, Slate} /\ buttons[v] \in SUBSET Labels
  BY DEF Inv, VoterInv, VoterOf, ClientTypes
<1>2. window[v] # "main" => buttons[v] = {} /\ chosen[v] = <<>>
  BY <1>1 DEF WindowOf
<1>3. window[v] = "login" => search[v] # "VOTE"
  BY <1>1, <1>2 DEF WindowOf
<1>4. responses[v] # <<>> \/ window[v] # "login" => v \notin backlog
  BY DEF Inv, Presence
<1>5. Read(v) \in 0..Len(responses[v])
  BY ReadFacts
<1>6. /\ SearchAt(v, Read(v)) \in Words
      /\ SearchAt(v, Read(v)) = search[v] \/ SearchAt(v, Read(v)) \in KeyWords
  BY <1>5, SearchFacts
<1>7. Past(v) => \A n \in 0..Len(responses[v]) : SearchAt(v, n) = search[v]
  BY <1>1, SearchFacts DEF KeysFirst
<1>8. QED
  BY <1>1, <1>2, <1>3, <1>4, <1>6, <1>7

LEMMA LoginGoesOnInv ==
  ASSUME Inv, NEW v \in Voters, Running(v), window[v] = "login", responses[v] # <<>>,
         LoginGoesOn(v), UNCHANGED <<election, outbox, backlog>>
  PROVE  Inv'
<1>1. /\ read(v, <<>>, SearchAt(v, Read(v)))
      /\ UNCHANGED <<process, steps, to_client, window, logins, buttons, chosen>>
  BY DEF LoginGoesOn, readOnly
<1>2. /\ search'[v] = SearchAt(v, Read(v)) /\ SearchAt(v, Read(v)) \in Words
      /\ search'[v] # "VOTE"
  BY <1>1, WindowFacts DEF read, Inv, ClientTypes, KeyWords
<1>3. WindowOf(v)' /\ ~Past(v)'
  BY <1>1, <1>2, WindowFacts DEF WindowOf, Past
<1>4. QED
  BY <1>1, <1>2, <1>3, NoRequest, ReadInv DEF Inv, ClientTypes

LEMMA LoginAcceptedInv ==
  ASSUME Inv, NEW v \in Voters, Running(v), window[v] = "login", responses[v] # <<>>,
         LoginAccepted(v), UNCHANGED <<election, outbox, backlog>>
  PROVE  Inv'
<1> DEFINE msgs == << <<"GET_CANDIDATES">> >>
<1>1. /\ Value(v) = "O0" /\ window' = [window EXCEPT ![v] = "opening"]
      /\ read(v, msgs, "GET_CANDIDATES")
      /\ UNCHANGED <<process, steps, to_client, logins, buttons, chosen>>
  BY DEF LoginAccepted
<1>2. msgs \in Seq(VoterRequests) /\ \A i \in DOMAIN msgs : msgs[i][1] # "VOTE"
  <2>1. <<"GET_CANDIDATES">> \in VoterRequests
    BY DEF VoterRequests
  <2>2. QED
    BY <2>1
<1> HIDE DEF msgs
<1>3. \E n \in 1..Read(v) : responses[v][n][3] = "O0"
  BY <1>1, ValueFacts
<1>4. /\ window'[v] = "opening" /\ \A u \in Voters \ {v} : window'[u] = window[u]
      /\ window' \in [Voters -> {"login", "opening", "main", "refused"}]
      /\ search'[v] = "GET_CANDIDATES" /\ "GET_CANDIDATES" \in Words
      /\ buttons \in [Voters -> SUBSET Labels]
  BY <1>1 DEF read, Inv, ClientTypes, Words
<1>5. WindowOf(v)'
  BY <1>1, <1>4, WindowFacts DEF WindowOf
<1>6. QED
  BY <1>1, <1>2, <1>3, <1>4, <1>5, WindowFacts, ReadInv

LEMMA LoginRefusedInv ==
  ASSUME Inv, NEW v \in Voters, Running(v), window[v] = "login", responses[v] # <<>>,
         LoginRefused(v), UNCHANGED <<election, outbox, backlog>>
  PROVE  Inv'
<1>1. /\ window' = [window EXCEPT ![v] = "refused"]
      /\ Exit(v) /\ Forget(v) /\ Send(v, Replies(v))
      /\ UNCHANGED <<steps, logins, chosen>>
  BY DEF LoginRefused
<1>2. /\ \A u \in Voters \ {v} : window'[u] = window[u]
      /\ window' \in [Voters -> {"login", "opening", "main", "refused"}]
  BY <1>1 DEF Inv, ClientTypes
<1>3. /\ Replies(v) \in Seq(VoterRequests)
      /\ \A i \in DOMAIN Replies(v) : Replies(v)[i][1] # "VOTE"
  BY ReadFacts
<1>4. QED
  BY <1>1, <1>2, <1>3, WindowFacts, ExitInv

LEMMA OpenMainInv ==
  ASSUME Inv, NEW v \in Voters, OpenMain(v), UNCHANGED <<election, outbox, backlog>>
  PROVE  Inv'
<1>1. /\ Running(v) /\ window[v] = "opening"
      /\ window' = [window EXCEPT ![v] = "main"]
      /\ read(v, <<>>, SearchAt(v, Read(v)))
      /\ UNCHANGED <<process, steps, to_client, logins, buttons, chosen>>
  BY DEF OpenMain, readOnly
<1>2. /\ window'[v] = "main" /\ \A u \in Voters \ {v} : window'[u] = window[u]
      /\ window' \in [Voters -> {"login", "opening", "main", "refused"}]
      /\ search'[v] = SearchAt(v, Read(v))
      /\ buttons \in [Voters -> SUBSET Labels]
  BY <1>1 DEF read, Inv, ClientTypes
<1>3. Past(v) /\ SearchAt(v, Read(v)) = search[v] /\ SearchAt(v, Read(v)) \in Words
  BY <1>1, WindowFacts, ReadFacts DEF Past
<1>4. WindowOf(v)'
  BY <1>1, <1>2, <1>3, WindowFacts DEF WindowOf
<1>5. QED
  BY <1>1, <1>2, <1>3, <1>4, WindowFacts, NoRequest, ReadInv

\* A code that is no list makes a button only if a ballot was answered.
LEMMA UpdateMainInv ==
  ASSUME Inv, NEW v \in Voters, UpdateMain(v), UNCHANGED <<election, outbox, backlog>>
  PROVE  Inv'
<1> DEFINE more == set_candidats(v)
<1>1. /\ Running(v) /\ window[v] = "main" /\ responses[v] # <<>>
      /\ read(v, <<>>, SearchAt(v, Read(v)))
      /\ buttons' = [buttons EXCEPT ![v] = @ \cup more]
      /\ UNCHANGED <<process, steps, to_client, window, logins, chosen>>
  BY DEF UpdateMain, readOnly
<1> HIDE DEF more
<1>2. Past(v) /\ SearchAt(v, Read(v)) = search[v] /\ SearchAt(v, Read(v)) \in Words
  BY <1>1, WindowFacts, ReadFacts DEF Past
<1>3. buttons[v] = {} /\ more # {} => Fetched(v) = Slate
  <2>1. SUFFICES ASSUME buttons[v] = {}, more # {} PROVE Fetched(v) = Slate
    OBVIOUS
  <2>2. Value(v) # "E"
    BY <2>1 DEF more, set_candidats
  <2>3. PICK n \in 1..Read(v) :
          /\ n \in Answers(v) /\ Value(v) = responses[v][n][3]
          /\ n \in Kept(v) \/ responses[v][n][2] = "VOTE"
    BY <2>2, ValueFacts
  <2>4. n \in DOMAIN responses[v] /\ responses[v][n][1] = "RETURN"
    BY <2>3 DEF Answers
  <2>5. Genuine(v, responses[v][n])
    BY <2>4 DEF Inv, VoterInv, VoterOf, AllGenuine
  <2>6. chosen[v] = <<>>
    BY <1>1, <2>1, WindowFacts DEF WindowOf
  <2>7. responses[v][n][2] # "VOTE" /\ n \in Kept(v)
    BY <2>3, <2>4, <2>5, <2>6 DEF Genuine
  <2>8. responses[v][n][2] = search[v]
    <3>1. responses[v][n][2] = SearchAt(v, n)
      BY <2>7 DEF Kept
    <3>2. n \in 0..Len(responses[v])
      BY <2>4 DEF Inv, ClientTypes
    <3>3. QED
      BY <1>1, <1>2, <3>1, <3>2, WindowFacts
  <2>9. search[v] = "GET_CANDIDATES"
    BY <1>1, <1>2, <2>6, WindowFacts DEF WindowOf
  <2>10. n \in Lists(v)
    BY <2>4, <2>5, <2>7, <2>8, <2>9 DEF Lists, Genuine
  <2>11. QED
    BY <2>10, FetchedFacts
<1>4. buttons[v] # {} => Fetched(v) = Slate
  BY <1>1, WindowFacts, FetchedFacts DEF WindowOf
<1>5. more \subseteq Labels
  <2>1. ToSet(Fetched(v)) \subseteq Labels
    BY FetchedFacts DEF ToSet, Labels
  <2>2. QED
    BY <2>1 DEF more, set_candidats, Labels
<1>6. /\ buttons'[v] = buttons[v] \cup more
      /\ \A u \in Voters \ {v} : buttons'[u] = buttons[u]
      /\ buttons' \in [Voters -> SUBSET Labels]
      /\ window \in [Voters -> {"login", "opening", "main", "refused"}]
      /\ search'[v] = search[v] /\ candidats'[v] = Fetched(v)
  BY <1>1, <1>2, <1>5 DEF read, Inv, ClientTypes
<1>7. WindowOf(v)'
  BY <1>1, <1>2, <1>3, <1>4, <1>6, WindowFacts DEF WindowOf, Past, Running
<1>8. QED
  BY <1>1, <1>2, <1>6, <1>7, WindowFacts, NoRequest, ReadInv
-----------------------------------------------------------------------------
\* The invariant.

LEMMA InitInv == Patient /\ Init => Inv
<1> SUFFICES ASSUME Patient, Init PROVE Inv
  OBVIOUS
<1>1. /\ process = [p \in Processes |-> "idle"]
      /\ steps = [k \in 1..Scripts |-> 0]
      /\ to_server = [p \in Processes |-> <<>>]
      /\ to_client = [p \in Processes |-> <<>>]
      /\ responses = [v \in Voters |-> <<>>]
      /\ search = [v \in Voters |-> ""]
      /\ candidats = [v \in Voters |-> <<>>]
      /\ window = [v \in Voters |-> "login"]
      /\ logins = [v \in Voters |-> 0]
      /\ buttons = [v \in Voters |-> {}]
      /\ printed = [v \in Voters |-> <<>>]
      /\ chosen = [v \in Voters |-> <<>>]
      /\ backlog = {} /\ outbox = <<>>
      /\ connected = {} /\ m_clients = <<>> /\ started = FALSE /\ candidates = <<>>
      /\ pallier = FALSE /\ server = "running"
  BY DEF Init, ClientInit, E!Init
<1>2. ClientTypes
  <2>1. <<>> \in Seq(Answer) /\ Len(<<>>) <= Room /\ <<>> \in Seq(Requests)
        /\ <<>> \in Seq(Labels) /\ <<>> \in Seq(Enclosed) /\ 0 \in 0..MaxLogins
    BY SystemAssumption, ClientAssumption
  <2>2. QED
    BY <1>1, <2>1 DEF ClientTypes, Words
<1>3. ServerTypes
  <2>1. m_clients \in [connected -> E!Client]
    <3>1. <<>> \in Seq(E!Client) /\ Len(<<>>) = 0
      OBVIOUS
    <3>2. <<>> \in [1..0 -> E!Client]
      BY <3>1, LenProperties
    <3>3. 1..0 = {}
      OBVIOUS
    <3>4. QED
      BY <1>1, <3>2, <3>3
  <2>2. outbox \in Seq(connected \X Answer)
    BY <1>1, EmptySeq
  <2>3. QED
    BY <1>1, <2>1, <2>2 DEF ServerTypes
<1>4. Presence
  BY <1>1, ProcessFacts DEF Presence, Running
<1>5. VoterInv
  <2>1. SUFFICES ASSUME NEW v \in Voters PROVE VoterOf(v)
    BY DEF VoterInv
  <2>2. /\ to_server[v] = <<>> /\ to_client[v] = <<>> /\ responses[v] = <<>>
        /\ outbox = <<>> /\ v \notin connected /\ ~Past(v)
        /\ search[v] = "" /\ buttons[v] = {} /\ chosen[v] = <<>>
    BY <1>1, ProcessFacts DEF Past
  <2>3. DOMAIN <<>> = {}
    OBVIOUS
  <2>4. AllGenuine(v) /\ KeysFirst(v)
    BY <2>2, <2>3 DEF AllGenuine, KeysFirst
  <2>5. WindowOf(v) /\ BallotOf(v)
    BY <2>2, <2>3 DEF WindowOf, BallotOf, VoteInTransit
  <2>6. QED
    BY <2>4, <2>5 DEF VoterOf
<1>6. ScriptInv
  <2>1. SUFFICES ASSUME NEW k \in 1..Scripts PROVE ScriptOf(k)
    BY DEF ScriptInv
  <2>2. /\ steps[k] = 0 /\ to_server[k] = <<>> /\ process[k] = "idle"
        /\ k \notin backlog /\ k \notin connected
    BY <1>1, ProcessFacts
  <2>3. Done(k) = 0
    <3>1. Len(to_server[k]) = 0 /\ steps[k] = 0
      BY <2>2
    <3>2. QED
      BY ONLY <3>1 DEF Done
  <2> HIDE DEF Done, Script, Setup
  <2>4. Len(Script(k)) = IF Setup(k) THEN 5 ELSE 4
    BY ScriptFacts
  <2>5. QED
    BY <2>2, <2>3, <2>4 DEF ScriptOf
<1>7. QED
  BY <1>2, <1>3, <1>4, <1>5, <1>6 DEF Inv

LEMMA NextInv == Inv /\ [Next]_vars => Inv'
<1> SUFFICES ASSUME Inv, [Next]_vars PROVE Inv'
  OBVIOUS
<1>1. CASE SendNext
  BY <1>1, SendNextInv
<1>2. ASSUME NEW p \in Processes, Accept(p) PROVE Inv'
  BY <1>2, AcceptInv
<1>3. ASSUME NEW p \in Processes, Request(p) PROVE Inv'
  BY <1>3, RequestInv
<1>4. ASSUME NEW p \in Processes, Disconnect(p) PROVE Inv'
  BY <1>4, DisconnectInv
<1>5. ASSUME NEW p \in Processes, Listen(p) PROVE Inv'
  BY <1>5, ListenInv
<1>6. ASSUME NEW v \in Voters, Update(v) PROVE Inv'
  <2>1. UNCHANGED <<election, outbox, backlog>> /\ Timer(v)
    BY <1>6 DEF Update
  <2>2. CASE UpdateLogin(v)
    <3>1. Running(v) /\ window[v] = "login" /\ responses[v] # <<>>
      BY <2>2 DEF UpdateLogin
    <3>2. LoginGoesOn(v) \/ LoginAccepted(v) \/ LoginRefused(v)
      BY <2>2 DEF UpdateLogin
    <3>3. QED
      BY <2>1, <3>1, <3>2, LoginGoesOnInv, LoginAcceptedInv, LoginRefusedInv
  <2>3. CASE OpenMain(v)
    BY <2>1, <2>3, OpenMainInv
  <2>4. CASE UpdateMain(v)
    BY <2>1, <2>4, UpdateMainInv
  <2>5. QED
    BY <2>1, <2>2, <2>3, <2>4 DEF Timer
<1>7. CASE Users
  <2>1. UNCHANGED <<election, outbox>>
    BY <1>7 DEF Users
  <2>2. ASSUME NEW v \in Voters, Launch(v) PROVE Inv'
    BY <2>1, <2>2, LaunchInv
  <2>3. ASSUME NEW v \in Voters, verifier_login(v) \/ action(v) \/ CloseWindow(v),
               UNCHANGED backlog
        PROVE  Inv'
    BY <2>1, <2>3, LoginClickInv, ActionInv, CloseWindowInv
  <2>4. ASSUME NEW k \in 1..Scripts, Operate(k) PROVE Inv'
    BY <2>1, <2>4, OperateInv
  <2>5. ASSUME NEW k \in 1..Scripts, EndScript(k) \/ BreakScript(k), UNCHANGED backlog
        PROVE  Inv'
    BY <2>1, <2>5, EndScriptInv
  <2>6. ASSUME NEW k \in 1..Scripts, SendCommand(k), UNCHANGED backlog PROVE Inv'
    BY <2>1, <2>6, SendCommandInv
  <2>7. QED
    BY <1>7, <2>2, <2>3, <2>4, <2>5, <2>6 DEF Users
<1>8. CASE UNCHANGED vars
  <2>1. UNCHANGED <<process, steps, to_server, to_client, responses, search, candidats, window,
                    logins, buttons, printed, chosen, connected, m_clients, started,
                    candidates, pallier, server, backlog, outbox>>
    BY <1>8 DEF vars, client_vars, channels, gui, election
  <2>2. ClientTypes' /\ ServerTypes' /\ Presence'
    BY <2>1 DEF Inv, ClientTypes, ServerTypes, Presence, Running
  <2>3. \A p \in Processes : SameClient(p)
    BY <2>1 DEF SameClient, SameRecord
  <2>4. VoterInv'
    <3>1. SUFFICES ASSUME NEW v \in Voters PROVE VoterOf(v)'
      BY DEF VoterInv
    <3>2. VoterOf(v) /\ SameClient(v) /\ SameWindow(v)
      BY <2>1, <2>3, ProcessFacts DEF Inv, VoterInv, VoterOf, SameWindow
    <3>3. QED
      BY <2>1, <3>2, VoterLeftAlone
  <2>5. ScriptInv'
    <3>1. SUFFICES ASSUME NEW k \in 1..Scripts PROVE ScriptOf(k)'
      BY DEF ScriptInv
    <3>2. ScriptOf(k) /\ SameClient(k)
      BY <2>3, ProcessFacts DEF Inv, ScriptInv
    <3>3. QED
      BY <2>1, <3>2, ScriptLeftAlone
  <2>6. QED
    BY <2>2, <2>4, <2>5 DEF Inv
<1>9. QED
  BY <1>1, <1>2, <1>3, <1>4, <1>5, <1>6, <1>7, <1>8 DEF Next, Threads, Server

\* With patient operators the invariant holds in every state the programs and the
\* server reach.
THEOREM InvHolds == Patient => (Spec => []Inv)
<1> SUFFICES ASSUME Patient PROVE Spec => []Inv
  OBVIOUS
<1>1. Init => Inv
  BY InitInv
<1>2. QED
  BY <1>1, NextInv, PTL DEF Spec

\* Windows, queues and scripts keep their types, and no receive buffer ever holds
\* more than its room, so that a send() that finds no room blocks.
THEOREM TypesHold == Patient => (Spec => []TypeOK)
<1> SUFFICES ASSUME Patient PROVE Spec => []TypeOK
  OBVIOUS
<1>1. Inv => TypeOK
  <2>1. SUFFICES ASSUME Inv PROVE TypeOK
    OBVIOUS
  <2>2. \A i \in DOMAIN outbox : outbox[i][1] \in Processes
    BY <2>1 DEF Inv, ServerTypes
  <2>3. \A k \in 1..Scripts : steps[k] \in 0..Len(Script(k))
    BY <2>1, ScriptFacts DEF Inv, ClientTypes, ScriptInv, ScriptOf
  <2>4. QED
    BY <2>1, <2>2, <2>3 DEF Inv, ClientTypes, ServerTypes, TypeOK, Labels
<1>2. Spec => []Inv
  BY InvHolds
<1>3. QED
  BY <1>1, <1>2, PTL

\* Whatever the order of clicks, messages and steps of the server, a voter whose
\* last ballot has arrived is on file with the name of the last button clicked,
\* and one who never clicked has no ballot.
THEOREM TheLastClickStands == Patient => (Spec => []LastClickStands)
<1> SUFFICES ASSUME Patient PROVE Spec => []LastClickStands
  OBVIOUS
<1>1. Inv => LastClickStands
  BY DEF Inv, VoterInv, VoterOf, BallotOf, Recorded, LastClickStands
<1>2. Spec => []Inv
  BY InvHolds
<1>3. QED
  BY <1>1, <1>2, PTL

\* Clients that are these programs end the server only by the hand of an operator
\* who closes a poll before any setup_vote.py has gone through.  Otherwise, however
\* many scripts run at once, at whatever pace and wherever they are interrupted,
\* VOTE_END finds pallier set, every ballot as long as the list of candidates, and
\* no ballot of its sender's whose proofs it would read past.
THEOREM TheServerIsSpared == Patient => (Spec => []HonestClientsSpareTheServer)
<1> SUFFICES ASSUME Patient PROVE Spec => []HonestClientsSpareTheServer
  OBVIOUS
<1>1. Inv => HonestClientsSpareTheServer
  BY DEF Inv, ServerTypes, HonestClientsSpareTheServer
<1>2. Spec => []Inv
  BY InvHolds
<1>3. QED
  BY <1>1, <1>2, PTL
=============================================================================
