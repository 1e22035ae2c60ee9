--------------------------- MODULE ElectionProofs ---------------------------
(***************************************************************************)
(* Theorems about Election, for any sockets, candidates, slates, ballots   *)
(* and number of elections: its invariant, what a step may never do, and   *)
(* that it implements BallotBox.                                           *)
(***************************************************************************)
EXTENDS Election, SequenceTheorems, TLAPS

\* The inductive invariant.  The three parts need one another: a command keeps
\* a record well typed because the socket has one, and a ballot is only found
\* with FULL_AUTH because nothing lowers the status of a record once it has it.
\* There is nothing in the ballot of a client that has not voted, so what the
\* first VOTE leaves unwritten is zero.
Entitled(c) ==
  /\ c.voted \/ c.vote # <<>> \/ c.proofs # <<>> => IsAuth(c)
  /\ c.vote # <<>> => c.voted
RecordsEntitled == \A s \in connected : Entitled(m_clients[s])
Inv == TypeOK /\ ClientsMatchConnections /\ RecordsEntitled

-----------------------------------------------------------------------------
\* Sequences of answers and of proofs.

LEMMA AnswersType ==
  /\ <<>> \in Seq(Message)
  /\ \A a \in Heads, b \in Commands, c \in Codes : << <<a, b, c>> >> \in Seq(Message)
  /\ \A msgs \in Seq(Message), a \in Heads, b \in Commands, c \in Codes :
       Append(msgs, <<a, b, c>>) \in Seq(Message)
<1>1. \A a \in Heads, b \in Commands, c \in Codes : <<a, b, c>> \in Message
  BY DEF Message
<1>2. \A m \in Message : <<m>> \in Seq(Message)
  OBVIOUS
<1>3. \A msgs \in Seq(Message), m \in Message : Append(msgs, m) \in Seq(Message)
  OBVIOUS
<1>4. <<>> \in Seq(Message)
  OBVIOUS
<1>5. \A a \in Heads, b \in Commands, c \in Codes : << <<a, b, c>> >> \in Seq(Message)
  <2>1. TAKE a \in Heads, b \in Commands, c \in Codes
  <2>2. <<a, b, c>> \in Message
    BY <1>1
  <2>3. QED
    BY <2>2, <1>2
<1>6. \A msgs \in Seq(Message), a \in Heads, b \in Commands, c \in Codes :
        Append(msgs, <<a, b, c>>) \in Seq(Message)
  <2>1. TAKE msgs \in Seq(Message), a \in Heads, b \in Commands, c \in Codes
  <2>2. <<a, b, c>> \in Message
    BY <1>1
  <2>3. QED
    BY <2>2, <1>3
<1>7. QED
  BY <1>4, <1>5, <1>6

LEMMA ReplyType ==
  ASSUME NEW s, NEW msgs \in Seq(Message), Reply(s, msgs)
  PROVE  sent' \in [Sockets -> Seq(Message)]
BY AnswersType DEF Reply

LEMMA SilentType == Silent => sent' \in [Sockets -> Seq(Message)]
BY AnswersType DEF Silent

LEMMA ResizedType ==
  ASSUME NEW proofs \in Seq(ZKProof), NEW n \in Nat
  PROVE  /\ Resized(proofs, n) \in Seq(ZKProof)
         /\ Len(Resized(proofs, n)) = n
<1>1. NoProof \in ZKProof
  BY DEF NoProof, ZKProof, Field
<1>2. \A i \in 1..n : i <= Len(proofs) => proofs[i] \in ZKProof
  OBVIOUS
<1>3. Resized(proofs, n) \in [1..n -> ZKProof]
  BY <1>1, <1>2 DEF Resized
<1>4. QED
  BY <1>3, SeqDef

LEMMA StoredType ==
  ASSUME NEW p \in ZKProof, NEW bad \in Malformed
  PROVE  Stored(p, bad) \in ZKProof
BY DEF Stored, ZKProof, Field

-----------------------------------------------------------------------------
\* Steps that several commands share.

LEMMA UpdateClientInv ==
  ASSUME Inv, NEW s \in connected, NEW c \in Client, Entitled(c),
         UpdateClient(s, c),
         sent' \in [Sockets -> Seq(Message)]
  PROVE  Inv'
<1>1. DOMAIN m_clients = connected
  BY DEF Inv, ClientsMatchConnections
<1>2. m_clients' = [m_clients EXCEPT ![s] = c]
  BY DEF UpdateClient
<1>3. m_clients \in [connected -> Client]
  BY <1>1 DEF Inv, TypeOK
<1>4. m_clients' \in [connected -> Client] /\ DOMAIN m_clients' = connected
  BY <1>2, <1>3
<1>5. TypeOK'
  BY <1>1, <1>4 DEF Inv, TypeOK, UpdateClient
<1>6. ClientsMatchConnections'
  BY <1>4 DEF ClientsMatchConnections, UpdateClient
<1>7. \A x \in connected : Entitled(m_clients'[x])
  BY <1>2, <1>3 DEF Inv, RecordsEntitled, Entitled
<1>8. RecordsEntitled'
  BY <1>7 DEF RecordsEntitled, UpdateClient, Entitled
<1>9. QED
  BY <1>5, <1>6, <1>8 DEF Inv

LEMMA RefuseInv ==
  ASSUME Inv, NEW s, NEW head \in Heads, NEW cmd \in Commands, NEW code \in Codes,
         Refuse(s, head, cmd, code)
  PROVE  Inv'
<1>1. sent' \in [Sockets -> Seq(Message)]
  BY AnswersType, ReplyType DEF Refuse
<1>2. TypeOK'
  BY <1>1 DEF Inv, TypeOK, Refuse
<1>3. ClientsMatchConnections' /\ RecordsEntitled'
  BY DEF Inv, ClientsMatchConnections, RecordsEntitled, Entitled, Refuse, IsAuth
<1>4. QED
  BY <1>2, <1>3 DEF Inv

-----------------------------------------------------------------------------
\* One lemma per hook or command.

LEMMA NewClientType ==
  NewClient \in Client /\ Entitled([NewClient EXCEPT !.is_admin = TRUE])
BY DEF NewClient, Client, State, Entitled

LEMMA OnConnectInv ==
  ASSUME Inv, NEW s \in Sockets, OnConnect(s)
  PROVE  Inv'
<1>1. DOMAIN m_clients = connected /\ m_clients \in [connected -> Client]
  BY DEF Inv, ClientsMatchConnections, TypeOK
<1>2. /\ connected' = connected \cup {s}
      /\ m_clients' = [x \in connected \cup {s} |->
                         IF x = s THEN [NewClient EXCEPT !.is_admin = TRUE]
                                  ELSE m_clients[x]]
  BY <1>1 DEF OnConnect
<1>3. [NewClient EXCEPT !.is_admin = TRUE] \in Client
  BY NewClientType DEF Client
<1>4. m_clients' \in [connected' -> Client] /\ DOMAIN m_clients' = connected'
  BY <1>1, <1>2, <1>3
<1>5. sent' \in [Sockets -> Seq(Message)]
  <2>1. << <<"SEND_KEY", "", "">> >> \in Seq(Message)
    BY AnswersType DEF Heads, Commands, Codes
  <2>2. QED
    BY <2>1, ReplyType DEF OnConnect
<1>6. TypeOK'
  BY <1>2, <1>4, <1>5 DEF Inv, TypeOK, OnConnect
<1>7. \A x \in connected' : Entitled(m_clients'[x])
  BY <1>1, <1>2, NewClientType DEF Inv, RecordsEntitled, Entitled
<1>8. QED
  BY <1>4, <1>6, <1>7
  DEF Inv, ClientsMatchConnections, RecordsEntitled, Entitled

LEMMA OnDisconnectInv ==
  ASSUME Inv, NEW s \in Sockets, OnDisconnect(s)
  PROVE  Inv'
<1>1. DOMAIN m_clients = connected /\ m_clients \in [connected -> Client]
  BY DEF Inv, ClientsMatchConnections, TypeOK
<1>2. /\ connected' = connected \ {s}
      /\ m_clients' = [x \in connected \ {s} |-> m_clients[x]]
  BY <1>1 DEF OnDisconnect, Erase
<1>3. m_clients' \in [connected' -> Client] /\ DOMAIN m_clients' = connected'
  BY <1>1, <1>2
<1>4. TypeOK'
  BY <1>2, <1>3, SilentType DEF Inv, TypeOK, OnDisconnect
<1>5. \A x \in connected' : Entitled(m_clients'[x])
  BY <1>2 DEF Inv, RecordsEntitled, Entitled
<1>6. QED
  BY <1>3, <1>4, <1>5
  DEF Inv, ClientsMatchConnections, RecordsEntitled, Entitled

\* A process that died keeps its records; VOTE_END may have marked them first.
LEMMA AbortInv ==
  ASSUME Inv, Abort, UNCHANGED <<m_clients, started>>
  PROVE  Inv'
<1>1. TypeOK'
  BY SilentType DEF Inv, TypeOK, Abort
<1>2. ClientsMatchConnections' /\ RecordsEntitled'
  BY DEF Inv, ClientsMatchConnections, RecordsEntitled, Entitled, Abort, IsAuth
<1>3. QED
  BY <1>1, <1>2 DEF Inv

\* The record a command works on is well typed.
LEMMA RecordType ==
  ASSUME Inv, NEW s \in Sockets, OnRequest(s)
  PROVE  s \in connected /\ m_clients[s] \in Client /\ Entitled(m_clients[s])
BY DEF Inv, TypeOK, ClientsMatchConnections, RecordsEntitled,
       OnRequest, Entitled

LEMMA SendKeyInv ==
  ASSUME Inv, NEW s \in Sockets, NEW arg, client_send_key(s, arg)
  PROVE  Inv'
<1> DEFINE c == m_clients[s]
           known == [c EXCEPT !.status = "PUB_KEY_KNOWN"]
<1>1. OnRequest(s) /\ s \in connected /\ c \in Client /\ Entitled(c)
  BY RecordType DEF client_send_key
<1>2. CASE \E code \in {"E12", "E4", "E7"} : Refuse(s, "RETURN", "SEND_KEY", code)
  BY <1>2, RefuseInv DEF Heads, Commands, Codes
<1>3. CASE /\ MaySendKey(c) /\ UpdateClient(s, known)
           /\ Reply(s, << <<"SEND_KEY_PROOF", "", "">> >>)
  <2>1. known \in Client /\ Entitled(known)
    BY <1>1, <1>3 DEF Client, State, Entitled, MaySendKey, IsAuth
  <2>2. << <<"SEND_KEY_PROOF", "", "">> >> \in Seq(Message)
    BY AnswersType DEF Heads, Commands, Codes
  <2>3. sent' \in [Sockets -> Seq(Message)]
    BY <1>3, <2>2, ReplyType
  <2>4. QED
    BY <1>1, <1>3, <2>1, <2>3, UpdateClientInv
<1>4. QED
  BY <1>2, <1>3 DEF client_send_key

LEMMA SendKeyProofInv ==
  ASSUME Inv, NEW s \in Sockets, NEW arg, client_send_key_proof(s, arg)
  PROVE  Inv'
<1> DEFINE c == m_clients[s]
           Moved(status) == [c EXCEPT !.status = status]
<1>1. OnRequest(s) /\ s \in connected /\ c \in Client /\ Entitled(c)
  BY RecordType DEF client_send_key_proof
<1>2. CASE \E code \in {"E12", "E4"} : Refuse(s, "RETURN", "SEND_KEY_PROOF", code)
  BY <1>2, RefuseInv DEF Heads, Commands, Codes
<1>3. CASE Abort /\ UNCHANGED <<m_clients, started>>
  BY <1>3, AbortInv
<1>4. CASE /\ MayProveKey(c)
           /\ \E status \in {"NO_AUTH", "PUB_KEY_CONFIRMED"}, code \in {"E8", "O2"} :
                /\ UpdateClient(s, Moved(status))
                /\ Reply(s, << <<"RETURN", "SEND_KEY_PROOF", code>> >>)
  <2>1. PICK status \in {"NO_AUTH", "PUB_KEY_CONFIRMED"}, code \in {"E8", "O2"} :
          /\ UpdateClient(s, Moved(status))
          /\ Reply(s, << <<"RETURN", "SEND_KEY_PROOF", code>> >>)
    BY <1>4
  <2>2. Moved(status) \in Client /\ Entitled(Moved(status))
    BY <1>1, <1>4 DEF Client, State, Entitled, MayProveKey, IsAuth
  <2>3. << <<"RETURN", "SEND_KEY_PROOF", code>> >> \in Seq(Message)
    BY AnswersType DEF Heads, Commands, Codes
  <2>4. sent' \in [Sockets -> Seq(Message)]
    BY <2>1, <2>3, ReplyType
  <2>5. QED
    BY <1>1, <2>1, <2>2, <2>4, UpdateClientInv
<1>5. QED
  BY <1>2, <1>3, <1>4 DEF client_send_key_proof

LEMMA LoginInv ==
  ASSUME Inv, NEW s \in Sockets, client_login(s)
  PROVE  Inv'
<1> DEFINE c == m_clients[s]
           in == [c EXCEPT !.status = "FULL_AUTH"]
<1>1. OnRequest(s) /\ s \in connected /\ c \in Client /\ Entitled(c)
  BY RecordType DEF client_login
<1>2. CASE Refuse(s, "RETURN", "LOGIN", "E9")
  BY <1>2, RefuseInv DEF Heads, Commands, Codes
<1>3. CASE /\ UpdateClient(s, in)
           /\ Reply(s, << <<"RETURN", "LOGIN", "O0">> >>)
  <2>1. in \in Client /\ Entitled(in)
    BY <1>1 DEF Client, State, Entitled, IsAuth
  <2>2. << <<"RETURN", "LOGIN", "O0">> >> \in Seq(Message)
    BY AnswersType DEF Heads, Commands, Codes
  <2>3. sent' \in [Sockets -> Seq(Message)]
    BY <1>3, <2>2, ReplyType
  <2>4. QED
    BY <1>1, <1>3, <2>1, <2>3, UpdateClientInv
<1>4. QED
  BY <1>2, <1>3 DEF client_login

\* STOP, VOTE_BEGIN, GET_CANDIDATES and SEND_KEY_PAILLIER leave the records alone.
LEMMA RecordsKeptInv ==
  ASSUME Inv, UNCHANGED <<connected, m_clients>>, TypeOK'
  PROVE  Inv'
BY DEF Inv, ClientsMatchConnections, RecordsEntitled, Entitled, IsAuth

LEMMA StopInv ==
  ASSUME Inv, NEW s \in Sockets, client_stop(s)
  PROVE  Inv'
<1>1. TypeOK'
  BY SilentType DEF Inv, TypeOK, client_stop
<1>2. QED
  BY <1>1, RecordsKeptInv DEF client_stop

LEMMA VoteBeginInv ==
  ASSUME Inv, NEW s \in Sockets, NEW slate \in Slates, vote_begin(s, slate)
  PROVE  Inv'
<1>1. CASE \E code \in {"E6", "E10"} : Refuse(s, "ERROR", "VOTE", code)
  BY <1>1, RefuseInv DEF Heads, Commands, Codes
<1>2. CASE /\ round < MaxRounds /\ round' = round + 1
           /\ started' = TRUE /\ candidates' = slate /\ Silent
           /\ UNCHANGED <<connected, m_clients, pallier, server, result>>
  <2>1. round' \in 0..MaxRounds /\ candidates' \in Seq(Candidates)
    BY <1>2, ElectionAssumption DEF Inv, TypeOK
  <2>2. TypeOK'
    BY <1>2, <2>1, SilentType DEF Inv, TypeOK
  <2>3. QED
    BY <1>2, <2>2, RecordsKeptInv
<1>3. QED
  BY <1>1, <1>2 DEF vote_begin

LEMMA GetCandidatesInv ==
  ASSUME Inv, NEW s \in Sockets, client_get_candidates(s)
  PROVE  Inv'
BY RefuseInv DEF client_get_candidates, Heads, Commands, Codes

LEMMA SendPallierKeyInv ==
  ASSUME Inv, NEW s \in Sockets, NEW arg, client_send_pallier_key(s, arg)
  PROVE  Inv'
<1>1. CASE \E code \in {"E6", "E4", "E7"} :
             Refuse(s, "RETURN", "SEND_KEY_PALLIER", code)
  BY <1>1, RefuseInv DEF Heads, Commands, Codes
<1>2. CASE /\ pallier' \in BOOLEAN /\ Silent
           /\ UNCHANGED <<connected, m_clients, started, candidates, server,
                          result, round>>
  <2>1. TypeOK'
    BY <1>2, SilentType DEF Inv, TypeOK
  <2>2. QED
    BY <1>2, <2>1, RecordsKeptInv
<1>3. QED
  BY <1>1, <1>2 DEF client_send_pallier_key

\* A ballot on file is made of numbers: an argument that is none is never written.
LEMMA WrittenType ==
  ASSUME NEW old \in Seq(Ciphers), NEW args \in Ballots
  PROVE  Written(old, args) \in Seq(Ciphers)
<1>1. args \in Seq(Ciphers \cup {NotANumber}) /\ Zero \in Ciphers
  BY ElectionAssumption
<1>2. DOMAIN args = 1..Len(args) /\ Len(args) \in Nat
  BY <1>1
<1>3. \A i \in DOMAIN old : old[i] \in Ciphers
  OBVIOUS
<1>4. \A i \in DOMAIN args : args[i] \in Ciphers \cup {NotANumber}
  BY <1>1
<1>5. Written(old, args) \in [1..Len(args) -> Ciphers]
  BY <1>1, <1>2, <1>3, <1>4 DEF Written
<1>6. QED
  BY <1>2, <1>5, SeqDef

LEMMA VoteInv ==
  ASSUME Inv, NEW s \in Sockets, NEW args \in Ballots, client_vote(s, args)
  PROVE  Inv'
<1> DEFINE c == m_clients[s]
           cast == [c EXCEPT !.voted = TRUE, !.vote = Written(@, args)]
           E4 == IF Len(args) # Len(candidates)
                   THEN << <<"RETURN", "VOTE", "E4">> >> ELSE <<>>
<1>1. OnRequest(s) /\ s \in connected /\ c \in Client
  BY RecordType DEF client_vote
<1>2. CASE Refuse(s, "RETURN", "VOTE", "E1")
  BY <1>2, RefuseInv DEF Heads, Commands, Codes
<1>3. CASE /\ IsAuth(c) /\ UpdateClient(s, cast)
           /\ Reply(s, Append(E4, <<"RETURN", "VOTE", "O1">>))
  <2>1. cast \in Client /\ Entitled(cast)
    BY <1>1, <1>3, WrittenType DEF Client, Entitled, IsAuth
  <2>2. E4 \in Seq(Message)
    BY AnswersType DEF Heads, Commands, Codes
  <2>3. Append(E4, <<"RETURN", "VOTE", "O1">>) \in Seq(Message)
    BY <2>2, AnswersType DEF Heads, Commands, Codes
  <2>4. sent' \in [Sockets -> Seq(Message)]
    BY <1>3, <2>3, ReplyType
  <2>5. QED
    BY <1>1, <1>3, <2>1, <2>4, UpdateClientInv
<1>4. QED
  BY <1>2, <1>3 DEF client_vote

LEMMA SendZkpInv ==
  ASSUME Inv, NEW s \in Sockets, NEW index \in 1..(Len(candidates) + 1),
         NEW bad \in Malformed, client_send_zkp(s, index, bad)
  PROVE  Inv'
<1> DEFINE c == m_clients[s]
           resized == Resized(c.proofs, Len(candidates))
           stored == [c EXCEPT !.proofs = [resized EXCEPT ![index] = Stored(@, bad)]]
           code == IF bad = "none" THEN "O4" ELSE "E5"
<1>1. OnRequest(s) /\ s \in connected /\ c \in Client /\ Entitled(c)
  BY RecordType DEF client_send_zkp
<1>2. CASE \E e \in {"E6", "E5"} : Refuse(s, "RETURN", "SEND_ZKP", e)
  BY <1>2, RefuseInv DEF Heads, Commands, Codes
<1>3. CASE /\ IsAdmin(c) /\ index <= Len(candidates) /\ UpdateClient(s, stored)
           /\ Reply(s, << <<"RETURN", "SEND_ZKP", code>> >>)
  <2>1. Len(candidates) \in Nat /\ c.proofs \in Seq(ZKProof)
    BY <1>1 DEF Client, Inv, TypeOK
  <2>2. resized \in Seq(ZKProof) /\ Len(resized) = Len(candidates)
    BY <2>1, ResizedType
  <2>3. index \in 1..Len(resized) /\ resized[index] \in ZKProof
    BY <1>3, <2>1, <2>2
  <2>4. [resized EXCEPT ![index] = Stored(@, bad)] \in Seq(ZKProof)
    BY <2>2, <2>3, StoredType
  <2>5. stored \in Client /\ Entitled(stored)
    BY <1>1, <1>3, <2>4 DEF Client, Entitled, IsAdmin, IsAuth
  <2>6. << <<"RETURN", "SEND_ZKP", code>> >> \in Seq(Message)
    BY AnswersType DEF Heads, Commands, Codes
  <2>7. sent' \in [Sockets -> Seq(Message)]
    BY <1>3, <2>6, ReplyType
  <2>8. QED
    BY <1>1, <1>3, <2>5, <2>7, UpdateClientInv
<1>4. QED
  BY <1>2, <1>3 DEF client_send_zkp

LEMMA SendZkpShortInv ==
  ASSUME Inv, NEW s \in Sockets, client_send_zkp_short(s)
  PROVE  Inv'
BY AbortInv DEF client_send_zkp_short

\* VOTE_END marks every record and changes nothing else in it.
LEMMA ApprovedInv ==
  ASSUME Inv, NEW approved \in BOOLEAN,
         m_clients' = [x \in DOMAIN m_clients |->
                         [m_clients[x] EXCEPT !.aproved = approved]],
         connected' = connected
  PROVE  /\ DOMAIN m_clients' \subseteq Sockets
         /\ m_clients' \in [DOMAIN m_clients' -> Client]
         /\ ClientsMatchConnections' /\ RecordsEntitled'
<1>1. \A x \in DOMAIN m_clients :
        /\ m_clients[x] \in Client
        /\ [m_clients[x] EXCEPT !.aproved = approved] \in Client
  BY DEF Inv, TypeOK, Client
<1>2. DOMAIN m_clients' = DOMAIN m_clients
  OBVIOUS
<1>3. \A x \in DOMAIN m_clients :
        /\ m_clients'[x].status = m_clients[x].status
        /\ m_clients'[x].voted = m_clients[x].voted
        /\ m_clients'[x].vote = m_clients[x].vote
        /\ m_clients'[x].proofs = m_clients[x].proofs
  BY <1>1 DEF Client
<1>4. m_clients' \in [DOMAIN m_clients' -> Client]
  BY <1>1, <1>2
<1>5. ClientsMatchConnections'
  BY <1>2 DEF Inv, ClientsMatchConnections
<1>6. RecordsEntitled'
  BY <1>3 DEF Inv, ClientsMatchConnections, RecordsEntitled, Entitled, IsAuth
<1>7. QED
  BY <1>2, <1>4, <1>5, <1>6 DEF Inv, TypeOK

LEMMA VoteEndInv ==
  ASSUME Inv, NEW s \in Sockets, vote_end(s)
  PROVE  Inv'
<1> DEFINE approved == Approves(m_clients[s])
           counted == Counts(approved)
<1>1. CASE \E code \in {"E6", "E13"} : Refuse(s, "ERROR", "VOTE", code)
  BY <1>1, RefuseInv DEF Heads, Commands, Codes
<1>2. CASE /\ started' = FALSE
           /\ m_clients' = [x \in DOMAIN m_clients |->
                              [m_clients[x] EXCEPT !.aproved = approved]]
           /\ result' = [round |-> round, slate |-> candidates, counted |->
                           [x \in counted |-> m_clients[x].vote]]
           /\ Broadcast(<<"SEND_VOTE_RESULT", "", "">>)
           /\ UNCHANGED <<connected, candidates, pallier, server, round>>
  <2>1. approved \in BOOLEAN
    BY DEF Approves
  <2>2. counted \subseteq DOMAIN m_clients
    BY DEF Counts
  <2>3. \A x \in DOMAIN m_clients : m_clients[x].vote \in Seq(Ciphers)
    BY DEF Inv, TypeOK, Client
  <2>4. /\ DOMAIN result'.counted \subseteq Sockets
        /\ result'.counted \in [DOMAIN result'.counted -> Seq(Ciphers)]
        /\ result'.round \in 0..MaxRounds /\ result'.slate \in Seq(Candidates)
    BY <1>2, <2>2, <2>3 DEF Inv, TypeOK
  <2>5. << <<"SEND_VOTE_RESULT", "", "">> >> \in Seq(Message)
    BY AnswersType DEF Heads, Commands, Codes
  <2>6. sent' \in [Sockets -> Seq(Message)]
    BY <1>2, <2>5, AnswersType DEF Broadcast
  <2>7. /\ DOMAIN m_clients' \subseteq Sockets
        /\ m_clients' \in [DOMAIN m_clients' -> Client]
        /\ ClientsMatchConnections' /\ RecordsEntitled'
    BY <1>2, <2>1, ApprovedInv
  <2>8. TypeOK'
    BY <1>2, <2>4, <2>6, <2>7 DEF Inv, TypeOK
  <2>9. QED
    BY <2>7, <2>8 DEF Inv
<1>3. CASE /\ started' = FALSE
           /\ m_clients' = [x \in DOMAIN m_clients |->
                              [m_clients[x] EXCEPT !.aproved = approved]]
           /\ Abort
  <2>1. approved \in BOOLEAN
    BY DEF Approves
  <2>2. /\ DOMAIN m_clients' \subseteq Sockets
        /\ m_clients' \in [DOMAIN m_clients' -> Client]
        /\ ClientsMatchConnections' /\ RecordsEntitled'
    BY <1>3, <2>1, ApprovedInv DEF Abort
  <2>3. TypeOK'
    BY <1>3, <2>2, SilentType DEF Inv, TypeOK, Abort
  <2>4. QED
    BY <2>2, <2>3 DEF Inv
<1>4. QED
  BY <1>1, <1>2, <1>3 DEF vote_end

-----------------------------------------------------------------------------
LEMMA InitInv == Init => Inv
<1> SUFFICES ASSUME Init PROVE Inv
  OBVIOUS
<1>1. TypeOK
  <2>1. /\ DOMAIN m_clients = {} /\ m_clients \in [{} -> Client]
        /\ DOMAIN result.counted = {} /\ result.counted \in [{} -> Seq(Ciphers)]
    BY DEF Init, NoResult
  <2>2. candidates \in Seq(Candidates) /\ result.slate \in Seq(Candidates)
    BY DEF Init, NoResult
  <2>3. sent \in [Sockets -> Seq(Message)]
    BY AnswersType DEF Init
  <2>4. result.round \in 0..MaxRounds /\ round \in 0..MaxRounds
    BY ElectionAssumption DEF Init, NoResult
  <2>5. QED
    BY <2>1, <2>2, <2>3, <2>4 DEF Init, TypeOK
<1>2. ClientsMatchConnections /\ RecordsEntitled
  BY DEF Init, ClientsMatchConnections, RecordsEntitled, Entitled
<1>3. QED
  BY <1>1, <1>2 DEF Inv

LEMMA NextInv == Inv /\ [Next]_vars => Inv'
<1> SUFFICES ASSUME Inv, [Next]_vars PROVE Inv'
  OBVIOUS
<1>1. ASSUME NEW s \in Sockets, OnConnect(s) \/ OnDisconnect(s) PROVE Inv'
  BY <1>1, OnConnectInv, OnDisconnectInv
<1>2. ASSUME NEW s \in Sockets, Authenticate(s) PROVE Inv'
  BY <1>2, SendKeyInv, SendKeyProofInv, LoginInv DEF Authenticate
<1>3. ASSUME NEW s \in Sockets, Administer(s) PROVE Inv'
  BY <1>3, StopInv, VoteBeginInv, SendPallierKeyInv, VoteEndInv DEF Administer
<1>4. ASSUME NEW s \in Sockets, TakePart(s) PROVE Inv'
  BY <1>4, GetCandidatesInv, VoteInv, SendZkpInv, SendZkpShortInv DEF TakePart
<1>5. CASE UNCHANGED vars
  BY <1>5 DEF vars, Inv, TypeOK, ClientsMatchConnections,
              RecordsEntitled, Entitled, IsAuth
<1>6. QED
  BY <1>1, <1>2, <1>3, <1>4, <1>5 DEF Next

\* The inductive invariant holds in every state the hooks can reach.
THEOREM Invariance == Spec => []Inv
BY InitInv, NextInv, PTL DEF Spec

\* The variables keep their types through every hook and command.
THEOREM TypeCorrect == Spec => []TypeOK
<1>1. Inv => TypeOK
  BY DEF Inv
<1>2. QED
  BY <1>1, Invariance, PTL

\* OnRequest and OnUpdate always find the record of the socket they are called
\* with: m_clients.at does not throw.
THEOREM RecordsFollowConnections == Spec => []ClientsMatchConnections
<1>1. Inv => ClientsMatchConnections
  BY DEF Inv
<1>2. QED
  BY <1>1, Invariance, PTL

\* A ballot or a proof is only ever on file for a client that has logged in.
THEOREM OnlyAuthenticated == Spec => []OnlyAuthenticatedTakePart
<1>1. Inv => OnlyAuthenticatedTakePart
  BY DEF Inv, RecordsEntitled, Entitled, ClientsMatchConnections,
         OnlyAuthenticatedTakePart
<1>2. QED
  BY <1>1, Invariance, PTL

-----------------------------------------------------------------------------
\* What a step may never do, and that Election implements BallotBox.

\* What a step of a command other than VOTE_BEGIN and VOTE_END does outside of
\* the records of clients: nothing, except to the Paillier key and the server.
LEMMA VoteKept ==
  ASSUME NEW s \in Sockets,
         \/ OnConnect(s) \/ OnDisconnect(s) \/ Authenticate(s) \/ TakePart(s)
         \/ client_stop(s) \/ \E arg \in {"wrong_arity", "invalid", "not_a_number", "valid"} :
                                 client_send_pallier_key(s, arg)
  PROVE  UNCHANGED <<candidates, result, round>> /\ started' = started
<1>1. CASE OnConnect(s) \/ OnDisconnect(s)
  BY <1>1 DEF OnConnect, OnDisconnect
<1>2. CASE Authenticate(s)
  BY <1>2 DEF Authenticate, client_send_key, client_send_key_proof, client_login,
              Refuse, UpdateClient, Abort
<1>3. CASE TakePart(s)
  BY <1>3 DEF TakePart, client_get_candidates, client_vote, client_send_zkp,
              client_send_zkp_short, Refuse, UpdateClient, Abort
<1>4. CASE client_stop(s)
  BY <1>4 DEF client_stop
<1>5. CASE \E arg \in {"wrong_arity", "invalid", "not_a_number", "valid"} :
             client_send_pallier_key(s, arg)
  BY <1>5 DEF client_send_pallier_key, Refuse
<1>6. QED
  BY <1>1, <1>2, <1>3, <1>4, <1>5

\* What VOTE_BEGIN does to the vote when it is not refused.
Begins ==
  /\ ~started /\ started' = TRUE /\ round' = round + 1 /\ round < MaxRounds
  /\ UNCHANGED <<connected, m_clients, result>>

\* What VOTE_END does to the vote when it is not refused.
Ends ==
  /\ started /\ started' = FALSE
  /\ UNCHANGED <<connected, candidates, round>>
  /\ \E approved \in BOOLEAN :
       /\ m_clients' = [x \in DOMAIN m_clients |->
                          [m_clients[x] EXCEPT !.aproved = approved]]
       /\ \/ result' = result
          \/ result' = [round |-> round, slate |-> candidates, counted |->
                          [x \in Counts(approved) |-> m_clients[x].vote]]

LEMMA VoteChanges ==
  ASSUME [Next]_vars
  PROVE  \/ UNCHANGED <<started, candidates, result, round>>
         \/ Begins \/ Ends
<1>1. CASE UNCHANGED vars
  BY <1>1 DEF vars
<1>2. ASSUME NEW s \in Sockets, NEW slate \in Slates, vote_begin(s, slate)
      PROVE  UNCHANGED <<started, candidates, result, round>> \/ Begins
  BY <1>2 DEF vote_begin, Refuse, Begins, MayBegin
<1>3. ASSUME NEW s \in Sockets, vote_end(s)
      PROVE  UNCHANGED <<started, candidates, result, round>> \/ Ends
  <2>1. Approves(m_clients[s]) \in BOOLEAN
    BY DEF Approves
  <2>2. QED
    BY <1>3, <2>1 DEF vote_end, Refuse, Ends, MayEnd, Abort
<1>4. QED
  BY <1>1, <1>2, <1>3, VoteKept DEF Next, Administer

-----------------------------------------------------------------------------
\* The candidates do not change while an election is in progress.
THEOREM SlateIsFrozen == Spec => SlateFrozen
<1>1. [Next]_vars => [started /\ started' => candidates' = candidates]_vars
  BY VoteChanges DEF Begins, Ends
<1>2. QED
  BY <1>1, PTL DEF Spec, SlateFrozen

\* A result belongs to an election that is over: the strengthening that makes
\* the rounds of successive results grow.
ResultBehind ==
  /\ round \in Nat /\ result.round \in Nat
  /\ result.round <= round
  /\ started => result.round < round

LEMMA ResultBehindAlways == Spec => []ResultBehind
<1>1. Init => ResultBehind
  BY DEF Init, ResultBehind, NoResult
<1>2. ResultBehind /\ [Next]_vars => ResultBehind'
  <2> SUFFICES ASSUME ResultBehind, [Next]_vars PROVE ResultBehind'
    OBVIOUS
  <2>1. CASE UNCHANGED <<started, candidates, result, round>>
    BY <2>1 DEF ResultBehind
  <2>2. CASE Begins
    BY <2>2 DEF ResultBehind, Begins
  <2>3. CASE Ends
    BY <2>3 DEF ResultBehind, Ends
  <2>4. QED
    BY <2>1, <2>2, <2>3, VoteChanges
<1>3. QED
  BY <1>1, <1>2, PTL DEF Spec

\* Every result published is that of a later election than the one before, and
\* of one in progress: VOTE_END twice publishes once.
THEOREM OneResult == Spec => OneResultPerElection
<1>1. ResultBehind /\ [Next]_vars =>
        [result' # result => started /\ result'.round > result.round]_vars
  <2> SUFFICES ASSUME ResultBehind, [Next]_vars, result' # result
               PROVE  started /\ result'.round > result.round
    BY DEF vars
  <2>1. Ends
    BY VoteChanges DEF Begins
  <2>2. result'.round = round
    BY <2>1 DEF Ends
  <2>3. QED
    BY <2>1, <2>2 DEF Ends, ResultBehind
<1>2. QED
  BY <1>1, ResultBehindAlways, PTL DEF Spec, OneResultPerElection

-----------------------------------------------------------------------------
\* Election implements BallotBox.

Voted(clients) == {x \in DOMAIN clients : clients[x].voted}

\* Steps that keep who voted and what keep the box, whatever else they record.
LEMMA BoxKept ==
  ASSUME Voted(m_clients') = Voted(m_clients),
         \A x \in Voted(m_clients) : m_clients'[x].vote = m_clients[x].vote
  PROVE  Box' = Box
BY DEF Box, Voted

LEMMA UpdateKeepsBox ==
  ASSUME Inv, NEW s \in connected, NEW c \in Client, UpdateClient(s, c),
         c.voted = m_clients[s].voted, c.vote = m_clients[s].vote
  PROVE  Box' = Box
<1>1. s \in DOMAIN m_clients /\ m_clients' = [m_clients EXCEPT ![s] = c]
  BY DEF Inv, ClientsMatchConnections, UpdateClient
<1>2. m_clients \in [DOMAIN m_clients -> Client]
  BY DEF Inv, TypeOK
<1>3. /\ DOMAIN m_clients' = DOMAIN m_clients
      /\ \A x \in DOMAIN m_clients : /\ m_clients'[x].voted = m_clients[x].voted
                                     /\ m_clients'[x].vote = m_clients[x].vote
  BY <1>1, <1>2
<1>4. QED
  BY <1>3, BoxKept DEF Voted

LEMMA RecordsKeepBox ==
  ASSUME m_clients' = m_clients
  PROVE  Box' = Box
BY DEF Box

\* The three steps that may change the box or its count.
LEMMA ConnectBox ==
  ASSUME Inv, NEW s \in Sockets, OnConnect(s)
  PROVE  Box' = Box
<1>1. s \notin DOMAIN m_clients
  BY DEF Inv, ClientsMatchConnections, OnConnect
<1>2. m_clients' = [x \in DOMAIN m_clients \cup {s} |->
                      IF x = s THEN [NewClient EXCEPT !.is_admin = TRUE]
                               ELSE m_clients[x]]
  BY <1>1 DEF OnConnect
<1>3. ~[NewClient EXCEPT !.is_admin = TRUE].voted
  BY DEF NewClient
<1>4. QED
  BY <1>1, <1>2, <1>3, BoxKept DEF Voted

LEMMA DisconnectBox ==
  ASSUME Inv, NEW s \in Sockets, OnDisconnect(s)
  PROVE  Box' = Box \/ (s \in DOMAIN Box /\ Box' = [x \in DOMAIN Box \ {s} |-> Box[x]])
<1>1. m_clients' = [x \in DOMAIN m_clients \ {s} |-> m_clients[x]]
  BY DEF OnDisconnect, Erase
<1>2. Voted(m_clients') = Voted(m_clients) \ {s}
  BY <1>1 DEF Voted
<1>3. Box' = [x \in Voted(m_clients) \ {s} |-> m_clients[x].vote]
  BY <1>1, <1>2 DEF Box, Voted
<1>4. Box = [x \in Voted(m_clients) |-> m_clients[x].vote]
  BY DEF Box, Voted
<1>5. CASE s \in Voted(m_clients)
  BY <1>3, <1>4, <1>5
<1>6. CASE s \notin Voted(m_clients)
  <2>1. Voted(m_clients) \ {s} = Voted(m_clients)
    BY <1>6
  <2>2. QED
    BY <1>3, <1>4, <2>1
<1>7. QED
  BY <1>5, <1>6

LEMMA VoteBox ==
  ASSUME Inv, NEW s \in Sockets, NEW args \in Ballots, client_vote(s, args)
  PROVE  \/ Box' = Box
         \/ Box' = [x \in DOMAIN Box \cup {s} |-> IF x = s THEN BB!Paper(s, args)
                                                           ELSE Box[x]]
<1> DEFINE cast == [m_clients[s] EXCEPT !.voted = TRUE, !.vote = Written(@, args)]
           paper == BB!Paper(s, args)
<1>1. CASE Refuse(s, "RETURN", "VOTE", "E1")
  BY <1>1, RecordsKeepBox DEF Refuse
<1>2. CASE UpdateClient(s, cast)
  <2>1. s \in DOMAIN m_clients /\ m_clients[s] \in Client
    BY RecordType DEF client_vote, Inv, ClientsMatchConnections
  <2>2. cast.voted /\ cast.vote = paper
    <3>1. cast.voted /\ cast.vote = Written(m_clients[s].vote, args)
      BY <2>1 DEF Client
    <3>2. BB!Before(s) = m_clients[s].vote
      <4>1. Entitled(m_clients[s])
        BY RecordType DEF client_vote
      <4>2. CASE m_clients[s].voted
        BY <2>1, <4>2 DEF BB!Before, Box
      <4>3. CASE ~m_clients[s].voted
        BY <2>1, <4>1, <4>3 DEF BB!Before, Box, Entitled
      <4>4. QED
        BY <4>2, <4>3
    <3>3. QED
      BY <3>1, <3>2 DEF BB!Paper, Written
  <2>3. m_clients' = [m_clients EXCEPT ![s] = cast]
    BY <1>2 DEF UpdateClient
  <2>4. /\ DOMAIN m_clients' = DOMAIN m_clients /\ m_clients'[s] = cast
        /\ \A x \in DOMAIN m_clients \ {s} : m_clients'[x] = m_clients[x]
    BY <2>1, <2>3 DEF Inv, TypeOK
  <2> HIDE DEF cast, paper
  <2>5. Voted(m_clients') = Voted(m_clients) \cup {s}
    BY <2>1, <2>2, <2>4 DEF Voted
  <2>6. Box' = [x \in Voted(m_clients) \cup {s} |-> m_clients'[x].vote]
    BY <2>5 DEF Box, Voted
  <2>7. Box = [x \in Voted(m_clients) |-> m_clients[x].vote]
    BY DEF Box, Voted
  <2>8. \A x \in Voted(m_clients) \cup {s} :
          m_clients'[x].vote = IF x = s THEN paper ELSE Box[x]
    BY <2>2, <2>4, <2>7 DEF Voted
  <2>9. Box' = [x \in DOMAIN Box \cup {s} |-> IF x = s THEN paper ELSE Box[x]]
    BY <2>6, <2>7, <2>8
  <2>10. QED
    BY <2>9 DEF paper
<1>3. QED
  BY <1>1, <1>2 DEF client_vote

\* Nobody counted is the empty tuple, everybody counted is the box.
LEMMA CountedBox ==
  ASSUME NEW approved \in BOOLEAN
  PROVE  [x \in Counts(approved) |-> m_clients[x].vote] \in {Box, <<>>}
<1>1. CASE approved
  <2>1. Counts(approved) = Voted(m_clients)
    BY <1>1 DEF Counts, Voted
  <2>2. QED
    BY <2>1 DEF Box, Voted
<1>2. CASE ~approved
  <2>1. Counts(approved) = {}
    BY <1>2 DEF Counts
  <2>2. QED
    BY <2>1
<1>3. QED
  BY <1>1, <1>2

LEMMA EndBox ==
  ASSUME Inv, Ends
  PROVE  Box' = Box /\ result'.counted \in {Box, <<>>, result.counted}
<1>1. PICK approved \in BOOLEAN :
        /\ m_clients' = [x \in DOMAIN m_clients |->
                           [m_clients[x] EXCEPT !.aproved = approved]]
        /\ \/ result' = result
           \/ result' = [round |-> round, slate |-> candidates, counted |->
                           [x \in Counts(approved) |-> m_clients[x].vote]]
  BY DEF Ends
<1>2. \A x \in DOMAIN m_clients : /\ m_clients'[x].voted = m_clients[x].voted
                                  /\ m_clients'[x].vote = m_clients[x].vote
  BY <1>1 DEF Inv, TypeOK, Client
<1>3. Box' = Box
  BY <1>1, <1>2, BoxKept DEF Voted
<1>4. result'.counted \in {Box, <<>>, result.counted}
  <2>1. CASE result' = result
    BY <2>1
  <2>2. CASE result' = [round |-> round, slate |-> candidates, counted |->
                          [x \in Counts(approved) |-> m_clients[x].vote]]
    <3>1. result'.counted = [x \in Counts(approved) |-> m_clients[x].vote]
      BY <2>2
    <3>2. QED
      BY <3>1, CountedBox
  <2>3. QED
    BY <1>1, <2>1, <2>2
<1>5. QED
  BY <1>3, <1>4

\* Every command but VOTE, VOTE_BEGIN and VOTE_END keeps the box.
LEMMA AuthenticateBox ==
  ASSUME Inv, NEW s \in Sockets, Authenticate(s)
  PROVE  Box' = Box
<1> DEFINE c == m_clients[s]
           Moved(status) == [c EXCEPT !.status = status]
<1>1. s \in connected /\ c \in Client
  BY RecordType DEF Authenticate, client_send_key, client_send_key_proof, client_login
<1>2. CASE \E status \in State : UpdateClient(s, Moved(status))
  <2>1. PICK status \in State : UpdateClient(s, Moved(status))
    BY <1>2
  <2>2. /\ Moved(status) \in Client
        /\ Moved(status).voted = c.voted /\ Moved(status).vote = c.vote
    BY <1>1 DEF Client
  <2>3. QED
    BY <1>1, <2>1, <2>2, UpdateKeepsBox
<1>3. CASE m_clients' = m_clients
  BY <1>3, RecordsKeepBox
<1>4. \/ \E status \in State : UpdateClient(s, Moved(status))
      \/ m_clients' = m_clients
  <2>1. CASE \E arg \in {"wrong_arity", "invalid", "valid"} : client_send_key(s, arg)
    BY <2>1 DEF client_send_key, Refuse, State
  <2>2. CASE \E arg \in {"wrong_arity", "not_a_number", "wrong", "right"} :
               client_send_key_proof(s, arg)
    BY <2>2 DEF client_send_key_proof, Refuse, State
  <2>3. CASE client_login(s)
    BY <2>3 DEF client_login, Refuse, State
  <2>4. QED
    BY <2>1, <2>2, <2>3 DEF Authenticate
<1>5. QED
  BY <1>2, <1>3, <1>4

LEMMA SendZkpBox ==
  ASSUME Inv, NEW s \in Sockets, NEW index \in 1..(Len(candidates) + 1),
         NEW bad \in Malformed, client_send_zkp(s, index, bad)
  PROVE  Box' = Box
<1> DEFINE c == m_clients[s]
           With(proofs) == [c EXCEPT !.proofs = proofs]
           stored == [Resized(c.proofs, Len(candidates))
                        EXCEPT ![index] = Stored(@, bad)]
<1>1. s \in connected /\ c \in Client
  BY RecordType DEF client_send_zkp
<1>2. CASE \E code \in Codes : Refuse(s, "RETURN", "SEND_ZKP", code)
  BY <1>2, RecordsKeepBox DEF Refuse
<1>3. CASE index <= Len(candidates) /\ UpdateClient(s, With(stored))
  <2>1. Len(candidates) \in Nat /\ c.proofs \in Seq(ZKProof)
    BY <1>1 DEF Client, Inv, TypeOK
  <2>2. /\ Resized(c.proofs, Len(candidates)) \in Seq(ZKProof)
        /\ index \in 1..Len(Resized(c.proofs, Len(candidates)))
    BY <1>3, <2>1, ResizedType
  <2>3. stored \in Seq(ZKProof)
    BY <2>2, StoredType
  <2> HIDE DEF stored
  <2>4. /\ With(stored) \in Client
        /\ With(stored).voted = c.voted /\ With(stored).vote = c.vote
    BY <1>1, <2>3 DEF Client
  <2>5. QED
    BY <1>1, <1>3, <2>4, UpdateKeepsBox
<1>4. QED
  BY <1>2, <1>3 DEF client_send_zkp, Codes

\* The initial states map to an empty box, and every step to a step of
\* BallotBox or to none.
LEMMA InitRefines == Init => BB!Init
<1> SUFFICES ASSUME Init PROVE BB!Init
  OBVIOUS
<1>1. DOMAIN m_clients = {}
  BY DEF Init
<1>2. {y \in DOMAIN m_clients : m_clients[y].voted} = {}
  BY <1>1
<1>3. Box = <<>>
  BY <1>2 DEF Box
<1>4. QED
  BY <1>3 DEF Init, NoResult, BB!Init

LEMMA NextRefines == Inv /\ [Next]_vars => [BB!Next]_(BB!vars)
<1> SUFFICES ASSUME Inv, [Next]_vars PROVE BB!Next \/ UNCHANGED BB!vars
  OBVIOUS
<1>1. CASE UNCHANGED vars
  BY <1>1, RecordsKeepBox DEF vars, BB!vars
<1>2. ASSUME NEW s \in Sockets, OnConnect(s) PROVE UNCHANGED BB!vars
  BY <1>2, ConnectBox, VoteKept DEF BB!vars
<1>3. ASSUME NEW s \in Sockets, OnDisconnect(s) PROVE BB!TakeBack(s) \/ UNCHANGED BB!vars
  BY <1>3, DisconnectBox, VoteKept DEF BB!vars, BB!TakeBack
<1>4. ASSUME NEW s \in Sockets, Authenticate(s) PROVE UNCHANGED BB!vars
  BY <1>4, AuthenticateBox, VoteKept DEF BB!vars
<1>5. ASSUME NEW s \in Sockets, TakePart(s) PROVE BB!Cast(s) \/ BB!CastLate(s) \/ UNCHANGED BB!vars
  <2>1. CASE \E args \in Ballots : client_vote(s, args)
    BY <1>5, <2>1, VoteBox, VoteKept
    DEF BB!vars, BB!Cast, BB!CastLate, BB!PutIn, Inv, TypeOK
  <2>2. CASE client_get_candidates(s)
    BY <1>5, <2>2, RecordsKeepBox, VoteKept DEF BB!vars, client_get_candidates, Refuse
  <2>3. CASE \E index \in 1..(Len(candidates) + 1), bad \in Malformed :
               client_send_zkp(s, index, bad)
    BY <1>5, <2>3, SendZkpBox, VoteKept DEF BB!vars
  <2>4. CASE client_send_zkp_short(s)
    BY <1>5, <2>4, RecordsKeepBox, VoteKept DEF BB!vars, client_send_zkp_short
  <2>5. QED
    BY <1>5, <2>1, <2>2, <2>3, <2>4 DEF TakePart
<1>6. ASSUME NEW s \in Sockets, Administer(s)
      PROVE  BB!Open \/ BB!Close \/ UNCHANGED BB!vars
  <2>1. CASE client_stop(s) \/ \E arg \in {"wrong_arity", "invalid", "not_a_number", "valid"} :
                                 client_send_pallier_key(s, arg)
    <3>1. m_clients' = m_clients
      BY <2>1 DEF client_stop, client_send_pallier_key, Refuse
    <3>2. QED
      BY <2>1, <3>1, RecordsKeepBox, VoteKept DEF BB!vars
  <2>2. CASE Begins
    BY <2>2, RecordsKeepBox DEF BB!Open, Begins, Inv, TypeOK
  <2>3. CASE Ends
    BY <2>3, EndBox DEF BB!Close, Ends, Inv, TypeOK
  <2>4. CASE UNCHANGED <<m_clients, started, result>>
    BY <2>4, RecordsKeepBox DEF BB!vars
  <2>5. CASE \E slate \in Slates : vote_begin(s, slate)
    BY <2>5, <2>2, <2>4 DEF vote_begin, Refuse, Begins, MayBegin
  <2>6. CASE vote_end(s)
    <3>1. Ends \/ UNCHANGED <<m_clients, started, result>>
      <4>1. Approves(m_clients[s]) \in BOOLEAN
        BY DEF Approves
      <4>2. QED
        BY <2>6, <4>1 DEF vote_end, Refuse, Ends, MayEnd, Abort
    <3>2. QED
      BY <3>1, <2>3, <2>4
  <2>7. QED
    BY <1>6, <2>1, <2>5, <2>6 DEF Administer
<1>7. QED
  BY <1>1, <1>2, <1>3, <1>4, <1>5, <1>6 DEF Next, BB!Next

\* Ballots go from records to results as from a box to its count.
THEOREM BallotsAreABox == Spec => ImplementsBallotBox
<1>1. Init => BB!Init
  BY InitRefines
<1>2. Inv /\ [Next]_vars => [BB!Next]_(BB!vars)
  BY NextRefines
<1>3. QED
  BY <1>1, <1>2, Invariance, PTL DEF Spec, BB!Spec, ImplementsBallotBox

-----------------------------------------------------------------------------
\* What a step may do to one record.

Untouched(x) == m_clients'[x] = m_clients[x]
MarkedOnly(x) ==
  \E approved : m_clients'[x] = [m_clients[x] EXCEPT !.aproved = approved]
\* Client x is moved to a status of the ladder, and is answered.
Climbs(x) ==
  \E status \in State :
    /\ m_clients'[x] = [m_clients[x] EXCEPT !.status = status]
    /\ \/ status = "FULL_AUTH"
       \/ <<m_clients[x].status, status>> \in {<<"NO_AUTH", "PUB_KEY_KNOWN">>,
                                               <<"PUB_KEY_KNOWN", "PUB_KEY_CONFIRMED">>,
                                               <<"PUB_KEY_KNOWN", "NO_AUTH">>}
\* A ballot or a proof of client x is recorded.
Files(x) == m_clients'[x].status = m_clients[x].status
OnlyAnswers(x) ==
  x \in Sockets /\ sent'[x] # <<>> /\ \A y \in Sockets \ {x} : sent'[y] = <<>>

LEMMA ReplyAnswers ==
  ASSUME NEW s \in Sockets, NEW msgs, msgs # <<>>, Reply(s, msgs)
  PROVE  OnlyAnswers(s)
BY DEF Reply, OnlyAnswers

\* UpdateClient changes the record of its client and no other.
LEMMA UpdateOnlyOne ==
  ASSUME Inv, NEW s \in connected, NEW c, UpdateClient(s, c)
  PROVE  /\ connected' = connected /\ m_clients'[s] = c
         /\ \A x \in connected \ {s} : Untouched(x)
BY DEF Inv, TypeOK, ClientsMatchConnections, UpdateClient, Untouched

\* Every step but a connection and a disconnection, record by record.
RecordSteps ==
  /\ connected' = connected
  /\ \A x \in connected :
       Untouched(x) \/ MarkedOnly(x) \/ ((Climbs(x) \/ Files(x)) /\ OnlyAnswers(x))

LEMMA UntouchedSteps ==
  ASSUME UNCHANGED <<connected, m_clients>>
  PROVE  RecordSteps
BY DEF RecordSteps, Untouched

LEMMA UpdateSteps ==
  ASSUME Inv, NEW s \in connected, NEW c, UpdateClient(s, c), OnlyAnswers(s),
         Climbs(s) \/ Files(s)
  PROVE  RecordSteps
BY UpdateOnlyOne DEF RecordSteps

LEMMA AuthenticateSteps ==
  ASSUME Inv, NEW s \in Sockets, Authenticate(s)
  PROVE  RecordSteps
<1> DEFINE c == m_clients[s]
           Moved(status) == [c EXCEPT !.status = status]
           Rung(status) ==
             \/ status = "FULL_AUTH"
             \/ <<c.status, status>> \in {<<"NO_AUTH", "PUB_KEY_KNOWN">>,
                                          <<"PUB_KEY_KNOWN", "PUB_KEY_CONFIRMED">>,
                                          <<"PUB_KEY_KNOWN", "NO_AUTH">>}
<1>1. s \in connected
  BY RecordType DEF Authenticate, client_send_key, client_send_key_proof, client_login
<1>2. CASE UNCHANGED <<connected, m_clients>>
  BY <1>2, UntouchedSteps
<1>3. CASE \E status \in State :
             UpdateClient(s, Moved(status)) /\ Rung(status) /\ OnlyAnswers(s)
  <2>1. PICK status \in State :
          UpdateClient(s, Moved(status)) /\ Rung(status) /\ OnlyAnswers(s)
    BY <1>3
  <2>2. m_clients'[s] = Moved(status)
    BY <1>1, <2>1, UpdateOnlyOne
  <2>3. Climbs(s)
    BY <2>1, <2>2 DEF Climbs
  <2>4. QED
    BY <1>1, <2>1, <2>3, UpdateSteps
<1>4. \/ UNCHANGED <<connected, m_clients>>
      \/ \E status \in State :
           UpdateClient(s, Moved(status)) /\ Rung(status) /\ OnlyAnswers(s)
  <2>1. CASE \E arg \in {"wrong_arity", "invalid", "valid"} : client_send_key(s, arg)
    BY <2>1, ReplyAnswers DEF client_send_key, Refuse, State, MaySendKey
  <2>2. CASE \E arg \in {"wrong_arity", "not_a_number", "wrong", "right"} :
               client_send_key_proof(s, arg)
    BY <2>2, ReplyAnswers DEF client_send_key_proof, Refuse, State, MayProveKey, Abort
  <2>3. CASE client_login(s)
    BY <2>3, ReplyAnswers DEF client_login, Refuse, State
  <2>4. QED
    BY <2>1, <2>2, <2>3 DEF Authenticate
<1>5. QED
  BY <1>2, <1>3, <1>4

LEMMA TakePartSteps ==
  ASSUME Inv, NEW s \in Sockets, TakePart(s)
  PROVE  RecordSteps
<1> DEFINE c == m_clients[s]
<1>1. s \in connected /\ c \in Client
  BY RecordType DEF TakePart, client_get_candidates, client_vote, client_send_zkp,
                    client_send_zkp_short, OnRequest, Inv, TypeOK, ClientsMatchConnections
<1>2. CASE client_get_candidates(s)
  BY <1>2, UntouchedSteps DEF client_get_candidates, Refuse
<1>3. ASSUME NEW args \in Ballots, client_vote(s, args) PROVE RecordSteps
  <2> DEFINE cast == [c EXCEPT !.voted = TRUE, !.vote = Written(@, args)]
             E4 == IF Len(args) # Len(candidates)
                     THEN << <<"RETURN", "VOTE", "E4">> >> ELSE <<>>
  <2>1. CASE Refuse(s, "RETURN", "VOTE", "E1")
    BY <2>1, UntouchedSteps DEF Refuse
  <2>2. CASE UpdateClient(s, cast) /\ Reply(s, Append(E4, <<"RETURN", "VOTE", "O1">>))
    <3>1. Append(E4, <<"RETURN", "VOTE", "O1">>) # <<>>
      <4>1. E4 \in Seq(Message)
        BY AnswersType DEF Heads, Commands, Codes
      <4>2. <<"RETURN", "VOTE", "O1">> \in Message
        BY DEF Heads, Commands, Codes, Message
      <4>3. QED
        BY <4>1, <4>2
    <3>2. OnlyAnswers(s)
      BY <2>2, <3>1, ReplyAnswers
    <3>3. m_clients'[s] = cast
      BY <1>1, <2>2, UpdateOnlyOne
    <3>4. Files(s)
      BY <1>1, <3>3 DEF Files, Client
    <3>5. QED
      BY <1>1, <2>2, <3>2, <3>4, UpdateSteps
  <2>3. QED
    BY <1>3, <2>1, <2>2 DEF client_vote
<1>4. ASSUME NEW index \in 1..(Len(candidates) + 1), NEW bad \in Malformed,
             client_send_zkp(s, index, bad)
      PROVE  RecordSteps
  <2> DEFINE With(proofs) == [c EXCEPT !.proofs = proofs]
             stored == [Resized(c.proofs, Len(candidates))
                          EXCEPT ![index] = Stored(@, bad)]
             code == IF bad = "none" THEN "O4" ELSE "E5"
  <2>1. CASE \E e \in Codes : Refuse(s, "RETURN", "SEND_ZKP", e)
    BY <2>1, UntouchedSteps DEF Refuse
  <2>2. CASE UpdateClient(s, With(stored)) /\ Reply(s, << <<"RETURN", "SEND_ZKP", code>> >>)
    <3>1. OnlyAnswers(s)
      BY <2>2, ReplyAnswers
    <3>2. m_clients'[s] = With(stored)
      BY <1>1, <2>2, UpdateOnlyOne
    <3>3. Files(s)
      BY <1>1, <3>2 DEF Files, Client
    <3>4. QED
      BY <1>1, <2>2, <3>1, <3>3, UpdateSteps
  <2>3. QED
    BY <1>4, <2>1, <2>2 DEF client_send_zkp, Codes
<1>5. CASE client_send_zkp_short(s)
  BY <1>5, UntouchedSteps DEF client_send_zkp_short, Abort
<1>6. QED
  BY <1>2, <1>3, <1>4, <1>5 DEF TakePart

LEMMA AdministerSteps ==
  ASSUME Inv, NEW s \in Sockets, Administer(s)
  PROVE  RecordSteps
<1>1. CASE \/ client_stop(s) \/ \E slate \in Slates : vote_begin(s, slate)
           \/ \E arg \in {"wrong_arity", "invalid", "not_a_number", "valid"} :
                client_send_pallier_key(s, arg)
  BY <1>1, UntouchedSteps
  DEF client_stop, vote_begin, client_send_pallier_key, Refuse
<1>2. CASE vote_end(s)
  <2>1. CASE \E code \in {"E6", "E13"} : Refuse(s, "ERROR", "VOTE", code)
    BY <2>1, UntouchedSteps DEF Refuse
  <2>2. CASE /\ connected' = connected
             /\ m_clients' = [x \in DOMAIN m_clients |->
                   [m_clients[x] EXCEPT !.aproved = Approves(m_clients[s])]]
    <3>1. \A x \in connected : MarkedOnly(x)
      BY <2>2 DEF MarkedOnly, Inv, ClientsMatchConnections
    <3>2. QED
      BY <2>2, <3>1 DEF RecordSteps
  <2>3. QED
    BY <1>2, <2>1, <2>2 DEF vote_end, Abort
<1>3. QED
  BY <1>1, <1>2 DEF Administer

LEMMA StepKinds ==
  ASSUME Inv, [Next]_vars
  PROVE  RecordSteps \/ \E s \in Sockets : OnConnect(s) \/ OnDisconnect(s)
<1>1. CASE UNCHANGED vars
  BY <1>1, UntouchedSteps DEF vars
<1>2. QED
  BY <1>1, AuthenticateSteps, TakePartSteps, AdministerSteps DEF Next

-----------------------------------------------------------------------------
\* A connection starts with a new record whoever held its descriptor before.
THEOREM FreshRecords == Spec => FreshOnConnect
<1>1. Inv /\ [Next]_vars =>
        [\A s \in connected' \ connected :
           m_clients'[s] = [NewClient EXCEPT !.is_admin = TRUE]]_vars
  <2> SUFFICES ASSUME Inv, [Next]_vars, NEW s \in connected' \ connected
               PROVE  m_clients'[s] = [NewClient EXCEPT !.is_admin = TRUE]
    OBVIOUS
  <2>1. OnConnect(s)
    BY StepKinds DEF RecordSteps, OnConnect, OnDisconnect
  <2>2. s \notin DOMAIN m_clients
    BY DEF Inv, ClientsMatchConnections
  <2>3. QED
    BY <2>1, <2>2 DEF OnConnect
<1>2. QED
  BY <1>1, Invariance, PTL DEF Spec, FreshOnConnect

\* Connecting and disconnecting leave the records of the others alone.
LEMMA OthersUntouched ==
  ASSUME Inv, NEW s \in Sockets, OnConnect(s) \/ OnDisconnect(s)
  PROVE  \A x \in connected \cap connected' : Untouched(x)
<1>1. DOMAIN m_clients = connected
  BY DEF Inv, ClientsMatchConnections
<1>2. CASE OnConnect(s)
  BY <1>1, <1>2 DEF OnConnect, Untouched
<1>3. CASE OnDisconnect(s)
  BY <1>1, <1>3 DEF OnDisconnect, Erase, Untouched
<1>4. QED
  BY <1>2, <1>3

\* While a connection lasts its status only climbs, but for a failed key proof.
THEOREM StatusClimbs == Spec => StatusLadder
<1> DEFINE Ladder(s) ==
      LET old == m_clients[s].status
          new == m_clients'[s].status
      IN  \/ new = old
          \/ new = "FULL_AUTH"
          \/ <<old, new>> \in {<<"NO_AUTH", "PUB_KEY_KNOWN">>,
                               <<"PUB_KEY_KNOWN", "PUB_KEY_CONFIRMED">>,
                               <<"PUB_KEY_KNOWN", "NO_AUTH">>}
<1>1. Inv /\ [Next]_vars => [\A s \in connected \cap connected' : Ladder(s)]_vars
  <2> SUFFICES ASSUME Inv, [Next]_vars, NEW s \in connected \cap connected'
               PROVE  Ladder(s)
    OBVIOUS
  <2>1. m_clients[s] \in Client
    BY DEF Inv, TypeOK, ClientsMatchConnections
  <2>2. Untouched(s) \/ MarkedOnly(s) \/ Climbs(s) \/ Files(s)
    BY StepKinds, OthersUntouched DEF RecordSteps
  <2>3. CASE Untouched(s) \/ MarkedOnly(s) \/ Files(s)
    BY <2>1, <2>3 DEF Untouched, MarkedOnly, Files, Client
  <2>4. CASE Climbs(s)
    BY <2>1, <2>4 DEF Climbs, Client
  <2>5. QED
    BY <2>2, <2>3, <2>4
<1>2. QED
  BY <1>1, Invariance, PTL DEF Spec, StatusLadder

\* A record changes, but for its approval, only in a step that answers its
\* client and sends nothing to anybody else.
THEOREM AnsweredChanges == Spec => ChangesAreAnswered
<1> DEFINE Answered(s) ==
      [m_clients'[s] EXCEPT !.aproved = m_clients[s].aproved] # m_clients[s] =>
        /\ sent'[s] # <<>>
        /\ \A x \in Sockets \ {s} : sent'[x] = <<>>
<1>1. Inv /\ [Next]_vars => [\A s \in connected \cap connected' : Answered(s)]_vars
  <2> SUFFICES ASSUME Inv, [Next]_vars, NEW s \in connected \cap connected'
               PROVE  Answered(s)
    OBVIOUS
  <2>1. m_clients[s] \in Client
    BY DEF Inv, TypeOK, ClientsMatchConnections
  <2>2. Untouched(s) \/ MarkedOnly(s) \/ OnlyAnswers(s)
    BY StepKinds, OthersUntouched DEF RecordSteps
  <2>3. CASE Untouched(s)
    BY <2>1, <2>3 DEF Untouched, Client
  <2>4. CASE MarkedOnly(s)
    BY <2>1, <2>4 DEF MarkedOnly, Client
  <2>5. CASE OnlyAnswers(s)
    BY <2>5 DEF OnlyAnswers
  <2>6. QED
    BY <2>2, <2>3, <2>4, <2>5
<1>2. QED
  BY <1>1, Invariance, PTL DEF Spec, ChangesAreAnswered
=============================================================================
