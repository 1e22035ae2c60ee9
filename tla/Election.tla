------------------------------ MODULE Election ------------------------------
(***************************************************************************)
(* The command layer of the voting server: the hooks of BasicListener      *)
(* (src/Server/src/main.cpp) and the client commands it dispatches         *)
(* (src/Server/includes/client_commands.hpp), over the records of          *)
(* client.hpp and vote.hpp.  The event loop runs one hook at a time, so a  *)
(* command is one atomic step.                                             *)
(*                                                                         *)
(* A ciphertext is an opaque token and a ballot a sequence of them: what   *)
(* the results broadcast adds up is kept as the ballots that enter the     *)
(* sums (result.counted), not as their product modulo n^2.                 *)
(***************************************************************************)
EXTENDS Naturals, Sequences

CONSTANTS
  Sockets,     \* descriptors the event loop hands to the hooks
  Candidates,  \* names VOTE_BEGIN may list
  Slates,      \* the candidate lists administrators announce
  Ciphers,     \* ciphertexts, and what else a place of a ballot may hold
  Zero,        \* the number in a place nothing was ever written to
  NotANumber,  \* an argument set_str does not parse
  Ballots,     \* the argument lists of VOTE commands
  Malformed,   \* fields of a SEND_ZKP that may fail to parse ("none": parses)
  MaxRounds    \* bound: elections begun in a behaviour

ASSUME ElectionAssumption ==
  /\ Slates \subseteq Seq(Candidates)
  /\ Zero \in Ciphers
  /\ Ballots \subseteq Seq(Ciphers \cup {NotANumber})
  /\ Malformed \subseteq {"none", "a", "z", "e_i", "e"}
  /\ MaxRounds \in Nat

VARIABLES
  connected,   \* sockets between their OnConnect and OnDisconnect
  m_clients,   \* BasicListener::m_clients: socket -> Client
  started,     \* Vote::started
  candidates,  \* Vote::candidates
  pallier,     \* has Vote::pallier been set (n_squared # 0)?
  server,      \* "running", "stopping" (Stop called), "aborted" (process died)
  sent,        \* messages the last step passed to Server::Send, by socket
  result,      \* the last SEND_VOTE_RESULT broadcast
  round        \* history: elections begun so far

vars == <<connected, m_clients, started, candidates, pallier, server, sent,
          result, round>>

State == {"NO_AUTH", "PUB_KEY_KNOWN", "PUB_KEY_CONFIRMED", "FULL_AUTH"}

\* A proof is described by the part of the message each field was filled from.
Field == {"unset", "a", "z", "e_i", "v", "e"}
ZKProof == [a : Field, z : Field, e_values : Field, valid : Field, e : Field]
NoProof == [a |-> "unset", z |-> "unset", e_values |-> "unset",
            valid |-> "unset", e |-> "unset"]

Client == [status : State, is_admin : BOOLEAN, vote : Seq(Ciphers),
           voted : BOOLEAN, proofs : Seq(ZKProof), aproved : BOOLEAN]
NewClientUninit ==
  [status |-> "indeterminate", is_admin |-> FALSE, vote |-> <<>>,
   voted |-> FALSE, proofs |-> <<>>, aproved |-> FALSE]
NewClient == [status |-> "NO_AUTH", is_admin |-> FALSE, vote |-> <<>>,
              voted |-> FALSE, proofs |-> <<>>, aproved |-> FALSE]

\* Head word, command and code of what the server sends; the rest is left out.
Heads == {"SEND_KEY", "SEND_KEY_PROOF", "RETURN", "ERROR", "SEND_VOTE_RESULT"}
Commands == {"", "SEND_KEY", "SEND_KEY_PROOF", "LOGIN", "VOTE", "GET_CANDIDATES",
            "SEND_KEY_PALLIER", "SEND_ZKP"}
Codes == {"", "CHAR", "O0", "O1", "O2", "O4", "E1", "E4", "E5", "E6", "E7", "E8",
         "E9", "E10", "E12", "E13"}
Message == Heads \X Commands \X Codes

NoResult == [round |-> 0, slate |-> <<>>, counted |-> <<>>]

TypeOK ==
  /\ connected \subseteq Sockets
  /\ DOMAIN m_clients \subseteq Sockets
  /\ m_clients \in [DOMAIN m_clients -> Client]
  /\ started \in BOOLEAN
  /\ candidates \in Seq(Candidates)
  /\ pallier \in BOOLEAN
  /\ server \in {"running", "stopping", "aborted"}
  /\ sent \in [Sockets -> Seq(Message)]
  /\ result.round \in 0..MaxRounds
  /\ result.slate \in Seq(Candidates)
  /\ DOMAIN result.counted \subseteq Sockets
  /\ result.counted \in [DOMAIN result.counted -> Seq(Ciphers)]
  /\ round \in 0..MaxRounds

-----------------------------------------------------------------------------
\* What a step sends.

Silent == sent' = [x \in Sockets |-> <<>>]
Reply(s, msgs) == sent' = [x \in Sockets |-> IF x = s THEN msgs ELSE <<>>]
BroadcastToVoters(msg) ==
  sent' = [x \in Sockets |-> IF x \in connected /\ m_clients[x].voted THEN <<msg>>
                             ELSE <<>>]
Broadcast(msg) ==
  sent' = [x \in Sockets |-> IF x \in connected THEN <<msg>> ELSE <<>>]

Alive == server # "aborted"
OnRequest(s) == Alive /\ s \in connected

\* A command that answers and returns early.
Refuse(s, head, cmd, code) ==
  /\ Reply(s, << <<head, cmd, code>> >>)
  /\ UNCHANGED <<connected, m_clients, started, candidates, pallier, server,
                 result, round>>

\* An exception no handler catches, or a signal: the process is gone.
Abort ==
  /\ server' = "aborted"
  /\ Silent
  /\ UNCHANGED <<connected, candidates, pallier, result, round>>

UpdateOthersToo(s, c) ==
  /\ m_clients' = [x \in DOMAIN m_clients |-> c]
  /\ UNCHANGED <<connected, started, candidates, pallier, server, result, round>>
UpdateClient(s, c) ==
  /\ m_clients' = [m_clients EXCEPT ![s] = c]
  /\ UNCHANGED <<connected, started, candidates, pallier, server, result, round>>

-----------------------------------------------------------------------------
\* Connection hooks of BasicListener.

\* emplace keeps an existing record; every client is made administrator.
OnConnect(s) ==
  /\ Alive /\ s \notin connected
  /\ connected' = connected \cup {s}
  /\ LET record == IF s \in DOMAIN m_clients THEN m_clients[s] ELSE NewClient
     IN  m_clients' = [x \in DOMAIN m_clients \cup {s} |->
                         IF x = s THEN [record EXCEPT !.is_admin = TRUE]
                                  ELSE m_clients[x]]
  /\ Reply(s, << <<"SEND_KEY", "", "">> >>)
  /\ UNCHANGED <<started, candidates, pallier, server, result, round>>

EraseNothing(s) == m_clients
Erase(s) == [x \in DOMAIN m_clients \ {s} |-> m_clients[x]]

OnDisconnect(s) ==
  /\ Alive /\ s \in connected
  /\ connected' = connected \ {s}
  /\ m_clients' = Erase(s)
  /\ Silent
  /\ UNCHANGED <<started, candidates, pallier, server, result, round>>

-----------------------------------------------------------------------------
\* Authentication commands.

IsAuth(c) == c.status = "FULL_AUTH"
IsAdmin(c) == c.is_admin /\ IsAuth(c)

MaySendKeyAgain(c) == TRUE
MaySendKey(c) == c.status = "NO_AUTH"

client_send_key(s, arg) ==
  LET c == m_clients[s] IN
  /\ OnRequest(s)
  /\ \/ /\ ~MaySendKey(c)
        /\ Refuse(s, "RETURN", "SEND_KEY", "E12")
     \/ /\ MaySendKey(c) /\ arg = "wrong_arity"
        /\ Refuse(s, "RETURN", "SEND_KEY", "E4")
     \/ /\ MaySendKey(c) /\ arg = "invalid"
        /\ Refuse(s, "RETURN", "SEND_KEY", "E7")
     \/ /\ MaySendKey(c) /\ arg = "valid"
        /\ UpdateClient(s, [c EXCEPT !.status = "PUB_KEY_KNOWN"])
        /\ Reply(s, << <<"SEND_KEY_PROOF", "", "">> >>)

MayProveKeyAlways(c) == TRUE
MayProveKey(c) == c.status = "PUB_KEY_KNOWN"

\* std::stoi throws on an argument that is no number and nothing catches it.
client_send_key_proof(s, arg) ==
  LET c == m_clients[s] IN
  /\ OnRequest(s)
  /\ \/ /\ ~MayProveKey(c)
        /\ Refuse(s, "RETURN", "SEND_KEY_PROOF", "E12")
     \/ /\ MayProveKey(c) /\ arg = "wrong_arity"
        /\ Refuse(s, "RETURN", "SEND_KEY_PROOF", "E4")
     \/ /\ MayProveKey(c) /\ arg = "not_a_number"
        /\ Abort
        /\ UNCHANGED <<m_clients, started>>
     \/ /\ MayProveKey(c) /\ arg = "wrong"
        /\ UpdateClient(s, [c EXCEPT !.status = "NO_AUTH"])
        /\ Reply(s, << <<"RETURN", "SEND_KEY_PROOF", "E8">> >>)
     \/ /\ MayProveKey(c) /\ arg = "right"
        /\ UpdateClient(s, [c EXCEPT !.status = "PUB_KEY_CONFIRMED"])
        /\ Reply(s, << <<"RETURN", "SEND_KEY_PROOF", "O2">> >>)

\* User name and password are not checked (the code marks it TODO).
client_login(s) ==
  LET c == m_clients[s] IN
  /\ OnRequest(s)
  /\ \/ /\ IsAuth(c)
        /\ Refuse(s, "RETURN", "LOGIN", "E9")
     \/ /\ ~IsAuth(c)
        /\ UpdateClient(s, [c EXCEPT !.status = "FULL_AUTH"])
        /\ Reply(s, << <<"RETURN", "LOGIN", "O0">> >>)

\* Silent for a client that is no administrator.
client_stop(s) ==
  /\ OnRequest(s)
  /\ server' = IF IsAdmin(m_clients[s]) THEN "stopping" ELSE server
  /\ Silent
  /\ UNCHANGED <<connected, m_clients, started, candidates, pallier, result,
                 round>>

-----------------------------------------------------------------------------
\* Election commands.

MayBeginAlways == TRUE
MayBegin == ~started

vote_begin(s, slate) ==
  /\ OnRequest(s)
  /\ \/ /\ ~IsAdmin(m_clients[s])
        /\ Refuse(s, "ERROR", "VOTE", "E6")
     \/ /\ IsAdmin(m_clients[s]) /\ ~MayBegin
        /\ Refuse(s, "ERROR", "VOTE", "E10")
     \/ /\ IsAdmin(m_clients[s]) /\ MayBegin
        /\ round < MaxRounds
        /\ round' = round + 1
        /\ started' = TRUE
        /\ candidates' = slate
        /\ Silent
        /\ UNCHANGED <<connected, m_clients, pallier, server, result>>

client_get_candidates(s) ==
  /\ OnRequest(s)
  /\ IF started THEN Refuse(s, "RETURN", "GET_CANDIDATES", "CHAR")
                ELSE Refuse(s, "ERROR", "GET_CANDIDATES", "E13")

\* Of an n of the right length that is no number n_squared becomes 0, in place of
\* the key there was.
client_send_pallier_key(s, arg) ==
  /\ OnRequest(s)
  /\ \/ /\ ~IsAdmin(m_clients[s])
        /\ Refuse(s, "RETURN", "SEND_KEY_PALLIER", "E6")
     \/ /\ IsAdmin(m_clients[s]) /\ arg = "wrong_arity"
        /\ Refuse(s, "RETURN", "SEND_KEY_PALLIER", "E4")
     \/ /\ IsAdmin(m_clients[s]) /\ arg = "invalid"
        /\ Refuse(s, "RETURN", "SEND_KEY_PALLIER", "E7")
     \/ /\ IsAdmin(m_clients[s]) /\ arg \in {"valid", "not_a_number"}
        /\ pallier' = (arg = "valid")
        /\ Silent
        /\ UNCHANGED <<connected, m_clients, started, candidates, server,
                       result, round>>

\* vote.resize, then set_str: an argument that is no number leaves in its place
\* what the ballot before had there.
Written(old, args) ==
  [i \in DOMAIN args |-> IF args[i] # NotANumber THEN args[i]
                         ELSE IF i \in DOMAIN old THEN old[i] ELSE Zero]

\* A wrong number of ciphertexts is answered E4, then recorded all the same.
client_vote(s, args) ==
  LET c == m_clients[s]
      E4 == IF Len(args) # Len(candidates) THEN << <<"RETURN", "VOTE", "E4">> >>
                                           ELSE <<>>
  IN
  /\ OnRequest(s)
  /\ \/ /\ ~IsAuth(c)
        /\ Refuse(s, "RETURN", "VOTE", "E1")
     \/ /\ IsAuth(c)
        /\ UpdateClient(s, [c EXCEPT !.voted = TRUE, !.vote = Written(@, args)])
        /\ Reply(s, Append(E4, <<"RETURN", "VOTE", "O1">>))

Resized(proofs, n) ==
  [i \in 1..n |-> IF i <= Len(proofs) THEN proofs[i] ELSE NoProof]

\* The fields before the malformed one are assigned.  The loop assigns z_values
\* twice, the second time from the e_i, and never e_values nor valid_values;
\* the total challenge e is read where the message has its first valid value.
Stored(p, bad) ==
  [a |-> IF bad = "a" THEN p.a ELSE "a",
   z |-> CASE bad \in {"a", "z"} -> p.z [] bad = "e_i" -> "z" [] OTHER -> "e_i",
   e_values |-> p.e_values,
   valid |-> p.valid,
   e |-> IF bad = "none" THEN "v" ELSE p.e]

client_send_zkp(s, index, bad) ==
  LET c == m_clients[s]
      resized == Resized(c.proofs, Len(candidates))
  IN
  /\ OnRequest(s)
  /\ \/ /\ ~IsAdmin(c)
        /\ Refuse(s, "RETURN", "SEND_ZKP", "E6")
     \/ /\ IsAdmin(c) /\ index > Len(candidates)
        /\ Refuse(s, "RETURN", "SEND_ZKP", "E5")
     \/ /\ IsAdmin(c) /\ index <= Len(candidates)
        /\ UpdateClient(s, [c EXCEPT !.proofs =
                              [resized EXCEPT ![index] = Stored(@, bad)]])
        /\ Reply(s, << <<"RETURN", "SEND_ZKP",
                         IF bad = "none" THEN "O4" ELSE "E5">> >>)

\* Fewer values than the message announces are read past the end of args, a
\* number out of range throws what is not caught.  If the process survives, the
\* step is a client_send_zkp.
client_send_zkp_short(s) ==
  /\ OnRequest(s) /\ IsAdmin(m_clients[s])
  /\ Abort
  /\ UNCHANGED <<m_clients, started>>

-----------------------------------------------------------------------------
\* VOTE_END.

\* paillier::zkp_verify on a stored proof: the challenge must be the hash of
\* the commitments and the sum of the e_values, and the equations must hold,
\* which the fields of an honest proof satisfy only where they belong.
zkp_verify(p) ==
  p = [a |-> "a", z |-> "z", e_values |-> "e_i", valid |-> "v", e |-> "e"]

\* The loop over the clients tests the ballot and proofs of the client that
\* sent VOTE_END, whichever client it is about to approve.
Approves(ender) ==
  \A i \in 1..Len(ender.vote) : i <= Len(ender.proofs) /\ zkp_verify(ender.proofs[i])
ReadsPastProofs(ender) ==
  /\ Len(ender.vote) > Len(ender.proofs)
  /\ \A i \in 1..Len(ender.proofs) : zkp_verify(ender.proofs[i])

CountsEveryone(approved) == IF approved THEN DOMAIN m_clients ELSE {}
Counts(approved) == {x \in DOMAIN m_clients : m_clients[x].voted /\ approved}

\* Reduction modulo an n_squared that was never set.
DividesByZero(counted) == ~pallier /\ counted # {} /\ candidates # <<>>
ReadsPastBallot(counted) ==
  \E x \in counted : Len(m_clients[x].vote) < Len(candidates)

MayEndAlways == TRUE
MayEnd == started

vote_end(s) ==
  LET ender    == m_clients[s]
      approved == Approves(ender)
      counted  == Counts(approved)
  IN
  /\ OnRequest(s)
  /\ \/ /\ ~IsAdmin(ender)
        /\ Refuse(s, "ERROR", "VOTE", "E6")
     \/ /\ IsAdmin(ender) /\ ~MayEnd
        /\ Refuse(s, "ERROR", "VOTE", "E13")
     \/ /\ IsAdmin(ender) /\ MayEnd
        /\ started' = FALSE
        /\ m_clients' = [x \in DOMAIN m_clients |->
                           [m_clients[x] EXCEPT !.aproved = approved]]
        /\ \/ /\ ~DividesByZero(counted)
              /\ result' = [round |-> round, slate |-> candidates, counted |->
                              [x \in counted |-> m_clients[x].vote]]
              /\ Broadcast(<<"SEND_VOTE_RESULT", "", "">>)
              /\ UNCHANGED <<connected, candidates, pallier, server, round>>
           \* Out-of-range vector reads may as well kill the process.
           \/ /\ \/ DividesByZero(counted)
                 \/ ReadsPastProofs(ender)
                 \/ ReadsPastBallot(counted)
              /\ Abort

-----------------------------------------------------------------------------
Init ==
  /\ connected = {}
  /\ m_clients = <<>>
  /\ started = FALSE
  /\ candidates = <<>>
  /\ pallier = FALSE
  /\ server = "running"
  /\ sent = [x \in Sockets |-> <<>>]
  /\ result = NoResult
  /\ round = 0

Authenticate(s) ==
  \/ \E arg \in {"wrong_arity", "invalid", "valid"} : client_send_key(s, arg)
  \/ \E arg \in {"wrong_arity", "not_a_number", "wrong", "right"} :
       client_send_key_proof(s, arg)
  \/ client_login(s)

Administer(s) ==
  \/ client_stop(s)
  \/ \E slate \in Slates : vote_begin(s, slate)
  \/ \E arg \in {"wrong_arity", "invalid", "not_a_number", "valid"} :
       client_send_pallier_key(s, arg)
  \/ vote_end(s)

TakePart(s) ==
  \/ client_get_candidates(s)
  \/ \E args \in Ballots : client_vote(s, args)
  \/ \E index \in 1..(Len(candidates) + 1), bad \in Malformed :
       client_send_zkp(s, index, bad)
  \/ client_send_zkp_short(s)

Next ==
  \E s \in Sockets :
    OnConnect(s) \/ OnDisconnect(s) \/ Authenticate(s) \/ Administer(s) \/ TakePart(s)

Spec == Init /\ [][Next]_vars

-----------------------------------------------------------------------------
\* Invariants and action properties.

\* The table the commands look their client up in holds exactly the sockets
\* between OnConnect and OnDisconnect, so m_clients.at never throws.
ClientsMatchConnections == DOMAIN m_clients = connected

\* Nothing is ever recorded for a client that is not logged in: a ballot or a
\* proof on file means FULL_AUTH, however the key exchange is replayed later.
OnlyAuthenticatedTakePart ==
  \A s \in connected :
    LET c == m_clients[s]
    IN  c.voted \/ c.vote # <<>> \/ c.proofs # <<>> => IsAuth(c)

\* A connection starts from nothing: whoever held the descriptor before leaves
\* no status, ballot or proof to its next owner.
FreshOnConnect ==
  [][\A s \in connected' \ connected :
       m_clients'[s] = [NewClient EXCEPT !.is_admin = TRUE]]_vars

\* While a connection lasts its status climbs, except that a wrong key proof
\* sends it from PUB_KEY_KNOWN back to NO_AUTH; FULL_AUTH is never left.
StatusLadder ==
  [][\A s \in connected \cap connected' :
       LET old == m_clients[s].status
           new == m_clients'[s].status
       IN  \/ new = old
           \/ new = "FULL_AUTH"
           \/ <<old, new>> \in {<<"NO_AUTH", "PUB_KEY_KNOWN">>,
                                <<"PUB_KEY_KNOWN", "PUB_KEY_CONFIRMED">>,
                                <<"PUB_KEY_KNOWN", "NO_AUTH">>}]_vars

\* The candidates cannot change under an election in progress: ciphertext i is
\* added to the sum of the i-th name announced by VOTE_BEGIN.
SlateFrozen == [][started /\ started' => candidates' = candidates]_vars

\* An election is published at most once: VOTE_END after VOTE_END adds nothing
\* up again, though ballots on file may have changed in between.
OneResultPerElection ==
  [][result' # result => started /\ result'.round > result.round]_vars

\* What a client has on file changes only in steps that answer that client and
\* nobody else, refusals that store half a proof included; no command of one
\* client touches another's status, ballot or proofs.
ChangesAreAnswered ==
  [][\A s \in connected \cap connected' :
       [m_clients'[s] EXCEPT !.aproved = m_clients[s].aproved] # m_clients[s] =>
         /\ sent'[s] # <<>>
         /\ \A x \in Sockets \ {s} : sent'[x] = <<>>]_vars

\* Ballots go from the clients' records to the published result as from a box
\* to its count, though the records come and go with connections and are used
\* by every other command too.
Box == [x \in {y \in DOMAIN m_clients : m_clients[y].voted} |-> m_clients[x].vote]
BB == INSTANCE BallotBox WITH
        Voters <- Sockets, Sheets <- Ballots, Blank <- Zero, Illegible <- NotANumber,
        box <- Box, open <- started, count <- result.counted

\* The command layer implements BallotBox: what VOTE_END broadcasts is the sum
\* of all the ballots on file at that moment or of none of them, a place of a
\* ballot holds what its own client wrote there last, only VOTE and disconnection
\* touch the ballots on file, and one election runs at a time.  That VOTE does
\* so after VOTE_END too is BB!CastLate, which BallotsFrozenWhenClosed rules out.
ImplementsBallotBox == BB!Spec

-----------------------------------------------------------------------------
\* What the README promises and the code does not do (see the violation runs).

\* README.md:50: once the vote is closed a client can no longer change its ballot
\* and waits; after VOTE_END a ballot on file stays as it is until the next poll.
BallotsFrozenWhenClosed ==
  [][~started /\ ~started' /\ round > 0 =>
       \A s \in connected \cap connected' :
         m_clients[s].voted => m_clients'[s].vote = m_clients[s].vote]_vars

\* README.md:45: a vote is validated if all the verifications are correct; each
\* ciphertext of a counted ballot comes with a proof of its own that verifies.
CountedBallotsAreProved ==
  [][result' # result =>
       \A s \in DOMAIN result'.counted :
         LET c == m_clients[s]
         IN  Len(c.proofs) = Len(c.vote) /\ \A i \in DOMAIN c.proofs : zkp_verify(c.proofs[i])]_vars
=============================================================================
