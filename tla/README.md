# Formal models of the voting system

TLA+ models of the C++ voting server, its Python clients and the arithmetic they
share, the TLC configurations that check them, and TLAPS proofs.
Paths and line numbers are relative to `src/`; `CC` stands for
`Server/includes/client_commands.hpp`.

## 1. The system

| Part | Source | State it keeps | Operations | Modelled in |
| --- | --- | --- | --- | --- |
| Command layer | `Server/src/main.cpp`, `CC`, `client.hpp`, `vote.hpp` | `m_clients`: socket to record (status, ballot, proofs, approval); `m_vote`: started, candidates, Paillier key | hooks `OnConnect`, `OnRequest`, `OnDisconnect`; ten client commands | `Election` (abstract: `BallotBox`) |
| Event loop | `Server/core/server/src/server.cpp` | `m_run`, `m_connection_queue`, `m_disconnection`, `m_observers`, `m_observers_index`, `m_overflows` | two threads: `Start` (console, queue, poll, scan), `Listen` (accept, push); `AddClient`, `RemoveClient`, `Stop`, `Disconnect` | `Connections` (abstract: `HookContract`) |
| Framing | same file, `HeaderHandler`, `BodyHandler` | `body_size`, `body_buffer` (locals of `Start`), one `OverFlowRead` per client, the heap | header read, body read, overflow read, hand-over to `OnRequest` | `Framing` |
| Console | `server_commands.hpp` | none of its own | STOP, DISCONNECT; SEND and LIST change nothing | `Connections!Console` |
| Arithmetic | `Client/paillier.py`, `Server/includes/paillier.hpp` | the client's key pair | prime search, key pair, encrypt, add, decrypt, prove, verify | `Arithmetic`, `Paillier` |
| Voting client | `Client/client.py`, `interface.py` | `candidats`, `search`, the queue `responses`, the window shown and its buttons | two threads: `listen` (socket to queue); the window, whose timer calls `read` and whose buttons call `login` and `vote` | `Client`, `VotingSystem` (abstract: `Poll`) |
| Scripts | `Client/setup_vote.py`, `end_vote.py` | none | log in, open a poll and hand over the key; log in, close the poll | `Client` |
| Dispatch, tokenizer | `command_handler.hpp`, `utils.hpp` | command table | `Handle`; `split`, `StrArgs` | `VotingSystem!Handle`; the text is not modelled |
| RSA, log formatting, socket set-up, GMP headers | | | | not modelled (section 7) |

How they interact. The event loop calls the hooks of `IServerHooks` from its
main thread only, one at a time; a hook calls back `Send`, `Broadcast`, `Stop`
or `Disconnect`. The listener thread shares with it the connection queue (under
a mutex), `m_run` (without) and, through the kernel, the descriptor numbers:
`accept` gives out the lowest free one, and one becomes free at the `close` that
precedes the removal of a client. Client and server exchange messages of a
4-byte length and a body over TCP.

What is hard in it:

- a descriptor is closed, then its client is removed; in between the listener
  may accept a connection on it;
- removal swaps the last client into the hole, in two vectors and an index,
  while the scan that caused it goes on;
- all clients share `body_buffer`, but a body in pieces stays half-read over
  many iterations of the loop;
- the commands can come in any order, before, during and after elections, from
  several clients that are all administrators;
- exceptions no handler catches and out-of-range vector reads end the process or
  do not;
- the server sends from its only thread, and `send` blocks while a client's
  buffer is full: whether everybody is served depends on each client's threads;
- answers, key messages and results reach a client in one queue, read by a timer,
  and `read` keeps one answer, that to the command it believes was sent last;
- a connection is in the queue between two threads before it is in the table, and
  `Start` must end although the listener sits in `accept`;
- sizes come from the wire as `int32_t`, and a header cut in two puts the stream out
  of step: what is read as the next header is any number;
- operators run scripts when they like, at the same time and with interruptions.

`PROJECT.json` lists each of these hazards with its line and the properties
aimed at it.

What makes each part correct, in a sentence: the command layer counts the ballots
on file, records nothing for a client that is not logged in and gives nothing of
one client to another; the event loop calls the hooks in the order connect,
request, disconnect with the right connection behind the descriptor, loses no
client and stops when told to; framing hands over each message once, whole and
in order; the arithmetic gives the counts back; the clients and the server
together are a poll: what was clicked is counted, under the name clicked, and
everybody the server knows of when the poll closes is sent the count.

## 2. Modules

| Module | What it is |
| --- | --- |
| `Election` | the command layer: one action per hook and command |
| `BallotBox` | abstract specification: a box of ballots, opened, closed, counted |
| `MCElection` | values of constants, view, symmetry |
| `ElectionProofs` | inductive invariant of `Election`, its action properties, and that it implements `BallotBox` |
| `Connections` | both threads, kernel descriptors, table of clients, hook calls |
| `HookContract` | abstract specification: sessions as the hooks see them |
| `MCConnections` | symmetry |
| `ConnectionsProofs` | inductive invariant of `Connections`, and that it implements `HookContract` |
| `Framing` | byte streams, `int32_t` sizes, buffers, overflow records |
| `MCFraming` | the sizes headers may announce |
| `FramingProofs` | types for any clients; memory and messages of one client, or of several whose messages come whole |
| `Arithmetic` | the integer functions: powers, powers modulo, gcd, inverse modulo |
| `Paillier` | keys, encryption, addition, proofs, computed on small primes |
| `NumberTheory` | lemmas on `Arithmetic`: congruences, inverses, Fermat, two primes |
| `PaillierProofs` | inductive invariant of `Paillier`; counts, proofs and the primality test, for numbers of any size |
| `Client` | the voting window and the scripts: threads, queue, `read`, windows, buttons |
| `Poll` | abstract specification: a poll as its voters see it |
| `VotingSystem` | `Client` and `Election` over channels, with a `send` that blocks; refines `Poll` |
| `MCVoting` | values of constants, symmetry |
| `VotingInvariant` | the inductive invariant of `VotingSystem` |
| `VotingServerProofs` | lemmas on queues; what each server action does to records and outbox |
| `VotingProofs` | every step keeps the invariant; invariance theorems |
| `PollProofs` | that `VotingSystem` implements `Poll` |

### Election

A hook runs to its end before the loop does anything else, so each is one
action. `m_clients`, `started`, `candidates` are the members of the same names;
`pallier` says whether `Vote::pallier` was set (`n_squared` is 0 until then);
`sent` holds what the last step passed to `Send`, reduced to head word, command
and code; `server` is `running`, `stopping` after `Stop`, `aborted` when the
process died. `connected`, `result` and `round` are history. A ciphertext is a
token: the sum VOTE_END broadcasts is kept as the ballots that enter it. A stored
proof says of each field which part of the message filled it, which is what
decides whether it can verify: `Stored` follows the assignments of CC:268-288
(the `z` vector written twice, `e_values` and `valid_values` never) and
`zkp_verify` holds of a proof whose fields come from where they belong. The
arithmetic behind that statement, that a proof with its fields in place does
verify, is checked in `Paillier`.

Undefined behaviour is a choice: where VOTE_END indexes past a ballot or the proofs
(CC:48, CC:59) and where SEND_ZKP reads past its arguments, the step may go through or
the process may die. Where it divides by an unset `n_squared` or an exception goes
uncaught (`std::stoi`, CC:180) the process dies. A command that is not registered is
answered by nothing (`command_handler.hpp:17`): a stuttering step. The result of
`set_str` is ignored at CC:97 and CC:231. A place of a ballot whose argument is no
number keeps what the ballot before had there, or 0, and the mixture is answered O1
(`Written`, `NotANumber`, `Zero`); an `n` of the right length that is no number leaves
`n_squared` at 0, in place of a key there was. After `Stop` the model still allows
hook calls without bound, where the loop only finishes its iteration: more behaviours,
never fewer.

### BallotBox

What the code keeps of ballots, not all that the README asks for. `Cast` is a ballot
while a poll is open, `CastLate` one while none is, which README.md:50 rules out and
`client_vote` allows; `election_frozen_ballots` is the run about that. Sheets have any
length (CC:90 answers E4 and goes on), a place that cannot be read keeps the mark of
the paper before, `TakeBack` takes a ballot away with the connection, and `Open` leaves
the papers of the poll before in the box.

### Connections

`main` and `listener` are program counters; the variables prefixed `m_` are the
members of `Server`. One action per step between points where the other thread
or a peer can be noticed: console, lock, one entry of the queue, poll, one read,
removal, shutdown, join. `Close` and `Drop` are separate because `accept` may run
in between. `Accept` and `Push` are separate because the descriptor is not yet in
the queue. A read takes a "piece" that may or may not complete the header or body
asked for, fails once after a reset, or finds the end.

### Framing

A byte is a client and a position in its stream, so a buffer is a client, a
start and a length, and `request` can be compared with the message it should be.
`Cuts` says inside which part of a message a delivery may end. Part of a header is
thrown away (`server.cpp:356`); `lost` is the set of clients this happened to.
`GarbageSizes` are the body sizes a header read from the wrong place may announce:
any `int32_t` up to the clamp at `MAX_BODY_SIZE`, negative ones and INT_MAX included.
`malloc` gets `body_size + 1`: a size below -1 is one no allocator serves; INT_MAX + 1
overflows, and the build may wrap it or widen it first, so both outcomes are there.
Smaller positive sizes are served. What happens when memory runs out is not modelled.

`heap` maps addresses to live buffers, with whose bytes they hold and the index of
their last byte, so that a buffer freed and handed out again smaller is noticed when it
is written by the old owner. `misused` collects what was done to memory that must not
be: `"dead"`, a buffer used or freed that is not live; `"past"`, a write behind the end
of a live one; `"size"`, the terminator (`server.cpp:184`) of a body for which nothing
was allocated, or at a negative index. After any of them the process may go on or die.
The buffer of a client in overflow mode that the console disconnects is never freed
(`server.cpp:142`); DISCONNECT is in `Connections`, where there is no heap.

### Paillier

The operators carry the names and the structure of the Python functions; the
server's `add` and `zkp_verify` are those of `paillier.hpp`. SHA-256 modulo 2^T
is some function of the commitments. The loops of `pgcd`, `modinv` and `powmod` are
recursive functions of the variables they change, and powers are a function too, so
that something can be proved of them. The bases of one primality test are any
non-empty set of at most `Rounds` numbers: the code draws with replacement.

### Client

A process is a voter's window or a script; `process` says whether it is there.
A message is its words. The variables `search`, `candidats` and `responses` are
those of `client.py`; `window` and `buttons` are what the user sees, `printed`
what `read` prints of results, `logins` and `chosen` what the user clicked.

- `listen` moves one message from the socket to the queue.
- `read` empties the queue. It is one step: a message that arrives while it runs
  is as good as there when it starts, and one that arrives just after it is read
  by the next call of the timer, before which the user can do nothing, as both
  run in the window's thread. Its loop is written as what it comes to: which
  answers are kept (`Kept`: those to the command `search` names when they are
  reached, and a key message on the way changes it), which one ends it early
  (`Late`), and what is returned, printed, sent and left. (With this server the early
  return is never taken: nothing replaces VOTE in `search` once a vote was cast.)
- `UpdateLogin` is the timer of the login window: `read`, then `func`, which does
  nothing until the first click and is `log` afterwards. `log` goes on waiting,
  opens the main window or gives up. `OpenMain` is the `read` that follows
  GET_CANDIDATES at once, `UpdateMain` the timer of the main window, whose
  `func` makes a button of each element of what `read` returned: of the names, or
  of the letters of an answer code (`Letter`: no candidate has such a name, so a
  click on it casts a ballot of zeros).
- `CloseWindow` ends the process and with it the connection.
- A script sends one command per step (`SendCommand`), between which other processes
  do anything: the half second it waits says nothing about when the server handles
  what it sent. `BreakScript` interrupts it between any two commands; what was sent
  stays sent. Odd scripts are `setup_vote.py`, even ones `end_vote.py`.

What a window or a script sends goes into `to_server` as it is sent: `sendall` of a
client is taken never to block, because the requests of one client are few and short.

### VotingSystem

`E` is `Election` with processes for sockets; each request is handled by the very
action of `Election` its name selects (`Handle`), and what that action puts in
`sent` is queued in `outbox` in the order of the calls of `Send`, a broadcast in any
order over the clients. While `outbox` is not empty the main thread is inside
`Send`: it handles nothing (`Free`), and `SendNext` waits until the receiver has
room. `Room` is what the buffers of the system and of the socket hold. To a process
that is gone, `send` fails and the loop goes on. A process connects at its start
and is in `backlog` until the server adds it; its requests are read to the end
before the end of its connection is noticed.

Scripts are run in any order and several at once (`Operate`; `MaxAtOnce` bounds how
many). Of a *patient* operator (`Patient`) one thing is asked: to run `end_vote.py`
only after a `setup_vote.py` that nobody interrupted is gone from the server. Nothing
in the scripts asks it. Without it VOTE_END between VOTE_BEGIN and SEND_KEY_PAILLIER
divides by zero (CC:59), and the server is gone; what is said below of `Election`,
`Connections` and `Framing` does not depend on it, what is said of `VotingSystem` does.

The channels lose and reorder nothing, being connections to `localhost`
(client.py:33). Text is not modelled: names are taken to be words, as those of
`setup_vote.py` are.

### Poll

What users get: clicks arrive in order, the last one stands, a result counts the box
and is sent to everybody present, once, whether he has voted or not; results are
shown in order. Under the mapping, `present` are the voters whose window is open and
whose connection the server has added: one still in `backlog` when VOTE_END is handled
is told nothing. `clicked` are the VOTE messages in a channel, `choice` the names
marked on the ballots on file, `mail` the results in `outbox`, channel and queue of
a voter, `shown` what was printed. As in `BallotBox`, two actions are what the code
does and the README does not want: `DropLate`, a ballot that arrives while no poll is
open (README.md:50), and `Open`, which leaves old ballots in the box.

## 3. Runs

| Run | Specification, bounds | Shows |
| --- | --- | --- |
| `election_safety` | 2 sockets, slates of 1 and 2 names, ballots of 1 and 2 places, one of them no number, keys that are no number, proofs whole or broken off, 2 elections | invariants, five action properties, `ImplementsBallotBox` |
| `connections_table` | 3 connections, descriptors 4 and 5, one unread piece | table, queue and hooks agree; `ContractKept`; no deadlock |
| `connections_progress` | 2 connections, fairness | four liveness properties |
| `framing_one` | 1 client, 3 messages cut anywhere, in the header too, garbage sizes -2, -1, 0, 1, 4 and INT_MAX, fairness | messages whole and in order, heap, liveness |
| `paillier_count` | primes of 4 bits (11, 13), 2 candidates, 3 ballots | the test finds exactly the primes, sums decrypt to counts, honest proofs verify |
| `voting_two` | 2 voters, one name, one login and one vote each, a poll set up and closed, one script interrupted or none, room for 1 message | `ImplementsPoll`, the server survives |
| `voting_progress` | 1 voter, one name, one login, 2 votes, a window closed or not, a poll opened, closed, opened again, fairness | `LastClickStands`, three liveness properties |
| `election_frozen_ballots`, `election_counted_proved`, `connections_disconnect`, `framing_overflow`, `voting_login` | smaller instances | a behaviour of the code that disagrees with the README (section 6) |

Why the bounds are enough to be of interest. Two sockets give one client whose
record is worked on and one it must not touch, and the sender of VOTE_END with
somebody else; two slates of different length make ballots too short and too
long; two elections make leftovers of the first visible in the second. Three
connections over two descriptors force a descriptor to be used again, also while
its last client is being removed, and the process to run out of them; two
entries in the table are needed for the swap and a third connection arrives
during it. Three messages let a client leave one of them unfinished behind two
handled ones, and three buffers are more than can be live at once. The garbage sizes
lie on both sides of each limit: what no allocator serves, the terminator alone at
index -1, a body of nothing, one shorter and one longer than what is sent, INT_MAX. 11
and 13 are
the two primes of 4 bits, 9 and 15 the composites the test must turn down; the
three coins include a multiple of 13, which encryption must not use.

Two voters make counts of none, one and two ballots and a broadcast with several
orders, to voters with a ballot and without. A second click replaces a ballot: beside
the name there is the button of an answer code's letter, which casts zeros. A third
script opens a poll on which ballots and candidates are left over from the first.
`Room = 1` is the case in which `send` blocks most often; larger buffers only hide it.
One click on the login button is enough for the key exchange to cross it. The runs of
`VotingSystem` have `MaxAtOnce = 1`, one script at a time, `MaxWindows = 1`, a second
window opened when the first is past its login, and `Patient = TRUE`. Scripts that
overlap, two logins that cross one another, and `ImplementsPoll` over several polls are
left to the theorems, which have none of these bounds.
`MCSymmetry` exchanges the voters of `voting_two`, which checks no liveness.

The runs of `MCVoting` do not check deadlock, because everything ends when the
scripts have run and the users are content; that nothing is left undone then is what
the liveness properties say. The runs of `Election` and `framing_one` do not check
deadlock, because a process that died stops; `paillier_count`, because it ends with
the count.
`connections_table` does: `Finished` is the one state allowed to stay as it is.
`election_safety` leaves `sent` out of the fingerprint (`MCView`): no action
reads it, and the action properties are evaluated on every step anyway.

Every property has a mutant in `PROJECT.json`: an operator such as
`NotReindexed` or `AddModuloN`, next to the one it stands for, a slip that TLC
reports as a violation of that property.

## 4. Properties

`Election`. `ClientsMatchConnections`: records for exactly the connected sockets,
so `m_clients.at` does not throw. `OnlyAuthenticatedTakePart`: nothing on file
without FULL_AUTH, although SEND_KEY and its proof can be replayed. `FreshOnConnect`:
a descriptor used again brings nothing from its last owner, although `emplace`
would keep a record. `StatusLadder`, `SlateFrozen`, `OneResultPerElection`:
what no step may do. `ChangesAreAnswered`: a step that changes a client's record
answers that client and sends nothing to the others. `ImplementsBallotBox`: under
the mapping `box` = ballots of the records marked voted, `open` = started,
`count` = ballots of the last result, every step is a step of `BallotBox`: VOTE
and disconnection alone touch the box, a place of a ballot holds what its own client
wrote there last, and a result is the whole box or nothing. It does not say when
ballots are taken: that is `BallotsFrozenWhenClosed`, which fails.

`Connections`. `TableConsistent`, `OverflowStaysWithClient`: the three containers
describe the same clients under the same indices. `SessionsReachTheirPeer`: what
is sent to a descriptor of the table reaches the connection `OnConnect` was
called for. `QueuedOnce`: a descriptor on its way to the table is open, there
once, and no client's but for one about to be removed. `ContractKept`: refinement
of `HookContract`. `QueuedAreAdmitted`, `LeaversAreDropped`, `DisconnectObeyed`,
`StopEndsStart`: liveness.

`Framing`. `WholeMessagesInOrder`, `HeapSafe`, `NoBufferLeaked`,
`ArrivedMessagesHandled` hold of a `Solo` system: one client whose stream comes in any
pieces, or several whose messages come whole. A client part of whose header was thrown
away (`lost`) is owed no message any more, but `HeapSafe` holds of it too: whatever its
headers seem to announce, all that can go wrong is the terminator of a body of
impossible size. That this does go wrong is no fault of the model: see section 6.

`Paillier`. `PrimesAreFound`: the test turns down no prime, so the search for one
ends. `FoundArePrime`: on numbers of 4 bits it accepts nothing else. This is no fact
about Miller-Rabin (25 passes for base 7), and the next ones need it: a key of two
numbers that are not prime may have no `mu`. `ResultIsCount`: what the client decrypts
is the count. `HonestProofsVerify`: verifier and prover, written in two languages, agree
on every modulus and inverse.

`VotingSystem`. `LastClickStands`: with no ballot of a voter under way, the server
has on file what the last click asked for, through every crossing of login, keys,
proofs and elections; in particular whoever sees buttons is logged in at the server.
A click after VOTE_END is put on file as well, which is what the code does and not what
README.md:50 says. `HonestClientsSpareTheServer`: with these programs and patient
operators the outcomes in which VOTE_END kills the process (a missing key, a short
ballot) cannot be reached, wherever scripts are interrupted.
`ImplementsPoll`: refinement of `Poll`. `LoginIsDecided`: after a click on the login
button the window does not stay for ever, even though `read` may drop the answer.
`EveryoneLearnsTheResult`: results end up printed. `ServerCatchesUp`: the server
never stays in `send`, and gets through all requests.

### Fairness

`Connections!FairSpec`: weak fairness of the main thread and of the listener's
two steps, that is, a thread that can run runs. No peer owes anything: clients may
stay silent for ever. Weak fairness asks nothing of a `Push` whose mutex is free again
and again but not for good: the main thread locks and unlocks it once per iteration,
and `std::mutex` promises no order. That the listener gets the mutex at all therefore
cannot be concluded from the code, and no property says it; `QueuedAreAdmitted` begins
where the listener has put a connection into the queue.
`Framing!FairSpec`: weak fairness of the main thread.

`VotingSystem!FairSpec`: while some thread (the server's loop, a client's listening
thread, a window's timer) can run, one of them does. This is weaker than fairness
of each thread, and enough because users and scripts send finitely many requests
(`MaxLogins`, `MaxVotes`, `Scripts`). Users owe nothing: they may never click and
never close a window, and a script may stop sending and stay for ever.

The liveness properties of `Connections` are about a server that runs: after `Stop`
the loop owes nothing to clients.

## 5. Proofs

TLAPS checks all of `ElectionProofs`, `ConnectionsProofs`, `FramingProofs`,
`VotingServerProofs`, `VotingProofs`, `PollProofs`, `NumberTheory` and `PaillierProofs`.

### Election

The theorems hold for any sets of sockets, candidates, slates and ballots and any
number of elections, from
`ElectionAssumption` alone: slates are sequences of candidates, ballots sequences
of ciphertexts and of arguments that are no number, `Zero` is what a place holds that
was never written, `Malformed` a subset of the fields, `MaxRounds` a natural number.
TLC evaluates the assumption in the runs of `MCElection`.

The inductive invariant is

    Inv == TypeOK /\ ClientsMatchConnections /\ OnlyAuthenticatedTakePart

The parts need one another: a command keeps a record well typed because
`ClientsMatchConnections` says that its socket has one; a ballot stays with
FULL_AUTH because SEND_KEY and SEND_KEY_PROOF want a lower status than any record
with a ballot has. There is one lemma per command (`SendKeyInv`, `VoteInv`,
`VoteEndInv`, ...), all resting on `UpdateClientInv` (a command that replaces one
record) or `RefuseInv` (one that refuses); `NextInv` puts them together.

- `Invariance`, `TypeCorrect`, `RecordsFollowConnections`, `OnlyAuthenticated`.
- `SlateIsFrozen` and `OneResult` follow from `VoteChanges`: a step leaves the
  vote alone, begins an election or ends one. `OneResult` needs the strengthening
  `ResultBehind`: the round of the last result is below `round` while an election
  is in progress.
- `FreshRecords`, `StatusClimbs`, `AnsweredChanges` follow from `StepKinds`: a step
  is a connection, a disconnection, or leaves every record untouched, marked only, or
  changed and its client answered.
- `BallotsAreABox` (`Spec => ImplementsBallotBox`) follows from `InitRefines` and
  `NextRefines`, with one lemma per kind of step on what becomes of the box.

### Connections

The theorems hold for any finite sets of connections and descriptors and any
`MaxUnread`, from `ConnectionsAssumption`: descriptors are positive numbers, `None`
is neither a descriptor nor a connection. The inductive invariant is

    IInv == /\ TypeOK /\ Places /\ TableConsistent /\ SessionsReachTheirPeer
            /\ OverflowStaysWithClient /\ QueuedOnce /\ OnePlace

`Places` ties the two program counters to what the next step relies on: there is
a closed client exactly before its removal and it is in the table, an accepted
descriptor exactly before it is queued, a client under `client_index` while its
body is read. `OnePlace` says that a connection is not there yet, in the backlog, open on
one descriptor or over, and never two of these. It is what makes the
others inductive: that a descriptor from `accept` is no client's follows from the
owners of the table's descriptors being their sessions; that a new session is of
a connection no other session has follows from no connection being open on
two descriptors.

- `Invariant` follows from one lemma per action. `FillHoleFacts` and
  `RemoveClientFacts` hold the argument about the swap: after a removal the entry
  under k is the one that was under k, or the last one where the hole was.
  `AddClientFacts` is its counterpart for `AddClient`; `CloseInv` and
  `ScanStepInv` serve all the reads.
- `TypeCorrect`, `TableIsConsistent`, `SessionsAreServed`, `OverflowsAreOwned`,
  `QueueIsClean` are its conjuncts.
- `HookContractKept` (`Spec => ContractKept`): every step is one of
  `HookContract` or leaves the hooks alone (`HooksStep`). That a connection gets
  `OnConnect` once needs `OnePlace`.

### Framing

`TypeCorrect` holds for any number of clients and messages, any sizes of header and
body, any cuts and any announced sizes, from `FramingAssumption`, which bounds sizes by
INT_MAX and nothing else. Neither the heap nor which client a buffer belongs to is
needed for it. In `TypeOK` the bytes in a buffer are any natural number: when two
clients write into one buffer their lengths add up past the largest stream, so no
smaller bound is a type.

`HeapIsSafe`, `NothingLeaks` and `MessagesAreWhole` have the hypothesis `Solo`;
without it they are false, which `framing_overflow` shows. Their inductive invariant
`SoloInv` says, besides that nothing went wrong yet but the terminator of a body of
impossible size:

- `Arrived`: what was delivered of a stream ends at a message boundary, and nothing of
  it is lost, unless its client is the only one;
- `Place`: `position` is the messages handled times `MessageSize`, plus the header while
  a body is being read, plus `read_size` in overflow mode, for a client that is not lost;
- `Held`: there is a live buffer at most between a header and the end of its body; it
  is `body_buffer`, which is what a body completed in overflow mode is handed over
  from, with room for `read_size + overflow_size` bytes and the terminator, and of a
  client that is not lost it holds the body, up to where `position` says;
- `Ahead`: a client removed in a scan is not met again in it.

So the argument for memory does not depend on what is in the stream, and covers a client
out of step; the argument for messages does, and covers one that is not.

`Place` multiplies and `Offset` divides by `MessageSize`: `Division`, `Products` and
`Multiple` keep that arithmetic away from the steps, which use `PastBoundary`, that what
arrived reaches past a message begun by a header. TLC checked `SoloInv` for one client
whose stream is cut anywhere and for three whose messages come whole; the run
`framing_one` has only the first case, the proofs cover both.

### VotingSystem

The theorems hold for any number of voters, scripts, scripts and windows at once,
interruptions, clicks and votes, any slate that is not empty and any room in the buffers, from
`ClientAssumption` and `SystemAssumption`. They have the hypothesis `Patient`: an
operator who ends a poll before it has its key can stop the server, and then nothing
else is kept either. The inductive invariant `Inv` of `VotingInvariant` consists of

- `ClientTypes`, `ServerTypes`: the types, with the set of words that programs send and
  answers contain; `server = "running"` is part of it;
- `Presence`: where a process is. It has no messages before it starts, answers and
  printed results only while it runs and is on the table;
- `VoterOf`: `AllGenuine`, that a message on its way means what it says (O0: logged in;
  a list: the slate); `KeysFirst`, that no key message comes behind O0, across
  `outbox`, channel and queue, so that `search` is not overwritten after the
  login; `WindowOf`, that buttons come from a list that arrived, and clicks from
  buttons; `BallotOf`, that the last VOTE on its way is the last click and that the
  record is, when there is none;
- `ScriptOf`: what a script has on its way is what it has sent and the server has not
  read (`Done`), in the order of the script, wherever it was interrupted. A
  `setup_vote.py` that was read to its end has set `pallier`, which no script unsets,
  and patience says that one was before any `end_vote.py` starts.

No part is inductive alone. `VOTE` is recorded only because the voter is
authenticated, which follows from its window having buttons, which follows from O0
having been read, for which `search` must not have been overwritten. TLC checked
`Inv` on the instance of `voting_progress` and on one with a script interrupted.

There is a lemma per handler on what it puts in `outbox` and in the record of its
sender (`VotingServerProofs`), and one per action and part of the invariant
(`VotingProofs`). `InvHolds` puts them together; `TypesHold`, `TheLastClickStands` and
`TheServerIsSpared` (`Patient => (Spec => []HonestClientsSpareTheServer)`) follow from
it. `read` is handled by what it leaves in `search`: a word of the last key message in
the queue, or what was there before. The prover knows nothing of `SelectSeq`, so
`Only`, which picks the messages a loop of `read` looks at, is a recursive function.

`ThePollIsImplemented` (`Patient => (Spec => ImplementsPoll)`, in `PollProofs`) follows
from `InitPoll` and `NextPoll`. What is on its way to a voter is one line: `responses`, then
`to_client`, then the voter's part of `outbox` (`InTransit`). A step does one of five
things with it, and `Only` and `Column` carry each over to the results in the line:

- `SendNext` and `listen` move a message along the line and leave it as it is, and so
  `Poll` does not see them. A message to a process that is gone is in no voter's line;
- `read` takes a part off the front and prints the results in it: `Show`, of as many
  counts as there are in that part, or nothing when there are none;
- a hook adds its answer at the end, which is no result;
- VOTE_END adds one result to the line of everybody present (`Close`), with a ballot or
  without. The order of a broadcast is a bijection of the clients on the table, so
  nobody is left out and nobody told twice;
- the end of a process empties it, and it is empty until the server has added the
  connection (`Arrive`, by `Presence`).

Of the other line, `to_server`, only the VOTE messages count. `action` adds one at the
end (`Click`), `Request` takes one off the front (`Drop` while a poll is open, else
`DropLate`). Both need of `Inv` that the
sender is logged in and that `m_clients` has its record, or the click would be lost;
`Remove` that a client is removed after all its requests; `Close` that the process
survives and that every ballot on file is a `Ballot` for some label, of the length of
the slate. Then the sums VOTE_END sends are the counts of the box, name by name. That
`Marked` of a ballot is one name or none holds because every element with that name is
marked, also when a slate has a name twice.

### Paillier

The theorems hold for primes of any length from 3 bits, challenges of any length, any
number of bases, coins, challenges and candidates, and up to 2^(Bits - 1) ballots, from
`PaillierAssumption`. More ballots than that could reach `n`, where a count wraps round.

`NumberTheory` proves of the functions of `Arithmetic` what a book proves by induction.
The library's induction theorems cannot be instantiated with these provers; every proof
takes a smallest counterexample from a set of natural numbers instead (`Smallest`), which
is first-order. A recursive function is shown to exist in the same way: there is one on
`0..n` for every `n` (`PowersExist`, `SquaresExist`, `GcdsExist`, `BezoutsExist`).

- `PowmodIs`: square and multiply computes the power modulo; `PgcdIsGcd`, `ModinvIs`: the
  loop of Euclid ends with the greatest common divisor and with an inverse exactly when
  there is one.
- `Fermat`: for a unit `a` of order `d` modulo a prime `p`, multiplication by `a` splits
  `1..p-1` into cycles of length `d` (`CycleSize`, `CyclesFill`), so `d` divides `p - 1`.
- `Carmichael`: for two primes, `ppcm(p - 1, q - 1)` takes every unit modulo `p q` to 1.
  `LambdaIsUnit`: it is itself a unit modulo `p q` when `p` and `q` have one length, as
  the code draws them: then neither divides the other less one (`UnitBelow`). That is why
  `modinv` at paillier.py:125 does not return `None`.
- `PowerOfOnePlus`, `NthPower`: `(1 + n)^x = 1 + n x` modulo `n^2`, and an `n`-th power
  modulo `n^2` depends on the number modulo `n` only. Decryption rests on the first, the
  verification of proofs, whose answers `z` are reduced modulo `n`, on the second.

The inductive invariant of `Paillier` is

    IInv == PrimesInv /\ KeyInv /\ BallotsInv /\ ProofsInv /\ ResultInv

`BallotsInv` says that every ciphertext is `paillier_encrypt` of 1 for the choice and of 0
otherwise, `ProofsInv` that every proof came from `zkp_prove` for the ciphertext it
stands beside, `ResultInv` that every sum hides the number of those who chose its
candidate: it is `g^x r^n` for that `x` and some unit `r` (`Hides`). None of it
supposes that the numbers found are prime. TLC checked `IInv` for primes of 3 and of 4
bits before it was proved.

- `NoPrimeTurnedDown` (`Spec => []PrimesAreFound`): modulo a prime only 1 and -1 square
  to 1, so the chain of squares from `a^d` to `a^(n-1) = 1` is 1 throughout or meets -1.
- `ProofsVerify` (`Spec => []HonestProofsVerify`), from `ProofVerifies`: for the
  simulated value the commitment was made to fit, for the real one `z^n = a term^e` by
  `NthPower`. It needs `c` to have an inverse, no more, and so holds under any key.
- `CountIsRight` (`Spec => [](FoundArePrime => ResultIsCount)`) from `DecryptIs`, and
  `TypesAreRight` (`Spec => [](FoundArePrime => TypeOK)`). The condition is about the
  state reached, not about the test: an assumption that the test is right for every
  number and base would be false for numbers of 5 bits. The run `paillier_count` checks
  `FoundArePrime` where both theorems apply to every state.

### Model-checked only

Liveness and fairness, which are beyond this prover; `FoundArePrime`, which is a fact
about the numbers of one size; and the five runs that show a disagreement.

## 6. Where the code and its documentation disagree

With a run each:

- VOTE replaces a ballot after VOTE_END, as `client_vote` does not look at `started`
  (CC:93; README.md:50). Run `election_frozen_ballots`.
- VOTE_END tests the ballot and the proofs of its sender in place of those of the
  client it approves (CC:48; README.md:45). Run `election_counted_proved`.
- `m_disconnection` is never cleared: the next client on that descriptor is closed
  on arrival (`server.cpp:142`; README.md:28-30). Run `connections_disconnect`.
- A body completed in overflow mode is handed over from `body_buffer`, by then the
  buffer of the last header read from any client (`server.cpp:199`; README.md:62).
  Run `framing_overflow`.
- A key message that `read` handles after LOGIN was sent overwrites `search`: the
  answer O0 is dropped, a later answer is taken for it and the window closes with
  "Erreur inconnue" on a user who is logged in at the server (client.py:68,
  interface.py:98-101; README.md:188). Run `voting_login`.

Modelled, without a run of their own: a ballot of the wrong length is answered E4,
then recorded and answered O1 (CC:90; README.md:206-207); a proof answered O4 is
stored in a form that cannot verify (CC:279; README.md:214); the ballot of a client is
lost with its connection (`main.cpp:82`; README.md:87-89 plans otherwise) and ballots of
one election are still in the box at the next (CC:23), both visible in `BallotBox`;
LOGIN is accepted from any status below FULL_AUTH (CC:104; README.md:65-70) and checks
no password; an uncaught exception ends the server (CC:180); VOTE_END before a
Paillier key divides by zero (CC:59), which two scripts of the repository run at the
same time bring about; an argument of VOTE that is no number leaves the old ciphertext
in its place and is answered O1 (CC:97), a key that is no number unsets the one there
was (CC:231); a header that announces a negative size or INT_MAX has the terminator
written where nothing was allocated (`server.cpp:164-184`); part of a header is thrown
away and the stream read out of step from then on (`server.cpp:356`); a client whose
body has not arrived when its header is read is dropped (`server.cpp:171`); the
listener ends for good when `accept` fails (`server.cpp:296`). The README's E0, E11
and O3 are never sent. In the client: a second click on the login button is answered
E9, which closes the window too; GET_CANDIDATES before VOTE_BEGIN is answered `ERROR
... E13`, which `read` ignores, so who logs in too early never gets buttons; the list
is thrown away if it arrives before the `read` at interface.py:31; an answer code that
comes in place of the list becomes a button for each of its letters (interface.py:40).
After a login, E2, E3 and E10 never come.

## 7. Not modelled

- RSA: the server generates a key pair and sends its first half; nothing is
  encrypted with it, and `rsa.cpp` and `rsa.py` are demonstrations.
- `last_activity`, written by `OnUpdate` and read by nothing.
- Text: `split`, the trimming functions and `StrArgs` are functions from text to
  words and back with no state; every module starts from the words. A client that
  sends bytes which are no words is in `Election` as an argument that fails to parse.
- A client that connects and then never calls `recv`: none of the repository's
  programs is one, and it would stop the server (`server.cpp:253`).
- Memory running out: a `malloc` of a size that can be served succeeds.
- `recv` returning part of a message in the client (client.py:19): the messages fit
  into the buffers of a local connection; `Framing` has the same fault of the server.
- VOTE_BEGIN without names (`ClientAssumption`): the answer to GET_CANDIDATES then has
  no fourth word and `read` raises an exception (client.py:59).
- Log formatting, socket set-up (straight-line calls that exit on failure), GMP.
- `dummy_client.py`: it sends what an operator types, and `Election` receives commands
  in any order.

## 8. Order of work

In this order: `Election` with `BallotBox`; `Connections` with `HookContract`;
`Framing`; `Paillier`; the proofs about `Election` and `Connections`; `Client` and
`VotingSystem` with `Poll`; the proofs about `VotingSystem` and about orderly
framing; the proof that `VotingSystem` implements `Poll`; `NumberTheory` and the proofs
about `Paillier`.

A possible continuation: `VotingSystem` over `Connections` in place of its own
`backlog` and `connected`.
