----------------------------- MODULE PollProofs -----------------------------
(***************************************************************************)
(* VotingSystem implements Poll.  What is on its way to a voter is one     *)
(* line: outbox, receive buffer and queue; SendNext and listen move a      *)
(* message along it, read() takes a part off its front, and the hooks add  *)
(* at its end.  What is on its way to the server is another.               *)
(***************************************************************************)
EXTENDS VotingProofs

\* The variables of Poll.
Present == {v \in Voters : Running(v) /\ v \in connected}
Clicks == [v \in Voters |-> Casts(to_server[v])]
Choice == [v \in {x \in DOMAIN m_clients : m_clients[x].voted} |->
             Marked(m_clients[v].vote)]
Mails == [v \in Voters |-> Mail(v)]

PollStep == [P!Next]_(P!vars)

-----------------------------------------------------------------------------
\* Casts and Results of parts of a line.

Marks == {Marked(b) : b \in Papers}

MarkAll(ballots) == [i \in DOMAIN ballots |-> Marked(ballots[i])]

LEMMA MarkAllType ==
  ASSUME NEW s \in Seq(Papers)
  PROVE  MarkAll(s) \in Seq(Marks) /\ Len(MarkAll(s)) = Len(s)
<1>1. Len(s) \in Nat /\ DOMAIN s = 1..Len(s) /\ \A i \in 1..Len(s) : s[i] \in Papers
  OBVIOUS
<1>2. MarkAll(s) \in [1..Len(s) -> Marks]
  BY <1>1 DEF Marks, MarkAll
<1>3. QED
  BY <1>1, <1>2, SeqDef

LEMMA MarkAllConcat ==
  ASSUME NEW s \in Seq(Papers), NEW t \in Seq(Papers)
  PROVE  MarkAll(s \o t) = MarkAll(s) \o MarkAll(t)
<1>1. /\ MarkAll(s) \in Seq(Marks) /\ Len(MarkAll(s)) = Len(s)
      /\ MarkAll(t) \in Seq(Marks) /\ Len(MarkAll(t)) = Len(t)
  BY MarkAllType
<1>2. /\ s \o t \in Seq(Papers) /\ Len(s \o t) = Len(s) + Len(t)
      /\ \A i \in 1..Len(s) + Len(t) :
           (s \o t)[i] = IF i <= Len(s) THEN s[i] ELSE t[i - Len(s)]
  BY ConcatProperties
<1>3. MarkAll(s \o t) \in Seq(Marks) /\ Len(MarkAll(s \o t)) = Len(s) + Len(t)
  BY <1>2, MarkAllType
<1>4. Len(s) \in Nat /\ Len(t) \in Nat /\ DOMAIN s = 1..Len(s) /\ DOMAIN t = 1..Len(t)
      /\ DOMAIN (s \o t) = 1..Len(s) + Len(t)
  BY <1>2
<1>5. ASSUME NEW i \in 1..Len(s) PROVE MarkAll(s \o t)[i] = MarkAll(s)[i]
  <2>1. i \in 1..Len(s) + Len(t) /\ i <= Len(s)
    BY <1>4
  <2>2. QED
    BY <1>2, <1>4, <2>1 DEF MarkAll
<1>6. ASSUME NEW i \in 1..Len(t) PROVE MarkAll(s \o t)[Len(s) + i] = MarkAll(t)[i]
  <2>1. Len(s) + i \in 1..Len(s) + Len(t) /\ ~(Len(s) + i <= Len(s))
        /\ Len(s) + i - Len(s) = i
    BY <1>4
  <2>2. QED
    BY <1>2, <1>4, <2>1 DEF MarkAll
<1>7. QED
  <2>1. \A i \in 1..Len(MarkAll(s)) : MarkAll(s \o t)[i] = MarkAll(s)[i]
    BY <1>1, <1>5
  <2>2. \A i \in 1..Len(MarkAll(t)) :
          MarkAll(s \o t)[Len(MarkAll(s)) + i] = MarkAll(t)[i]
    BY <1>1, <1>6
  <2>3. Len(MarkAll(s \o t)) = Len(MarkAll(s)) + Len(MarkAll(t))
    BY <1>1, <1>3
  <2>4. QED
    BY ONLY <1>1, <1>3, <2>1, <2>2, <2>3, ConcatByParts

VoteRequests == {x \in Requests : x[1] \in {"VOTE"}}
Ballots(s) == Column(Only(s, {"VOTE"}), 2)

LEMMA BallotsFacts ==
  /\ \A x \in VoteRequests : x[2] \in Papers
  /\ \A s \in Seq(Requests) : /\ Only(s, {"VOTE"}) \in Seq(VoteRequests)
                              /\ Ballots(s) \in Seq(Papers)
                              /\ Casts(s) = MarkAll(Ballots(s))
<1>1. \A x \in VoteRequests : x[2] \in Papers
  BY DEF VoteRequests, Requests, ScriptRequests, VoterRequests
<1>2. ASSUME NEW s \in Seq(Requests)
      PROVE  Only(s, {"VOTE"}) \in Seq(VoteRequests) /\ Ballots(s) \in Seq(Papers)
  <2>1. Only(s, {"VOTE"}) \in Seq(VoteRequests)
    BY OnlyType DEF VoteRequests
  <2>2. QED
    BY <1>1, <2>1, ColumnType DEF Ballots
<1>3. QED
  BY <1>1, <1>2 DEF Casts, MarkAll, Ballots

LEMMA CastsConcat ==
  ASSUME NEW s \in Seq(Requests), NEW t \in Seq(Requests)
  PROVE  /\ Casts(s) \in Seq(Marks) /\ Casts(t) \in Seq(Marks)
         /\ Casts(s \o t) = Casts(s) \o Casts(t)
<1>1. /\ Only(s, {"VOTE"}) \in Seq(VoteRequests) /\ Only(t, {"VOTE"}) \in Seq(VoteRequests)
      /\ Ballots(s) \in Seq(Papers) /\ Ballots(t) \in Seq(Papers)
      /\ s \o t \in Seq(Requests)
  BY BallotsFacts
<1>2. Only(s \o t, {"VOTE"}) = Only(s, {"VOTE"}) \o Only(t, {"VOTE"})
  BY OnlyConcat
<1>3. Ballots(s \o t) = Ballots(s) \o Ballots(t)
  <2> DEFINE a == Only(s, {"VOTE"})
             b == Only(t, {"VOTE"})
  <2>1. /\ a \in Seq(VoteRequests) /\ b \in Seq(VoteRequests)
        /\ Column(a, 2) \in Seq(Papers) /\ Column(b, 2) \in Seq(Papers)
    BY <1>1 DEF Ballots
  <2>2. Ballots(s) = Column(a, 2) /\ Ballots(t) = Column(b, 2)
        /\ Ballots(s \o t) = Column(a \o b, 2)
    BY <1>2 DEF Ballots
  <2> HIDE DEF a, b
  <2>3. Column(a \o b, 2) = Column(a, 2) \o Column(b, 2)
    BY ONLY <2>1, ColumnConcat
  <2>4. QED
    BY <2>2, <2>3
<1>4. /\ Casts(s) = MarkAll(Ballots(s)) /\ Casts(t) = MarkAll(Ballots(t))
      /\ Casts(s \o t) = MarkAll(Ballots(s \o t))
  BY <1>1, BallotsFacts
<1>5. QED
  BY <1>1, <1>3, <1>4, MarkAllType, MarkAllConcat

LEMMA CastsNone ==
  ASSUME NEW s \in Seq(Requests), \A i \in DOMAIN s : s[i][1] # "VOTE"
  PROVE  Casts(s) = <<>>
<1> DEFINE S == {x \in Requests : x[1] # "VOTE"}
<1>1. s \in Seq(S)
  <2>1. Len(s) \in Nat /\ DOMAIN s = 1..Len(s) /\ s \in [1..Len(s) -> Requests]
    OBVIOUS
  <2>2. s \in [1..Len(s) -> S]
    BY <2>1
  <2>3. QED
    BY <2>1, <2>2, SeqDef
<1>2. \A x \in S : x[1] \notin {"VOTE"}
  OBVIOUS
<1> HIDE DEF S
<1>3. Only(s, {"VOTE"}) = <<>>
  BY <1>1, <1>2, OnlyNone
<1>4. QED
  BY <1>3 DEF Casts, Column

LEMMA CastsOne ==
  ASSUME NEW m \in Requests
  PROVE  Casts(<<m>>) = IF m[1] = "VOTE" THEN <<Marked(m[2])>> ELSE <<>>
<1>3. Only(<<m>>, {"VOTE"}) = IF m[1] = "VOTE" THEN <<m>> ELSE <<>>
  BY OnlyOne
<1>4. CASE m[1] = "VOTE"
  <2>1. Column(Only(<<m>>, {"VOTE"}), 2) = <<m[2]>>
    BY <1>3, <1>4, ColumnOne
  <2>2. QED
    BY <1>4, <2>1 DEF Casts
<1>5. CASE m[1] # "VOTE"
  BY <1>3, <1>5 DEF Casts, Column
<1>6. QED
  BY <1>4, <1>5

LEMMA ResultsConcat ==
  ASSUME NEW s \in Seq(Answer), NEW t \in Seq(Answer)
  PROVE  Results(s \o t) = Results(s) \o Results(t)
<1> DEFINE w == {"SEND_VOTE_RESULT"}
           a == Only(s, w)
           b == Only(t, w)
<1>1. /\ a \in Seq(Answer) /\ b \in Seq(Answer)
      /\ Column(a, 4) \in Seq(Enclosed) /\ Column(b, 4) \in Seq(Enclosed)
  BY OnlyIsSeq, ResultsType DEF Results
<1>2. Only(s \o t, w) = a \o b
  BY OnlyConcat
<1>3. /\ Results(s) = Column(a, 4) /\ Results(t) = Column(b, 4)
      /\ Results(s \o t) = Column(a \o b, 4)
  BY <1>2 DEF Results
<1> HIDE DEF a, b
<1>4. Column(a \o b, 4) = Column(a, 4) \o Column(b, 4)
  BY ONLY <1>1, ColumnConcat
<1>5. QED
  BY <1>3, <1>4

Ordinary == {m \in Answer : m[1] # "SEND_VOTE_RESULT"}
LEMMA ResultsNone ==
  ASSUME NEW s \in Seq(Ordinary)
  PROVE  Results(s) = <<>>
<1>1. \A x \in Ordinary : x[1] \notin {"SEND_VOTE_RESULT"}
  BY DEF Ordinary
<1>2. Only(s, {"SEND_VOTE_RESULT"}) = <<>>
  BY <1>1, OnlyNone
<1>3. QED
  BY <1>2, ColumnEmpty DEF Results

LEMMA ResultsEmpty == Results(<<>>) = <<>>
<1>1. <<>> \in Seq(Ordinary)
  OBVIOUS
<1>2. QED
  BY <1>1, ResultsNone

LEMMA ResultsOne ==
  \A m : m[1] = "SEND_VOTE_RESULT" => Results(<<m>>) = <<m[4]>>
<1>1. ASSUME NEW m, m[1] = "SEND_VOTE_RESULT" PROVE Results(<<m>>) = <<m[4]>>
  <2>1. Only(<<m>>, {"SEND_VOTE_RESULT"}) = <<m>>
    BY <1>1, OnlyOne
  <2>2. QED
    BY <2>1, ColumnOne DEF Results
<1>2. QED
  BY <1>1

\* The messages of the outbox for v.
Entries == Processes \X Answer
To(box, v) == Column(Only(box, {v}), 2)

LEMMA ToType ==
  ASSUME NEW box \in Seq(Entries), NEW v
  PROVE  To(box, v) \in Seq(Answer) /\ Only(box, {v}) \in Seq(Entries)
<1>1. Only(box, {v}) \in Seq(Entries)
  BY OnlyIsSeq
<1>2. \A e \in Entries : e[2] \in Answer
  BY DEF Entries
<1>3. QED
  BY <1>1, <1>2, ColumnType DEF To

LEMMA ToConcat ==
  ASSUME NEW s \in Seq(Entries), NEW t \in Seq(Entries), NEW v
  PROVE  To(s \o t, v) = To(s, v) \o To(t, v)
<1> DEFINE a == Only(s, {v})
           b == Only(t, {v})
<1>1. /\ a \in Seq(Entries) /\ b \in Seq(Entries)
      /\ Column(a, 2) \in Seq(Answer) /\ Column(b, 2) \in Seq(Answer)
  BY ToType DEF To
<1>2. Only(s \o t, {v}) = a \o b
  BY OnlyConcat
<1>3. To(s, v) = Column(a, 2) /\ To(t, v) = Column(b, 2) /\ To(s \o t, v) = Column(a \o b, 2)
  BY <1>2 DEF To
<1> HIDE DEF a, b
<1>4. Column(a \o b, 2) = Column(a, 2) \o Column(b, 2)
  BY ONLY <1>1, ColumnConcat
<1>5. QED
  BY <1>3, <1>4

LEMMA ToOne ==
  \A e, v : To(<<e>>, v) = IF e[1] = v THEN <<e[2]>> ELSE <<>>
<1> SUFFICES ASSUME NEW e, NEW v
             PROVE  To(<<e>>, v) = IF e[1] = v THEN <<e[2]>> ELSE <<>>
  OBVIOUS
<1>1. Only(<<e>>, {v}) = IF e[1] = v THEN <<e>> ELSE <<>>
  BY OnlyOne
<1>2. QED
  BY <1>1, ColumnOne, ColumnEmpty DEF To

LEMMA ToNone ==
  ASSUME NEW S, NEW box \in Seq(S), NEW v, \A e \in S : e[1] # v
  PROVE  To(box, v) = <<>>
<1>1. Only(box, {v}) = <<>>
  BY OnlyNone
<1>2. QED
  BY <1>1, ColumnEmpty DEF To

\* Messages that are no results leave the line as it is.
LEMMA ToOrdinary ==
  ASSUME NEW box \in Seq(Processes \X Ordinary), NEW v
  PROVE  To(box, v) \in Seq(Ordinary) /\ Results(To(box, v)) = <<>>
<1>1. Only(box, {v}) \in Seq(Processes \X Ordinary)
  BY OnlyIsSeq
<1>2. \A e \in Processes \X Ordinary : e[2] \in Ordinary
  OBVIOUS
<1>3. To(box, v) \in Seq(Ordinary)
  BY <1>1, <1>2, ColumnType DEF To
<1>4. QED
  BY <1>3, ResultsNone

-----------------------------------------------------------------------------
\* The steps of Poll, on its variables as VotingSystem has them.

LEMMA PollUnseen ==
  ASSUME Present' = Present, started' = started, Clicks' = Clicks, Choice' = Choice,
         Mails' = Mails, printed' = printed
  PROVE  PollStep
BY DEF PollStep, P!vars, Present, Clicks, Choice, Mails

LEMMA PollArrive ==
  ASSUME NEW v \in Voters, v \notin Present, Present' = Present \cup {v},
         started' = started, Clicks' = Clicks, Choice' = Choice, Mails' = Mails,
         printed' = printed
  PROVE  PollStep
BY DEF PollStep, P!Next, P!Arrive, Present, Clicks, Choice, Mails

LEMMA PollLeave ==
  ASSUME NEW v \in Voters, v \in Present, Present' = Present \ {v},
         Mails' = [Mails EXCEPT ![v] = <<>>], printed' = [printed EXCEPT ![v] = <<>>],
         started' = started, Clicks' = Clicks, Choice' = Choice
  PROVE  PollStep
BY DEF PollStep, P!Next, P!Leave, Present, Clicks, Choice, Mails

LEMMA PollClick ==
  ASSUME NEW v \in Voters, v \in Present, NEW c \in P!Choices,
         Clicks' = [Clicks EXCEPT ![v] = Append(@, c)],
         Present' = Present, started' = started, Choice' = Choice, Mails' = Mails,
         printed' = printed
  PROVE  PollStep
BY DEF PollStep, P!Next, P!Click, Present, Clicks, Choice, Mails

LEMMA PollDrop ==
  ASSUME NEW v \in Voters, Clicks[v] # <<>>,
         Choice' = [x \in DOMAIN Choice \cup {v} |->
                      IF x = v THEN Head(Clicks[v]) ELSE Choice[x]],
         Clicks' = [Clicks EXCEPT ![v] = Tail(@)],
         Present' = Present, started' = started, Mails' = Mails, printed' = printed
  PROVE  PollStep
<1>1. P!PutIn(v)
  BY DEF P!PutIn, Present, Clicks, Choice, Mails
<1>2. P!Drop(v) \/ P!DropLate(v)
  BY <1>1 DEF P!Drop, P!DropLate
<1>3. QED
  BY <1>2 DEF PollStep, P!Next

LEMMA PollRemove ==
  ASSUME NEW v \in Voters, v \notin Present, Clicks[v] = <<>>,
         Choice' = [x \in DOMAIN Choice \ {v} |-> Choice[x]],
         Clicks' = Clicks,
         Present' = Present, started' = started, Mails' = Mails, printed' = printed
  PROVE  PollStep
BY DEF PollStep, P!Next, P!Remove, Present, Clicks, Choice, Mails

LEMMA PollOpen ==
  ASSUME ~started, started' = TRUE, Present' = Present, Clicks' = Clicks,
         Choice' = Choice, Mails' = Mails, printed' = printed
  PROVE  PollStep
BY DEF PollStep, P!Next, P!Open, Present, Clicks, Choice, Mails

LEMMA PollClose ==
  ASSUME started, started' = FALSE,
         Mails' = [v \in Voters |-> IF v \in Present THEN Append(Mails[v], P!Count)
                                                     ELSE Mails[v]],
         Present' = Present, Clicks' = Clicks, Choice' = Choice, printed' = printed
  PROVE  PollStep
BY DEF PollStep, P!Next, P!Close, Present, Clicks, Choice, Mails

LEMMA PollShow ==
  ASSUME NEW v \in Voters, NEW n \in 1..Len(Mails[v]),
         printed' = [printed EXCEPT ![v] = @ \o SubSeq(Mails[v], 1, n)],
         Mails' = [Mails EXCEPT ![v] = SubSeq(@, n + 1, Len(@))],
         Present' = Present, started' = started, Clicks' = Clicks, Choice' = Choice
  PROVE  PollStep
BY DEF PollStep, P!Next, P!Show, Present, Clicks, Choice, Mails

-----------------------------------------------------------------------------
\* What the lines are made of.

LEMMA LineFacts ==
  ASSUME Inv, NEW v \in Voters
  PROVE  /\ responses[v] \in Seq(Answer) /\ to_client[v] \in Seq(Answer)
         /\ outbox \in Seq(Entries) /\ Posted(v) = To(outbox, v)
         /\ Posted(v) \in Seq(Answer) /\ InTransit(v) \in Seq(Answer)
         /\ to_server[v] \in Seq(Requests)
         /\ printed[v] \in Seq(Enclosed) /\ DOMAIN printed = Voters
         /\ v \in Processes
<1>1. /\ responses[v] \in Seq(Answer) /\ to_client[v] \in Seq(Answer)
      /\ to_server[v] \in Seq(Requests) /\ v \in Processes
      /\ printed[v] \in Seq(Enclosed) /\ DOMAIN printed = Voters
  BY ProcessFacts DEF Inv, ClientTypes
<1>2. outbox \in Seq(Entries)
  <2>1. outbox \in Seq(connected \X Answer) /\ connected \subseteq Processes
    BY DEF Inv, ServerTypes
  <2>2. connected \X Answer \subseteq Entries
    BY <2>1 DEF Entries
  <2>3. QED
    BY <2>1, <2>2, SeqMonotonic
<1>3. Posted(v) = To(outbox, v)
  BY DEF Posted, To
<1>4. To(outbox, v) \in Seq(Answer)
  BY <1>2, ToType
<1>5. responses[v] \o to_client[v] \o To(outbox, v) \in Seq(Answer)
  BY <1>1, <1>4
<1>6. QED
  BY <1>1, <1>2, <1>3, <1>4, <1>5 DEF InTransit

\* The parts of the line say all there is to say of Mail.
LEMMA MailSame ==
  ASSUME \A v \in Voters : /\ Running(v)' = Running(v)
                           /\ Running(v) => InTransit(v)' = InTransit(v),
         connected' = connected
  PROVE  Mails' = Mails /\ Present' = Present
<1>1. \A v \in Voters : Mail(v)' = Mail(v)
  BY DEF Mail
<1>2. QED
  BY <1>1 DEF Mails, Present

LEMMA ClicksSame ==
  ASSUME \A v \in Voters : Casts(to_server[v])' = Casts(to_server[v])
  PROVE  Clicks' = Clicks
BY DEF Clicks

LEMMA ChoiceSame ==
  ASSUME UNCHANGED m_clients
  PROVE  Choice' = Choice
BY DEF Choice

-----------------------------------------------------------------------------
\* Messages move along a line.

LEMMA HeadAndTail ==
  ASSUME NEW S, NEW s \in Seq(S), s # <<>>
  PROVE  /\ Head(s) = s[1] /\ Head(s) \in S /\ Tail(s) \in Seq(S)
         /\ s = <<Head(s)>> \o Tail(s)
<1>1. /\ Head(s) \in S /\ Tail(s) \in Seq(S) /\ Len(Tail(s)) = Len(s) - 1
      /\ \A i \in 1..Len(Tail(s)) : Tail(s)[i] = s[i + 1]
  BY HeadTailProperties
<1>2. Head(s) = s[1] /\ Len(s) \in Nat \ {0}
  OBVIOUS
<1>3. <<Head(s)>> \in Seq(S) /\ Len(<<Head(s)>>) = 1 /\ <<Head(s)>>[1] = s[1]
  BY <1>1, <1>2
<1>4. \A i \in 1..Len(<<Head(s)>>) : s[i] = <<Head(s)>>[i]
  BY <1>3
<1>5. Len(s) = Len(<<Head(s)>>) + Len(Tail(s))
  BY <1>1, <1>2, <1>3
<1>6. \A i \in 1..Len(Tail(s)) : s[Len(<<Head(s)>>) + i] = Tail(s)[i]
  BY <1>1, <1>3
<1>7. QED
  BY <1>1, <1>2, <1>3, <1>4, <1>5, <1>6, ConcatByParts

\* Under a name of its own \o is only what this lemma says of it.
Cat(a, b) == a \o b
LEMMA CatFacts ==
  \A a, b, c \in Seq(Answer) :
    Cat(a, b) \in Seq(Answer) /\ Cat(Cat(a, b), c) = Cat(a, Cat(b, c))
BY ConcatAssociative DEF Cat

LEMMA MoveOn ==
  \A a, b, c, q \in Seq(Answer) :
    /\ Cat(Cat(a, Cat(b, q)), c) = Cat(Cat(a, b), Cat(q, c))
    /\ Cat(Cat(Cat(a, q), b), c) = Cat(Cat(a, Cat(q, b)), c)
BY CatFacts

LEMMA SendNextPoll ==
  ASSUME Inv, SendNext
  PROVE  PollStep
<1> DEFINE p == outbox[1][1]
           m == outbox[1][2]
<1>1. /\ outbox # <<>> /\ outbox' = Tail(outbox)
      /\ \/ process[p] = "exited" /\ to_client' = to_client
         \/ /\ process[p] # "exited"
            /\ to_client' = [to_client EXCEPT ![p] = Append(@, m)]
      /\ UNCHANGED <<process, to_server, responses, connected, m_clients, started, printed>>
  BY DEF SendNext, Free, gui
<1>2. outbox \in Seq(Entries)
  <2>1. outbox \in Seq(connected \X Answer) /\ connected \subseteq Processes
    BY DEF Inv, ServerTypes
  <2>2. connected \X Answer \subseteq Entries
    BY <2>1 DEF Entries
  <2>3. QED
    BY <2>1, <2>2, SeqMonotonic
<1>3. /\ outbox[1] \in Entries /\ outbox' \in Seq(Entries)
      /\ outbox = <<outbox[1]>> \o outbox'
  BY <1>1, <1>2, HeadAndTail
<1>4. p \in Processes /\ m \in Answer
  BY <1>3 DEF Entries
<1> HIDE DEF p, m
<1>5. ASSUME NEW v \in Voters
      PROVE  To(outbox, v) = (IF p = v THEN <<m>> ELSE <<>>) \o To(outbox, v)'
  <2>1. <<outbox[1]>> \in Seq(Entries)
    BY <1>3
  <2>2. To(<<outbox[1]>> \o outbox', v) = To(<<outbox[1]>>, v) \o To(outbox', v)
    BY <2>1, <1>3, ToConcat
  <2>3. To(<<outbox[1]>>, v) = IF p = v THEN <<m>> ELSE <<>>
    BY ToOne DEF p, m
  <2>4. To(outbox, v)' = To(outbox', v)
    BY DEF To
  <2>5. QED
    BY <2>2, <2>3, <2>4, <1>3
<1>6. ASSUME NEW v \in Voters, Running(v) PROVE InTransit(v)' = InTransit(v)
  <2>1. responses[v] \in Seq(Answer) /\ to_client[v] \in Seq(Answer) /\ v \in Processes
    BY LineFacts
  <2>2. To(outbox', v) \in Seq(Answer) /\ To(outbox, v)' = To(outbox', v)
    BY <1>3, ToType DEF To
  <2>3. InTransit(v)' = responses[v] \o to_client'[v] \o To(outbox', v)
    BY <1>1, <2>2 DEF InTransit, Posted, To
  <2>4. InTransit(v) = responses[v] \o to_client[v] \o To(outbox, v)
    BY DEF InTransit, Posted, To
  <2>5. CASE p # v
    <3>1. to_client'[v] = to_client[v]
      BY <1>1, <2>1, <2>5 DEF Inv, ClientTypes
    <3>2. <<>> \o To(outbox', v) = To(outbox', v)
      BY <2>2, ConcatEmptySeq
    <3>3. To(outbox, v) = To(outbox', v)
      BY <1>5, <2>2, <2>5, <3>2
    <3>4. QED
      BY <2>3, <2>4, <3>1, <3>3
  <2>6. CASE p = v
    <3>1. to_client' = [to_client EXCEPT ![v] = Append(@, m)]
      BY <1>1, <1>6, <2>6 DEF Running
    <3>2. to_client'[v] = Append(to_client[v], m)
      BY <3>1, <2>1 DEF Inv, ClientTypes
    <3>3. To(outbox, v) = <<m>> \o To(outbox', v)
      BY <1>5, <2>2, <2>6
    <3>4. responses[v] \o to_client'[v] \o To(outbox', v)
            = responses[v] \o to_client[v] \o To(outbox, v)
      <4>1. to_client'[v] = to_client[v] \o <<m>> /\ <<m>> \in Seq(Answer)
        BY <2>1, <3>2, <1>4, AppendIsConcat
      <4> DEFINE q == <<m>>
      <4>2. q \in Seq(Answer) /\ to_client'[v] = Cat(to_client[v], q)
            /\ To(outbox, v) = Cat(q, To(outbox', v))
        BY <3>3, <4>1 DEF Cat
      <4> HIDE DEF q
      <4>3. Cat(Cat(responses[v], to_client'[v]), To(outbox', v))
              = Cat(Cat(responses[v], to_client[v]), To(outbox, v))
        BY ONLY <2>1, <2>2, <4>2, MoveOn
      <4>4. QED
        BY ONLY <4>3 DEF Cat
    <3>5. QED
      BY <2>3, <2>4, <3>2, <3>3, <3>4
  <2>7. QED
    BY <2>5, <2>6
<1>7. Mails' = Mails /\ Present' = Present
  BY <1>1, <1>6, MailSame DEF Running
<1>8. Clicks' = Clicks /\ Choice' = Choice
  BY <1>1, ChoiceSame DEF Clicks
<1>9. QED
  BY <1>1, <1>7, <1>8, PollUnseen

LEMMA ListenPoll ==
  ASSUME Inv, NEW p \in Processes, Listen(p)
  PROVE  PollStep
<1>1. /\ to_client[p] # <<>> /\ to_client' = [to_client EXCEPT ![p] = Tail(@)]
      /\ responses' = [v \in Voters |-> IF v = p
                         THEN Append(responses[v], Head(to_client[p])) ELSE responses[v]]
      /\ UNCHANGED <<process, to_server, connected, m_clients, started, printed, outbox>>
  BY DEF Listen, listen, Receives, Queue, gui, election
<1>2. ASSUME NEW v \in Voters PROVE InTransit(v)' = InTransit(v)
  <2>1. /\ responses[v] \in Seq(Answer) /\ to_client[v] \in Seq(Answer)
        /\ Posted(v) \in Seq(Answer) /\ v \in Processes
    BY LineFacts
  <2>2. Posted(v)' = Posted(v)
    BY <1>1 DEF Posted
  <2>3. CASE v # p
    <3>1. responses'[v] = responses[v] /\ to_client'[v] = to_client[v]
      BY <1>1, <2>1, <2>3 DEF Inv, ClientTypes
    <3>2. QED
      BY <2>2, <3>1 DEF InTransit
  <2>4. CASE v = p
    <3>1. to_client'[v] = Tail(to_client[v])
          /\ responses'[v] = Append(responses[v], Head(to_client[v]))
      BY <1>1, <2>1, <2>4 DEF Inv, ClientTypes
    <3>2. /\ Head(to_client[v]) \in Answer /\ Tail(to_client[v]) \in Seq(Answer)
          /\ to_client[v] = <<Head(to_client[v])>> \o Tail(to_client[v])
      BY <1>1, <2>1, <2>4, HeadAndTail
    <3>3. responses'[v] \o to_client'[v] \o Posted(v)
            = responses[v] \o to_client[v] \o Posted(v)
      <4> DEFINE q == <<Head(to_client[v])>>
      <4>1. /\ responses'[v] = Cat(responses[v], q) /\ q \in Seq(Answer)
            /\ to_client[v] = Cat(q, to_client'[v]) /\ to_client'[v] \in Seq(Answer)
        BY <2>1, <3>1, <3>2, AppendIsConcat DEF Cat
      <4> HIDE DEF q
      <4>2. Cat(Cat(responses'[v], to_client'[v]), Posted(v))
              = Cat(Cat(responses[v], to_client[v]), Posted(v))
        BY ONLY <2>1, <4>1, MoveOn
      <4>3. QED
        BY ONLY <4>2 DEF Cat
    <3>4. QED
      BY <2>2, <3>1, <3>2, <3>3 DEF InTransit
  <2>5. QED
    BY <2>3, <2>4
<1>3. Mails' = Mails /\ Present' = Present
  BY <1>1, <1>2, MailSame DEF Running
<1>4. Clicks' = Clicks /\ Choice' = Choice
  BY <1>1, ChoiceSame DEF Clicks
<1>5. QED
  BY <1>1, <1>3, <1>4, PollUnseen

-----------------------------------------------------------------------------
\* Users and scripts.

\* What is sent without a VOTE is no click.
LEMMA NoVoteNoClick ==
  ASSUME Inv, NEW p \in Processes, NEW msgs \in Seq(VoterRequests),
         \A i \in DOMAIN msgs : msgs[i][1] # "VOTE", Send(p, msgs)
  PROVE  Clicks' = Clicks
<1>1. /\ to_server'[p] = to_server[p] \o msgs /\ to_server[p] \in Seq(Requests)
      /\ \A q \in Processes \ {p} : to_server'[q] = to_server[q]
  BY SendType DEF Inv, ClientTypes
<1>2. msgs \in Seq(Requests)
  <2>1. VoterRequests \subseteq Requests
    BY DEF Requests
  <2>2. QED
    BY <2>1, SeqMonotonic
<1>3. Casts(to_server[p] \o msgs) = Casts(to_server[p]) \o Casts(msgs)
      /\ Casts(to_server[p]) \in Seq(Marks)
  BY <1>1, <1>2, CastsConcat
<1>4. Casts(msgs) = <<>>
  BY <1>2, CastsNone
<1>5. Casts(to_server[p]) \o <<>> = Casts(to_server[p])
  BY <1>3, ConcatEmptySeq
<1>6. Casts(to_server'[p]) = Casts(to_server[p])
  BY <1>1, <1>3, <1>4, <1>5
<1>7. ASSUME NEW v \in Voters PROVE Casts(to_server'[v]) = Casts(to_server[v])
  <2>1. v \in Processes
    BY ProcessFacts
  <2>2. QED
    BY <1>1, <1>6, <2>1
<1>8. \A v \in Voters : Casts(to_server[v])' = Casts(to_server'[v])
  BY DEF Casts
<1>9. QED
  BY <1>7, <1>8 DEF Clicks

\* Nothing is on its way to somebody the server has not added, or has shown him.
LEMMA NobodyYet ==
  ASSUME Inv, NEW v \in Voters, v \notin connected
  PROVE  InTransit(v) = <<>> /\ Results(InTransit(v)) = <<>> /\ printed[v] = <<>>
<1>1. responses[v] = <<>> /\ to_client[v] = <<>> /\ printed[v] = <<>>
  BY ProcessFacts DEF Inv, Presence
<1>2. To(outbox, v) = <<>>
  <2>1. outbox \in Seq(connected \X Answer) /\ \A e \in connected \X Answer : e[1] # v
    BY DEF Inv, ServerTypes
  <2>2. QED
    BY <2>1, ToNone
<1>3. InTransit(v) = <<>>
  BY <1>1, <1>2 DEF InTransit, Posted, To
<1>4. QED
  BY <1>1, <1>3, ResultsEmpty

LEMMA LaunchPoll ==
  ASSUME Inv, NEW v \in Voters, Launch(v), UNCHANGED <<election, outbox>>
  PROVE  PollStep
<1>1. /\ process[v] = "idle" /\ process' = [process EXCEPT ![v] = "running"]
      /\ UNCHANGED <<to_server, to_client, responses, printed, m_clients, started, outbox>>
  BY DEF Launch, OpenWindow, Start, channels, gui, election
<1>2. v \in Processes /\ process \in [Processes -> {"idle", "running", "exited"}]
  BY ProcessFacts DEF Inv, ClientTypes
<1>3. ~Running(v) /\ Running(v)' /\ \A u \in Voters \ {v} : Running(u)' = Running(u)
  BY <1>1, <1>2, ProcessFacts DEF Running
<1>4. InTransit(v) = <<>> /\ v \notin connected
  <2>1. v \notin connected
    BY <1>1, <1>2 DEF Inv, Presence
  <2>2. QED
    BY <2>1, NobodyYet
<1>5. \A u \in Voters : InTransit(u)' = InTransit(u)
  BY <1>1 DEF InTransit, Posted
<1>6. \A u \in Voters : Mail(u)' = Mail(u)
  <2>1. Mail(v)' = Mail(v)
    BY <1>3, <1>4, <1>5, ResultsEmpty DEF Mail
  <2>2. \A u \in Voters \ {v} : Mail(u)' = Mail(u)
    BY <1>3, <1>5 DEF Mail
  <2>3. QED
    BY <2>1, <2>2
<1>7. Mails' = Mails
  BY <1>6 DEF Mails
<1>8. Present' = Present
  <2>1. connected' = connected
    BY DEF election
  <2>2. QED
    BY <1>3, <1>4, <2>1 DEF Present
<1>9. Clicks' = Clicks /\ Choice' = Choice
  BY <1>1, ChoiceSame DEF Clicks
<1>10. QED
  BY <1>1, <1>7, <1>8, <1>9, PollUnseen

\* Scripts are not voters.
LEMMA ScriptPoll ==
  ASSUME Inv, NEW k \in 1..Scripts,
         \A v \in Voters : process'[v] = process[v] /\ to_client'[v] = to_client[v]
                           /\ to_server'[v] = to_server[v],
         UNCHANGED <<responses, printed, election, outbox>>
  PROVE  PollStep
<1>1. \A v \in Voters : Running(v)' = Running(v) /\ InTransit(v)' = InTransit(v)
  BY DEF Running, InTransit, Posted
<1>2. Mails' = Mails /\ Present' = Present
  BY <1>1, MailSame DEF election
<1>3. Clicks' = Clicks /\ Choice' = Choice
  BY ChoiceSame DEF Clicks, election
<1>4. QED
  BY <1>2, <1>3, PollUnseen DEF election

LEMMA OperatePoll ==
  ASSUME Inv, NEW k \in 1..Scripts, UNCHANGED <<election, outbox>>,
         Operate(k) \/ SendCommand(k) \/ EndScript(k) \/ BreakScript(k)
  PROVE  PollStep
<1>1. UNCHANGED <<responses, printed>>
  BY DEF Operate, RunScript, SendCommand, EndScript, BreakScript, gui
<1>2. ASSUME NEW v \in Voters
      PROVE  process'[v] = process[v] /\ to_client'[v] = to_client[v]
             /\ to_server'[v] = to_server[v]
  <2>1. v \in Processes /\ v # k
    BY ProcessFacts
  <2>2. QED
    BY <2>1 DEF Inv, ClientTypes, Operate, RunScript, Start, channels, SendCommand, Send,
                EndScript, BreakScript, Exit
<1>3. QED
  BY <1>1, <1>2, ScriptPoll

LEMMA LoginClickPoll ==
  ASSUME Inv, NEW v \in Voters, verifier_login(v), UNCHANGED <<election, outbox>>
  PROVE  PollStep
<1> DEFINE msgs == << <<"LOGIN">> >>
<1>1. /\ Send(v, msgs)
      /\ UNCHANGED <<process, to_client, responses, printed, connected, m_clients, started,
                     outbox>>
  BY DEF verifier_login, election
<1>2. msgs \in Seq(VoterRequests) /\ \A i \in DOMAIN msgs : msgs[i][1] # "VOTE"
  BY DEF VoterRequests
<1>3. Clicks' = Clicks
  <2> HIDE DEF msgs
  <2>1. QED
    BY <1>1, <1>2, NoVoteNoClick, ProcessFacts
<1>4. Mails' = Mails /\ Present' = Present
  BY <1>1, MailSame DEF Running, InTransit, Posted
<1>5. Choice' = Choice
  BY <1>1, ChoiceSame
<1>6. QED
  BY <1>1, <1>3, <1>4, <1>5, PollUnseen

\* A ballot names one candidate, or none; i is marked on it when Slate[i] is named.
LEMMA MarkedFacts ==
  ASSUME NEW b \in Papers
  PROVE  /\ Marked(b) \in P!Choices /\ DOMAIN b = DOMAIN Slate
         /\ \A i \in DOMAIN Slate : Slate[i] \in Marked(b) <=> b[i] = 1
<1>1. PICK label \in Labels : b = Ballot(Slate, label)
  BY DEF Papers
<1>2. /\ DOMAIN b = DOMAIN Slate
      /\ \A i \in DOMAIN Slate : b[i] = 1 <=> Slate[i] = label
  BY <1>1 DEF Ballot
<1>3. \A n : n \in Marked(b) <=> n = label /\ \E i \in DOMAIN Slate : Slate[i] = label
  BY <1>2 DEF Marked
<1>4. Marked(b) \in P!Choices
  <2>1. CASE \E i \in DOMAIN Slate : Slate[i] = label
    <3>1. Marked(b) = {label} /\ label \in P!Names
      BY <1>3, <2>1 DEF P!Names
    <3>2. QED
      BY <3>1 DEF P!Choices
  <2>2. CASE ~ \E i \in DOMAIN Slate : Slate[i] = label
    <3>1. Marked(b) = {}
      BY <1>3, <2>2
    <3>2. QED
      BY <3>1 DEF P!Choices
  <2>3. QED
    BY <2>1, <2>2
<1>5. QED
  BY <1>2, <1>3, <1>4

LEMMA ActionPoll ==
  ASSUME Inv, NEW v \in Voters, action(v), UNCHANGED <<election, outbox>>
  PROVE  PollStep
<1> DEFINE zkps == [i \in DOMAIN candidats[v] |-> <<"SEND_ZKP", i>>]
<1>1. PICK label \in buttons[v] : vote(v, label)
  BY DEF action
<1> DEFINE paper == Ballot(Slate, label)
           ballot == <<"VOTE", paper>>
<1>2. VoterOf(v) /\ v \in Processes
  BY ProcessFacts DEF Inv, VoterInv, VoterOf
<1>3. candidats[v] = Slate /\ Running(v)
  BY <1>1, <1>2 DEF VoterOf, WindowOf
<1>4. /\ Send(v, zkps \o <<ballot>>)
      /\ UNCHANGED <<process, to_client, responses, printed, connected, m_clients, started,
                     outbox>>
  BY <1>1, <1>3 DEF action, vote, election
<1>5. /\ zkps \in Seq(Requests) /\ ballot \in Requests /\ paper \in Papers
      /\ \A i \in DOMAIN zkps : zkps[i][1] # "VOTE"
  <2>1. DOMAIN zkps = 1..Len(Slate) /\ Len(Slate) \in Nat
    BY <1>3, SlateFacts
  <2>2. \A i \in DOMAIN zkps : zkps[i] \in Requests /\ zkps[i][1] # "VOTE"
    BY <1>3 DEF Requests, VoterRequests
  <2>3. paper \in Papers
    BY <1>1 DEF Papers, Inv, ClientTypes
  <2>4. ballot \in Requests
    BY <2>3 DEF Requests, VoterRequests
  <2>5. zkps \in [1..Len(Slate) -> Requests]
    BY <2>1, <2>2
  <2>6. QED
    BY <2>1, <2>2, <2>3, <2>4, <2>5, SeqDef
<1>6. ballot[1] = "VOTE" /\ ballot[2] = paper
  OBVIOUS
<1> HIDE DEF zkps, ballot, paper
<1>7. Marked(paper) \in P!Choices
  BY <1>5, MarkedFacts
<1>8. /\ to_server[v] \in Seq(Requests) /\ zkps \o <<ballot>> \in Seq(Requests)
      /\ to_server' = [to_server EXCEPT ![v] = @ \o (zkps \o <<ballot>>)]
  BY <1>2, <1>4, <1>5 DEF Inv, ClientTypes, Send
<1>9. Casts(zkps \o <<ballot>>) = <<Marked(paper)>>
  <2>1. Casts(zkps) = <<>> /\ Casts(<<ballot>>) = <<Marked(paper)>>
    BY <1>5, <1>6, CastsNone, CastsOne
  <2>2. <<ballot>> \in Seq(Requests)
    BY <1>5
  <2>3. Casts(zkps \o <<ballot>>) = Casts(zkps) \o Casts(<<ballot>>)
    BY <1>5, <2>2, CastsConcat
  <2>4. QED
    BY <2>1, <2>3
<1>10. Casts(to_server[v] \o (zkps \o <<ballot>>)) = Append(Casts(to_server[v]), Marked(paper))
  <2>1. /\ Casts(to_server[v] \o (zkps \o <<ballot>>))
             = Casts(to_server[v]) \o Casts(zkps \o <<ballot>>)
        /\ Casts(to_server[v]) \in Seq(Marks)
    BY <1>8, CastsConcat
  <2>2. Marked(paper) \in Marks
    BY <1>5 DEF Marks
  <2>3. QED
    BY <1>9, <2>1, <2>2, AppendIsConcat
<1>11. Clicks' = [Clicks EXCEPT ![v] = Append(@, Marked(paper))]
  <2>1. /\ to_server'[v] = to_server[v] \o (zkps \o <<ballot>>)
        /\ \A u \in Voters \ {v} : to_server'[u] = to_server[u]
    BY <1>2, <1>8, ProcessFacts DEF Inv, ClientTypes
  <2>2. /\ Casts(to_server'[v]) = Append(Casts(to_server[v]), Marked(paper))
        /\ \A u \in Voters \ {v} : Casts(to_server'[u]) = Casts(to_server[u])
    BY <1>10, <2>1
  <2>3. Clicks' = [u \in Voters |-> Casts(to_server'[u])]
    BY DEF Clicks, Casts
  <2>4. QED
    BY <2>2, <2>3 DEF Clicks
<1>12. v \in Present
  <2>1. Past(v)
    BY <1>3 DEF action, Past
  <2>2. v \in connected
    BY <1>2, <2>1 DEF VoterOf, KeysFirst, Auth
  <2>3. QED
    BY <1>3, <2>2 DEF Present
<1>13. Mails' = Mails /\ Present' = Present /\ Choice' = Choice
  BY <1>4, MailSame, ChoiceSame DEF Running, InTransit, Posted
<1>14. QED
  BY <1>4, <1>7, <1>11, <1>12, <1>13, PollClick

\* A window that closes may have answered keys first.
LEMMA ExitPoll ==
  ASSUME Inv, NEW v \in Voters, Running(v), Exit(v), Forget(v),
         UNCHANGED <<election, outbox>>, Clicks' = Clicks
  PROVE  PollStep
<1>1. /\ v \in Processes /\ process' = [process EXCEPT ![v] = "exited"]
      /\ to_client' = [to_client EXCEPT ![v] = <<>>]
      /\ responses' = [responses EXCEPT ![v] = <<>>]
      /\ printed' = [printed EXCEPT ![v] = <<>>]
      /\ UNCHANGED <<m_clients, started, outbox>>
  BY ProcessFacts DEF Exit, Forget, election
<1>2. ~Running(v)' /\ \A u \in Voters \ {v} :
        Running(u)' = Running(u) /\ InTransit(u)' = InTransit(u)
  BY <1>1, ProcessFacts DEF Inv, ClientTypes, Running, InTransit, Posted
<1>3. Mail(v)' = <<>> /\ \A u \in Voters \ {v} : Mail(u)' = Mail(u)
  BY <1>2 DEF Mail
<1>4. Mails' = [Mails EXCEPT ![v] = <<>>]
  BY <1>3 DEF Mails
<1>5. Present' = Present \ {v}
  BY <1>2 DEF Present, election
<1>6. CASE v \in Present
  BY <1>1, <1>4, <1>5, <1>6, ChoiceSame, PollLeave
<1>7. CASE v \notin Present
  <2>1. v \notin connected
    BY <1>7 DEF Present
  <2>2. printed[v] = <<>> /\ Mail(v) = <<>>
    BY <2>1, NobodyYet DEF Mail
  <2>3. printed' = printed /\ Mails' = Mails
    BY <1>1, <1>4, <2>2 DEF Mails, Inv, ClientTypes
  <2>4. QED
    BY <1>1, <1>5, <1>7, <2>3, ChoiceSame, PollUnseen
<1>8. QED
  BY <1>6, <1>7

LEMMA CloseWindowPoll ==
  ASSUME Inv, NEW v \in Voters, CloseWindow(v), UNCHANGED <<election, outbox>>
  PROVE  PollStep
<1>1. Running(v) /\ Exit(v) /\ Forget(v) /\ UNCHANGED to_server
  BY DEF CloseWindow
<1>2. Clicks' = Clicks
  BY <1>1 DEF Clicks
<1>3. QED
  BY <1>1, <1>2, ExitPoll

LEMMA LoginRefusedPoll ==
  ASSUME Inv, NEW v \in Voters, Running(v), LoginRefused(v), UNCHANGED <<election, outbox>>
  PROVE  PollStep
<1>1. Exit(v) /\ Forget(v) /\ Send(v, Replies(v)) /\ v \in Processes
  BY ProcessFacts DEF LoginRefused
<1>2. Clicks' = Clicks
  BY <1>1, ReadFacts, NoVoteNoClick
<1>3. QED
  BY <1>1, <1>2, ExitPoll

\* read() shows the results at the front of the line, if there are any.
LEMMA ReadPoll ==
  ASSUME Inv, NEW v \in Voters, Running(v),
         NEW msgs \in Seq(VoterRequests), \A i \in DOMAIN msgs : msgs[i][1] # "VOTE",
         NEW for, read(v, msgs, for), UNCHANGED <<process, to_client>>,
         UNCHANGED <<election, outbox>>
  PROVE  PollStep
<1> DEFINE seen == Results(Taken(v))
           rest == Results(InTransit(v))'
<1>1. /\ v \in Processes /\ responses' = [responses EXCEPT ![v] = Left(v)]
      /\ printed' = [printed EXCEPT ![v] = @ \o seen] /\ Send(v, Replies(v) \o msgs)
      /\ UNCHANGED <<process, to_client, connected, m_clients, started, outbox>>
  BY ProcessFacts DEF read, election
<1>2. /\ Taken(v) \in Seq(Answer) /\ Left(v) \in Seq(Answer)
      /\ responses[v] = Taken(v) \o Left(v) /\ seen \in Seq(Enclosed)
  BY TakenFacts
<1>3. /\ to_client[v] \in Seq(Answer) /\ Posted(v) \in Seq(Answer)
      /\ printed[v] \in Seq(Enclosed) /\ DOMAIN printed = Voters
  BY LineFacts
<1>4. /\ InTransit(v)' = Left(v) \o to_client[v] \o Posted(v)
      /\ \A u \in Voters \ {v} : InTransit(u)' = InTransit(u)
  BY <1>1 DEF Inv, ClientTypes, InTransit, Posted
<1>5. InTransit(v)' \in Seq(Answer) /\ InTransit(v) = Taken(v) \o InTransit(v)'
  <2>1. Left(v) \o to_client[v] \o Posted(v) \in Seq(Answer)
    BY <1>2, <1>3
  <2>2. (Taken(v) \o Left(v)) \o to_client[v] \o Posted(v)
          = Taken(v) \o (Left(v) \o to_client[v] \o Posted(v))
    <3>1. \A a, b, c, d \in Seq(Answer) :
            Cat(Cat(Cat(a, b), c), d) = Cat(a, Cat(Cat(b, c), d))
      BY CatFacts
    <3>2. Cat(Cat(Cat(Taken(v), Left(v)), to_client[v]), Posted(v))
            = Cat(Taken(v), Cat(Cat(Left(v), to_client[v]), Posted(v)))
      BY ONLY <1>2, <1>3, <3>1
    <3>3. QED
      BY ONLY <3>2 DEF Cat
  <2>3. QED
    BY <1>2, <1>4, <2>1, <2>2 DEF InTransit
<1>6. /\ Results(InTransit(v)) = seen \o rest
      /\ rest \in Seq(Enclosed)
  <2>1. PICK line \in Seq(Answer) : line = InTransit(v)'
    BY <1>5
  <2>2. rest = Results(line)
    BY <2>1 DEF Results
  <2>3. QED
    BY <1>2, <1>5, <2>1, <2>2, ResultsConcat, ResultsType
<1>7. /\ Mail(v) = seen \o rest /\ Mail(v)' = rest
      /\ \A u \in Voters \ {v} : Mail(u)' = Mail(u)
  BY <1>1, <1>4, <1>6 DEF Mail, Running
<1>8. Present' = Present /\ Choice' = Choice
  BY <1>1, ChoiceSame DEF Present, Running
<1>9. Clicks' = Clicks
  <2>1. Replies(v) \in Seq(VoterRequests) /\ \A i \in DOMAIN Replies(v) : Replies(v)[i][1] # "VOTE"
    BY ReadFacts
  <2>2. /\ Replies(v) \o msgs \in Seq(VoterRequests)
        /\ \A i \in DOMAIN (Replies(v) \o msgs) : (Replies(v) \o msgs)[i][1] # "VOTE"
    BY <2>1
  <2>3. QED
    BY <1>1, <2>2, NoVoteNoClick
<1> HIDE DEF seen, rest
<1>10. CASE seen = <<>>
  <2>1. seen \o rest = rest /\ printed[v] \o seen = printed[v]
    BY <1>3, <1>6, <1>10, ConcatEmptySeq
  <2>2. printed' = printed
    BY <1>1, <1>3, <2>1 DEF Inv, ClientTypes
  <2>3. Mails' = Mails
    BY <1>7, <2>1 DEF Mails
  <2>4. QED
    BY <1>1, <1>8, <1>9, <2>2, <2>3, PollUnseen
<1>11. CASE seen # <<>>
  <2> DEFINE n == Len(seen)
  <2>1. /\ n \in 1..Len(Mail(v)) /\ SubSeq(Mail(v), 1, n) = seen
        /\ SubSeq(Mail(v), n + 1, Len(Mail(v))) = rest
    <3>1. n \in Nat \ {0}
      BY <1>2, <1>11
    <3>2. QED
      BY <1>2, <1>6, <1>7, <3>1, WholeIsCut
  <2>2. Mails[v] = Mail(v)
    BY DEF Mails
  <2>3. printed' = [printed EXCEPT ![v] = @ \o SubSeq(Mails[v], 1, n)]
    BY <1>1, <2>1, <2>2
  <2>4. Mails' = [Mails EXCEPT ![v] = SubSeq(@, n + 1, Len(@))]
    BY <1>7, <2>1 DEF Mails
  <2> HIDE DEF n
  <2>5. QED
    BY <1>1, <1>8, <1>9, <2>1, <2>2, <2>3, <2>4, PollShow
<1>12. QED
  BY <1>10, <1>11

LEMMA UpdatePoll ==
  ASSUME Inv, NEW v \in Voters, Update(v)
  PROVE  PollStep
<1>1. UNCHANGED <<election, outbox>>
  BY DEF Update
<1>2. CASE UpdateLogin(v)
  <2>1. Running(v)
    BY <1>2 DEF UpdateLogin
  <2>2. CASE LoginGoesOn(v)
    BY <1>1, <2>1, <2>2, NoRequest, ReadPoll DEF LoginGoesOn, readOnly
  <2>3. CASE LoginAccepted(v)
    <3> DEFINE msgs == << <<"GET_CANDIDATES">> >>
    <3>1. msgs \in Seq(VoterRequests) /\ \A i \in DOMAIN msgs : msgs[i][1] # "VOTE"
      <4>1. <<"GET_CANDIDATES">> \in VoterRequests
        BY DEF VoterRequests
      <4>2. QED
        BY <4>1
    <3>2. read(v, msgs, "GET_CANDIDATES") /\ UNCHANGED <<process, to_client>>
      BY <2>3 DEF LoginAccepted
    <3> HIDE DEF msgs
    <3>3. QED
      BY <1>1, <2>1, <3>1, <3>2, ReadPoll
  <2>4. CASE LoginRefused(v)
    BY <1>1, <2>1, <2>4, LoginRefusedPoll
  <2>5. QED
    BY <1>2, <2>2, <2>3, <2>4 DEF UpdateLogin
<1>3. CASE OpenMain(v)
  BY <1>1, <1>3, NoRequest, ReadPoll DEF OpenMain, readOnly
<1>4. CASE UpdateMain(v)
  BY <1>1, <1>4, NoRequest, ReadPoll DEF UpdateMain, readOnly
<1>5. QED
  BY <1>2, <1>3, <1>4 DEF Update, Timer

-----------------------------------------------------------------------------
\* Hooks add to the end of the line, which has nothing of theirs before.

LEMMA NewMail ==
  ASSUME Inv, NEW v \in Voters, outbox = <<>>, outbox' \in Seq(Entries),
         UNCHANGED <<process, to_client, responses>>
  PROVE  /\ Running(v)' = Running(v) /\ Mail(v) \in Seq(Enclosed)
         /\ Mail(v)' = IF Running(v) THEN Mail(v) \o Results(To(outbox', v)) ELSE <<>>
<1> DEFINE line == responses[v] \o to_client[v]
<1>1. /\ responses[v] \in Seq(Answer) /\ to_client[v] \in Seq(Answer)
      /\ InTransit(v) \in Seq(Answer)
  BY LineFacts
<1>2. line \in Seq(Answer) /\ To(outbox', v) \in Seq(Answer)
  <2>1. line \in Seq(Answer)
    BY ONLY <1>1, ConcatProperties
  <2>2. To(outbox', v) \in Seq(Answer)
    BY ToType
  <2>3. QED
    BY <2>1, <2>2
<1>3. InTransit(v)' = line \o To(outbox', v)
  BY DEF InTransit, Posted, To
<1>4. InTransit(v) = line
  <2>1. InTransit(v) = line \o To(outbox, v)
    BY DEF InTransit, Posted, To
  <2>2. To(outbox, v) = <<>>
    BY OnlyEmpty, ColumnEmpty DEF To
  <2> HIDE DEF line
  <2>3. QED
    BY <1>2, <2>1, <2>2, ConcatEmptySeq
<1> HIDE DEF line
<1>5. Running(v)' = Running(v)
  BY DEF Running
<1>6. Results(InTransit(v))' = Results(line) \o Results(To(outbox', v))
  <2>1. Results(InTransit(v))' = Results(line \o To(outbox', v))
    BY <1>3 DEF Results
  <2>2. QED
    BY <1>2, <2>1, ResultsConcat
<1>7. Results(line) \in Seq(Enclosed) /\ <<>> \in Seq(Enclosed)
  BY <1>2, ResultsType
<1>8. QED
  BY <1>4, <1>5, <1>6, <1>7 DEF Mail

LEMMA OrdinaryMail ==
  ASSUME Inv, outbox = <<>>, outbox' \in Seq(Processes \X Ordinary),
         UNCHANGED <<process, to_client, responses>>
  PROVE  Mails' = Mails /\ (connected' = connected => Present' = Present)
<1>1. outbox' \in Seq(Entries)
  <2>1. Processes \X Ordinary \subseteq Entries
    BY DEF Entries, Ordinary
  <2>2. QED
    BY <2>1, SeqMonotonic
<1>2. ASSUME NEW v \in Voters PROVE Mail(v)' = Mail(v)
  <2>1. Results(To(outbox', v)) = <<>>
    BY ToOrdinary
  <2>2. Mail(v) \in Seq(Enclosed)
        /\ Mail(v)' = IF Running(v) THEN Mail(v) \o <<>> ELSE <<>>
    BY <1>1, <2>1, NewMail
  <2>3. Mail(v) \o <<>> = Mail(v)
    BY <2>2, ConcatEmptySeq
  <2>4. QED
    BY <2>2, <2>3 DEF Mail
<1>3. QED
  BY <1>2 DEF Mails, Present, Running

\* What a hook says in answer to one client is no result.
Plain == {m \in E!Message : m[1] # "SEND_VOTE_RESULT"}

LEMMA PlainPosts ==
  ASSUME NEW p \in Processes, NEW msgs \in Seq(Plain), E!Reply(p, msgs), Post,
         outbox' \in Seq(connected' \X Answer)
  PROVE  outbox' \in Seq(Processes \X Ordinary)
<1> DEFINE T == {e \in Processes \X {Filled(m) : m \in Plain} : TRUE}
<1>1. msgs \in Seq(E!Message) /\ \A k \in DOMAIN msgs : msgs[k] \in Plain
  <2>1. Plain \subseteq E!Message
    BY DEF Plain
  <2>2. QED
    BY <2>1, SeqMonotonic
<1>2. \A k \in DOMAIN msgs : <<p, Filled(msgs[k])>> \in T
  BY <1>1
<1>3. \A e \in T : e[2][1] # "SEND_VOTE_RESULT"
  BY DEF Plain, Filled
<1> HIDE DEF T
<1>4. outbox' \in Seq(T)
  BY <1>1, <1>2, ReplyPosts
<1>5. Len(outbox') \in Nat /\ DOMAIN outbox' = 1..Len(outbox')
  BY <1>4
<1>6. ASSUME NEW i \in 1..Len(outbox') PROVE outbox'[i] \in Processes \X Ordinary
  <2>1. outbox'[i] \in T /\ outbox'[i] \in connected' \X Answer
    BY <1>4, <1>6
  <2>2. outbox'[i] \in Processes \X Answer
    BY <1>2, <2>1 DEF T
  <2>3. QED
    BY <1>3, <2>1, <2>2 DEF Ordinary
<1>7. outbox' \in [1..Len(outbox') -> Processes \X Ordinary]
  BY <1>4, <1>5, <1>6
<1>8. QED
  BY <1>5, <1>7, SeqDef

LEMMA PlainMessage ==
  ASSUME NEW h \in E!Heads, NEW c \in E!Commands, NEW d \in E!Codes,
         h # "SEND_VOTE_RESULT"
  PROVE  <<h, c, d>> \in Plain /\ << <<h, c, d>> >> \in Seq(Plain)
BY DEF Plain, E!Message

\* Every command but VOTE_END answers the client it comes from, or nobody.
LEMMA Answered ==
  ASSUME NEW p \in Processes, NEW msg, Handle(p, msg), msg[1] # "VOTE_END"
  PROVE  /\ \E msgs \in Seq(Plain) : E!Reply(p, msgs)
         /\ msg[1] # "VOTE_BEGIN" => started' = started
<1>1. \A h \in {"RETURN", "ERROR"}, c \in E!Commands, d \in E!Codes :
        E!Refuse(p, h, c, d) =>
          (\E msgs \in Seq(Plain) : E!Reply(p, msgs)) /\ started' = started
  <2>1. TAKE h \in {"RETURN", "ERROR"}, c \in E!Commands, d \in E!Codes
  <2>2. h \in E!Heads /\ h # "SEND_VOTE_RESULT"
    BY WordFacts
  <2>3. << <<h, c, d>> >> \in Seq(Plain)
    BY <2>2, PlainMessage
  <2>4. E!Refuse(p, h, c, d) => E!Reply(p, << <<h, c, d>> >>) /\ started' = started
    BY DEF E!Refuse
  <2>5. QED
    BY <2>3, <2>4
<1>2. E!Silent => \E msgs \in Seq(Plain) : E!Reply(p, msgs)
  <2>1. <<>> \in Seq(Plain)
    OBVIOUS
  <2>2. E!Silent => E!Reply(p, <<>>)
    BY DEF E!Silent, E!Reply
  <2>3. QED
    BY <2>1, <2>2
<1>3. \A c : E!UpdateClient(p, c) => started' = started
  BY DEF E!UpdateClient
<1>4. CASE msg[1] = "SEND_KEY" /\ E!client_send_key(p, "valid")
  BY <1>1, <1>3, <1>4, WordFacts, PlainMessage DEF E!client_send_key
<1>5. CASE msg[1] = "SEND_KEY_PROOF" /\ E!client_send_key_proof(p, "right")
  BY <1>1, <1>3, <1>5, WordFacts, PlainMessage DEF E!client_send_key_proof
<1>6. CASE msg[1] = "LOGIN" /\ E!client_login(p)
  BY <1>1, <1>3, <1>6, WordFacts, PlainMessage DEF E!client_login
<1>7. CASE msg[1] = "GET_CANDIDATES" /\ E!client_get_candidates(p)
  BY <1>1, <1>7, WordFacts DEF E!client_get_candidates
<1>8. CASE msg[1] = "SEND_ZKP" /\ E!client_send_zkp(p, msg[2], "none")
  BY <1>1, <1>3, <1>8, WordFacts, PlainMessage DEF E!client_send_zkp
<1>9. CASE msg[1] = "VOTE" /\ E!client_vote(p, msg[2])
  <2> DEFINE o1 == <<"RETURN", "VOTE", "O1">>
             e4 == <<"RETURN", "VOTE", "E4">>
  <2>1. CASE E!Refuse(p, "RETURN", "VOTE", "E1")
    BY <1>1, <1>9, <2>1, WordFacts
  <2>2. CASE /\ started' = started
             /\ E!Reply(p, Append(IF Len(msg[2]) # Len(candidates)
                                    THEN <<e4>> ELSE <<>>, o1))
    <3>1. o1 \in Plain /\ e4 \in Plain
      BY WordFacts, PlainMessage
    <3> HIDE DEF o1, e4
    <3>2. Append(<<e4>>, o1) \in Seq(Plain) /\ Append(<<>>, o1) \in Seq(Plain)
      BY <3>1
    <3>3. QED
      BY <1>9, <2>2, <3>2
  <2>3. QED
    BY <1>3, <1>9, <2>1, <2>2 DEF E!client_vote
<1>10. CASE msg[1] = "VOTE_BEGIN" /\ E!vote_begin(p, msg[2])
  BY <1>1, <1>2, <1>10, WordFacts DEF E!vote_begin
<1>11. CASE msg[1] = "SEND_KEY_PAILLIER" /\ E!client_send_pallier_key(p, "valid")
  BY <1>1, <1>2, <1>11, WordFacts DEF E!client_send_pallier_key
<1>12. QED
  BY <1>4, <1>5, <1>6, <1>7, <1>8, <1>9, <1>10, <1>11 DEF Handle

\* Ballots on file are of voters, and papers.
LEMMA BallotsOnFile ==
  ASSUME Inv
  PROVE  /\ DOMAIN m_clients = connected /\ connected \subseteq Processes
         /\ \A x \in connected : m_clients[x].voted =>
              x \in Voters /\ m_clients[x].vote \in Papers
         /\ DOMAIN Choice = {x \in connected : m_clients[x].voted}
         /\ \A x \in DOMAIN Choice : Choice[x] = Marked(m_clients[x].vote)
<1>1. DOMAIN m_clients = connected /\ connected \subseteq Processes
  BY DEF Inv, ServerTypes
<1>2. ASSUME NEW x \in connected, m_clients[x].voted
      PROVE  x \in Voters /\ m_clients[x].vote \in Papers
  <2>1. x \in Voters
    BY <1>1, <1>2, ProcessFacts DEF Inv, ScriptInv, ScriptOf
  <2>2. QED
    BY <1>2, <2>1 DEF Inv, VoterInv, VoterOf, BallotOf
<1>3. QED
  BY <1>1, <1>2 DEF Choice

\* The same ballots on file are the same choices.
LEMMA SameBallots ==
  ASSUME Inv, NEW S, DOMAIN m_clients' = S,
         \A x \in connected : m_clients[x].voted => x \in S,
         \A x \in S : m_clients'[x].voted =>
           x \in connected /\ m_clients[x].voted /\ m_clients'[x].vote = m_clients[x].vote,
         \A x \in connected : m_clients[x].voted => m_clients'[x].voted
  PROVE  Choice' = Choice
<1>1. Choice' = [v \in {x \in S : m_clients'[x].voted} |-> Marked(m_clients'[v].vote)]
  BY DEF Choice, Marked
<1>2. {x \in S : m_clients'[x].voted} = {x \in DOMAIN m_clients : m_clients[x].voted}
  BY BallotsOnFile
<1>3. \A v \in {x \in S : m_clients'[x].voted} : m_clients'[v].vote = m_clients[v].vote
  OBVIOUS
<1>4. QED
  BY <1>1, <1>2, <1>3 DEF Choice

LEMMA AcceptPoll ==
  ASSUME Inv, NEW p \in Processes, Accept(p)
  PROVE  PollStep
<1> DEFINE record == [E!NewClient EXCEPT !.is_admin = TRUE]
           greeting == <<"SEND_KEY", "", "">>
<1>1. /\ outbox = <<>> /\ p \notin connected
      /\ connected' = connected \cup {p}
      /\ m_clients' = [x \in connected \cup {p} |-> IF x = p THEN record ELSE m_clients[x]]
      /\ E!Reply(p, <<greeting>>) /\ Post
      /\ UNCHANGED <<started, client_vars>>
  BY DEF Accept, Free, E!OnConnect, Inv, ServerTypes
<1>2. UNCHANGED <<process, to_server, to_client, responses, printed>>
  BY <1>1 DEF client_vars, channels, gui
<1>3. ~record.voted
  BY DEF E!NewClient
<1> HIDE DEF record
<1>4. <<greeting>> \in Seq(Plain)
  BY WordFacts, PlainMessage
<1> HIDE DEF greeting
<1>5. outbox' \in Seq(Processes \X Ordinary)
  <2>1. Inv'
    BY AcceptInv
  <2>2. outbox' \in Seq(connected' \X Answer)
    BY <2>1 DEF Inv, ServerTypes
  <2>3. QED
    BY <1>1, <1>4, <2>2, BallotsOnFile, PlainPosts
<1>6. Mails' = Mails
  BY <1>1, <1>2, <1>5, OrdinaryMail
<1>7. Choice' = Choice
  <2>1. DOMAIN m_clients' = connected \cup {p}
    BY <1>1
  <2>2. \A x \in connected \cup {p} : m_clients'[x] = IF x = p THEN record ELSE m_clients[x]
    BY <1>1
  <2>3. QED
    BY <1>1, <1>3, <2>1, <2>2, SameBallots
<1>8. Clicks' = Clicks
  BY <1>2 DEF Clicks
<1>9. CASE p \in Voters /\ Running(p)
  <2>1. p \notin Present /\ Present' = Present \cup {p}
    BY <1>1, <1>2, <1>9 DEF Present, Running
  <2>2. QED
    BY <1>1, <1>2, <1>6, <1>7, <1>8, <1>9, <2>1, PollArrive
<1>10. CASE ~(p \in Voters /\ Running(p))
  <2>1. Present' = Present
    BY <1>1, <1>2, <1>10 DEF Present, Running
  <2>2. QED
    BY <1>1, <1>2, <1>6, <1>7, <1>8, <2>1, PollUnseen
<1>11. QED
  BY <1>9, <1>10

LEMMA DisconnectPoll ==
  ASSUME Inv, NEW p \in Processes, Disconnect(p)
  PROVE  PollStep
<1>1. /\ p \in connected /\ to_server[p] = <<>> /\ process[p] = "exited"
      /\ m_clients' = [x \in connected \ {p} |-> m_clients[x]]
      /\ connected' = connected \ {p}
      /\ UNCHANGED <<started, client_vars, outbox>>
  BY DEF Disconnect, E!OnDisconnect, E!Erase, Inv, ServerTypes
<1>2. UNCHANGED <<process, to_server, to_client, responses, printed, started, outbox>>
  BY <1>1 DEF client_vars, channels, gui
<1>3. Mails' = Mails /\ Present' = Present
  BY <1>1, <1>2 DEF Mails, Mail, Present, Running, InTransit, Posted
<1>4. Clicks' = Clicks
  BY <1>2 DEF Clicks
<1>5. DOMAIN m_clients' = connected \ {p}
      /\ \A x \in connected \ {p} : m_clients'[x] = m_clients[x]
  BY <1>1
<1>6. CASE p \in Voters
  <2>1. p \notin Present
    BY <1>1 DEF Present, Running
  <2>2. Clicks[p] = <<>>
    <3>1. Casts(<<>>) = <<>>
      BY OnlyEmpty, ColumnEmpty DEF Casts
    <3>2. QED
      BY <1>1, <1>6, <3>1 DEF Clicks
  <2>3. Choice' = [x \in DOMAIN Choice \ {p} |-> Choice[x]]
    <3>1. Choice' = [v \in {x \in DOMAIN m_clients' : m_clients'[x].voted} |->
                       Marked(m_clients'[v].vote)]
      BY DEF Choice, Marked
    <3>2. {x \in DOMAIN m_clients' : m_clients'[x].voted} = DOMAIN Choice \ {p}
      BY <1>5, BallotsOnFile
    <3>3. \A x \in DOMAIN Choice \ {p} : Marked(m_clients'[x].vote) = Choice[x]
      BY <1>5, BallotsOnFile
    <3>4. QED
      BY <3>1, <3>2, <3>3
  <2>4. QED
    BY <1>2, <1>3, <1>4, <1>6, <2>1, <2>2, <2>3, PollRemove
<1>7. CASE p \notin Voters
  <2>1. ~m_clients[p].voted
    BY <1>1, <1>7, BallotsOnFile
  <2>2. Choice' = Choice
    BY <1>1, <1>5, <2>1, SameBallots
  <2>3. QED
    BY <1>2, <1>3, <1>4, <2>2, PollUnseen
<1>8. QED
  BY <1>6, <1>7

\* A request leaves the line to the server at its head.
LEMMA HeadLeaves ==
  ASSUME Inv, NEW v \in Voters, NEW p \in Processes, to_server[p] # <<>>,
         to_server' = [to_server EXCEPT ![p] = Tail(@)]
  PROVE  /\ v # p => Casts(to_server'[v]) = Casts(to_server[v])
         /\ v = p => Casts(to_server[v]) =
                       (IF Head(to_server[p])[1] = "VOTE"
                        THEN <<Marked(Head(to_server[p])[2])>> ELSE <<>>)
                       \o Casts(to_server'[v])
         /\ Casts(to_server'[v]) \in Seq(Marks)
<1> DEFINE s == to_server[p]
<1>1. /\ v \in Processes /\ s \in Seq(Requests)
      /\ to_server \in [Processes -> Seq(Requests)]
  BY ProcessFacts DEF Inv, ClientTypes
<1>2. to_server'[p] = Tail(s) /\ (v # p => to_server'[v] = to_server[v])
  BY <1>1
<1>3. Head(s) \in Requests /\ Tail(s) \in Seq(Requests) /\ s = <<Head(s)>> \o Tail(s)
  BY <1>1, HeadAndTail
<1> HIDE DEF s
<1>4. <<Head(s)>> \in Seq(Requests)
  BY <1>3
<1>5. /\ Casts(<<Head(s)>> \o Tail(s)) = Casts(<<Head(s)>>) \o Casts(Tail(s))
      /\ Casts(Tail(s)) \in Seq(Marks)
  BY <1>3, <1>4, CastsConcat
<1>6. Casts(<<Head(s)>>) = IF Head(s)[1] = "VOTE" THEN <<Marked(Head(s)[2])>> ELSE <<>>
  BY <1>3, CastsOne
<1>7. Casts(s) = (IF Head(s)[1] = "VOTE" THEN <<Marked(Head(s)[2])>> ELSE <<>>)
                 \o Casts(Tail(s))
  BY <1>3, <1>5, <1>6
<1>8. v # p => Casts(to_server[v]) \in Seq(Marks)
  <2>1. to_server[v] \in Seq(Requests) /\ <<>> \in Seq(Requests)
    BY <1>1
  <2>2. QED
    BY <2>1, CastsConcat
<1>9. QED
  BY <1>2, <1>5, <1>7, <1>8 DEF s

\* Every request but a VOTE leaves the clicks and the box as they are.
LEMMA QuietRequest ==
  ASSUME Inv, NEW p \in connected, to_server[p] # <<>>,
         NEW msg, msg = Head(to_server[p]), msg[1] # "VOTE", Served(p, msg),
         to_server' = [to_server EXCEPT ![p] = Tail(@)]
  PROVE  Clicks' = Clicks /\ Choice' = Choice
<1>1. p \in Processes
  BY BallotsOnFile
<1>2. ASSUME NEW v \in Voters PROVE Casts(to_server'[v]) = Casts(to_server[v])
  <2>1. CASE v # p
    BY <1>1, <2>1, HeadLeaves
  <2>2. CASE v = p
    <3>1. /\ Casts(to_server[v]) = <<>> \o Casts(to_server'[v])
          /\ Casts(to_server'[v]) \in Seq(Marks)
      BY <1>1, <2>2, HeadLeaves
    <3>2. QED
      BY <3>1, ConcatEmptySeq
  <2>3. QED
    BY <2>1, <2>2
<1>3. Clicks' = Clicks
  <2>1. Clicks' = [v \in Voters |-> Casts(to_server'[v])]
    BY DEF Clicks, Casts
  <2>2. QED
    BY <1>2, <2>1 DEF Clicks
<1>4. \A x \in connected : m_clients'[x].voted = m_clients[x].voted
                           /\ m_clients'[x].vote = m_clients[x].vote
  BY DEF Served, SameRecord, Serves
<1>5. DOMAIN m_clients' = connected
  BY DEF Served
<1>6. Choice' = Choice
  BY <1>4, <1>5, SameBallots
<1>7. QED
  BY <1>3, <1>6

LEMMA VotePoll ==
  ASSUME Inv, NEW v \in Voters, v \in connected, to_server[v] # <<>>,
         NEW msg, msg = Head(to_server[v]), msg[1] = "VOTE", Served(v, msg),
         to_server' = [to_server EXCEPT ![v] = Tail(@)],
         Mails' = Mails, Present' = Present, UNCHANGED <<started, printed>>
  PROVE  PollStep
<1>1. v \in Processes /\ E!IsAuth(m_clients[v])
  BY VoterHead, ProcessFacts DEF Auth
<1> DEFINE rest == Casts(to_server'[v])
           c == Marked(msg[2])
<1>2. /\ Casts(to_server[v]) = <<c>> \o rest /\ rest \in Seq(Marks)
      /\ \A u \in Voters \ {v} : Casts(to_server'[u]) = Casts(to_server[u])
  BY <1>1, HeadLeaves
<1>3. c \in Marks
  BY VoterHead DEF Marks
<1>4. Clicks[v] = <<c>> \o rest
  BY <1>2 DEF Clicks
<1>5. Clicks' = [Clicks EXCEPT ![v] = rest]
  <2>1. Clicks' = [u \in Voters |-> Casts(to_server'[u])]
    BY DEF Clicks, Casts
  <2>2. \A u \in Voters : Casts(to_server'[u]) = IF u = v THEN rest ELSE Casts(to_server[u])
    BY <1>2
  <2> HIDE DEF rest
  <2>3. QED
    BY <2>1, <2>2 DEF Clicks
<1>6. Choice' = [x \in DOMAIN Choice \cup {v} |-> IF x = v THEN c ELSE Choice[x]]
  <2>1. Choice' = [u \in {x \in DOMAIN m_clients' : m_clients'[x].voted} |->
                     Marked(m_clients'[u].vote)]
    BY DEF Choice, Marked
  <2>2. /\ DOMAIN m_clients' = connected
        /\ m_clients'[v].voted /\ m_clients'[v].vote = msg[2]
        /\ \A x \in connected \ {v} : m_clients'[x].voted = m_clients[x].voted
                                     /\ m_clients'[x].vote = m_clients[x].vote
    BY <1>1 DEF Served, SameRecord, Serves
  <2>3. {x \in DOMAIN m_clients' : m_clients'[x].voted} = DOMAIN Choice \cup {v}
    BY <2>2, BallotsOnFile
  <2>4. \A x \in DOMAIN Choice \cup {v} :
          Marked(m_clients'[x].vote) = IF x = v THEN c ELSE Choice[x]
    BY <2>2, BallotsOnFile
  <2>5. QED
    BY <2>1, <2>3, <2>4
<1> HIDE DEF rest, c
<1>7. Head(<<c>> \o rest) = c /\ Tail(<<c>> \o rest) = rest /\ <<c>> \o rest # <<>>
  BY <1>2, <1>3
<1>8. QED
  BY <1>4, <1>5, <1>6, <1>7, PollDrop

-----------------------------------------------------------------------------
\* A broadcast tells everybody connected, and everybody once.

LEMMA BroadcastOrder ==
  ASSUME Inv, NEW m \in E!Message, E!Broadcast(m), Post
  PROVE  \E n \in Nat : \E order \in Bijection(1..n, connected) :
           outbox' = [i \in 1..n |-> <<order[i], Filled(m)>>]
<1> DEFINE Told == {q \in Processes : sent'[q] # <<>>}
<1>1. connected \subseteq Processes /\ sent' = [q \in Processes |->
                                                  IF q \in connected THEN <<m>> ELSE <<>>]
  BY BallotsOnFile DEF E!Broadcast
<1>2. Told = connected
  BY <1>1
<1>3. IsFiniteSet(connected)
  BY <1>1, ProcessFacts, FS_Subset
<1>4. PICK n \in Nat : n = Cardinality(connected)
  BY <1>3, FS_CardinalityType
<1>5. PICK order \in SetToSeqs(Told) :
        \/ /\ Len(order) = 1
           /\ outbox' = [k \in DOMAIN sent'[order[1]] |->
                          <<order[1], Filled(sent'[order[1]][k])>>]
        \/ /\ Len(order) # 1
           /\ outbox' = [i \in DOMAIN order |->
                          <<order[i], Filled(sent'[order[i]][1])>>]
  BY DEF Post
<1> HIDE DEF Told
<1>6. /\ order \in [1..n -> connected]
      /\ \A i, j \in 1..n : i # j => order[i] # order[j]
  BY <1>2, <1>4, <1>5 DEF SetToSeqs
<1>7. order \in Bijection(1..n, connected)
  <2>1. order \in Injection(1..n, connected)
    BY <1>6 DEF Injection, IsInjective
  <2>2. Cardinality(1..n) = n
    BY <1>4, FS_Interval
  <2>3. order \in Surjection(1..n, connected)
    BY <1>3, <1>4, <2>1, <2>2, FS_Injection
  <2>4. QED
    BY <2>1, <2>3 DEF Bijection
<1>8. DOMAIN order = 1..n /\ Len(order) = n /\ \A i \in 1..n : sent'[order[i]] = <<m>>
  BY <1>1, <1>6
<1>9. outbox' = [i \in 1..n |-> <<order[i], Filled(m)>>]
  <2>1. CASE /\ n = 1
             /\ outbox' = [k \in DOMAIN sent'[order[1]] |->
                            <<order[1], Filled(sent'[order[1]][k])>>]
    <3>1. sent'[order[1]] = <<m>> /\ DOMAIN <<m>> = 1..n /\ <<m>>[1] = m
      BY <1>8, <2>1
    <3>2. outbox' = [k \in 1..n |-> <<order[1], Filled(<<m>>[k])>>]
      BY <2>1, <3>1
    <3>3. \A k \in 1..n : k = 1
      BY <2>1
    <3>4. QED
      BY <3>1, <3>2, <3>3
  <2>2. CASE outbox' = [i \in DOMAIN order |-> <<order[i], Filled(sent'[order[i]][1])>>]
    <3>1. \A i \in 1..n : sent'[order[i]][1] = m
      BY <1>8
    <3>2. QED
      BY <1>8, <2>2, <3>1
  <2>3. QED
    BY <1>5, <1>8, <2>1, <2>2
<1>10. QED
  BY <1>7, <1>9

LEMMA ToldOnce ==
  ASSUME Inv, NEW x \in Answer, NEW n \in Nat, NEW order \in Bijection(1..n, connected),
         NEW box, box = [i \in 1..n |-> <<order[i], x>>], NEW v
  PROVE  box \in Seq(Entries) /\ To(box, v) = IF v \in connected THEN <<x>> ELSE <<>>
<1>1. /\ order \in [1..n -> connected] /\ connected \subseteq Processes
      /\ \A i, j \in 1..n : order[i] = order[j] => i = j
      /\ \A q \in connected : \E i \in 1..n : order[i] = q
  BY BallotsOnFile DEF Bijection, Injection, Surjection, IsInjective
<1>2. box \in [1..n -> Entries]
  BY <1>1 DEF Entries
<1>3. box \in Seq(Entries) /\ Len(box) = n
  BY <1>2, SeqDef
<1> DEFINE Others == {e \in Entries : e[1] # v}
<1>4. CASE v \notin connected
  <2>1. box \in [1..n -> Others]
    BY <1>1, <1>2, <1>4
  <2>2. box \in Seq(Others) /\ \A e \in Others : e[1] # v
    BY <2>1, SeqDef
  <2> HIDE DEF Others
  <2>3. QED
    BY <1>3, <1>4, <2>2, ToNone
<1>5. CASE v \in connected
  <2>1. PICK k \in 1..n : order[k] = v
    BY <1>1, <1>5
  <2> DEFINE a == SubSeq(box, 1, k - 1)
             b == SubSeq(box, k, n)
             c == Tail(b)
  <2>2. k - 1 \in 0..Len(box) /\ k - 1 + 1 = k /\ k \in Nat
    BY <1>3, <2>1
  <2>3. a \in Seq(Entries) /\ b \in Seq(Entries) /\ box = a \o b
    <3>1. PICK j \in 0..Len(box) : j = k - 1
      BY <2>2
    <3>2. /\ SubSeq(box, 1, j) \in Seq(Entries)
          /\ SubSeq(box, j + 1, Len(box)) \in Seq(Entries)
          /\ box = SubSeq(box, 1, j) \o SubSeq(box, j + 1, Len(box))
      BY ONLY <1>3, <3>1, CutIsWhole
    <3>3. j + 1 = k
      BY <2>2, <3>1
    <3>4. QED
      BY <1>3, <3>1, <3>2, <3>3
  <2>4. Len(b) = n - k + 1 /\ \A i \in 1..n - k + 1 : b[i] = box[k + i - 1]
    BY <1>3, <2>1, SubSeqProperties, SMTT(30)
  <2>5. Len(a) = k - 1 /\ \A i \in 1..k - 1 : a[i] = box[i]
    BY <1>3, <2>2, SubSeqProperties
  <2> HIDE DEF a, b
  <2>6. b # <<>> /\ b[1] = <<v, x>>
    <3>1. 1 \in 1..n - k + 1 /\ k + 1 - 1 = k /\ Len(b) # 0
      BY <2>1, <2>4
    <3>2. box[k] = <<v, x>>
      BY <2>1
    <3>3. QED
      BY <2>4, <3>1, <3>2
  <2>7. c \in Seq(Entries) /\ b = <<b[1]>> \o c
    BY <2>3, <2>6, HeadAndTail
  <2>8. Len(c) = n - k /\ \A i \in 1..n - k : c[i] = box[k + i]
    <3>1. Len(c) = Len(b) - 1 /\ \A i \in 1..Len(b) - 1 : c[i] = b[i + 1]
      BY <2>3, <2>6
    <3>2. Len(c) = n - k
      BY <2>1, <2>4, <3>1
    <3>3. ASSUME NEW i \in 1..n - k PROVE c[i] = box[k + i]
      <4>1. i \in 1..Len(b) - 1 /\ i + 1 \in 1..n - k + 1 /\ k + (i + 1) - 1 = k + i
        BY <2>1, <2>4
      <4>2. QED
        BY <2>4, <3>1, <4>1
    <3>4. QED
      BY <3>2, <3>3
  <2> HIDE DEF c
  <2>9. a \in Seq(Others) /\ c \in Seq(Others)
    <3>1. \A i \in 1..n : i # k => box[i] \in Others
      BY <1>1, <1>2, <2>1
    <3>2. ASSUME NEW i \in 1..k - 1 PROVE a[i] \in Others
      <4>1. i \in 1..n /\ i # k
        BY <2>1
      <4>2. QED
        BY <2>5, <3>1, <4>1
    <3>3. ASSUME NEW i \in 1..n - k PROVE c[i] \in Others
      <4>1. k + i \in 1..n /\ k + i # k
        BY <2>1
      <4>2. QED
        BY <2>8, <3>1, <4>1
    <3> HIDE DEF Others
    <3>4. a \in [1..k - 1 -> Others] /\ k - 1 \in Nat
      BY <2>1, <2>3, <2>5, <3>2
    <3>5. c \in [1..n - k -> Others] /\ n - k \in Nat
      BY <2>1, <2>7, <2>8, <3>3
    <3>6. QED
      BY <3>4, <3>5, SeqDef
  <2>10. \A e \in Others : e[1] # v
    OBVIOUS
  <2> HIDE DEF Others
  <2>11. To(a, v) = <<>> /\ To(c, v) = <<>>
    BY <2>9, <2>10, ToNone
  <2> DEFINE e == <<v, x>>
             q == <<e>>
  <2>12. e \in Entries /\ e[1] = v /\ e[2] = x /\ b = <<e>> \o c
    BY <1>1, <1>5, <2>6, <2>7 DEF Entries
  <2> HIDE DEF e
  <2>13. q \in Seq(Entries) /\ To(q, v) = <<x>> /\ b = q \o c
    <3>1. To(<<e>>, v) = IF e[1] = v THEN <<e[2]>> ELSE <<>>
      BY ONLY ToOne
    <3>2. q \in Seq(Entries) /\ b = q \o c
      BY <2>12
    <3>3. QED
      BY <2>12, <3>1, <3>2
  <2> HIDE DEF q
  <2>14. To(b, v) = To(q, v) \o To(c, v)
    BY ONLY <2>7, <2>13, ToConcat
  <2>15. To(box, v) = To(a, v) \o To(b, v)
    BY ONLY <2>3, ToConcat
  <2>16. <<>> \o (<<x>> \o <<>>) = <<x>>
    OBVIOUS
  <2>17. QED
    BY <1>3, <1>5, <2>11, <2>13, <2>14, <2>15, <2>16
<1>6. QED
  BY <1>4, <1>5

-----------------------------------------------------------------------------
\* VOTE_END: the counts are those of the box.

LEMMA CountsAreOfTheBox ==
  ASSUME Inv, NEW r, r.slate = Slate,
         r.counted = [x \in {y \in DOMAIN m_clients : m_clients[y].voted} |->
                        m_clients[x].vote]
  PROVE  Counts(r) = P!Count
<1> DEFINE S == {y \in connected : m_clients[y].voted}
<1>1. /\ DOMAIN m_clients = connected
      /\ \A x \in S : x \in Voters /\ m_clients[x].vote \in Papers
      /\ DOMAIN Choice = S /\ \A x \in S : Choice[x] = Marked(m_clients[x].vote)
  BY BallotsOnFile
<1>2. DOMAIN r.counted = S /\ \A x \in S : r.counted[x] = m_clients[x].vote
  BY <1>1
<1> HIDE DEF S
<1>3. ASSUME NEW i \in DOMAIN Slate
      PROVE  {x \in DOMAIN r.counted : i \in DOMAIN r.counted[x] /\ r.counted[x][i] = 1}
               = {x \in DOMAIN Choice : Slate[i] \in Choice[x]}
  <2>1. \A x \in S : /\ DOMAIN m_clients[x].vote = DOMAIN Slate
                     /\ Slate[i] \in Marked(m_clients[x].vote) <=> m_clients[x].vote[i] = 1
    BY <1>1, MarkedFacts
  <2>2. \A x \in S : i \in DOMAIN r.counted[x] /\ r.counted[x][i] = 1
                       <=> Slate[i] \in Choice[x]
    BY <1>1, <1>2, <2>1
  <2>3. QED
    BY <1>1, <1>2, <2>2
<1>4. Counts(r) = [i \in DOMAIN Slate |->
                     Cardinality({x \in DOMAIN Choice : Slate[i] \in Choice[x]})]
  BY <1>3 DEF Counts
<1>5. P!Count = [i \in DOMAIN Slate |->
                   Cardinality({x \in DOMAIN Choice : Slate[i] \in Choice[x]})]
  <2>1. \A T : P!Cardinality(T) = Cardinality(T)
    BY DEF P!Cardinality, Cardinality
  <2>2. P!Count = [i \in DOMAIN Slate |->
                     P!Cardinality({x \in DOMAIN Choice : Slate[i] \in Choice[x]})]
    BY DEF P!Count, Choice
  <2>3. QED
    BY <2>1, <2>2
<1>6. QED
  BY ONLY <1>4, <1>5

LEMMA VoteEndPoll ==
  ASSUME Inv, Inv', outbox = <<>>, NEW p \in connected, m_clients[p].vote = <<>>,
         E!vote_end(p), Post, Clicks' = Clicks, Choice' = Choice,
         UNCHANGED <<process, to_client, responses, printed, connected>>
  PROVE  PollStep
<1> DEFINE m == <<"SEND_VOTE_RESULT", "", "">>
<1>1. p \in Processes /\ outbox' \in Seq(connected' \X Answer) /\ server' = "running"
  BY BallotsOnFile DEF Inv, ServerTypes
<1>2. CASE \E d \in {"E6", "E13"} : E!Refuse(p, "ERROR", "VOTE", d)
  <2>1. PICK d \in {"E6", "E13"} : E!Refuse(p, "ERROR", "VOTE", d)
    BY <1>2
  <2>2. << <<"ERROR", "VOTE", d>> >> \in Seq(Plain)
    BY WordFacts, PlainMessage
  <2>3. E!Reply(p, << <<"ERROR", "VOTE", d>> >>) /\ UNCHANGED <<started, connected>>
    BY <2>1 DEF E!Refuse
  <2>4. connected' \subseteq Processes
    BY <2>3, BallotsOnFile
  <2>5. outbox' \in Seq(Processes \X Ordinary)
    BY <1>1, <2>2, <2>3, <2>4, PlainPosts
  <2>6. Mails' = Mails /\ Present' = Present
    BY <2>5, OrdinaryMail
  <2>7. QED
    BY <2>3, <2>6, PollUnseen
<1>3. CASE /\ started /\ started' = FALSE
           /\ result' = [round |-> round, slate |-> candidates, counted |->
                           [x \in E!Counts(E!Approves(m_clients[p])) |-> m_clients[x].vote]]
           /\ E!Broadcast(m)
  <2>1. candidates = Slate
    BY <1>3 DEF Inv, ServerTypes
  <2>2. E!Counts(E!Approves(m_clients[p])) = {y \in DOMAIN m_clients : m_clients[y].voted}
    BY DEF E!Counts, E!Approves
  <2>3. Counts(result') = P!Count
    <3>1. /\ result'.slate = Slate
          /\ result'.counted = [x \in {y \in DOMAIN m_clients : m_clients[y].voted} |->
                                  m_clients[x].vote]
      BY <1>3, <2>1, <2>2
    <3>2. QED
      BY <3>1, CountsAreOfTheBox
  <2> DEFINE out == Filled(m)
             told == Present
  <2>4. m \in E!Message
    BY WordFacts DEF E!Message
  <2>5. Counts(result') \in [DOMAIN Slate -> Nat]
    <3>1. DOMAIN result'.counted = {y \in DOMAIN m_clients : m_clients[y].voted}
          /\ result'.slate = Slate
      BY <1>3, <2>1, <2>2
    <3>2. {y \in DOMAIN m_clients : m_clients[y].voted} \subseteq Processes
      BY BallotsOnFile
    <3>3. IsFiniteSet(DOMAIN result'.counted)
      BY <3>1, <3>2, ProcessFacts, FS_Subset
    <3>4. QED
      BY <3>1, <3>3, CountsType
  <2>6. out = <<"SEND_VOTE_RESULT", "", "", P!Count>> /\ P!Count \in Enclosed
    BY <2>3, <2>5 DEF Filled, Enclosed
  <2> HIDE DEF m, out
  <2>7. out \in Answer /\ out[1] = "SEND_VOTE_RESULT" /\ out[4] = P!Count
    BY <2>6, WordFacts DEF Answer
  <2>8. Results(<<out>>) = <<P!Count>>
    BY ONLY <2>7, ResultsOne
  <2>9. /\ outbox' \in Seq(Entries)
        /\ \A v \in Voters : To(outbox', v) = IF v \in connected THEN <<out>> ELSE <<>>
    <3>1. PICK n \in Nat : \E order \in Bijection(1..n, connected) :
            outbox' = [i \in 1..n |-> <<order[i], out>>]
      BY <1>3, <2>4, BroadcastOrder DEF out
    <3>2. PICK order \in Bijection(1..n, connected) :
            outbox' = [i \in 1..n |-> <<order[i], out>>]
      BY <3>1
    <3>3. PICK box : box = outbox'
      OBVIOUS
    <3>4. \A v : box \in Seq(Entries) /\ To(box, v) = IF v \in connected THEN <<out>> ELSE <<>>
      BY <2>7, <3>2, <3>3, ToldOnce
    <3>5. QED
      BY <3>3, <3>4
  <2>10. ASSUME NEW v \in Voters
         PROVE  Mail(v)' = IF v \in told THEN Append(Mail(v), P!Count) ELSE Mail(v)
    <3>1. Mail(v) \in Seq(Enclosed)
          /\ Mail(v)' = IF Running(v) THEN Mail(v) \o Results(To(outbox', v)) ELSE <<>>
      BY <2>9, NewMail
    <3>2. CASE v \in told
      <4>1. Results(To(outbox', v)) = <<P!Count>>
        BY <2>8, <2>9, <3>2 DEF Present
      <4>2. Append(Mail(v), P!Count) = Mail(v) \o <<P!Count>>
        BY <2>6, <3>1, AppendIsConcat
      <4>3. Running(v)
        BY <3>2 DEF Present
      <4>4. QED
        BY <3>1, <3>2, <4>1, <4>2, <4>3
    <3>3. CASE v \notin told /\ Running(v)
      <4>1. Results(To(outbox', v)) = <<>>
        BY <2>9, <3>3, ResultsEmpty DEF Present
      <4>2. Mail(v) \o <<>> = Mail(v)
        BY <3>1, ConcatEmptySeq
      <4>3. QED
        BY <3>1, <3>3, <4>1, <4>2
    <3>4. CASE ~Running(v)
      BY <3>1, <3>4 DEF Mail, Present
    <3>5. QED
      BY <3>2, <3>3, <3>4
  <2>11. Mails' = [v \in Voters |-> IF v \in told THEN Append(Mails[v], P!Count)
                                                  ELSE Mails[v]]
    BY <2>10 DEF Mails
  <2>12. Present' = Present
    BY DEF Present, Running
  <2>13. QED
    BY <1>3, <2>11, <2>12, PollClose
<1>4. QED
  BY <1>1, <1>2, <1>3 DEF E!vote_end, E!MayEnd, E!Abort

LEMMA VoteBeginPoll ==
  ASSUME NEW p \in Processes, E!vote_begin(p, Slate), Mails' = Mails, Present' = Present,
         Clicks' = Clicks, Choice' = Choice, printed' = printed
  PROVE  PollStep
<1>1. started' = started \/ (~started /\ started' = TRUE)
  BY DEF E!vote_begin, E!Refuse, E!MayBegin
<1>2. QED
  BY <1>1, PollUnseen, PollOpen

LEMMA RequestPoll ==
  ASSUME Inv, NEW p \in Processes, Request(p)
  PROVE  PollStep
<1> DEFINE msg == Head(to_server[p])
<1>1. /\ outbox = <<>> /\ p \in connected /\ to_server[p] # <<>>
      /\ Handle(p, msg) /\ Post
      /\ to_server' = [to_server EXCEPT ![p] = Tail(@)]
      /\ UNCHANGED <<process, to_client, responses, gui>>
  BY DEF Request, Free
<1>2. Inv'
  BY RequestInv
<1>3. Served(p, msg)
  BY <1>1, HandleServed DEF gui
<1>4. printed' = printed
  BY <1>1 DEF gui
<1>5. msg[1] = "VOTE" => p \in Voters
  BY <1>1, ScriptHead, ProcessFacts
<1>6. msg[1] \in {"VOTE_BEGIN", "VOTE_END"} => p \in 1..Scripts
  BY <1>1, VoterHead, ProcessFacts
<1>7. msg[1] = "VOTE_BEGIN" => msg[2] = Slate
  BY <1>1, <1>6, ScriptHead
<1>8. msg[1] = "VOTE_END" => m_clients[p].vote = <<>>
  BY <1>1, <1>6, ScriptHead
<1> HIDE DEF msg
<1>9. msg[1] # "VOTE" => Clicks' = Clicks /\ Choice' = Choice
  BY <1>1, <1>3, QuietRequest DEF msg
<1>10. CASE msg[1] = "VOTE_END"
  <2>1. E!vote_end(p)
    BY <1>1, <1>10 DEF Handle
  <2>2. QED
    BY <1>1, <1>2, <1>3, <1>4, <1>8, <1>9, <1>10, <2>1, VoteEndPoll DEF Served
<1>11. CASE msg[1] # "VOTE_END"
  <2>1. /\ \E msgs \in Seq(Plain) : E!Reply(p, msgs)
        /\ msg[1] # "VOTE_BEGIN" => started' = started
    BY <1>1, <1>11, Answered
  <2>2. outbox' \in Seq(Processes \X Ordinary)
    BY <1>1, <1>2, <2>1, PlainPosts DEF Inv, ServerTypes
  <2>3. Mails' = Mails /\ Present' = Present
    BY <1>1, <1>3, <2>2, OrdinaryMail DEF Served
  <2>4. CASE msg[1] = "VOTE"
    BY <1>1, <1>3, <1>4, <1>5, <2>1, <2>3, <2>4, VotePoll DEF msg
  <2>5. CASE msg[1] = "VOTE_BEGIN"
    <3>1. E!vote_begin(p, Slate)
      BY <1>1, <1>7, <2>5 DEF Handle
    <3>2. QED
      BY <1>4, <1>9, <2>3, <2>5, <3>1, VoteBeginPoll
  <2>6. CASE msg[1] \notin {"VOTE", "VOTE_BEGIN"}
    BY <1>4, <1>9, <2>1, <2>3, <2>6, PollUnseen
  <2>7. QED
    BY <2>4, <2>5, <2>6
<1>12. QED
  BY <1>10, <1>11

-----------------------------------------------------------------------------
\* All steps.

LEMMA InitPoll == Init => P!Init
<1> SUFFICES ASSUME Init PROVE P!Init
  OBVIOUS
<1>1. /\ process = [p \in Processes |-> "idle"]
      /\ to_server = [p \in Processes |-> <<>>]
      /\ printed = [v \in Voters |-> <<>>] /\ started = FALSE /\ m_clients = <<>>
  BY DEF Init, ClientInit, E!Init
<1>2. \A v \in Voters : ~Running(v) /\ Casts(to_server[v]) = <<>>
  <2>1. Casts(<<>>) = <<>>
    BY OnlyEmpty, ColumnEmpty DEF Casts
  <2>2. QED
    BY <1>1, <2>1, ProcessFacts DEF Running
<1>3. Choice = <<>>
  <2>1. DOMAIN m_clients = {}
    <3>1. DOMAIN <<>> = {}
      OBVIOUS
    <3>2. QED
      BY <1>1, <3>1
  <2>2. QED
    BY <2>1 DEF Choice
<1>4. /\ Present = {} /\ Clicks = [v \in Voters |-> <<>>]
      /\ Mails = [v \in Voters |-> <<>>]
  BY <1>2 DEF Present, Clicks, Mails, Mail
<1>5. QED
  BY <1>1, <1>3, <1>4 DEF P!Init, Present, Clicks, Choice, Mails

LEMMA NextPoll == Inv /\ [Next]_vars => PollStep
<1> SUFFICES ASSUME Inv, [Next]_vars PROVE PollStep
  OBVIOUS
<1>1. CASE SendNext
  BY <1>1, SendNextPoll
<1>2. ASSUME NEW p \in Processes, Accept(p) \/ Request(p) \/ Disconnect(p) PROVE PollStep
  BY <1>2, AcceptPoll, RequestPoll, DisconnectPoll
<1>3. ASSUME NEW p \in Processes, Listen(p) PROVE PollStep
  BY <1>3, ListenPoll
<1>4. ASSUME NEW v \in Voters, Update(v) PROVE PollStep
  BY <1>4, UpdatePoll
<1>5. CASE Users
  <2>1. UNCHANGED <<election, outbox>>
    BY <1>5 DEF Users
  <2>2. ASSUME NEW v \in Voters,
               Launch(v) \/ verifier_login(v) \/ action(v) \/ CloseWindow(v)
        PROVE  PollStep
    BY <2>1, <2>2, LaunchPoll, LoginClickPoll, ActionPoll, CloseWindowPoll
  <2>3. ASSUME NEW k \in 1..Scripts,
               Operate(k) \/ SendCommand(k) \/ EndScript(k) \/ BreakScript(k)
        PROVE  PollStep
    BY <2>1, <2>3, OperatePoll
  <2>4. QED
    BY <1>5, <2>2, <2>3 DEF Users
<1>6. CASE UNCHANGED vars
  <2>1. UNCHANGED <<process, to_server, to_client, responses, printed, connected,
                    m_clients, started, outbox>>
    BY <1>6 DEF vars, client_vars, channels, gui, election
  <2>2. Mails' = Mails /\ Present' = Present
    BY <2>1, MailSame DEF Running, InTransit, Posted
  <2>3. Clicks' = Clicks
    BY <2>1 DEF Clicks
  <2>4. QED
    BY <2>1, <2>2, <2>3, ChoiceSame, PollUnseen
<1>7. QED
  BY <1>1, <1>2, <1>3, <1>4, <1>5, <1>6 DEF Next, Threads, Server

\* With patient operators, for any number of voters and scripts, any slate and any
\* room in the buffers: each click is one ballot in the box, in the order of the
\* clicks; the counts are those of the ballots in the box; and everybody whose window
\* is open and whose connection the server had added when it closed the poll is sent
\* the count once, ballot or not, and shown his counts in order.  Ballots that arrive
\* after the poll is closed go into the box too (P!DropLate), which README.md:50 rules
\* out: the theorem is about what the code does.
THEOREM ThePollIsImplemented == Patient => (Spec => ImplementsPoll)
<1>1. SUFFICES ASSUME Patient PROVE Spec => ImplementsPoll
  OBVIOUS
<1>2. Inv /\ [Next]_vars => [P!Next]_(P!vars)
  BY NextPoll DEF PollStep
<1>3. Spec => []Inv
  BY <1>1, InvHolds
<1>4. QED
  BY <1>2, <1>3, InitPoll, PTL DEF Spec, ImplementsPoll, P!Spec
=============================================================================
