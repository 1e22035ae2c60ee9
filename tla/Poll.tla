-------------------------------- MODULE Poll --------------------------------
(***************************************************************************)
(* What the voting system promises the people who use it: names they click *)
(* reach the ballot box in the order they were clicked, the last one       *)
(* stands, closing the poll counts what is in the box, and everybody       *)
(* present is sent the count and shown every count sent to him, in order,  *)
(* unless he leaves.  No commands, keys, channels or threads.              *)
(* VotingSystem implements it.                                             *)
(*                                                                         *)
(* This is what the program does, not all that its README.md asks for:     *)
(* DropLate is the action README.md:50 rules out ("Le client ne peut plus  *)
(* modifier son vote"), and ballots of one poll are still in the box when  *)
(* the next is opened.                                                     *)
(***************************************************************************)
EXTENDS Naturals, Sequences, FiniteSets

CONSTANTS Voters, Slate

VARIABLES
  present,  \* the voters at their windows whom the server knows
  open,     \* is a poll running?
  clicked,  \* voter -> choices on their way to the box
  choice,   \* voter -> the names chosen, for the voters with a ballot in the box
  mail,     \* voter -> counts on their way to the voter
  shown     \* voter -> counts the voter has been shown

vars == <<present, open, clicked, choice, mail, shown>>

Names == {Slate[i] : i \in DOMAIN Slate}
Choices == {{}} \cup {{n} : n \in Names}
Count == [i \in DOMAIN Slate |->
            Cardinality({v \in DOMAIN choice : Slate[i] \in choice[v]})]

Init ==
  /\ present = {} /\ open = FALSE /\ choice = <<>>
  /\ clicked = [v \in Voters |-> <<>>]
  /\ mail = [v \in Voters |-> <<>>]
  /\ shown = [v \in Voters |-> <<>>]

Arrive(v) ==
  /\ v \notin present
  /\ present' = present \cup {v}
  /\ UNCHANGED <<open, clicked, choice, mail, shown>>

Leave(v) ==
  /\ v \in present
  /\ present' = present \ {v}
  /\ mail' = [mail EXCEPT ![v] = <<>>]
  /\ shown' = [shown EXCEPT ![v] = <<>>]
  /\ UNCHANGED <<open, clicked, choice>>

Click(v) ==
  /\ v \in present
  /\ \E c \in Choices : clicked' = [clicked EXCEPT ![v] = Append(@, c)]
  /\ UNCHANGED <<present, open, choice, mail, shown>>

PutIn(v) ==
  /\ clicked[v] # <<>>
  /\ choice' = [x \in DOMAIN choice \cup {v} |->
                  IF x = v THEN Head(clicked[v]) ELSE choice[x]]
  /\ clicked' = [clicked EXCEPT ![v] = Tail(@)]
  /\ UNCHANGED <<present, open, mail, shown>>

Drop(v) == open /\ PutIn(v)
DropLate(v) == ~open /\ PutIn(v)

\* The ballot of a voter who left goes once everything from him has arrived.
Remove(v) ==
  /\ v \notin present /\ clicked[v] = <<>>
  /\ choice' = [x \in DOMAIN choice \ {v} |-> choice[x]]
  /\ UNCHANGED <<present, open, clicked, mail, shown>>

Open == ~open /\ open' = TRUE /\ UNCHANGED <<present, clicked, choice, mail, shown>>

\* Everybody present is told, once, whether he has voted or not.
Close ==
  /\ open /\ open' = FALSE
  /\ mail' = [v \in Voters |-> IF v \in present THEN Append(mail[v], Count)
                                                ELSE mail[v]]
  /\ UNCHANGED <<present, clicked, choice, shown>>

Show(v) ==
  /\ \E n \in 1..Len(mail[v]) :
       /\ shown' = [shown EXCEPT ![v] = @ \o SubSeq(mail[v], 1, n)]
       /\ mail' = [mail EXCEPT ![v] = SubSeq(@, n + 1, Len(@))]
  /\ UNCHANGED <<present, open, clicked, choice>>

\* Keys, proofs and logins, and messages moving along: most is not seen here.
Unseen == UNCHANGED vars

Next ==
  \/ Unseen
  \/ Open \/ Close
  \/ \E v \in Voters : \/ Arrive(v) \/ Leave(v) \/ Click(v) \/ Drop(v)
                       \/ DropLate(v) \/ Remove(v) \/ Show(v)

Spec == Init /\ [][Next]_vars
=============================================================================
