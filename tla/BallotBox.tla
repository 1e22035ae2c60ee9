----------------------------- MODULE BallotBox ------------------------------
(***************************************************************************)
(* What the voting server does with ballots, with no connection, status,   *)
(* proof or command: a box holds at most one paper per voter, a paper is   *)
(* what its own voter wrote, and closing the poll publishes the whole box  *)
(* or none of it.  Election implements it.                                 *)
(*                                                                         *)
(* This is what the code keeps, not all that README.md asks for.  README   *)
(* has papers put in while the poll is open, of one mark per candidate     *)
(* (E4, README.md:207), and frozen afterwards (README.md:50).  Here a      *)
(* sheet of any length is taken, and CastLate is the action README rules   *)
(* out; BallotsFrozenWhenClosed of Election says so and fails.             *)
(***************************************************************************)
CONSTANTS
  Voters,
  Sheets,     \* what a voter may hand in: a sequence of marks
  Blank,      \* the mark in a place that was never written to
  Illegible   \* a mark that cannot be read

VARIABLES
  box,    \* voter -> paper, for the voters that have one in the box
  open,   \* is a poll running?
  count   \* the papers last published, by voter

vars == <<box, open, count>>

Init == box = <<>> /\ open = FALSE /\ count = <<>>

\* A new sheet replaces the paper, but an illegible mark leaves the old one.
Before(v) == IF v \in DOMAIN box THEN box[v] ELSE <<>>
Paper(v, sheet) ==
  [i \in DOMAIN sheet |-> IF sheet[i] # Illegible THEN sheet[i]
                          ELSE IF i \in DOMAIN Before(v) THEN Before(v)[i] ELSE Blank]
PutIn(v) ==
  /\ \E sheet \in Sheets :
       box' = [x \in DOMAIN box \cup {v} |-> IF x = v THEN Paper(v, sheet) ELSE box[x]]
  /\ UNCHANGED <<open, count>>

Cast(v) == open /\ PutIn(v)
CastLate(v) == ~open /\ PutIn(v)

\* The connection of the voter ends, and its paper goes with it.
TakeBack(v) ==
  /\ v \in DOMAIN box
  /\ box' = [x \in DOMAIN box \ {v} |-> box[x]]
  /\ UNCHANGED <<open, count>>

\* Papers of the poll before are still in the box.
Open == ~open /\ open' = TRUE /\ UNCHANGED <<box, count>>

\* The whole box, nothing, or no publication at all (the server dies).
Close ==
  /\ open /\ open' = FALSE
  /\ count' \in {box, <<>>, count}
  /\ UNCHANGED box

Next ==
  \/ Open \/ Close
  \/ \E v \in Voters : Cast(v) \/ CastLate(v) \/ TakeBack(v)

Spec == Init /\ [][Next]_vars
=============================================================================
