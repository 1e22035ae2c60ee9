---------------------------- MODULE HookContract ----------------------------
(***************************************************************************)
(* What the event loop promises the hooks of IServerHooks (server_hooks.hpp),*)
(* whatever the threads, descriptors and buffers behind it: a descriptor   *)
(* is given to one connection at a time, a connection sees OnConnect once, *)
(* then OnRequest calls with its own data, then at most one OnDisconnect.  *)
(***************************************************************************)
CONSTANTS Fds, Conns

VARIABLES
  session,  \* descriptor -> connection, between OnConnect and OnDisconnect
  ended,    \* connections whose session is over
  called    \* the last hook call: hook, descriptor, connection behind it

vars == <<session, ended, called>>

Init == session = <<>> /\ ended = {} /\ called = <<>>

InSession == {session[f] : f \in DOMAIN session}

Connect(f, c) ==
  /\ f \notin DOMAIN session
  /\ c \notin InSession \cup ended
  /\ session' = [g \in DOMAIN session \cup {f} |-> IF g = f THEN c ELSE session[g]]
  /\ called' = <<"OnConnect", f, c>>
  /\ UNCHANGED ended

Request(f) ==
  /\ f \in DOMAIN session
  /\ called' = <<"OnRequest", f, session[f]>>
  /\ UNCHANGED <<session, ended>>

Disconnect(f) ==
  /\ f \in DOMAIN session
  /\ session' = [g \in DOMAIN session \ {f} |-> session[g]]
  /\ ended' = ended \cup {session[f]}
  /\ called' = <<"OnDisconnect", f, session[f]>>

Next == \E f \in Fds : Request(f) \/ Disconnect(f) \/ \E c \in Conns : Connect(f, c)

Spec == Init /\ [][Next]_vars
=============================================================================
