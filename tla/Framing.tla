------------------------------ MODULE Framing -------------------------------
(***************************************************************************)
(* From bytes to requests: the reading half of the scan in Server::Start   *)
(* with HeaderHandler, BodyHandler and the overflow records                *)
(* (src/Server/core/server/src/server.cpp), for a fixed table of clients.  *)
(*                                                                         *)
(* A client sends messages of one size.  A byte is known by the client and *)
(* its position in that client's stream, so the contents of a buffer are   *)
(* whose bytes it holds, from which position, and how many.  The network   *)
(* delivers a stream in steps that end where Cuts allows.                  *)
(*                                                                         *)
(* Sizes are the int32_t of the code.  malloc succeeds for the sizes it is *)
(* asked for as a positive number and returns NULL for a negative one.     *)
(***************************************************************************)
EXTENDS Integers

CONSTANTS
  ClientCount,  \* clients in the table
  Messages,     \* bound: messages a client sends
  HeaderSize,   \* HEADER_SIZE
  BodySize,     \* bytes in a body
  Cuts,         \* where a delivery may end inside a message
  Buffers,      \* bound: addresses malloc can return
  GarbageSizes  \* body sizes a header read at the wrong place may announce

INT_MAX == 2147483647

ASSUME FramingAssumption ==
  /\ ClientCount \in Nat
  /\ Messages \in Nat
  /\ HeaderSize \in Nat \ {0} /\ BodySize \in Nat \ {0}
  /\ Cuts \subseteq {"header", "boundary", "body"}
  /\ 0 \notin Buffers /\ Buffers \subseteq Nat
  /\ BodySize < INT_MAX
  /\ GarbageSizes \subseteq Int /\ \A size \in GarbageSizes : size <= INT_MAX

Clients == 1..ClientCount
MessageSize == HeaderSize + BodySize
StreamSize == Messages * MessageSize

VARIABLES
  delivered,  \* client -> bytes of its stream that have arrived
  position,   \* client -> bytes of its stream that were read
  closed,     \* clients that sent FIN
  table,      \* clients still in m_observers
  revents,    \* clients the last poll found readable
  next,       \* client_index
  pc,         \* "poll", "scan" or "body"
  body_size, body_buffer,  \* locals of Start, shared by all clients
  heap,       \* address -> contents of the live buffer there, or NotLive
  m_overflows,
  server,     \* "running", or "aborted" by the allocator
  misused,    \* history: what was done to memory that must not be (see Misuses)
  lost,       \* history: clients part of whose header was thrown away
  request,    \* history: the last OnRequest call
  handled     \* history: client -> OnRequest calls

kernel == <<delivered, position, closed>>
locals == <<body_size, body_buffer>>
history == <<request, handled>>
vars == <<kernel, table, revents, next, pc, locals, heap, m_overflows, server,
          misused, lost, history>>

\* Use or release of a buffer that is not live; a write behind the end of a live
\* one; the terminator of a body of a size nothing was, or could be, allocated for.
Misuses == {"dead", "past", "size"}

\* Contents of a buffer and the index of its last byte.
NotLive == [of |-> 0, from |-> 0, filled |-> 0, last |-> -1]
NoOverflow == [overflow |-> FALSE, buffer |-> 0, read_size |-> 0, overflow_size |-> 0,
               buffer_size |-> 0]

Sizes == GarbageSizes \cup {BodySize}
Contents == [of : Clients \cup {0}, from : 0..StreamSize, filled : Nat, last : Int]
OverFlowRead == [overflow : BOOLEAN, buffer : Buffers \cup {0},
                 read_size : Nat, overflow_size : Nat, buffer_size : Sizes \cup {0}]

TypeOK ==
  /\ delivered \in [Clients -> 0..StreamSize]
  /\ position \in [Clients -> 0..StreamSize]
  /\ \A c \in Clients : position[c] <= delivered[c]
  /\ closed \subseteq Clients /\ table \subseteq Clients
  /\ revents \subseteq Clients
  /\ next \in Nat
  /\ pc \in {"poll", "scan", "body"}
  /\ body_size \in Sizes \cup {0}
  /\ body_buffer \in Buffers \cup {0}
  /\ heap \in [Buffers -> Contents]
  /\ m_overflows \in [Clients -> OverFlowRead]
  /\ server \in {"running", "aborted"}
  /\ misused \subseteq Misuses /\ lost \subseteq Clients
  /\ request.client \in Clients \cup {0} /\ request.text \in Contents
  /\ handled \in [Clients -> Nat]

-----------------------------------------------------------------------------
\* Clients and network.

Offset(n) == n % MessageSize

MayEndAt(n) ==
  \/ Offset(n) = 0
  \/ Offset(n) \in 1..(HeaderSize - 1) /\ "header" \in Cuts
  \/ Offset(n) = HeaderSize /\ "boundary" \in Cuts
  \/ Offset(n) > HeaderSize /\ "body" \in Cuts

Deliver(c) ==
  /\ server = "running" /\ c \in table \ closed
  /\ \E n \in (delivered[c] + 1)..StreamSize :
       MayEndAt(n) /\ delivered' = [delivered EXCEPT ![c] = n]
  /\ UNCHANGED <<position, closed, table, revents, next, pc, locals, heap,
                 m_overflows, server, misused, lost, history>>

\* A client closes when it likes, in the middle of a message too.
Leave(c) ==
  /\ server = "running" /\ c \in table \ closed
  /\ closed' = closed \cup {c}
  /\ UNCHANGED <<delivered, position, table, revents, next, pc, locals, heap,
                 m_overflows, server, misused, lost, history>>

-----------------------------------------------------------------------------
\* Buffers.

Live(b) == b # 0 /\ heap[b].of # 0

\* body_buffer = malloc (body_size + 1): a body and its terminator.  INT_MAX + 1
\* overflows, the compiler may widen before it adds or not.
Allocated(c, from, last) ==
  \E b \in Buffers :
    /\ heap[b].of = 0
    /\ heap' = [heap EXCEPT ![b] = [of |-> c, from |-> from, filled |-> 0, last |-> last]]
    /\ body_buffer' = b
NotAllocated == body_buffer' = 0 /\ UNCHANGED heap

mallocAtHeader(c, from, size) ==
  \/ size >= -1 /\ Allocated(c, from - HeaderSize, size)
  \/ (size < -1 \/ size = INT_MAX) /\ NotAllocated
malloc(c, from, size) ==
  \/ size >= -1 /\ Allocated(c, from, size)
  \/ (size < -1 \/ size = INT_MAX) /\ NotAllocated

\* Undefined behaviour: the process may go on or not.
Harm(kinds) ==
  /\ misused' = misused \cup kinds
  /\ IF kinds = {} THEN UNCHANGED server ELSE server' \in {server, "aborted"}

Using(b) == IF Live(b) THEN {} ELSE {"dead"}
Freeing(b) == IF b = 0 THEN {} ELSE Using(b)
Writing(b, at, n) ==
  IF Live(b) /\ at + (n - 1) > heap[b].last THEN {"past"} ELSE Using(b)

Fill(b, n) == IF Live(b) THEN [heap EXCEPT ![b].filled = @ + n] ELSE heap
Free(h, b) == IF Live(b) THEN [h EXCEPT ![b] = NotLive] ELSE h

-----------------------------------------------------------------------------
\* Main thread.

Available(c) == delivered[c] - position[c]
ReadableOpen(c) == Available(c) > 0 /\ c \notin closed
Readable(c) == Available(c) > 0 \/ c \in closed
Asked(a, b) == b
Least(a, b) == IF a < b THEN a ELSE b

Poll ==
  /\ server = "running" /\ pc = "poll"
  /\ revents' = {c \in table : Readable(c)}
  /\ next' = 1 /\ pc' = "scan"
  /\ UNCHANGED <<kernel, table, locals, heap, m_overflows, server, misused, lost, history>>

Scanning(c) == server = "running" /\ pc = "scan" /\ next = c

ScanDone ==
  /\ server = "running" /\ pc = "scan" /\ next \notin Clients
  /\ pc' = "poll"
  /\ UNCHANGED <<kernel, table, revents, next, locals, heap, m_overflows, server,
                 misused, lost, history>>

Idle(c) ==
  /\ Scanning(c) /\ c \notin revents
  /\ next' = next + 1
  /\ UNCHANGED <<kernel, table, revents, pc, locals, heap, m_overflows, server,
                 misused, lost, history>>

Read(c, n) == position' = [position EXCEPT ![c] = @ + n]
Skip == next' = next + 1 /\ pc' = "scan"
RemoveClient(c) == table' = table \ {c}

\* free (body_buffer), whichever client's it is by now, after what was done to h.
FreeBody(h, kinds) ==
  /\ heap' = Free(h, body_buffer)
  /\ Harm(kinds \cup Freeing(body_buffer))

\* A header read at the wrong place announces any size.
ReadHeader(c) ==
  /\ Scanning(c) /\ c \in revents /\ ~m_overflows[c].overflow
  /\ LET n == Least(Available(c), HeaderSize) IN
     \/ /\ n = HeaderSize
        /\ Read(c, n)
        /\ body_size' \in IF Offset(position[c]) = 0 THEN {BodySize} ELSE GarbageSizes
        /\ malloc(c, position[c] + n, body_size')
        /\ pc' = "body"
        /\ UNCHANGED <<table, next, lost>>
     \* Part of a header is thrown away.
     \/ /\ n \in 1..(HeaderSize - 1)
        /\ Read(c, n)
        /\ lost' = lost \cup {c}
        /\ Skip
        /\ UNCHANGED <<table, locals, heap>>
     \/ /\ n = 0
        /\ RemoveClient(c)
        /\ Skip
        /\ UNCHANGED <<position, locals, heap, lost>>
  /\ UNCHANGED <<delivered, closed, revents, m_overflows, server, misused, history>>

\* std::string request {body_buffer}; OnRequest; free (body_buffer).
OnRequest(c, h, kinds) ==
  /\ request' = [client |-> c, text |-> IF Live(body_buffer) THEN h[body_buffer]
                                                             ELSE NotLive]
  /\ handled' = [handled EXCEPT ![c] = @ + 1]
  /\ FreeBody(h, kinds \cup Using(body_buffer))

StartOverflowWhole(c, n) ==
  [m_overflows EXCEPT ![c] = [overflow |-> TRUE, buffer |-> body_buffer,
     read_size |-> n, overflow_size |-> body_size, buffer_size |-> body_size]]
StartOverflow(c, n) ==
  [m_overflows EXCEPT ![c] = [overflow |-> TRUE, buffer |-> body_buffer,
     read_size |-> n, overflow_size |-> body_size - n, buffer_size |-> body_size]]
GoOnOverflow(c, n) ==
  [m_overflows EXCEPT ![c].read_size = @ + n, ![c].overflow_size = @ - n]
EndOverflow(c) == [m_overflows EXCEPT ![c].overflow = FALSE]

\* The end of the stream, a poll that finds nothing, a read that fails, or a body
\* of size 0.
DropLeaking(c, kinds) ==
  /\ RemoveClient(c)
  /\ Harm(kinds)
  /\ UNCHANGED <<heap, position, m_overflows, history>>
DropWithBody(c, kinds) ==
  /\ RemoveClient(c)
  /\ FreeBody(heap, kinds)
  /\ UNCHANGED <<position, m_overflows, history>>

\* body_buffer[body_size] = '\0', whatever the read before it returned.
NoRoom == body_buffer = 0 \/ body_size < 0
Terminating == IF NoRoom THEN {"size"} ELSE Writing(body_buffer, body_size, 1)

\* A read into no buffer or of more than SSIZE_MAX bytes fails.
ReadBody(c) ==
  /\ server = "running" /\ pc = "body" /\ next = c
  /\ LET n == IF NoRoom THEN 0 ELSE Least(Available(c), body_size)
         h == Fill(body_buffer, n)
         written == Writing(body_buffer, 0, n) \cup Terminating
     IN
     \/ ~Readable(c) /\ DropWithBody(c, {})
     \/ Readable(c) /\ n = 0 /\ DropWithBody(c, Terminating)
     \/ /\ n > 0 /\ n = body_size
        /\ Read(c, n)
        /\ OnRequest(c, h, written)
        /\ UNCHANGED <<table, m_overflows>>
     \/ /\ n > 0 /\ n < body_size
        /\ Read(c, n)
        /\ heap' = h
        /\ Harm(written)
        /\ m_overflows' = StartOverflow(c, n)
        /\ UNCHANGED <<table, history>>
  /\ Skip
  /\ UNCHANGED <<delivered, closed, revents, locals, lost>>

\* The rest is read behind overflower.buffer, the request is made of
\* body_buffer: the buffer of the last header read, of this client or another.
ReadOverflow(c) ==
  /\ Scanning(c) /\ c \in revents /\ m_overflows[c].overflow
  /\ LET o == m_overflows[c]
         n == Least(Available(c), o.overflow_size)
         h == Fill(o.buffer, n)
         written == Writing(o.buffer, o.read_size, n)
     IN
     \/ n = 0 /\ DropWithBody(c, {})
     \/ /\ n > 0 /\ n = o.overflow_size
        /\ Read(c, n)
        /\ m_overflows' = EndOverflow(c)
        /\ OnRequest(c, h, written)
        /\ UNCHANGED table
     \/ /\ n > 0 /\ n < o.overflow_size
        /\ Read(c, n)
        /\ heap' = h
        /\ Harm(written)
        /\ m_overflows' = GoOnOverflow(c, n)
        /\ UNCHANGED <<table, history>>
  /\ Skip
  /\ UNCHANGED <<delivered, closed, revents, locals, lost>>

-----------------------------------------------------------------------------
Init ==
  /\ delivered = [c \in Clients |-> 0] /\ position = [c \in Clients |-> 0]
  /\ closed = {} /\ table = Clients /\ revents = {}
  /\ next = 1 /\ pc = "poll"
  /\ body_size = 0 /\ body_buffer = 0
  /\ heap = [b \in Buffers |-> NotLive]
  /\ m_overflows = [c \in Clients |-> NoOverflow]
  /\ server = "running" /\ misused = {} /\ lost = {}
  /\ request = [client |-> 0, text |-> NotLive]
  /\ handled = [c \in Clients |-> 0]

Network == \E c \in Clients : Deliver(c) \/ Leave(c)
Start == \/ Poll \/ ScanDone
         \/ \E c \in Clients : Idle(c) \/ ReadHeader(c) \/ ReadBody(c) \/ ReadOverflow(c)

Next == Network \/ Start

Spec == Init /\ [][Next]_vars
FairSpec == Spec /\ WF_vars(Start)

-----------------------------------------------------------------------------
\* Properties.

\* The following hold of one client, however its stream is cut, and of several
\* whose messages arrive whole.  Two clients whose bodies overlap break them.
Solo == ClientCount = 1 \/ Cuts = {}

\* Every request handed to OnRequest is the next message of that client, whole
\* and unmixed, however its body was cut and reassembled in overflow mode, as
\* long as no header of it came in two pieces (HeaderHandler discards the first).
WholeMessagesInOrder ==
  [][\A c \in Clients : handled'[c] # handled[c] /\ c \notin lost =>
       request' = [client |-> c, text |->
                     [of |-> c, from |-> handled[c] * MessageSize + HeaderSize,
                      filled |-> BodySize, last |-> BodySize]]]_vars

\* Whatever a header announces, nothing is written behind the end of a buffer,
\* none is freed twice or used after it was freed: all that can go wrong is the
\* terminator of a body announced as negative or as INT_MAX.
HeapSafe == misused \subseteq {"size"}

\* Between two reads a live buffer belongs to a client in overflow mode and no
\* buffer is forgotten, clients that leave in the middle of a body included.
NoBufferLeaked ==
  pc # "body" =>
    {b \in Buffers : Live(b)} =
      {m_overflows[c].buffer : c \in {x \in table : m_overflows[x].overflow}}

\* A message that has arrived is handled, even if its client closes right after
\* sending it or leaves the next one unfinished, unless part of one of its
\* headers was discarded.
ArrivedMessagesHandled ==
  \A c \in Clients, k \in 1..Messages :
    delivered[c] >= k * MessageSize ~> handled[c] >= k \/ c \in lost
=============================================================================
