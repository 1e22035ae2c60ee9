--------------------------- MODULE FramingProofs ----------------------------
(***************************************************************************)
(* Proofs about Framing.  For one client, however its stream is cut and    *)
(* whatever its headers announce, and for several whose messages come      *)
(* whole, the server writes behind no buffer, frees every buffer once and, *)
(* as long as it has thrown away no part of a header, makes of every       *)
(* message one request.                                                    *)
(***************************************************************************)
EXTENDS Framing, TLAPS

LEMMA Constants ==
  /\ HeaderSize \in Nat \ {0} /\ BodySize \in Nat \ {0} /\ BodySize < INT_MAX
  /\ MessageSize \in Nat \ {0} /\ StreamSize \in Nat
  /\ GarbageSizes \subseteq Int /\ Buffers \subseteq Nat /\ 0 \notin Buffers
  /\ Sizes \subseteq Int /\ BodySize \in Sizes /\ GarbageSizes \subseteq Sizes
<1>1. /\ HeaderSize \in Nat \ {0} /\ BodySize \in Nat \ {0} /\ Messages \in Nat
      /\ BodySize < INT_MAX
      /\ GarbageSizes \subseteq Int /\ Buffers \subseteq Nat /\ 0 \notin Buffers
  BY FramingAssumption
<1>2. MessageSize \in Nat \ {0}
  BY <1>1 DEF MessageSize
<1>3. StreamSize \in Nat
  BY <1>1, <1>2 DEF StreamSize
<1> QED
  BY <1>1, <1>2, <1>3 DEF Sizes

\* What a read returns: no more than is asked for, no more than is there.
LEMMA LeastFacts ==
  ASSUME NEW a \in Nat, NEW b \in Nat
  PROVE  /\ Least(a, b) \in Nat /\ Least(a, b) <= a /\ Least(a, b) <= b
         /\ Least(a, b) \in {a, b}
BY DEF Least

LEMMA AvailableFacts ==
  ASSUME TypeOK, NEW c \in Clients
  PROVE  /\ position[c] \in Nat /\ delivered[c] \in Nat /\ Available(c) \in Nat
         /\ position[c] + Available(c) = delivered[c]
BY Constants DEF TypeOK, Available

\* What the first read of a body returns.
BodyBytes(c) == IF NoRoom THEN 0 ELSE Least(Available(c), body_size)

LEMMA BodyBytesFacts ==
  ASSUME TypeOK, NEW c \in Clients
  PROVE  /\ BodyBytes(c) \in Nat /\ BodyBytes(c) <= Available(c)
         /\ BodyBytes(c) > 0 => ~NoRoom /\ body_size \in Nat /\ BodyBytes(c) <= body_size
<1>1. body_size \in Int /\ Available(c) \in Nat
  BY AvailableFacts, Constants DEF TypeOK
<1>2. CASE NoRoom
  BY <1>1, <1>2 DEF BodyBytes
<1>3. CASE ~NoRoom
  <2>1. body_size \in Nat
    BY <1>1, <1>3 DEF NoRoom
  <2> QED
    BY <1>1, <1>3, <2>1, LeastFacts DEF BodyBytes
<1> QED
  BY <1>2, <1>3

-----------------------------------------------------------------------------
\* Types, for any number of clients, any cuts and any sizes headers announce.

Heap == [Buffers -> Contents]

\* The operations on the heap keep its contents well typed.
LEMMA HeapTypes ==
  ASSUME TypeOK, NEW b \in Buffers \cup {0}, NEW n \in Nat
  PROVE  /\ NotLive \in Contents
         /\ heap \in Heap /\ Fill(b, n) \in Heap
         /\ \A h \in Heap : Free(h, b) \in Heap
<1>1. NotLive \in Contents
  BY Constants DEF NotLive, Contents
<1>2. heap \in Heap
  BY DEF TypeOK, Heap
<1>3. ASSUME Live(b) PROVE [heap EXCEPT ![b].filled = @ + n] \in Heap
  <2>1. b \in Buffers /\ heap[b] \in Contents
    BY <1>2, <1>3 DEF Live, Heap
  <2>2. heap[b].filled + n \in Nat
    BY <2>1 DEF Contents
  <2>3. [heap[b] EXCEPT !.filled = heap[b].filled + n] \in Contents
    BY <2>1, <2>2 DEF Contents
  <2>4. [heap EXCEPT ![b].filled = @ + n]
          = [heap EXCEPT ![b] = [heap[b] EXCEPT !.filled = heap[b].filled + n]]
    BY <1>2, <2>1 DEF Heap
  <2> QED
    BY <1>2, <2>1, <2>3, <2>4 DEF Heap
<1>4. Fill(b, n) \in Heap
  BY <1>2, <1>3 DEF Fill
<1>5. \A h \in Heap : Free(h, b) \in Heap
  BY <1>1 DEF Free, Heap
<1> QED
  BY <1>1, <1>2, <1>4, <1>5

LEMMA MisuseTypes ==
  /\ \A b : Using(b) \subseteq Misuses /\ Freeing(b) \subseteq Misuses
  /\ \A b, at, n : Writing(b, at, n) \subseteq Misuses
  /\ Terminating \subseteq Misuses
BY DEF Using, Freeing, Writing, Terminating, Misuses

LEMMA HarmTypes ==
  ASSUME TypeOK, NEW kinds, kinds \subseteq Misuses, Harm(kinds)
  PROVE  misused' \subseteq Misuses /\ server' \in {"running", "aborted"}
BY DEF TypeOK, Harm

LEMMA FreeBodyTypes ==
  ASSUME TypeOK, NEW h \in Heap, NEW kinds, kinds \subseteq Misuses, FreeBody(h, kinds)
  PROVE  /\ heap' \in Heap
         /\ misused' \subseteq Misuses /\ server' \in {"running", "aborted"}
<1>1. body_buffer \in Buffers \cup {0}
  BY DEF TypeOK
<1>2. heap' \in Heap
  BY <1>1, HeapTypes DEF FreeBody
<1>3. kinds \cup Freeing(body_buffer) \subseteq Misuses
  BY MisuseTypes
<1> QED
  BY <1>2, <1>3, HarmTypes DEF FreeBody

LEMMA OnRequestTypes ==
  ASSUME TypeOK, NEW c \in Clients, NEW h \in Heap, NEW kinds, kinds \subseteq Misuses,
         OnRequest(c, h, kinds)
  PROVE  /\ heap' \in Heap
         /\ misused' \subseteq Misuses /\ server' \in {"running", "aborted"}
         /\ request'.client \in Clients \cup {0} /\ request'.text \in Contents
         /\ handled' \in [Clients -> Nat]
<1>1. /\ heap' \in Heap
      /\ misused' \subseteq Misuses /\ server' \in {"running", "aborted"}
  <2>1. kinds \cup Using(body_buffer) \subseteq Misuses
    BY MisuseTypes
  <2> QED
    BY <2>1, FreeBodyTypes DEF OnRequest
<1>2. request'.client = c
  BY DEF OnRequest
<1>3. request'.text \in Contents
  <2>1. CASE Live(body_buffer)
    BY <2>1 DEF OnRequest, Live, TypeOK, Heap
  <2>2. CASE ~Live(body_buffer)
    BY <2>2, HeapTypes DEF OnRequest
  <2> QED
    BY <2>1, <2>2
<1>4. handled' \in [Clients -> Nat]
  BY DEF OnRequest, TypeOK
<1> QED
  BY <1>1, <1>2, <1>3, <1>4

\* A read of what is available keeps position behind delivered.
LEMMA ReadTypes ==
  ASSUME TypeOK, NEW c \in Clients, NEW n \in Nat, n <= Available(c),
         Read(c, n), UNCHANGED delivered
  PROVE  /\ delivered' \in [Clients -> 0..StreamSize]
         /\ position' \in [Clients -> 0..StreamSize]
         /\ \A x \in Clients : position'[x] <= delivered'[x]
<1>1. position' = [position EXCEPT ![c] = position[c] + n]
  BY DEF Read
<1>2. position[c] + n <= delivered[c] /\ position[c] + n \in Nat
  BY AvailableFacts
<1>3. position[c] + n \in 0..StreamSize
  BY <1>2, Constants DEF TypeOK
<1> QED
  BY <1>1, <1>2, <1>3 DEF TypeOK

LEMMA InitTypes == Init => TypeOK
<1> SUFFICES ASSUME Init PROVE TypeOK
  OBVIOUS
<1>1. 0 \in 0..StreamSize
  BY Constants
<1>2. NotLive \in Contents
  BY <1>1 DEF NotLive, Contents
<1>3. NoOverflow \in OverFlowRead
  BY DEF NoOverflow, OverFlowRead
<1>4. /\ delivered \in [Clients -> 0..StreamSize]
      /\ position \in [Clients -> 0..StreamSize]
      /\ \A c \in Clients : position[c] <= delivered[c]
      /\ handled \in [Clients -> Nat]
  BY <1>1 DEF Init
<1>5. /\ heap \in [Buffers -> Contents]
      /\ m_overflows \in [Clients -> OverFlowRead]
      /\ request.client \in Clients \cup {0} /\ request.text \in Contents
  BY <1>2, <1>3 DEF Init
<1> QED
  BY <1>4, <1>5 DEF Init, TypeOK, Misuses

LEMMA DeliverTypes ==
  ASSUME TypeOK, NEW c \in Clients, Deliver(c)
  PROVE  TypeOK'
<1>1. PICK n \in (delivered[c] + 1)..StreamSize :
        delivered' = [delivered EXCEPT ![c] = n]
  BY DEF Deliver
<1>2. n \in 0..StreamSize /\ delivered[c] <= n
  BY <1>1, Constants DEF TypeOK
<1>3. delivered' \in [Clients -> 0..StreamSize]
  BY <1>1, <1>2 DEF TypeOK
<1>4. \A x \in Clients : delivered[x] <= delivered'[x]
  BY <1>1, <1>2, Constants DEF TypeOK
<1>5. \A x \in Clients : position'[x] <= delivered'[x]
  BY <1>3, <1>4, Constants DEF TypeOK, Deliver
<1> QED
  BY <1>3, <1>5 DEF TypeOK, Deliver, locals, history

LEMMA ReadHeaderTypes ==
  ASSUME TypeOK, NEW c \in Clients, ReadHeader(c)
  PROVE  TypeOK'
<1> DEFINE n == Least(Available(c), HeaderSize)
<1>1. UNCHANGED <<delivered, closed, revents, m_overflows, server, misused,
                  request, handled>>
  BY DEF ReadHeader, history
<1>2. n \in Nat /\ n <= Available(c)
  BY AvailableFacts, LeastFacts, Constants
<1>3. next \in Nat /\ next + 1 \in Nat
  BY DEF TypeOK
<1>4. CASE /\ Read(c, n)
           /\ body_size' \in (IF Offset(position[c]) = 0 THEN {BodySize}
                                                          ELSE GarbageSizes)
           /\ malloc(c, position[c] + n, body_size')
           /\ pc' = "body" /\ UNCHANGED <<table, next, lost>>
  <2>1. position[c] + n \in 0..StreamSize
    BY <1>2, AvailableFacts, Constants DEF TypeOK
  <2>2. body_size' \in Sizes \cup {0} /\ body_size' \in Int
    BY <1>4, Constants
  <2>3. [of |-> c, from |-> position[c] + n, filled |-> 0, last |-> body_size'] \in Contents
    BY <2>1, <2>2 DEF Contents
  <2>4. heap' \in [Buffers -> Contents] /\ body_buffer' \in Buffers \cup {0}
    BY <1>4, <2>3 DEF malloc, Allocated, NotAllocated, TypeOK
  <2>5. /\ delivered' \in [Clients -> 0..StreamSize]
        /\ position' \in [Clients -> 0..StreamSize]
        /\ \A x \in Clients : position'[x] <= delivered'[x]
    BY <1>1, <1>2, <1>4, ReadTypes
  <2> QED
    BY <1>1, <1>3, <1>4, <2>2, <2>4, <2>5 DEF TypeOK
<1>5. CASE Read(c, n) /\ lost' = lost \cup {c} /\ Skip /\ UNCHANGED <<table, locals, heap>>
  <2>1. /\ delivered' \in [Clients -> 0..StreamSize]
        /\ position' \in [Clients -> 0..StreamSize]
        /\ \A x \in Clients : position'[x] <= delivered'[x]
    BY <1>1, <1>2, <1>5, ReadTypes
  <2> QED
    BY <1>1, <1>3, <1>5, <2>1 DEF TypeOK, Skip, locals
<1>6. CASE RemoveClient(c) /\ Skip /\ UNCHANGED <<position, locals, heap, lost>>
  BY <1>1, <1>3, <1>6 DEF TypeOK, Skip, RemoveClient, locals
<1> QED
  BY <1>4, <1>5, <1>6 DEF ReadHeader

\* What the two reads of a body have in common.
LEMMA DropTypes ==
  ASSUME TypeOK, NEW c \in Clients, NEW kinds, kinds \subseteq Misuses,
         DropWithBody(c, kinds), Skip,
         UNCHANGED <<delivered, closed, revents, locals, lost>>
  PROVE  TypeOK'
<1>1. heap \in Heap
  BY DEF TypeOK, Heap
<1>2. /\ heap' \in Heap
      /\ misused' \subseteq Misuses /\ server' \in {"running", "aborted"}
  BY <1>1, FreeBodyTypes DEF DropWithBody
<1>3. next + 1 \in Nat
  BY DEF TypeOK
<1> QED
  BY <1>2, <1>3 DEF TypeOK, Heap, DropWithBody, RemoveClient, Skip, locals, history

LEMMA RequestTypes ==
  ASSUME TypeOK, NEW c \in Clients, NEW n \in Nat, n <= Available(c), Read(c, n),
         NEW h \in Heap, NEW kinds, kinds \subseteq Misuses, OnRequest(c, h, kinds), Skip,
         m_overflows' \in [Clients -> OverFlowRead],
         UNCHANGED <<delivered, closed, revents, locals, lost, table>>
  PROVE  TypeOK'
<1>1. /\ delivered' \in [Clients -> 0..StreamSize]
      /\ position' \in [Clients -> 0..StreamSize]
      /\ \A x \in Clients : position'[x] <= delivered'[x]
  BY ReadTypes
<1>2. /\ heap' \in Heap
      /\ misused' \subseteq Misuses /\ server' \in {"running", "aborted"}
      /\ request'.client \in Clients \cup {0} /\ request'.text \in Contents
      /\ handled' \in [Clients -> Nat]
  BY OnRequestTypes
<1>3. next + 1 \in Nat
  BY DEF TypeOK
<1> QED
  BY <1>1, <1>2, <1>3 DEF TypeOK, Heap, Skip, locals

LEMMA PieceTypes ==
  ASSUME TypeOK, NEW c \in Clients, NEW n \in Nat, n <= Available(c), Read(c, n),
         heap' \in Heap, NEW kinds, kinds \subseteq Misuses, Harm(kinds), Skip,
         m_overflows' \in [Clients -> OverFlowRead],
         UNCHANGED <<delivered, closed, revents, locals, lost, table, history>>
  PROVE  TypeOK'
<1>1. /\ delivered' \in [Clients -> 0..StreamSize]
      /\ position' \in [Clients -> 0..StreamSize]
      /\ \A x \in Clients : position'[x] <= delivered'[x]
  BY ReadTypes
<1>2. misused' \subseteq Misuses /\ server' \in {"running", "aborted"}
  BY HarmTypes
<1>3. next + 1 \in Nat
  BY DEF TypeOK
<1> QED
  BY <1>1, <1>2, <1>3 DEF TypeOK, Heap, Skip, locals, history

LEMMA ReadBodyTypes ==
  ASSUME TypeOK, NEW c \in Clients, ReadBody(c)
  PROVE  TypeOK'
<1> DEFINE n == BodyBytes(c)
           h == Fill(body_buffer, n)
           written == Writing(body_buffer, 0, n) \cup Terminating
<1>1. UNCHANGED <<delivered, closed, revents, locals, lost>> /\ Skip
  BY DEF ReadBody
<1>2. n \in Nat /\ n <= Available(c) /\ (n > 0 => body_size \in Nat /\ n <= body_size)
  BY BodyBytesFacts
<1>3. heap \in Heap /\ h \in Heap /\ body_buffer \in Buffers \cup {0}
  BY <1>2, HeapTypes DEF TypeOK
<1>4. written \subseteq Misuses /\ Terminating \subseteq Misuses
  BY MisuseTypes
<1>5. CASE DropWithBody(c, {}) \/ DropWithBody(c, Terminating)
  BY <1>1, <1>4, <1>5, DropTypes
<1>6. CASE Read(c, n) /\ OnRequest(c, h, written) /\ UNCHANGED <<table, m_overflows>>
  <2>1. m_overflows' \in [Clients -> OverFlowRead]
    BY <1>6 DEF TypeOK
  <2> HIDE DEF n, h, written
  <2> QED
    BY <1>1, <1>2, <1>3, <1>4, <1>6, <2>1, RequestTypes
<1>7. CASE /\ n > 0 /\ n < body_size /\ Read(c, n) /\ heap' = h /\ Harm(written)
           /\ m_overflows' = StartOverflow(c, n) /\ UNCHANGED <<table, history>>
  <2>1. body_size \in Nat /\ body_size - n \in Nat
    BY <1>2, <1>7
  <2>2. [overflow |-> TRUE, buffer |-> body_buffer, read_size |-> n,
         overflow_size |-> body_size - n, buffer_size |-> body_size] \in OverFlowRead
    BY <1>2, <2>1 DEF OverFlowRead, TypeOK
  <2>3. m_overflows' \in [Clients -> OverFlowRead]
    BY <1>7, <2>2 DEF StartOverflow, TypeOK
  <2> HIDE DEF n, h, written
  <2> QED
    BY <1>1, <1>2, <1>3, <1>4, <1>7, <2>3, PieceTypes
<1> QED
  BY <1>5, <1>6, <1>7 DEF ReadBody, BodyBytes

LEMMA ReadOverflowTypes ==
  ASSUME TypeOK, NEW c \in Clients, ReadOverflow(c)
  PROVE  TypeOK'
<1> DEFINE o == m_overflows[c]
           n == Least(Available(c), o.overflow_size)
           h == Fill(o.buffer, n)
           written == Writing(o.buffer, o.read_size, n)
<1>1. UNCHANGED <<delivered, closed, revents, locals, lost>> /\ Skip
  BY DEF ReadOverflow
<1>2. /\ o \in OverFlowRead /\ o.overflow_size \in Nat /\ o.read_size \in Nat
      /\ o.buffer \in Buffers \cup {0}
  BY DEF TypeOK, OverFlowRead
<1>3. n \in Nat /\ n <= Available(c) /\ n <= o.overflow_size
  BY <1>2, AvailableFacts, LeastFacts
<1>4. heap \in Heap /\ h \in Heap
  BY <1>2, <1>3, HeapTypes
<1>5. written \subseteq Misuses
  BY MisuseTypes
<1>6. CASE DropWithBody(c, {})
  BY <1>1, <1>6, DropTypes
<1>7. CASE /\ Read(c, n) /\ m_overflows' = EndOverflow(c)
           /\ OnRequest(c, h, written) /\ UNCHANGED table
  <2>1. m_overflows' \in [Clients -> OverFlowRead]
    BY <1>7, <1>2 DEF EndOverflow, TypeOK, OverFlowRead
  <2> HIDE DEF o, n, h, written
  <2> QED
    BY <1>1, <1>3, <1>4, <1>5, <1>7, <2>1, RequestTypes
<1>8. CASE /\ Read(c, n) /\ heap' = h /\ Harm(written)
           /\ m_overflows' = GoOnOverflow(c, n) /\ UNCHANGED <<table, history>>
  <2> DEFINE q == [o EXCEPT !.read_size = @ + n, !.overflow_size = @ - n]
  <2>1. m_overflows' = [m_overflows EXCEPT ![c] = q]
    BY <1>8, <1>2 DEF GoOnOverflow, TypeOK, OverFlowRead
  <2>2. o.read_size + n \in Nat /\ o.overflow_size - n \in Nat
    <3> HIDE DEF o, n
    <3> QED
      BY <1>2, <1>3
  <2>3. q \in OverFlowRead
    <3> HIDE DEF o, n
    <3> QED
      BY <1>2, <2>2 DEF OverFlowRead
  <2>4. m_overflows' \in [Clients -> OverFlowRead]
    BY <2>1, <2>3 DEF TypeOK
  <2> HIDE DEF o, n, h, q, written
  <2> QED
    BY <1>1, <1>3, <1>4, <1>5, <1>8, <2>4, PieceTypes
<1> QED
  BY <1>6, <1>7, <1>8 DEF ReadOverflow

LEMMA NextTypes == TypeOK /\ [Next]_vars => TypeOK'
<1> SUFFICES ASSUME TypeOK, [Next]_vars PROVE TypeOK'
  OBVIOUS
<1>1. ASSUME NEW c \in Clients, Deliver(c) PROVE TypeOK'
  BY <1>1, DeliverTypes
<1>2. ASSUME NEW c \in Clients, Leave(c) PROVE TypeOK'
  BY <1>2 DEF Leave, TypeOK, locals, history
<1>3. CASE Poll
  BY <1>3 DEF Poll, TypeOK, kernel, locals, history
<1>4. CASE ScanDone
  BY <1>4 DEF ScanDone, TypeOK, kernel, locals, history
<1>5. ASSUME NEW c \in Clients, Idle(c) PROVE TypeOK'
  BY <1>5 DEF Idle, TypeOK, kernel, locals, history
<1>6. ASSUME NEW c \in Clients, ReadHeader(c) PROVE TypeOK'
  BY <1>6, ReadHeaderTypes
<1>7. ASSUME NEW c \in Clients, ReadBody(c) PROVE TypeOK'
  BY <1>7, ReadBodyTypes
<1>8. ASSUME NEW c \in Clients, ReadOverflow(c) PROVE TypeOK'
  BY <1>8, ReadOverflowTypes
<1>9. CASE UNCHANGED vars
  BY <1>9 DEF TypeOK, vars, kernel, locals, history
<1> QED
  BY <1>1, <1>2, <1>3, <1>4, <1>5, <1>6, <1>7, <1>8, <1>9 DEF Next, Network, Start

\* No byte is read before it has arrived or past the end of a stream, and sizes
\* and buffers stay among those headers announce and malloc returns.
THEOREM TypeCorrect == Spec => []TypeOK
BY InitTypes, NextTypes, PTL DEF Spec

-----------------------------------------------------------------------------
\* One client, however its stream is cut, or several whose messages arrive whole.

\* Where the messages of c that OnRequest was given end, while c is not lost.
Handled(c) == handled[c] * MessageSize

Reassembling == {c \in table : m_overflows[c].overflow}
ReadingBody(c) == pc = "body" /\ next = c
Alone(c) == Clients = {c}

\* A stream ends between messages, unless its client is alone.
Arrived(c) == Alone(c) \/ (Offset(delivered[c]) = 0 /\ c \notin lost)

\* How far the server has got in the stream of a client.
Place(c) ==
  /\ ReadingBody(c) => position[c] = Handled(c) + HeaderSize
  /\ m_overflows[c].overflow =>
       position[c] = Handled(c) + HeaderSize + m_overflows[c].read_size
  /\ ~ReadingBody(c) /\ ~m_overflows[c].overflow => position[c] = Handled(c)

\* The first n bytes of the body c is sending, as contents of a buffer.
Part(c, n) == [of |-> c, from |-> Handled(c) + HeaderSize, filled |-> n, last |-> BodySize]

\* The one live buffer is body_buffer and c's; while c is not lost it holds the
\* first n bytes of its next body.
Holds(c, n, last) ==
  /\ body_buffer \in Buffers
  /\ \A b \in Buffers \ {body_buffer} : heap[b] = NotLive
  /\ heap[body_buffer].of = c /\ heap[body_buffer].last = last
  /\ c \notin lost => heap[body_buffer] = Part(c, n)
NoBuffer == \A b \in Buffers : heap[b] = NotLive

Held ==
  /\ pc = "body" =>
       /\ Reassembling = {} /\ next \in revents
       /\ next \notin lost => body_size = BodySize
       /\ \/ Holds(next, 0, body_size)
          \/ NoBuffer /\ body_buffer = 0
  /\ pc # "body" /\ Reassembling = {} => NoBuffer
  /\ \A c \in Reassembling :
       LET o == m_overflows[c]
       IN  /\ Alone(c) /\ o.buffer = body_buffer /\ o.overflow_size > 0
           /\ Holds(c, o.read_size, o.read_size + o.overflow_size)
           /\ c \notin lost => o.read_size + o.overflow_size = BodySize

\* A client removed in this scan is not met again.
Ahead == pc # "poll" => \A c \in revents : next <= c => c \in table

SoloInv ==
  /\ TypeOK /\ misused \subseteq {"size"}
  /\ \A c \in Clients : Arrived(c)
  /\ \A c \in table : c \notin lost => Place(c)
  /\ Held /\ Ahead

LEMMA Division ==
  ASSUME NEW n \in Nat, NEW m \in Nat \ {0}
  PROVE  \E q, r \in Nat : n % m = r /\ r < m /\ n = q * m + r
<1>1. n % m \in Nat /\ n % m < m
  OBVIOUS
<1>2. n \div m \in Nat
  OBVIOUS
<1>3. n = (n \div m) * m + (n % m)
  OBVIOUS
<1> QED
  BY <1>1, <1>2, <1>3

LEMMA Products ==
  ASSUME NEW a \in Nat, NEW b \in Nat, NEW m \in Nat, a < b
  PROVE  a * m + m <= b * m
<1>1. PICK d \in Nat : b = a + 1 + d
  <2>1. b - a - 1 \in Nat /\ b = a + 1 + (b - a - 1)
    OBVIOUS
  <2> QED BY <2>1
<1>2. b * m = a * m + m + d * m
  BY <1>1
<1>3. d * m \in Nat
  OBVIOUS
<1> QED
  BY <1>2, <1>3

LEMMA Multiple ==
  ASSUME NEW k \in Nat, NEW m \in Nat \ {0}
  PROVE  (k * m) % m = 0
<1>1. PICK q \in Nat, r \in Nat : (k * m) % m = r /\ r < m /\ k * m = q * m + r
  <2>1. k * m \in Nat
    OBVIOUS
  <2> QED BY <2>1, Division
<1>2. k * m \in Nat /\ q * m \in Nat
  OBVIOUS
<1>3. ~(q < k)
  BY <1>1, <1>2, Products
<1>4. ~(k < q)
  BY <1>1, <1>2, Products
<1>5. k = q
  BY <1>3, <1>4
<1> QED
  BY <1>1, <1>2, <1>5

LEMMA PastBoundary ==
  ASSUME NEW k \in Nat, NEW d \in Nat, NEW m \in Nat \ {0}, d > k * m, d % m = 0
  PROVE  d >= k * m + m
<1>1. PICK q \in Nat, r \in Nat : d % m = r /\ r < m /\ d = q * m + r
  BY Division
<1>2. k * m \in Nat /\ q * m \in Nat
  OBVIOUS
<1>3. CASE k < q
  <2>1. k * m + m <= q * m
    BY <1>3, Products
  <2> QED
    BY <2>1, <1>1, <1>2
<1>4. CASE k = q
  BY <1>1, <1>2, <1>4
<1>5. CASE q < k
  <2>1. q * m + m <= k * m
    BY <1>5, Products
  <2> QED
    BY <2>1, <1>1, <1>2
<1> QED
  BY <1>3, <1>4, <1>5

\* What Solo says of the ends of deliveries.
LEMMA SoloEnds ==
  ASSUME Solo, NEW c \in Clients, NEW n \in Nat, MayEndAt(n)
  PROVE  Alone(c) \/ Offset(n) = 0
<1>1. CASE ClientCount = 1
  BY <1>1 DEF Clients, Alone
<1>2. CASE Cuts = {}
  <2>1. Offset(n) \in Nat /\ Offset(n) < MessageSize
    BY Constants DEF Offset
  <2> QED
    BY <1>2, <2>1, Constants DEF MayEndAt
<1> QED
  BY <1>1, <1>2 DEF Solo

\* Messages that were handled end at an offset of 0.
LEMMA HandledFacts ==
  ASSUME TypeOK, NEW c \in Clients
  PROVE  Handled(c) \in Nat /\ Offset(Handled(c)) = 0
<1>1. handled[c] \in Nat /\ MessageSize \in Nat \ {0}
  BY Constants DEF TypeOK
<1>2. handled[c] * MessageSize \in Nat
  BY <1>1
<1>3. (handled[c] * MessageSize) % MessageSize = 0
  BY <1>1, Multiple
<1> QED
  BY <1>2, <1>3 DEF Handled, Offset

\* What has arrived of a message is all of it, unless its client is alone.
LEMMA ArrivedPast ==
  ASSUME TypeOK, NEW c \in Clients, Arrived(c), ~Alone(c), delivered[c] > Handled(c)
  PROVE  delivered[c] >= Handled(c) + MessageSize
<1>1. handled[c] \in Nat /\ delivered[c] \in Nat /\ MessageSize \in Nat \ {0}
  BY Constants, AvailableFacts DEF TypeOK
<1>2. delivered[c] > handled[c] * MessageSize /\ delivered[c] % MessageSize = 0
  BY DEF Handled, Arrived, Offset
<1> QED
  BY <1>1, <1>2, PastBoundary DEF Handled

\* The one live buffer, written, filled and freed.
LEMMA HoldsFacts ==
  ASSUME TypeOK, NEW c \in Clients, NEW k \in Nat, NEW n \in Nat, NEW last \in Int,
         Holds(c, k, last)
  PROVE  /\ Live(body_buffer)
         /\ Using(body_buffer) = {} /\ Freeing(body_buffer) = {}
         /\ \A at, m \in Nat : at + (m - 1) <= last => Writing(body_buffer, at, m) = {}
         /\ \A b \in Buffers : /\ Free(heap, body_buffer)[b] = NotLive
                               /\ Free(Fill(body_buffer, n), body_buffer)[b] = NotLive
<1>1. /\ body_buffer \in Buffers /\ body_buffer # 0 /\ c # 0
      /\ \A b \in Buffers \ {body_buffer} : heap[b] = NotLive
      /\ heap[body_buffer].of = c /\ heap[body_buffer].last = last
  BY Constants DEF Holds, Clients
<1>2. Live(body_buffer)
  BY <1>1 DEF Live
<1>3. Using(body_buffer) = {} /\ Freeing(body_buffer) = {}
  BY <1>2 DEF Using, Freeing
<1>4. ASSUME NEW at \in Nat, NEW m \in Nat, at + (m - 1) <= last
      PROVE  Writing(body_buffer, at, m) = {}
  BY <1>1, <1>3, <1>4 DEF Writing
<1>5. ASSUME NEW b \in Buffers
      PROVE  /\ Free(heap, body_buffer)[b] = NotLive
             /\ Free(Fill(body_buffer, n), body_buffer)[b] = NotLive
  <2>1. DOMAIN heap = Buffers
    BY DEF TypeOK
  <2>2. DOMAIN Fill(body_buffer, n) = Buffers
    BY <2>1 DEF Fill
  <2>3. b # body_buffer => Fill(body_buffer, n)[b] = heap[b]
    BY <2>1 DEF Fill
  <2> QED
    BY <1>1, <1>2, <2>1, <2>2, <2>3 DEF Free
<1> QED
  BY <1>2, <1>3, <1>4, <1>5

\* The same buffer after a read of n more bytes.
LEMMA HoldsMore ==
  ASSUME TypeOK, NEW c \in Clients, NEW k \in Nat, NEW n \in Nat, NEW last \in Int,
         Holds(c, k, last), heap' = Fill(body_buffer, n),
         UNCHANGED <<body_buffer, handled, lost>>
  PROVE  Holds(c, k + n, last)'
<1>1. Live(body_buffer)
  BY HoldsFacts
<1>2. heap' = [heap EXCEPT ![body_buffer].filled = @ + n]
  BY <1>1 DEF Fill
<1>3. DOMAIN heap = Buffers /\ body_buffer \in Buffers /\ heap[body_buffer] \in Contents
  BY DEF TypeOK, Holds
<1>4. heap'[body_buffer] = [heap[body_buffer] EXCEPT !.filled = heap[body_buffer].filled + n]
  BY <1>2, <1>3
<1>5. \A b \in Buffers \ {body_buffer} : heap'[b] = heap[b]
  BY <1>2, <1>3
<1>6. c \notin lost => heap'[body_buffer] = Part(c, k + n)
  BY <1>4 DEF Holds, Part
<1>7. Part(c, k + n)' = Part(c, k + n)
  BY DEF Part, Handled
<1>8. heap'[body_buffer].of = c /\ heap'[body_buffer].last = last
  BY <1>3, <1>4 DEF Holds, Contents
<1> QED
  BY <1>3, <1>5, <1>6, <1>7, <1>8 DEF Holds

LEMMA InitSolo == Init => SoloInv
<1> SUFFICES ASSUME Init PROVE SoloInv
  OBVIOUS
<1>1. TypeOK /\ misused = {} /\ lost = {}
  BY InitTypes DEF Init
<1>2. Reassembling = {} /\ pc = "poll"
  BY DEF Init, Reassembling, NoOverflow
<1>3. MessageSize \in Nat \ {0}
  BY Constants
<1>4. \A c \in Clients : Handled(c) = 0
  BY <1>3 DEF Init, Handled
<1>5. \A c \in Clients : Arrived(c)
  <2>1. \A c \in Clients : Offset(Handled(c)) = 0
    BY <1>1, HandledFacts
  <2> QED
    BY <1>1, <2>1, <1>4 DEF Init, Arrived
<1>6. \A c \in Clients : Place(c)
  BY <1>2, <1>4 DEF Init, Place, ReadingBody, NoOverflow
<1>7. Held /\ Ahead
  BY <1>2 DEF Init, Held, Ahead, NoBuffer
<1> QED
  BY <1>1, <1>5, <1>6, <1>7 DEF SoloInv, Init

LEMMA DeliverSolo ==
  ASSUME Solo, SoloInv, TypeOK', NEW c \in Clients, Deliver(c)
  PROVE  SoloInv'
<1>1. UNCHANGED <<position, closed, table, revents, next, pc, body_size, body_buffer,
                  heap, m_overflows, server, misused, lost, request, handled>>
  BY DEF Deliver, locals, history
<1>2. PICK n \in (delivered[c] + 1)..StreamSize :
        MayEndAt(n) /\ delivered' = [delivered EXCEPT ![c] = n]
  BY DEF Deliver
<1>3. n \in Nat
  BY <1>2, Constants, AvailableFacts DEF SoloInv
<1>4. ASSUME NEW x \in Clients PROVE Arrived(x)'
  <2>1. CASE x = c
    <3>1. delivered'[x] = n
      BY <1>2, <2>1 DEF SoloInv, TypeOK
    <3> QED
      BY <1>1, <1>2, <1>3, <2>1, <3>1, SoloEnds DEF SoloInv, Arrived, Alone
  <2>2. CASE x # c
    BY <1>1, <1>2, <2>2 DEF SoloInv, TypeOK, Arrived, Alone
  <2> QED
    BY <2>1, <2>2
<1>5. \A x \in table : x \notin lost => Place(x)'
  BY <1>1 DEF SoloInv, Place, ReadingBody, Handled
<1>6. Held'
  BY <1>1 DEF SoloInv, Held, Reassembling, Alone, Holds, Part, Handled, NoBuffer
<1>7. Ahead'
  BY <1>1 DEF SoloInv, Ahead
<1> QED
  BY <1>1, <1>4, <1>5, <1>6, <1>7 DEF SoloInv

\* Steps that move no byte and touch no buffer.
LEMMA QuietSolo ==
  ASSUME SoloInv, TypeOK', Ahead',
         UNCHANGED <<delivered, position, table, locals, heap, m_overflows, misused,
                     lost, handled>>,
         \/ UNCHANGED <<revents, next, pc>>
         \/ pc # "body" /\ pc' # "body"
  PROVE  SoloInv'
<1>1. UNCHANGED <<body_size, body_buffer>>
  BY DEF locals
<1>2. \A x \in Clients : Arrived(x)'
  BY DEF SoloInv, Arrived, Alone
<1>3. \A x \in table : x \notin lost => Place(x)'
  BY DEF SoloInv, Place, ReadingBody, Handled
<1>4. Held'
  BY <1>1 DEF SoloInv, Held, Reassembling, Alone, Holds, Part, Handled, NoBuffer
<1> QED
  BY <1>2, <1>3, <1>4 DEF SoloInv

\* The scan goes on behind next.
LEMMA AheadSkip ==
  ASSUME SoloInv, pc # "poll", next' = next + 1, UNCHANGED revents,
         table' = table \/ table' = table \ {next}
  PROVE  Ahead'
<1>1. \A x \in revents : next <= x => x \in table
  BY DEF SoloInv, Ahead
<1>2. revents \subseteq Clients /\ next \in Nat
  BY DEF SoloInv, TypeOK
<1> QED
  BY <1>1, <1>2 DEF Ahead, Clients

LEMMA ReadHeaderSolo ==
  ASSUME SoloInv, TypeOK', NEW c \in Clients, ReadHeader(c)
  PROVE  SoloInv'
<1> DEFINE n == Least(Available(c), HeaderSize)
<1>1. UNCHANGED <<delivered, closed, revents, m_overflows, server, misused, request,
                  handled>>
  BY DEF ReadHeader, history
<1>2. /\ TypeOK /\ pc = "scan" /\ next = c /\ c \in revents /\ c \in table
      /\ ~m_overflows[c].overflow
  BY DEF ReadHeader, Scanning, SoloInv, Ahead, TypeOK
<1>3. Reassembling = {} /\ NoBuffer
  <2>1. ASSUME NEW x \in Reassembling PROVE FALSE
    <3>1. Alone(x) /\ m_overflows[x].overflow
      BY <2>1 DEF SoloInv, Held, Reassembling
    <3> QED
      BY <1>2, <3>1 DEF Alone
  <2>2. Reassembling = {}
    BY <2>1
  <2> QED
    BY <1>2, <2>2 DEF SoloInv, Held
<1>4. Handled(c) \in Nat /\ Offset(Handled(c)) = 0 /\ (c \notin lost => position[c] = Handled(c))
  BY <1>2, HandledFacts DEF SoloInv, Place, ReadingBody
<1>5. /\ position[c] + Available(c) = delivered[c] /\ Available(c) \in Nat
      /\ position[c] \in Nat
      /\ n \in Nat /\ n <= Available(c) /\ (n < HeaderSize => n = Available(c))
  BY <1>2, AvailableFacts, LeastFacts, Constants DEF Least
<1>6. \A x \in Clients : Handled(x)' = Handled(x)
  BY <1>1 DEF Handled
<1>7. CASE /\ n = HeaderSize /\ Read(c, n)
           /\ body_size' \in (IF Offset(position[c]) = 0 THEN {BodySize}
                                                          ELSE GarbageSizes)
           /\ malloc(c, position[c] + n, body_size')
           /\ pc' = "body" /\ UNCHANGED <<table, next, lost>>
  <2>1. c \notin lost => body_size' = BodySize
    BY <1>4, <1>7
  <2>2. Holds(c, 0, body_size)' \/ (NoBuffer' /\ body_buffer' = 0)
    <3>1. CASE Allocated(c, position[c] + n, body_size')
      <4> DEFINE new == [of |-> c, from |-> position[c] + n, filled |-> 0, last |-> body_size']
      <4>1. PICK b \in Buffers : heap' = [heap EXCEPT ![b] = new] /\ body_buffer' = b
        BY <3>1 DEF Allocated
      <4>2. DOMAIN heap = Buffers
        BY <1>2 DEF TypeOK
      <4>3. heap'[b] = new /\ \A a \in Buffers \ {b} : heap'[a] = NotLive
        BY <1>3, <4>1, <4>2 DEF NoBuffer
      <4>4. c \notin lost => new = Part(c, 0)'
        BY <1>4, <1>6, <1>7, <2>1 DEF Part
      <4>5. new.of = c /\ new.last = body_size'
        OBVIOUS
      <4> HIDE DEF new
      <4> QED
        BY <1>7, <4>1, <4>3, <4>4, <4>5 DEF Holds
    <3>2. CASE NotAllocated
      BY <1>3, <3>2 DEF NotAllocated, NoBuffer
    <3> QED
      BY <1>7, <3>1, <3>2 DEF malloc
  <2>3. Reassembling' = {}
    BY <1>1, <1>3, <1>7 DEF Reassembling
  <2>4. Held'
    BY <1>1, <1>2, <1>7, <2>1, <2>2, <2>3 DEF Held
  <2>5. position'[c] = position[c] + HeaderSize
        /\ \A x \in Clients \ {c} : position'[x] = position[x]
    BY <1>2, <1>7 DEF Read, TypeOK
  <2>6. ASSUME NEW x \in table', x \notin lost' PROVE Place(x)'
    <3>1. x \in table /\ x \in Clients /\ x \notin lost /\ Place(x) /\ ~m_overflows[x].overflow
      BY <1>2, <1>3, <1>7, <2>6 DEF SoloInv, TypeOK, Reassembling
    <3>2. CASE x = c
      BY <1>1, <1>2, <1>4, <1>6, <1>7, <2>5, <3>1, <3>2 DEF Place, ReadingBody
    <3>3. CASE x # c
      BY <1>1, <1>2, <1>6, <1>7, <2>5, <3>1, <3>3 DEF Place, ReadingBody
    <3> QED
      BY <3>2, <3>3
  <2>7. Ahead'
    BY <1>1, <1>2, <1>7 DEF SoloInv, Ahead
  <2>8. \A x \in Clients : Arrived(x)'
    BY <1>1, <1>7 DEF SoloInv, Arrived, Alone
  <2> QED
    BY <1>1, <2>4, <2>6, <2>7, <2>8 DEF SoloInv
<1>8. CASE /\ n \in 1..(HeaderSize - 1) /\ Read(c, n) /\ lost' = lost \cup {c}
           /\ Skip /\ UNCHANGED <<table, locals, heap>>
  <2>1. HeaderSize \in Nat
    BY Constants
  <2>2. n = Available(c) /\ n > 0 /\ n < HeaderSize
    BY <1>5, <1>8, <2>1
  <2>3. Alone(c)
    <3>1. SUFFICES ASSUME ~Alone(c) PROVE FALSE
      OBVIOUS
    <3>2. Arrived(c) /\ c \notin lost
      BY <3>1 DEF SoloInv, Arrived
    <3>3. position[c] = Handled(c)
      BY <1>4, <3>2
    <3>4. delivered[c] > Handled(c)
      BY <1>4, <1>5, <2>2, <3>3
    <3>5. delivered[c] >= Handled(c) + MessageSize
      BY <1>2, <3>1, <3>2, <3>4, ArrivedPast
    <3>6. MessageSize > HeaderSize /\ MessageSize \in Nat
      BY Constants DEF MessageSize
    <3> QED
      BY <1>4, <1>5, <2>1, <2>2, <3>3, <3>5, <3>6
  <2>4. pc' = "scan" /\ next' = next + 1 /\ UNCHANGED <<body_size, body_buffer>>
    BY <1>8 DEF Skip, locals
  <2>5. Reassembling' = {}
    BY <1>1, <1>3, <1>8 DEF Reassembling
  <2>6. Held'
    BY <1>3, <1>8, <2>4, <2>5 DEF Held, NoBuffer
  <2>7. \A x \in Clients : x = c /\ x \in lost' /\ Arrived(x)'
    BY <1>8, <2>3 DEF Alone, Arrived
  <2>8. Ahead'
    BY <1>1, <1>2, <1>8, <2>4, AheadSkip
  <2>9. \A x \in table' : x \in lost'
    BY <1>2, <1>8, <2>7 DEF TypeOK
  <2> QED
    BY <1>1, <2>6, <2>7, <2>8, <2>9 DEF SoloInv
<1>9. CASE RemoveClient(c) /\ Skip /\ UNCHANGED <<position, locals, heap, lost>>
  <2>1. table' = table \ {c} /\ pc' = "scan" /\ next' = next + 1
        /\ UNCHANGED <<body_size, body_buffer>>
    BY <1>9 DEF RemoveClient, Skip, locals
  <2>2. Reassembling' = {}
    BY <1>1, <1>3, <2>1 DEF Reassembling
  <2>3. Held'
    BY <1>3, <1>9, <2>1, <2>2 DEF Held, NoBuffer
  <2>4. \A x \in table' : x \notin lost' => Place(x)'
    BY <1>1, <1>2, <1>6, <1>9, <2>1 DEF SoloInv, Place, ReadingBody, TypeOK
  <2>5. Ahead'
    BY <1>1, <1>2, <2>1, AheadSkip
  <2>6. \A x \in Clients : Arrived(x)'
    BY <1>1, <1>9 DEF SoloInv, Arrived, Alone
  <2> QED
    BY <1>1, <2>3, <2>4, <2>5, <2>6 DEF SoloInv
<1> QED
  BY <1>7, <1>8, <1>9 DEF ReadHeader

\* The request c makes is its next message, unless c is lost, and nobody else
\* makes one.
Whole(c) ==
  /\ c \notin lost => request' = [client |-> c, text |-> Part(c, BodySize)]
  /\ \A x \in Clients \ {c} : handled'[x] = handled[x]

\* After a whole body everything is as it was before its header.
LEMMA WholeSolo ==
  ASSUME SoloInv, TypeOK', NEW c \in table, next = c, pc \in {"scan", "body"},
         NEW k \in Nat, NEW n \in Nat, Holds(c, k, k + n),
         c \notin lost => k + n = BodySize /\ position[c] = Handled(c) + HeaderSize + k,
         Read(c, n), OnRequest(c, Fill(body_buffer, n), {}),
         UNCHANGED <<delivered, revents, locals, lost, table>>, Skip,
         Reassembling' = {},
         \A x \in Clients : m_overflows'[x].overflow => m_overflows[x].overflow
  PROVE  SoloInv' /\ Whole(c)
<1> DEFINE h == Fill(body_buffer, n)
<1>1. TypeOK /\ c \in Clients /\ misused \subseteq {"size"} /\ k + n \in Int
  BY DEF SoloInv, TypeOK
<1>2. /\ Live(body_buffer) /\ Using(body_buffer) = {} /\ Freeing(body_buffer) = {}
      /\ \A b \in Buffers : Free(h, body_buffer)[b] = NotLive
  BY <1>1, HoldsFacts
<1>3. NoBuffer' /\ misused' \subseteq {"size"}
  BY <1>1, <1>2 DEF OnRequest, FreeBody, Harm, NoBuffer
<1>4. c \notin lost => request' = [client |-> c, text |-> Part(c, BodySize)]
  <2>1. SUFFICES ASSUME c \notin lost
                 PROVE  request' = [client |-> c, text |-> Part(c, BodySize)]
    OBVIOUS
  <2>2. heap[body_buffer] = Part(c, k) /\ body_buffer \in Buffers /\ DOMAIN heap = Buffers
    BY <1>1, <2>1 DEF Holds, TypeOK
  <2>3. h[body_buffer] = [heap[body_buffer] EXCEPT !.filled = heap[body_buffer].filled + n]
    BY <1>2, <2>2 DEF Fill
  <2>4. h[body_buffer] = Part(c, k + n)
    BY <2>2, <2>3 DEF Part
  <2> QED
    BY <1>2, <2>1, <2>4 DEF OnRequest
<1>5. handled' = [handled EXCEPT ![c] = handled[c] + 1]
  BY DEF OnRequest
<1>6. handled'[c] = handled[c] + 1 /\ handled[c] \in Nat /\ MessageSize \in Nat
  BY <1>1, <1>5, Constants DEF TypeOK
<1>7. Handled(c)' = Handled(c) + MessageSize
  <2>1. (handled[c] + 1) * MessageSize = handled[c] * MessageSize + MessageSize
    BY <1>6
  <2> QED
    BY <1>6, <2>1 DEF Handled
<1>8. \A x \in Clients \ {c} : handled'[x] = handled[x] /\ Handled(x)' = Handled(x)
  BY <1>1, <1>5 DEF TypeOK, Handled
<1>9. /\ pc' = "scan" /\ next' = next + 1 /\ UNCHANGED <<body_size, body_buffer>>
  BY DEF Skip, locals
<1>10. \A x \in Clients : Arrived(x)'
  BY DEF SoloInv, Arrived, Alone
<1>11. Held'
  BY <1>3, <1>9 DEF Held
<1>12. /\ c \notin lost => position'[c] = Handled(c)'
       /\ \A x \in Clients \ {c} : position'[x] = position[x]
  <2>1. position'[c] = position[c] + n
        /\ \A x \in Clients \ {c} : position'[x] = position[x]
    BY <1>1 DEF Read, TypeOK
  <2>2. Handled(c) \in Nat /\ HeaderSize \in Nat /\ BodySize \in Nat
    BY <1>1, HandledFacts, Constants
  <2> QED
    BY <1>7, <2>1, <2>2 DEF MessageSize
<1>13. ASSUME NEW x \in table', x \notin lost' PROVE Place(x)'
  <2>1. /\ x \in Clients /\ x \in table /\ x \notin lost /\ Place(x)
        /\ ~m_overflows'[x].overflow
    BY <1>1, <1>13 DEF SoloInv, TypeOK, Reassembling
  <2>2. position'[x] = Handled(x)'
    <3>1. CASE x = c
      BY <1>12, <2>1, <3>1
    <3>2. CASE x # c
      <4>1. ~m_overflows[x].overflow
        BY <3>2, <2>1, <1>1 DEF SoloInv, Held, Reassembling, Alone
      <4> QED
        BY <1>8, <1>12, <2>1, <3>2, <4>1 DEF Place, ReadingBody
    <3> QED
      BY <3>1, <3>2
  <2> QED
    BY <1>9, <2>1, <2>2 DEF Place, ReadingBody
<1>14. Ahead'
  BY <1>9, AheadSkip
<1> QED
  BY <1>3, <1>4, <1>8, <1>10, <1>11, <1>13, <1>14 DEF SoloInv, Whole

\* Part of a body: its client is alone and in overflow mode.
LEMMA PieceSolo ==
  ASSUME SoloInv, TypeOK', NEW c \in table, next = c, Alone(c),
         NEW k \in Nat, NEW n \in Nat, NEW last \in Nat, Holds(c, k, last),
         c \notin lost => position[c] = Handled(c) + HeaderSize + k,
         Read(c, n), heap' = Fill(body_buffer, n), Harm({}),
         UNCHANGED <<delivered, revents, locals, lost, table, history>>, Skip,
         m_overflows'[c].overflow, m_overflows'[c].buffer = body_buffer,
         m_overflows'[c].read_size = k + n, m_overflows'[c].overflow_size > 0,
         k + n + m_overflows'[c].overflow_size = last,
         c \notin lost => last = BodySize, pc \in {"scan", "body"}
  PROVE  SoloInv'
<1>1. /\ TypeOK /\ c \in Clients /\ misused \subseteq {"size"}
      /\ Handled(c) \in Nat /\ HeaderSize \in Nat
  BY HandledFacts, Constants DEF SoloInv, TypeOK
<1>2. /\ pc' = "scan" /\ next' = next + 1 /\ UNCHANGED <<body_size, body_buffer, handled>>
      /\ misused' \subseteq {"size"}
  BY <1>1 DEF Skip, locals, Harm, history
<1>3. Handled(c)' = Handled(c) /\ Alone(c)'
  BY <1>2 DEF Handled, Alone
<1>4. Holds(c, k + n, last)'
  BY <1>1, <1>2, HoldsMore
<1>5. \A x \in Clients : Arrived(x)'
  BY DEF SoloInv, Arrived, Alone
<1>6. Reassembling' = {c}
  BY <1>1, <1>3 DEF Reassembling, Alone, TypeOK
<1>7. Held'
  <2> DEFINE o == m_overflows[c]
  <2>1. o'.read_size = k + n /\ o'.read_size + o'.overflow_size = last
    OBVIOUS
  <2>2. Holds(c, o.read_size, o.read_size + o.overflow_size)'
    BY <1>4, <2>1 DEF Holds, Part, Handled
  <2> QED
    BY <1>2, <1>3, <1>6, <2>1, <2>2 DEF Held
<1>8. c \notin lost => position'[c] = Handled(c) + HeaderSize + (k + n)
  <2>1. position'[c] = position[c] + n
    BY <1>1 DEF Read, TypeOK
  <2> QED
    BY <1>1, <2>1
<1>9. \A x \in table' : x \notin lost' => Place(x)'
  BY <1>1, <1>2, <1>3, <1>8 DEF Place, ReadingBody, Alone, TypeOK
<1>10. Ahead'
  BY <1>2, AheadSkip
<1> QED
  BY <1>2, <1>5, <1>7, <1>9, <1>10 DEF SoloInv

\* A client dropped while its body is read takes its buffer with it.
LEMMA DropSolo ==
  ASSUME SoloInv, TypeOK', NEW c \in table, next = c, NEW kinds, kinds \subseteq {"size"},
         DropWithBody(c, kinds), Skip,
         UNCHANGED <<delivered, closed, revents, locals, lost>>,
         pc = "body" \/ (pc = "scan" /\ c \in Reassembling)
  PROVE  SoloInv' /\ UNCHANGED handled
<1>1. TypeOK /\ c \in Clients /\ misused \subseteq {"size"}
  BY DEF SoloInv, TypeOK
<1>2. /\ table' = table \ {c} /\ UNCHANGED <<position, m_overflows, handled>>
      /\ pc' = "scan" /\ next' = next + 1 /\ UNCHANGED <<body_size, body_buffer>>
  BY DEF DropWithBody, RemoveClient, Skip, locals, history
<1>3. Reassembling' = {}
  <2>1. CASE pc = "body"
    BY <1>2, <2>1 DEF SoloInv, Held, Reassembling
  <2>2. CASE c \in Reassembling
    <3>1. Alone(c)
      BY <2>2 DEF SoloInv, Held
    <3> QED
      BY <1>1, <1>2, <3>1 DEF Reassembling, Alone, TypeOK
  <2> QED
    BY <2>1, <2>2
<1>4. \/ \E k \in Nat, last \in Int : Holds(c, k, last)
      \/ NoBuffer /\ body_buffer = 0
  <2>1. CASE pc = "body"
    <3>1. body_size \in Int /\ 0 \in Nat
      BY <1>1, Constants DEF TypeOK
    <3> QED
      BY <2>1, <3>1 DEF SoloInv, Held
  <2>2. CASE c \in Reassembling
    <3>1. m_overflows[c] \in OverFlowRead
      BY <1>1 DEF TypeOK
    <3>2. /\ m_overflows[c].read_size \in Nat
          /\ m_overflows[c].read_size + m_overflows[c].overflow_size \in Int
      BY <3>1 DEF OverFlowRead
    <3> QED
      BY <2>2, <3>2 DEF SoloInv, Held
  <2> QED
    BY <2>1, <2>2
<1>5. NoBuffer' /\ misused' \subseteq {"size"}
  <2>1. CASE \E k \in Nat, last \in Int : Holds(c, k, last)
    <3>1. PICK k \in Nat, last \in Int : Holds(c, k, last)
      BY <2>1
    <3>2. /\ Freeing(body_buffer) = {}
          /\ \A b \in Buffers : Free(heap, body_buffer)[b] = NotLive
      BY <1>1, <3>1, HoldsFacts
    <3> QED
      BY <1>1, <3>2 DEF DropWithBody, FreeBody, Harm, NoBuffer
  <2>2. CASE NoBuffer /\ body_buffer = 0
    BY <1>1, <2>2 DEF DropWithBody, FreeBody, Harm, NoBuffer, Free, Freeing, Live
  <2> QED
    BY <1>4, <2>1, <2>2
<1>6. Held'
  BY <1>2, <1>3, <1>5 DEF Held
<1>7. \A x \in Clients : Arrived(x)'
  BY DEF SoloInv, Arrived, Alone
<1>8. ASSUME NEW x \in table', x \notin lost' PROVE Place(x)'
  <2>1. x \in table /\ x # c /\ x \in Clients /\ x \notin lost /\ Place(x)
    BY <1>1, <1>2, <1>8 DEF SoloInv, TypeOK
  <2> QED
    BY <1>2, <2>1 DEF Place, ReadingBody, Handled
<1>9. Ahead'
  BY <1>2, AheadSkip
<1> QED
  BY <1>2, <1>5, <1>6, <1>7, <1>8, <1>9 DEF SoloInv

LEMMA ReadBodySolo ==
  ASSUME SoloInv, TypeOK', NEW c \in Clients, ReadBody(c)
  PROVE  SoloInv' /\ (Whole(c) \/ UNCHANGED handled)
<1> DEFINE n == BodyBytes(c)
           h == Fill(body_buffer, n)
           written == Writing(body_buffer, 0, n) \cup Terminating
<1>1. /\ UNCHANGED <<delivered, closed, revents, locals, lost>> /\ Skip
      /\ TypeOK /\ pc = "body" /\ next = c
  BY DEF ReadBody, SoloInv
<1>2. /\ Reassembling = {} /\ c \in revents /\ c \in table
      /\ c \notin lost => body_size = BodySize /\ position[c] = Handled(c) + HeaderSize + 0
      /\ Holds(c, 0, body_size) \/ (NoBuffer /\ body_buffer = 0)
      /\ Handled(c) \in Nat /\ HeaderSize \in Nat \ {0} /\ BodySize \in Nat \ {0}
  <2>1. /\ Reassembling = {} /\ c \in revents /\ (c \notin lost => body_size = BodySize)
        /\ Holds(c, 0, body_size) \/ (NoBuffer /\ body_buffer = 0)
    BY <1>1 DEF SoloInv, Held
  <2>2. c \in table
    BY <1>1, <2>1 DEF SoloInv, Ahead, TypeOK, Clients
  <2>3. Handled(c) \in Nat /\ HeaderSize \in Nat \ {0} /\ BodySize \in Nat \ {0}
    BY <1>1, HandledFacts, Constants
  <2>4. c \notin lost => position[c] = Handled(c) + HeaderSize + 0
    BY <1>1, <2>2, <2>3 DEF SoloInv, Place, ReadingBody
  <2> QED
    BY <2>1, <2>2, <2>3, <2>4
<1>3. /\ n \in Nat /\ n <= Available(c)
      /\ n > 0 => ~NoRoom /\ body_size \in Nat /\ n <= body_size
  BY <1>1, BodyBytesFacts
<1>4. Terminating \subseteq {"size"}
  <2>1. CASE NoRoom
    BY <2>1 DEF Terminating
  <2>2. CASE ~NoRoom
    <3>1. Holds(c, 0, body_size) /\ body_size \in Nat
      BY <1>1, <1>2, <2>2, Constants DEF NoRoom, TypeOK
    <3>2. \A at, m \in Nat : at + (m - 1) <= body_size => Writing(body_buffer, at, m) = {}
      BY <1>1, <3>1, HoldsFacts
    <3>3. body_size + (1 - 1) <= body_size
      BY <3>1
    <3> QED
      BY <2>2, <3>1, <3>2, <3>3 DEF Terminating
  <2> QED
    BY <2>1, <2>2
<1>5. CASE DropWithBody(c, {}) \/ DropWithBody(c, Terminating)
  BY <1>1, <1>2, <1>4, <1>5, DropSolo
<1>6. ASSUME n > 0
      PROVE  Holds(c, 0, body_size) /\ body_size \in Nat /\ n <= body_size /\ written = {}
  <2>1. ~NoRoom /\ Holds(c, 0, body_size) /\ body_size \in Nat /\ n <= body_size
    BY <1>2, <1>3, <1>6 DEF NoRoom
  <2>2. \A at, m \in Nat : at + (m - 1) <= body_size => Writing(body_buffer, at, m) = {}
    BY <1>1, <2>1, HoldsFacts
  <2>3. 0 + (n - 1) <= body_size /\ body_size + (1 - 1) <= body_size
    <3> HIDE DEF n
    <3> QED
      BY <1>3, <2>1
  <2>4. Writing(body_buffer, 0, n) = {} /\ Writing(body_buffer, body_size, 1) = {}
    <3> HIDE DEF n
    <3> QED
      BY <1>3, <2>1, <2>2, <2>3
  <2> QED
    BY <2>1, <2>4 DEF Terminating
<1>7. CASE /\ n > 0 /\ n = body_size /\ Read(c, n) /\ OnRequest(c, h, written)
           /\ UNCHANGED <<table, m_overflows>>
  <2>1. Reassembling' = {}
    BY <1>2, <1>7 DEF Reassembling
  <2>2. Holds(c, 0, 0 + n) /\ OnRequest(c, h, {})
    <3>1. 0 + n = body_size
      BY <1>3, <1>7
    <3> HIDE DEF n, written
    <3> QED
      BY <1>6, <1>7, <3>1
  <2>3. c \notin lost => 0 + n = BodySize
    BY <1>2, <1>7
  <2> HIDE DEF n, written
  <2> QED
    BY <1>1, <1>2, <1>3, <1>7, <2>1, <2>2, <2>3, WholeSolo
<1>8. CASE /\ n > 0 /\ n < body_size /\ Read(c, n) /\ heap' = h /\ Harm(written)
           /\ m_overflows' = StartOverflow(c, n) /\ UNCHANGED <<table, history>>
  <2>1. Holds(c, 0, body_size) /\ body_size \in Nat /\ Harm({})
    BY <1>6, <1>8
  <2>2. Alone(c)
    <3>1. SUFFICES ASSUME ~Alone(c) PROVE FALSE
      OBVIOUS
    <3>2. Arrived(c) /\ c \notin lost
      BY <3>1 DEF SoloInv, Arrived
    <3>3. /\ position[c] + Available(c) = delivered[c] /\ Available(c) \in Nat
          /\ position[c] = Handled(c) + HeaderSize /\ body_size = BodySize
      BY <1>1, <1>2, <3>2, AvailableFacts
    <3>4. n \in {Available(c), body_size}
      BY <1>3, <1>8, <2>1, <3>3, LeastFacts DEF BodyBytes
    <3>5. delivered[c] > Handled(c)
      BY <1>2, <1>3, <1>8, <3>3
    <3>6. delivered[c] >= Handled(c) + (HeaderSize + BodySize)
      BY <1>1, <3>1, <3>2, <3>5, ArrivedPast DEF MessageSize
    <3> HIDE DEF n
    <3> QED
      BY <1>2, <1>3, <1>8, <3>3, <3>4, <3>6
  <2>3. m_overflows'[c]
          = [overflow |-> TRUE, buffer |-> body_buffer, read_size |-> n,
             overflow_size |-> body_size - n, buffer_size |-> body_size]
    BY <1>1, <1>8 DEF StartOverflow, TypeOK
  <2>4. /\ m_overflows'[c].overflow /\ m_overflows'[c].buffer = body_buffer
        /\ m_overflows'[c].read_size = 0 + n /\ m_overflows'[c].overflow_size > 0
        /\ 0 + n + m_overflows'[c].overflow_size = body_size
    <3> HIDE DEF n
    <3> QED
      BY <1>3, <1>8, <2>1, <2>3
  <2>5. UNCHANGED handled
    BY <1>8 DEF history
  <2> HIDE DEF n, written
  <2> QED
    BY <1>1, <1>2, <1>3, <1>8, <2>1, <2>2, <2>4, <2>5, PieceSolo
<1>9. \/ DropWithBody(c, {}) \/ DropWithBody(c, Terminating)
      \/ /\ n > 0 /\ n = body_size /\ Read(c, n) /\ OnRequest(c, h, written)
         /\ UNCHANGED <<table, m_overflows>>
      \/ /\ n > 0 /\ n < body_size /\ Read(c, n) /\ heap' = h /\ Harm(written)
         /\ m_overflows' = StartOverflow(c, n) /\ UNCHANGED <<table, history>>
  BY DEF ReadBody, BodyBytes
<1> HIDE DEF n, h, written
<1> QED
  BY <1>5, <1>7, <1>8, <1>9

LEMMA ReadOverflowSolo ==
  ASSUME SoloInv, TypeOK', NEW c \in Clients, ReadOverflow(c)
  PROVE  SoloInv' /\ (Whole(c) \/ UNCHANGED handled)
<1> DEFINE o == m_overflows[c]
           n == Least(Available(c), o.overflow_size)
           h == Fill(body_buffer, n)
<1>1. /\ UNCHANGED <<delivered, closed, revents, locals, lost>> /\ Skip
      /\ TypeOK /\ pc = "scan" /\ next = c /\ o.overflow /\ c \in revents
  BY DEF ReadOverflow, Scanning, SoloInv
<1>2. c \in table /\ c \in Reassembling
  BY <1>1 DEF SoloInv, Ahead, Reassembling, TypeOK, Clients
<1>3. /\ Alone(c) /\ Holds(c, o.read_size, o.read_size + o.overflow_size)
      /\ o.buffer = body_buffer /\ o.overflow_size > 0
      /\ c \notin lost => /\ o.read_size + o.overflow_size = BodySize
                          /\ position[c] = Handled(c) + HeaderSize + o.read_size
  BY <1>1, <1>2 DEF SoloInv, Held, Place
<1>4. /\ o.read_size \in Nat /\ o.overflow_size \in Nat
      /\ o.read_size + o.overflow_size \in Nat
  BY <1>1 DEF TypeOK, OverFlowRead
<1>5. Available(c) \in Nat /\ n \in Nat /\ n <= o.overflow_size
  BY <1>1, <1>4, AvailableFacts, LeastFacts
<1>6. n > 0 => Writing(body_buffer, o.read_size, n) = {}
  <2>1. \A at, m \in Nat : at + (m - 1) <= o.read_size + o.overflow_size
                             => Writing(body_buffer, at, m) = {}
    <3> HIDE DEF o
    <3> QED
      BY <1>1, <1>3, <1>4, HoldsFacts
  <2>2. o.read_size + (n - 1) <= o.read_size + o.overflow_size
    <3> HIDE DEF o, n
    <3> QED
      BY <1>4, <1>5
  <2> HIDE DEF o, n
  <2> QED
    BY <1>4, <1>5, <2>1, <2>2
<1>7. CASE DropWithBody(c, {})
  BY <1>1, <1>2, <1>7, DropSolo
<1>8. CASE /\ n > 0 /\ n = o.overflow_size /\ Read(c, n) /\ m_overflows' = EndOverflow(c)
           /\ OnRequest(c, h, {}) /\ UNCHANGED table
  <2>1. \A x \in Clients : x = c /\ ~m_overflows'[x].overflow
    BY <1>1, <1>3, <1>8 DEF EndOverflow, Alone, TypeOK, OverFlowRead
  <2>2. Reassembling' = {}
    BY <1>1, <1>8, <2>1 DEF Reassembling, TypeOK
  <2>3. Holds(c, o.read_size, o.read_size + n)
    BY <1>3, <1>8
  <2>4. c \notin lost => o.read_size + n = BodySize
    BY <1>3, <1>8
  <2> HIDE DEF o, n
  <2> QED
    BY <1>1, <1>2, <1>3, <1>4, <1>5, <1>8, <2>1, <2>2, <2>3, <2>4, WholeSolo
<1>9. CASE /\ n > 0 /\ n < o.overflow_size /\ Read(c, n) /\ heap' = h /\ Harm({})
           /\ m_overflows' = GoOnOverflow(c, n) /\ UNCHANGED <<table, history>>
  <2>1. m_overflows'[c]
          = [o EXCEPT !.read_size = o.read_size + n, !.overflow_size = o.overflow_size - n]
    BY <1>1, <1>9 DEF GoOnOverflow, TypeOK, OverFlowRead
  <2>2. /\ m_overflows'[c].overflow /\ m_overflows'[c].buffer = body_buffer
        /\ m_overflows'[c].read_size = o.read_size + n
        /\ m_overflows'[c].overflow_size = o.overflow_size - n
    BY <1>1, <1>3, <2>1 DEF TypeOK, OverFlowRead
  <2>3. /\ o.overflow_size - n > 0
        /\ o.read_size + n + (o.overflow_size - n) = o.read_size + o.overflow_size
    <3> HIDE DEF o, n
    <3> QED
      BY <1>4, <1>5, <1>9
  <2>4. UNCHANGED handled
    BY <1>9 DEF history
  <2> HIDE DEF o, n
  <2> QED
    BY <1>1, <1>2, <1>3, <1>4, <1>5, <1>9, <2>2, <2>3, <2>4, PieceSolo
<1>10. \/ DropWithBody(c, {})
       \/ /\ n > 0 /\ n = o.overflow_size /\ Read(c, n) /\ m_overflows' = EndOverflow(c)
          /\ OnRequest(c, h, {}) /\ UNCHANGED table
       \/ /\ n > 0 /\ n < o.overflow_size /\ Read(c, n) /\ heap' = h /\ Harm({})
          /\ m_overflows' = GoOnOverflow(c, n) /\ UNCHANGED <<table, history>>
  BY <1>3, <1>6 DEF ReadOverflow
<1> HIDE DEF o, n, h
<1> QED
  BY <1>7, <1>8, <1>9, <1>10

LEMMA NextSolo ==
  ASSUME Solo, SoloInv, [Next]_vars
  PROVE  /\ SoloInv'
         /\ \A c \in Clients : handled'[c] # handled[c] => Whole(c)
<1>1. TypeOK'
  BY NextTypes DEF SoloInv
<1>2. ASSUME NEW c \in Clients, Deliver(c)
      PROVE  SoloInv' /\ UNCHANGED handled
  BY <1>1, <1>2, DeliverSolo DEF Deliver, history
<1>3. ASSUME NEW c \in Clients, Leave(c)
      PROVE  SoloInv' /\ UNCHANGED handled
  <2>1. Ahead'
    BY <1>3 DEF SoloInv, Ahead, Leave
  <2> QED
    BY <1>1, <1>3, <2>1, QuietSolo DEF Leave, history
<1>4. CASE Poll
  <2>1. Ahead' /\ UNCHANGED handled
    BY <1>4 DEF Ahead, Poll, history
  <2> QED
    BY <1>1, <1>4, <2>1, QuietSolo DEF Poll, kernel
<1>5. CASE ScanDone
  <2>1. Ahead' /\ UNCHANGED handled
    BY <1>5 DEF Ahead, ScanDone, history
  <2> QED
    BY <1>1, <1>5, <2>1, QuietSolo DEF ScanDone, kernel
<1>6. ASSUME NEW c \in Clients, Idle(c)
      PROVE  SoloInv' /\ UNCHANGED handled
  <2>1. Ahead' /\ UNCHANGED handled
    BY <1>6 DEF SoloInv, Ahead, Idle, Scanning, history, TypeOK, Clients
  <2> QED
    BY <1>1, <1>6, <2>1, QuietSolo DEF Idle, Scanning, kernel
<1>7. ASSUME NEW c \in Clients, ReadHeader(c)
      PROVE  SoloInv' /\ UNCHANGED handled
  BY <1>1, <1>7, ReadHeaderSolo DEF ReadHeader, history
<1>8. ASSUME NEW c \in Clients, ReadBody(c) \/ ReadOverflow(c)
      PROVE  SoloInv' /\ (Whole(c) \/ UNCHANGED handled)
  BY <1>1, <1>8, ReadBodySolo, ReadOverflowSolo
<1>9. CASE UNCHANGED vars
  <2>1. Ahead' /\ UNCHANGED handled
    BY <1>9 DEF SoloInv, Ahead, vars, history
  <2> QED
    BY <1>1, <1>9, <2>1, QuietSolo DEF vars, kernel
<1>10. ASSUME NEW c \in Clients, Whole(c)
       PROVE  \A x \in Clients : handled'[x] # handled[x] => Whole(x)
  BY <1>10 DEF Whole
<1> QED
  BY <1>2, <1>3, <1>4, <1>5, <1>6, <1>7, <1>8, <1>9, <1>10 DEF Next, Network, Start

\* For one client whatever it sends, and for several whose messages come whole,
\* the one buffer in use is body_buffer, and while no header came in two pieces it
\* holds what was read of the next message of its client.
THEOREM SoloHolds == Solo => (Spec => []SoloInv)
<1> SUFFICES ASSUME Solo PROVE Spec => []SoloInv
  OBVIOUS
<1>1. SoloInv /\ [Next]_vars => SoloInv'
  BY NextSolo
<1> QED
  BY InitSolo, <1>1, PTL DEF Spec

\* Then no buffer is written behind its end, freed twice or used after it was
\* freed, whatever sizes headers announce (server.cpp:164 to 206, 368 to 420).
THEOREM HeapIsSafe == Solo => (Spec => []HeapSafe)
<1> SUFFICES ASSUME Solo PROVE Spec => []HeapSafe
  OBVIOUS
<1>1. Spec => []SoloInv
  BY SoloHolds
<1>2. SoloInv => HeapSafe
  BY DEF SoloInv, HeapSafe
<1> QED
  BY <1>1, <1>2, PTL

\* Then between two reads exactly the clients in overflow mode hold a buffer, and
\* what a client that leaves in the middle of a body has read is freed.
THEOREM NothingLeaks == Solo => (Spec => []NoBufferLeaked)
<1> SUFFICES ASSUME Solo PROVE Spec => []NoBufferLeaked
  OBVIOUS
<1>1. Spec => []SoloInv
  BY SoloHolds
<1>2. ASSUME SoloInv, pc # "body"
      PROVE  {b \in Buffers : Live(b)}
               = {m_overflows[c].buffer : c \in {x \in table : m_overflows[x].overflow}}
  <2>1. {m_overflows[c].buffer : c \in Reassembling}
          = {m_overflows[c].buffer : c \in {x \in table : m_overflows[x].overflow}}
    BY DEF Reassembling
  <2>2. CASE Reassembling = {}
    <3>1. NoBuffer
      BY <1>2, <2>2 DEF SoloInv, Held
    <3>2. {b \in Buffers : Live(b)} = {}
      BY <3>1 DEF NoBuffer, Live, NotLive
    <3> QED
      BY <2>1, <2>2, <3>2
  <2>3. ASSUME NEW c \in Reassembling
        PROVE  {b \in Buffers : Live(b)} = {m_overflows[x].buffer : x \in Reassembling}
    <3> DEFINE o == m_overflows[c]
    <3>1. /\ TypeOK /\ c \in Clients /\ Alone(c) /\ o.buffer = body_buffer
          /\ Holds(c, o.read_size, o.read_size + o.overflow_size)
      BY <1>2, <2>3 DEF SoloInv, Held, Reassembling, TypeOK
    <3>2. Reassembling = {c}
      BY <2>3, <3>1 DEF Reassembling, Alone, TypeOK
    <3>3. {b \in Buffers : Live(b)} = {body_buffer}
      <4>1. body_buffer \in Buffers /\ 0 \notin Buffers /\ c # 0
        BY <3>1, Constants DEF Holds, Clients
      <4>2. \A b \in Buffers : heap[b].of = IF b = body_buffer THEN c ELSE 0
        BY <3>1 DEF Holds, NotLive
      <4> QED
        BY <4>1, <4>2 DEF Live
    <3> QED
      BY <3>1, <3>2, <3>3
  <2> QED
    BY <2>1, <2>2, <2>3
<1>3. SoloInv => NoBufferLeaked
  BY <1>2 DEF NoBufferLeaked
<1> QED
  BY <1>1, <1>3, PTL

\* Then every request is the next message of its client, whole and unmixed,
\* however its body was cut and put together again, as long as the server threw
\* away no part of a header.
THEOREM MessagesAreWhole == Solo => (Spec => WholeMessagesInOrder)
<1> SUFFICES ASSUME Solo PROVE Spec => WholeMessagesInOrder
  OBVIOUS
<1>1. Spec => []SoloInv
  BY SoloHolds
<1>2. ASSUME SoloInv, [Next]_vars
      PROVE  [\A c \in Clients : handled'[c] # handled[c] /\ c \notin lost =>
                request' = [client |-> c, text |->
                  [of |-> c, from |-> handled[c] * MessageSize + HeaderSize,
                   filled |-> BodySize, last |-> BodySize]]]_vars
  BY <1>2, NextSolo DEF Whole, Part, Handled
<1> QED
  BY <1>1, <1>2, PTL DEF Spec, WholeMessagesInOrder
=============================================================================
