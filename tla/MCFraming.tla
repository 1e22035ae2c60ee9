----------------------------- MODULE MCFraming ------------------------------
(* Framing for TLC: sizes on both sides of each limit of malloc and read. *)
EXTENDS Framing

MCGarbageSizes == {-2, -1, 0, 1, 4, INT_MAX}
=============================================================================
