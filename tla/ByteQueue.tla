------------------------------ MODULE ByteQueue ------------------------------
(***************************************************************************)
(* What a Buffer promises its users: a queue of bytes.  Bytes are numbered *)
(* in the order they are given, so that one lost, repeated, out of place   *)
(* or made up shows.                                                       *)
(***************************************************************************)
EXTENDS Naturals, Sequences

VARIABLES
  given,  \* number of bytes given so far
  queue   \* the bytes that can be read

vars == <<given, queue>>

\* The next n bytes, after the first g.
Fresh(g, n) == [i \in 1 .. n |-> g + i]

Init == given = 0 /\ queue = <<>>

Give ==
  /\ given' \in Nat /\ given' > given
  /\ queue' = queue \o Fresh(given, given' - given)

Take ==
  /\ \E n \in 0 .. Len(queue) : queue' = SubSeq(queue, n + 1, Len(queue))
  /\ UNCHANGED given

Next == Give \/ Take

Spec == Init /\ [][Next]_vars
=============================================================================
