------------------------ MODULE ConnectionLifecycle ------------------------
(***************************************************************************)
(* What the references to a TcpConnection promise, with the queues and the *)
(* loops they are in left out: it is made once, reported up and down while *)
(* it is alive, and freed once and for good.                               *)
(***************************************************************************)
CONSTANT Conns

VARIABLES
  life,     \* of each connection: "none", "alive" or "freed"
  reported  \* what connectionCallback_ was told of it

vars == <<life, reported>>

Init ==
  /\ life = [c \in Conns |-> "none"]
  /\ reported = [c \in Conns |-> <<>>]

\* On the base loop the constructor and the up callback are one step.
Made(c) ==
  /\ life[c] = "none"
  /\ life' = [life EXCEPT ![c] = "alive"]
  /\ reported' \in {reported, [reported EXCEPT ![c] = <<"up">>]}

ComesUp(c) ==
  /\ life[c] = "alive" /\ reported[c] = <<>>
  /\ reported' = [reported EXCEPT ![c] = <<"up">>]
  /\ UNCHANGED life

\* ~TcpServer reports with the last reference in its hands.
GoesDown(c) ==
  /\ life[c] = "alive" /\ reported[c] = <<"up">>
  /\ reported' = [reported EXCEPT ![c] = <<"up", "down">>]
  /\ life' \in {life, [life EXCEPT ![c] = "freed"]}

\* The end of a batch frees every connection of which it held the last
\* reference.
Released(S) ==
  /\ \A c \in S : life[c] = "alive"
  /\ life' = [c \in Conns |-> IF c \in S THEN "freed" ELSE life[c]]
  /\ UNCHANGED reported

Next ==
  \/ \E c \in Conns : Made(c) \/ ComesUp(c) \/ GoesDown(c)
  \/ \E S \in SUBSET Conns : Released(S)

Spec == Init /\ [][Next]_vars
=============================================================================
