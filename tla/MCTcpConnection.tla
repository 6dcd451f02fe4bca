-------------------------- MODULE MCTcpConnection --------------------------
(* Model-checking instance of TcpConnection: symmetric threads and messages.*)
EXTENDS TcpConnection, TLC

Symmetry == Permutations(Threads) \cup Permutations(Messages)
=============================================================================
