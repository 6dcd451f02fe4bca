------------------------------ MODULE MCPoller ------------------------------
(* Model-checking instance of Poller: symmetric channels and descriptors.   *)
EXTENDS Poller, TLC

Symmetry == Permutations(Channels) \cup Permutations(Fds)
=============================================================================
