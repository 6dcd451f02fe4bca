---------------------------- MODULE FunctorQueue ----------------------------
(***************************************************************************)
(* What an EventLoop promises to whoever hands it work, without threads,   *)
(* wakeups or batches: functors wait in one queue and run in the order in  *)
(* which they entered it, each exactly once, except that the loop's own    *)
(* thread may run one on the spot (runInLoop) instead of queueing it.      *)
(***************************************************************************)
EXTENDS Sequences

CONSTANT Functors   \* names of the calls that hand a functor to the loop

VARIABLES
  issued,   \* the functors handed over so far
  queue,    \* those that wait, in the order they were queued
  ran       \* those that ran, in the order they started

vars == <<issued, queue, ran>>

Init == issued = {} /\ queue = <<>> /\ ran = <<>>

Submit(f) ==
  /\ f \notin issued
  /\ issued' = issued \cup {f}
  /\ queue' = Append(queue, f)
  /\ UNCHANGED ran

RunNow(f) ==
  /\ f \notin issued
  /\ issued' = issued \cup {f}
  /\ ran' = Append(ran, f)
  /\ UNCHANGED queue

RunNext ==
  /\ queue # <<>>
  /\ ran' = Append(ran, Head(queue))
  /\ queue' = Tail(queue)
  /\ UNCHANGED issued

Next == RunNext \/ \E f \in Functors : Submit(f) \/ RunNow(f)

Spec == Init /\ [][Next]_vars

-----------------------------------------------------------------------------
Occurs(f, s) == \E i \in DOMAIN s : s[i] = f
NoRepeats(s) == \A i, j \in DOMAIN s : s[i] = s[j] => i = j

\* What the queue is for: a functor handed over waits in one place or has run
\* once, and nothing else waits or ran.
ExactlyOnce ==
  /\ NoRepeats(ran) /\ NoRepeats(queue)
  /\ \A f \in Functors : ~(Occurs(f, ran) /\ Occurs(f, queue))
  /\ \A f \in Functors : f \in issued <=> Occurs(f, ran) \/ Occurs(f, queue)
=============================================================================
