-------------------------- MODULE FunctorQueueProofs --------------------------
(***************************************************************************)
(* What an event loop's queue of functors is good for, for any functors:   *)
(* proved of the abstract queue, it holds of all that implements it.       *)
(***************************************************************************)
EXTENDS FunctorQueue, Naturals, TLAPS

Types == queue \in Seq(Functors) /\ ran \in Seq(Functors)

Inv == Types /\ ExactlyOnce

\* A new element at the end of a sequence occurs there, and nothing else does.
LEMMA OccursInAppend ==
  ASSUME NEW S, NEW s \in Seq(S), NEW e \in S, NEW f
  PROVE  Occurs(f, Append(s, e)) <=> Occurs(f, s) \/ f = e
<1> DEFINE t == Append(s, e)
<1>1. /\ DOMAIN s = 1 .. Len(s) /\ DOMAIN t = 1 .. Len(s) + 1 /\ Len(s) \in Nat
      /\ \A i \in DOMAIN s : t[i] = s[i]
      /\ t[Len(s) + 1] = e
  OBVIOUS
<1>2. \A i \in DOMAIN t : i \in DOMAIN s \/ i = Len(s) + 1
  BY <1>1
<1>3. DOMAIN s \subseteq DOMAIN t /\ Len(s) + 1 \in DOMAIN t
  BY <1>1
<1> HIDE DEF t
<1>4. Occurs(f, t) <=> Occurs(f, s) \/ f = e
  BY <1>1, <1>2, <1>3, Zenon DEF Occurs
<1> QED
  BY <1>4 DEF t

\* A new element that did not occur in a sequence does not repeat one.
LEMMA NoRepeatsInAppend ==
  ASSUME NEW S, NEW s \in Seq(S), NEW e \in S, NoRepeats(s), ~Occurs(e, s)
  PROVE  NoRepeats(Append(s, e))
<1> DEFINE t == Append(s, e)
<1>1. /\ DOMAIN s = 1 .. Len(s) /\ DOMAIN t = 1 .. Len(s) + 1 /\ Len(s) \in Nat
      /\ \A i \in DOMAIN s : t[i] = s[i]
      /\ t[Len(s) + 1] = e
  OBVIOUS
<1>2. \A i \in DOMAIN t : i \in DOMAIN s \/ i = Len(s) + 1
  BY <1>1
<1> HIDE DEF t
<1>3. NoRepeats(t)
  BY <1>1, <1>2, Zenon DEF NoRepeats, Occurs
<1> QED
  BY <1>3 DEF t

\* The head of a sequence without repetitions does not occur in its tail.
LEMMA HeadAndTail ==
  ASSUME NEW S, NEW s \in Seq(S), s # <<>>, NoRepeats(s)
  PROVE  /\ NoRepeats(Tail(s)) /\ ~Occurs(Head(s), Tail(s))
         /\ \A f : Occurs(f, s) <=> Occurs(f, Tail(s)) \/ f = Head(s)
<1> DEFINE t == Tail(s)
<1>1. /\ DOMAIN s = 1 .. Len(s) /\ DOMAIN t = 1 .. Len(s) - 1 /\ Len(s) \in Nat \ {0}
      /\ \A i \in DOMAIN t : t[i] = s[i + 1]
      /\ Head(s) = s[1]
  OBVIOUS
<1>2. \A i \in DOMAIN t : i + 1 \in DOMAIN s /\ i + 1 # 1
  BY <1>1
<1>3. \A i, j \in DOMAIN t : i + 1 = j + 1 => i = j
  BY <1>1
<1>4. 1 \in DOMAIN s /\ \A i \in DOMAIN s : i = 1 \/ \E j \in DOMAIN t : i = j + 1
  <2>1. \A i \in DOMAIN s : i = 1 \/ (i - 1 \in DOMAIN t /\ i = (i - 1) + 1)
    BY <1>1
  <2> QED
    BY <1>1, <2>1
<1> HIDE DEF t
<1>5. NoRepeats(t)
  BY <1>1, <1>2, <1>3, Zenon DEF NoRepeats
<1>6. ~Occurs(Head(s), t)
  <2> SUFFICES ASSUME NEW i \in DOMAIN t, t[i] = Head(s) PROVE FALSE
    BY DEF Occurs
  <2>0. i + 1 \in DOMAIN s /\ i + 1 # 1
    BY <1>2
  <2>1. s[i + 1] = s[1]
    BY <1>1
  <2>2. i + 1 = 1
    BY <1>4, <2>0, <2>1, Zenon DEF NoRepeats
  <2> QED
    BY <2>0, <2>2
<1>7. ASSUME NEW f PROVE Occurs(f, s) <=> Occurs(f, t) \/ f = Head(s)
  <2>1. ASSUME NEW i \in DOMAIN s, s[i] = f PROVE Occurs(f, t) \/ f = Head(s)
    <3>1. CASE i = 1
      BY <1>1, <2>1, <3>1
    <3>2. ASSUME NEW j \in DOMAIN t, i = j + 1 PROVE Occurs(f, t)
      BY <1>1, <2>1, <3>2, Zenon DEF Occurs
    <3> QED
      BY <1>4, <3>1, <3>2
  <2>2. Occurs(f, t) => Occurs(f, s)
    BY <1>1, <1>2, Zenon DEF Occurs
  <2>3. f = Head(s) => Occurs(f, s)
    BY <1>1, <1>4, Zenon DEF Occurs
  <2>4. Occurs(f, s) => \E i \in DOMAIN s : s[i] = f
    BY DEF Occurs
  <2> QED
    BY <2>1, <2>2, <2>3, <2>4
<1> QED
  BY <1>5, <1>6, <1>7 DEF t

\* Submit: the functor is new, so it waits nowhere and did not run.
LEMMA SubmitInv == ASSUME Inv, NEW f \in Functors, Submit(f) PROVE Inv'
<1>1. /\ f \notin issued /\ issued' = issued \cup {f}
      /\ queue' = Append(queue, f) /\ ran' = ran
  BY DEF Submit
<1>2. Types'
  BY <1>1 DEF Inv, Types
<1>3. \A g : Occurs(g, queue') <=> Occurs(g, queue) \/ g = f
  BY <1>1, OccursInAppend DEF Inv, Types
<1>4. ~Occurs(f, queue) /\ ~Occurs(f, ran)
  BY <1>1 DEF Inv, ExactlyOnce
<1>5. NoRepeats(queue')
  BY <1>1, <1>4, NoRepeatsInAppend DEF Inv, Types, ExactlyOnce
<1>6. NoRepeats(ran')
  BY <1>1 DEF Inv, ExactlyOnce
<1>7. \A g \in Functors : ~(Occurs(g, ran') /\ Occurs(g, queue'))
  BY <1>1, <1>3, <1>4, Zenon DEF Inv, ExactlyOnce
<1>8. \A g \in Functors : g \in issued' <=> Occurs(g, ran') \/ Occurs(g, queue')
  BY <1>1, <1>3, Zenon DEF Inv, ExactlyOnce
<1> QED
  BY <1>2, <1>5, <1>6, <1>7, <1>8 DEF Inv, ExactlyOnce

\* RunNow: likewise, and it runs on the spot.
LEMMA RunNowInv == ASSUME Inv, NEW f \in Functors, RunNow(f) PROVE Inv'
<1>1. /\ f \notin issued /\ issued' = issued \cup {f}
      /\ ran' = Append(ran, f) /\ queue' = queue
  BY DEF RunNow
<1>2. Types'
  BY <1>1 DEF Inv, Types
<1>3. \A g : Occurs(g, ran') <=> Occurs(g, ran) \/ g = f
  BY <1>1, OccursInAppend DEF Inv, Types
<1>4. ~Occurs(f, queue) /\ ~Occurs(f, ran)
  BY <1>1 DEF Inv, ExactlyOnce
<1>5. NoRepeats(ran')
  BY <1>1, <1>4, NoRepeatsInAppend DEF Inv, Types, ExactlyOnce
<1>6. NoRepeats(queue')
  BY <1>1 DEF Inv, ExactlyOnce
<1>7. \A g \in Functors : ~(Occurs(g, ran') /\ Occurs(g, queue'))
  BY <1>1, <1>3, <1>4, Zenon DEF Inv, ExactlyOnce
<1>8. \A g \in Functors : g \in issued' <=> Occurs(g, ran') \/ Occurs(g, queue')
  BY <1>1, <1>3, Zenon DEF Inv, ExactlyOnce
<1> QED
  BY <1>2, <1>5, <1>6, <1>7, <1>8 DEF Inv, ExactlyOnce

\* RunNext: the head moves from one sequence to the other.
LEMMA RunNextInv == ASSUME Inv, RunNext PROVE Inv'
<1>1. /\ queue # <<>> /\ issued' = issued
      /\ ran' = Append(ran, Head(queue)) /\ queue' = Tail(queue)
  BY DEF RunNext
<1>2. Head(queue) \in Functors
  BY <1>1 DEF Inv, Types
<1>3. Types'
  BY <1>1, <1>2 DEF Inv, Types
<1>4. \A g : Occurs(g, ran') <=> Occurs(g, ran) \/ g = Head(queue)
  BY <1>1, <1>2, OccursInAppend DEF Inv, Types
<1>5. /\ NoRepeats(queue') /\ ~Occurs(Head(queue), queue')
      /\ \A g : Occurs(g, queue) <=> Occurs(g, queue') \/ g = Head(queue)
  BY <1>1, HeadAndTail DEF Inv, Types, ExactlyOnce
<1>6. Head(queue) \in issued /\ ~Occurs(Head(queue), ran)
  BY <1>2, <1>5, Zenon DEF Inv, ExactlyOnce
<1>7. NoRepeats(ran')
  BY <1>1, <1>2, <1>6, NoRepeatsInAppend DEF Inv, Types, ExactlyOnce
<1>8. \A g \in Functors : ~(Occurs(g, ran') /\ Occurs(g, queue'))
  BY <1>1, <1>4, <1>5, Zenon DEF Inv, ExactlyOnce
<1>9. \A g \in Functors : g \in issued' <=> Occurs(g, ran') \/ Occurs(g, queue')
  BY <1>1, <1>4, <1>5, Zenon DEF Inv, ExactlyOnce
<1> QED
  BY <1>3, <1>5, <1>7, <1>8, <1>9 DEF Inv, ExactlyOnce

\* Every functor handed over waits in one place or has run once.
THEOREM OnceEach == Spec => []ExactlyOnce
<1>1. Init => Inv
  BY DEF Init, Inv, Types, ExactlyOnce, NoRepeats, Occurs
<1>2. Inv /\ [Next]_vars => Inv'
  <2> SUFFICES ASSUME Inv, [Next]_vars PROVE Inv'
    OBVIOUS
  <2>1. CASE RunNext
    BY <2>1, RunNextInv
  <2>2. CASE \E f \in Functors : Submit(f) \/ RunNow(f)
    BY <2>2, SubmitInv, RunNowInv
  <2>3. CASE UNCHANGED vars
    BY <2>3 DEF vars, Inv, Types, ExactlyOnce
  <2> QED
    BY <2>1, <2>2, <2>3 DEF Next
<1>3. Inv => ExactlyOnce
  BY DEF Inv
<1> QED
  BY <1>1, <1>2, <1>3, PTL DEF Spec
=============================================================================
