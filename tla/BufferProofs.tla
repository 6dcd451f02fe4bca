---------------------------- MODULE BufferProofs ----------------------------
(***************************************************************************)
(* Proofs about Buffer for any sizes.  The inductive invariant is that the *)
(* readable cells hold the last bytes written (ContentIsLatest); that the  *)
(* buffer is a queue until it is overrun follows from it step by step.     *)
(***************************************************************************)
EXTENDS Buffer, SequenceTheorems, TLAPS

Inv == TypeOK /\ ContentIsLatest

-----------------------------------------------------------------------------
\* A function on 1 .. n is a sequence of length n.
LEMMA SequenceOfLength ==
  ASSUME NEW S, NEW n \in Nat, NEW f \in [1 .. n -> S]
  PROVE  f \in Seq(S) /\ Len(f) = n
<1>1. f \in Seq(S)
  BY SeqDef
<1>2. DOMAIN f = 1 .. n /\ DOMAIN f = 1 .. Len(f) /\ Len(f) \in Nat
  BY <1>1, LenProperties
<1> QED
  BY <1>1, <1>2

\* Storing keeps the length and the typing, and puts the bytes where it
\* should.
LEMMA StoredKeeps ==
  ASSUME NEW M \in Nat, NEW cells \in Seq(0 .. M), NEW from \in Nat,
         NEW len \in Nat, NEW first \in Nat, first + len <= M
  PROVE  /\ Stored(cells, from, len, first) \in Seq(0 .. M)
         /\ Len(Stored(cells, from, len, first)) = Len(cells)
         /\ \A i \in 1 .. Len(cells) :
              Stored(cells, from, len, first)[i] =
                IF i \in from + 1 .. from + len
                THEN first + (i - from) ELSE cells[i]
<1> DEFINE T == [i \in 1 .. Len(cells) |->
                   IF i \in from + 1 .. from + len
                   THEN first + (i - from) ELSE cells[i]]
<1>1. DOMAIN cells = 1 .. Len(cells) /\ Len(cells) \in Nat
  BY LenProperties
<1>2. Stored(cells, from, len, first) = T
  BY <1>1 DEF Stored
<1>3. \A i \in 1 .. Len(cells) : cells[i] \in 0 .. M
  BY ElementOfSeq
<1>4. T \in [1 .. Len(cells) -> 0 .. M]
  BY <1>1, <1>3
<1>5. T \in Seq(0 .. M) /\ Len(T) = Len(cells)
  BY <1>1, <1>4, SequenceOfLength
<1> QED
  BY <1>2, <1>5

\* makeSpace and its caller: the vector never shrinks, and if the len bytes
\* then fit, nothing in it has moved.
LEMMA EnsureKeeps ==
  ASSUME Inv, ~Overrun,
         NEW M \in Nat, NEW cells \in Seq(0 .. M), Len(cells) = Len(buffer_),
         NEW writer \in writerIndex_ .. Len(cells), NEW len \in Nat
  PROVE  LET E == EnsureWritableBytes(cells, writer, len)
         IN  /\ E \in Seq(0 .. M)
             /\ Len(E) >= Len(cells)
             /\ writer + len <= Len(E) =>
                  \A i \in 1 .. Len(cells) : E[i] = cells[i]
<1> DEFINE E == EnsureWritableBytes(cells, writer, len)
<1>1. /\ DOMAIN cells = 1 .. Len(cells) /\ Len(cells) \in Nat
      /\ \A i \in 1 .. Len(cells) : cells[i] \in 0 .. M
  BY LenProperties, ElementOfSeq
<1>2. /\ kCheapPrepend \in Nat /\ readerIndex_ \in Nat /\ writerIndex_ \in Nat
      /\ kCheapPrepend <= readerIndex_ /\ readerIndex_ <= writerIndex_
      /\ writer \in Nat /\ writer <= Len(cells)
  BY <1>1, BufferAssumption DEF Inv, TypeOK, ContentIsLatest
<1>3. CASE ~(Len(cells) - writer < len)
  BY <1>1, <1>3 DEF EnsureWritableBytes
<1>4. CASE /\ Len(cells) - writer < len
           /\ (Len(cells) - writer) + (readerIndex_ - kCheapPrepend) < len
  <2>1. E = [i \in 1 .. writer + len |-> IF i <= Len(cells) THEN cells[i] ELSE 0]
    BY <1>4 DEF Zero, EnsureWritableBytes, MakeSpace, Resized
  <2>2. writer + len \in Nat /\ writer + len >= Len(cells)
    BY <1>1, <1>2, <1>4
  <2>3. E \in [1 .. writer + len -> 0 .. M]
    BY <1>1, <2>1, <2>2
  <2> QED
    BY <1>1, <2>1, <2>2, <2>3, SequenceOfLength
<1>5. CASE /\ Len(cells) - writer < len
           /\ ~((Len(cells) - writer) + (readerIndex_ - kCheapPrepend) < len)
  <2> DEFINE C == [i \in 1 .. Len(cells) |->
        IF i \in kCheapPrepend + 1 .. kCheapPrepend + (writer - readerIndex_)
        THEN cells[i + (readerIndex_ - kCheapPrepend)] ELSE cells[i]]
  <2>1. E = C
    BY <1>1, <1>5 DEF EnsureWritableBytes, MakeSpace, Compacted
  <2>2. ASSUME NEW i \in 1 .. Len(cells) PROVE C[i] \in 0 .. M
    <3>1. CASE i \in kCheapPrepend + 1 .. kCheapPrepend + (writer - readerIndex_)
      <4>1. i + (readerIndex_ - kCheapPrepend) \in 1 .. Len(cells)
        BY <1>1, <1>2, <3>1
      <4> QED
        BY <1>1, <3>1, <4>1
    <3>2. CASE i \notin kCheapPrepend + 1 .. kCheapPrepend + (writer - readerIndex_)
      BY <1>1, <3>2
    <3> QED
      BY <3>1, <3>2
  <2>3. C \in [1 .. Len(cells) -> 0 .. M]
    BY <2>2
  <2>4. E \in Seq(0 .. M) /\ Len(E) = Len(cells)
    BY <1>1, <2>1, <2>3, SequenceOfLength
  <2> QED
    BY <1>1, <1>2, <1>5, <2>4
<1> QED
  BY <1>3, <1>4, <1>5

-----------------------------------------------------------------------------
\* What an append does to the vector, whichever write precedes it.
LEMMA AppendedKeeps ==
  ASSUME Inv, ~Overrun,
         NEW M \in Nat, NEW cells \in Seq(0 .. M), Len(cells) = Len(buffer_),
         NEW writer \in writerIndex_ .. Len(cells), NEW len \in Nat,
         NEW first \in Nat, first + len <= M,
         Appended(cells, writer, len, first)
  PROVE  /\ buffer_' \in Seq(0 .. M)
         /\ Len(buffer_') >= Len(buffer_)
         /\ writerIndex_' = writer + len
         /\ ~Overrun' =>
              /\ \A i \in 1 .. writer : buffer_'[i] = cells[i]
              /\ \A i \in writer + 1 .. writer + len :
                   buffer_'[i] = first + (i - writer)
<1> DEFINE E == EnsureWritableBytes(cells, writer, len)
<1>1. /\ E \in Seq(0 .. M) /\ Len(E) >= Len(cells)
      /\ writer + len <= Len(E) => \A i \in 1 .. Len(cells) : E[i] = cells[i]
  BY EnsureKeeps
<1>2. writer \in Nat /\ writer <= Len(cells) /\ Len(cells) \in Nat /\ Len(E) \in Nat
  BY <1>1, LenProperties DEF Inv, TypeOK
<1>3. /\ buffer_' = Stored(E, writer, len, first)
      /\ writerIndex_' = writer + len
  BY DEF Appended
<1> HIDE DEF E
<1>4. /\ buffer_' \in Seq(0 .. M) /\ Len(buffer_') = Len(E)
      /\ \A i \in 1 .. Len(E) :
           buffer_'[i] = IF i \in writer + 1 .. writer + len
                         THEN first + (i - writer) ELSE E[i]
  BY <1>1, <1>2, <1>3, StoredKeeps
<1>5. ASSUME ~Overrun', NEW i \in 1 .. writer
      PROVE  buffer_'[i] = cells[i]
  <2>1. /\ i \in 1 .. Len(E) /\ i \in 1 .. Len(cells)
        /\ i \notin writer + 1 .. writer + len
        /\ writer + len <= Len(E)
    BY <1>1, <1>2, <1>3, <1>4, <1>5 DEF Overrun
  <2> QED
    BY <1>1, <1>4, <2>1
<1>6. ASSUME ~Overrun', NEW i \in writer + 1 .. writer + len
      PROVE  buffer_'[i] = first + (i - writer)
  <2>1. i \in 1 .. Len(E)
    BY <1>1, <1>2, <1>3, <1>4, <1>6 DEF Overrun
  <2> QED
    BY <1>4, <2>1
<1>7. Len(buffer_') >= Len(buffer_)
  BY <1>1, <1>2, <1>4
<1> QED
  BY <1>3, <1>4, <1>5, <1>6, <1>7

-----------------------------------------------------------------------------
\* The constructed buffer.
LEMMA InitKeeps == Init => Inv
<1> SUFFICES ASSUME Init PROVE Inv
  OBVIOUS
<1>1. kCheapPrepend \in Nat /\ kInitialSize \in Nat
  BY BufferAssumption
<1> DEFINE size == kCheapPrepend + kInitialSize
<1>2. buffer_ \in [1 .. size -> 0 .. given] /\ size \in Nat
  BY <1>1 DEF Init, Zero
<1>3. buffer_ \in Seq(0 .. given) /\ Len(buffer_) = size
  BY <1>2, SequenceOfLength
<1> QED
  BY <1>1, <1>3 DEF Init, Inv, TypeOK, ContentIsLatest

\* What every write has to do to keep the invariant: leave what was there,
\* and add its bytes behind the writer.
LEMMA WritingKeeps ==
  ASSUME Inv, NEW len \in Nat \ {0}, Gives(len),
         writerIndex_' = writerIndex_ + len,
         buffer_' \in Seq(0 .. given'), Len(buffer_') >= Len(buffer_),
         ~Overrun' =>
           /\ \A i \in 1 .. writerIndex_ : buffer_'[i] = buffer_[i]
           /\ \A i \in writerIndex_ + 1 .. writerIndex_ + len :
                buffer_'[i] = given + (i - writerIndex_)
  PROVE  Inv'
<1>1. /\ ~Overrun /\ given' = given + len /\ readerIndex_' = readerIndex_
      /\ given \in Nat /\ writerIndex_ \in Nat /\ readerIndex_ \in Nat
      /\ buffer_ \in Seq(0 .. given)
      /\ kCheapPrepend \in Nat /\ kInitialSize \in Nat
      /\ Len(buffer_) >= kCheapPrepend + kInitialSize
      /\ kCheapPrepend <= readerIndex_ /\ readerIndex_ <= writerIndex_
  BY BufferAssumption DEF Gives, Inv, TypeOK, ContentIsLatest
<1>2. Len(buffer_) \in Nat /\ Len(buffer_') \in Nat /\ writerIndex_ <= Len(buffer_)
  BY <1>1, LenProperties DEF Overrun
<1>3. TypeOK'
  BY <1>1, <1>2 DEF TypeOK
<1>4. ASSUME ~Overrun', NEW i \in readerIndex_' + 1 .. writerIndex_'
      PROVE  buffer_'[i] + writerIndex_' = given' + i
  <2>1. i \in Nat /\ i >= 1 /\ i >= readerIndex_ + 1
    BY <1>1
  <2>2. CASE i <= writerIndex_
    <3>1. i \in 1 .. writerIndex_ /\ i \in readerIndex_ + 1 .. writerIndex_
      BY <1>1, <2>1, <2>2
    <3>2. buffer_'[i] = buffer_[i]
      BY <1>4, <3>1
    <3>3. buffer_[i] + writerIndex_ = given + i
      BY <1>1, <3>1 DEF Inv, ContentIsLatest
    <3>4. buffer_[i] \in 0 .. given
      <4>1. i \in 1 .. Len(buffer_)
        BY <1>2, <1>1, <3>1
      <4> QED
        BY <1>1, <4>1, ElementOfSeq
    <3>5. PICK b \in Nat : b = buffer_[i]
      BY <1>1, <3>4
    <3>6. b + writerIndex_ = given + i
      BY <3>3, <3>5
    <3>7. b + (writerIndex_ + len) = (given + len) + i
      BY <1>1, <2>1, <3>6
    <3> QED
      BY <1>1, <3>2, <3>5, <3>7
  <2>3. CASE i > writerIndex_
    <3>1. i \in writerIndex_ + 1 .. writerIndex_ + len
      BY <1>1, <2>1, <2>3
    <3>2. buffer_'[i] = given + (i - writerIndex_)
      BY <1>4, <3>1
    <3> QED
      BY <1>1, <2>1, <3>2
  <2> QED
    BY <1>1, <2>1, <2>2, <2>3
<1>5. ContentIsLatest'
  BY <1>1, <1>4 DEF ContentIsLatest
<1> QED
  BY <1>3, <1>5 DEF Inv

\* The facts about the state before a write that every case below needs.
LEMMA BeforeWriting ==
  ASSUME Inv, NEW len \in Nat \ {0}, Gives(len)
  PROVE  /\ ~Overrun /\ given' = given + len
         /\ given \in Nat /\ given' \in Nat /\ writerIndex_ \in Nat
         /\ buffer_ \in Seq(0 .. given')
         /\ Len(buffer_) \in Nat /\ writerIndex_ <= Len(buffer_)
         /\ writableBytes = Len(buffer_) - writerIndex_
         /\ writableBytes \in Nat
<1>1. /\ ~Overrun /\ given' = given + len
      /\ given \in Nat /\ given' \in Nat /\ writerIndex_ \in Nat
      /\ buffer_ \in Seq(0 .. given)
  BY DEF Gives, Inv, TypeOK
<1>2. (0 .. given) \subseteq (0 .. given')
  BY <1>1
<1>3. buffer_ \in Seq(0 .. given') /\ Len(buffer_) \in Nat
  BY <1>1, <1>2, SeqMonotonic, LenProperties
<1> QED
  BY <1>1, <1>3 DEF Overrun, writableBytes

\* append keeps the invariant.
LEMMA AppendKeeps ==
  ASSUME Inv, NEW len \in Nat \ {0}, AppendBytes(len)
  PROVE  Inv'
<1>1. Gives(len) /\ Appended(buffer_, writerIndex_, len, given)
  BY DEF AppendBytes
<1>2. writerIndex_ \in writerIndex_ .. Len(buffer_) /\ given + len <= given'
  BY <1>1, BeforeWriting
<1>3. /\ buffer_' \in Seq(0 .. given') /\ Len(buffer_') >= Len(buffer_)
      /\ writerIndex_' = writerIndex_ + len
      /\ ~Overrun' =>
           /\ \A i \in 1 .. writerIndex_ : buffer_'[i] = buffer_[i]
           /\ \A i \in writerIndex_ + 1 .. writerIndex_ + len :
                buffer_'[i] = given + (i - writerIndex_)
  BY <1>1, <1>2, BeforeWriting, AppendedKeeps
<1> QED
  BY <1>1, <1>3, WritingKeeps

\* So does a readFd that fits behind writerIndex_.
LEMMA ReadWithinKeeps ==
  ASSUME Inv, NEW len \in Nat \ {0}, ReadFdWithin(len)
  PROVE  Inv'
<1>1. /\ Gives(len) /\ len <= writableBytes
      /\ buffer_' = Stored(buffer_, writerIndex_, len, given)
      /\ writerIndex_' = writerIndex_ + len
  BY DEF ReadFdWithin
<1>2. /\ given + len <= given' /\ writerIndex_ + len <= Len(buffer_)
      /\ given \in Nat /\ given' \in Nat /\ writerIndex_ \in Nat
      /\ buffer_ \in Seq(0 .. given') /\ Len(buffer_) \in Nat
  BY <1>1, BeforeWriting
<1>3. /\ buffer_' \in Seq(0 .. given') /\ Len(buffer_') = Len(buffer_)
      /\ \A i \in 1 .. Len(buffer_) :
           buffer_'[i] = IF i \in writerIndex_ + 1 .. writerIndex_ + len
                         THEN given + (i - writerIndex_) ELSE buffer_[i]
  <2>1. /\ Stored(buffer_, writerIndex_, len, given) \in Seq(0 .. given')
        /\ Len(Stored(buffer_, writerIndex_, len, given)) = Len(buffer_)
        /\ \A i \in 1 .. Len(buffer_) :
             Stored(buffer_, writerIndex_, len, given)[i] =
               IF i \in writerIndex_ + 1 .. writerIndex_ + len
               THEN given + (i - writerIndex_) ELSE buffer_[i]
    BY <1>2, StoredKeeps
  <2> QED
    BY <1>1, <2>1
<1>4. ASSUME NEW i \in 1 .. writerIndex_
      PROVE  buffer_'[i] = buffer_[i]
  <2>1. i \in 1 .. Len(buffer_) /\ i \notin writerIndex_ + 1 .. writerIndex_ + len
    BY <1>2
  <2> QED
    BY <1>3, <2>1
<1>5. ASSUME NEW i \in writerIndex_ + 1 .. writerIndex_ + len
      PROVE  buffer_'[i] = given + (i - writerIndex_)
  <2>1. i \in 1 .. Len(buffer_)
    BY <1>2
  <2> QED
    BY <1>3, <2>1
<1>6. Len(buffer_') >= Len(buffer_)
  BY <1>2, <1>3
<1> QED
  BY <1>1, <1>3, <1>4, <1>5, <1>6, WritingKeeps

\* The two parts of readv join: extrabuf goes on where the vector ended.
LEMMA ReadBeyondKeeps ==
  ASSUME Inv, NEW len \in Nat \ {0}, ReadFdBeyond(len)
  PROVE  Inv'
<1> DEFINE n == Len(buffer_)
           w == writableBytes
           filled == Stored(buffer_, writerIndex_, w, given)
           rest == len - w
           first == given + w
<1>1. /\ Gives(len) /\ len > w
      /\ Appended(filled, n, rest, first)
  BY DEF ReadFdBeyond
<1>2. /\ ~Overrun /\ given' = given + len
      /\ given \in Nat /\ given' \in Nat /\ writerIndex_ \in Nat
      /\ buffer_ \in Seq(0 .. given')
      /\ n \in Nat /\ w \in Nat /\ n = writerIndex_ + w
  BY <1>1, BeforeWriting
<1>3. /\ given + w <= given' /\ rest \in Nat /\ first \in Nat
      /\ first + rest <= given' /\ n \in writerIndex_ .. n
      /\ n + rest = writerIndex_ + len
  BY <1>1, <1>2
<1>4. /\ filled \in Seq(0 .. given') /\ Len(filled) = n
      /\ \A i \in 1 .. n :
           filled[i] = IF i \in writerIndex_ + 1 .. writerIndex_ + w
                       THEN given + (i - writerIndex_) ELSE buffer_[i]
  <2> HIDE DEF w, n
  <2>0. /\ given \in Nat /\ given' \in Nat /\ writerIndex_ \in Nat /\ w \in Nat
        /\ given + w <= given' /\ buffer_ \in Seq(0 .. given')
    BY <1>2, <1>3
  <2>1. /\ Stored(buffer_, writerIndex_, w, given) \in Seq(0 .. given')
        /\ Len(Stored(buffer_, writerIndex_, w, given)) = Len(buffer_)
        /\ \A i \in 1 .. Len(buffer_) :
             Stored(buffer_, writerIndex_, w, given)[i] =
               IF i \in writerIndex_ + 1 .. writerIndex_ + w
               THEN given + (i - writerIndex_) ELSE buffer_[i]
    BY <2>0, StoredKeeps
  <2> QED
    BY <2>1 DEF n
<1> HIDE DEF filled, rest, first
<1>5. /\ buffer_' \in Seq(0 .. given') /\ Len(buffer_') >= n
      /\ writerIndex_' = n + rest
      /\ ~Overrun' =>
           /\ \A i \in 1 .. n : buffer_'[i] = filled[i]
           /\ \A i \in n + 1 .. n + rest : buffer_'[i] = first + (i - n)
  <2>1. /\ ~Overrun /\ given' \in Nat
        /\ filled \in Seq(0 .. given') /\ Len(filled) = Len(buffer_)
        /\ n \in writerIndex_ .. Len(filled) /\ rest \in Nat
        /\ first \in Nat /\ first + rest <= given'
        /\ Appended(filled, n, rest, first)
    BY <1>1, <1>2, <1>3, <1>4
  <2> HIDE DEF n, w
  <2>2. /\ buffer_' \in Seq(0 .. given') /\ Len(buffer_') >= Len(buffer_)
        /\ writerIndex_' = n + rest
        /\ ~Overrun' =>
             /\ \A i \in 1 .. n : buffer_'[i] = filled[i]
             /\ \A i \in n + 1 .. n + rest : buffer_'[i] = first + (i - n)
    BY <2>1, AppendedKeeps
  <2> QED
    BY <2>2 DEF n
<1>6. ASSUME ~Overrun', NEW i \in 1 .. writerIndex_
      PROVE  buffer_'[i] = buffer_[i]
  <2>1. i \in 1 .. n /\ i \notin writerIndex_ + 1 .. writerIndex_ + w
    BY <1>2
  <2> QED
    BY <1>4, <1>5, <1>6, <2>1
<1>7. ASSUME ~Overrun', NEW i \in writerIndex_ + 1 .. writerIndex_ + len
      PROVE  buffer_'[i] = given + (i - writerIndex_)
  <2>1. CASE i <= n
    <3>1. i \in 1 .. n /\ i \in writerIndex_ + 1 .. writerIndex_ + w
      BY <1>2, <2>1
    <3> QED
      BY <1>4, <1>5, <1>7, <3>1
  <2>2. CASE i > n
    <3>1. i \in n + 1 .. n + rest
      BY <1>2, <1>3, <2>2
    <3>2. buffer_'[i] = first + (i - n)
      BY <1>5, <1>7, <3>1
    <3> QED
      BY <1>2, <3>2 DEF first
  <2> QED
    BY <1>2, <2>1, <2>2
<1>8. writerIndex_' = writerIndex_ + len
  BY <1>3, <1>5
<1> QED
  BY <1>1, <1>5, <1>6, <1>7, <1>8, WritingKeeps

\* So does a retrieve that leaves bytes.
LEMMA RetrieveSomeKeeps ==
  ASSUME Inv, NEW len \in Nat, RetrieveSome(len)
  PROVE  Inv'
<1>1. /\ readerIndex_ \in Nat /\ writerIndex_ \in Nat /\ kCheapPrepend \in Nat
      /\ readerIndex_' = readerIndex_ + len
      /\ len <= writerIndex_ - readerIndex_
      /\ UNCHANGED <<buffer_, writerIndex_, given>>
  BY BufferAssumption DEF Inv, TypeOK, RetrieveSome, readableBytes
<1>2. TypeOK'
  BY <1>1 DEF Inv, TypeOK
<1>3. readerIndex_' + 1 .. writerIndex_' \subseteq readerIndex_ + 1 .. writerIndex_
  BY <1>1
<1>4. ContentIsLatest'
  BY <1>1, <1>3 DEF Inv, ContentIsLatest, Overrun
<1> QED
  BY <1>2, <1>4 DEF Inv

\* So does retrieveAll.
LEMMA RetrieveAllKeeps ==
  ASSUME Inv, RetrieveAll
  PROVE  Inv'
<1>1. kCheapPrepend \in Nat
  BY BufferAssumption
<1>2. TypeOK'
  BY <1>1 DEF Inv, TypeOK, RetrieveAll
<1>3. readerIndex_' + 1 .. writerIndex_' = {}
  BY <1>1 DEF RetrieveAll
<1>4. ContentIsLatest'
  BY <1>1, <1>3 DEF ContentIsLatest, RetrieveAll
<1> QED
  BY <1>2, <1>4 DEF Inv

\* So does a step of nobody.
LEMMA StutterKeeps == Inv /\ UNCHANGED vars => Inv'
BY DEF Inv, TypeOK, ContentIsLatest, Overrun, vars

\* Each action keeps the invariant.
LEMMA StepKeeps == Inv /\ [Next]_vars => Inv'
<1> SUFFICES ASSUME Inv, [Next]_vars PROVE Inv'
  OBVIOUS
<1>1. MaxAppend \in Nat /\ MaxBytes \in Nat
  BY BufferAssumption
<1>2. CASE \E len \in 1 .. MaxAppend : AppendBytes(len)
  BY <1>1, <1>2, AppendKeeps
<1>3. CASE \E len \in 1 .. MaxBytes : ReadFdWithin(len)
  BY <1>1, <1>3, ReadWithinKeeps
<1>4. CASE \E len \in 1 .. MaxBytes : ReadFdBeyond(len)
  BY <1>1, <1>4, ReadBeyondKeeps
<1>5. CASE \E len \in 1 .. MaxBytes : RetrieveSome(len)
  BY <1>1, <1>5, RetrieveSomeKeeps
<1>6. CASE RetrieveAll
  BY <1>6, RetrieveAllKeeps
<1>7. CASE UNCHANGED vars
  BY <1>7, StutterKeeps
<1> QED
  BY <1>2, <1>3, <1>4, <1>5, <1>6, <1>7 DEF Next

\* The vector never shrinks and holds only bytes that were given.
THEOREM TypeCorrect == Spec => []TypeOK
<1>1. Inv => TypeOK
  BY DEF Inv
<1> QED
  BY InitKeeps, StepKeeps, <1>1, PTL DEF Spec

\* Between the indices are always the last bytes given, in order, until
\* append writes past the end: growth, both branches of readFd and every
\* retrieve keep the content.
THEOREM ContentCorrect == Spec => []ContentIsLatest
<1>1. Inv => ContentIsLatest
  BY DEF Inv
<1> QED
  BY InitKeeps, StepKeeps, <1>1, PTL DEF Spec

-----------------------------------------------------------------------------
(***************************************************************************)
(* The refinement: what is readable is a run of k numbers ending in g.     *)
(***************************************************************************)

Latest(g, k) == [i \in 1 .. k |-> (g - k) + i]

\* The last n bytes given are a sequence of bytes.
LEMMA LatestIsASequence ==
  ASSUME NEW g \in Nat, NEW k \in Nat
  PROVE  /\ Latest(g, k) \in Seq(Int)
         /\ Len(Latest(g, k)) = k
         /\ \A i \in 1 .. k : Latest(g, k)[i] = (g - k) + i
<1>1. Latest(g, k) \in [1 .. k -> Int]
  BY DEF Latest
<1> QED
  BY <1>1, SequenceOfLength DEF Latest

\* Bytes that stand in the order in which they were given, up to the last one,
\* are the latest.
LEMMA ContentShape ==
  ASSUME NEW b \in Seq(Nat), NEW r \in Nat, NEW w \in Nat, NEW g \in Nat,
         r <= w, w <= Len(b),
         \A i \in r + 1 .. w : b[i] + w = g + i
  PROVE  SubSeq(b, r + 1, w) = Latest(g, w - r)
<1> DEFINE k == w - r
           s == SubSeq(b, r + 1, w)
<1>1. k \in Nat /\ Len(b) \in Nat /\ r + 1 \in Int /\ w \in Int
  BY LenProperties
<1>2. \A i \in r + 1 .. w : b[i] \in Nat
  <2>1. \A i \in r + 1 .. w : i \in 1 .. Len(b)
    BY <1>1
  <2> QED
    BY <2>1, ElementOfSeq
<1>3. \A i \in r + 1 .. w : b[i] \in Int
  BY <1>2
<1>4. /\ s \in Seq(Int)
      /\ Len(s) = IF r + 1 <= w THEN w - (r + 1) + 1 ELSE 0
      /\ \A i \in 1 .. w - (r + 1) + 1 : s[i] = b[(r + 1) + i - 1]
  BY <1>1, <1>3, SubSeqProperties
<1>5. Len(s) = k
  BY <1>1, <1>4
<1>6. ASSUME NEW i \in 1 .. k
      PROVE  s[i] = Latest(g, k)[i]
  <2>1. /\ i \in 1 .. w - (r + 1) + 1 /\ r + i \in r + 1 .. w
        /\ (r + 1) + i - 1 = r + i /\ i \in Nat
    BY <1>1
  <2>2. s[i] = b[r + i]
    BY <1>4, <2>1
  <2>3. PICK c \in Nat : c = b[r + i]
    BY <1>2, <2>1
  <2>4. c + w = g + (r + i)
    BY <2>1, <2>3
  <2>5. c = (g - k) + i
    BY <1>1, <2>1, <2>4
  <2> QED
    BY <1>1, <2>2, <2>3, <2>5, LatestIsASequence
<1> HIDE DEF k, s
<1>7. s = Latest(g, k)
  BY <1>1, <1>4, <1>5, <1>6, LatestIsASequence, SeqEqual
<1> QED
  BY <1>7 DEF k, s

\* Giving appends the next numbers to the run.
LEMMA LatestGrows ==
  ASSUME NEW g \in Nat, NEW k \in Nat, NEW n \in Nat
  PROVE  Latest(g + n, k + n) = Latest(g, k) \o Queue!Fresh(g, n)
<1> DEFINE s == Latest(g, k)
           t == Queue!Fresh(g, n)
           u == Latest(g + n, k + n)
<1>1. s \in Seq(Int) /\ Len(s) = k /\ \A i \in 1 .. k : s[i] = (g - k) + i
  BY LatestIsASequence
<1>2. t \in [1 .. n -> Int] /\ \A i \in 1 .. n : t[i] = g + i
  BY DEF Queue!Fresh
<1>3. t \in Seq(Int) /\ Len(t) = n
  BY <1>2, SequenceOfLength
<1>4. /\ u \in Seq(Int) /\ Len(u) = k + n
      /\ \A i \in 1 .. k + n : u[i] = ((g + n) - (k + n)) + i
  <2>1. g + n \in Nat /\ k + n \in Nat
    OBVIOUS
  <2> QED
    BY <2>1, LatestIsASequence
<1> HIDE DEF s, t, u
<1>5. /\ s \o t \in Seq(Int) /\ Len(s \o t) = k + n
      /\ \A i \in 1 .. k + n :
           (s \o t)[i] = IF i <= k THEN s[i] ELSE t[i - k]
  BY <1>1, <1>3, ConcatProperties
<1>6. ASSUME NEW i \in 1 .. k + n
      PROVE  u[i] = (s \o t)[i]
  <2>1. u[i] = (g - k) + i
    BY <1>4
  <2>2. CASE i <= k
    <3>1. i \in 1 .. k
      BY <2>2
    <3> QED
      BY <1>1, <1>5, <2>1, <2>2, <3>1
  <2>3. CASE i > k
    <3>1. i - k \in 1 .. n /\ ~(i <= k)
      BY <2>3
    <3>2. t[i - k] = g + (i - k)
      BY <1>2, <3>1
    <3>3. (s \o t)[i] = t[i - k]
      BY <1>5, <3>1
    <3> QED
      BY <2>1, <3>2, <3>3
  <2>4. i <= k \/ i > k
    OBVIOUS
  <2> QED
    BY <2>2, <2>3, <2>4, Zenon
<1>7. u = s \o t
  BY <1>4, <1>5, <1>6, SeqEqual
<1> QED
  BY <1>7 DEF s, t, u

\* Taking drops the first numbers of the run.
LEMMA LatestShrinks ==
  ASSUME NEW g \in Nat, NEW k \in Nat, NEW n \in 0 .. k
  PROVE  Latest(g, k - n) = SubSeq(Latest(g, k), n + 1, k)
<1> DEFINE s == Latest(g, k)
           t == SubSeq(s, n + 1, k)
           u == Latest(g, k - n)
<1>1. s \in Seq(Int) /\ Len(s) = k /\ \A i \in 1 .. k : s[i] = (g - k) + i
  BY LatestIsASequence
<1>2. /\ u \in Seq(Int) /\ Len(u) = k - n
      /\ \A i \in 1 .. k - n : u[i] = (g - (k - n)) + i
  <2>1. k - n \in Nat
    OBVIOUS
  <2> QED
    BY <2>1, LatestIsASequence
<1> HIDE DEF s, u
<1>3. \A i \in n + 1 .. k : s[i] \in Int
  BY <1>1
<1>4. /\ t \in Seq(Int)
      /\ Len(t) = IF n + 1 <= k THEN k - (n + 1) + 1 ELSE 0
      /\ \A i \in 1 .. k - (n + 1) + 1 : t[i] = s[(n + 1) + i - 1]
  <2>1. n + 1 \in Int /\ k \in Int
    OBVIOUS
  <2> QED
    BY <1>3, <2>1, SubSeqProperties
<1> HIDE DEF t
<1>5. Len(t) = k - n
  BY <1>4
<1>6. ASSUME NEW i \in 1 .. k - n
      PROVE  u[i] = t[i]
  <2>1. /\ i \in 1 .. k - (n + 1) + 1 /\ (n + 1) + i - 1 = n + i
        /\ n + i \in 1 .. k
    OBVIOUS
  <2>2. t[i] = (g - k) + (n + i)
    BY <1>1, <1>4, <2>1
  <2> QED
    BY <1>2, <2>2
<1>7. u = t
  BY <1>2, <1>4, <1>5, <1>6, SeqEqual
<1> QED
  BY <1>7 DEF s, t, u

-----------------------------------------------------------------------------
\* So the readable bytes are the latest given.
LEMMA ContentIs ==
  ASSUME Inv, ~Overrun
  PROVE  Content = Latest(given, readableBytes)
<1>1. /\ buffer_ \in Seq(0 .. given) /\ readerIndex_ \in Nat
      /\ writerIndex_ \in Nat /\ given \in Nat
      /\ readerIndex_ <= writerIndex_
      /\ \A i \in readerIndex_ + 1 .. writerIndex_ :
           buffer_[i] + writerIndex_ = given + i
  BY DEF Inv, TypeOK, ContentIsLatest
<1>2. 0 .. given \subseteq Nat
  BY <1>1
<1>3. buffer_ \in Seq(Nat) /\ Len(buffer_) \in Nat
  BY <1>1, <1>2, SeqMonotonic, LenProperties
<1>4. writerIndex_ <= Len(buffer_)
  BY <1>1, <1>3 DEF Overrun
<1> QED
  BY <1>1, <1>3, <1>4, ContentShape DEF Content, readableBytes

\* The same after a step.
LEMMA ContentIsNext ==
  ASSUME Inv', ~Overrun'
  PROVE  Content' = Latest(given', readableBytes')
<1>1. /\ buffer_' \in Seq(0 .. given') /\ readerIndex_' \in Nat
      /\ writerIndex_' \in Nat /\ given' \in Nat
      /\ readerIndex_' <= writerIndex_'
      /\ \A i \in readerIndex_' + 1 .. writerIndex_' :
           buffer_'[i] + writerIndex_' = given' + i
  BY DEF Inv, TypeOK, ContentIsLatest
<1>2. 0 .. given' \subseteq Nat
  BY <1>1
<1>3. buffer_' \in Seq(Nat) /\ Len(buffer_') \in Nat
  BY <1>1, <1>2, SeqMonotonic, LenProperties
<1>4. writerIndex_' <= Len(buffer_')
  BY <1>1, <1>3 DEF Overrun
<1> QED
  BY <1>1, <1>3, <1>4, ContentShape DEF Content, readableBytes

\* Bytes given to the buffer are given to the abstract queue.
LEMMA GivingIsGive ==
  ASSUME Inv, Inv', ~Overrun', NEW len \in Nat \ {0}, Gives(len),
         writerIndex_' = writerIndex_ + len
  PROVE  Queue!Give
<1> DEFINE k == readableBytes
<1>1. /\ ~Overrun /\ given \in Nat /\ given' = given + len
      /\ k \in Nat /\ readableBytes' = k + len
  BY DEF Gives, Inv, TypeOK, ContentIsLatest, readableBytes
<1>2. Content = Latest(given, k) /\ Content' = Latest(given + len, k + len)
  BY <1>1, ContentIs, ContentIsNext
<1>3. Latest(given + len, k + len) = Latest(given, k) \o Queue!Fresh(given, len)
  BY <1>1, LatestGrows
<1>4. given' \in Nat /\ given' > given /\ given' - given = len
  BY <1>1
<1> QED
  BY <1>2, <1>3, <1>4 DEF Queue!Give

\* Bytes retrieved are taken from it.
LEMMA ReadingIsTake ==
  ASSUME Inv, Inv', ~Overrun, ~Overrun', given' = given,
         NEW n \in 0 .. readableBytes, readableBytes' = readableBytes - n
  PROVE  Queue!Take
<1> DEFINE k == readableBytes
<1>1. given \in Nat /\ k \in Nat
  BY DEF Inv, TypeOK, ContentIsLatest, readableBytes
<1>2. Content = Latest(given, k) /\ Content' = Latest(given, k - n)
  BY ContentIs, ContentIsNext
<1>3. Len(Content) = k
  BY <1>1, <1>2, LatestIsASequence
<1>4. Latest(given, k - n) = SubSeq(Latest(given, k), n + 1, k)
  BY <1>1, LatestShrinks
<1> QED
  BY <1>2, <1>3, <1>4 DEF Queue!Take

\* Each action is a step of the abstract queue.
LEMMA StepIsQueueStep ==
  Inv /\ Inv' /\ [Next]_vars => (~Overrun' => [Queue!Next]_(Queue!vars))
<1> SUFFICES ASSUME Inv, Inv', [Next]_vars, ~Overrun'
             PROVE  [Queue!Next]_(Queue!vars)
  OBVIOUS
<1>1. /\ MaxAppend \in Nat /\ MaxBytes \in Nat /\ kCheapPrepend \in Nat
      /\ readerIndex_ \in Nat /\ writerIndex_ \in Nat
      /\ readerIndex_ <= writerIndex_
  BY BufferAssumption DEF Inv, TypeOK, ContentIsLatest
<1>2. ASSUME NEW len \in 1 .. MaxAppend, AppendBytes(len) PROVE Queue!Next
  <2>1. Gives(len) /\ writerIndex_' = writerIndex_ + len /\ len \in Nat \ {0}
    BY <1>1, <1>2 DEF AppendBytes, Appended
  <2> QED
    BY <2>1, GivingIsGive DEF Queue!Next
<1>3. ASSUME NEW len \in 1 .. MaxBytes, ReadFdWithin(len) PROVE Queue!Next
  <2>1. Gives(len) /\ writerIndex_' = writerIndex_ + len /\ len \in Nat \ {0}
    BY <1>1, <1>3 DEF ReadFdWithin
  <2> QED
    BY <2>1, GivingIsGive DEF Queue!Next
<1>4. ASSUME NEW len \in 1 .. MaxBytes, ReadFdBeyond(len) PROVE Queue!Next
  <2>1. Gives(len) /\ len \in Nat \ {0}
        /\ writerIndex_' = Len(buffer_) + (len - writableBytes)
    BY <1>1, <1>4 DEF ReadFdBeyond, Appended
  <2>2. writerIndex_' = writerIndex_ + len
    BY <2>1, BeforeWriting
  <2> QED
    BY <2>1, <2>2, GivingIsGive DEF Queue!Next
<1>5. ASSUME NEW len \in 1 .. MaxBytes, RetrieveSome(len) PROVE Queue!Next
  <2>1. /\ len \in 0 .. readableBytes /\ ~Overrun /\ given' = given
        /\ readableBytes' = readableBytes - len
    BY <1>1, <1>5 DEF RetrieveSome, readableBytes
  <2> QED
    BY <2>1, ReadingIsTake DEF Queue!Next
<1>6. CASE RetrieveAll
  <2>1. /\ readableBytes \in 0 .. readableBytes /\ ~Overrun /\ given' = given
        /\ readableBytes' = readableBytes - readableBytes
    BY <1>1, <1>6 DEF RetrieveAll, readableBytes
  <2> QED
    BY <2>1, ReadingIsTake DEF Queue!Next
<1>7. CASE UNCHANGED vars
  BY <1>7 DEF vars, Queue!vars, Content
<1> QED
  BY <1>2, <1>3, <1>4, <1>5, <1>6, <1>7 DEF Next

\* The buffer implements the queue of bytes until append writes past the end.
THEOREM RefinesByteQueue == Spec => QueueUntilOverrun
<1>1. Init => Queue!Init
  <2> SUFFICES ASSUME Init PROVE Queue!Init
    OBVIOUS
  <2>1. kCheapPrepend + 1 \in Int /\ kCheapPrepend \in Int
        /\ kCheapPrepend < kCheapPrepend + 1
    BY BufferAssumption
  <2> QED
    BY <2>1, SubSeqEmpty DEF Init, Queue!Init, Content
<1> QED
  BY InitKeeps, StepKeeps, StepIsQueueStep, <1>1, PTL DEF Spec, QueueUntilOverrun

-----------------------------------------------------------------------------
\* How long the vector is after a write: as long as before or, where neither
\* its end nor the freed cells in front have room, as long as needed.
LEMMA EnsureLength ==
  ASSUME NEW cells \in Seq(Nat), NEW writer \in Nat, NEW len \in Nat, readerIndex_ \in Nat
  PROVE  Len(EnsureWritableBytes(cells, writer, len)) =
           IF (Len(cells) - writer) < len
              /\ (Len(cells) - writer) + (readerIndex_ - kCheapPrepend) < len
           THEN writer + len ELSE Len(cells)
<1>1. Len(cells) \in Nat /\ DOMAIN cells = 1 .. Len(cells) /\ kCheapPrepend \in Nat
  BY BufferAssumption
<1>2. Len(Compacted(cells, writer)) = Len(cells)
  BY <1>1 DEF Compacted
<1>3. Len(Resized(cells, writer + len)) = writer + len
  BY <1>1 DEF Resized
<1> QED
  BY <1>1, <1>2, <1>3 DEF EnsureWritableBytes, MakeSpace

\* append keeps the room, whatever branch makeSpace takes.
LEMMA AppendedFits ==
  ASSUME Inv, ~Overrun, ReadableFits, UNCHANGED readerIndex_,
         NEW M \in Nat, NEW cells \in Seq(0 .. M), Len(cells) = Len(buffer_),
         NEW writer \in writerIndex_ .. Len(cells), NEW len \in Nat \ {0}, NEW first,
         kCheapPrepend + (writer - readerIndex_) <= Len(cells),
         Appended(cells, writer, len, first)
  PROVE  ReadableFits'
<1> DEFINE E == EnsureWritableBytes(cells, writer, len)
<1>1. /\ readerIndex_ \in Nat /\ writerIndex_ \in Nat /\ kCheapPrepend \in Nat
      /\ kCheapPrepend <= readerIndex_ /\ readerIndex_ <= writerIndex_
      /\ Len(cells) \in Nat /\ writer \in Nat /\ writer <= Len(cells)
  BY BufferAssumption DEF Inv, TypeOK, ContentIsLatest
<1>2. cells \in Seq(Nat)
  OBVIOUS
<1>3. Len(E) = IF (Len(cells) - writer) < len
                  /\ (Len(cells) - writer) + (readerIndex_ - kCheapPrepend) < len
               THEN writer + len ELSE Len(cells)
  BY <1>1, <1>2, EnsureLength
<1>4. E \in Seq(0 .. M)
  BY EnsureKeeps
<1>5. Len(buffer_') = Len(E)
  <2>1. DOMAIN E = 1 .. Len(E) /\ Len(E) \in Nat
    BY <1>4
  <2>2. buffer_' = Stored(E, writer, len, first)
    BY DEF Appended
  <2> HIDE DEF E
  <2> QED
    BY <2>1, <2>2 DEF Stored
<1>6. writerIndex_' = writer + len
  BY DEF Appended
<1> HIDE DEF E
<1> QED
  BY <1>1, <1>3, <1>5, <1>6 DEF ReadableFits, readableBytes

\* Each action keeps the room.
LEMMA StepFits ==
  ASSUME Inv, ReadableFits, [Next]_vars
  PROVE  ReadableFits'
<1>0. /\ readerIndex_ \in Nat /\ writerIndex_ \in Nat /\ kCheapPrepend \in Nat
      /\ kCheapPrepend <= readerIndex_ /\ readerIndex_ <= writerIndex_
      /\ Len(buffer_) \in Nat /\ given \in Nat /\ kInitialSize \in Nat
      /\ kCheapPrepend + kInitialSize <= Len(buffer_)
      /\ MaxAppend \in Nat /\ MaxBytes \in Nat
  BY BufferAssumption DEF Inv, TypeOK, ContentIsLatest
<1>1. ASSUME NEW len \in 1 .. MaxAppend, AppendBytes(len) PROVE ReadableFits'
  <2>0. len \in Nat \ {0}
    BY <1>0
  <2>1. Gives(len) /\ Appended(buffer_, writerIndex_, len, given)
    BY <1>1 DEF AppendBytes
  <2>2. ~Overrun /\ UNCHANGED readerIndex_
    BY <2>1 DEF Gives
  <2>3. buffer_ \in Seq(0 .. given)
    BY DEF Inv, TypeOK
  <2>4. /\ writerIndex_ \in writerIndex_ .. Len(buffer_)
        /\ kCheapPrepend + (writerIndex_ - readerIndex_) <= Len(buffer_)
    BY <1>0, <2>2 DEF Overrun, ReadableFits, readableBytes
  <2> QED
    BY <1>0, <2>0, <2>1, <2>2, <2>3, <2>4, AppendedFits
<1>2. ASSUME NEW len \in 1 .. MaxBytes, ReadFdWithin(len) PROVE ReadableFits'
  <2>1. /\ len \in Nat /\ len <= Len(buffer_) - writerIndex_ /\ readerIndex_' = readerIndex_
        /\ buffer_' = Stored(buffer_, writerIndex_, len, given)
        /\ writerIndex_' = writerIndex_ + len
    BY <1>0, <1>2 DEF ReadFdWithin, Gives, writableBytes
  <2>2. Len(buffer_') = Len(buffer_)
    BY <1>0, <2>1 DEF Inv, TypeOK, Stored
  <2> QED
    BY <1>0, <2>1, <2>2 DEF ReadableFits, readableBytes
<1>3. ASSUME NEW len \in 1 .. MaxBytes, ReadFdBeyond(len) PROVE ReadableFits'
  <2> DEFINE w == writableBytes
             filled == Stored(buffer_, writerIndex_, w, given)
  <2>1. /\ Gives(len) /\ len > w
        /\ Appended(filled, Len(buffer_), len - w, given + w)
    BY <1>3 DEF ReadFdBeyond
  <2>2. ~Overrun /\ UNCHANGED readerIndex_ /\ w \in Nat /\ len - w \in Nat \ {0}
    BY <1>0, <2>1 DEF Gives, Overrun, writableBytes
  <2>3. /\ filled \in Seq(0 .. given + w) /\ Len(filled) = Len(buffer_)
    <3>1. buffer_ \in Seq(0 .. given + w)
      BY <1>0, <2>2 DEF Inv, TypeOK
    <3> QED
      BY <1>0, <2>2, <3>1, StoredKeeps
  <2>4. Len(buffer_) \in writerIndex_ .. Len(filled)
    BY <1>0, <2>2, <2>3 DEF Overrun
  <2>5. kCheapPrepend + (Len(buffer_) - readerIndex_) <= Len(filled)
    BY <1>0, <2>3
  <2>6. given + w \in Nat
    BY <1>0, <2>2
  <2> HIDE DEF w, filled
  <2> QED
    BY <2>1, <2>2, <2>3, <2>4, <2>5, <2>6, AppendedFits
<1>4. ASSUME NEW len \in 1 .. MaxBytes, RetrieveSome(len) PROVE ReadableFits'
  BY <1>0, <1>4 DEF RetrieveSome, ReadableFits, readableBytes
<1>5. CASE RetrieveAll
  BY <1>0, <1>5 DEF RetrieveAll, ReadableFits, readableBytes
<1>6. CASE UNCHANGED vars
  BY <1>6 DEF ReadableFits, readableBytes, vars
<1> QED
  BY <1>1, <1>2, <1>3, <1>4, <1>5, <1>6 DEF Next

\* The vector has room for what can be read at any time, for any sizes: the
\* overrun is makeSpace's indices, never its arithmetic.
THEOREM RoomForReadable == Spec => []ReadableFits
<1>1. Init => ReadableFits
  <2> SUFFICES ASSUME Init PROVE ReadableFits
    OBVIOUS
  <2>1. kCheapPrepend \in Nat /\ kInitialSize \in Nat
    BY BufferAssumption
  <2>2. Len(buffer_) = kCheapPrepend + kInitialSize
    BY <2>1 DEF Init
  <2> QED
    BY <2>1, <2>2 DEF Init, ReadableFits, readableBytes
<1> QED
  BY <1>1, InitKeeps, StepKeeps, StepFits, PTL DEF Spec

\* An append leaves the vector only if something, perhaps everything, was read
\* since the indices were last reset: readerIndex_ has moved.
THEOREM OverrunNeedsReading == Spec => [](Overrun => readerIndex_ > kCheapPrepend)
<1>1. ASSUME Inv, ReadableFits PROVE Overrun => readerIndex_ > kCheapPrepend
  BY <1>1, BufferAssumption DEF Inv, TypeOK, ReadableFits, readableBytes, Overrun
<1> QED
  BY <1>1, InitKeeps, StepKeeps, RoomForReadable, PTL DEF Spec
=============================================================================
