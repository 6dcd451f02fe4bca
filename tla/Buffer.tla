-------------------------------- MODULE Buffer --------------------------------
(***************************************************************************)
(* The byte buffer of a connection (mudlite/net/Buffer.{h,cc}): a vector   *)
(* and two indices into it, used by one thread, the loop's.                *)
(*                                                                         *)
(* A byte is its number in the order of writing; cells never written are   *)
(* Zero.  makeSpace may move the readable bytes without moving the         *)
(* indices, and append then writes past the end of the vector.  From there *)
(* on the program is undefined, and the model stops.                       *)
(*                                                                         *)
(* An operator named X_Y is a faulty variant of X that a property must     *)
(* catch; the specification does not use it.                               *)
(***************************************************************************)
EXTENDS Naturals, Sequences

CONSTANTS
  kCheapPrepend,
  kInitialSize,
  ExtraSize,     \* sizeof extrabuf in readFd
  MaxAppend,     \* bytes in one call of append (bound)
  MaxBytes       \* bytes ever written (bound)

ASSUME BufferAssumption ==
  /\ kCheapPrepend \in Nat
  /\ kInitialSize \in Nat
  /\ ExtraSize \in Nat \ {0}
  /\ MaxAppend \in Nat
  /\ MaxBytes \in Nat

VARIABLES
  buffer_,       \* the vector: byte k of the program is buffer_[k + 1]
  readerIndex_,
  writerIndex_,
  given          \* history: bytes written so far

vars == <<buffer_, readerIndex_, writerIndex_, given>>

Zero == 0

Init ==
  /\ buffer_ = [i \in 1 .. kCheapPrepend + kInitialSize |-> Zero]
  /\ readerIndex_ = kCheapPrepend
  /\ writerIndex_ = kCheapPrepend
  /\ given = 0

readableBytes == writerIndex_ - readerIndex_
writableBytes == Len(buffer_) - writerIndex_

Overrun == writerIndex_ > Len(buffer_)

-----------------------------------------------------------------------------
\* len bytes, first+1, first+2, ..., written at index from; what falls outside
\* the vector is not in it.
Stored(cells, from, len, first) ==
  [i \in DOMAIN cells |->
     IF i \in from + 1 .. from + len THEN first + (i - from) ELSE cells[i]]

\* buffer_.resize(size)
Resized(cells, size) ==
  [i \in 1 .. size |-> IF i <= Len(cells) THEN cells[i] ELSE Zero]

\* The readable bytes are copied to the front; the indices stay.
Compacted(cells, writer) ==
  [i \in DOMAIN cells |->
     IF i \in kCheapPrepend + 1 .. kCheapPrepend + (writer - readerIndex_)
     THEN cells[i + (readerIndex_ - kCheapPrepend)] ELSE cells[i]]

MakeSpace_ByLength(cells, writer, len) ==
  IF (Len(cells) - writer) + (readerIndex_ - kCheapPrepend) < len
  THEN Resized(cells, len)
  ELSE Compacted(cells, writer)

\* writable + prependable - kCheapPrepend < len, with writable taken apart.
MakeSpace(cells, writer, len) ==
  IF (Len(cells) - writer) + (readerIndex_ - kCheapPrepend) < len
  THEN Resized(cells, writer + len)
  ELSE Compacted(cells, writer)

EnsureWritableBytes(cells, writer, len) ==
  IF Len(cells) - writer < len THEN MakeSpace(cells, writer, len) ELSE cells

\* append of len bytes, first+1, first+2, ..., with the writer's index given.
Appended(cells, writer, len, first) ==
  /\ buffer_' = Stored(EnsureWritableBytes(cells, writer, len),
                       writer, len, first)
  /\ writerIndex_' = writer + len

-----------------------------------------------------------------------------
Gives(len) ==
  /\ ~Overrun
  /\ given + len <= MaxBytes
  /\ given' = given + len
  /\ UNCHANGED readerIndex_

AppendBytes(len) ==
  /\ Gives(len)
  /\ Appended(buffer_, writerIndex_, len, given)

\* readv into the writable cells and, when they are fewer than extrabuf has,
\* extrabuf; it returns len.
Readable(len) ==
  len <= writableBytes + IF writableBytes < ExtraSize THEN ExtraSize ELSE 0

ReadFdWithin(len) ==
  /\ Gives(len) /\ Readable(len)
  /\ len <= writableBytes
  /\ buffer_' = Stored(buffer_, writerIndex_, len, given)
  /\ writerIndex_' = writerIndex_ + len

ReadFdBeyond_KeepsWriter(len) ==
  /\ Gives(len) /\ Readable(len)
  /\ len > writableBytes
  /\ Appended(Stored(buffer_, writerIndex_, writableBytes, given),
              writerIndex_, len - writableBytes, given + writableBytes)

ReadFdBeyond(len) ==
  /\ Gives(len) /\ Readable(len)
  /\ len > writableBytes
  /\ Appended(Stored(buffer_, writerIndex_, writableBytes, given),
              Len(buffer_), len - writableBytes, given + writableBytes)

\* retrieve, retrieveAsString and retrieveAllAsString of readable bytes, and
\* handleWrite's retrieve of what write() took.
RetrieveSome(len) ==
  /\ ~Overrun
  /\ len <= readableBytes
  /\ readerIndex_' = readerIndex_ + len
  /\ UNCHANGED <<buffer_, writerIndex_, given>>

RetrieveAll_KeepsWriter ==
  /\ ~Overrun
  /\ readerIndex_' = kCheapPrepend
  /\ UNCHANGED <<buffer_, writerIndex_, given>>

\* retrieveAll, and retrieve of more than is readable.
RetrieveAll ==
  /\ ~Overrun
  /\ readerIndex_' = kCheapPrepend
  /\ writerIndex_' = kCheapPrepend
  /\ UNCHANGED <<buffer_, given>>

Next ==
  \/ \E len \in 1 .. MaxAppend : AppendBytes(len)
  \/ \E len \in 1 .. MaxBytes : ReadFdWithin(len)
  \/ \E len \in 1 .. MaxBytes : ReadFdBeyond(len)
  \/ \E len \in 1 .. MaxBytes : RetrieveSome(len)
  \/ RetrieveAll

Spec == Init /\ [][Next]_vars

-----------------------------------------------------------------------------
\* The vector never gets smaller, and holds nothing that was not given.
TypeOK ==
  /\ buffer_ \in Seq(0 .. given)
  /\ Len(buffer_) >= kCheapPrepend + kInitialSize
  /\ readerIndex_ \in Nat
  /\ writerIndex_ \in Nat
  /\ given \in Nat

\* The bytes a user reads between the indices.
Content == SubSeq(buffer_, readerIndex_ + 1, writerIndex_)

Queue == INSTANCE ByteQueue WITH queue <- Content

\* Until a write leaves the vector, the buffer is a queue: what is read is
\* what was written, in order and unbroken across growth and across the two
\* parts of readv, and reading frees exactly what was read.
QueueUntilOverrun ==
  /\ Queue!Init
  /\ [][~Overrun' => [Queue!Next]_(Queue!vars)]_vars

\* The inductive form: the readable cells hold the last bytes written.
ContentIsLatest ==
  /\ kCheapPrepend <= readerIndex_ /\ readerIndex_ <= writerIndex_
  /\ ~Overrun =>
       \A i \in readerIndex_ + 1 .. writerIndex_ :
         buffer_[i] + writerIndex_ = given + i

\* The vector always has the room: prepend and the readable bytes fit in it,
\* even after an overrun.  So growing is right to the byte, what an overrun
\* lacks is only the move of the indices, and an append overruns only when
\* some bytes, or all, were read since the indices were last reset.
ReadableFits == kCheapPrepend + readableBytes <= Len(buffer_)

\* Buffer.h:23: 0 <= readerIndex <= writerIndex <= size.
IndicesOrdered == readerIndex_ <= writerIndex_ /\ ~Overrun
=============================================================================
