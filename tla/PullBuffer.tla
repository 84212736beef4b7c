----------------------------- MODULE PullBuffer -----------------------------
(***************************************************************************)
(* The ring buffer of io/src/pullbuffer.cpp between two plugin threads:    *)
(* the one that fills it (a PMI or an LMC, "the writer") and the one that  *)
(* drains it (an LMC or a PMO, "the reader").  Both sides work on windows  *)
(* of the memory itself, granted by BeginWrite and BeginRead and given     *)
(* back by EndWrite and EndRead; the overflow area behind the ring lets a  *)
(* window run past its end.  Every method body that runs under m_pMutex is *)
(* one step; what a caller does between two calls, and the pointer that    *)
(* BeginRead hands out after it has released the mutex, are steps of their *)
(* own.                                                                    *)
(***************************************************************************)
EXTENDS Integers, Sequences, FiniteSets

CONSTANTS
  InitSize, InitOverflow, \* the constructor's iBufferSize and iOverflowSize
  Reshapes,               \* <<size, overflow>> pairs the writer may Resize to
  WriteSizes,             \* the iBytesNeeded values of the writer's requests
  ReadSizes,              \* the iBytesNeeded values of the reader's requests
  Frame,                  \* every amount on either side is a multiple of it
  Streaming,              \* the writer is a streaming input: it may discard
  Stamps                  \* bytes are numbered modulo Stamps as written

Shapes == Reshapes \cup {<<InitSize, InitOverflow>>}

\* The shapes the buffer has while it holds bytes: a writer that resizes does
\* so before it writes.
WorkShapes == IF Reshapes = {} THEN {<<InitSize, InitOverflow>>} ELSE Reshapes

ASSUME SizeAssumption ==
  /\ InitSize \in Nat /\ InitOverflow \in Nat
  /\ \A s \in Reshapes : s \in Nat \X Nat
  /\ Frame \in Nat \ {0}
  /\ \A n \in WriteSizes : n \in Nat \ {0}
  /\ \A n \in ReadSizes : n \in Nat
  /\ Streaming \in BOOLEAN
  /\ Stamps \in Nat \ {0}

ASSUME FrameAssumption ==
  /\ \A s \in Shapes : s[1] > 0 /\ s[1] % Frame = 0
  /\ \A n \in WriteSizes \cup ReadSizes : n % Frame = 0
  /\ Streaming => Frame = 1

\* The plugins' block sizes against the buffer they use: a window never runs
\* further than the overflow area past the last frame of the ring.
ASSUME WindowAssumption ==
  \A s \in WorkShapes : \A n \in WriteSizes \cup ReadSizes :
     n <= s[1] /\ n <= s[2] + Frame

\* The buffer holds a refused read and a refused write at the same time only
\* if it is smaller than both requests together.
ASSUME RoomAssumption ==
  \A s \in WorkShapes : \A w \in WriteSizes : \A r \in ReadSizes :
     w + r - Frame <= s[1]

VARIABLES
  bufferSize,     \* m_iBufferSize
  overflowSize,   \* m_iOverflowSize
  memory,         \* the bytes behind m_pPullBuffer
  readIndex,      \* m_iReadIndex
  writeIndex,     \* m_iWriteIndex
  bytesInBuffer,  \* m_iBytesInBuffer
  bytesToRead,    \* m_iBytesToRead
  bytesToWrite,   \* m_iBytesToWrite
  eos,            \* m_bEOS
  writer,         \* where the writer is: [at, n, ptr], ptr being pBuffer
  reader,         \* where the reader is: [at, n, ptr]
  stamp           \* the number of the next byte the writer produces

indexVars  == <<readIndex, writeIndex, bytesInBuffer>>
shapeVars  == <<bufferSize, overflowSize>>
writerVars == <<bytesToWrite, writer, stamp>>
readerVars == <<bytesToRead, reader>>
vars == <<bufferSize, overflowSize, memory, readIndex, writeIndex,
          bytesInBuffer, bytesToRead, bytesToWrite, eos, writer, reader, stamp>>

-----------------------------------------------------------------------------
Byte == 0 .. Stamps - 1
NoByte == Stamps                          \* memory nobody has written yet
Blank(n) == [i \in 0 .. n - 1 |-> NoByte]
Least(a, b) == IF a < b THEN a ELSE b
Multiples(n) == {k \in 0 .. n : k % Frame = 0}

Idle(where) == [at |-> where, n |-> 0, ptr |-> 0]

\* memory with n bytes copied from address `from` to address `to`.
Moved(mem, to, from, n) ==
  [i \in DOMAIN mem |-> IF i \in to .. to + n - 1 THEN mem[from + i - to]
                                                   ELSE mem[i]]

Init ==
  /\ bufferSize = InitSize /\ overflowSize = InitOverflow
  /\ memory = Blank(InitSize + InitOverflow)
  /\ readIndex = 0 /\ writeIndex = 0 /\ bytesInBuffer = 0
  /\ bytesToRead = 0 /\ bytesToWrite = 0
  /\ eos = FALSE
  /\ writer = Idle(IF Reshapes = {} THEN "idle" ELSE "init")
  /\ reader = Idle("idle")
  /\ stamp = 0

\* Nobody holds a window: what Clear, Resize and DiscardBytes spin for.
NoGrants == bytesToRead = 0 /\ bytesToWrite = 0

-----------------------------------------------------------------------------
(* The writer *)

\* Resize reads m_iBytesInBuffer and m_iReadIndex before it takes the mutex...
ResizeCheck(s) ==
  /\ writer.at = "init"
  /\ s[1] >= bytesInBuffer
  /\ readIndex = 0
  /\ writer' = [at |-> "resizing", n |-> s[1], ptr |-> s[2]]
  /\ UNCHANGED <<shapeVars, memory, indexVars, readerVars, bytesToWrite,
                 stamp, eos>>

\* ... and moves the bytes into new memory once nobody holds a window.
Resize ==
  /\ writer.at = "resizing"
  /\ NoGrants
  /\ bufferSize' = writer.n /\ overflowSize' = writer.ptr
  /\ memory' = [i \in 0 .. writer.n + writer.ptr - 1 |->
                  IF i < bytesInBuffer THEN memory[i] ELSE NoByte]
  /\ writeIndex' = bytesInBuffer
  /\ writer' = Idle("idle")
  /\ UNCHANGED <<readIndex, bytesInBuffer, readerVars, bytesToWrite, stamp, eos>>

\* Mutants of WriteAvail: the overflow area counted whole, and the two meanings of
\* equal indices (empty, full) confused either way.
WholeOverflowAvail(n) ==
  IF writeIndex > readIndex THEN bufferSize - writeIndex + overflowSize
  ELSE IF writeIndex = readIndex THEN IF bytesInBuffer = 0 THEN n ELSE 0
  ELSE readIndex - writeIndex
EqualIsEmptyAvail(n) ==
  IF writeIndex > readIndex
  THEN bufferSize - writeIndex + Least(readIndex, overflowSize)
  ELSE IF writeIndex = readIndex THEN n ELSE readIndex - writeIndex
EqualIsFullAvail(n) ==
  IF writeIndex > readIndex
  THEN bufferSize - writeIndex + Least(readIndex, overflowSize)
  ELSE readIndex - writeIndex

\* The room BeginWrite finds at the write index for a request of n bytes.
WriteAvail(n) ==
  IF writeIndex > readIndex
  THEN bufferSize - writeIndex + Least(readIndex, overflowSize)
  ELSE IF writeIndex = readIndex
       THEN IF bytesInBuffer = 0 THEN n ELSE 0
       ELSE readIndex - writeIndex

\* A refused request (kError_BufferTooSmall) changes nothing.
BeginWrite(n) ==
  /\ writer.at = "idle"
  /\ n <= WriteAvail(n)
  /\ bytesToWrite' = n
  /\ writer' = [at |-> "filling", n |-> n, ptr |-> writeIndex]
  /\ UNCHANGED <<shapeVars, memory, indexVars, readerVars, stamp, eos>>

\* The writer puts k of the bytes it asked room for at pBuffer, unlocked.
Fill(k) ==
  /\ writer.at = "filling"
  /\ k \in Multiples(writer.n)
  /\ memory' = [i \in DOMAIN memory |->
                  IF i \in writer.ptr .. writer.ptr + k - 1
                  THEN (stamp + i - writer.ptr) % Stamps ELSE memory[i]]
  /\ stamp' = (stamp + k) % Stamps
  /\ writer' = [writer EXCEPT !.at = "filled", !.n = k]
  /\ UNCHANGED <<shapeVars, indexVars, readerVars, bytesToWrite, eos>>

\* EndWrite copies what went past the ring into the overflow area back to the
\* start of the ring, then wraps the write index.
EndWrite ==
  /\ writer.at = "filled"
  /\ LET k == writer.n
         spill == writeIndex + k - bufferSize
     IN /\ memory' = IF spill > 0 THEN Moved(memory, 0, bufferSize, spill)
                                  ELSE memory
        /\ writeIndex' = (writeIndex + k) % bufferSize
        /\ bytesInBuffer' = bytesInBuffer + k
  /\ bytesToWrite' = 0
  /\ writer' = Idle("idle")
  /\ UNCHANGED <<shapeVars, readIndex, readerVars, stamp, eos>>

SetEndOfStream ==
  /\ writer.at \in {"idle", "filled"}
  /\ eos' = TRUE
  /\ UNCHANGED <<shapeVars, memory, indexVars, readerVars, writerVars>>

\* Mutant: discards under the reader's window.
DiscardUnderReader ==
  /\ Streaming /\ writer.at = "idle" /\ bytesToWrite = 0
  /\ LET discard == bytesInBuffer - bufferSize \div 2
     IN /\ discard > 0
        /\ readIndex' = (readIndex + discard) % bufferSize
        /\ bytesInBuffer' = bytesInBuffer - discard
  /\ UNCHANGED <<shapeVars, memory, writeIndex, readerVars, writerVars, eos>>

\* A paused stream keeps the newer half of its buffer.
DiscardBytes ==
  /\ Streaming
  /\ writer.at = "idle"
  /\ NoGrants
  /\ LET discard == bytesInBuffer - bufferSize \div 2
     IN /\ discard > 0
        /\ readIndex' = (readIndex + discard) % bufferSize
        /\ bytesInBuffer' = bytesInBuffer - discard
  /\ UNCHANGED <<shapeVars, memory, writeIndex, readerVars, writerVars, eos>>

-----------------------------------------------------------------------------
(* The reader *)

\* Mutant: the bytes that wrapped around are not offered.
NoWrapReadAvail(n) ==
  IF readIndex > writeIndex THEN bufferSize - readIndex
  ELSE IF readIndex = writeIndex
       THEN IF bytesInBuffer = 0 THEN 0 ELSE n
       ELSE writeIndex - readIndex

\* The bytes BeginRead finds in one piece for a request of n bytes.
ReadAvail(n) ==
  IF readIndex > writeIndex
  THEN IF overflowSize = 0
       THEN bufferSize - readIndex + writeIndex
       ELSE bufferSize - readIndex + Least(writeIndex, overflowSize)
  ELSE IF readIndex = writeIndex
       THEN IF bytesInBuffer = 0 THEN 0 ELSE n
       ELSE writeIndex - readIndex

\* Mutant: one byte too few is copied behind the ring.
ShortReadOverflow(n) == readIndex + n - bufferSize - 1

\* How far a read window of n bytes runs past the ring.
ReadOverflow(n) == readIndex + n - bufferSize

\* A refused request (kError_NoDataAvail, kError_EndOfStream or
\* kError_InvalidParam) changes nothing.
BeginRead(n) ==
  /\ reader.at = "idle"
  /\ n <= bytesInBuffer
  /\ n <= ReadAvail(n)
  /\ overflowSize # 0 => ReadOverflow(n) <= overflowSize
  /\ memory' = IF overflowSize # 0 /\ ReadOverflow(n) > 0
               THEN Moved(memory, bufferSize, 0, ReadOverflow(n)) ELSE memory
  /\ bytesToRead' = n
  /\ reader' = [at |-> "granted", n |-> n, ptr |-> 0]
  /\ UNCHANGED <<shapeVars, indexVars, writerVars, eos>>

\* BeginRead computes pBuffer after it has released the mutex.
TakePointer ==
  /\ reader.at = "granted"
  /\ reader' = [reader EXCEPT !.at = "reading", !.ptr = readIndex]
  /\ UNCHANGED <<shapeVars, memory, indexVars, bytesToRead, writerVars, eos>>

\* Mutant: the read index moves past the whole window, used or not.
EndReadWhole(k) ==
  /\ reader.at = "reading"
  /\ k \in Multiples(reader.n)
  /\ readIndex' = (readIndex + bytesToRead) % bufferSize
  /\ bytesInBuffer' = bytesInBuffer - k
  /\ bytesToRead' = 0
  /\ reader' = Idle("idle")
  /\ UNCHANGED <<shapeVars, memory, writeIndex, writerVars, eos>>

EndRead(k) ==
  /\ reader.at = "reading"
  /\ k \in Multiples(reader.n)
  /\ readIndex' = (readIndex + k) % bufferSize
  /\ bytesInBuffer' = bytesInBuffer - k
  /\ bytesToRead' = 0
  /\ reader' = Idle("idle")
  /\ UNCHANGED <<shapeVars, memory, writeIndex, writerVars, eos>>

-----------------------------------------------------------------------------
\* Mutant: does not wait for the windows in use.
ClearAtOnce ==
  /\ eos' = FALSE
  /\ readIndex' = 0 /\ writeIndex' = 0 /\ bytesInBuffer' = 0
  /\ UNCHANGED <<shapeVars, memory, readerVars, writerVars>>

(* The thread that seeks, stops or tears down: it empties the buffer as soon *)
(* as it finds it without grants.                                            *)
Clear ==
  /\ NoGrants
  /\ eos' = FALSE
  /\ readIndex' = 0 /\ writeIndex' = 0 /\ bytesInBuffer' = 0
  /\ UNCHANGED <<shapeVars, memory, readerVars, writerVars>>

Writer ==
  \/ \E s \in Reshapes : ResizeCheck(s)
  \/ Resize
  \/ \E n \in WriteSizes : BeginWrite(n)
  \/ \E k \in Multiples(writer.n) : Fill(k)
  \/ EndWrite
  \/ SetEndOfStream
  \/ DiscardBytes

Reader ==
  \/ \E n \in ReadSizes : BeginRead(n)
  \/ TakePointer
  \/ \E k \in Multiples(reader.n) : EndRead(k)

Next == Writer \/ Reader \/ Clear

Spec == Init /\ [][Next]_vars
-----------------------------------------------------------------------------
(* Properties *)

TypeOK ==
  /\ bufferSize \in Nat \ {0} /\ overflowSize \in Nat
  /\ memory \in [0 .. bufferSize + overflowSize - 1 -> Byte \cup {NoByte}]
  /\ readIndex \in Nat /\ writeIndex \in Nat /\ bytesInBuffer \in Nat
  /\ bytesToRead \in Nat /\ bytesToWrite \in Nat
  /\ eos \in BOOLEAN
  /\ writer \in [at : {"init", "resizing", "idle", "filling", "filled"},
                 n : Nat, ptr : Nat]
  /\ reader \in [at : {"idle", "granted", "reading"}, n : Nat, ptr : Nat]
  /\ stamp \in Byte

\* The two indices and the byte count, which EndRead, EndWrite, DiscardBytes,
\* Clear and Resize each update in part, always describe the same ring.
IndicesAgree ==
  /\ readIndex < bufferSize /\ writeIndex < bufferSize
  /\ bytesInBuffer <= bufferSize
  /\ writeIndex = (readIndex + bytesInBuffer) % bufferSize

\* Addresses of the unread bytes, of the window a client works on, and of the
\* bytes EndWrite would copy back to the start of the ring.
Unread == {(readIndex + i) % bufferSize : i \in 0 .. bytesInBuffer - 1}
WriteWindow ==
  IF writer.at \in {"filling", "filled"}
  THEN writeIndex .. writeIndex + bytesToWrite - 1 ELSE {}
ReadWindow ==
  IF bytesToRead > 0 THEN readIndex .. readIndex + bytesToRead - 1 ELSE {}
SpillTarget == {a - bufferSize : a \in {x \in WriteWindow : x >= bufferSize}}

\* The pointer a client was handed out still designates the window recorded
\* for it: nobody moved the indices or the memory under a window in use, not
\* even between BeginRead's unlock and its computation of pBuffer.
PointersHold ==
  /\ writer.at \in {"filling", "filled"} => writer.ptr = writeIndex
  /\ reader.at = "reading" /\ reader.n > 0 =>
       reader.ptr = readIndex /\ bytesToRead = reader.n

\* The assertions of BeginWrite, EndWrite and BeginRead: a window lies inside
\* the allocated memory and what is written into it will fit in the ring.
WindowsInMemory ==
  /\ WriteWindow \cup ReadWindow \subseteq DOMAIN memory
  /\ WriteWindow # {} => bytesInBuffer + bytesToWrite <= bufferSize

\* The writer fills its window without the mutex, and EndWrite moves the part
\* in the overflow area: neither may reach a byte that is still unread or that
\* the reader is looking at.
WindowsDisjoint ==
  (WriteWindow \cup SpillTarget) \cap (Unread \cup ReadWindow) = {}

\* A request is refused only for want of bytes or of room, never because of
\* where the indices stand in the ring: a reader at the end of the stream that
\* asks for the rest gets it.
ReadRefusedOnlyWhenShort ==
  \A n \in ReadSizes : n <= bytesInBuffer =>
     n <= ReadAvail(n) /\ (overflowSize # 0 => ReadOverflow(n) <= overflowSize)
WriteRefusedOnlyWhenFull ==
  writer.at = "idle" =>
    \A n \in WriteSizes : n <= bufferSize - bytesInBuffer => n <= WriteAvail(n)

\* A request is refused only for want of bytes or of room, also where a window
\* runs past the ring and is completed in the overflow area.
RefusedOnlyWhenNeeded == ReadRefusedOnlyWhenShort /\ WriteRefusedOnlyWhenFull

\* Both sides sleep when refused and only the other side wakes them: at no
\* time may both be refused.
NeverBothRefused ==
  writer.at = "idle" =>
    \A w \in WriteSizes : \A r \in ReadSizes :
       w <= WriteAvail(w) \/ (r <= bytesInBuffer /\ r <= ReadAvail(r))

-----------------------------------------------------------------------------
(* The buffer implements the stream of ByteStream: the unread bytes are those *)
(* around the ring, and what the reader holds is what it finds at its window,  *)
(* the overflow area included.                                                *)
\* n bytes from address a on, around the ring and in one piece.
Slot(a, i, size) == (a + i - 1) % size
AroundRing(mem, a, n, size) == [i \in 1 .. n |-> mem[Slot(a, i, size)]]
InOnePiece(mem, a, n) == [i \in 1 .. n |-> mem[a + i - 1]]

UnreadBytes == AroundRing(memory, readIndex, bytesInBuffer, bufferSize)
HeldBytes == InOnePiece(memory, readIndex, bytesToRead)

Stream == INSTANCE ByteStream WITH
  capacity <- bufferSize, unread <- UnreadBytes,
  reading <- HeldBytes, writing <- bytesToWrite

StreamSpec == Stream!Spec

-----------------------------------------------------------------------------
(* Flow: the threads run (each client calls again when it was refused and the  *)
(* other side moved), nobody seeks, and the source delivers bytes again and    *)
(* again until the end of the stream.                                          *)
DeliverSome == \E k \in Multiples(writer.n) \ {0} : Fill(k)

FlowSpec ==
  /\ Init
  /\ [][Writer \/ Reader]_vars
  /\ WF_vars(\E s \in Reshapes : ResizeCheck(s)) /\ WF_vars(Resize)
  /\ WF_vars(\E n \in WriteSizes : BeginWrite(n))
  /\ SF_vars(DeliverSome)
  /\ WF_vars(EndWrite)
  /\ WF_vars(\E n \in ReadSizes : BeginRead(n))
  /\ WF_vars(TakePointer)
  /\ WF_vars(\E k \in Multiples(reader.n) : EndRead(k))

\* Whatever the sizes of the windows left over by earlier calls, the reader is
\* served again and again (BeginRead ends in NoErr), or from some time on the
\* stream has ended and the buffer holds less than any read asks for: a reader
\* also gets what was there when the end was declared.
NothingLeft == eos /\ \A n \in ReadSizes : bytesInBuffer < n
ReaderServed == []<>(reader.at = "reading") \/ <>[]NothingLeft
=============================================================================
