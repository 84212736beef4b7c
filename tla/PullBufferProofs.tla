-------------------------- MODULE PullBufferProofs --------------------------
(***************************************************************************)
(* Proofs about PullBuffer, for every buffer shape and every set of block  *)
(* sizes that satisfy its assumptions.                                     *)
(***************************************************************************)
EXTENDS PullBuffer, RingArithmetic

-----------------------------------------------------------------------------
(* The inductive invariant *)

Working == writer.at \notin {"init", "resizing"}
Writing == writer.at \in {"filling", "filled"}

\* Before the writer's first write the buffer is empty; from then on it has
\* one of the shapes the block sizes were chosen for.
ShapeInv ==
  /\ <<bufferSize, overflowSize>> \in Shapes
  /\ Working => <<bufferSize, overflowSize>> \in WorkShapes
  /\ ~Working => bytesInBuffer = 0 /\ readIndex = 0
  /\ writer.at = "resizing" => <<writer.n, writer.ptr>> \in Reshapes

\* Every index and count is a whole number of frames.
FrameInv ==
  /\ bufferSize % Frame = 0
  /\ readIndex % Frame = 0 /\ writeIndex % Frame = 0
  /\ bytesInBuffer % Frame = 0

RingInv ==
  /\ readIndex < bufferSize /\ writeIndex < bufferSize
  /\ bytesInBuffer <= bufferSize
  /\ writeIndex = IF readIndex + bytesInBuffer < bufferSize
                  THEN readIndex + bytesInBuffer
                  ELSE readIndex + bytesInBuffer - bufferSize

\* What the writer and the reader know of the windows they hold.
WriterInv ==
  /\ ~Writing => bytesToWrite = 0
  /\ Writing => /\ bytesToWrite \in WriteSizes
                /\ bytesInBuffer + bytesToWrite <= bufferSize
                /\ writer.ptr = writeIndex
                /\ writer.n <= bytesToWrite /\ writer.n % Frame = 0
  /\ writer.at = "filling" => writer.n = bytesToWrite

ReaderInv ==
  /\ reader.at = "idle" => bytesToRead = 0
  /\ reader.at # "idle" => /\ bytesToRead = reader.n /\ reader.n \in ReadSizes
                           /\ bytesToRead <= bytesInBuffer
  /\ reader.at = "reading" /\ reader.n > 0 => reader.ptr = readIndex

IndInv == TypeOK /\ ShapeInv /\ FrameInv /\ RingInv /\ WriterInv /\ ReaderInv

-----------------------------------------------------------------------------
(* Facts of the constants and of the state that the steps below rest on *)

LEMMA FrameType == Frame \in Nat \ {0} /\ Stamps \in Nat \ {0}
BY SizeAssumption

\* The constants as the provers need them, shape by shape.
LEMMA ConstantFacts ==
  /\ Frame \in Nat \ {0} /\ Stamps \in Nat \ {0}
  /\ \A s \in Shapes : /\ s = <<s[1], s[2]>>
                        /\ s[1] \in Nat \ {0} /\ s[2] \in Nat
                        /\ s[1] % Frame = 0
  /\ WorkShapes \subseteq Shapes /\ Reshapes \subseteq WorkShapes
  /\ \A n \in WriteSizes : n \in Nat \ {0} /\ n % Frame = 0
  /\ \A n \in ReadSizes : n \in Nat /\ n % Frame = 0
BY SizeAssumption, FrameAssumption DEF Shapes, WorkShapes

\* The two ways of saying where the write index stands.
LEMMA RingIsModular ==
  ASSUME TypeOK, RingInv
  PROVE  writeIndex = (readIndex + bytesInBuffer) % bufferSize
<1>1. bufferSize \in Nat \ {0} /\ readIndex \in Nat /\ bytesInBuffer \in Nat
  BY DEF TypeOK
<1>2. readIndex + bytesInBuffer < bufferSize + bufferSize
  BY DEF TypeOK, RingInv
<1>3. (readIndex + bytesInBuffer) % bufferSize =
        IF readIndex + bytesInBuffer < bufferSize
        THEN readIndex + bytesInBuffer
        ELSE readIndex + bytesInBuffer - bufferSize
  BY <1>1, <1>2, WrapOnce
<1> QED BY <1>3 DEF RingInv

\* The room left in a ring of whole frames: an index is at least a frame short
\* of its end, so that a window fits in the memory.
LEMMA LastFrame ==
  ASSUME TypeOK, FrameInv, RingInv
  PROVE  readIndex + Frame <= bufferSize /\ writeIndex + Frame <= bufferSize
<1> USE ConstantFacts
<1>1. /\ bufferSize \in Nat /\ readIndex \in Nat /\ writeIndex \in Nat
      /\ bufferSize % Frame = 0 /\ readIndex % Frame = 0
      /\ writeIndex % Frame = 0
      /\ readIndex < bufferSize /\ writeIndex < bufferSize
  BY DEF TypeOK, FrameInv, RingInv
<1> QED BY <1>1, FrameApart

\* What BeginWrite finds never exceeds the free part of the ring, unless it
\* takes an empty ring's word for any request.
LEMMA AvailIsFree ==
  ASSUME TypeOK, RingInv, NEW n \in Nat, n <= WriteAvail(n), n <= bufferSize
  PROVE  bytesInBuffer + n <= bufferSize
BY DEF TypeOK, RingInv, WriteAvail, Least

-----------------------------------------------------------------------------
LEMMA InitInv == Init => IndInv
<1> SUFFICES ASSUME Init PROVE IndInv
  OBVIOUS
<1> USE ConstantFacts
<1>1. <<InitSize, InitOverflow>> \in Shapes
  BY DEF Shapes
<1>2. InitSize \in Nat \ {0} /\ InitOverflow \in Nat /\ InitSize % Frame = 0
  BY <1>1
<1>3. 0 % Frame = 0
  OBVIOUS
<1>4. TypeOK
  <2>1. memory \in [0 .. bufferSize + overflowSize - 1 -> Byte \cup {NoByte}]
    BY <1>2 DEF Init, Blank
  <2>2. writer \in [at : {"init", "resizing", "idle", "filling", "filled"},
                   n : Nat, ptr : Nat]
    BY DEF Init, Idle
  <2>3. reader \in [at : {"idle", "granted", "reading"}, n : Nat, ptr : Nat]
    BY DEF Init, Idle
  <2>4. stamp \in Byte
    BY DEF Init, Byte
  <2> QED BY <1>2, <2>1, <2>2, <2>3, <2>4 DEF Init, TypeOK
<1>5. ShapeInv
  BY <1>1 DEF Init, ShapeInv, Working, Idle, WorkShapes
<1>6. FrameInv
  BY <1>2, <1>3 DEF Init, FrameInv
<1>7. RingInv
  BY <1>2 DEF Init, RingInv
<1>8. WriterInv /\ ReaderInv
  BY DEF Init, WriterInv, ReaderInv, Writing, Idle
<1> QED BY <1>4, <1>5, <1>6, <1>7, <1>8 DEF IndInv

-----------------------------------------------------------------------------
(* Each action preserves the invariant *)

\* Copying inside the memory leaves it a memory.
LEMMA MovedType ==
  ASSUME TypeOK, NEW to \in Nat, NEW from \in Nat, NEW n \in Nat,
         from + n <= bufferSize + overflowSize
  PROVE  Moved(memory, to, from, n)
           \in [0 .. bufferSize + overflowSize - 1 -> Byte \cup {NoByte}]
BY DEF TypeOK, Moved

LEMMA ResizeCheckInv ==
  ASSUME IndInv, NEW s \in Reshapes, ResizeCheck(s)
  PROVE  IndInv'
<1> USE ConstantFacts DEF ResizeCheck, shapeVars, indexVars, readerVars
<1>1. s \in Shapes /\ s[1] \in Nat /\ s[2] \in Nat /\ s = <<s[1], s[2]>>
  OBVIOUS
<1>2. TypeOK'
  BY <1>1 DEF IndInv, TypeOK
<1>3. ShapeInv'
  BY <1>1 DEF IndInv, ShapeInv, Working
<1>4. FrameInv' /\ RingInv'
  BY DEF IndInv, FrameInv, RingInv
<1>5. WriterInv' /\ ReaderInv'
  BY DEF IndInv, WriterInv, ReaderInv, Writing
<1> QED BY <1>2, <1>3, <1>4, <1>5 DEF IndInv

LEMMA ResizeInv ==
  ASSUME IndInv, Resize
  PROVE  IndInv'
<1> USE ConstantFacts DEF Resize, NoGrants, readerVars
<1> DEFINE s == <<writer.n, writer.ptr>>
<1>1. /\ s \in Reshapes /\ s \in WorkShapes /\ s \in Shapes
      /\ writer.n \in Nat \ {0} /\ writer.ptr \in Nat
      /\ writer.n % Frame = 0
  <2>1. s \in Reshapes
    BY DEF IndInv, ShapeInv
  <2>2. s[1] = writer.n /\ s[2] = writer.ptr
    OBVIOUS
  <2> QED BY <2>1, <2>2
<1>2. bytesInBuffer = 0 /\ readIndex = 0
  BY DEF IndInv, ShapeInv, Working
<1>3. TypeOK'
  <2>1. memory' \in
          [0 .. writer.n + writer.ptr - 1 -> Byte \cup {NoByte}]
    BY <1>1, <1>2
  <2> QED BY <1>1, <1>2, <2>1 DEF IndInv, TypeOK, Idle
<1>4. ShapeInv'
  BY <1>1 DEF ShapeInv, Working, Idle
<1>5. FrameInv' /\ RingInv'
  BY <1>1, <1>2 DEF IndInv, FrameInv, RingInv
<1>6. WriterInv' /\ ReaderInv'
  BY <1>2 DEF IndInv, TypeOK, WriterInv, ReaderInv, Writing, Idle
<1> QED BY <1>3, <1>4, <1>5, <1>6 DEF IndInv

LEMMA BeginWriteInv ==
  ASSUME IndInv, NEW n \in WriteSizes, BeginWrite(n)
  PROVE  IndInv'
<1> USE ConstantFacts DEF BeginWrite, shapeVars, indexVars, readerVars
<1>1. n \in Nat \ {0} /\ n % Frame = 0
  OBVIOUS
<1>2. n <= bufferSize
  <2>1. <<bufferSize, overflowSize>> \in WorkShapes
    BY DEF IndInv, ShapeInv, Working
  <2> QED BY <2>1, WindowAssumption
<1>3. bytesInBuffer + n <= bufferSize
  BY <1>1, <1>2, AvailIsFree DEF IndInv
<1>4. TypeOK'
  BY <1>1 DEF IndInv, TypeOK
<1>5. ShapeInv'
  BY DEF IndInv, ShapeInv, Working
<1>6. FrameInv' /\ RingInv'
  BY DEF IndInv, FrameInv, RingInv
<1>7. WriterInv' /\ ReaderInv'
  BY <1>1, <1>3 DEF IndInv, WriterInv, ReaderInv, Writing
<1> QED BY <1>4, <1>5, <1>6, <1>7 DEF IndInv

LEMMA FillInv ==
  ASSUME IndInv, NEW k \in Multiples(writer.n), Fill(k)
  PROVE  IndInv'
<1>0. /\ stamp \in Int /\ writer.ptr \in Int
      /\ Stamps \in Nat \ {0} /\ 0 \in Int
  BY FrameType DEF IndInv, TypeOK, Byte
<1>1. k \in Nat /\ k <= writer.n /\ k % Frame = 0
  BY DEF Multiples, IndInv, TypeOK
<1>2. TypeOK'
  <2>1. memory' \in [0 .. bufferSize + overflowSize - 1 -> Byte \cup {NoByte}]
    <3>1. \A i \in Int : (stamp + i - writer.ptr) % Stamps \in Byte
      BY <1>0, WrapRange DEF Byte
    <3> QED BY <3>1 DEF Fill, IndInv, TypeOK
  <2>2. stamp' \in Byte
    <3>1. (stamp + k) % Stamps \in Byte
      BY <1>0, <1>1, WrapRange DEF Byte
    <3> QED BY <3>1 DEF Fill
  <2>3. writer' \in [at : {"init", "resizing", "idle", "filling", "filled"},
                    n : Nat, ptr : Nat]
    BY <1>1 DEF Fill, IndInv, TypeOK
  <2> QED BY <2>1, <2>2, <2>3 DEF Fill, shapeVars, indexVars, readerVars, IndInv, TypeOK
<1>3. ShapeInv'
  BY DEF Fill, shapeVars, indexVars, IndInv, TypeOK, ShapeInv, Working
<1>4. FrameInv' /\ RingInv'
  BY DEF Fill, shapeVars, indexVars, IndInv, FrameInv, RingInv
<1>5. WriterInv' /\ ReaderInv'
  BY <1>1 DEF Fill, shapeVars, indexVars, readerVars, IndInv, TypeOK, WriterInv, ReaderInv, Writing
<1> QED BY <1>2, <1>3, <1>4, <1>5 DEF IndInv

LEMMA EndWriteInv ==
  ASSUME IndInv, EndWrite
  PROVE  IndInv'
<1> DEFINE k == writer.n
           spill == writeIndex + k - bufferSize
<1>1. /\ k \in Nat /\ k % Frame = 0 /\ k <= bytesToWrite
      /\ bytesInBuffer + k <= bufferSize
      /\ bufferSize \in Nat \ {0} /\ overflowSize \in Nat
      /\ writeIndex \in Nat /\ readIndex \in Nat /\ bytesInBuffer \in Nat
      /\ writeIndex < bufferSize
  BY DEF EndWrite, IndInv, TypeOK, WriterInv, RingInv, Writing
<1>2. writeIndex' = IF writeIndex + k < bufferSize THEN writeIndex + k
                    ELSE writeIndex + k - bufferSize
  <2>1. writeIndex' = (writeIndex + k) % bufferSize
    BY DEF EndWrite
  <2>2. writeIndex + k < bufferSize + bufferSize
    BY <1>1
  <2> QED BY <1>1, <2>1, <2>2, WrapOnce
<1>3. spill <= overflowSize
  <2>1. bytesToWrite <= overflowSize + Frame
    BY WindowAssumption
       DEF EndWrite, IndInv, ShapeInv, WriterInv, Working, Writing
  <2>2. writeIndex + Frame <= bufferSize
    BY LastFrame DEF IndInv
  <2>3. bytesToWrite \in Nat
    BY DEF IndInv, TypeOK
  <2> QED BY <1>1, <2>1, <2>2, <2>3, FrameType
<1>4. TypeOK'
  <2>1. memory' \in [0 .. bufferSize + overflowSize - 1 -> Byte \cup {NoByte}]
    <3>1. CASE spill > 0
      <4>1. spill \in Nat /\ bufferSize + spill <= bufferSize + overflowSize
        BY <1>1, <1>3, <3>1
      <4>2. memory' = Moved(memory, 0, bufferSize, spill)
        BY <3>1 DEF EndWrite
      <4>3. TypeOK
        BY DEF IndInv
      <4> HIDE DEF spill
      <4> QED BY <1>1, <4>1, <4>2, <4>3, MovedType
    <3>2. CASE ~(spill > 0)
      BY <3>2 DEF EndWrite, IndInv, TypeOK
    <3> QED BY <3>1, <3>2
  <2>2. writer' \in [at : {"init", "resizing", "idle", "filling", "filled"},
                    n : Nat, ptr : Nat]
    BY DEF EndWrite, Idle
  <2>3. writeIndex' \in Nat /\ bytesInBuffer' \in Nat /\ bytesToWrite' = 0
    BY <1>1, <1>2 DEF EndWrite
  <2>4. UNCHANGED <<bufferSize, overflowSize, readIndex, bytesToRead, reader,
                    stamp, eos>>
    BY DEF EndWrite, shapeVars, readerVars
  <2> HIDE DEF k, spill
  <2> QED BY <2>1, <2>2, <2>3, <2>4 DEF IndInv, TypeOK
<1>5. ShapeInv'
  BY DEF EndWrite, shapeVars, IndInv, ShapeInv, Working, Idle
<1>6. FrameInv'
  <2>0. /\ bufferSize % Frame = 0 /\ writeIndex % Frame = 0
        /\ bytesInBuffer % Frame = 0
    BY DEF IndInv, FrameInv
  <2>1. (writeIndex + k) % Frame = 0 /\ (bytesInBuffer + k) % Frame = 0
    BY <1>1, <2>0, FrameType, FrameSum
  <2>2. writeIndex + k >= bufferSize =>
          (writeIndex + k - bufferSize) % Frame = 0
    <3>1. PICK c \in Nat : c = writeIndex + k
      BY <1>1
    <3>2. c >= bufferSize => (c - bufferSize) % Frame = 0
      BY <1>1, <2>0, <2>1, <3>1, FrameType, FrameSum
    <3> QED BY <1>1, <3>1, <3>2, FrameType
  <2>3. writeIndex' % Frame = 0
    BY <1>1, <1>2, <2>1, <2>2
  <2> QED BY <2>0, <2>1, <2>3 DEF EndWrite, shapeVars, indexVars, IndInv, FrameInv
<1>7. RingInv'
  BY <1>1, <1>2 DEF EndWrite, shapeVars, IndInv, RingInv
<1>8. WriterInv' /\ ReaderInv'
  BY <1>1 DEF EndWrite, readerVars, IndInv, TypeOK, WriterInv, ReaderInv, Writing, Idle
<1> QED BY <1>4, <1>5, <1>6, <1>7, <1>8 DEF IndInv

LEMMA DiscardBytesInv ==
  ASSUME IndInv, DiscardBytes
  PROVE  IndInv'
<1> USE DEF DiscardBytes, shapeVars, readerVars, writerVars, NoGrants
<1> DEFINE discard == bytesInBuffer - bufferSize \div 2
<1>1. /\ bufferSize \in Nat \ {0} /\ readIndex \in Nat /\ bytesInBuffer \in Nat
      /\ readIndex < bufferSize /\ bytesInBuffer <= bufferSize
  BY DEF IndInv, TypeOK, RingInv
<1>2. discard \in 1 .. bytesInBuffer
  BY <1>1
<1>3. readIndex' = IF readIndex + discard < bufferSize THEN readIndex + discard
                   ELSE readIndex + discard - bufferSize
  <2>1. readIndex' = (readIndex + discard) % bufferSize
    OBVIOUS
  <2>2. readIndex + discard < bufferSize + bufferSize /\ discard \in Nat
    BY <1>1, <1>2
  <2> HIDE DEF discard, DiscardBytes
  <2> QED BY <1>1, <2>1, <2>2, WrapOnce
<1>4. bytesInBuffer' = bytesInBuffer - discard
  OBVIOUS
<1> HIDE DEF discard
<1>5. TypeOK'
  <2>1. readIndex' \in Nat /\ bytesInBuffer' \in Nat
    BY <1>1, <1>2, <1>3, <1>4
  <2> QED BY <2>1 DEF IndInv, TypeOK
<1>6. ShapeInv'
  BY DEF IndInv, ShapeInv, Working
<1>7. FrameInv'
  <2>1. Frame = 1
    BY FrameAssumption
  <2>2. \A a \in Nat : a % 1 = 0
    OBVIOUS
  <2> QED BY <1>5, <2>1, <2>2 DEF TypeOK, FrameInv
<1>8. RingInv'
  BY <1>1, <1>2, <1>3, <1>4 DEF IndInv, RingInv
<1>9. WriterInv' /\ ReaderInv'
  BY DEF IndInv, TypeOK, WriterInv, ReaderInv, Writing
<1> QED BY <1>5, <1>6, <1>7, <1>8, <1>9 DEF IndInv

LEMMA BeginReadInv ==
  ASSUME IndInv, NEW n \in ReadSizes, BeginRead(n)
  PROVE  IndInv'
<1> USE DEF BeginRead, shapeVars, indexVars, writerVars
<1>1. n \in Nat /\ bufferSize \in Nat /\ overflowSize \in Nat /\ readIndex \in Nat
  BY SizeAssumption DEF IndInv, TypeOK
<1>2. TypeOK'
  <2>1. memory' \in [0 .. bufferSize + overflowSize - 1 -> Byte \cup {NoByte}]
    <3>1. CASE overflowSize # 0 /\ ReadOverflow(n) > 0
      <4>1. ReadOverflow(n) \in Nat
        BY <1>1, <3>1 DEF ReadOverflow
      <4>2. memory' = Moved(memory, bufferSize, 0, ReadOverflow(n))
        BY <3>1
      <4>3. 0 + ReadOverflow(n) <= bufferSize + overflowSize
        BY <1>1, <3>1, <4>1
      <4>4. TypeOK
        BY DEF IndInv
      <4>5. Moved(memory, bufferSize, 0, ReadOverflow(n))
              \in [0 .. bufferSize + overflowSize - 1 -> Byte \cup {NoByte}]
        BY <1>1, <4>1, <4>3, <4>4, MovedType
      <4> QED BY <4>2, <4>5
    <3>2. CASE ~(overflowSize # 0 /\ ReadOverflow(n) > 0)
      BY <3>2 DEF IndInv, TypeOK
    <3> QED BY <3>1, <3>2
  <2> QED BY <1>1, <2>1 DEF IndInv, TypeOK
<1>3. ShapeInv' /\ FrameInv' /\ RingInv'
  BY DEF IndInv, ShapeInv, FrameInv, RingInv, Working
<1>4. WriterInv' /\ ReaderInv'
  BY DEF IndInv, TypeOK, WriterInv, ReaderInv, Writing
<1> QED BY <1>2, <1>3, <1>4 DEF IndInv

LEMMA TakePointerInv ==
  ASSUME IndInv, TakePointer
  PROVE  IndInv'
<1> USE DEF TakePointer, shapeVars, indexVars, writerVars
<1>1. TypeOK'
  BY DEF IndInv, TypeOK
<1>2. ShapeInv' /\ FrameInv' /\ RingInv'
  BY DEF IndInv, ShapeInv, FrameInv, RingInv, Working
<1>3. WriterInv' /\ ReaderInv'
  BY DEF IndInv, TypeOK, WriterInv, ReaderInv, Writing
<1> QED BY <1>1, <1>2, <1>3 DEF IndInv

LEMMA EndReadInv ==
  ASSUME IndInv, NEW k \in Multiples(reader.n), EndRead(k)
  PROVE  IndInv'
<1>1. /\ k \in Nat /\ k % Frame = 0 /\ k <= bytesToRead /\ k <= bytesInBuffer
      /\ bufferSize \in Nat \ {0} /\ readIndex \in Nat /\ bytesInBuffer \in Nat
      /\ readIndex < bufferSize /\ bytesInBuffer <= bufferSize
  BY DEF EndRead, Multiples, IndInv, TypeOK, ReaderInv, RingInv
<1>2. readIndex' = IF readIndex + k < bufferSize THEN readIndex + k
                   ELSE readIndex + k - bufferSize
  <2>1. readIndex' = (readIndex + k) % bufferSize
    BY DEF EndRead
  <2>2. readIndex + k < bufferSize + bufferSize
    BY <1>1
  <2> QED BY <1>1, <2>1, <2>2, WrapOnce
<1>3. TypeOK'
  BY <1>1, <1>2 DEF EndRead, shapeVars, writerVars, IndInv, TypeOK, Idle
<1>4. ShapeInv'
  BY <1>1, <1>2 DEF EndRead, shapeVars, writerVars, IndInv, ShapeInv, Working
<1>5. FrameInv'
  <2>0. /\ bufferSize % Frame = 0 /\ readIndex % Frame = 0
        /\ bytesInBuffer % Frame = 0
    BY DEF IndInv, FrameInv
  <2>1. (readIndex + k) % Frame = 0 /\ (bytesInBuffer - k) % Frame = 0
    BY <1>1, <2>0, FrameType, FrameSum
  <2>2. readIndex + k >= bufferSize =>
          (readIndex + k - bufferSize) % Frame = 0
    <3>1. PICK c \in Nat : c = readIndex + k
      BY <1>1
    <3>2. c >= bufferSize => (c - bufferSize) % Frame = 0
      BY <1>1, <2>0, <2>1, <3>1, FrameType, FrameSum
    <3> QED BY <1>1, <3>1, <3>2, FrameType
  <2>3. readIndex' % Frame = 0
    BY <1>1, <1>2, <2>1, <2>2
  <2> QED BY <2>0, <2>1, <2>3 DEF EndRead, shapeVars, indexVars, IndInv, FrameInv
<1>6. RingInv'
  BY <1>1, <1>2 DEF EndRead, shapeVars, IndInv, RingInv
<1>7. WriterInv'
  <2>1. bytesInBuffer' <= bytesInBuffer /\ bytesInBuffer' \in Nat
    BY <1>1 DEF EndRead
  <2>2. bytesToWrite \in Nat
    BY DEF IndInv, TypeOK
  <2> QED BY <1>1, <2>1, <2>2
       DEF EndRead, shapeVars, writerVars, IndInv, WriterInv, Writing
<1>8. ReaderInv'
  BY DEF EndRead, IndInv, ReaderInv, Idle
<1> QED BY <1>3, <1>4, <1>5, <1>6, <1>7, <1>8 DEF IndInv

LEMMA ClearInv ==
  ASSUME IndInv, Clear
  PROVE  IndInv'
<1> USE ConstantFacts DEF Clear, shapeVars, readerVars, writerVars, NoGrants
<1>1. 0 % Frame = 0
  OBVIOUS
<1>2. TypeOK'
  BY DEF IndInv, TypeOK
<1>3. ShapeInv' /\ FrameInv' /\ RingInv'
  BY <1>1 DEF IndInv, TypeOK, ShapeInv, FrameInv, RingInv, Working
<1>4. WriterInv' /\ ReaderInv'
  BY DEF IndInv, TypeOK, WriterInv, ReaderInv, Writing
<1> QED BY <1>2, <1>3, <1>4 DEF IndInv

LEMMA NextInv ==
  ASSUME IndInv, [Next]_vars
  PROVE  IndInv'
<1>1. CASE Writer
  <2>1. ASSUME SetEndOfStream PROVE IndInv'
    BY <2>1 DEF SetEndOfStream, shapeVars, indexVars, readerVars, writerVars,
         IndInv, TypeOK, ShapeInv, FrameInv, RingInv, WriterInv, ReaderInv,
         Working, Writing
  <2> QED BY <1>1, <2>1, ResizeCheckInv, ResizeInv, BeginWriteInv, FillInv,
       EndWriteInv, DiscardBytesInv DEF Writer
<1>2. CASE Reader
  BY <1>2, BeginReadInv, TakePointerInv, EndReadInv DEF Reader
<1>3. CASE Clear
  BY <1>3, ClearInv
<1>4. CASE UNCHANGED vars
  BY <1>4 DEF vars, IndInv, TypeOK, ShapeInv, FrameInv, RingInv, WriterInv,
       ReaderInv, Working, Writing
<1> QED BY <1>1, <1>2, <1>3, <1>4 DEF Next

-----------------------------------------------------------------------------
(* What the invariant says *)

\* The shape in use while a client holds a window is one that every request
\* was chosen for.
LEMMA RequestsFit ==
  ASSUME IndInv, Working, NEW n \in WriteSizes \cup ReadSizes
  PROVE  n \in Nat /\ n <= bufferSize /\ n <= overflowSize + Frame
<1>1. <<bufferSize, overflowSize>> \in WorkShapes
  BY DEF IndInv, ShapeInv
<1> QED BY <1>1, WindowAssumption, SizeAssumption

LEMMA IndInvIndices == IndInv => IndicesAgree
BY RingIsModular DEF IndInv, RingInv, IndicesAgree

LEMMA IndInvPointers == IndInv => PointersHold
BY DEF IndInv, WriterInv, ReaderInv, Writing, PointersHold

\* A window in use starts at an index and ends inside the memory.
LEMMA WindowBounds ==
  ASSUME IndInv
  PROVE  /\ Writing => writeIndex + bytesToWrite <= bufferSize + overflowSize
         /\ bytesToRead > 0 =>
              readIndex + bytesToRead <= bufferSize + overflowSize
<1>1. /\ bufferSize \in Nat /\ overflowSize \in Nat /\ Frame \in Nat
      /\ readIndex \in Nat /\ writeIndex \in Nat
      /\ bytesToRead \in Nat /\ bytesToWrite \in Nat
      /\ readIndex + Frame <= bufferSize /\ writeIndex + Frame <= bufferSize
  BY FrameType, LastFrame DEF IndInv, TypeOK
<1>2. ASSUME Writing
      PROVE  writeIndex + bytesToWrite <= bufferSize + overflowSize
  <2>1. Working /\ bytesToWrite \in WriteSizes
    BY <1>2 DEF Writing, Working, IndInv, WriterInv
  <2>2. bytesToWrite <= overflowSize + Frame
    BY <2>1, RequestsFit
  <2> QED BY <1>1, <2>2
<1>3. ASSUME bytesToRead > 0
      PROVE  readIndex + bytesToRead <= bufferSize + overflowSize
  <2>1. Working /\ bytesToRead \in ReadSizes
    BY <1>1, <1>3 DEF IndInv, ShapeInv, ReaderInv
  <2>2. bytesToRead <= overflowSize + Frame
    BY <2>1, RequestsFit
  <2> QED BY <1>1, <2>2
<1> QED BY <1>2, <1>3

LEMMA IndInvInMemory == IndInv => WindowsInMemory
<1> SUFFICES ASSUME IndInv PROVE WindowsInMemory
  OBVIOUS
<1>1. /\ DOMAIN memory = 0 .. bufferSize + overflowSize - 1
      /\ bufferSize \in Nat /\ overflowSize \in Nat
      /\ readIndex \in Nat /\ writeIndex \in Nat
      /\ bytesToRead \in Nat /\ bytesToWrite \in Nat
  BY DEF IndInv, TypeOK
<1>2. WriteWindow \subseteq DOMAIN memory
  BY <1>1, WindowBounds DEF WriteWindow, Writing
<1>3. ReadWindow \subseteq DOMAIN memory
  BY <1>1, WindowBounds DEF ReadWindow
<1>4. WriteWindow # {} => bytesInBuffer + bytesToWrite <= bufferSize
  BY DEF WriteWindow, IndInv, WriterInv, Writing
<1> QED BY <1>2, <1>3, <1>4 DEF WindowsInMemory

\* An unread byte lies between the indices, in the order the ring gives them.
LEMMA UnreadAddresses ==
  ASSUME IndInv, NEW a \in Unread
  PROVE  /\ a \in Nat /\ a < bufferSize
         /\ \/ readIndex <= a /\ a < readIndex + bytesInBuffer
            \/ a < readIndex + bytesInBuffer - bufferSize
<1>1. /\ bufferSize \in Nat \ {0} /\ readIndex \in Nat /\ bytesInBuffer \in Nat
      /\ readIndex < bufferSize /\ bytesInBuffer <= bufferSize
  BY DEF IndInv, TypeOK, RingInv
<1>2. PICK i \in 0 .. bytesInBuffer - 1 : a = (readIndex + i) % bufferSize
  BY DEF Unread
<1>3. i \in Nat /\ i < bytesInBuffer
  BY <1>1, <1>2
<1>4. readIndex + i < bufferSize + bufferSize
  BY <1>1, <1>3
<1>5. a = IF readIndex + i < bufferSize THEN readIndex + i
          ELSE readIndex + i - bufferSize
  BY <1>1, <1>2, <1>3, <1>4, WrapOnce
<1> QED BY <1>1, <1>3, <1>5

LEMMA IndInvDisjoint == IndInv => WindowsDisjoint
<1> SUFFICES ASSUME IndInv, NEW a \in WriteWindow \cup SpillTarget,
                    a \in Unread \cup ReadWindow
             PROVE  FALSE
  BY DEF WindowsDisjoint
<1>1. /\ bufferSize \in Nat \ {0} /\ readIndex \in Nat /\ writeIndex \in Nat
      /\ bytesInBuffer \in Nat /\ bytesToRead \in Nat /\ bytesToWrite \in Nat
      /\ bytesToRead <= bytesInBuffer
      /\ readIndex < bufferSize /\ writeIndex < bufferSize
      /\ bytesInBuffer <= bufferSize
      /\ writeIndex = IF readIndex + bytesInBuffer < bufferSize
                      THEN readIndex + bytesInBuffer
                      ELSE readIndex + bytesInBuffer - bufferSize
  BY DEF IndInv, TypeOK, RingInv, ReaderInv
<1>2. Writing
  BY DEF WriteWindow, SpillTarget, Writing
<1>3. bytesInBuffer + bytesToWrite <= bufferSize
  BY <1>2 DEF IndInv, WriterInv
<1>4. /\ a \in Int
      /\ \/ writeIndex <= a /\ a < writeIndex + bytesToWrite
         \/ 0 <= a /\ a < writeIndex + bytesToWrite - bufferSize
  BY <1>1 DEF WriteWindow, SpillTarget
<1>5. CASE a \in Unread
  BY <1>1, <1>3, <1>4, <1>5, UnreadAddresses
<1>6. CASE a \in ReadWindow
  <2>1. readIndex <= a /\ a < readIndex + bytesToRead
    BY <1>1, <1>6 DEF ReadWindow
  <2> QED BY <1>1, <1>3, <1>4, <2>1
<1> QED BY <1>5, <1>6

LEMMA IndInvReads == IndInv => ReadRefusedOnlyWhenShort
<1> SUFFICES ASSUME IndInv, NEW n \in ReadSizes, n <= bytesInBuffer
             PROVE  /\ n <= ReadAvail(n)
                    /\ overflowSize # 0 => ReadOverflow(n) <= overflowSize
  BY DEF ReadRefusedOnlyWhenShort
<1>1. /\ bufferSize \in Nat /\ overflowSize \in Nat /\ Frame \in Nat \ {0}
      /\ readIndex \in Nat /\ writeIndex \in Nat /\ bytesInBuffer \in Nat
      /\ n \in Nat
      /\ readIndex + Frame <= bufferSize
  BY FrameType, LastFrame, SizeAssumption DEF IndInv, TypeOK
<1>2. CASE Working
  <2>1. n <= overflowSize + Frame
    BY <1>2, RequestsFit
  <2>2. n <= ReadAvail(n)
    BY <1>1, <2>1 DEF IndInv, RingInv, ReadAvail, Least
  <2>3. ReadOverflow(n) <= overflowSize
    BY <1>1, <2>1 DEF ReadOverflow
  <2> QED BY <2>2, <2>3
<1>3. CASE ~Working
  <2>1. n = 0 /\ readIndex = 0
    BY <1>1, <1>3 DEF IndInv, ShapeInv
  <2> QED BY <1>1, <2>1 DEF ReadAvail, ReadOverflow, Least
<1> QED BY <1>2, <1>3

LEMMA IndInvWrites == IndInv => WriteRefusedOnlyWhenFull
<1> SUFFICES ASSUME IndInv, writer.at = "idle", NEW n \in WriteSizes,
                    n <= bufferSize - bytesInBuffer
             PROVE  n <= WriteAvail(n)
  BY DEF WriteRefusedOnlyWhenFull
<1>1. /\ bufferSize \in Nat /\ overflowSize \in Nat /\ Frame \in Nat \ {0}
      /\ readIndex \in Nat /\ writeIndex \in Nat /\ bytesInBuffer \in Nat
      /\ n \in Nat \ {0}
      /\ writeIndex + Frame <= bufferSize
  BY FrameType, LastFrame, SizeAssumption DEF IndInv, TypeOK
<1>2. n <= overflowSize + Frame
  BY RequestsFit DEF Working
<1> QED BY <1>1, <1>2 DEF IndInv, RingInv, WriteAvail, Least

LEMMA IndInvNeverBoth == IndInv => NeverBothRefused
<1> SUFFICES ASSUME IndInv, writer.at = "idle",
                    NEW w \in WriteSizes, NEW r \in ReadSizes,
                    ~(r <= bytesInBuffer /\ r <= ReadAvail(r))
             PROVE  w <= WriteAvail(w)
  BY DEF NeverBothRefused
<1>1. /\ bufferSize \in Nat /\ bytesInBuffer \in Nat /\ Frame \in Nat \ {0}
      /\ w \in Nat /\ r \in Nat
      /\ r % Frame = 0 /\ bytesInBuffer % Frame = 0
  BY FrameType, ConstantFacts DEF IndInv, TypeOK, FrameInv
<1>2. bytesInBuffer < r
  BY <1>1, IndInvReads DEF ReadRefusedOnlyWhenShort
<1>3. bytesInBuffer + Frame <= r
  BY <1>1, <1>2, FrameApart
<1>4. w + r - Frame <= bufferSize
  <2>1. <<bufferSize, overflowSize>> \in WorkShapes
    BY DEF IndInv, ShapeInv, Working
  <2> QED BY <2>1, RoomAssumption
<1>5. w <= bufferSize - bytesInBuffer
  BY <1>1, <1>3, <1>4
<1> QED BY <1>5, IndInvWrites DEF WriteRefusedOnlyWhenFull

-----------------------------------------------------------------------------
(* Theorems *)

\* The buffer's bookkeeping, for every shape and all block sizes: a step of
\* any client leaves indices, counts and windows in agreement.
THEOREM InvariantHolds == Spec => []IndInv
BY InitInv, NextInv, PTL DEF Spec

\* Every value the buffer keeps stays of its type: in particular EndRead and
\* DiscardBytes never take the byte count below zero (the count is unsigned in
\* the code and would wrap).
THEOREM TypeCorrect == Spec => []TypeOK
BY InvariantHolds, PTL DEF IndInv

\* The read index, the write index and the byte count agree after every call
\* of BeginWrite, EndWrite, BeginRead, EndRead, DiscardBytes, Clear and Resize.
THEOREM IndicesAlwaysAgree == Spec => []IndicesAgree
BY InvariantHolds, IndInvIndices, PTL

\* No pointer handed out by BeginRead or BeginWrite goes stale while in use.
THEOREM PointersAlwaysHold == Spec => []PointersHold
BY InvariantHolds, IndInvPointers, PTL

\* The assertions of BeginWrite, EndWrite and BeginRead hold, and no client
\* reaches outside the buffer's memory.
THEOREM WindowsAlwaysInMemory == Spec => []WindowsInMemory
BY InvariantHolds, IndInvInMemory, PTL

\* What the writer writes outside the mutex, and what EndWrite moves from the
\* overflow area, never reaches an unread byte or a byte being read.
THEOREM WindowsAlwaysDisjoint == Spec => []WindowsDisjoint
BY InvariantHolds, IndInvDisjoint, PTL

\* A call is refused only for want of bytes or of room: a reader that is told
\* to sleep would have found less than it asked for, a writer less room than it
\* asked for.
THEOREM RefusalsJustified == Spec => []RefusedOnlyWhenNeeded
BY InvariantHolds, IndInvReads, IndInvWrites, PTL DEF RefusedOnlyWhenNeeded

\* Never are both sides' calls refused at once: the two threads cannot put each
\* other to sleep.
THEOREM OneSideProceeds == Spec => []NeverBothRefused
BY InvariantHolds, IndInvNeverBoth, PTL
=============================================================================
