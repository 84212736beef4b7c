----------------------------- MODULE StreamProofs -----------------------------
(***************************************************************************)
(* PullBuffer implements ByteStream, for every buffer shape and all block  *)
(* sizes that satisfy its assumptions: whatever the indices, the overflow  *)
(* area and the interleaving, the two threads see a first-in first-out     *)
(* stream of bytes.                                                        *)
(***************************************************************************)
EXTENDS PullBufferProofs, SequenceTheorems

-----------------------------------------------------------------------------
(* Bytes around a ring, as sequences *)

\* A function on 1 .. n is a sequence of n elements.
LEMMA FunctionIsSeq ==
  ASSUME NEW V, NEW n \in Nat, NEW f \in [1 .. n -> V]
  PROVE  f \in Seq(V) /\ Len(f) = n
<1>1. f \in Seq(V)
  BY SeqDef
<1>2. DOMAIN f = 1 .. Len(f) /\ Len(f) \in Nat /\ DOMAIN f = 1 .. n
  BY <1>1, LenProperties
<1> QED BY <1>1, <1>2

Contents == Byte \cup {NoByte}

\* The ring's addresses hold elements of V.
Holds(mem, size, V) == \A i \in 0 .. size - 1 : mem[i] \in V

\* seq lists the n bytes from address a on, around the ring.
Lists(seq, mem, a, n, size, V) ==
  /\ seq \in Seq(V) /\ Len(seq) = n
  /\ \A i \in 1 .. n : seq[i] = mem[Slot(a, i, size)]

LEMMA RingIsSeq ==
  ASSUME NEW V, NEW mem, NEW a \in Nat, NEW n \in Nat, NEW size \in Nat \ {0},
         Holds(mem, size, V)
  PROVE  Lists(AroundRing(mem, a, n, size), mem, a, n, size, V)
<1>1. \A i \in 1 .. n : Slot(a, i, size) \in 0 .. size - 1
  BY WrapRange DEF Slot
<1>2. AroundRing(mem, a, n, size) \in [1 .. n -> V]
  BY <1>1 DEF AroundRing, Holds
<1> QED BY <1>2, FunctionIsSeq DEF AroundRing, Lists

LEMMA PieceIsSeq ==
  ASSUME NEW V, NEW mem, NEW a \in Nat, NEW n \in Nat,
         \A i \in a .. a + n - 1 : mem[i] \in V
  PROVE  /\ InOnePiece(mem, a, n) \in Seq(V)
         /\ Len(InOnePiece(mem, a, n)) = n
         /\ \A i \in 1 .. n : InOnePiece(mem, a, n)[i] = mem[a + i - 1]
<1>1. InOnePiece(mem, a, n) \in [1 .. n -> V]
  BY DEF InOnePiece
<1> QED BY <1>1, FunctionIsSeq DEF InOnePiece

\* Wrapping an address early or late gives the same slot.
LEMMA WrapEarly ==
  ASSUME NEW s \in Nat \ {0}, NEW a \in Nat, NEW k \in Nat, NEW i \in Nat \ {0},
         a < s, k + i <= s,
         NEW b \in Nat, b < s, b = a + k \/ b = a + k - s
  PROVE  Slot(b, i, s) = Slot(a, k + i, s)
<1>1. PICK j \in Nat : j = i - 1
  OBVIOUS
<1>3. (b + j) % s = IF b + j < s THEN b + j ELSE b + j - s
  <2>1. b + j < s + s
    BY <1>1
  <2> QED BY <2>1, WrapOnce
<1>4. PICK c \in Nat : c = k + j
  OBVIOUS
<1>5. (a + c) % s = IF a + c < s THEN a + c ELSE a + c - s
  <2>1. a + c < s + s
    BY <1>1, <1>4
  <2> QED BY <2>1, WrapOnce
<1>6. (b + j) % s = (a + c) % s
  BY <1>1, <1>3, <1>4, <1>5
<1>7. b + i - 1 = b + j /\ a + (k + i) - 1 = a + c
  BY <1>1, <1>4
<1> QED BY <1>6, <1>7 DEF Slot

\* The r bytes behind the first k: what is left after consuming k.
Advances(mem, a, n, b, r, first, size) ==
  AroundRing(mem, b, r, size) = SubSeq(AroundRing(mem, a, n, size), first, n)

LEMMA AdvancedRing ==
  ASSUME NEW mem, NEW a \in Nat, NEW n \in Nat, NEW size \in Nat \ {0},
         Holds(mem, size, Contents), a < size, n <= size,
         NEW k \in Nat, NEW r \in Nat, k + r = n,
         NEW b \in Nat, b < size, b = a + k \/ b = a + k - size,
         NEW first \in Nat, first = k + 1
  PROVE  Advances(mem, a, n, b, r, first, size)
<1> DEFINE whole == AroundRing(mem, a, n, size)
           rest == AroundRing(mem, b, r, size)
           sub == SubSeq(whole, first, n)
<1>1. Lists(whole, mem, a, n, size, Contents)
  BY RingIsSeq
<1>2. Lists(rest, mem, b, r, size, Contents)
  BY RingIsSeq
<1> HIDE DEF whole, rest
<1>3. /\ sub \in Seq(Contents) /\ Len(sub) = r
      /\ \A i \in 1 .. r : sub[i] = whole[k + i]
  <2>1. first \in Int /\ n \in Int
    OBVIOUS
  <2>2. \A i \in first .. n : whole[i] \in Contents
    <3>1. \A i \in 1 .. n : whole[i] \in Contents
      BY <1>1, ElementOfSeq DEF Lists
    <3> QED BY <3>1
  <2>3. /\ sub \in Seq(Contents) /\ Len(sub) = IF first <= n THEN n - first + 1 ELSE 0
        /\ \A i \in 1 .. n - first + 1 : sub[i] = whole[first + i - 1]
    BY <2>1, <2>2, SubSeqProperties
  <2> HIDE DEF sub
  <2>4. n - first + 1 = r /\ (first <= n \/ r = 0)
    OBVIOUS
  <2>5. \A i \in 1 .. r : whole[first + i - 1] = whole[k + i]
    OBVIOUS
  <2> QED BY <2>3, <2>4, <2>5
<1> HIDE DEF sub
<1>4. ASSUME NEW i \in 1 .. r PROVE rest[i] = sub[i]
  <2>1. i \in Nat \ {0} /\ k + i <= size /\ k + i \in 1 .. n
    OBVIOUS
  <2>2. Slot(b, i, size) = Slot(a, k + i, size)
    BY <2>1, WrapEarly
  <2>3. rest[i] = mem[Slot(b, i, size)]
    BY <1>2 DEF Lists
  <2>4. sub[i] = mem[Slot(a, k + i, size)]
    BY <1>1, <1>3, <2>1 DEF Lists
  <2> QED BY <2>2, <2>3, <2>4
<1>5. rest = sub
  BY <1>2, <1>3, <1>4, SeqEqual DEF Lists
<1> QED BY <1>5 DEF rest, sub, whole, Advances

SameBytes(mem, mem2, a, n, size) ==
  \A i \in 1 .. n : mem2[Slot(a, i, size)] = mem[Slot(a, i, size)]

\* Bytes added behind the unread ones, which stay what they were.
Grows(mem, mem2, a, n, m, c, k, size) ==
  AroundRing(mem2, a, m, size) =
    AroundRing(mem, a, n, size) \o AroundRing(mem2, c, k, size)

LEMMA GrownRing ==
  ASSUME NEW mem, NEW mem2, NEW a \in Nat, NEW n \in Nat, NEW k \in Nat,
         NEW size \in Nat \ {0},
         Holds(mem, size, Contents), Holds(mem2, size, Contents),
         SameBytes(mem, mem2, a, n, size),
         NEW m \in Nat, m = n + k, NEW c \in Nat, c = a + n
  PROVE  Grows(mem, mem2, a, n, m, c, k, size)
<1> DEFINE old == AroundRing(mem, a, n, size)
           new == AroundRing(mem2, c, k, size)
           all == AroundRing(mem2, a, m, size)
<1>1. Lists(old, mem, a, n, size, Contents)
  BY RingIsSeq
<1>2. Lists(new, mem2, c, k, size, Contents)
  BY RingIsSeq
<1>3. Lists(all, mem2, a, m, size, Contents)
  BY RingIsSeq
<1> HIDE DEF old, new, all
<1>4. /\ old \o new \in Seq(Contents) /\ Len(old \o new) = m
      /\ \A i \in 1 .. m :
           (old \o new)[i] = IF i <= n THEN old[i] ELSE new[i - n]
  <2>1. old \o new \in Seq(Contents) /\ Len(old \o new) = Len(old) + Len(new)
    BY <1>1, <1>2, ConcatProperties DEF Lists
  <2>2. \A i \in 1 .. Len(old) + Len(new) :
          (old \o new)[i] = IF i <= Len(old) THEN old[i] ELSE new[i - Len(old)]
    <3>1. old \in Seq(Contents) /\ new \in Seq(Contents)
      BY <1>1, <1>2 DEF Lists
    <3> QED BY <3>1
  <2> QED BY <1>1, <1>2, <2>1, <2>2 DEF Lists
<1>5. ASSUME NEW i \in 1 .. m PROVE all[i] = (old \o new)[i]
  <2>1. CASE i <= n
    <3>1. i \in 1 .. n
      BY <2>1
    <3> QED BY <1>1, <1>3, <1>4, <2>1, <3>1 DEF SameBytes, Lists
  <2>2. CASE ~(i <= n)
    <3>1. i - n \in 1 .. k /\ c + (i - n) - 1 = a + i - 1
      BY <2>2
    <3>2. Slot(c, i - n, size) = Slot(a, i, size)
      BY <3>1 DEF Slot
    <3> QED BY <1>2, <1>3, <1>4, <2>2, <3>1, <3>2 DEF Lists
  <2> QED BY <2>1, <2>2
<1>6. all = old \o new
  BY <1>3, <1>4, <1>5, SeqEqual DEF Lists
<1> QED BY <1>6 DEF old, new, all, Grows

\* What is read around the ring depends only on the bytes that are there.
LEMMA SameRing ==
  ASSUME NEW mem, NEW mem2, NEW a, NEW n, NEW size,
         SameBytes(mem, mem2, a, n, size)
  PROVE  AroundRing(mem2, a, n, size) = AroundRing(mem, a, n, size)
BY DEF SameBytes, AroundRing

LEMMA SamePiece ==
  ASSUME NEW mem, NEW mem2, NEW a, NEW n,
         \A i \in 1 .. n : mem2[a + i - 1] = mem[a + i - 1]
  PROVE  InOnePiece(mem2, a, n) = InOnePiece(mem, a, n)
BY DEF InOnePiece

LEMMA NothingRead ==
  ASSUME NEW mem, NEW a \in Nat, NEW size \in Nat \ {0}
  PROVE  InOnePiece(mem, a, 0) = <<>> /\ AroundRing(mem, a, 0, size) = <<>>
<1>1. 1 .. 0 = {}
  OBVIOUS
<1>2. InOnePiece(mem, a, 0) \in [1 .. 0 -> {}]
  BY <1>1 DEF InOnePiece
<1>3. AroundRing(mem, a, 0, size) \in [1 .. 0 -> {}]
  BY <1>1 DEF AroundRing
<1> QED BY <1>2, <1>3, FunctionIsSeq, EmptySeq

-----------------------------------------------------------------------------
(* The addresses of the unread bytes *)

LEMMA MemoryHolds ==
  ASSUME TypeOK
  PROVE  Holds(memory, bufferSize, Contents)
BY DEF TypeOK, Holds, Contents

LEMMA UnreadIsSeq ==
  ASSUME TypeOK
  PROVE  UnreadBytes \in Seq(Contents) /\ Len(UnreadBytes) = bytesInBuffer
<1>1. /\ readIndex \in Nat /\ bytesInBuffer \in Nat
      /\ bufferSize \in Nat \ {0} /\ Holds(memory, bufferSize, Contents)
  BY MemoryHolds DEF TypeOK
<1> QED BY <1>1, RingIsSeq DEF UnreadBytes, Lists

LEMMA UnreadSlots ==
  ASSUME IndInv, NEW i \in 1 .. bytesInBuffer
  PROVE  Slot(readIndex, i, bufferSize) \in Unread
<1>1. /\ i - 1 \in 0 .. bytesInBuffer - 1
      /\ readIndex + i - 1 = readIndex + (i - 1)
  BY DEF IndInv, TypeOK
<1> QED BY <1>1 DEF Slot, Unread

\* The unread bytes and those the reader holds are in the memory.
LEMMA InUseInMemory ==
  ASSUME IndInv, NEW a \in Unread \cup ReadWindow
  PROVE  a \in DOMAIN memory
<1>1. CASE a \in Unread
  <2>1. /\ DOMAIN memory = 0 .. bufferSize + overflowSize - 1
        /\ bufferSize \in Nat /\ overflowSize \in Nat
    BY DEF IndInv, TypeOK
  <2>2. a \in Nat /\ a < bufferSize
    BY <1>1, UnreadAddresses
  <2> QED BY <2>1, <2>2
<1>2. CASE a \in ReadWindow
  BY <1>2, IndInvInMemory DEF WindowsInMemory
<1> QED BY <1>1, <1>2

\* A step that leaves the indices alone, and the bytes in use where they are,
\* changes nothing that the reader sees.
LEMMA BytesKept ==
  ASSUME IndInv, UNCHANGED <<shapeVars, indexVars>>,
         \A a \in Unread : memory'[a] = memory[a]
  PROVE  UnreadBytes' = UnreadBytes
<1>1. \A i \in 1 .. bytesInBuffer : 
        memory'[Slot(readIndex, i, bufferSize)] =
          memory[Slot(readIndex, i, bufferSize)]
  BY UnreadSlots
<1>2. SameBytes(memory, memory', readIndex, bytesInBuffer, bufferSize)
  BY <1>1 DEF SameBytes
<1>3. UnreadBytes' = AroundRing(memory', readIndex, bytesInBuffer, bufferSize)
  BY DEF UnreadBytes, shapeVars, indexVars
<1> QED BY <1>2, <1>3, SameRing DEF UnreadBytes

LEMMA HeldKept ==
  ASSUME IndInv, UNCHANGED <<readIndex, bytesToRead>>,
         \A a \in ReadWindow : memory'[a] = memory[a]
  PROVE  HeldBytes' = HeldBytes
<1>1. /\ bytesToRead \in Nat /\ readIndex \in Nat
  BY DEF IndInv, TypeOK
<1>2. \A i \in 1 .. bytesToRead : readIndex + i - 1 \in ReadWindow
  BY <1>1 DEF ReadWindow
<1>3. \A i \in 1 .. bytesToRead :
        memory'[readIndex + i - 1] = memory[readIndex + i - 1]
  BY <1>2
<1>4. HeldBytes' = InOnePiece(memory', readIndex, bytesToRead)
  BY DEF HeldBytes
<1> QED BY <1>3, <1>4, SamePiece DEF HeldBytes

-----------------------------------------------------------------------------
(* What the writer has put into its window is bytes until EndWrite takes them. *)

FilledInv ==
  writer.at = "filled" =>
    \A i \in writeIndex .. writeIndex + writer.n - 1 : memory[i] \in Byte

StreamInv == IndInv /\ FilledInv

LEMMA WindowFacts ==
  ASSUME IndInv
  PROVE  /\ bufferSize \in Nat \ {0} /\ overflowSize \in Nat
         /\ readIndex \in Nat /\ writeIndex \in Nat /\ bytesInBuffer \in Nat
         /\ bytesToRead \in Nat /\ bytesToWrite \in Nat
         /\ writer.n \in Nat /\ writer.ptr \in Nat /\ reader.n \in Nat
         /\ readIndex < bufferSize /\ writeIndex < bufferSize
         /\ bytesInBuffer <= bufferSize
         /\ DOMAIN memory = 0 .. bufferSize + overflowSize - 1
BY DEF IndInv, TypeOK, RingInv

LEMMA FillFills ==
  ASSUME IndInv, NEW k \in Multiples(writer.n), Fill(k)
  PROVE  FilledInv'
<1>1. k \in Nat /\ k <= writer.n /\ k <= bytesToWrite /\ writer.ptr = writeIndex
  BY WindowFacts DEF Multiples, Fill, IndInv, WriterInv, Writing
<1>2. writeIndex + bytesToWrite <= bufferSize + overflowSize
  BY WindowBounds DEF Fill, Writing
<1>3. ASSUME NEW i \in writeIndex .. writeIndex + k - 1
      PROVE  memory'[i] \in Byte
  <2>1. i \in DOMAIN memory /\ i \in writer.ptr .. writer.ptr + k - 1
    BY <1>1, <1>2, WindowFacts
  <2>2. memory'[i] = (stamp + i - writer.ptr) % Stamps
    BY <2>1 DEF Fill
  <2>3. stamp \in Int /\ i \in Int /\ writer.ptr \in Int /\ Stamps \in Nat \ {0}
    BY FrameType, WindowFacts DEF IndInv, TypeOK, Byte
  <2> QED BY <2>2, <2>3, WrapRange DEF Byte
<1>4. writer'.n = k /\ writeIndex' = writeIndex
  BY DEF Fill, indexVars, IndInv, TypeOK
<1> QED BY <1>3, <1>4 DEF FilledInv

\* A read window that runs past the ring leaves the writer's in front of it:
\* the bytes copied behind the ring cover none that are being written.
LEMMA OverflowFree ==
  ASSUME IndInv, Writing, NEW n \in Nat, n <= bytesInBuffer,
         readIndex + n > bufferSize
  PROVE  writeIndex + bytesToWrite <= bufferSize
<1>1. bytesInBuffer + bytesToWrite <= bufferSize
  BY DEF IndInv, WriterInv
<1>2. writeIndex = readIndex + bytesInBuffer - bufferSize
  BY WindowFacts DEF IndInv, RingInv
<1> QED BY <1>1, <1>2, WindowFacts

\* BeginRead writes only into the overflow area.
LEMMA ReadCopies ==
  ASSUME IndInv, NEW n \in ReadSizes, BeginRead(n),
         NEW a \in DOMAIN memory, a < bufferSize \/ ReadOverflow(n) <= 0
  PROVE  memory'[a] = memory[a]
<1>1. CASE overflowSize # 0 /\ ReadOverflow(n) > 0
  <2>1. memory' = Moved(memory, bufferSize, 0, ReadOverflow(n))
    BY <1>1 DEF BeginRead
  <2>2. ~(a \in bufferSize .. bufferSize + ReadOverflow(n) - 1)
    BY <1>1, WindowFacts, SizeAssumption DEF ReadOverflow
  <2> QED BY <2>1, <2>2 DEF Moved
<1>2. CASE ~(overflowSize # 0 /\ ReadOverflow(n) > 0)
  BY <1>2 DEF BeginRead
<1> QED BY <1>1, <1>2

LEMMA BeginReadKeepsFilled ==
  ASSUME StreamInv, NEW n \in ReadSizes, BeginRead(n)
  PROVE  FilledInv'
<1>1. /\ UNCHANGED <<writer, writeIndex>> /\ n <= bytesInBuffer /\ n \in Nat
  BY SizeAssumption DEF BeginRead, writerVars, indexVars
<1>2. ASSUME writer.at = "filled",
             NEW i \in writeIndex .. writeIndex + writer.n - 1
      PROVE  memory'[i] \in Byte
  <2>1. Writing /\ writer.n <= bytesToWrite
    BY <1>2 DEF Writing, StreamInv, IndInv, WriterInv
  <2>2. writeIndex + bytesToWrite <= bufferSize + overflowSize
    BY <2>1, WindowBounds DEF StreamInv
  <2>3. i \in DOMAIN memory
    BY <2>1, <2>2, WindowFacts DEF StreamInv
  <2>4. i < bufferSize \/ ReadOverflow(n) <= 0
    <3>1. ASSUME readIndex + n > bufferSize PROVE i < bufferSize
      <4>1. writeIndex + bytesToWrite <= bufferSize
        BY <1>1, <2>1, <3>1, OverflowFree DEF StreamInv
      <4> QED BY <2>1, <4>1, WindowFacts DEF StreamInv
    <3> QED BY <1>1, <3>1, WindowFacts DEF ReadOverflow, StreamInv
  <2>5. memory'[i] = memory[i]
    BY <2>3, <2>4, ReadCopies DEF StreamInv
  <2> QED BY <1>2, <2>5 DEF StreamInv, FilledInv
<1> QED BY <1>1, <1>2 DEF FilledInv

LEMMA NextFilled ==
  ASSUME StreamInv, [Next]_vars
  PROVE  FilledInv'
<1> USE DEF StreamInv, shapeVars, indexVars, readerVars, writerVars
<1>1. CASE \E s \in Reshapes : ResizeCheck(s)
  BY <1>1 DEF ResizeCheck, FilledInv
<1>2. CASE Resize
  BY <1>2 DEF Resize, FilledInv, Idle
<1>3. CASE \E n \in WriteSizes : BeginWrite(n)
  BY <1>3 DEF BeginWrite, FilledInv
<1>4. CASE \E k \in Multiples(writer.n) : Fill(k)
  BY <1>4, FillFills
<1>5. CASE EndWrite
  BY <1>5 DEF EndWrite, FilledInv, Idle
<1>6. CASE SetEndOfStream
  BY <1>6 DEF SetEndOfStream, FilledInv
<1>7. CASE DiscardBytes
  BY <1>7 DEF DiscardBytes, FilledInv
<1>8. CASE \E n \in ReadSizes : BeginRead(n)
  BY <1>8, BeginReadKeepsFilled
<1>9. CASE TakePointer
  BY <1>9 DEF TakePointer, FilledInv
<1>10. CASE \E k \in Multiples(reader.n) : EndRead(k)
  BY <1>10 DEF EndRead, FilledInv
<1>11. CASE Clear
  <2>1. writer.at # "filled"
    BY <1>11, SizeAssumption DEF Clear, NoGrants, IndInv, WriterInv, Writing
  <2> QED BY <1>11, <2>1 DEF Clear, FilledInv
<1>12. CASE UNCHANGED vars
  BY <1>12 DEF vars, FilledInv
<1> QED BY <1>1, <1>2, <1>3, <1>4, <1>5, <1>6, <1>7, <1>8, <1>9, <1>10, <1>11,
     <1>12 DEF Next, Writer, Reader

\* What the writer was seen to fill is there until EndWrite delivers it.
LEMMA StreamInvariant == Spec => []StreamInv
<1>1. Init => StreamInv
  BY InitInv DEF Init, StreamInv, FilledInv, Idle
<1>2. StreamInv /\ [Next]_vars => StreamInv'
  BY NextInv, NextFilled DEF StreamInv
<1> QED BY <1>1, <1>2, PTL DEF Spec

-----------------------------------------------------------------------------
(* Each action is a step of the stream, or one that the stream does not see *)

streamView == <<bufferSize, UnreadBytes, eos, HeldBytes, bytesToWrite>>
Unseen == UNCHANGED streamView

\* Nobody holds a window, nobody holds bytes.
LEMMA NothingHeld ==
  ASSUME TypeOK
  PROVE  bytesToRead = 0 => HeldBytes = <<>>
BY NothingRead DEF TypeOK, HeldBytes

LEMMA InitStream == Init => Stream!Init
<1> SUFFICES ASSUME Init PROVE Stream!Init
  OBVIOUS
<1>1. TypeOK /\ bytesInBuffer = 0 /\ bytesToRead = 0
  BY InitInv DEF IndInv, Init
<1>2. UnreadBytes = <<>> /\ HeldBytes = <<>>
  BY <1>1, NothingRead DEF TypeOK, UnreadBytes, HeldBytes
<1> QED BY <1>1, <1>2 DEF Init, TypeOK, Stream!Init

\* What stays in place when only the clients' program counters move.
LEMMA ViewKept ==
  ASSUME UNCHANGED <<shapeVars, memory, indexVars, bytesToRead>>
  PROVE  UnreadBytes' = UnreadBytes /\ HeldBytes' = HeldBytes /\ bufferSize' = bufferSize
BY DEF UnreadBytes, HeldBytes, shapeVars, indexVars

LEMMA ResizeCheckStream ==
  ASSUME NEW s \in Reshapes, ResizeCheck(s)
  PROVE  Unseen
BY ViewKept DEF ResizeCheck, readerVars, Unseen, streamView

LEMMA ResizeStream ==
  ASSUME IndInv, IndInv', Resize
  PROVE  Stream!Reshape
<1>1. /\ bytesInBuffer = 0 /\ bytesInBuffer' = 0
      /\ bytesToRead = 0 /\ bytesToRead' = 0
  BY DEF Resize, readerVars, NoGrants, IndInv, ShapeInv, Working
<1>2. UnreadBytes = <<>> /\ HeldBytes = <<>>
  BY <1>1, NothingRead DEF IndInv, TypeOK, UnreadBytes, HeldBytes
<1>3. UnreadBytes' = <<>> /\ HeldBytes' = <<>>
  BY <1>1, NothingRead DEF IndInv, TypeOK, UnreadBytes, HeldBytes
<1>4. bufferSize' \in Nat
  BY DEF IndInv, TypeOK
<1> QED BY <1>2, <1>3, <1>4 DEF Resize, NoGrants, Stream!Reshape, Stream!Idle

LEMMA BeginWriteStream ==
  ASSUME IndInv, NEW n \in WriteSizes, BeginWrite(n)
  PROVE  Stream!GrantWrite
<1>1. n \in Nat \ {0} /\ n <= bufferSize
  BY SizeAssumption, RequestsFit DEF BeginWrite, Working
<1>2. bytesInBuffer + n <= bufferSize
  BY <1>1, AvailIsFree DEF BeginWrite, IndInv
<1>3. n \in 1 .. bufferSize - Len(UnreadBytes)
  BY <1>1, <1>2, UnreadIsSeq, WindowFacts DEF IndInv
<1>4. bytesToWrite = 0 /\ bytesToWrite' = n
  BY DEF BeginWrite, IndInv, WriterInv, Writing
<1>5. UNCHANGED <<bufferSize, UnreadBytes, eos, HeldBytes>>
  BY ViewKept DEF BeginWrite, readerVars
<1> QED BY <1>3, <1>4, <1>5 DEF Stream!GrantWrite

LEMMA FillStream ==
  ASSUME IndInv, NEW k \in Multiples(writer.n), Fill(k)
  PROVE  Unseen
<1>1. /\ k \in Nat /\ k <= bytesToWrite /\ writer.ptr = writeIndex
      /\ WriteWindow = writeIndex .. writeIndex + bytesToWrite - 1
  BY WindowFacts DEF Multiples, Fill, IndInv, WriterInv, Writing, WriteWindow
<1>2. ASSUME NEW a \in Unread \cup ReadWindow PROVE memory'[a] = memory[a]
  <2>1. a \notin WriteWindow
    BY IndInvDisjoint DEF WindowsDisjoint
  <2>2. a \notin writer.ptr .. writer.ptr + k - 1
    BY <1>1, <2>1, WindowFacts
  <2> QED BY <2>2, InUseInMemory DEF Fill
<1>3. UnreadBytes' = UnreadBytes
  BY <1>2, BytesKept DEF Fill
<1>4. HeldBytes' = HeldBytes
  BY <1>2, HeldKept DEF Fill, indexVars, readerVars
<1> QED BY <1>3, <1>4 DEF Fill, shapeVars, Unseen, streamView

\* Where EndWrite leaves the bytes: what was written past the ring is read at
\* its start.
LEMMA EndWriteMoves ==
  ASSUME IndInv, EndWrite, NEW a \in DOMAIN memory
  PROVE  memory'[a] = IF a < writeIndex + writer.n - bufferSize
                      THEN memory[bufferSize + a] ELSE memory[a]
<1> DEFINE spill == writeIndex + writer.n - bufferSize
<1>1. a \in Nat /\ spill \in Int /\ bufferSize \in Nat
  BY WindowFacts
<1>2. CASE spill > 0
  <2>1. memory' = Moved(memory, 0, bufferSize, spill)
    BY <1>2 DEF EndWrite
  <2>2. memory'[a] = IF a \in 0 .. 0 + spill - 1 THEN memory[bufferSize + a - 0]
                                                ELSE memory[a]
    BY <2>1 DEF Moved
  <2>3. a \in 0 .. 0 + spill - 1 <=> a < spill
    BY <1>1
  <2>4. bufferSize + a - 0 = bufferSize + a
    BY <1>1
  <2> QED BY <2>2, <2>3, <2>4
<1>3. CASE ~(spill > 0)
  <2>1. memory' = memory /\ ~(a < spill)
    BY <1>1, <1>3 DEF EndWrite
  <2> QED BY <2>1
<1> QED BY <1>2, <1>3

LEMMA EndWriteKeeps ==
  ASSUME IndInv, EndWrite, NEW a \in Unread \cup ReadWindow
  PROVE  memory'[a] = memory[a]
<1>1. a \in DOMAIN memory
  BY InUseInMemory
<1>2. Writing /\ writer.n <= bytesToWrite
  BY DEF EndWrite, Writing, IndInv, WriterInv
<1>3. a \notin SpillTarget
  BY IndInvDisjoint DEF WindowsDisjoint
<1>4. ASSUME a < writeIndex + writer.n - bufferSize PROVE FALSE
  <2>0. /\ a \in Nat /\ bufferSize \in Nat /\ writeIndex \in Nat
        /\ bytesToWrite \in Nat /\ writer.n \in Nat /\ writeIndex < bufferSize
    BY <1>1, WindowFacts
  <2>1. bufferSize + a \in writeIndex .. writeIndex + bytesToWrite - 1
    BY <1>2, <1>4, <2>0
  <2>2. bufferSize + a \in WriteWindow /\ bufferSize + a >= bufferSize
    BY <1>1, <1>2, <2>1, WindowFacts DEF WriteWindow, Writing
  <2>3. (bufferSize + a) - bufferSize = a
    BY <1>1, WindowFacts
  <2> QED BY <1>3, <2>2, <2>3 DEF SpillTarget
<1> QED BY <1>1, <1>4, EndWriteMoves

\* Address i of the bytes behind the unread ones is the i-th of the window.
LEMMA NextSlots ==
  ASSUME IndInv, NEW i \in Nat \ {0}, i + bytesInBuffer <= bufferSize
  PROVE  Slot(readIndex + bytesInBuffer, i, bufferSize) =
           IF writeIndex + i - 1 < bufferSize THEN writeIndex + i - 1
           ELSE writeIndex + i - 1 - bufferSize
<1>0. /\ bufferSize \in Nat \ {0} /\ readIndex \in Nat /\ writeIndex \in Nat
      /\ bytesInBuffer \in Nat /\ readIndex < bufferSize
      /\ writeIndex < bufferSize /\ bytesInBuffer <= bufferSize
  BY WindowFacts
<1>1. PICK c \in Nat : c = bytesInBuffer + i - 1
  BY <1>0
<1>2. readIndex + c < bufferSize + bufferSize
  BY <1>0, <1>1
<1>3. (readIndex + c) % bufferSize =
        IF readIndex + c < bufferSize THEN readIndex + c
        ELSE readIndex + c - bufferSize
  BY <1>0, <1>2, WrapOnce
<1>4. readIndex + bytesInBuffer + i - 1 = readIndex + c
  BY <1>0, <1>1
<1>5. writeIndex = IF readIndex + bytesInBuffer < bufferSize
                   THEN readIndex + bytesInBuffer
                   ELSE readIndex + bytesInBuffer - bufferSize
  BY DEF IndInv, RingInv
<1>6. Slot(readIndex + bytesInBuffer, i, bufferSize) =
        IF readIndex + c < bufferSize THEN readIndex + c
        ELSE readIndex + c - bufferSize
  BY <1>3, <1>4 DEF Slot
<1> QED BY <1>0, <1>1, <1>2, <1>5, <1>6

LEMMA EndWriteStream ==
  ASSUME StreamInv, IndInv', EndWrite
  PROVE  Stream!Deliver
<1> USE DEF StreamInv
<1>0. /\ bufferSize \in Nat \ {0} /\ overflowSize \in Nat
      /\ readIndex \in Nat /\ writeIndex \in Nat /\ bytesInBuffer \in Nat
      /\ bytesToWrite \in Nat /\ writeIndex < bufferSize
      /\ bytesInBuffer <= bufferSize
  BY WindowFacts
<1>1. PICK k \in Nat : k = writer.n
  BY WindowFacts
<1>2. /\ Writing /\ k <= bytesToWrite /\ bytesToWrite > 0
      /\ bytesInBuffer + k <= bufferSize
  <2>1. Writing
    BY DEF EndWrite, Writing
  <2>2. /\ bytesToWrite \in WriteSizes /\ k <= bytesToWrite
        /\ bytesInBuffer + bytesToWrite <= bufferSize
    BY <1>1, <2>1 DEF IndInv, WriterInv
  <2>3. bytesToWrite > 0
    BY <1>0, <2>2, SizeAssumption
  <2> QED BY <1>0, <2>1, <2>2, <2>3
<1>3. /\ UNCHANGED <<bufferSize, overflowSize, readIndex, bytesToRead, eos>>
      /\ bytesInBuffer' = bytesInBuffer + k
      /\ bytesToWrite' = 0
  BY <1>1 DEF EndWrite, shapeVars, readerVars
<1>4. HeldBytes' = HeldBytes
  BY <1>3, EndWriteKeeps, HeldKept
<1>5. SameBytes(memory, memory', readIndex, bytesInBuffer, bufferSize)
  BY EndWriteKeeps, UnreadSlots DEF SameBytes
<1>6. Holds(memory, bufferSize, Contents) /\ Holds(memory', bufferSize, Contents)
  BY <1>3, MemoryHolds DEF IndInv, TypeOK, Holds, Contents
<1>7. PICK data : data = AroundRing(memory', readIndex + bytesInBuffer, k,
                                    bufferSize)
  OBVIOUS
<1>8. UnreadBytes' = UnreadBytes \o data
  <2>0. bytesInBuffer + k \in Nat /\ readIndex + bytesInBuffer \in Nat
    BY <1>0
  <2>1. UnreadBytes' =
          AroundRing(memory', readIndex, bytesInBuffer + k, bufferSize)
    BY <1>3 DEF UnreadBytes
  <2>2. Grows(memory, memory', readIndex, bytesInBuffer, bytesInBuffer + k,
              readIndex + bytesInBuffer, k, bufferSize)
    BY <1>0, <1>5, <1>6, <2>0, GrownRing
  <2> QED BY <1>7, <2>1, <2>2 DEF UnreadBytes, Grows
<1>9. data \in [1 .. k -> Byte]
  <2>1. ASSUME NEW i \in 1 .. k
        PROVE  memory'[Slot(readIndex + bytesInBuffer, i, bufferSize)] \in Byte
    <3>1. i \in Nat \ {0} /\ i + bytesInBuffer <= bufferSize /\ i <= k
      BY <1>0, <1>2
    <3>2. PICK w \in Nat : w = writeIndex + i - 1
      BY <1>0, <3>1
    <3>3. memory[w] \in Byte /\ w \in DOMAIN memory
      <4>1. w \in writeIndex .. writeIndex + k - 1
        BY <1>0, <3>1, <3>2
      <4>2. writeIndex + bytesToWrite <= bufferSize + overflowSize
        BY <1>2, WindowBounds
      <4>3. w \in 0 .. bufferSize + overflowSize - 1
        BY <1>0, <1>2, <4>1, <4>2
      <4> QED BY <1>1, <4>1, <4>3, WindowFacts DEF FilledInv, EndWrite
    <3>4. Slot(readIndex + bytesInBuffer, i, bufferSize) =
            IF w < bufferSize THEN w ELSE w - bufferSize
      <4>1. Slot(readIndex + bytesInBuffer, i, bufferSize) =
              IF writeIndex + i - 1 < bufferSize THEN writeIndex + i - 1
              ELSE writeIndex + i - 1 - bufferSize
        BY <3>1, NextSlots
      <4> QED BY <1>0, <3>2, <4>1
    <3>5. CASE w < bufferSize
      <4>1. ~(w < writeIndex + k - bufferSize)
        BY <1>0, <1>2, <3>1, <3>2
      <4> QED BY <1>1, <3>3, <3>4, <3>5, <4>1, EndWriteMoves
    <3>6. CASE ~(w < bufferSize)
      <4>1. PICK v \in Nat : v = w - bufferSize
        BY <1>0, <3>6
      <4>2. /\ v \in 0 .. bufferSize + overflowSize - 1
            /\ v < writeIndex + k - bufferSize
            /\ bufferSize + v = w
        BY <1>0, <1>2, <3>1, <3>2, <4>1
      <4>3. memory'[v] = memory[w]
        BY <1>1, <4>2, EndWriteMoves, WindowFacts
      <4> QED BY <3>3, <3>4, <3>6, <4>1, <4>3
    <3> QED BY <3>5, <3>6
  <2> QED BY <1>7, <2>1 DEF AroundRing
<1>10. \E j \in 0 .. bytesToWrite : \E d \in Stream!Bytes(j) :
         UnreadBytes' = UnreadBytes \o d
  <2>1. k \in 0 .. bytesToWrite
    BY <1>0, <1>2
  <2> QED BY <1>8, <1>9, <2>1 DEF Stream!Bytes
<1> QED BY <1>2, <1>3, <1>4, <1>10 DEF Stream!Deliver

\* Advancing the read index drops the oldest bytes.
LEMMA Consumed ==
  ASSUME IndInv, IndInv', NEW k \in Nat, k <= bytesInBuffer,
         bufferSize' = bufferSize, memory' = memory,
         readIndex' = (readIndex + k) % bufferSize,
         bytesInBuffer' = bytesInBuffer - k
  PROVE  UnreadBytes' = SubSeq(UnreadBytes, k + 1, Len(UnreadBytes))
<1>1. /\ readIndex' \in Nat /\ readIndex' < bufferSize /\ bytesInBuffer' \in Nat
      /\ k + bytesInBuffer' = bytesInBuffer
  BY WindowFacts DEF IndInv, TypeOK, RingInv
<1>2. readIndex' = readIndex + k \/ readIndex' = readIndex + k - bufferSize
  <2>1. readIndex + k < bufferSize + bufferSize
    BY WindowFacts
  <2> QED BY <2>1, WrapOnce, WindowFacts
<1>3. PICK b \in Nat, r \in Nat : b = readIndex' /\ r = bytesInBuffer'
  BY <1>1
<1>4. Holds(memory, bufferSize, Contents) /\ Len(UnreadBytes) = bytesInBuffer
  BY MemoryHolds, UnreadIsSeq DEF IndInv
<1>5. Advances(memory, readIndex, bytesInBuffer, b, r, k + 1, bufferSize)
  <2>1. /\ bufferSize \in Nat \ {0} /\ readIndex \in Nat
        /\ bytesInBuffer \in Nat /\ readIndex < bufferSize
        /\ bytesInBuffer <= bufferSize
    BY WindowFacts
  <2>2. /\ k + r = bytesInBuffer /\ b < bufferSize /\ k + 1 \in Nat
        /\ b = readIndex + k \/ b = readIndex + k - bufferSize
    BY <1>1, <1>2, <1>3
  <2> QED BY <1>4, <2>1, <2>2, AdvancedRing
<1> QED BY <1>3, <1>4, <1>5 DEF UnreadBytes, Advances

LEMMA SetEndOfStreamStream ==
  ASSUME SetEndOfStream
  PROVE  Stream!DeclareEnd
BY ViewKept DEF SetEndOfStream, readerVars, writerVars, Stream!DeclareEnd

LEMMA DiscardBytesStream ==
  ASSUME IndInv, IndInv', DiscardBytes
  PROVE  Stream!DropOldest
<1> DEFINE discard == bytesInBuffer - bufferSize \div 2
<1>1. /\ bytesToRead = 0 /\ bytesToWrite = 0
      /\ UNCHANGED <<bufferSize, memory, eos, bytesToRead, bytesToWrite>>
      /\ readIndex' = (readIndex + discard) % bufferSize
      /\ bytesInBuffer' = bytesInBuffer - discard
      /\ discard > 0
  BY DEF DiscardBytes, NoGrants, shapeVars, readerVars, writerVars
<1>2. PICK k \in Nat : k = discard
  <2>1. bytesInBuffer \in Nat /\ bufferSize \in Nat
    BY WindowFacts
  <2>2. bufferSize \div 2 \in Nat
    BY <2>1
  <2>3. discard \in Nat
    BY <1>1, <2>1, <2>2
  <2> QED BY <2>3
<1>3. k \in 1 .. bytesInBuffer
  <2>1. bytesInBuffer \in Nat /\ bufferSize \in Nat
    BY WindowFacts
  <2>2. bufferSize \div 2 \in Nat
    BY <2>1
  <2> QED BY <1>1, <1>2, <2>1, <2>2
<1> HIDE DEF discard
<1>4. UnreadBytes' = SubSeq(UnreadBytes, k + 1, Len(UnreadBytes))
  BY <1>1, <1>2, <1>3, Consumed
<1>5. HeldBytes = <<>> /\ HeldBytes' = <<>>
  <2>1. HeldBytes = <<>>
    BY <1>1, NothingHeld DEF IndInv
  <2>2. readIndex' \in Nat /\ bufferSize \in Nat \ {0}
    BY WindowFacts DEF IndInv, TypeOK
  <2>3. HeldBytes' = InOnePiece(memory', readIndex', 0)
    BY <1>1 DEF HeldBytes
  <2> QED BY <2>1, <2>2, <2>3, NothingRead
<1>6. \E j \in 1 .. Len(UnreadBytes) :
        UnreadBytes' = SubSeq(UnreadBytes, j + 1, Len(UnreadBytes))
  BY <1>3, <1>4, UnreadIsSeq DEF IndInv
<1> QED BY <1>1, <1>5, <1>6 DEF Stream!DropOldest, Stream!Idle

\* The window BeginRead grants holds the oldest unread bytes, the part behind
\* the ring included.
LEMMA WindowIsOldest ==
  ASSUME IndInv, NEW n \in ReadSizes, BeginRead(n), NEW i \in 1 .. n
  PROVE  memory'[readIndex + i - 1] = memory[Slot(readIndex, i, bufferSize)]
<1>0. /\ bufferSize \in Nat \ {0} /\ overflowSize \in Nat /\ readIndex \in Nat
      /\ bytesInBuffer \in Nat /\ readIndex < bufferSize
      /\ bytesInBuffer <= bufferSize /\ n \in Nat /\ n <= bytesInBuffer
      /\ DOMAIN memory = 0 .. bufferSize + overflowSize - 1
  BY WindowFacts, SizeAssumption DEF BeginRead
<1>1. n <= overflowSize + Frame /\ readIndex + Frame <= bufferSize
  <2>1. CASE Working
    BY <2>1, RequestsFit, LastFrame DEF IndInv
  <2>2. CASE ~Working
    BY <1>0, <2>2 DEF IndInv, ShapeInv
  <2> QED BY <2>1, <2>2
<1>2. PICK w \in Nat : w = readIndex + i - 1
  BY <1>0
<1>3. Slot(readIndex, i, bufferSize) = IF w < bufferSize THEN w ELSE w - bufferSize
  <2>1. PICK j \in Nat : j = i - 1
    BY <1>0
  <2>2. readIndex + j < bufferSize + bufferSize
    BY <1>0, <2>1
  <2>3. (readIndex + j) % bufferSize =
          IF readIndex + j < bufferSize THEN readIndex + j
          ELSE readIndex + j - bufferSize
    BY <1>0, <2>2, WrapOnce
  <2>4. readIndex + i - 1 = readIndex + j /\ w = readIndex + j
    BY <1>0, <1>2, <2>1
  <2>5. Slot(readIndex, i, bufferSize) = (readIndex + j) % bufferSize
    BY <2>4 DEF Slot
  <2> QED BY <1>0, <2>3, <2>4, <2>5
<1>4. CASE w < bufferSize
  <2>1. w \in DOMAIN memory
    BY <1>0, <1>4
  <2> QED BY <1>2, <1>3, <1>4, <2>1, ReadCopies
<1>5. CASE ~(w < bufferSize)
  <2>1. readIndex + n - bufferSize > 0
    BY <1>0, <1>2, <1>5
  <2>2. overflowSize # 0
    BY <1>0, <1>1, <2>1, FrameType
  <2>3. memory' = Moved(memory, bufferSize, 0, readIndex + n - bufferSize)
    BY <2>1, <2>2 DEF BeginRead, ReadOverflow
  <2>4. /\ w \in 0 .. bufferSize + overflowSize - 1
        /\ w \in bufferSize .. bufferSize + (readIndex + n - bufferSize) - 1
        /\ 0 + w - bufferSize = w - bufferSize
    BY <1>0, <1>1, <1>2, <1>5, FrameType
  <2>5. memory'[w] = memory[0 + w - bufferSize]
    BY <1>0, <2>3, <2>4 DEF Moved
  <2> QED BY <1>2, <1>3, <1>5, <2>4, <2>5
<1> QED BY <1>4, <1>5

LEMMA BeginReadStream ==
  ASSUME IndInv, NEW n \in ReadSizes, BeginRead(n)
  PROVE  Stream!GrantRead \/ Unseen
<1>0. /\ n \in Nat /\ n <= bytesInBuffer /\ bytesInBuffer \in Nat
      /\ readIndex \in Nat /\ bufferSize \in Nat \ {0}
  BY WindowFacts, SizeAssumption DEF BeginRead
<1>1. /\ UNCHANGED <<bufferSize, bytesToWrite, eos, readIndex, bytesInBuffer>>
      /\ bytesToRead = 0 /\ bytesToRead' = n
  BY DEF BeginRead, shapeVars, indexVars, writerVars, IndInv, ReaderInv
<1>2. UnreadBytes' = UnreadBytes
  <2>1. \A a \in Unread : memory'[a] = memory[a]
    BY InUseInMemory, UnreadAddresses, ReadCopies
  <2> QED BY <2>1, BytesKept DEF BeginRead
<1>3. HeldBytes = <<>>
  BY <1>1, NothingHeld DEF IndInv
<1>4. HeldBytes' = InOnePiece(memory', readIndex, n)
  BY <1>1 DEF HeldBytes
<1>5. CASE n = 0
  <2>1. HeldBytes' = <<>>
    BY <1>0, <1>4, <1>5, NothingRead
  <2> QED BY <1>1, <1>2, <1>3, <2>1 DEF Unseen, streamView
<1>6. CASE n # 0
  <2>1. n \in 1 .. Len(UnreadBytes) /\ Len(UnreadBytes) = bytesInBuffer
    BY <1>0, <1>6, UnreadIsSeq DEF IndInv
  <2>2. HeldBytes' = SubSeq(UnreadBytes, 1, n)
    <3>1. PICK h : h = HeldBytes'
      OBVIOUS
    <3>2. PICK u : u = UnreadBytes
      OBVIOUS
    <3>3. Lists(u, memory, readIndex, bytesInBuffer, bufferSize, Contents)
      BY <1>0, <3>2, MemoryHolds, RingIsSeq DEF IndInv, UnreadBytes
    <3>4. /\ SubSeq(u, 1, n) \in Seq(Contents) /\ Len(SubSeq(u, 1, n)) = n
          /\ \A i \in 1 .. n : SubSeq(u, 1, n)[i] = u[i]
      <4>1. u \in Seq(Contents) /\ n \in 1 .. Len(u)
        BY <2>1, <3>2, <3>3 DEF Lists
      <4>2. \A i \in 1 .. n : u[i] \in Contents
        BY <4>1, ElementOfSeq
      <4>3. /\ SubSeq(u, 1, n) \in Seq(Contents)
            /\ Len(SubSeq(u, 1, n)) = IF 1 <= n THEN n - 1 + 1 ELSE 0
            /\ \A i \in 1 .. n - 1 + 1 : SubSeq(u, 1, n)[i] = u[1 + i - 1]
        BY <1>0, <4>2, SubSeqProperties
      <4>4. n - 1 + 1 = n /\ 1 <= n /\ \A i \in 1 .. n : 1 + i - 1 = i
        BY <1>0, <1>6
      <4> QED BY <4>3, <4>4
    <3>5. \A i \in 1 .. n : h[i] = u[i]
      <4>1. ASSUME NEW i \in 1 .. n PROVE h[i] = u[i]
        <5>1. h[i] = memory'[readIndex + i - 1]
          BY <1>4, <3>1 DEF InOnePiece
        <5>2. i \in 1 .. bytesInBuffer
          BY <1>0
        <5> QED BY <3>3, <5>1, <5>2, WindowIsOldest DEF Lists
      <4> QED BY <4>1
    <3>6. h \in [1 .. n -> Contents]
      <4>1. \A i \in 1 .. n : u[i] \in Contents
        BY <1>0, <2>1, <3>2, <3>3, ElementOfSeq DEF Lists
      <4>2. h = [i \in 1 .. n |-> h[i]]
        BY <1>4, <3>1 DEF InOnePiece
      <4> QED BY <3>5, <4>1, <4>2
    <3>7. h \in Seq(Contents) /\ Len(h) = n
      BY <1>0, <3>6, FunctionIsSeq
    <3>8. h = SubSeq(u, 1, n)
      BY <3>4, <3>5, <3>7, SeqEqual
    <3> QED BY <3>1, <3>2, <3>8
  <2>3. \E m \in 1 .. Len(UnreadBytes) : HeldBytes' = SubSeq(UnreadBytes, 1, m)
    BY <2>1, <2>2
  <2>4. Stream!GrantRead
    BY <1>1, <1>2, <1>3, <2>3 DEF Stream!GrantRead
  <2> QED BY <2>4
<1> QED BY <1>5, <1>6

LEMMA TakePointerStream ==
  ASSUME TakePointer
  PROVE  Unseen
BY ViewKept DEF TakePointer, writerVars, Unseen, streamView

LEMMA EndReadStream ==
  ASSUME IndInv, IndInv', NEW k \in Multiples(reader.n), EndRead(k)
  PROVE  Stream!Consume \/ Unseen
<1>0. /\ k \in Nat /\ k <= bytesToRead /\ bytesToRead \in Nat
      /\ bytesToRead <= bytesInBuffer /\ bytesInBuffer \in Nat
      /\ readIndex \in Nat /\ readIndex' \in Nat /\ bufferSize \in Nat \ {0}
  BY WindowFacts DEF EndRead, Multiples, IndInv, TypeOK, ReaderInv
<1>1. /\ UNCHANGED <<bufferSize, memory, bytesToWrite, eos>>
      /\ readIndex' = (readIndex + k) % bufferSize
      /\ bytesInBuffer' = bytesInBuffer - k
      /\ bytesToRead' = 0
  BY DEF EndRead, shapeVars, writerVars
<1>2. Len(UnreadBytes) = bytesInBuffer /\ UnreadBytes \in Seq(Contents)
  BY UnreadIsSeq DEF IndInv
<1>3. UnreadBytes' = SubSeq(UnreadBytes, k + 1, Len(UnreadBytes))
  BY <1>0, <1>1, <1>2, Consumed
<1>4. HeldBytes' = <<>>
  <2>1. HeldBytes' = InOnePiece(memory', readIndex', 0)
    BY <1>1 DEF HeldBytes
  <2> QED BY <1>0, <2>1, NothingRead
<1>5. CASE bytesToRead = 0
  <2>1. HeldBytes = <<>>
    BY <1>5, NothingHeld DEF IndInv
  <2>2. k + 1 = 1
    BY <1>0, <1>5
  <2>3. UnreadBytes' = UnreadBytes
    BY <1>2, <1>3, <2>2, SubSeqFull
  <2> QED BY <1>1, <1>4, <2>1, <2>3 DEF Unseen, streamView
<1>6. CASE bytesToRead # 0
  <2>1. HeldBytes \in Seq(Contents) /\ Len(HeldBytes) = bytesToRead
    <3>1. \A a \in readIndex .. readIndex + bytesToRead - 1 : memory[a] \in Contents
      <4>1. readIndex + bytesToRead <= bufferSize + overflowSize
        BY <1>0, <1>6, WindowBounds
      <4>2. overflowSize \in Nat
        BY WindowFacts
      <4>3. memory \in [0 .. bufferSize + overflowSize - 1 -> Contents]
        BY DEF IndInv, TypeOK, Contents
      <4> QED BY <1>0, <4>1, <4>2, <4>3
    <3> QED BY <1>0, <3>1, PieceIsSeq DEF HeldBytes
  <2>2. k \in 0 .. Len(HeldBytes) /\ HeldBytes # <<>>
    BY <1>0, <1>6, <2>1
  <2>3. \E j \in 0 .. Len(HeldBytes) :
          UnreadBytes' = SubSeq(UnreadBytes, j + 1, Len(UnreadBytes))
    BY <1>3, <2>2
  <2>4. Stream!Consume
    BY <1>1, <1>4, <2>2, <2>3 DEF Stream!Consume
  <2> QED BY <2>4
<1> QED BY <1>5, <1>6

LEMMA ClearStream ==
  ASSUME IndInv, Clear
  PROVE  Stream!Forget
<1>1. /\ bytesToRead = 0 /\ bytesToRead' = 0 /\ bytesToWrite = 0
      /\ UNCHANGED <<bufferSize, bytesToWrite>> /\ eos' = FALSE
      /\ readIndex' = 0 /\ bytesInBuffer' = 0
  BY DEF Clear, NoGrants, shapeVars, readerVars, writerVars
<1>2. bufferSize \in Nat \ {0}
  BY WindowFacts
<1>3. HeldBytes = <<>>
  BY <1>1, NothingHeld DEF IndInv
<1>4. UnreadBytes' = AroundRing(memory', 0, 0, bufferSize)
  BY <1>1 DEF UnreadBytes
<1>5. HeldBytes' = InOnePiece(memory', 0, 0)
  BY <1>1 DEF HeldBytes
<1>6. UnreadBytes' = <<>> /\ HeldBytes' = <<>>
  BY <1>2, <1>4, <1>5, NothingRead
<1> QED BY <1>1, <1>3, <1>6 DEF Stream!Forget, Stream!Idle

LEMMA StepStream ==
  ASSUME StreamInv, IndInv', [Next]_vars
  PROVE  Stream!Next \/ Unseen
<1> USE DEF StreamInv, Stream!Next
<1>1. CASE Writer
  <2>1. CASE \E s \in Reshapes : ResizeCheck(s)
    BY <2>1, ResizeCheckStream
  <2>2. CASE Resize
    BY <2>2, ResizeStream
  <2>3. CASE \E n \in WriteSizes : BeginWrite(n)
    BY <2>3, BeginWriteStream
  <2>4. CASE \E k \in Multiples(writer.n) : Fill(k)
    BY <2>4, FillStream
  <2>5. CASE EndWrite
    BY <2>5, EndWriteStream
  <2>6. CASE SetEndOfStream
    BY <2>6, SetEndOfStreamStream
  <2>7. CASE DiscardBytes
    BY <2>7, DiscardBytesStream
  <2> QED BY <1>1, <2>1, <2>2, <2>3, <2>4, <2>5, <2>6, <2>7 DEF Writer
<1>2. CASE Reader
  <2>1. CASE \E n \in ReadSizes : BeginRead(n)
    BY <2>1, BeginReadStream
  <2>2. CASE TakePointer
    BY <2>2, TakePointerStream
  <2>3. CASE \E k \in Multiples(reader.n) : EndRead(k)
    BY <2>3, EndReadStream
  <2> QED BY <1>2, <2>1, <2>2, <2>3 DEF Reader
<1>3. CASE Clear
  BY <1>3, ClearStream
<1>4. CASE UNCHANGED vars
  BY <1>4, ViewKept DEF vars, shapeVars, indexVars, Unseen, streamView
<1> QED BY <1>1, <1>2, <1>3, <1>4 DEF Next

-----------------------------------------------------------------------------
(* Theorems *)

\* The ring buffer implements the stream: whatever BeginWrite, EndWrite,
\* BeginRead, EndRead, DiscardBytes, Clear, Resize and the unlocked writes of
\* the client do to indices and memory, in whatever order, the reader is given
\* the bytes written, each once and in order, and none that was not written.
THEOREM BufferImplementsStream == Spec => StreamSpec
<1>1. Init => Stream!Init
  BY InitStream
<1>2. StreamInv /\ StreamInv' /\ [Next]_vars => [Stream!Next]_(Stream!streamVars)
  BY StepStream DEF StreamInv, Unseen, streamView, Stream!streamVars
<1> QED BY <1>1, <1>2, StreamInvariant, PTL DEF Spec, StreamSpec, Stream!Spec

\* So does a buffer whose clients are scheduled fairly and never seek.
THEOREM FlowImplementsStream == FlowSpec => StreamSpec
<1>1. [Writer \/ Reader]_vars => [Next]_vars
  BY DEF Next
<1>2. FlowSpec => Spec
  BY <1>1, PTL DEF FlowSpec, Spec
<1> QED BY <1>2, BufferImplementsStream, PTL
=============================================================================
