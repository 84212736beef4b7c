----------------------------- MODULE ByteStream -----------------------------
(***************************************************************************)
(* What a PullBuffer promises to the thread that fills it and the thread   *)
(* that drains it: a bounded first-in first-out stream of bytes, of which  *)
(* the reader may hold the oldest bytes while the writer holds room for    *)
(* new ones.  Nothing is said of indices, wrapping or the overflow area.   *)
(***************************************************************************)
EXTENDS Integers, Sequences

CONSTANT Byte             \* the values a byte can take

VARIABLES
  capacity,               \* how many unread bytes the stream may hold
  unread,                 \* the bytes written and not yet consumed
  eos,                    \* the writer has declared the end of the stream
  reading,                \* the bytes the reader holds, <<>> if none
  writing                 \* the room the writer holds, 0 if none

streamVars == <<capacity, unread, eos, reading, writing>>

Bytes(n) == [1 .. n -> Byte]

Init ==
  /\ capacity \in Nat
  /\ unread = <<>>
  /\ eos = FALSE
  /\ reading = <<>>
  /\ writing = 0

\* Room is promised only for bytes that fit beside the unread ones.
GrantWrite ==
  /\ writing = 0
  /\ \E n \in 1 .. capacity - Len(unread) : writing' = n
  /\ UNCHANGED <<capacity, unread, eos, reading>>

\* The writer delivers at most the bytes it was promised room for.
Deliver ==
  /\ writing > 0
  /\ \E k \in 0 .. writing : \E data \in Bytes(k) : unread' = unread \o data
  /\ writing' = 0
  /\ UNCHANGED <<capacity, eos, reading>>

\* The reader gets the oldest unread bytes and they stay in the stream.
GrantRead ==
  /\ reading = <<>>
  /\ \E n \in 1 .. Len(unread) : reading' = SubSeq(unread, 1, n)
  /\ UNCHANGED <<capacity, unread, eos, writing>>

\* The reader consumes some of the bytes it holds and releases the others.
Consume ==
  /\ reading # <<>>
  /\ \E k \in 0 .. Len(reading) : unread' = SubSeq(unread, k + 1, Len(unread))
  /\ reading' = <<>>
  /\ UNCHANGED <<capacity, eos, writing>>

DeclareEnd == eos' = TRUE /\ UNCHANGED <<capacity, unread, reading, writing>>

\* The stream drops bytes on its own only when nobody holds any part of it,
\* and then the oldest ones; forgetting everything also reopens the stream.
Idle == reading = <<>> /\ writing = 0

DropOldest ==
  /\ Idle
  /\ \E k \in 1 .. Len(unread) : unread' = SubSeq(unread, k + 1, Len(unread))
  /\ UNCHANGED <<capacity, eos, reading, writing>>

Forget == Idle /\ unread' = <<>> /\ eos' = FALSE
               /\ UNCHANGED <<capacity, reading, writing>>

Reshape ==
  /\ Idle
  /\ capacity' \in Nat /\ capacity' >= Len(unread)
  /\ UNCHANGED <<unread, eos, reading, writing>>

Next ==
  \/ GrantWrite \/ Deliver \/ GrantRead \/ Consume
  \/ DeclareEnd \/ DropOldest \/ Forget \/ Reshape

Spec == Init /\ [][Next]_streamVars
=============================================================================
