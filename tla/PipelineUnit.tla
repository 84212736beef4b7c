---------------------------- MODULE PipelineUnit ----------------------------
(***************************************************************************)
(* The state shared by the three units of a playing track (io/src/         *)
(* pipeline.cpp): the input (PMI), the decoder (LMC) and the output (PMO). *)
(* Each has a worker thread, a pause flag, an exit flag and two            *)
(* semaphores.  The unit of data is a frame: the input buffer between PMI  *)
(* and LMC is the byte stream that PullBuffer implements, cut at frames;   *)
(* the output buffer between LMC and PMO keeps its read index as well,     *)
(* because EventBuffer compares indices.                                   *)
(***************************************************************************)
EXTENDS Integers, Sequences, FiniteSets

CONSTANTS
  FileLen,      \* frames in the file
  Corrupt,      \* the frames the decoder cannot decode
  InCap,        \* frames the input buffer holds
  ReadAhead,    \* frames that hold iMaxFrameSize bytes, which the decoder asks for
  HeadAhead,    \* frames that hold iInitialFrameSize bytes, as it does at first
  OutCap,       \* frames the output buffer holds
  CardCap,      \* frames the sound card queues
  MaxTokens,    \* bound: signals a semaphore remembers
  MaxSeeks,     \* bound: seeks of the player
  MaxPauses,    \* bound: pauses of the player
  SeekTo,       \* the positions it asks for
  CardMayFail,  \* the sound card may refuse to open or to take a frame
  MayStop       \* the player may delete the pipeline before the end

ASSUME PipelineAssumption ==
  /\ FileLen \in Nat \ {0} /\ Corrupt \subseteq 0 .. FileLen - 1
  \* A frame is shorter than iMaxFrameSize, and the buffer holds more than that.
  /\ InCap \in Nat \ {0} /\ ReadAhead \in 2 .. InCap /\ HeadAhead \in ReadAhead .. InCap
  /\ OutCap \in Nat \ {0, 1} /\ CardCap \in Nat \ {0}
  /\ MaxTokens \in Nat \ {0} /\ MaxSeeks \in Nat /\ MaxPauses \in Nat
  /\ SeekTo \subseteq 0 .. FileLen - 1
  /\ MayStop \in BOOLEAN /\ CardMayFail \in BOOLEAN

VARIABLES
  at,             \* where each unit's worker thread is
  paused,         \* m_bPause of each unit
  exiting,        \* m_bExit of each unit
  sleepSem,       \* signals pending on each unit's m_pSleepSem
  pauseSem,       \* signals pending on each unit's m_pPauseSem
  filePos,        \* the next frame fread returns
  epoch,          \* how many times the file has been positioned
  inData, inEos,  \* the PMI's output buffer and its end-of-stream flag
  inGrant,        \* who holds a window of it: a subset of {"pmi", "lmc"}
  fetched,        \* the frames the last fread returned
  outData,        \* the LMC's output buffer
  outStart,       \* its read index
  outGrant,       \* who holds a window of it: a subset of {"lmc", "pmo"}
  events,         \* its event queue: [kind, idx, num]
  want,           \* iReadSize of the LMC, in frames
  decoded,        \* the frame the LMC is decoding
  frameCounter,   \* m_frameCounter of the LMC
  opened,         \* the PMO has opened the sound card (audio_fd > 0)
  ready,          \* m_properlyInitialized of the PMO
  card,           \* frames queued in the sound card
  written,        \* the last frame the PMO wrote to the card
  told,           \* what the units have told the player
  ctl,            \* what the player's thread still has to do in its call
  left            \* seeks and pauses the player may still make

Units == {"pmi", "lmc", "pmo"}

\* Where the three workers can be: between two calls that others can see, asleep
\* in one of several calls, gone, or gone wrong.
PmiPlaces == {"start", "top", "waitPause", "sleep", "begin", "fread", "endWrite",
              "endShort", "setEos", "done"}
LmcPlaces == {"start", "canDecode", "sleepDecode", "postInit", "post", "top", "waitPause",
              "size", "sizeEos", "read", "sleepRead", "postQuit", "hang", "sleepHang",
              "write", "sleepWrite", "decode", "endWrite", "count", "advance",
              "sleepAdvance", "done"}
PmoPlaces == {"start", "top", "waitPause", "checkInit", "try", "peek", "take", "drain",
              "space", "write", "done", "crashed"}
Places == PmiPlaces \cup LmcPlaces \cup PmoPlaces

unitVars == <<at, paused, exiting, sleepSem, pauseSem>>
fileVars == <<filePos, epoch, fetched>>
inVars   == <<inData, inEos, inGrant>>
outVars  == <<outData, outStart, outGrant, events>>
lmcVars  == <<want, decoded, frameCounter>>
pmoVars  == <<opened, ready, card, written>>
ctlVars  == <<ctl, left>>
vars == <<unitVars, fileVars, inVars, outVars, lmcVars, pmoVars, told, ctlVars>>

\* A seek positions the file twice, the end of the pipeline once.
MaxEpoch == 2 * MaxSeeks + 1

\* A frame of the file as it was read after the file was positioned so often.
Frames == [num : 0 .. FileLen - 1, epoch : 0 .. MaxEpoch]
NoFrame == [num |-> -1, epoch |-> 0]

Init ==
  /\ at = [u \in Units |-> "start"]
  /\ paused = [u \in Units |-> FALSE] /\ exiting = [u \in Units |-> FALSE]
  /\ sleepSem = [u \in Units |-> 0]
  \* Player::Play has called Resume on the PMO.
  /\ pauseSem = [u \in Units |-> IF u = "pmo" THEN 1 ELSE 0]
  /\ filePos = 0 /\ epoch = 0 /\ fetched = <<>>
  /\ inData = <<>> /\ inEos = FALSE /\ inGrant = {}
  /\ outData = <<>> /\ outStart = 0 /\ outGrant = {} /\ events = <<>>
  /\ want = ReadAhead /\ decoded = NoFrame /\ frameCounter = 0
  /\ opened = FALSE /\ ready = FALSE /\ card = 0 /\ written = NoFrame
  /\ told = {}
  /\ ctl = [todo |-> <<>>, pos |-> 0]
  /\ left = [seeks |-> MaxSeeks, pauses |-> MaxPauses]

-----------------------------------------------------------------------------
(* Semaphores with one waiter each: Signal adds a token, Wait takes one.      *)
Signalled(sem, u) == [sem EXCEPT ![u] = IF @ < MaxTokens THEN @ + 1 ELSE @]
Taken(sem, u)     == [sem EXCEPT ![u] = @ - 1]

Goes(u, where) == at' = [at EXCEPT ![u] = where]

Wake(u) == sleepSem' = Signalled(sleepSem, u)

\* A worker returns from Wait on its sleep or pause semaphore.
Awakes(u, from, where) ==
  /\ at[u] = from /\ sleepSem[u] > 0
  /\ sleepSem' = Taken(sleepSem, u)
  /\ Goes(u, where)
  /\ UNCHANGED <<paused, exiting, pauseSem>>
Unpauses(u, from, where) ==
  /\ at[u] = from /\ pauseSem[u] > 0
  /\ pauseSem' = Taken(pauseSem, u)
  /\ Goes(u, where)
  /\ UNCHANGED <<paused, exiting, sleepSem>>

\* The worker only moves; its unit's flags and semaphores stay.
Moves(u, from, where) ==
  /\ at[u] = from /\ Goes(u, where)
  /\ UNCHANGED <<paused, exiting, sleepSem, pauseSem>>

\* Mutant: the event carries the read index.
EventAtReadIndex(kind, num) == [kind |-> kind, num |-> num, idx |-> outStart]

\* The event EventBuffer::AcceptEvent queues: it carries the write index.
Event(kind, num) ==
  [kind |-> kind, num |-> num, idx |-> (outStart + Len(outData)) % OutCap]
Accept(kind, num) ==
  /\ events' = Append(events, Event(kind, num))
  /\ UNCHANGED <<outData, outStart, outGrant>>

\* The type invariant; its bounds on the buffers say that nothing is written
\* into a full one.
TypeOK ==
  /\ at \in [Units -> Places]
  /\ at["pmi"] \in PmiPlaces /\ at["lmc"] \in LmcPlaces /\ at["pmo"] \in PmoPlaces
  /\ paused \in [Units -> BOOLEAN] /\ exiting \in [Units -> BOOLEAN]
  /\ sleepSem \in [Units -> 0 .. MaxTokens]
  /\ pauseSem \in [Units -> 0 .. MaxTokens]
  /\ filePos \in 0 .. FileLen /\ epoch \in 0 .. MaxEpoch
  /\ fetched \in Seq(Frames) /\ Len(fetched) <= 1
  /\ inData \in Seq(Frames) /\ Len(inData) <= InCap
  /\ inEos \in BOOLEAN
  /\ inGrant \subseteq {"pmi", "lmc"} /\ outGrant \subseteq {"lmc", "pmo"}
  /\ outData \in Seq(Frames) /\ Len(outData) <= OutCap
  /\ outStart \in 0 .. OutCap - 1
  /\ \A i \in 1 .. Len(events) :
       events[i] \in [kind : {"init", "time", "quit"},
                      num : Nat, idx : 0 .. OutCap - 1]
  /\ want \in 1 .. InCap /\ decoded \in Frames \cup {NoFrame} /\ frameCounter \in Nat
  /\ opened \in BOOLEAN /\ ready \in BOOLEAN /\ card \in 0 .. CardCap
  /\ written \in Frames \cup {NoFrame}
  /\ told \subseteq {"done", "error"}
  /\ ctl.pos \in 0 .. FileLen - 1
  /\ left \in [seeks : 0 .. MaxSeeks, pauses : 0 .. MaxPauses]
=============================================================================
