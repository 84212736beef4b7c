---------------------------- MODULE EventProofs ----------------------------
(***************************************************************************)
(* The events that travel with the frames of a playing track: a proof that *)
(* a time event is handled just before its frame, that the queue is never  *)
(* read when it is empty, and that the end of the track is reported when   *)
(* few frames are left.  For any file, corrupt frames and an output buffer *)
(* of at least three frames, with or without a stop, without seek or pause.*)
(***************************************************************************)
EXTENDS PipelineProofs

-----------------------------------------------------------------------------
(* Indices around the output buffer                                           *)

LEMMA Remainder ==
  ASSUME NEW c \in Nat \ {0}, NEW k \in Nat, NEW r \in 0 .. c - 1
  PROVE  (c * k + r) % c = r
OBVIOUS

LEMMA Division ==
  ASSUME NEW c \in Nat \ {0}, NEW p \in Nat
  PROVE  \E k \in Nat, r \in 0 .. c - 1 : p = c * k + r /\ p % c = r
<1>1. p = c * (p \div c) + (p % c) /\ p \div c \in Nat /\ p % c \in 0 .. c - 1
  OBVIOUS
<1> QED BY <1>1

\* Going on from a wrapped index is going on from the one before the wrap.
LEMMA WrapSum ==
  ASSUME NEW c \in Nat \ {0}, NEW p \in Nat, NEW l \in Nat
  PROVE  ((p % c) + l) % c = (p + l) % c
<1>1. PICK k \in Nat, r \in 0 .. c - 1 : p = c * k + r /\ p % c = r
  BY Division
<1>2. PICK j \in Nat, s \in 0 .. c - 1 : r + l = c * j + s /\ (r + l) % c = s
  BY Division
<1>3. p + l = c * (k + j) + s /\ k + j \in Nat
  BY <1>1, <1>2
<1>4. (p + l) % c = s
  BY <1>3, Remainder
<1> QED BY <1>1, <1>2, <1>4

\* Less than once around, the difference of two wrapped indices is the distance.
LEMMA WrapDifference ==
  ASSUME NEW c \in Nat \ {0}, NEW p \in Nat, NEW d \in Nat, d < c
  PROVE  (((p + d) % c) - (p % c)) % c = d
<1>1. PICK r \in 0 .. c - 1 : p % c = r
  OBVIOUS
<1>2. (p + d) % c = (r + d) % c
  BY <1>1, WrapSum
<1>3. (((r + d) % c) - r) % c = d
  <2>1. CASE r + d < c
    <3>1. (r + d) % c = r + d
      BY <2>1
    <3> QED BY <3>1
  <2>2. CASE r + d >= c
    <3>1. (r + d) % c = r + d - c
      BY <2>2
    <3>2. (d - c) % c = d
      OBVIOUS
    <3> QED BY <3>1, <3>2
  <2> QED BY <2>1, <2>2
<1> QED BY <1>1, <1>2, <1>3

-----------------------------------------------------------------------------
(* The invariants                                                             *)

\* Each step of s in A comes after one in B.
Preceded(s, A, B) == \A i \in 1 .. Len(s) : s[i] \in A => \E j \in 1 .. i - 1 : s[j] \in B

\* What the player does to the pipeline when the output has been joined.
AfterJoin == StepNames \ {"pausePmo", "resetCard", "initCard", "exitPmo", "joinPmo"}

\* While the output runs, the player at most pauses it, and for good.
CalmOK ==
  at["pmo"] # "done" =>
    /\ Preceded(ctl.todo, AfterJoin, {"joinPmo"})
    /\ paused["pmo"] \/ Preceded(ctl.todo, {"resetCard", "initCard"}, {"pausePmo", "joinPmo"})
    /\ ~exiting["lmc"]

\* Nothing is played before the card is open; an open card is not ready only
\* while the player resets it, which is in a pause.
OpenOK ==
  /\ ready => opened
  /\ at["pmo"] \in {"try", "peek", "take", "drain", "space", "write"} => opened
  /\ ~opened => written = NoFrame
  /\ at["pmo"] # "done" /\ opened /\ ~ready => paused["pmo"]

\* The decoder has not posted its first event, or not the time of the frame it
\* counts up to.
EarlyPlaces == {"start", "canDecode", "sleepDecode", "postInit"}
Unposted == EarlyPlaces \cup {"post"}

\* The frames that have been given to the card.
Played == Cardinality({g \in Good : g <= written.num})

\* The decoder's count of frames is what was played and what is queued.
CountOK ==
  at["pmo"] # "done" =>
    /\ frameCounter + Once(at["lmc"] = "count") = Played + Len(outData)
    /\ outStart = Played % OutCap
    /\ at["lmc"] \in EarlyPlaces => frameCounter = 0

Kinds(es) == {es[i].kind : i \in 1 .. Len(es)}

\* The decoder asks for no more than the greatest length of a frame, or for no
\* more than there is at the end of the stream.
WantOK ==
  at["pmo"] # "done" /\ at["lmc"] \in {"read", "sleepRead"} =>
    want <= ReadAhead \/ (inEos /\ want <= Len(inData))

\* The end of the stream is set at the end of the file, and the decoder reports
\* the end of the track when the input buffer holds less than a frame's greatest
\* length.
AllRead == inEos /\ Len(inData) < ReadAhead
EndOK ==
  at["pmo"] # "done" =>
    /\ inEos => filePos = FileLen /\ at["pmi"] \notin {"fread", "endWrite", "endShort", "setEos"}
    /\ at["pmi"] \in {"endShort", "setEos"} => filePos = FileLen
    /\ at["lmc"] \in {"postQuit", "hang", "sleepHang"} => AllRead
    /\ "quit" \in Kinds(events) => AllRead /\ at["lmc"] \in {"hang", "sleepHang", "done"}

\* The number of the next event of the queue: events are numbered by the frames
\* they announce, the last one by the frame that would have come next.
Upcoming == frameCounter + Once(at["lmc"] \notin Unposted) + Once("quit" \in Kinds(events))
Due == Upcoming - Len(events)

\* A queue whose first event has number due.
Queued(es, due, open) ==
  /\ \A i \in 1 .. Len(es) :
       /\ es[i].kind = "init" => i = 1 /\ due = -1 /\ ~open
       /\ es[i].kind = "quit" => i = Len(es)
       /\ es[i].kind = "time" => es[i].num = due + (i - 1) /\ es[i].idx = es[i].num % OutCap
  /\ ~open /\ es # <<>> => Head(es).kind = "init"

\* The output still handles events; once paused it does so to the end of what it
\* is at, and for the rest of the track no more.
Live == at["pmo"] # "done" /\ (paused["pmo"] => at["pmo"] \notin {"top", "waitPause"})

QueueOK ==
  Live =>
    /\ Queued(events, Due, opened)
    /\ at["lmc"] \in EarlyPlaces => events = <<>> /\ ~opened
    /\ ~opened /\ events = <<>> => at["lmc"] \in EarlyPlaces \cup {"done"}

\* The next event is at most two frames ahead, and ahead when a frame is played.
DueOK ==
  Live /\ opened =>
    /\ Played <= Due /\ Due <= Played + 2
    /\ at["pmo"] \in {"space", "write"} => Due > Played
    /\ at["pmo"] \in {"peek", "take"} =>
         events # <<>> /\ (Head(events).kind = "time" => Due <= Played + 1)
    /\ at["pmo"] = "drain" => events # <<>> /\ Head(events).kind = "quit"

ToldOK == "done" \in told => at["pmo"] = "done" /\ FewLeft

-----------------------------------------------------------------------------
(* The queue                                                                  *)

LEMMA TailQueued ==
  ASSUME NEW es \in Seq(EventRecords), es # <<>>, NEW due \in Int, NEW open \in BOOLEAN,
         Queued(es, due, open), Head(es).kind # "quit"
  PROVE  /\ Queued(Tail(es), due + 1, TRUE) /\ Len(Tail(es)) = Len(es) - 1
         /\ "quit" \in Kinds(Tail(es)) <=> "quit" \in Kinds(es)
<1>1. /\ Head(es) = es[1] /\ Tail(es) \in Seq(EventRecords) /\ Len(es) \in Nat /\ Len(es) >= 1
      /\ Len(Tail(es)) = Len(es) - 1
      /\ \A i \in 1 .. Len(es) - 1 : Tail(es)[i] = es[i + 1]
  OBVIOUS
<1>2. ASSUME NEW i \in 1 .. Len(Tail(es))
      PROVE  /\ Tail(es)[i].kind # "init"
             /\ Tail(es)[i].kind = "quit" => i = Len(Tail(es))
             /\ Tail(es)[i].kind = "time" =>
                  Tail(es)[i].num = (due + 1) + (i - 1) /\ Tail(es)[i].idx = Tail(es)[i].num % OutCap
  <2>1. i + 1 \in 1 .. Len(es) /\ Tail(es)[i] = es[i + 1] /\ i + 1 # 1
    BY <1>1
  <2>2. /\ es[i + 1].kind = "init" => i + 1 = 1
        /\ es[i + 1].kind = "quit" => i + 1 = Len(es)
        /\ es[i + 1].kind = "time" => es[i + 1].num = due + ((i + 1) - 1)
                                      /\ es[i + 1].idx = es[i + 1].num % OutCap
    BY <2>1 DEF Queued
  <2>3. ASSUME i + 1 = Len(es) PROVE i = Len(Tail(es))
    <3>1. PICK n \in Nat : n = Len(es)
      BY <1>1
    <3>2. Len(Tail(es)) = n - 1 /\ i + 1 = n
      BY <1>1, <2>3, <3>1
    <3> QED BY <3>2
  <2>4. due + ((i + 1) - 1) = (due + 1) + (i - 1)
    OBVIOUS
  <2> QED BY <2>1, <2>2, <2>3, <2>4
<1>3. "quit" \in Kinds(Tail(es)) <=> "quit" \in Kinds(es)
  <2>1. ASSUME "quit" \in Kinds(es) PROVE "quit" \in Kinds(Tail(es))
    <3>1. PICK i \in 1 .. Len(es) : es[i].kind = "quit"
      BY <2>1 DEF Kinds
    <3>2. i # 1
      BY <1>1, <3>1
    <3>3. i - 1 \in 1 .. Len(Tail(es)) /\ Tail(es)[i - 1] = es[i]
      BY <1>1, <3>2
    <3> QED BY <3>1, <3>3 DEF Kinds
  <2>2. ASSUME "quit" \in Kinds(Tail(es)) PROVE "quit" \in Kinds(es)
    <3>1. PICK i \in 1 .. Len(Tail(es)) : Tail(es)[i].kind = "quit"
      BY <2>2 DEF Kinds
    <3>2. i + 1 \in 1 .. Len(es) /\ Tail(es)[i] = es[i + 1]
      BY <1>1
    <3> QED BY <3>1, <3>2 DEF Kinds
  <2> QED BY <2>1, <2>2
<1> QED BY <1>1, <1>2, <1>3 DEF Queued

LEMMA AppendQueued ==
  ASSUME NEW es \in Seq(EventRecords), NEW due \in Int, NEW open \in BOOLEAN,
         NEW e \in EventRecords, NEW n \in Nat, n = Len(es),
         Queued(es, due, open), es # <<>> \/ open, "quit" \notin Kinds(es),
         e.kind # "init", e.kind = "time" => e.num = due + n /\ e.idx = e.num % OutCap
  PROVE  /\ Queued(Append(es, e), due, open) /\ Len(Append(es, e)) = n + 1
         /\ "quit" \in Kinds(Append(es, e)) <=> e.kind = "quit"
<1> DEFINE as == Append(es, e)
<1>1. /\ Len(as) = n + 1 /\ as[n + 1] = e /\ as # <<>>
      /\ \A i \in 1 .. n : as[i] = es[i]
      /\ es # <<>> => Head(as) = Head(es)
  <2>1. /\ as \in Seq(EventRecords) /\ Len(as) = Len(es) + 1
        /\ \A i \in 1 .. Len(es) : as[i] = es[i]
        /\ as[Len(es) + 1] = e /\ as # <<>>
    BY AppendProperties
  <2>2. Head(as) = as[1] /\ Head(es) = es[1] /\ (es # <<>> => Len(es) \in Nat /\ Len(es) >= 1)
    OBVIOUS
  <2>3. es # <<>> => Head(as) = Head(es)
    BY <2>1, <2>2
  <2> HIDE DEF as
  <2>4. /\ Len(as) = n + 1 /\ as[n + 1] = e /\ \A i \in 1 .. n : as[i] = es[i]
    BY <2>1
  <2> QED BY <2>1, <2>3, <2>4
<1>2. \A i \in 1 .. n : es[i].kind # "quit"
  BY DEF Kinds
<1> HIDE DEF as
<1>3. ASSUME NEW i \in 1 .. n + 1
      PROVE  /\ as[i].kind = "init" => i = 1 /\ due = -1 /\ ~open
             /\ as[i].kind = "quit" => i = n + 1
             /\ as[i].kind = "time" => as[i].num = due + (i - 1) /\ as[i].idx = as[i].num % OutCap
  <2>1. CASE i = n + 1
    <3>1. i - 1 = n
      BY <2>1
    <3>2. as[i] = e
      BY <1>1, <2>1
    <3> QED BY <2>1, <3>1, <3>2
  <2>2. CASE i \in 1 .. n
    BY <1>1, <1>2, <2>2 DEF Queued
  <2>3. i = n + 1 \/ i \in 1 .. n
    OBVIOUS
  <2> QED BY <2>1, <2>2, <2>3
<1>4. ~open => Head(as).kind = "init"
  BY <1>1 DEF Queued
<1>5. "quit" \in Kinds(as) <=> e.kind = "quit"
  <2>1. n + 1 \in 1 .. Len(as)
    BY <1>1
  <2>2. \A i \in 1 .. Len(as) : i = n + 1 \/ i \in 1 .. n
    BY <1>1
  <2> QED BY <1>1, <1>2, <2>1, <2>2 DEF Kinds
<1> QED BY <1>1, <1>3, <1>4, <1>5 DEF Queued, as

\* The first event of all.
LEMMA FirstQueued ==
  ASSUME NEW e \in EventRecords, e.kind = "init"
  PROVE  /\ Queued(Append(<<>>, e), -1, FALSE) /\ Len(Append(<<>>, e)) = 1
         /\ "quit" \notin Kinds(Append(<<>>, e)) /\ Append(<<>>, e) # <<>>
<1>1. Append(<<>>, e) = <<e>> /\ Len(<<e>>) = 1 /\ <<e>>[1] = e /\ Head(<<e>>) = e
  OBVIOUS
<1>2. \A i \in 1 .. 1 : i = 1
  OBVIOUS
<1> QED BY <1>1, <1>2 DEF Queued, Kinds

-----------------------------------------------------------------------------
(* What was played                                                            *)

LEMMA GoodFinite == \A S \in SUBSET Good : IsFiniteSet(S) /\ Cardinality(S) \in Nat
<1>1. IsFiniteSet(0 .. FileLen - 1)
  <2>1. 0 \in Int /\ FileLen - 1 \in Int
    BY PipelineAssumption
  <2> QED BY <2>1, FS_Interval
<1>2. \A S \in SUBSET Good : S \subseteq 0 .. FileLen - 1
  BY DEF Good
<1> QED BY <1>1, <1>2, FS_Subset, FS_CardinalityType

LEMMA PlayedNat == Played \in Nat
<1>1. {g \in Good : g <= written.num} \subseteq Good
  OBVIOUS
<1> QED BY <1>1, GoodFinite DEF Played

\* With the next good frame one more has been played.
LEMMA PlayedNext ==
  ASSUME FramesOK, NEW num, Follows(written, num)
  PROVE  /\ num \in Good
         /\ {g \in Good : g < num} = {g \in Good : g <= written.num}
         /\ Cardinality({g \in Good : g <= num}) = Played + 1
<1>1. num \in Int /\ written.num \in Int /\ num \in Good /\ num > written.num
      /\ \A g \in Good : g \in Int /\ (g > written.num => num <= g)
  <2>1. written.num \in Int
    BY FrameFields DEF FramesOK, AnyFrames
  <2> QED BY <2>1 DEF Follows, Good
<1>2. {g \in Good : g < num} = {g \in Good : g <= written.num}
  <2>1. \A g \in Good : g < num <=> g <= written.num
    <3>1. PICK w \in Int : w = written.num
      BY <1>1
    <3>2. \A g \in Good : g \in Int /\ (g > w => num <= g) /\ num > w
      BY <1>1, <3>1
    <3>3. \A g \in Good : g < num <=> g <= w
      BY <1>1, <3>2
    <3> QED BY <3>1, <3>3
  <2> QED BY <2>1
<1>3. {g \in Good : g <= num} = {g \in Good : g <= written.num} \cup {num}
      /\ num \notin {g \in Good : g <= written.num}
  <2>1. PICK w \in Int : w = written.num
    BY <1>1
  <2>2. \A g \in Good : g \in Int /\ (g > w => num <= g)
    BY <1>1, <2>1
  <2>3. num \in Good /\ num \in Int /\ num > w
    BY <1>1, <2>1
  <2>4. \A g \in Good : g <= num <=> (g <= w \/ g = num)
    BY <2>2, <2>3
  <2>5. ~(num <= w)
    BY <2>3
  <2> QED BY <2>1, <2>3, <2>4, <2>5
<1>4. IsFiniteSet({g \in Good : g <= written.num})
  <2>1. {g \in Good : g <= written.num} \subseteq Good
    OBVIOUS
  <2> QED BY <2>1, GoodFinite
<1>5. Cardinality({g \in Good : g <= written.num} \cup {num}) = Played + 1
  BY <1>3, <1>4, FS_AddElement DEF Played
<1> QED BY <1>1, <1>2, <1>3, <1>5

-----------------------------------------------------------------------------
(* What a step does to the events and the frames they travel with             *)

\* The input thread touches neither.
LEMMA PmiSteps ==
  ASSUME IInv, PmiNext
  PROVE  /\ UNCHANGED <<outVars, lmcVars, pmoVars, told, ctlVars, paused, exiting>>
         /\ at'["lmc"] = at["lmc"] /\ at'["pmo"] = at["pmo"]
<1>1. UNCHANGED <<outVars, lmcVars, pmoVars, told, ctlVars, paused, exiting>>
  BY DEF PmiNext, PmiStart, PmiTop, PmiWaits, PmiBegin, PmiRead, PmiEndWrite, PmiSetEos,
     pmiUnchanged, Moves, Awakes, Unpauses
<1>2. at'["lmc"] = at["lmc"] /\ at'["pmo"] = at["pmo"]
  BY UnitNames, Arrives DEF IInv, PlacesOf, PmiPlaces, PmiNext, PmiStart, PmiTop, PmiWaits,
     PmiBegin, PmiRead, PmiEndWrite, PmiSetEos
<1> QED BY <1>1, <1>2

\* The decoder's places where the time of the frame it counts up to is posted
\* and the frame is not yet queued.
Onward == LmcPlaces \ (Unposted \cup {"count"})

\* The decoder moves on without an event and without a frame.
LmcPasses ==
  /\ UNCHANGED <<outData, events, frameCounter>>
  /\ \/ at["lmc"] \in EarlyPlaces /\ at'["lmc"] \in EarlyPlaces \cup {"done"}
     \/ at["lmc"] \in Onward /\ at'["lmc"] \in Onward
     \/ at["lmc"] = "hang" /\ ~inEos
  /\ at'["lmc"] = "postQuit" =>
       at["lmc"] = "read" /\ inEos /\ ~(Len(inData) >= want) /\ inData' = inData
  /\ at'["lmc"] \in {"hang", "sleepHang"} => at["lmc"] \in {"hang", "sleepHang"}
  /\ at["lmc"] \in {"hang", "sleepHang"} =>
       inData' = inData /\ (at'["lmc"] \in {"hang", "sleepHang"} \/ ~inEos)
LmcPostsInit ==
  /\ at["lmc"] = "postInit" /\ at'["lmc"] = "post" /\ UNCHANGED <<outData, inData>>
  /\ events' = Append(events, Event("init", 0)) /\ frameCounter' = 0
LmcPostsTime ==
  /\ at["lmc"] = "post" /\ at'["lmc"] = "top" /\ UNCHANGED <<outData, inData, frameCounter>>
  /\ events' = Append(events, Event("time", frameCounter))
LmcPostsQuit ==
  /\ \/ at["lmc"] = "postQuit" /\ at'["lmc"] = "hang"
     \/ at["lmc"] = "advance" /\ at'["lmc"] = "done" /\ AllRead
  /\ UNCHANGED <<outData, inData, frameCounter>>
  /\ events' = Append(events, Event("quit", 0))
LmcQueues ==
  /\ at["lmc"] = "endWrite" /\ at'["lmc"] = "count" /\ UNCHANGED <<inData, events, frameCounter>>
  /\ outData' = Append(outData, decoded)
LmcCounts ==
  /\ at["lmc"] = "count" /\ at'["lmc"] = "post" /\ UNCHANGED <<inData, outData, events>>
  /\ frameCounter' = frameCounter + 1

LEMMA LmcSteps ==
  ASSUME IInv, LmcNext
  PROVE  /\ UNCHANGED <<fileVars, inEos, outStart, pmoVars, ctlVars, paused, exiting>>
         /\ at'["pmi"] = at["pmi"] /\ at'["pmo"] = at["pmo"] /\ at["lmc"] # "done"
         /\ "done" \in told' <=> "done" \in told
         /\ ~exiting["lmc"] =>
              \/ LmcPasses \/ LmcPostsInit \/ LmcPostsTime \/ LmcPostsQuit
              \/ LmcQueues \/ LmcCounts
<1>. USE UnitNames, Arrives DEF IInv, PlacesOf, LmcPlaces
<1>1. CASE LmcStart
  <2>1. at["lmc"] = "start" /\ at'["lmc"] = "canDecode" /\ at'["pmi"] = at["pmi"]
        /\ at'["pmo"] = at["pmo"]
    BY <1>1 DEF LmcStart
  <2>2. UNCHANGED <<paused, exiting, inVars, outVars, lmcVars, told, fileVars, pmoVars, ctlVars>>
    BY <1>1 DEF LmcStart, lmcUnchanged
  <2> QED BY <2>1, <2>2 DEF LmcPasses, EarlyPlaces, inVars, outVars, lmcVars
<1>2. CASE LmcCanDecode
  <2>1. at["lmc"] = "canDecode" /\ at'["lmc"] \in {"done", "postInit", "sleepDecode"}
        /\ at'["pmi"] = at["pmi"] /\ at'["pmo"] = at["pmo"] /\ UNCHANGED <<paused, exiting>>
    <3>1. \/ Moves("lmc", "canDecode", "done") \/ Moves("lmc", "canDecode", "postInit")
          \/ MovesAndWakesPmi("canDecode", "sleepDecode")
      BY <1>2 DEF LmcCanDecode
    <3>2. CASE Moves("lmc", "canDecode", "done") \/ Moves("lmc", "canDecode", "postInit")
      BY <3>2 DEF Moves
    <3>3. CASE MovesAndWakesPmi("canDecode", "sleepDecode")
      BY <3>3 DEF MovesAndWakesPmi
    <3> QED BY <3>1, <3>2, <3>3
  <2>2. UNCHANGED <<inVars, outVars, lmcVars, fileVars, pmoVars, ctlVars>>
        /\ (told' = told \/ told' = told \cup {"error"})
    BY <1>2 DEF LmcCanDecode, lmcUnchanged
  <2> QED BY <2>1, <2>2 DEF LmcPasses, EarlyPlaces, inVars, outVars, lmcVars
<1>3. CASE LmcPostInit
  <2>1. at["lmc"] = "postInit" /\ at'["lmc"] = "post" /\ at'["pmi"] = at["pmi"]
        /\ at'["pmo"] = at["pmo"]
    BY <1>3 DEF LmcPostInit
  <2> QED BY <1>3, <2>1 DEF LmcPostInit, LmcPostsInit, Accept, Moves, inVars, lmcUnchanged
<1>4. CASE LmcPost
  <2>1. at["lmc"] = "post" /\ at'["lmc"] \in {"done", "top"} /\ at'["pmi"] = at["pmi"]
        /\ at'["pmo"] = at["pmo"]
    BY <1>4 DEF LmcPost
  <2>2. UNCHANGED <<inVars, lmcVars, told, fileVars, pmoVars, ctlVars, paused, exiting>>
        /\ outStart' = outStart
    BY <1>4 DEF LmcPost, Accept, Moves, outVars, lmcUnchanged
  <2>3. ~exiting["lmc"] => LmcPostsTime
    BY <1>4, <2>1, <2>2 DEF LmcPost, LmcPostsTime, Accept, inVars, lmcVars
  <2> QED BY <2>1, <2>2, <2>3 DEF inVars
<1>5. CASE LmcTop
  <2>1. at["lmc"] = "top" /\ at'["lmc"] \in {"done", "waitPause", "size"}
        /\ at'["pmi"] = at["pmi"] /\ at'["pmo"] = at["pmo"]
    BY <1>5 DEF LmcTop
  <2>2. UNCHANGED <<inVars, outVars, lmcVars, told, fileVars, pmoVars, ctlVars, paused, exiting>>
    BY <1>5 DEF LmcTop, Moves, lmcUnchanged
  <2> QED BY <2>1, <2>2 DEF LmcPasses, Onward, Unposted, EarlyPlaces, inVars, outVars, lmcVars
<1>6. CASE LmcWaits
  <2>1. /\ \/ at["lmc"] = "sleepDecode" /\ at'["lmc"] = "canDecode"
           \/ /\ at["lmc"] \in {"waitPause", "sleepRead", "sleepWrite", "sleepAdvance"}
              /\ at'["lmc"] \in {"done", "size", "read", "top", "advance"}
           \/ at["lmc"] = "sleepHang" /\ at'["lmc"] = "hang"
        /\ at'["pmi"] = at["pmi"] /\ at'["pmo"] = at["pmo"]
    BY <1>6 DEF LmcWaits
  <2>2. UNCHANGED <<inVars, outVars, lmcVars, told, fileVars, pmoVars, ctlVars, paused, exiting>>
    BY <1>6 DEF LmcWaits, Unpauses, Awakes, lmcUnchanged
  <2> QED BY <2>1, <2>2 DEF LmcPasses, Onward, Unposted, EarlyPlaces, inVars, outVars, lmcVars
<1>7. CASE LmcRead
  <2>1. /\ at["lmc"] = "read" /\ at'["lmc"] \in {"done", "write", "postQuit", "sleepRead"}
        /\ at'["lmc"] = "postQuit" => inEos /\ ~(Len(inData) >= want)
        /\ at'["pmi"] = at["pmi"] /\ at'["pmo"] = at["pmo"] /\ UNCHANGED <<paused, exiting>>
    <3>1. \/ \E w \in {"done", "write"} : Moves("lmc", "read", w)
          \/ Moves("lmc", "read", "postQuit") /\ inEos /\ ~(Len(inData) >= want)
          \/ MovesAndWakesPmi("read", "sleepRead")
      BY <1>7 DEF LmcRead
    <3>2. CASE \E w \in {"done", "write"} : Moves("lmc", "read", w)
      BY <3>2 DEF Moves
    <3>3. CASE Moves("lmc", "read", "postQuit") /\ inEos /\ ~(Len(inData) >= want)
      BY <3>3 DEF Moves
    <3>4. CASE MovesAndWakesPmi("read", "sleepRead")
      BY <3>4 DEF MovesAndWakesPmi
    <3> QED BY <3>1, <3>2, <3>3, <3>4
  <2>2. UNCHANGED <<inData, inEos, outVars, frameCounter, told, fileVars, pmoVars, ctlVars>>
    BY <1>7 DEF LmcRead, lmcUnchanged
  <2> QED BY <2>1, <2>2 DEF LmcPasses, Onward, Unposted, EarlyPlaces, outVars
<1>8. CASE LmcPostQuit
  <2>1. at["lmc"] = "postQuit" /\ at'["lmc"] = "hang" /\ at'["pmi"] = at["pmi"]
        /\ at'["pmo"] = at["pmo"]
    BY <1>8 DEF LmcPostQuit
  <2> QED BY <1>8, <2>1 DEF LmcPostQuit, LmcPostsQuit, Accept, Moves, inVars, lmcVars, lmcUnchanged
<1>9. CASE LmcHang
  <2>1. at["lmc"] = "hang" /\ at'["pmi"] = at["pmi"] /\ at'["pmo"] = at["pmo"]
        /\ (~exiting["lmc"] => at'["lmc"] = "sleepHang" \/ ~inEos)
        /\ at'["lmc"] \in {"post", "done", "sleepHang"}
    BY <1>9 DEF LmcHang
  <2>2. UNCHANGED <<inVars, outVars, lmcVars, told, fileVars, pmoVars, ctlVars, paused, exiting>>
    BY <1>9 DEF LmcHang, Moves, lmcUnchanged
  <2> QED BY <2>1, <2>2 DEF LmcPasses, Onward, Unposted, EarlyPlaces, inVars, outVars, lmcVars
<1>10. CASE LmcWrite
  <2>1. at["lmc"] = "write" /\ at'["lmc"] \in {"decode", "sleepWrite"}
        /\ at'["pmi"] = at["pmi"] /\ at'["pmo"] = at["pmo"]
    BY <1>10 DEF LmcWrite
  <2>2. UNCHANGED <<inData, inEos, outData, outStart, events, frameCounter, told, fileVars, pmoVars,
                    ctlVars, paused, exiting>>
    BY <1>10 DEF LmcWrite, Moves, lmcUnchanged
  <2> QED BY <2>1, <2>2 DEF LmcPasses, Onward, Unposted, EarlyPlaces
<1>11. CASE LmcDecode
  <2>1. at["lmc"] = "decode" /\ at'["lmc"] \in {"advance", "done", "endWrite"}
        /\ at'["pmi"] = at["pmi"] /\ at'["pmo"] = at["pmo"] /\ UNCHANGED <<paused, exiting>>
    <3>1. \/ \E w \in {"advance", "done"} : Moves("lmc", "decode", w)
          \/ MovesAndWakesPmi("decode", "endWrite")
      BY <1>11 DEF LmcDecode
    <3>2. CASE \E w \in {"advance", "done"} : Moves("lmc", "decode", w)
      BY <3>2 DEF Moves
    <3>3. CASE MovesAndWakesPmi("decode", "endWrite")
      BY <3>3 DEF MovesAndWakesPmi
    <3> QED BY <3>1, <3>2, <3>3
  <2>2. UNCHANGED <<inEos, outData, outStart, events, frameCounter, told, fileVars, pmoVars, ctlVars>>
    BY <1>11 DEF LmcDecode, lmcUnchanged
  <2> QED BY <2>1, <2>2 DEF LmcPasses, Onward, Unposted, EarlyPlaces
<1>12. CASE LmcEndWrite
  <2>1. at["lmc"] = "endWrite" /\ at'["lmc"] = "count" /\ at'["pmi"] = at["pmi"]
        /\ at'["pmo"] = at["pmo"]
    BY <1>12 DEF LmcEndWrite
  <2> QED BY <1>12, <2>1 DEF LmcEndWrite, LmcQueues, Moves, inVars, lmcUnchanged
<1>13. CASE LmcCount
  <2>1. at["lmc"] = "count" /\ at'["lmc"] = "post" /\ at'["pmi"] = at["pmi"]
        /\ at'["pmo"] = at["pmo"]
    BY <1>13 DEF LmcCount
  <2> QED BY <1>13, <2>1 DEF LmcCount, LmcCounts, Moves, inVars, outVars, lmcUnchanged
<1>14. CASE LmcAdvance
  <2>1. at["lmc"] = "advance" /\ at'["lmc"] \in {"done", "top", "sleepAdvance"}
        /\ at'["pmi"] = at["pmi"] /\ at'["pmo"] = at["pmo"] /\ UNCHANGED <<paused, exiting>>
    <3>1. \/ \E w \in {"done", "top"} : Moves("lmc", "advance", w)
          \/ MovesAndWakesPmi("advance", "sleepAdvance")
      BY <1>14 DEF LmcAdvance
    <3>2. CASE \E w \in {"done", "top"} : Moves("lmc", "advance", w)
      BY <3>2 DEF Moves
    <3>3. CASE MovesAndWakesPmi("advance", "sleepAdvance")
      BY <3>3 DEF MovesAndWakesPmi
    <3> QED BY <3>1, <3>2, <3>3
  <2>2. UNCHANGED <<inEos, lmcVars, told, fileVars, pmoVars, ctlVars, outStart>>
    BY <1>14 DEF LmcAdvance, Accept, outVars, lmcUnchanged
  <2>3. ~exiting["lmc"] =>
          \/ /\ Moves("lmc", "advance", "done") /\ inEos /\ ~(Len(inData) >= ReadAhead)
             /\ UNCHANGED <<outData, inData>> /\ events' = Append(events, Event("quit", 0))
          \/ UNCHANGED <<outData, events>>
    BY <1>14 DEF LmcAdvance, Accept, outVars
  <2>4. Moves("lmc", "advance", "done") => at'["lmc"] = "done"
    OBVIOUS
  <2>5. ASSUME ~(Len(inData) >= ReadAhead) PROVE Len(inData) < ReadAhead
    <3>1. Len(inData) \in Nat /\ ReadAhead \in Nat
      <4>1. inData \in Seq(Frames)
        BY DEF Data, FramesOK
      <4>2. ReadAhead \in Nat
        BY PipelineAssumption
      <4> QED BY <4>1, <4>2
    <3> QED BY <2>5, <3>1
  <2>6. ~exiting["lmc"] =>
          \/ /\ Moves("lmc", "advance", "done") /\ AllRead
             /\ UNCHANGED <<outData, inData>> /\ events' = Append(events, Event("quit", 0))
          \/ UNCHANGED <<outData, events>>
    BY <2>3, <2>5 DEF AllRead
  <2> QED BY <2>1, <2>2, <2>4, <2>6 DEF LmcPasses, LmcPostsQuit, Onward, Unposted, EarlyPlaces, lmcVars
<1>15. CASE LmcSize
  <2>1. at["lmc"] \in {"size", "sizeEos"} /\ at'["lmc"] \in {"sizeEos", "read"}
        /\ at'["pmi"] = at["pmi"] /\ at'["pmo"] = at["pmo"]
    BY <1>15 DEF LmcSize
  <2>2. UNCHANGED <<inVars, outVars, frameCounter, told, fileVars, pmoVars, ctlVars, paused, exiting>>
    BY <1>15 DEF LmcSize, Moves, lmcUnchanged
  <2> QED BY <2>1, <2>2 DEF LmcPasses, Onward, Unposted, EarlyPlaces, inVars, outVars
<1> QED BY <1>1, <1>2, <1>3, <1>4, <1>5, <1>6, <1>7, <1>8, <1>9, <1>10, <1>11, <1>12, <1>13,
       <1>14, <1>15 DEF LmcNext

\* The output goes from one place to another, or gives up.
PmoPasses ==
  /\ UNCHANGED <<outData, outStart, events, opened, ready, written>>
  /\ "done" \in told' <=> "done" \in told
  /\ \/ at["pmo"] = "start" /\ at'["pmo"] = "top"
     \/ at["pmo"] = "top" /\ at'["pmo"] \in {"done", "waitPause", "checkInit"}
        /\ (paused["pmo"] => at'["pmo"] # "checkInit")
     \/ at["pmo"] = "waitPause" /\ at'["pmo"] = "top"
     \/ at["pmo"] = "checkInit" /\ ready /\ at'["pmo"] = "try"
     \/ at["pmo"] = "checkInit" /\ ~ready /\ events = <<>> /\ at'["pmo"] = "top"
     \/ at["pmo"] = "try" /\ EventIsDue /\ at'["pmo"] = "peek"
     \/ at["pmo"] = "try" /\ ~EventIsDue /\ outData # <<>> /\ at'["pmo"] = "space"
     \/ at["pmo"] \in {"try", "drain"} /\ at'["pmo"] = "try"
     \/ at["pmo"] = "peek" /\ events = <<>> /\ at'["pmo"] = "crashed"
     \/ at["pmo"] = "peek" /\ events # <<>> /\ Head(events).kind = "quit" /\ at'["pmo"] = "drain"
     \/ at["pmo"] = "peek" /\ events # <<>> /\ at'["pmo"] = "take"
     \/ at["pmo"] = "take" /\ events = <<>> /\ at'["pmo"] = "crashed"
     \/ at["pmo"] = "space" /\ at'["pmo"] \in {"top", "write"}
     \/ at["pmo"] = "write" /\ at'["pmo"] = "done"

\* The output waits for the card to open and takes whatever event comes first,
\* or it handles a time event.
PmoPops ==
  /\ UNCHANGED <<outData, outStart, written>> /\ events # <<>> /\ events' = Tail(events)
  /\ "done" \in told' <=> "done" \in told
  /\ \/ /\ at["pmo"] = "checkInit" /\ ~ready /\ Head(events).kind = "init"
        /\ \/ at'["pmo"] = "top" /\ opened' = TRUE /\ ready' = TRUE
           \/ at'["pmo"] = "done" /\ opened' = FALSE /\ ready' = FALSE
     \/ /\ at["pmo"] = "checkInit" /\ ~ready /\ Head(events).kind # "init"
        /\ at'["pmo"] = "top" /\ UNCHANGED <<opened, ready>>
     \/ at["pmo"] = "take" /\ at'["pmo"] = "try" /\ Head(events).kind = "init"
     \/ /\ at["pmo"] = "take" /\ at'["pmo"] = "try" /\ Head(events).kind = "time"
        /\ UNCHANGED <<opened, ready>>

\* The output reports the end of the track.
PmoReports ==
  /\ UNCHANGED <<outData, written, opened, ready>> /\ at'["pmo"] = "done"
  /\ \/ at["pmo"] = "drain"
     \/ at["pmo"] = "take" /\ events # <<>> /\ Head(events).kind = "quit"

\* The output plays a frame.
PmoPlays ==
  /\ at["pmo"] = "write" /\ at'["pmo"] = "top" /\ outData # <<>>
  /\ outData' = Tail(outData) /\ outStart' = (outStart + 1) % OutCap /\ written' = Head(outData)
  /\ UNCHANGED <<events, opened, ready, told>>

LEMMA PmoSteps ==
  ASSUME IInv, PmoNext
  PROVE  /\ UNCHANGED <<fileVars, inVars, lmcVars, ctlVars, paused, exiting>>
         /\ at'["pmi"] = at["pmi"] /\ at'["lmc"] = at["lmc"]
         /\ PmoPasses \/ PmoPops \/ PmoReports \/ PmoPlays
<1>. USE UnitNames, Arrives DEF IInv, PlacesOf, PmoPlaces
<1>1. CASE PmoStart
  <2>1. at["pmo"] = "start" /\ at'["pmo"] = "top" /\ at'["pmi"] = at["pmi"]
        /\ at'["lmc"] = at["lmc"]
    BY <1>1 DEF PmoStart
  <2> QED BY <1>1, <2>1 DEF PmoStart, PmoPasses, outVars, pmoVars, pmoUnchanged
<1>2. CASE PmoTop
  <2>1. at["pmo"] = "top" /\ at'["pmo"] \in {"done", "waitPause", "checkInit"}
        /\ (paused["pmo"] => at'["pmo"] # "checkInit")
        /\ at'["pmi"] = at["pmi"] /\ at'["lmc"] = at["lmc"]
    BY <1>2 DEF PmoTop
  <2>2. UNCHANGED <<paused, exiting, outVars, pmoVars, told, fileVars, inVars, lmcVars, ctlVars>>
    BY <1>2 DEF PmoTop, Moves, pmoUnchanged
  <2> QED BY <2>1, <2>2 DEF PmoPasses, outVars, pmoVars
<1>3. CASE PmoWaits
  <2>1. at["pmo"] = "waitPause" /\ at'["pmo"] = "top" /\ at'["pmi"] = at["pmi"]
        /\ at'["lmc"] = at["lmc"]
    BY <1>3 DEF PmoWaits
  <2> QED BY <1>3, <2>1 DEF PmoWaits, Unpauses, PmoPasses, outVars, pmoVars, pmoUnchanged
<1>4. CASE PmoReady
  <2>1. at["pmo"] = "checkInit" /\ ready /\ at'["pmo"] = "try" /\ at'["pmi"] = at["pmi"]
        /\ at'["lmc"] = at["lmc"]
    BY <1>4 DEF PmoReady
  <2> QED BY <1>4, <2>1 DEF PmoReady, Moves, PmoPasses, outVars, pmoVars, pmoUnchanged
<1>5. CASE PmoAwaitInit
  <2>1. UNCHANGED <<fileVars, inVars, lmcVars, ctlVars, outData, outStart, written>> /\ ~ready
    BY <1>5 DEF PmoAwaitInit, pmoUnchanged
  <2>2. CASE events = <<>>
    <3>1. MovesAndWakesLmc("checkInit", "top") /\ UNCHANGED <<events, opened, ready, told>>
      BY <1>5, <2>2 DEF PmoAwaitInit
    <3>2. at["pmo"] = "checkInit" /\ at'["pmo"] = "top" /\ at'["pmi"] = at["pmi"]
          /\ at'["lmc"] = at["lmc"] /\ UNCHANGED <<paused, exiting>>
      BY <3>1 DEF MovesAndWakesLmc
    <3> QED BY <2>1, <2>2, <3>1, <3>2 DEF PmoPasses
  <2>3. CASE events # <<>> /\ Head(events).kind = "init"
    <3>1. events' = Tail(events) /\ InitCard("checkInit", "top", "done")
      BY <1>5, <2>3 DEF PmoAwaitInit
    <3>2. CASE Moves("pmo", "checkInit", "top") /\ opened' = TRUE /\ ready' = TRUE /\ told' = told
      <4>1. at["pmo"] = "checkInit" /\ at'["pmo"] = "top" /\ at'["pmi"] = at["pmi"]
            /\ at'["lmc"] = at["lmc"] /\ UNCHANGED <<paused, exiting>>
        BY <3>2 DEF Moves
      <4> QED BY <2>1, <2>3, <3>1, <3>2, <4>1 DEF PmoPops
    <3>3. CASE /\ Moves("pmo", "checkInit", "done") /\ opened' = FALSE /\ ready' = FALSE
               /\ told' = told \cup {"error"}
      <4>1. at["pmo"] = "checkInit" /\ at'["pmo"] = "done" /\ at'["pmi"] = at["pmi"]
            /\ at'["lmc"] = at["lmc"] /\ UNCHANGED <<paused, exiting>>
        BY <3>3 DEF Moves
      <4> QED BY <2>1, <2>3, <3>1, <3>3, <4>1 DEF PmoPops
    <3> QED BY <3>1, <3>2, <3>3 DEF InitCard
  <2>4. CASE events # <<>> /\ Head(events).kind # "init"
    <3>1. events' = Tail(events) /\ Moves("pmo", "checkInit", "top") /\ UNCHANGED <<opened, ready, told>>
      BY <1>5, <2>4 DEF PmoAwaitInit
    <3>2. at["pmo"] = "checkInit" /\ at'["pmo"] = "top" /\ at'["pmi"] = at["pmi"]
          /\ at'["lmc"] = at["lmc"] /\ UNCHANGED <<paused, exiting>>
      BY <3>1 DEF Moves
    <3> QED BY <2>1, <2>4, <3>1, <3>2 DEF PmoPops
  <2> QED BY <2>2, <2>3, <2>4
<1>6. CASE PmoTry
  <2>1. UNCHANGED <<fileVars, inVars, lmcVars, ctlVars, outData, outStart, events, pmoVars, told>>
    BY <1>6 DEF PmoTry, pmoUnchanged
  <2>2. CASE EventIsDue
    <3>1. Moves("pmo", "try", "peek")
      BY <1>6, <2>2 DEF PmoTry
    <3>2. at["pmo"] = "try" /\ at'["pmo"] = "peek" /\ at'["pmi"] = at["pmi"]
          /\ at'["lmc"] = at["lmc"] /\ UNCHANGED <<paused, exiting>>
      BY <3>1 DEF Moves
    <3> QED BY <2>1, <2>2, <3>2 DEF PmoPasses, pmoVars
  <2>3. CASE ~EventIsDue /\ outData # <<>>
    <3>1. Moves("pmo", "try", "space")
      BY <1>6, <2>3 DEF PmoTry
    <3>2. at["pmo"] = "try" /\ at'["pmo"] = "space" /\ at'["pmi"] = at["pmi"]
          /\ at'["lmc"] = at["lmc"] /\ UNCHANGED <<paused, exiting>>
      BY <3>1 DEF Moves
    <3> QED BY <2>1, <2>3, <3>2 DEF PmoPasses, pmoVars
  <2>4. CASE ~EventIsDue /\ outData = <<>>
    <3>1. MovesAndWakesLmc("try", "try")
      BY <1>6, <2>4 DEF PmoTry
    <3>2. at["pmo"] = "try" /\ at'["pmo"] = "try" /\ at'["pmi"] = at["pmi"]
          /\ at'["lmc"] = at["lmc"] /\ UNCHANGED <<paused, exiting>>
      BY <3>1 DEF MovesAndWakesLmc
    <3> QED BY <2>1, <3>2 DEF PmoPasses, pmoVars
  <2> QED BY <2>2, <2>3, <2>4
<1>7. CASE PmoPeek
  <2>1. UNCHANGED <<fileVars, inVars, lmcVars, ctlVars, outVars, pmoVars, told, paused, exiting>>
    BY <1>7 DEF PmoPeek, Moves, pmoUnchanged
  <2>2. /\ at["pmo"] = "peek" /\ at'["pmi"] = at["pmi"] /\ at'["lmc"] = at["lmc"]
        /\ \/ events = <<>> /\ at'["pmo"] = "crashed"
           \/ events # <<>> /\ Head(events).kind = "quit" /\ at'["pmo"] = "drain"
           \/ events # <<>> /\ at'["pmo"] = "take"
    BY <1>7 DEF PmoPeek
  <2> QED BY <2>1, <2>2 DEF PmoPasses, outVars, pmoVars
<1>8. CASE PmoTake
  <2>1. UNCHANGED <<fileVars, inVars, lmcVars, ctlVars, outData, outStart, written>>
    BY <1>8 DEF PmoTake, pmoUnchanged
  <2>2. CASE events = <<>>
    <3>1. Moves("pmo", "take", "crashed") /\ UNCHANGED <<events, opened, ready, told>>
      BY <1>8, <2>2 DEF PmoTake
    <3>2. at["pmo"] = "take" /\ at'["pmo"] = "crashed" /\ at'["pmi"] = at["pmi"]
          /\ at'["lmc"] = at["lmc"] /\ UNCHANGED <<paused, exiting>>
      BY <3>1 DEF Moves
    <3> QED BY <2>1, <2>2, <3>1, <3>2 DEF PmoPasses
  <2>3. CASE events # <<>> /\ Head(events).kind = "init"
    <3>1. events' = Tail(events) /\ InitCard("take", "try", "try")
      BY <1>8, <2>3 DEF PmoTake
    <3>2. Moves("pmo", "take", "try") /\ (told' = told \/ told' = told \cup {"error"})
      BY <3>1 DEF InitCard
    <3>3. at["pmo"] = "take" /\ at'["pmo"] = "try" /\ at'["pmi"] = at["pmi"]
          /\ at'["lmc"] = at["lmc"] /\ UNCHANGED <<paused, exiting>>
      BY <3>2 DEF Moves
    <3>4. "done" \in told' <=> "done" \in told
      BY <3>2
    <3> QED BY <2>1, <2>3, <3>1, <3>3, <3>4 DEF PmoPops
  <2>4. CASE events # <<>> /\ Head(events).kind = "time"
    <3>1. events' = Tail(events) /\ Moves("pmo", "take", "try") /\ UNCHANGED <<opened, ready, told>>
      BY <1>8, <2>4 DEF PmoTake
    <3>2. at["pmo"] = "take" /\ at'["pmo"] = "try" /\ at'["pmi"] = at["pmi"]
          /\ at'["lmc"] = at["lmc"] /\ UNCHANGED <<paused, exiting>>
      BY <3>1 DEF Moves
    <3> QED BY <2>1, <2>4, <3>1, <3>2 DEF PmoPops
  <2>5. CASE events # <<>> /\ Head(events).kind = "quit"
    <3>1. Moves("pmo", "take", "done") /\ UNCHANGED <<opened, ready>>
      BY <1>8, <2>5 DEF PmoTake
    <3>2. at["pmo"] = "take" /\ at'["pmo"] = "done" /\ at'["pmi"] = at["pmi"]
          /\ at'["lmc"] = at["lmc"] /\ UNCHANGED <<paused, exiting>>
      BY <3>1 DEF Moves
    <3> QED BY <2>1, <2>5, <3>1, <3>2 DEF PmoReports
  <2> QED BY <2>2, <2>3, <2>4, <2>5, HeadEvent DEF Data
<1>9. CASE PmoDrain
  <2>1. UNCHANGED <<fileVars, inVars, lmcVars, ctlVars, outVars, pmoVars, paused, exiting>>
    BY <1>9 DEF PmoDrain, Moves, pmoUnchanged
  <2>2. CASE Moves("pmo", "drain", "try") /\ told' = told
    <3>1. at["pmo"] = "drain" /\ at'["pmo"] = "try" /\ at'["pmi"] = at["pmi"]
          /\ at'["lmc"] = at["lmc"]
      BY <2>2
    <3> QED BY <2>1, <2>2, <3>1 DEF PmoPasses, outVars, pmoVars
  <2>3. CASE Moves("pmo", "drain", "done")
    <3>1. at["pmo"] = "drain" /\ at'["pmo"] = "done" /\ at'["pmi"] = at["pmi"]
          /\ at'["lmc"] = at["lmc"]
      BY <2>3
    <3> QED BY <2>1, <3>1 DEF PmoReports, outVars, pmoVars
  <2> QED BY <1>9, <2>2, <2>3 DEF PmoDrain
<1>10. CASE PmoSpace
  <2>1. UNCHANGED <<fileVars, inVars, lmcVars, ctlVars, outData, outStart, events, pmoVars, told,
                    paused, exiting>>
    BY <1>10 DEF PmoSpace, Moves, pmoUnchanged
  <2>2. at["pmo"] = "space" /\ at'["pmo"] \in {"top", "write"} /\ at'["pmi"] = at["pmi"]
        /\ at'["lmc"] = at["lmc"]
    BY <1>10 DEF PmoSpace
  <2> QED BY <2>1, <2>2 DEF PmoPasses, pmoVars
<1>11. CASE PmoWrite
  <2>1. UNCHANGED <<fileVars, inVars, lmcVars, ctlVars, events, opened, ready>>
    BY <1>11 DEF PmoWrite, pmoUnchanged
  <2>2. CASE /\ MovesAndWakesLmc("write", "top") /\ written' = Head(outData) /\ told' = told
             /\ outData' = Tail(outData) /\ outStart' = (outStart + 1) % OutCap
    <3>1. at["pmo"] = "write" /\ at'["pmo"] = "top" /\ at'["pmi"] = at["pmi"]
          /\ at'["lmc"] = at["lmc"] /\ UNCHANGED <<paused, exiting>>
      BY <2>2 DEF MovesAndWakesLmc
    <3>2. outData # <<>>
      BY <3>1 DEF Data, ContentsOK
    <3> QED BY <2>1, <2>2, <3>1, <3>2 DEF PmoPlays
  <2>3. CASE /\ Moves("pmo", "write", "done") /\ told' = told \cup {"error"}
             /\ UNCHANGED <<written, outData, outStart>>
    <3>1. at["pmo"] = "write" /\ at'["pmo"] = "done" /\ at'["pmi"] = at["pmi"]
          /\ at'["lmc"] = at["lmc"] /\ UNCHANGED <<paused, exiting>>
      BY <2>3 DEF Moves
    <3> QED BY <2>1, <2>3, <3>1 DEF PmoPasses
  <2> QED BY <1>11, <2>2, <2>3 DEF PmoWrite
<1> QED BY <1>1, <1>2, <1>3, <1>4, <1>5, <1>6, <1>7, <1>8, <1>9, <1>10, <1>11 DEF PmoNext

-----------------------------------------------------------------------------
(* What the player does meanwhile                                             *)

LEMMA PrecededTail ==
  ASSUME NEW s \in Seq(StepNames), s # <<>>, NEW A, NEW B, Preceded(s, A, B), Head(s) \notin B
  PROVE  Preceded(Tail(s), A, B)
<1>1. /\ Len(s) \in Nat /\ Len(Tail(s)) = Len(s) - 1 /\ s[1] \notin B
      /\ \A i \in 1 .. Len(s) - 1 : Tail(s)[i] = s[i + 1]
  OBVIOUS
<1>2. ASSUME NEW i \in 1 .. Len(Tail(s)), Tail(s)[i] \in A
      PROVE  \E j \in 1 .. i - 1 : Tail(s)[j] \in B
  <2>1. i + 1 \in 1 .. Len(s) /\ s[i + 1] \in A
    BY <1>1, <1>2
  <2>2. PICK j \in 1 .. i : s[j] \in B
    BY <2>1 DEF Preceded
  <2>3. j # 1
    BY <1>1, <2>2
  <2>4. j - 1 \in 1 .. i - 1 /\ Tail(s)[j - 1] \in B
    BY <1>1, <1>2, <2>2, <2>3
  <2> QED BY <2>4
<1> QED BY <1>2 DEF Preceded

LEMMA PrecededConcat ==
  ASSUME NEW s \in Seq(StepNames), NEW t \in Seq(StepNames), NEW A, NEW B,
         Preceded(s, A, B), Preceded(t, A, B)
  PROVE  Preceded(s \o t, A, B)
<1>1. /\ Len(s) \in Nat /\ Len(t) \in Nat /\ Len(s \o t) = Len(s) + Len(t)
      /\ \A i \in 1 .. Len(s \o t) :
           \/ i \in 1 .. Len(s) /\ (s \o t)[i] = s[i]
           \/ i > Len(s) /\ i - Len(s) \in 1 .. Len(t) /\ (s \o t)[i] = t[i - Len(s)]
      /\ \A i \in 1 .. Len(s) : (s \o t)[i] = s[i]
      /\ \A i \in 1 .. Len(t) : Len(s) + i \in 1 .. Len(s \o t) /\ (s \o t)[Len(s) + i] = t[i]
  BY ConcatProperties
<1>2. ASSUME NEW i \in 1 .. Len(s \o t), (s \o t)[i] \in A
      PROVE  \E j \in 1 .. i - 1 : (s \o t)[j] \in B
  <2>1. CASE i \in 1 .. Len(s) /\ (s \o t)[i] = s[i]
    <3>1. PICK j \in 1 .. i - 1 : s[j] \in B
      BY <1>2, <2>1 DEF Preceded
    <3>2. j \in 1 .. Len(s)
      BY <1>1, <2>1
    <3> QED BY <1>1, <3>1, <3>2
  <2>2. CASE i > Len(s) /\ i - Len(s) \in 1 .. Len(t) /\ (s \o t)[i] = t[i - Len(s)]
    <3>1. PICK j \in 1 .. (i - Len(s)) - 1 : t[j] \in B
      BY <1>2, <2>2 DEF Preceded
    <3>2. j \in 1 .. Len(t)
      BY <1>1, <2>2
    <3>3. (s \o t)[Len(s) + j] \in B
      BY <1>1, <3>1, <3>2
    <3>4. Len(s) + j \in 1 .. i - 1
      BY <1>1, <2>2
    <3> QED BY <3>3, <3>4
  <2> QED BY <1>1, <2>1, <2>2
<1> QED BY <1>2 DEF Preceded

\* The deletion joins the output before it does anything else, and pauses the
\* output before it resets the card, if it does so before.
LEMMA DeletePreceded ==
  \A steps \in {<<>>, DeleteSteps, PauseSteps \o DeleteSteps} :
    /\ Preceded(steps, AfterJoin, {"joinPmo"})
    /\ Preceded(steps, {"resetCard", "initCard"}, {"pausePmo", "joinPmo"})
<1>1. /\ Preceded(<<>>, AfterJoin, {"joinPmo"})
      /\ Preceded(<<>>, {"resetCard", "initCard"}, {"pausePmo", "joinPmo"})
  BY DEF Preceded
<1>2. /\ DeleteSteps \in Seq(StepNames) /\ Len(DeleteSteps) = 15
      /\ DeleteSteps[1] = "exitPmo" /\ DeleteSteps[2] = "joinPmo"
  BY DEF DeleteSteps, StepNames
<1>3. \A i \in 1 .. 15 : i = 1 \/ i = 2 \/ 2 \in 1 .. i - 1
  OBVIOUS
<1>4. /\ Preceded(DeleteSteps, AfterJoin, {"joinPmo"})
      /\ Preceded(DeleteSteps, {"resetCard", "initCard"}, {"pausePmo", "joinPmo"})
  BY <1>2, <1>3 DEF Preceded, AfterJoin
<1>5. /\ PauseSteps \in Seq(StepNames) /\ Len(PauseSteps) = 3 /\ PauseSteps[1] = "pausePmo"
      /\ PauseSteps[2] = "resetCard" /\ PauseSteps[3] = "initCard"
  BY DEF PauseSteps, StepNames
<1>6. \A i \in 1 .. 3 : i = 1 \/ (i = 2 /\ 1 \in 1 .. i - 1) \/ (i = 3 /\ 1 \in 1 .. i - 1)
  OBVIOUS
<1>7. /\ Preceded(PauseSteps, AfterJoin, {"joinPmo"})
      /\ Preceded(PauseSteps, {"resetCard", "initCard"}, {"pausePmo", "joinPmo"})
  BY <1>5, <1>6 DEF Preceded, AfterJoin
<1> QED BY <1>1, <1>2, <1>4, <1>5, <1>7, PrecededConcat

\* Without seeks and pauses all the player does before the output has ended is
\* to begin the deletion: it pauses the output, resets the card, and has it exit.
LEMMA CtlSteps ==
  ASSUME MaxSeeks = 0, MaxPauses = 0, IInv, CalmOK, at["pmo"] # "done", CtlNext \/ CtlBegins
  PROVE  /\ UNCHANGED <<at, fileVars, inVars, outVars, lmcVars, opened, written, told>>
         /\ CalmOK'
         /\ paused["pmo"] => paused'["pmo"]
         /\ ready' => ready \/ opened
         /\ ready /\ opened /\ ~ready' => paused'["pmo"]
<1>1. /\ ctl \in [todo : Seq(StepNames), pos : 0 .. FileLen - 1] /\ left.seeks = 0 /\ left.pauses = 0
      /\ Preceded(ctl.todo, AfterJoin, {"joinPmo"})
      /\ paused["pmo"] \/ Preceded(ctl.todo, {"resetCard", "initCard"}, {"pausePmo", "joinPmo"})
      /\ ~exiting["lmc"] /\ paused \in [Units -> BOOLEAN] /\ exiting \in [Units -> BOOLEAN]
  BY DEF IInv, CallOK, UnitsOK, CalmOK
<1>2. CASE CtlBegins
  <2>1. \E s \in {DeleteSteps, PauseSteps \o DeleteSteps} : ctl' = [ctl EXCEPT !.todo = s]
    BY <1>1, <1>2 DEF CtlBegins, BeginPause, BeginResume, BeginSeek, BeginDelete, Begins
  <2>2. UNCHANGED <<unitVars, fileVars, inVars, outVars, lmcVars, pmoVars, told>>
    BY <1>2 DEF CtlBegins, BeginPause, BeginResume, BeginSeek, BeginDelete, Begins
  <2>3. /\ Preceded(ctl'.todo, AfterJoin, {"joinPmo"})
        /\ Preceded(ctl'.todo, {"resetCard", "initCard"}, {"pausePmo", "joinPmo"})
    BY <1>1, <2>1, DeletePreceded
  <2>4. CalmOK'
    BY <1>1, <2>2, <2>3 DEF CalmOK, Preceded, unitVars
  <2> QED BY <2>2, <2>4 DEF unitVars, pmoVars
<1>3. CASE CtlNext
  <2>1. /\ ctl.todo \in Seq(StepNames) /\ ctl.todo # <<>> /\ ctl'.todo = Tail(ctl.todo)
        /\ told' = told /\ Step(Head(ctl.todo)) /\ Head(ctl.todo) \in StepNames
        /\ \A name : Step(name) => name = Head(ctl.todo)
    <3>1. PICK name : Step(name)
      BY <1>3 DEF CtlNext, PauseUnit, ResumeUnit, ExitUnit, JoinUnit, ResetCard, ClearOutput,
         ClearInput, PositionFile, PositionDecoder
    <3> QED BY <1>1, <3>1 DEF Step
  <2>2. Head(ctl.todo) \notin AfterJoin /\ Head(ctl.todo) # "joinPmo"
    <3>1. Head(ctl.todo) = ctl.todo[1] /\ 1 \in 1 .. Len(ctl.todo) /\ \A j \in 1 .. 1 - 1 : FALSE
      BY <2>1
    <3>2. Head(ctl.todo) \notin AfterJoin
      BY <1>1, <3>1 DEF Preceded
    <3>3. Head(ctl.todo) # "joinPmo"
      BY <1>3, <2>1 DEF CtlNext, PauseUnit, ResumeUnit, ExitUnit, JoinUnit, ResetCard,
         ClearOutput, ClearInput, PositionFile, PositionDecoder, Step
    <3> QED BY <3>2, <3>3
  <2>3. Head(ctl.todo) \in {"pausePmo", "resetCard", "initCard", "exitPmo"}
    BY <2>1, <2>2 DEF AfterJoin
  <2>4. Preceded(Tail(ctl.todo), AfterJoin, {"joinPmo"})
    BY <1>1, <2>1, <2>2, PrecededTail
  <2>5. CASE Head(ctl.todo) = "pausePmo"
    <3>1. Pause("pmo") /\ UNCHANGED <<fileVars, inVars, outVars, lmcVars, pmoVars>>
      BY <1>3, <2>1, <2>5 DEF CtlNext, PauseUnit, ResumeUnit, ExitUnit, JoinUnit, ResetCard,
         ClearOutput, ClearInput, PositionFile, PositionDecoder
    <3>2. at' = at /\ exiting' = exiting /\ paused'["pmo"] = TRUE
      BY <1>1, <3>1, UnitNames DEF Pause
    <3> QED BY <1>1, <2>1, <2>4, <3>1, <3>2 DEF CalmOK, Preceded, pmoVars
  <2>6. CASE Head(ctl.todo) \in {"resetCard", "initCard"}
    <3>1. /\ UNCHANGED <<unitVars, fileVars, inVars, outVars, lmcVars, opened, written>>
          /\ ready' = (ready /\ ~opened) \/ ready' = (ready \/ opened)
      BY <1>3, <2>1, <2>6 DEF CtlNext, PauseUnit, ResumeUnit, ExitUnit, JoinUnit, ResetCard,
         ClearOutput, ClearInput, PositionFile, PositionDecoder
    <3>2. paused["pmo"]
      <4>1. Head(ctl.todo) = ctl.todo[1] /\ 1 \in 1 .. Len(ctl.todo) /\ \A j \in 1 .. 1 - 1 : FALSE
        BY <2>1
      <4> QED BY <1>1, <2>6, <4>1 DEF Preceded
    <3>3. CalmOK'
      BY <1>1, <2>1, <2>4, <3>1, <3>2 DEF CalmOK, Preceded, unitVars
    <3>4. opened \in BOOLEAN /\ ready \in BOOLEAN
      BY DEF IInv, Data, CardOK
    <3> QED BY <2>1, <3>1, <3>2, <3>3, <3>4 DEF unitVars
  <2>7. CASE Head(ctl.todo) = "exitPmo"
    <3>1. Exit("pmo") /\ UNCHANGED <<fileVars, inVars, outVars, lmcVars, pmoVars>>
      BY <1>3, <2>1, <2>7 DEF CtlNext, PauseUnit, ResumeUnit, ExitUnit, JoinUnit, ResetCard,
         ClearOutput, ClearInput, PositionFile, PositionDecoder
    <3>2. at' = at /\ paused' = paused /\ exiting'["lmc"] = exiting["lmc"]
      BY <1>1, <3>1, UnitNames DEF Exit
    <3>3. ~paused["pmo"] =>
            Preceded(Tail(ctl.todo), {"resetCard", "initCard"}, {"pausePmo", "joinPmo"})
      BY <1>1, <2>1, <2>7, PrecededTail
    <3> QED BY <1>1, <2>1, <2>4, <3>1, <3>2, <3>3 DEF CalmOK, Preceded, pmoVars
  <2> QED BY <2>3, <2>5, <2>6, <2>7
<1> QED BY <1>2, <1>3

-----------------------------------------------------------------------------
(* The invariant is inductive                                                 *)

EventsInv == CalmOK /\ OpenOK /\ CountOK /\ WantOK /\ EndOK /\ QueueOK /\ DueOK /\ ToldOK
EventInv == NoSeekInv /\ EventsInv

LEMMA NonePlayed == written = NoFrame => Played = 0
<1> SUFFICES ASSUME written = NoFrame PROVE Played = 0
  OBVIOUS
<1>1. {g \in Good : g <= written.num} = {}
  BY FrameFields DEF Good
<1> QED BY <1>1, FS_EmptySet DEF Played

LEMMA InitEvents == Init => EventsInv
<1> SUFFICES ASSUME Init PROVE EventsInv
  OBVIOUS
<1>1. /\ at["pmi"] = "start" /\ at["lmc"] = "start" /\ at["pmo"] = "start" /\ ctl.todo = <<>>
      /\ paused["pmo"] = FALSE /\ exiting["lmc"] = FALSE
  BY UnitNames DEF Init
<1>2. CalmOK
  BY <1>1, DeletePreceded DEF CalmOK
<1>3. OpenOK
  BY <1>1 DEF Init, OpenOK
<1>4. CountOK
  <2>1. Played = 0 /\ Len(outData) = 0 /\ frameCounter = 0 /\ outStart = 0
    BY NonePlayed DEF Init
  <2>2. 0 % OutCap = 0
    BY PipelineAssumption
  <2> QED BY <1>1, <2>1, <2>2 DEF CountOK, Once
<1>5. Kinds(events) = {} /\ events = <<>>
  BY DEF Init, Kinds
<1>6. WantOK /\ EndOK
  BY <1>1, <1>5 DEF Init, WantOK, EndOK
<1>7. QueueOK
  BY <1>1, <1>5 DEF Init, QueueOK, Queued, EarlyPlaces
<1>8. DueOK /\ ToldOK
  BY DEF Init, DueOK, ToldOK
<1> QED BY <1>2, <1>3, <1>4, <1>6, <1>7, <1>8 DEF EventsInv

\* Once the output has ended or is paused for good, it does not come back.
LEMMA OnceLive ==
  ASSUME IInv, (PmiNext \/ LmcNext \/ PmoNext \/ CardPlays),
         Live'
  PROVE  Live
<1>1. CASE PmiNext \/ LmcNext
  BY <1>1, PmiSteps, LmcSteps DEF Live
<1>2. CASE CardPlays
  BY <1>2 DEF CardPlays, Live, unitVars
<1>3. CASE PmoNext
  BY <1>3, PmoSteps DEF Live, PmoPasses, PmoPops, PmoReports, PmoPlays
<1> QED BY <1>1, <1>2, <1>3

LEMMA NextCalm ==
  ASSUME MaxSeeks = 0, MaxPauses = 0, IInv, CalmOK, Next
  PROVE  CalmOK'
<1>1. at["pmo"] = "done" => at'["pmo"] = "done"
  BY OutputEnds DEF Next
<1>2. CASE at["pmo"] = "done"
  BY <1>1, <1>2 DEF CalmOK
<1>3. CASE at["pmo"] # "done" /\ UNCHANGED <<ctl, paused, exiting>>
  BY <1>3 DEF CalmOK, Preceded
<1>4. CASE PmiNext \/ LmcNext \/ PmoNext \/ CardPlays
  <2>1. UNCHANGED <<ctl, paused, exiting>>
    <3>1. CASE PmiNext \/ LmcNext \/ PmoNext
      BY <3>1, PmiSteps, LmcSteps, PmoSteps DEF ctlVars
    <3>2. CASE CardPlays
      BY <3>2 DEF CardPlays, unitVars, pmoUnchanged, ctlVars
    <3> QED BY <1>4, <3>1, <3>2
  <2> QED BY <1>2, <1>3, <2>1
<1>5. CASE CtlNext \/ CtlBegins
  BY <1>2, <1>5, CtlSteps
<1> QED BY <1>4, <1>5 DEF Next

LEMMA NextOpen ==
  ASSUME MaxSeeks = 0, MaxPauses = 0, IInv, CalmOK, OpenOK, QueueOK, Next
  PROVE  OpenOK'
<1>1. CASE PmiNext \/ LmcNext
  <2>1. UNCHANGED <<pmoVars, paused>> /\ at'["pmo"] = at["pmo"]
    BY <1>1, PmiSteps, LmcSteps
  <2> QED BY <2>1 DEF OpenOK, pmoVars
<1>2. CASE CardPlays
  BY <1>2 DEF CardPlays, unitVars, OpenOK
<1>3. CASE CtlNext \/ CtlBegins
  <2>1. at' = at /\ UNCHANGED <<opened, written>> /\ (ready' => ready \/ opened)
    <3>1. CASE ResetCard
      BY <3>1 DEF ResetCard, unitVars
    <3>2. CASE ClearOutput \/ ClearInput \/ PositionFile \/ PositionDecoder \/ JoinUnit
      BY <3>2 DEF ClearOutput, ClearInput, PositionFile, PositionDecoder, JoinUnit, unitVars, pmoVars
    <3>3. CASE PauseUnit \/ ResumeUnit \/ ExitUnit
      BY <3>3 DEF PauseUnit, ResumeUnit, ExitUnit, Pause, Resume, Exit, pmoVars
    <3>4. CASE CtlBegins
      BY <3>4 DEF CtlBegins, BeginPause, BeginResume, BeginSeek, BeginDelete, Begins, unitVars,
         pmoVars
    <3> QED BY <1>3, <3>1, <3>2, <3>3, <3>4 DEF CtlNext
  <2>2. CASE at["pmo"] = "done"
    BY <2>1, <2>2 DEF OpenOK
  <2>3. CASE at["pmo"] # "done"
    <3>1. /\ paused["pmo"] => paused'["pmo"]
          /\ ready /\ opened /\ ~ready' => paused'["pmo"]
      BY <1>3, <2>3, CtlSteps
    <3> QED BY <2>1, <3>1 DEF OpenOK
  <2> QED BY <2>2, <2>3
<1>4. CASE PmoNext
  <2>1. paused' = paused /\ (PmoPasses \/ PmoPops \/ PmoReports \/ PmoPlays)
    BY <1>4, PmoSteps
  <2>2. CASE PmoPasses
    BY <2>1, <2>2 DEF PmoPasses, OpenOK
  <2>3. CASE PmoPops
    <3>1. Live
      BY <2>3 DEF PmoPops, Live
    <3>2. Head(events).kind = "init" => ~opened
      <4>1. events \in Seq(EventRecords) /\ events # <<>>
        BY <2>3 DEF PmoPops, IInv, Data, EventsOK
      <4>2. Head(events) = events[1] /\ 1 \in 1 .. Len(events)
        BY <4>1
      <4> QED BY <3>1, <4>2 DEF QueueOK, Queued
    <3> QED BY <2>1, <2>3, <3>2 DEF PmoPops, OpenOK
  <2>4. CASE PmoReports
    BY <2>4 DEF PmoReports, OpenOK
  <2>5. CASE PmoPlays
    BY <2>1, <2>5 DEF PmoPlays, OpenOK
  <2> QED BY <2>1, <2>2, <2>3, <2>4, <2>5
<1> QED BY <1>1, <1>2, <1>3, <1>4 DEF Next

LEMMA NextCount ==
  ASSUME MaxSeeks = 0, MaxPauses = 0, NoSeekInv, CalmOK, CountOK, EndOK, Next
  PROVE  CountOK'
<1>1. SUFFICES ASSUME at["pmo"] # "done" PROVE CountOK'
  <2>1. at["pmo"] = "done" => at'["pmo"] = "done"
    BY OutputEnds DEF Next, NoSeekInv
  <2> QED BY <2>1 DEF CountOK
<1>2. /\ IInv /\ outData \in Seq(Frames) /\ Len(outData) \in Nat /\ frameCounter \in Nat
      /\ Played \in Nat /\ OutCap \in Nat \ {0} /\ ~exiting["lmc"]
  <2>1. IInv /\ outData \in Seq(Frames) /\ frameCounter \in Nat
    BY DEF NoSeekInv, IInv, Data, FramesOK, EventsOK
  <2>2. Len(outData) \in Nat /\ OutCap \in Nat \ {0}
    BY <2>1, PipelineAssumption
  <2> QED BY <1>1, <2>1, <2>2, PlayedNat DEF CalmOK
<1>3. /\ frameCounter + Once(at["lmc"] = "count") = Played + Len(outData)
      /\ outStart = Played % OutCap
      /\ at["lmc"] \in EarlyPlaces => frameCounter = 0
  BY <1>1 DEF CountOK
<1>4. ASSUME written' = written PROVE Played' = Played
  BY <1>4 DEF Played, Good
<1>5. ASSUME UNCHANGED <<outData, outStart, written, frameCounter>>,
             at'["lmc"] = at["lmc"]
      PROVE  CountOK'
  BY <1>3, <1>4, <1>5 DEF CountOK, Once
<1>6. CASE PmiNext
  <2>1. UNCHANGED <<outData, outStart, written, frameCounter>> /\ at'["lmc"] = at["lmc"]
    BY <1>2, <1>6, PmiSteps DEF outVars, lmcVars, pmoVars
  <2> QED BY <1>5, <2>1
<1>7. CASE CardPlays
  <2>1. UNCHANGED <<outData, outStart, written, frameCounter, at>>
    BY <1>7 DEF CardPlays, pmoUnchanged, unitVars, outVars, lmcVars
  <2> QED BY <1>5, <2>1
<1>8. CASE CtlNext \/ CtlBegins
  <2>1. UNCHANGED <<outData, outStart, written, frameCounter, at>>
    BY <1>1, <1>2, <1>8, CtlSteps DEF outVars, lmcVars
  <2> QED BY <1>5, <2>1
<1>9. CASE LmcNext
  <2>1. /\ written' = written /\ outStart' = outStart /\ inEos' = inEos
        /\ \/ LmcPasses \/ LmcPostsInit \/ LmcPostsTime \/ LmcPostsQuit
           \/ LmcQueues \/ LmcCounts
    BY <1>2, <1>9, LmcSteps DEF pmoVars
  <2>2. Played' = Played
    BY <1>4, <2>1
  <2>3. CASE LmcPasses
    <3>1. at["lmc"] = "hang" => inEos
      BY <1>1 DEF EndOK, AllRead
    <3>2. /\ UNCHANGED <<outData, frameCounter>> /\ at["lmc"] # "count" /\ at'["lmc"] # "count"
          /\ at'["lmc"] \in EarlyPlaces => at["lmc"] \in EarlyPlaces
      BY <2>3, <3>1 DEF LmcPasses, Onward, EarlyPlaces, Unposted
    <3> QED BY <1>3, <2>1, <2>2, <3>2 DEF CountOK, Once
  <2>4. CASE LmcPostsInit
    <3>1. at["lmc"] = "postInit" /\ at'["lmc"] = "post" /\ outData' = outData /\ frameCounter' = 0
      BY <2>4 DEF LmcPostsInit
    <3>2. frameCounter = 0
      BY <1>3, <3>1 DEF EarlyPlaces
    <3> QED BY <1>3, <2>1, <2>2, <3>1, <3>2 DEF CountOK, Once
  <2>5. CASE LmcPostsTime \/ LmcPostsQuit
    <3>1. /\ UNCHANGED <<outData, frameCounter>> /\ at["lmc"] # "count" /\ at'["lmc"] # "count"
          /\ at'["lmc"] \notin EarlyPlaces
      BY <2>5 DEF LmcPostsTime, LmcPostsQuit, EarlyPlaces
    <3> QED BY <1>3, <2>1, <2>2, <3>1 DEF CountOK, Once
  <2>6. CASE LmcQueues
    <3>1. /\ at["lmc"] = "endWrite" /\ at'["lmc"] = "count" /\ outData' = Append(outData, decoded)
          /\ frameCounter' = frameCounter
      BY <2>6 DEF LmcQueues
    <3>2. decoded \in Frames
      BY <1>2, <3>1 DEF IInv, Data, ContentsOK
    <3>3. Len(outData') = Len(outData) + 1
      BY <1>2, <3>1, <3>2
    <3>4. frameCounter = Played + Len(outData)
      BY <1>2, <1>3, <3>1 DEF Once
    <3>5. frameCounter + 1 = Played + (Len(outData) + 1)
      BY <1>2, <3>4
    <3> QED BY <1>3, <2>1, <2>2, <3>1, <3>3, <3>5 DEF CountOK, Once, EarlyPlaces
  <2>7. CASE LmcCounts
    <3>1. /\ at["lmc"] = "count" /\ at'["lmc"] = "post" /\ outData' = outData
          /\ frameCounter' = frameCounter + 1
      BY <2>7 DEF LmcCounts
    <3>2. frameCounter + 1 = Played + Len(outData) /\ (frameCounter + 1) + 0 = frameCounter + 1
      BY <1>2, <1>3, <3>1 DEF Once
    <3> QED BY <1>3, <2>1, <2>2, <3>1, <3>2 DEF CountOK, Once, EarlyPlaces
  <2> QED BY <2>1, <2>3, <2>4, <2>5, <2>6, <2>7
<1>10. CASE PmoNext
  <2>1. /\ frameCounter' = frameCounter /\ at'["lmc"] = at["lmc"]
        /\ PmoPasses \/ PmoPops \/ PmoReports \/ PmoPlays
    BY <1>2, <1>10, PmoSteps DEF lmcVars
  <2>2. CASE PmoPasses \/ PmoPops
    <3>1. UNCHANGED <<outData, outStart, written>>
      BY <2>2 DEF PmoPasses, PmoPops
    <3> QED BY <1>5, <2>1, <3>1
  <2>3. CASE PmoReports
    BY <2>3 DEF PmoReports, CountOK
  <2>4. CASE PmoPlays
    <3>1. /\ outData # <<>> /\ outData' = Tail(outData) /\ outStart' = (outStart + 1) % OutCap
          /\ written' = Head(outData)
      BY <2>4 DEF PmoPlays
    <3>2. Follows(written, Head(outData).num)
      BY <1>1, <3>1, HeadIsNext DEF NoSeekInv
    <3>3. Cardinality({g \in Good : g <= Head(outData).num}) = Played + 1
      BY <1>2, <3>2, PlayedNext DEF IInv, Data
    <3>4. Played' = Played + 1
      BY <3>1, <3>3 DEF Played, Good
    <3>5. Len(outData') = Len(outData) - 1
      BY <1>2, <3>1
    <3>6. Played + Len(outData) = (Played + 1) + (Len(outData) - 1)
      BY <1>2
    <3>7. outStart' = (Played + 1) % OutCap
      BY <1>2, <1>3, <3>1, WrapSum
    <3> QED BY <1>3, <2>1, <3>4, <3>5, <3>6, <3>7 DEF CountOK, Once
  <2> QED BY <2>1, <2>2, <2>3, <2>4
<1> QED BY <1>6, <1>7, <1>8, <1>9, <1>10 DEF Next

\* The input thread comes to the end of the file before it says so.
LEMMA PmiEnd ==
  ASSUME IInv, at["pmo"] # "done", EndOK, PmiNext
  PROVE  /\ inEos' => filePos' = FileLen /\ at'["pmi"] \notin {"fread", "endWrite", "endShort", "setEos"}
         /\ at'["pmi"] \in {"endShort", "setEos"} => filePos' = FileLen
         /\ inEos => inEos' /\ inData' = inData
<1>. USE UnitNames, Arrives DEF IInv, PlacesOf, PmiPlaces
<1>1. /\ inEos => filePos = FileLen /\ at["pmi"] \notin {"fread", "endWrite", "endShort", "setEos"}
      /\ at["pmi"] \in {"endShort", "setEos"} => filePos = FileLen
      /\ filePos \in 0 .. FileLen /\ inEos \in BOOLEAN
  BY DEF EndOK, Data, FramesOK
<1>2. CASE PmiStart \/ PmiTop \/ PmiWaits
  <2>1. at'["pmi"] \in {"top", "done", "waitPause", "begin"}
    BY <1>2 DEF PmiStart, PmiTop, PmiWaits
  <2>2. UNCHANGED <<inData, inEos, filePos>>
    BY <1>2 DEF PmiStart, PmiTop, PmiWaits, fileVars, inVars
  <2> QED BY <1>1, <2>1, <2>2
<1>3. CASE PmiBegin
  <2>1. at'["pmi"] \in {"fread", "sleep"} /\ (at'["pmi"] = "fread" => ~inEos)
    BY <1>3 DEF PmiBegin
  <2>2. UNCHANGED <<inData, inEos, filePos>>
    BY <1>3 DEF PmiBegin, fileVars
  <2> QED BY <1>1, <2>1, <2>2
<1>4. CASE PmiRead
  <2>1. PICK short \in BOOLEAN :
          /\ filePos < FileLen - 1 => ~short
          /\ Moves("pmi", "fread", IF short THEN "endShort" ELSE "endWrite")
          /\ IF filePos < FileLen THEN filePos' = filePos + 1 ELSE UNCHANGED filePos
    BY <1>4 DEF PmiRead
  <2>2. at["pmi"] = "fread" /\ at'["pmi"] \in {"endShort", "endWrite"}
        /\ (at'["pmi"] = "endShort" => short)
    BY <2>1
  <2>3. short => filePos' = FileLen
    <3>1. FileLen \in Nat /\ filePos \in Nat /\ filePos <= FileLen
      <4>1. FileLen \in Nat
        BY PipelineAssumption
      <4>2. filePos \in 0 .. FileLen
        BY <1>1
      <4> QED BY <4>1, <4>2
    <3>2. CASE filePos < FileLen
      BY <2>1, <3>1, <3>2
    <3>3. CASE ~(filePos < FileLen)
      BY <2>1, <3>1, <3>3
    <3> QED BY <3>2, <3>3
  <2>4. UNCHANGED <<inData, inEos>>
    BY <1>4 DEF PmiRead, inVars
  <2> QED BY <1>1, <2>2, <2>3, <2>4
<1>5. CASE PmiEndWrite
  <2>1. /\ at["pmi"] \in {"endWrite", "endShort"}
        /\ at'["pmi"] = "top" \/ (at["pmi"] = "endShort" /\ at'["pmi"] = "setEos")
    BY <1>5 DEF PmiEndWrite
  <2>2. UNCHANGED <<inEos, filePos>>
    BY <1>5 DEF PmiEndWrite
  <2> QED BY <1>1, <2>1, <2>2
<1>6. CASE PmiSetEos
  <2>1. at["pmi"] = "setEos" /\ at'["pmi"] = "top"
    BY <1>6 DEF PmiSetEos
  <2>2. UNCHANGED <<inData, filePos>>
    BY <1>6 DEF PmiSetEos, fileVars
  <2> QED BY <1>1, <2>1, <2>2
<1> QED BY <1>2, <1>3, <1>4, <1>5, <1>6 DEF PmiNext

\* What the decoder asks for is chosen by its two looks, and stays until it is
\* granted or the stream ends.
LEMMA NextWant ==
  ASSUME MaxSeeks = 0, MaxPauses = 0, NoSeekInv, CalmOK, EndOK, WantOK, Next
  PROVE  WantOK'
<1>1. SUFFICES ASSUME at["pmo"] # "done" PROVE WantOK'
  <2>1. at["pmo"] = "done" => at'["pmo"] = "done"
    BY OutputEnds DEF Next, NoSeekInv
  <2> QED BY <2>1 DEF WantOK
<1>2. IInv /\ WayOK
  BY DEF NoSeekInv
<1>3. ASSUME want' = want, at'["lmc"] = at["lmc"], inEos => inEos' /\ inData' = inData
      PROVE  WantOK'
  BY <1>1, <1>3 DEF WantOK
<1>4. CASE PmiNext
  <2>1. want' = want /\ at'["lmc"] = at["lmc"]
    BY <1>2, <1>4, PmiSteps DEF lmcVars
  <2>2. inEos => inEos' /\ inData' = inData
    BY <1>1, <1>2, <1>4, PmiEnd
  <2> QED BY <1>3, <2>1, <2>2
<1>5. CASE CardPlays
  <2>1. UNCHANGED <<inEos, inData, want, at>>
    BY <1>5 DEF CardPlays, pmoUnchanged, unitVars, inVars, lmcVars
  <2> QED BY <1>3, <2>1
<1>6. CASE CtlNext \/ CtlBegins
  <2>1. UNCHANGED <<inEos, inData, want, at>>
    BY <1>1, <1>2, <1>6, CtlSteps DEF inVars, lmcVars
  <2> QED BY <1>3, <2>1
<1>7. CASE PmoNext
  <2>1. UNCHANGED <<inEos, inData, want>> /\ at'["lmc"] = at["lmc"]
    BY <1>2, <1>7, PmoSteps DEF inVars, lmcVars
  <2> QED BY <1>3, <2>1
<1>8. CASE LmcNext
  <2> USE UnitNames, Arrives DEF IInv, PlacesOf, LmcPlaces
  <2>1. CASE LmcSize
    <3>1. \/ at'["lmc"] = "sizeEos"
          \/ want' = ReadAhead
          \/ want' = Len(inData) /\ inEos
      BY <1>2, <2>1 DEF LmcSize
    <3>2. UNCHANGED <<inData, inEos>>
      BY <2>1 DEF LmcSize, inVars
    <3>3. ReadAhead <= ReadAhead /\ Len(inData) <= Len(inData)
      <4>1. inData \in Seq(Frames)
        BY <1>2 DEF Data, FramesOK
      <4>2. ReadAhead \in Nat
        BY PipelineAssumption
      <4> QED BY <4>1, <4>2
    <3> QED BY <3>1, <3>2, <3>3 DEF WantOK
  <2>2. CASE LmcRead
    <3>1. at["lmc"] = "read" /\ UNCHANGED <<want, inData, inEos>>
      BY <2>2 DEF LmcRead, Moves, MovesAndWakesPmi
    <3> QED BY <1>1, <3>1 DEF WantOK
  <2>3. CASE LmcWaits
    <3>1. at'["lmc"] = "read" => at["lmc"] = "sleepRead"
      BY <1>2, <2>3 DEF LmcWaits
    <3>2. at'["lmc"] # "sleepRead"
      BY <1>2, <2>3 DEF LmcWaits
    <3>3. UNCHANGED <<want, inData, inEos>>
      BY <2>3 DEF LmcWaits, inVars, lmcVars
    <3> QED BY <1>1, <3>1, <3>2, <3>3 DEF WantOK
  <2>4. CASE LmcStart \/ LmcCanDecode \/ LmcPostInit \/ LmcPost \/ LmcTop \/ LmcPostQuit
    <3>1. at'["lmc"] \notin {"read", "sleepRead"}
      BY <1>2, <2>4 DEF LmcStart, LmcCanDecode, LmcPostInit, LmcPost, LmcTop, LmcPostQuit,
         Moves, MovesAndWakesPmi
    <3> QED BY <3>1 DEF WantOK
  <2>5. CASE LmcHang \/ LmcWrite \/ LmcDecode \/ LmcEndWrite \/ LmcCount \/ LmcAdvance
    <3>1. at'["lmc"] \notin {"read", "sleepRead"}
      BY <1>2, <2>5 DEF LmcHang, LmcWrite, LmcDecode, LmcEndWrite, LmcCount, LmcAdvance,
         Moves, MovesAndWakesPmi
    <3> QED BY <3>1 DEF WantOK
  <2> QED BY <1>8, <2>1, <2>2, <2>3, <2>4, <2>5 DEF LmcNext
<1> QED BY <1>4, <1>5, <1>6, <1>7, <1>8 DEF Next

LEMMA NextEnd ==
  ASSUME MaxSeeks = 0, MaxPauses = 0, NoSeekInv, CalmOK, WantOK, EndOK, Next
  PROVE  EndOK'
<1>1. SUFFICES ASSUME at["pmo"] # "done" PROVE EndOK'
  <2>1. at["pmo"] = "done" => at'["pmo"] = "done"
    BY OutputEnds DEF Next, NoSeekInv
  <2> QED BY <2>1 DEF EndOK
<1>2. /\ IInv /\ WayOK /\ inData \in Seq(Frames) /\ events \in Seq(EventRecords) /\ ~exiting["lmc"]
  BY <1>1 DEF NoSeekInv, IInv, Data, FramesOK, EventsOK, CalmOK
<1>3. ASSUME inData' = inData, inEos => inEos', AllRead PROVE AllRead'
  BY <1>3 DEF AllRead
<1>4. ASSUME UNCHANGED <<filePos, inEos, inData>>, at'["pmi"] = at["pmi"], at'["lmc"] = at["lmc"],
             "quit" \in Kinds(events)' => "quit" \in Kinds(events)
      PROVE  EndOK'
  BY <1>1, <1>3, <1>4 DEF EndOK
<1>5. CASE PmiNext
  <2>1. UNCHANGED events /\ at'["lmc"] = at["lmc"]
    BY <1>2, <1>5, PmiSteps DEF outVars
  <2>2. Kinds(events)' = Kinds(events)
    BY <2>1 DEF Kinds
  <2>3. /\ inEos' => filePos' = FileLen /\ at'["pmi"] \notin {"fread", "endWrite", "endShort", "setEos"}
        /\ at'["pmi"] \in {"endShort", "setEos"} => filePos' = FileLen
        /\ inEos => inEos' /\ inData' = inData
    BY <1>1, <1>2, <1>5, PmiEnd
  <2>4. AllRead => AllRead'
    BY <1>3, <2>3 DEF AllRead
  <2> QED BY <1>1, <2>1, <2>2, <2>3, <2>4 DEF EndOK
<1>6. CASE CardPlays
  <2>1. UNCHANGED <<filePos, inEos, inData, events, at>>
    BY <1>6 DEF CardPlays, pmoUnchanged, unitVars, outVars, inVars, fileVars
  <2> QED BY <1>4, <2>1 DEF Kinds
<1>7. CASE CtlNext \/ CtlBegins
  <2>1. UNCHANGED <<filePos, inEos, inData, events, at>>
    BY <1>1, <1>2, <1>7, CtlSteps DEF outVars, inVars, fileVars
  <2> QED BY <1>4, <2>1 DEF Kinds
<1>8. CASE PmoNext
  <2>1. /\ UNCHANGED <<filePos, inEos, inData>> /\ at'["lmc"] = at["lmc"] /\ at'["pmi"] = at["pmi"]
        /\ PmoPasses \/ PmoPops \/ PmoReports \/ PmoPlays
    BY <1>2, <1>8, PmoSteps DEF inVars, fileVars
  <2>2. CASE PmoReports
    BY <2>2 DEF PmoReports, EndOK
  <2>3. CASE events' = events
    BY <1>4, <2>1, <2>3 DEF Kinds
  <2>4. CASE events # <<>> /\ events' = Tail(events)
    <3>1. ASSUME "quit" \in Kinds(Tail(events)) PROVE "quit" \in Kinds(events)
      <4>1. PICK i \in 1 .. Len(Tail(events)) : Tail(events)[i].kind = "quit"
        BY <3>1 DEF Kinds
      <4>2. i + 1 \in 1 .. Len(events) /\ Tail(events)[i] = events[i + 1]
        BY <1>2, <2>4
      <4> QED BY <4>1, <4>2 DEF Kinds
    <3>2. Kinds(events)' = Kinds(Tail(events))
      BY <2>4 DEF Kinds
    <3> QED BY <1>4, <2>1, <3>1, <3>2
  <2> QED BY <2>1, <2>2, <2>3, <2>4 DEF PmoPasses, PmoPops, PmoPlays
<1>9. CASE LmcNext
  <2>1. /\ UNCHANGED <<filePos, inEos>> /\ at'["pmi"] = at["pmi"] /\ at["lmc"] # "done"
        /\ \/ LmcPasses \/ LmcPostsInit \/ LmcPostsTime \/ LmcPostsQuit
           \/ LmcQueues \/ LmcCounts
    BY <1>2, <1>9, LmcSteps DEF fileVars
  <2>2. ASSUME at'["lmc"] \in {"postQuit", "hang", "sleepHang"} => AllRead',
               "quit" \in Kinds(events)' => AllRead' /\ at'["lmc"] \in {"hang", "sleepHang", "done"}
        PROVE  EndOK'
    BY <1>1, <2>1, <2>2 DEF EndOK
  <2>3. "quit" \in Kinds(events) => AllRead /\ at["lmc"] \in {"hang", "sleepHang"}
    BY <1>1, <2>1 DEF EndOK
  <2>4. at["lmc"] \in {"postQuit", "hang", "sleepHang"} => AllRead
    BY <1>1 DEF EndOK
  <2>5. CASE LmcPasses
    <3>1. Kinds(events)' = Kinds(events)
      BY <2>5 DEF LmcPasses, Kinds
    <3>2. CASE at["lmc"] \in {"hang", "sleepHang"}
      <4>1. AllRead /\ inData' = inData /\ at'["lmc"] \in {"hang", "sleepHang"}
        BY <2>4, <2>5, <3>2 DEF LmcPasses, AllRead
      <4>2. AllRead'
        BY <1>3, <2>1, <4>1
      <4> QED BY <2>2, <4>1, <4>2
    <3>3. CASE at["lmc"] \notin {"hang", "sleepHang"}
      <4>1. at'["lmc"] \notin {"hang", "sleepHang"} /\ "quit" \notin Kinds(events)'
        BY <2>3, <2>5, <3>1, <3>3 DEF LmcPasses
      <4>2. at'["lmc"] = "postQuit" => AllRead'
        <5> SUFFICES ASSUME at'["lmc"] = "postQuit" PROVE AllRead'
          OBVIOUS
        <5>1. at["lmc"] = "read" /\ inEos /\ ~(Len(inData) >= want) /\ inData' = inData
          BY <2>5 DEF LmcPasses
        <5>2. want <= ReadAhead \/ want <= Len(inData)
          BY <1>1, <5>1 DEF WantOK
        <5>3. Len(inData) < ReadAhead
          <6>1. Len(inData) \in Nat /\ want \in Nat /\ ReadAhead \in Nat
            BY <1>2, PipelineAssumption DEF IInv, Data, ReadSizeOK
          <6> QED BY <5>1, <5>2, <6>1
        <5> QED BY <1>3, <2>1, <5>1, <5>3 DEF AllRead
      <4> QED BY <2>2, <4>1, <4>2
    <3> QED BY <3>2, <3>3
  <2>6. CASE LmcPostsInit \/ LmcPostsTime
    <3>1. /\ at["lmc"] \in {"postInit", "post"} /\ at'["lmc"] \in {"post", "top"}
          /\ \E e : events' = Append(events, e) /\ e.kind # "quit"
      BY <2>6 DEF LmcPostsInit, LmcPostsTime, Event
    <3>2. "quit" \notin Kinds(events)
      BY <2>3, <3>1
    <3>3. "quit" \notin Kinds(events)'
      <4>1. PICK e : events' = Append(events, e) /\ e.kind # "quit"
        BY <3>1
      <4>2. /\ Len(events') = Len(events) + 1 /\ events'[Len(events) + 1] = e
            /\ \A i \in 1 .. Len(events) : events'[i] = events[i]
        BY <1>2, <4>1
      <4>3. \A i \in 1 .. Len(events') : i = Len(events) + 1 \/ i \in 1 .. Len(events)
        BY <1>2, <4>2
      <4> QED BY <3>2, <4>1, <4>2, <4>3 DEF Kinds
    <3> QED BY <2>2, <3>1, <3>3
  <2>7. CASE LmcPostsQuit
    <3>1. AllRead
      <4>1. CASE at["lmc"] = "postQuit"
        BY <2>4, <4>1
      <4> QED BY <2>7, <4>1 DEF LmcPostsQuit
    <3>2. AllRead' /\ at'["lmc"] \in {"hang", "done"}
      BY <1>3, <2>1, <2>7, <3>1 DEF LmcPostsQuit
    <3> QED BY <2>2, <3>2
  <2>8. CASE LmcQueues \/ LmcCounts
    <3>1. /\ at["lmc"] \in {"endWrite", "count"} /\ at'["lmc"] \in {"post", "count"}
          /\ Kinds(events)' = Kinds(events)
      BY <2>8 DEF LmcQueues, LmcCounts, Kinds
    <3> QED BY <2>2, <2>3, <3>1
  <2> QED BY <2>1, <2>5, <2>6, <2>7, <2>8
<1> QED BY <1>5, <1>6, <1>7, <1>8, <1>9 DEF Next

LEMMA Numbers ==
  ASSUME IInv
  PROVE  /\ events \in Seq(EventRecords) /\ Len(events) \in Nat /\ frameCounter \in Nat
         /\ outData \in Seq(Frames) /\ Len(outData) \in Nat /\ Played \in Nat
         /\ Upcoming \in Nat /\ Due \in Int /\ opened \in BOOLEAN
         /\ outStart \in 0 .. OutCap - 1 /\ OutCap \in Nat \ {0}
<1>1. /\ events \in Seq(EventRecords) /\ frameCounter \in Nat /\ outData \in Seq(Frames)
      /\ opened \in BOOLEAN /\ outStart \in 0 .. OutCap - 1
  BY DEF IInv, Data, FramesOK, EventsOK, CardOK
<1>2. Len(events) \in Nat /\ Len(outData) \in Nat
  BY <1>1
<1>3. Upcoming \in Nat
  BY <1>1 DEF Upcoming, Once
<1>4. Due \in Int
  <2>1. PICK u \in Nat : u = Upcoming
    BY <1>3
  <2>2. PICK n \in Nat : n = Len(events)
    BY <1>2
  <2> QED BY <2>1, <2>2 DEF Due
<1>5. OutCap \in Nat \ {0}
  BY PipelineAssumption
<1> QED BY <1>1, <1>2, <1>3, <1>4, <1>5, PlayedNat

LEMMA DueSame ==
  ASSUME events' = events,
         frameCounter' + Once(at'["lmc"] \notin Unposted) = frameCounter + Once(at["lmc"] \notin Unposted)
  PROVE  Due' = Due
BY DEF Due, Upcoming, Kinds

\* The number of the next event stays, and so does the event if there is one.
NextStays == Due' = Due /\ (events # <<>> => events' # <<>> /\ Head(events') = Head(events))

\* An event at the end of the queue announces the frame the decoder comes to.
LEMMA LmcEvents ==
  ASSUME IInv, at["pmo"] # "done", ~exiting["lmc"], CountOK, EndOK, QueueOK, Live, LmcNext
  PROVE  QueueOK' /\ (opened => NextStays)
<1>1. /\ opened' = opened /\ outStart' = outStart /\ at["lmc"] # "done"
      /\ LmcPasses \/ LmcPostsInit \/ LmcPostsTime \/ LmcPostsQuit \/ LmcQueues \/ LmcCounts
  BY LmcSteps DEF pmoVars
<1>2. /\ Queued(events, Due, opened)
      /\ at["lmc"] \in EarlyPlaces => events = <<>> /\ ~opened
      /\ at["lmc"] \notin EarlyPlaces => opened \/ events # <<>>
  BY <1>1 DEF QueueOK
<1>3. PICK n \in Nat : n = Len(events)
  BY Numbers
<1>4. ASSUME events' = events, Due' = Due, at'["lmc"] \notin EarlyPlaces, opened \/ events # <<>>
      PROVE  QueueOK' /\ NextStays
  BY <1>1, <1>2, <1>4 DEF QueueOK, NextStays
<1>5. CASE LmcPasses
  <2>1. events' = events /\ frameCounter' = frameCounter
    BY <1>5 DEF LmcPasses
  <2>2. CASE at["lmc"] \in EarlyPlaces /\ at'["lmc"] \in EarlyPlaces
    <3>1. at["lmc"] \in Unposted /\ at'["lmc"] \in Unposted
      BY <2>2 DEF Unposted
    <3>2. Due' = Due
      BY <2>1, <3>1, DueSame DEF Once
    <3> QED BY <1>1, <1>2, <2>1, <2>2, <3>2 DEF QueueOK
  <2>3. CASE at["lmc"] \in EarlyPlaces /\ at'["lmc"] = "done"
    <3>1. events' = <<>> /\ ~opened'
      BY <1>1, <1>2, <2>1, <2>3
    <3>2. Queued(events', Due', opened')
      BY <3>1 DEF Queued
    <3> QED BY <1>1, <2>3, <3>1, <3>2 DEF QueueOK, EarlyPlaces
  <2>4. CASE at["lmc"] \in Onward /\ at'["lmc"] \in Onward
    <3>1. at["lmc"] \notin Unposted /\ at'["lmc"] \notin Unposted /\ at["lmc"] \notin EarlyPlaces
          /\ at'["lmc"] \notin EarlyPlaces
      BY <2>4 DEF Unposted, Onward
    <3>2. Due' = Due
      BY <2>1, <3>1, DueSame DEF Once
    <3> QED BY <1>2, <1>4, <2>1, <3>1, <3>2
  <2>5. CASE at["lmc"] = "hang" /\ ~inEos
    BY <2>5 DEF EndOK, AllRead
  <2> QED BY <1>5, <2>2, <2>3, <2>4, <2>5 DEF LmcPasses
<1>6. CASE LmcPostsInit
  <2>1. /\ at["lmc"] = "postInit" /\ at'["lmc"] = "post" /\ frameCounter' = 0
        /\ events' = Append(events, Event("init", 0))
    BY <1>6 DEF LmcPostsInit
  <2>2. events = <<>> /\ ~opened
    BY <1>2, <2>1 DEF EarlyPlaces
  <2>3. Event("init", 0) \in EventRecords /\ Event("init", 0).kind = "init"
    BY Numbers DEF Event, EventRecords
  <2>4. /\ Queued(events', -1, FALSE) /\ Len(events') = 1 /\ "quit" \notin Kinds(events')
        /\ events' # <<>>
    BY <2>1, <2>2, <2>3, FirstQueued
  <2>5. Due' = -1
    <3>1. Upcoming' = 0
      BY <2>1, <2>4 DEF Upcoming, Once, Unposted, Kinds
    <3> QED BY <2>4, <3>1 DEF Due
  <2>6. opened' = FALSE
    BY <1>1, <2>2, Numbers
  <2>7. Queued(events', Due', opened')
    BY <2>4, <2>5, <2>6
  <2> QED BY <2>1, <2>2, <2>4, <2>7 DEF QueueOK, EarlyPlaces
<1>7. ASSUME NEW e, e \in EventRecords, events' = Append(events, e), "quit" \notin Kinds(events),
             opened \/ events # <<>>, e.kind # "init",
             e.kind = "time" => e.num = Due + n /\ e.idx = e.num % OutCap,
             frameCounter' + Once(at'["lmc"] \notin Unposted) + Once(e.kind = "quit")
               = frameCounter + Once(at["lmc"] \notin Unposted) + 1,
             at'["lmc"] \notin EarlyPlaces
      PROVE  QueueOK' /\ NextStays
  <2>1. /\ Queued(events', Due, opened) /\ Len(events') = n + 1
        /\ "quit" \in Kinds(events') <=> e.kind = "quit"
    BY <1>2, <1>3, <1>7, Numbers, AppendQueued
  <2>2. Due' = Due
    <3>1. Upcoming' = frameCounter' + Once(at'["lmc"] \notin Unposted) + Once(e.kind = "quit")
      BY <2>1 DEF Upcoming, Once, Kinds
    <3>2. Upcoming = frameCounter + Once(at["lmc"] \notin Unposted)
      <4>1. Upcoming = frameCounter + Once(at["lmc"] \notin Unposted) + 0
        BY <1>7 DEF Upcoming, Once
      <4> QED BY <4>1, Numbers DEF Once
    <3>3. Upcoming' = Upcoming + 1
      BY <1>7, <3>1, <3>2
    <3>4. PICK u \in Nat : u = Upcoming
      BY Numbers
    <3>5. Due' = (u + 1) - (n + 1) /\ Due = u - n
      BY <1>3, <2>1, <3>3, <3>4 DEF Due
    <3> QED BY <3>5
  <2>3. events' # <<>> /\ (events # <<>> => Head(events') = Head(events))
    <3>1. events \in Seq(EventRecords)
      BY Numbers
    <3> QED BY <1>7, <3>1
  <2> QED BY <1>1, <1>7, <2>1, <2>2, <2>3 DEF QueueOK, NextStays
<1>8. CASE LmcPostsTime
  <2> DEFINE e == Event("time", frameCounter)
  <2>1. /\ at["lmc"] = "post" /\ at'["lmc"] = "top" /\ frameCounter' = frameCounter
        /\ events' = Append(events, e)
    BY <1>8 DEF LmcPostsTime
  <2>2. e \in EventRecords /\ e.kind = "time" /\ e.num = frameCounter
    BY Numbers DEF Event, EventRecords
  <2>3. e.idx = frameCounter % OutCap
    <3>1. e.idx = (outStart + Len(outData)) % OutCap
      BY DEF Event
    <3>2. frameCounter = Played + Len(outData) /\ outStart = Played % OutCap
      BY <2>1, Numbers DEF CountOK, Once
    <3> QED BY <3>1, <3>2, WrapSum, Numbers
  <2> HIDE DEF e
  <2>4. "quit" \notin Kinds(events)
    BY <2>1 DEF EndOK
  <2>5. frameCounter = Due + n
    <3>1. Upcoming = frameCounter + 0 + 0
      BY <2>1, <2>4 DEF Upcoming, Once, Unposted
    <3>2. PICK c \in Nat : c = frameCounter
      BY Numbers
    <3>3. Due = (c + 0 + 0) - n
      BY <1>3, <3>1, <3>2 DEF Due
    <3> QED BY <3>2, <3>3
  <2>6. /\ frameCounter' + Once(at'["lmc"] \notin Unposted) + Once(e.kind = "quit")
             = frameCounter + Once(at["lmc"] \notin Unposted) + 1
        /\ at["lmc"] \notin EarlyPlaces /\ at'["lmc"] \notin EarlyPlaces
    <3>1. /\ Once(at'["lmc"] \notin Unposted) = 1 /\ Once(e.kind = "quit") = 0
          /\ Once(at["lmc"] \notin Unposted) = 0
      BY <2>1, <2>2 DEF Once, Unposted, EarlyPlaces
    <3>2. at["lmc"] \notin EarlyPlaces /\ at'["lmc"] \notin EarlyPlaces
      BY <2>1 DEF EarlyPlaces
    <3> QED BY <2>1, <3>1, <3>2, Numbers
  <2> QED BY <1>2, <1>7, <2>1, <2>2, <2>3, <2>4, <2>5, <2>6
<1>9. CASE LmcPostsQuit
  <2> DEFINE e == Event("quit", 0)
  <2>1. /\ at["lmc"] \in {"postQuit", "advance"} /\ at'["lmc"] \in {"hang", "done"}
        /\ frameCounter' = frameCounter /\ events' = Append(events, e)
    BY <1>9 DEF LmcPostsQuit
  <2>2. e \in EventRecords /\ e.kind = "quit"
    BY Numbers DEF Event, EventRecords
  <2> HIDE DEF e
  <2>3. "quit" \notin Kinds(events)
    BY <2>1 DEF EndOK
  <2>4. /\ frameCounter' + Once(at'["lmc"] \notin Unposted) + Once(e.kind = "quit")
             = frameCounter + Once(at["lmc"] \notin Unposted) + 1
        /\ at["lmc"] \notin EarlyPlaces /\ at'["lmc"] \notin EarlyPlaces
    <3>1. /\ Once(at'["lmc"] \notin Unposted) = 1 /\ Once(e.kind = "quit") = 1
          /\ Once(at["lmc"] \notin Unposted) = 1
      BY <2>1, <2>2 DEF Once, Unposted, EarlyPlaces
    <3>2. at["lmc"] \notin EarlyPlaces /\ at'["lmc"] \notin EarlyPlaces
      BY <2>1 DEF EarlyPlaces
    <3> QED BY <2>1, <3>1, <3>2, Numbers
  <2> QED BY <1>2, <1>7, <2>1, <2>2, <2>3, <2>4
<1>10. CASE LmcQueues \/ LmcCounts
  <2>1. /\ events' = events
        /\ \/ at["lmc"] = "endWrite" /\ at'["lmc"] = "count" /\ frameCounter' = frameCounter
           \/ at["lmc"] = "count" /\ at'["lmc"] = "post" /\ frameCounter' = frameCounter + 1
    BY <1>10 DEF LmcQueues, LmcCounts
  <2>2. frameCounter' + Once(at'["lmc"] \notin Unposted) = frameCounter + Once(at["lmc"] \notin Unposted)
    BY <2>1, Numbers DEF Once, Unposted, EarlyPlaces
  <2>3. at["lmc"] \notin EarlyPlaces /\ at'["lmc"] \notin EarlyPlaces
    BY <2>1 DEF EarlyPlaces
  <2> QED BY <1>2, <1>4, <2>1, <2>2, <2>3, DueSame
<1> QED BY <1>1, <1>5, <1>6, <1>8, <1>9, <1>10

\* The output looks at the indices: whether the next event comes before the
\* next frame.
LEMMA TryDecides ==
  ASSUME OutCap >= 3, IInv, at["pmo"] # "done", CountOK, QueueOK, DueOK, Live, opened
  PROVE  /\ ~EventIsDue /\ outData # <<>> => Due > Played
         /\ EventIsDue /\ Head(events).kind = "time" => Due <= Played + 1
<1>1. /\ Queued(events, Due, opened) /\ Played <= Due /\ Due <= Played + 2
      /\ frameCounter + Once(at["lmc"] = "count") = Played + Len(outData)
      /\ outStart = Played % OutCap
  BY DEF QueueOK, DueOK, CountOK
<1>2. PICK n \in Nat, p \in Nat, l \in Nat, d \in Int :
        n = Len(events) /\ p = Played /\ l = Len(outData) /\ d = Due
  BY Numbers
<1>3. ASSUME events # <<>>
      PROVE  /\ Head(events) = events[1] /\ 1 \in 1 .. n
             /\ Head(events).kind \in {"init", "time", "quit"} /\ Head(events).kind # "init"
             /\ Head(events).kind = "quit" => n = 1 /\ "quit" \in Kinds(events)
             /\ Head(events).kind = "time" => Head(events).idx = d % OutCap
  <2>1. Head(events) = events[1] /\ 1 \in 1 .. Len(events) /\ Head(events) \in EventRecords
    BY <1>3, Numbers
  <2>2. /\ events[1].kind = "init" => ~opened
        /\ events[1].kind = "quit" => 1 = Len(events)
        /\ events[1].kind = "time" => events[1].num = Due + (1 - 1)
                                      /\ events[1].idx = events[1].num % OutCap
    BY <1>1, <2>1 DEF Queued
  <2>3. Due + (1 - 1) = d
    BY <1>2
  <2>4. events[1].kind = "quit" => "quit" \in Kinds(events)
    BY <2>1 DEF Kinds
  <2>5. Head(events).kind \in {"init", "time", "quit"}
    BY <2>1 DEF EventRecords
  <2> QED BY <1>2, <2>1, <2>2, <2>3, <2>4, <2>5
<1>4. ASSUME events # <<>>, Head(events).kind = "time"
      PROVE  (Head(events).idx - outStart) % OutCap = d - p
  <2>1. PICK k \in Nat : d = p + k /\ k = d - p
    BY <1>1, <1>2
  <2>2. OutCap \in Nat \ {0} /\ k < OutCap
    <3>1. PICK c \in Nat : c = OutCap /\ c >= 3
      BY Numbers
    <3>2. k < c
      BY <1>1, <1>2, <2>1, <3>1
    <3> QED BY <3>1, <3>2
  <2>3. (((p + k) % OutCap) - (p % OutCap)) % OutCap = k
    BY <2>2, WrapDifference
  <2> QED BY <1>1, <1>2, <1>3, <1>4, <2>1, <2>3
<1>5. EventIsDue /\ Head(events).kind = "time" => d <= p + 1
  <2> SUFFICES ASSUME EventIsDue, Head(events).kind = "time" PROVE d <= p + 1
    OBVIOUS
  <2>1. d - p \in {0, 1}
    BY <1>4 DEF EventIsDue
  <2> QED BY <1>2, <2>1
<1>6. ASSUME ~EventIsDue, outData # <<>> PROVE d > p
  <2>1. CASE events # <<>> /\ Head(events).kind = "time"
    <3>1. d - p # 0
      BY <1>4, <1>6, <2>1 DEF EventIsDue
    <3> QED BY <1>1, <1>2, <3>1
  <2>2. CASE events = <<>> \/ Head(events).kind = "quit"
    <3>1. l >= 1
      BY <1>2, <1>6, Numbers
    <3>2. PICK c \in Nat : c = frameCounter /\ c + Once(at["lmc"] \notin Unposted) >= p + l
      <4>1. PICK c \in Nat : c = frameCounter
        BY Numbers
      <4>2. CASE at["lmc"] = "count"
        BY <1>1, <1>2, <4>1, <4>2 DEF Once, Unposted, EarlyPlaces
      <4>3. CASE at["lmc"] # "count"
        BY <1>1, <1>2, <4>1, <4>3 DEF Once
      <4> QED BY <4>1, <4>2, <4>3
    <3>3. d >= c + Once(at["lmc"] \notin Unposted)
      <4>1. PICK b \in Nat : b = Once(at["lmc"] \notin Unposted)
        BY DEF Once
      <4>2. d = (c + b + Once("quit" \in Kinds(events))) - n
        BY <1>2, <3>2, <4>1 DEF Due, Upcoming
      <4>3. CASE events = <<>>
        <5>1. n = 0 /\ Kinds(events) = {}
          BY <1>2, <4>3 DEF Kinds
        <5> QED BY <4>1, <4>2, <5>1 DEF Once
      <4>4. CASE events # <<>> /\ Head(events).kind = "quit"
        <5>1. n = 1 /\ "quit" \in Kinds(events)
          BY <1>3, <4>4
        <5> QED BY <4>1, <4>2, <5>1 DEF Once
      <4> QED BY <2>2, <4>3, <4>4
    <3>4. PICK b \in Nat : b = Once(at["lmc"] \notin Unposted)
      BY DEF Once
    <3> QED BY <1>2, <3>1, <3>2, <3>3, <3>4
  <2> QED BY <1>3, <2>1, <2>2
<1> QED BY <1>2, <1>5, <1>6

\* The output takes the events in turn, and plays a frame when its event was
\* taken.
LEMMA PmoEvents ==
  ASSUME OutCap >= 3, NoSeekInv, OpenOK, CountOK, QueueOK, DueOK, Live, PmoNext, Live'
  PROVE  QueueOK' /\ DueOK'
<1>1. /\ IInv /\ at["pmo"] # "done" /\ UNCHANGED <<frameCounter, paused>>
      /\ at'["lmc"] = at["lmc"] /\ at'["pmo"] # "done"
      /\ PmoPasses \/ PmoPops \/ PmoPlays
  <2>1. IInv
    BY DEF NoSeekInv
  <2>2. ~PmoReports /\ at["pmo"] # "done" /\ at'["pmo"] # "done"
    BY DEF Live, PmoReports
  <2> QED BY <2>1, <2>2, PmoSteps DEF lmcVars
<1>2. PICK p \in Nat, d \in Int : p = Played /\ d = Due
  BY <1>1, Numbers
<1>3. /\ Queued(events, Due, opened)
      /\ at["lmc"] \in EarlyPlaces => events = <<>> /\ ~opened
      /\ ~opened /\ events = <<>> => at["lmc"] \in EarlyPlaces \cup {"done"}
  BY DEF QueueOK
<1>4. ASSUME UNCHANGED <<events, opened>> PROVE QueueOK' /\ Due' = Due
  <2>1. Due' = Due
    BY <1>1, <1>4, DueSame
  <2> QED BY <1>1, <1>3, <1>4, <2>1 DEF QueueOK
<1>5. CASE PmoPasses
  <2>1. UNCHANGED <<events, opened, written>>
    BY <1>5 DEF PmoPasses
  <2>2. QueueOK' /\ Due' = Due /\ Played' = Played
    BY <1>4, <2>1 DEF Played, Good
  <2>3. ASSUME opened PROVE Played <= Due /\ Due <= Played + 2
    BY <2>3 DEF DueOK
  <2>4. ASSUME opened, at'["pmo"] \in {"space", "write"} PROVE Due > Played
    <3>1. CASE at["pmo"] = "try" /\ ~EventIsDue /\ outData # <<>>
      BY <1>1, <2>4, <3>1, TryDecides
    <3>2. CASE at["pmo"] = "space"
      BY <2>4, <3>2 DEF DueOK
    <3> QED BY <1>5, <2>4, <3>1, <3>2 DEF PmoPasses
  <2>5. ASSUME opened, at'["pmo"] \in {"peek", "take"}
        PROVE  events # <<>> /\ (Head(events).kind = "time" => Due <= Played + 1)
    <3>1. CASE at["pmo"] = "try" /\ EventIsDue
      <4>1. events # <<>>
        BY <3>1 DEF EventIsDue
      <4> QED BY <1>1, <2>5, <3>1, <4>1, TryDecides
    <3>2. CASE at["pmo"] = "peek"
      BY <2>5, <3>2 DEF DueOK
    <3> QED BY <1>5, <2>5, <3>1, <3>2 DEF PmoPasses
  <2>6. at'["pmo"] = "drain" => events # <<>> /\ Head(events).kind = "quit"
    BY <1>5 DEF PmoPasses
  <2> QED BY <2>1, <2>2, <2>3, <2>4, <2>5, <2>6 DEF DueOK
<1>6. CASE PmoPops
  <2>1. /\ events # <<>> /\ events' = Tail(events) /\ written' = written
        /\ at'["pmo"] \in {"top", "try"}
    BY <1>1, <1>6 DEF PmoPops
  <2>2. /\ Head(events) = events[1] /\ 1 \in 1 .. Len(events) /\ events \in Seq(EventRecords)
        /\ Due \in Int /\ opened \in BOOLEAN
    BY <1>1, <2>1, Numbers
  <2>3. /\ Head(events).kind = "init" => Due = -1 /\ ~opened
        /\ ~opened => Head(events).kind = "init"
    BY <1>3, <2>1, <2>2 DEF Queued
  <2>4. at["pmo"] = "take" => Head(events).kind # "init"
    BY <2>3 DEF OpenOK
  <2>5. ~(at["pmo"] = "checkInit" /\ ~ready /\ Head(events).kind # "init" /\ at'["pmo"] = "top")
    BY <1>1, <2>3 DEF OpenOK, Live
  <2>6. /\ Head(events).kind # "quit" /\ opened' = TRUE
        /\ \/ Head(events).kind = "init" /\ at'["pmo"] = "top"
           \/ Head(events).kind = "time" /\ at["pmo"] = "take" /\ at'["pmo"] = "try" /\ opened
    BY <1>1, <1>6, <2>2, <2>3, <2>4, <2>5 DEF PmoPops
  <2>7. /\ Queued(events', Due + 1, TRUE) /\ Len(events') = Len(events) - 1
        /\ "quit" \in Kinds(events') <=> "quit" \in Kinds(events)
    <3>1. /\ Queued(Tail(events), Due + 1, TRUE) /\ Len(Tail(events)) = Len(events) - 1
          /\ "quit" \in Kinds(Tail(events)) <=> "quit" \in Kinds(events)
      <4>1. events \in Seq(EventRecords) /\ events # <<>> /\ Due \in Int /\ opened \in BOOLEAN
        BY <2>1, <2>2
      <4>2. Queued(events, Due, opened) /\ Head(events).kind # "quit"
        BY <1>3, <2>6
      <4> QED BY <4>1, <4>2, TailQueued
    <3> QED BY <2>1, <3>1
  <2>8. Due' = Due + 1
    <3>1. PICK n \in Nat : n = Len(events)
      BY <2>2
    <3>2. PICK u \in Nat : u = Upcoming
      BY <1>1, Numbers
    <3>3. Upcoming' = Upcoming
      BY <1>1, <2>7 DEF Upcoming, Once, Kinds
    <3>4. Due' = u - (n - 1) /\ Due = u - n
      BY <2>7, <3>1, <3>2, <3>3 DEF Due
    <3> QED BY <3>4
  <2>9. QueueOK'
    <3>1. Queued(events', Due', opened')
      BY <2>6, <2>7, <2>8
    <3>2. at'["lmc"] \notin EarlyPlaces
      BY <1>1, <1>3, <2>1
    <3> QED BY <2>6, <3>1, <3>2 DEF QueueOK
  <2>10. Played' = p
    BY <1>2, <2>1 DEF Played, Good
  <2>11. p <= d + 1 /\ d + 1 <= p + 2
    <3>1. CASE Head(events).kind = "init"
      <4>1. p = 0 /\ d = -1
        BY <1>2, <2>3, <3>1, NonePlayed DEF OpenOK
      <4> QED BY <4>1
    <3>2. CASE Head(events).kind = "time" /\ at["pmo"] = "take" /\ opened
      <4>1. Played <= Due /\ Due <= Played + 1
        BY <3>2 DEF DueOK
      <4> QED BY <1>2, <4>1
    <3> QED BY <2>6, <3>1, <3>2
  <2>12. DueOK'
    BY <1>2, <2>1, <2>8, <2>10, <2>11 DEF DueOK
  <2> QED BY <2>9, <2>12
<1>7. CASE PmoPlays
  <2>1. /\ at["pmo"] = "write" /\ at'["pmo"] = "top" /\ outData # <<>> /\ written' = Head(outData)
        /\ UNCHANGED <<events, opened>>
    BY <1>7 DEF PmoPlays
  <2>2. opened
    BY <2>1 DEF OpenOK
  <2>3. d > p /\ d <= p + 2
    BY <1>2, <2>1, <2>2 DEF DueOK
  <2>4. Follows(written, Head(outData).num)
    BY <1>1, <2>1, HeadIsNext DEF NoSeekInv
  <2>5. Cardinality({g \in Good : g <= Head(outData).num}) = Played + 1
    BY <1>1, <2>4, PlayedNext DEF IInv, Data
  <2>6. Played' = p + 1
    BY <1>2, <2>1, <2>5 DEF Played, Good
  <2>7. QueueOK' /\ Due' = d
    BY <1>2, <1>4, <2>1
  <2>8. p + 1 <= d /\ d <= (p + 1) + 2
    BY <2>3
  <2> QED BY <2>1, <2>6, <2>7, <2>8 DEF DueOK
<1> QED BY <1>1, <1>5, <1>6, <1>7

\* The number of the next event keeps between the frames played and two more.
LEMMA NextQueue ==
  ASSUME MaxSeeks = 0, MaxPauses = 0, OutCap >= 3, NoSeekInv, EventsInv, Next
  PROVE  QueueOK' /\ DueOK'
<1>1. SUFFICES ASSUME Live' PROVE QueueOK' /\ DueOK'
  BY DEF QueueOK, DueOK
<1>2. /\ IInv /\ CalmOK /\ OpenOK /\ CountOK /\ EndOK /\ QueueOK /\ DueOK
  BY DEF NoSeekInv, EventsInv
<1>3. ASSUME Live, UNCHANGED <<events, opened, frameCounter, written>>,
             at'["lmc"] = at["lmc"], at'["pmo"] = at["pmo"]
      PROVE  QueueOK' /\ DueOK'
  <2>1. Due' = Due /\ Played' = Played
    BY <1>3, DueSame DEF Played, Good
  <2> QED BY <1>2, <1>3, <2>1 DEF QueueOK, DueOK
<1>4. CASE PmiNext
  <2>1. UNCHANGED <<events, opened, frameCounter, written>> /\ at'["lmc"] = at["lmc"]
        /\ at'["pmo"] = at["pmo"]
    BY <1>2, <1>4, PmiSteps DEF outVars, lmcVars, pmoVars
  <2>2. Live
    BY <1>1, <1>2, <1>4, OnceLive
  <2> QED BY <1>3, <2>1, <2>2
<1>5. CASE CardPlays
  <2>1. UNCHANGED <<events, opened, frameCounter, written, at>>
    BY <1>5 DEF CardPlays, pmoUnchanged, unitVars, outVars, lmcVars
  <2>2. Live
    BY <1>1, <1>2, <1>5, OnceLive
  <2> QED BY <1>3, <2>1, <2>2
<1>6. CASE CtlNext \/ CtlBegins
  <2>1. at["pmo"] # "done"
    BY <1>1, <1>2, <1>6, OutputEnds DEF Live
  <2>2. UNCHANGED <<events, opened, frameCounter, written, at>> /\ (paused["pmo"] => paused'["pmo"])
    BY <1>2, <1>6, <2>1, CtlSteps DEF outVars, lmcVars
  <2>3. Live
    BY <1>1, <2>2 DEF Live
  <2> QED BY <1>3, <2>2, <2>3
<1>7. CASE LmcNext
  <2>1. Live
    BY <1>1, <1>2, <1>7, OnceLive
  <2>2. at["pmo"] # "done" /\ ~exiting["lmc"]
    BY <1>2, <2>1 DEF Live, CalmOK
  <2>3. QueueOK' /\ (opened => NextStays)
    BY <1>2, <1>7, <2>1, <2>2, LmcEvents
  <2>4. UNCHANGED <<opened, written>> /\ at'["pmo"] = at["pmo"]
    BY <1>2, <1>7, LmcSteps DEF pmoVars
  <2>5. Played' = Played
    BY <2>4 DEF Played, Good
  <2>6. ASSUME opened PROVE DueOK'
    BY <1>2, <2>1, <2>3, <2>4, <2>5, <2>6 DEF DueOK, NextStays
  <2>7. ASSUME ~opened PROVE DueOK'
    BY <2>4, <2>7 DEF DueOK
  <2> QED BY <2>3, <2>6, <2>7
<1>8. CASE PmoNext
  <2>1. Live
    BY <1>1, <1>2, <1>8, OnceLive
  <2> QED BY <1>1, <1>2, <1>8, <2>1, PmoEvents
<1> QED BY <1>4, <1>5, <1>6, <1>7, <1>8 DEF Next

\* No more numbers than frames.
LEMMA FewNumbers ==
  ASSUME NEW s \in Seq(Frames), NEW n \in Nat, n = Len(s)
  PROVE  /\ IsFiniteSet({f.num : f \in In(s)})
         /\ Cardinality({f.num : f \in In(s)}) <= n
<1> DEFINE T == {f.num : f \in In(s)}
           g == [i \in 1 .. n |-> s[i].num]
<1>1. IsFiniteSet(1 .. n) /\ Cardinality(1 .. n) = n
  <2>1. /\ IsFiniteSet(1 .. n)
        /\ Cardinality(1 .. n) = IF 1 > n THEN 0 ELSE n - 1 + 1
    <3>1. 1 \in Int /\ n \in Int
      OBVIOUS
    <3> HIDE DEF T, g
    <3> QED BY <3>1, FS_Interval
  <2> HIDE DEF T, g
  <2>2. (IF 1 > n THEN 0 ELSE n - 1 + 1) = n
    OBVIOUS
  <2> QED BY <2>1, <2>2
<1>2. g \in Surjection(1 .. n, T)
  <2>1. \A i \in 1 .. n : g[i] \in T
    BY DEF In
  <2>2. \A t \in T : \E i \in 1 .. n : g[i] = t
    BY DEF In
  <2>3. g \in [1 .. n -> T]
    BY <2>1
  <2> HIDE DEF g, T
  <2> QED BY <2>2, <2>3 DEF Surjection
<1> HIDE DEF g, T
<1>3. IsFiniteSet(T) /\ Cardinality(T) <= Cardinality(1 .. n)
  BY <1>1, <1>2, FS_Surjection
<1>4. Cardinality(T) <= n
  BY <1>1, <1>3
<1> QED BY <1>3, <1>4 DEF T

\* When the end of the track is reported, its event is the only one left.  Less
\* than two frames before it, at most one frame is left in the output buffer, and
\* less than a frame's greatest length in the input buffer.
LEMMA FewAreLeft ==
  ASSUME IInv, WayOK, OpenOK, CountOK, EndOK, QueueOK, DueOK, PmoReports
  PROVE  Cardinality({n \in Good : n > written.num}) <= ReadAhead
<1>1. /\ at["pmo"] # "done" /\ Live /\ opened /\ events # <<>> /\ Head(events).kind = "quit"
  BY DEF PmoReports, Live, OpenOK, DueOK
<1>2. /\ Queued(events, Due, opened) /\ Due <= Played + 2
      /\ frameCounter + Once(at["lmc"] = "count") = Played + Len(outData)
  BY <1>1 DEF QueueOK, DueOK, CountOK
<1>3. Len(events) = 1 /\ "quit" \in Kinds(events)
  <2>1. Head(events) = events[1] /\ 1 \in 1 .. Len(events)
    BY <1>1, Numbers
  <2> QED BY <1>1, <1>2, <2>1 DEF Queued, Kinds
<1>4. /\ AllRead /\ at["lmc"] \in {"hang", "sleepHang", "done"} /\ filePos = FileLen
      /\ at["pmi"] \notin {"endWrite", "endShort"}
  BY <1>1, <1>3 DEF EndOK, AllRead
<1>5. PICK l \in Nat : l = Len(outData) /\ l <= 1
  <2>1. PICK l \in Nat, p \in Nat, c \in Nat : l = Len(outData) /\ p = Played /\ c = frameCounter
    BY Numbers
  <2>2. c = p + l
    BY <1>2, <1>4, <2>1 DEF Once
  <2>3. Upcoming = c + 1 + 1
    BY <1>3, <1>4, <2>1 DEF Upcoming, Once, Unposted, EarlyPlaces
  <2>4. Due = (c + 1 + 1) - 1
    BY <1>3, <2>3 DEF Due
  <2>5. (c + 1 + 1) - 1 <= p + 2
    BY <1>2, <2>1, <2>4
  <2>6. l <= 1
    BY <2>2, <2>5
  <2> QED BY <2>1, <2>6
<1>6. ASSUME NEW g \in Good, g > written.num
      PROVE  \E f \in In(outData) \cup In(inData) : f.num = g
  <2>1. fetched = <<>> /\ Hand = {} /\ In(fetched) = {}
    <3>1. fetched = <<>> /\ Hand = {}
      BY <1>4 DEF IInv, Data, ContentsOK, Hand
    <3> QED BY <3>1, OneSorted
  <2>2. g < filePos /\ g \notin Corrupt
    <3>1. g \in 0 .. FileLen - 1 /\ FileLen \in Nat
      BY PipelineAssumption DEF Good
    <3> QED BY <1>4, <3>1 DEF Good
  <2> QED BY <1>1, <1>6, <2>1, <2>2 DEF WayOK
<1>7. PICK m \in Nat, r \in Nat : m = Len(inData) /\ r = ReadAhead /\ m < r
  <2>1. inData \in Seq(Frames)
    BY DEF IInv, Data, FramesOK
  <2>2. Len(inData) \in Nat
    BY <2>1
  <2>3. ReadAhead \in Nat
    BY PipelineAssumption
  <2> QED BY <1>4, <2>2, <2>3 DEF AllRead
<1> DEFINE S == {n \in Good : n > written.num}
           T == {f.num : f \in In(outData)}
           U == {f.num : f \in In(inData)}
<1>8. S \subseteq T \cup U
  BY <1>6
<1>9. /\ IsFiniteSet(T) /\ Cardinality(T) <= l
      /\ IsFiniteSet(U) /\ Cardinality(U) <= m
  BY <1>5, <1>7, FewNumbers DEF IInv, Data, FramesOK
<1> HIDE DEF S, T, U
<1>10. IsFiniteSet(T \cup U)
       /\ Cardinality(T \cup U) = Cardinality(T) + Cardinality(U) - Cardinality(T \cap U)
  BY <1>9, FS_Union
<1>11. Cardinality(S) <= Cardinality(T \cup U) /\ IsFiniteSet(S)
  BY <1>8, <1>10, FS_Subset
<1>12. /\ Cardinality(S) \in Nat /\ Cardinality(T) \in Nat /\ Cardinality(U) \in Nat
       /\ Cardinality(T \cap U) \in Nat
  <2>1. IsFiniteSet(T \cap U)
    BY <1>9, FS_Intersection
  <2> QED BY <1>9, <1>11, <2>1, FS_CardinalityType
<1>13. Cardinality(S) <= r
  BY <1>5, <1>7, <1>9, <1>10, <1>11, <1>12
<1> QED BY <1>7, <1>13 DEF S

LEMMA NextTold ==
  ASSUME NoSeekInv, EventsInv, Next
  PROVE  ToldOK'
<1>1. /\ IInv /\ WayOK /\ OpenOK /\ CountOK /\ EndOK /\ QueueOK /\ DueOK /\ ToldOK
  BY DEF NoSeekInv, EventsInv
<1>2. ASSUME written' = written, at'["pmo"] = at["pmo"], "done" \in told' => "done" \in told
      PROVE  ToldOK'
  BY <1>1, <1>2 DEF ToldOK, FewLeft, Good
<1>3. CASE PmiNext
  <2>1. written' = written /\ told' = told /\ at'["pmo"] = at["pmo"]
    BY <1>1, <1>3, PmiSteps DEF pmoVars
  <2> QED BY <1>2, <2>1
<1>4. CASE LmcNext
  <2>1. written' = written /\ at'["pmo"] = at["pmo"] /\ ("done" \in told' <=> "done" \in told)
    BY <1>1, <1>4, LmcSteps DEF pmoVars
  <2> QED BY <1>2, <2>1
<1>5. CASE CardPlays
  <2>1. written' = written /\ told' = told /\ at'["pmo"] = at["pmo"]
    BY <1>5 DEF CardPlays, unitVars
  <2> QED BY <1>2, <2>1
<1>6. CASE CtlNext \/ CtlBegins
  <2>1. at' = at /\ written' = written /\ told' = told
    <3>1. CASE ResetCard
      BY <3>1 DEF ResetCard, unitVars, Step
    <3>2. CASE ClearOutput \/ ClearInput \/ PositionFile \/ PositionDecoder \/ JoinUnit
      BY <3>2 DEF ClearOutput, ClearInput, PositionFile, PositionDecoder, JoinUnit, unitVars,
         pmoVars, Step
    <3>3. CASE PauseUnit \/ ResumeUnit \/ ExitUnit
      BY <3>3 DEF PauseUnit, ResumeUnit, ExitUnit, Pause, Resume, Exit, pmoVars, Step
    <3>4. CASE CtlBegins
      BY <3>4 DEF CtlBegins, BeginPause, BeginResume, BeginSeek, BeginDelete, Begins, unitVars,
         pmoVars
    <3> QED BY <1>6, <3>1, <3>2, <3>3, <3>4 DEF CtlNext
  <2> QED BY <1>2, <2>1
<1>7. CASE PmoNext
  <2>1. PmoPasses \/ PmoPops \/ PmoReports \/ PmoPlays
    BY <1>1, <1>7, PmoSteps
  <2>2. CASE PmoReports
    <3>1. Cardinality({n \in Good : n > written.num}) <= ReadAhead
      BY <1>1, <2>2, FewAreLeft
    <3>2. written' = written /\ at'["pmo"] = "done"
      BY <2>2 DEF PmoReports
    <3> QED BY <3>1, <3>2 DEF ToldOK, FewLeft, Good
  <2>3. CASE PmoPasses \/ PmoPops \/ PmoPlays
    <3>1. at["pmo"] # "done" /\ ("done" \in told' => "done" \in told)
      BY <2>3 DEF PmoPasses, PmoPops, PmoPlays
    <3>2. "done" \notin told'
      BY <1>1, <3>1 DEF ToldOK
    <3> QED BY <3>2 DEF ToldOK
  <2> QED BY <2>1, <2>2, <2>3
<1> QED BY <1>3, <1>4, <1>5, <1>6, <1>7 DEF Next

LEMMA NextEvents ==
  ASSUME MaxSeeks = 0, MaxPauses = 0, OutCap >= 3, EventInv, [Next]_vars
  PROVE  EventInv'
<1>1. NoSeekInv /\ EventsInv
  BY DEF EventInv
<1>2. NoSeekInv'
  BY <1>1, NextNoSeek
<1>3. CASE Next
  <2>1. CalmOK' /\ OpenOK'
    BY <1>1, <1>3, NextCalm, NextOpen DEF NoSeekInv, EventsInv
  <2>2. CountOK' /\ WantOK' /\ EndOK'
    BY <1>1, <1>3, NextCount, NextWant, NextEnd DEF EventsInv
  <2>3. QueueOK' /\ DueOK'
    BY <1>1, <1>3, NextQueue
  <2>4. ToldOK'
    BY <1>1, <1>3, NextTold
  <2> QED BY <1>2, <2>1, <2>2, <2>3, <2>4 DEF EventInv, EventsInv
<1>4. CASE UNCHANGED vars
  <2>1. UNCHANGED <<at, paused, exiting, filePos, inData, inEos, want, outData, outStart, events,
                    frameCounter, opened, ready, written, told, ctl>>
    BY <1>4 DEF vars, unitVars, fileVars, inVars, outVars, lmcVars, pmoVars, ctlVars
  <2>2. Played' = Played /\ Due' = Due /\ Kinds(events)' = Kinds(events) /\ (AllRead' <=> AllRead)
        /\ (Live' <=> Live)
    BY <2>1 DEF Played, Due, Upcoming, Kinds, AllRead, Live, Good
  <2>3. CalmOK' /\ OpenOK'
    BY <1>1, <2>1 DEF EventsInv, CalmOK, OpenOK, Preceded
  <2>4. CountOK' /\ WantOK' /\ EndOK'
    BY <1>1, <2>1, <2>2 DEF EventsInv, CountOK, WantOK, EndOK
  <2>5. QueueOK' /\ DueOK'
    BY <1>1, <2>1, <2>2 DEF EventsInv, QueueOK, DueOK
  <2>6. ToldOK'
    BY <1>1, <2>1 DEF EventsInv, ToldOK, FewLeft, Good
  <2> QED BY <1>2, <2>3, <2>4, <2>5, <2>6 DEF EventInv, EventsInv
<1> QED BY <1>3, <1>4

-----------------------------------------------------------------------------
(* Theorems                                                                   *)

\* For any file and any corrupt frames in it, with or without a stop, the next
\* event is never more than two frames ahead of what was played.
THEOREM EventInvariant ==
  ASSUME MaxSeeks = 0, MaxPauses = 0, OutCap >= 3
  PROVE  Spec => []EventInv
<1>1. Init => EventInv
  BY InitIInv, InitOrder, InitWay, InitEvents DEF EventInv, NoSeekInv
<1>2. EventInv /\ [Next]_vars => EventInv'
  BY NextEvents
<1> QED BY <1>1, <1>2, PTL DEF Spec

\* A time event is handled before the frame it announces is played, and not
\* more than one frame before: the comparison of indices that wrap around
\* (eventbuffer.cpp:64-76) decides right, whatever the buffer's size and the
\* speed of the decoder.
THEOREM EventsComeWithTheirFrames ==
  ASSUME MaxSeeks = 0, MaxPauses = 0, OutCap >= 3
  PROVE  Spec => []EventsNearFrame
<1>1. EventInv => EventsNearFrame
  <2> SUFFICES ASSUME EventInv PROVE EventsNearFrame
    OBVIOUS
  <2>1. /\ IInv /\ OrderOK /\ WayOK /\ OpenOK /\ QueueOK /\ DueOK
    BY DEF EventInv, NoSeekInv, EventsInv
  <2>2. ASSUME at["pmo"] # "done", outData # <<>>
        PROVE  Cardinality({g \in Good : g < Head(outData).num}) = Played
    <3>1. Follows(written, Head(outData).num)
      BY <2>1, <2>2, HeadIsNext
    <3>2. {g \in Good : g < Head(outData).num} = {g \in Good : g <= written.num}
      BY <2>1, <3>1, PlayedNext DEF IInv, Data
    <3> QED BY <3>2 DEF Played
  <2>3. ASSUME at["pmo"] \in {"write", "take"}
        PROVE  /\ Live /\ opened /\ at["pmo"] # "done"
               /\ \A i \in 1 .. Len(events) :
                    events[i].kind = "time" => events[i].num = Due + (i - 1)
    <3>1. Live /\ opened /\ at["pmo"] # "done"
      BY <2>1, <2>3 DEF Live, OpenOK
    <3> QED BY <2>1, <3>1 DEF QueueOK, Queued
  <2>4. PICK p \in Nat, d \in Int : p = Played /\ d = Due
    BY <2>1, Numbers
  <2>5. ASSUME at["pmo"] = "write", NEW i \in 1 .. Len(events), events[i].kind = "time"
        PROVE  events[i].num > Cardinality({g \in Good : g < Head(outData).num})
    <3>1. outData # <<>> /\ at["pmo"] # "done"
      BY <2>1, <2>5 DEF IInv, Data, ContentsOK
    <3>2. d > p
      BY <2>1, <2>3, <2>4, <2>5 DEF DueOK
    <3>3. events[i].num = d + (i - 1) /\ i \in Nat /\ i >= 1
      BY <2>1, <2>3, <2>4, <2>5, Numbers
    <3>4. events[i].num > p
      BY <3>2, <3>3
    <3> QED BY <2>2, <2>4, <3>1, <3>4
  <2>6. ASSUME at["pmo"] = "take", outData # <<>>, Head(events).kind = "time"
        PROVE  Head(events).num <= Cardinality({g \in Good : g < Head(outData).num}) + 1
    <3>1. events # <<>> /\ Due <= Played + 1
      BY <2>1, <2>3, <2>6 DEF DueOK
    <3>2. Head(events) = events[1] /\ 1 \in 1 .. Len(events)
      BY <2>1, <3>1, Numbers
    <3>3. Head(events).num = Due + (1 - 1)
      BY <2>3, <2>6, <3>2
    <3>4. Head(events).num <= p + 1
      BY <2>4, <3>1, <3>3
    <3> QED BY <2>2, <2>3, <2>4, <2>6, <3>4
  <2> QED BY <2>5, <2>6 DEF EventsNearFrame
<1> QED BY <1>1, EventInvariant, PTL

\* When the end of the track is reported, few good frames have not been given to
\* the card: one that the output holds back (eventbuffer.cpp:64-76) and those in
\* fewer bytes than a frame's greatest length (xinglmc.cpp:185, 862-869), which
\* the decoder gives up together.  No other is lost on its way.
THEOREM OnlyAFewAreLeft ==
  ASSUME MaxSeeks = 0, MaxPauses = 0, OutCap >= 3
  PROVE  Spec => []FewLeft
<1>1. EventInv => FewLeft
  BY DEF EventInv, EventsInv, ToldOK, FewLeft
<1> QED BY <1>1, EventInvariant, PTL

\* Between BeginRead and PeekEvent or GetEvent nothing takes the event away: the
\* output never reads the head of an empty queue (eventbuffer.cpp:122) while the
\* track is not positioned.
THEOREM NoReadOfAnEmptyQueue ==
  ASSUME MaxSeeks = 0, MaxPauses = 0, OutCap >= 3
  PROVE  Spec => []~Crashed
<1> DEFINE NotCrashed == EventInv /\ ~Crashed
<1>1. Init => NotCrashed
  <2>1. Init => EventInv
    BY InitIInv, InitOrder, InitWay, InitEvents DEF EventInv, NoSeekInv
  <2>2. Init => ~Crashed
    BY UnitNames DEF Init, Crashed
  <2> QED BY <2>1, <2>2
<1>2. NotCrashed /\ [Next]_vars => NotCrashed'
  <2> SUFFICES ASSUME EventInv, ~Crashed, [Next]_vars PROVE EventInv' /\ ~Crashed'
    OBVIOUS
  <2>1. EventInv'
    BY NextEvents
  <2>2. IInv /\ OpenOK /\ DueOK
    BY DEF EventInv, NoSeekInv, EventsInv
  <2>3. CASE PmoNext
    <3>1. PmoPasses \/ PmoPops \/ PmoReports \/ PmoPlays
      BY <2>2, <2>3, PmoSteps
    <3>2. at["pmo"] \in {"peek", "take"} => events # <<>>
      BY <2>2 DEF OpenOK, DueOK, Live
    <3> QED BY <2>1, <3>1, <3>2 DEF PmoPasses, PmoPops, PmoReports, PmoPlays, Crashed
  <2>4. CASE ~PmoNext
    <3>1. at'["pmo"] = at["pmo"]
      BY <2>2, <2>4, OutputEnds DEF Next
    <3> QED BY <2>1, <3>1 DEF Crashed
  <2> QED BY <2>3, <2>4
<1>3. NotCrashed => ~Crashed
  OBVIOUS
<1> QED BY <1>1, <1>2, <1>3, PTL DEF Spec
=============================================================================
