--------------------------- MODULE PipelineProofs ---------------------------
(***************************************************************************)
(* Proofs about Pipeline, for any file, buffers and card of any size, and  *)
(* any number of pauses, resumptions and seeks, with or without a stop.    *)
(***************************************************************************)
EXTENDS Pipeline, SequenceTheorems, FiniteSetTheorems, TLAPS

USE PipelineAssumption

-----------------------------------------------------------------------------
(* The invariants                                                             *)

EventRecords == [kind : {"init", "time", "quit"}, num : Nat, idx : 0 .. OutCap - 1]

UnitsOK ==
  /\ at \in [Units -> Places]
  /\ at["pmi"] \in PmiPlaces /\ at["lmc"] \in LmcPlaces /\ at["pmo"] \in PmoPlaces
  /\ paused \in [Units -> BOOLEAN] /\ exiting \in [Units -> BOOLEAN]
  /\ sleepSem \in [Units -> 0 .. MaxTokens]
  /\ pauseSem \in [Units -> 0 .. MaxTokens]

FramesOK ==
  /\ filePos \in 0 .. FileLen /\ epoch \in 0 .. MaxEpoch
  /\ fetched \in Seq(Frames) /\ Len(fetched) <= 1
  /\ inData \in Seq(Frames) /\ Len(inData) <= InCap /\ inEos \in BOOLEAN
  /\ outData \in Seq(Frames) /\ Len(outData) <= OutCap
  /\ decoded \in Frames \cup {NoFrame}
  /\ written \in Frames \cup {NoFrame}

\* Who holds a window is at work on it; a decoder that was told to leave may
\* take both of its windows along.
WindowsOK ==
  /\ inGrant \subseteq {"pmi", "lmc"} /\ outGrant \subseteq {"lmc", "pmo"}
  /\ "pmi" \in inGrant <=> at["pmi"] \in {"fread", "endWrite", "endShort"}
  /\ "lmc" \in inGrant => at["lmc"] \in {"write", "decode", "done"}
  /\ at["lmc"] \in {"write", "decode"} => "lmc" \in inGrant
  /\ "lmc" \in outGrant => at["lmc"] \in {"decode", "endWrite", "done"}
  /\ at["lmc"] \in {"decode", "endWrite"} => "lmc" \in outGrant
  /\ "pmo" \in outGrant <=> at["pmo"] \in {"space", "write"}

\* What a window was granted for is still there: room for the frame that is
\* written, or the frame that is read.
ContentsOK ==
  /\ at["pmi"] \in {"fread", "endWrite", "endShort"} => Len(inData) < InCap
  /\ fetched # <<>> => at["pmi"] \in {"endWrite", "endShort"}
  /\ at["lmc"] \in {"write", "decode"} => inData # <<>> /\ decoded = Head(inData)
  /\ at["lmc"] = "endWrite" => decoded \in Frames
  /\ at["lmc"] \in {"decode", "endWrite"} => Len(outData) < OutCap
  /\ at["pmo"] \in {"space", "write"} => outData # <<>>

\* What the decoder asks for is a number of frames that the buffer may hold.
ReadSizeOK == want \in 1 .. InCap

EventsOK ==
  /\ outStart \in 0 .. OutCap - 1
  /\ events \in Seq(EventRecords)
  /\ frameCounter \in Nat

CardOK ==
  /\ opened \in BOOLEAN /\ ready \in BOOLEAN /\ card \in 0 .. CardCap
  /\ told \subseteq {"done", "error"}

-----------------------------------------------------------------------------
(* Units                                                                      *)

LEMMA UnitNames == Units = {"pmi", "lmc", "pmo"} /\ "pmi" \in Units /\ "lmc" \in Units
                   /\ "pmo" \in Units
BY DEF Units

LEMMA Tokens ==
  ASSUME NEW sem \in [Units -> 0 .. MaxTokens], NEW u \in Units
  PROVE  /\ Signalled(sem, u) \in [Units -> 0 .. MaxTokens]
         /\ sem[u] > 0 => Taken(sem, u) \in [Units -> 0 .. MaxTokens]
<1>1. sem[u] \in 0 .. MaxTokens /\ MaxTokens \in Nat
  OBVIOUS
<1>2. (IF sem[u] < MaxTokens THEN sem[u] + 1 ELSE sem[u]) \in 0 .. MaxTokens
  BY <1>1
<1>3. sem[u] > 0 => sem[u] - 1 \in 0 .. MaxTokens
  BY <1>1
<1> QED BY <1>2, <1>3 DEF Signalled, Taken

PlacesOf(u) == IF u = "pmi" THEN PmiPlaces ELSE IF u = "lmc" THEN LmcPlaces ELSE PmoPlaces

LEMMA Going ==
  ASSUME UnitsOK, NEW u \in Units, NEW w \in PlacesOf(u), Goes(u, w)
  PROVE  /\ at' \in [Units -> Places]
         /\ at'["pmi"] \in PmiPlaces /\ at'["lmc"] \in LmcPlaces /\ at'["pmo"] \in PmoPlaces
         /\ at'[u] = w /\ \A v \in Units \ {u} : at'[v] = at[v]
<1>1. w \in Places
  BY DEF PlacesOf, Places
<1>2. /\ at' \in [Units -> Places] /\ at'[u] = w
      /\ \A v \in Units \ {u} : at'[v] = at[v]
  BY <1>1 DEF Goes, UnitsOK
<1> QED BY <1>2, UnitNames DEF PlacesOf, UnitsOK

\* A worker's move, whatever it does with the semaphores.
LEMMA WorkerMoves ==
  ASSUME UnitsOK, NEW u \in Units, NEW v \in Units, NEW w \in PlacesOf(u), NEW from,
         \/ Moves(u, from, w)
         \/ Awakes(u, from, w)
         \/ Unpauses(u, from, w)
         \/ /\ Goes(u, w) /\ Wake(v)
            /\ UNCHANGED <<paused, exiting, pauseSem>>
  PROVE  UnitsOK'
<1>1. /\ at' \in [Units -> Places]
      /\ at'["pmi"] \in PmiPlaces /\ at'["lmc"] \in LmcPlaces /\ at'["pmo"] \in PmoPlaces
  BY Going DEF Moves, Awakes, Unpauses
<1>2. sleepSem' \in [Units -> 0 .. MaxTokens] /\ pauseSem' \in [Units -> 0 .. MaxTokens]
  BY Tokens DEF Moves, Awakes, Unpauses, Wake, UnitsOK
<1>3. paused' = paused /\ exiting' = exiting
  BY DEF Moves, Awakes, Unpauses
<1> QED BY <1>1, <1>2, <1>3 DEF UnitsOK

LEMMA PmiUnits == UnitsOK /\ PmiNext => UnitsOK'
<1> SUFFICES ASSUME UnitsOK, PmiNext PROVE UnitsOK'
  OBVIOUS
<1>1. \E w \in PlacesOf("pmi"), from \in Places :
        Moves("pmi", from, w) \/ Awakes("pmi", from, w) \/ Unpauses("pmi", from, w)
  BY DEF PlacesOf, Places, PmiPlaces, PmiNext, PmiStart, PmiTop, PmiWaits, PmiBegin, PmiRead, PmiEndWrite, PmiSetEos
<1> QED BY <1>1, UnitNames, WorkerMoves

LEMMA LmcUnits == UnitsOK /\ LmcNext => UnitsOK'
<1> SUFFICES ASSUME UnitsOK, LmcNext PROVE UnitsOK'
  OBVIOUS
<1>1. CASE LmcStart
  <2>1. /\ at' \in [Units -> Places]
        /\ at'["pmi"] \in PmiPlaces /\ at'["lmc"] \in LmcPlaces /\ at'["pmo"] \in PmoPlaces
    BY <1>1, UnitNames, Going DEF LmcStart, PlacesOf, LmcPlaces
  <2>2. Taken(sleepSem, "lmc") \in [Units -> 0 .. MaxTokens]
    BY <1>1, UnitNames, Tokens DEF LmcStart, UnitsOK
  <2>3. sleepSem' \in [Units -> 0 .. MaxTokens]
    BY <1>1, <2>2, UnitNames, Tokens DEF LmcStart
  <2> QED BY <1>1, <2>1, <2>3 DEF LmcStart, UnitsOK
<1>2. CASE LmcNext /\ ~LmcStart
  <2>1. \E w \in PlacesOf("lmc"), from \in Places :
          \/ Moves("lmc", from, w) \/ Awakes("lmc", from, w) \/ Unpauses("lmc", from, w)
          \/ /\ Goes("lmc", w) /\ Wake("pmi")
             /\ UNCHANGED <<paused, exiting, pauseSem>>
    <3>1. CASE LmcCanDecode \/ LmcPostInit \/ LmcPost \/ LmcTop \/ LmcSize
      BY <3>1 DEF PlacesOf, Places, LmcPlaces, LmcCanDecode, LmcPostInit, LmcPost, LmcTop, LmcSize, MovesAndWakesPmi
    <3>2. CASE LmcWaits
      BY <3>2 DEF PlacesOf, Places, LmcPlaces, LmcWaits
    <3>3. CASE LmcRead \/ LmcPostQuit \/ LmcHang \/ LmcWrite
      BY <3>3 DEF PlacesOf, Places, LmcPlaces, LmcRead, LmcPostQuit, LmcHang, LmcWrite, MovesAndWakesPmi
    <3>4. CASE LmcDecode \/ LmcEndWrite \/ LmcCount \/ LmcAdvance
      BY <3>4 DEF PlacesOf, Places, LmcPlaces, LmcDecode, LmcEndWrite, LmcCount, LmcAdvance, MovesAndWakesPmi
    <3> QED BY <1>2, <3>1, <3>2, <3>3, <3>4 DEF LmcNext
  <2> QED BY <2>1, UnitNames, WorkerMoves
<1> QED BY <1>1, <1>2

\* The first event, when there is one.
LEMMA HeadEvent ==
  ASSUME EventsOK, events # <<>>
  PROVE  /\ Head(events) \in EventRecords /\ Tail(events) \in Seq(EventRecords)
         /\ Head(events).kind \in {"init", "time", "quit"}
<1>1. events \in Seq(EventRecords)
  BY DEF EventsOK
<1>2. Head(events) \in EventRecords /\ Tail(events) \in Seq(EventRecords)
  BY <1>1
<1> QED BY <1>2 DEF EventRecords

LEMMA PmoUnits == UnitsOK /\ EventsOK /\ PmoNext => UnitsOK'
<1> SUFFICES ASSUME UnitsOK, EventsOK, PmoNext PROVE UnitsOK'
  OBVIOUS
<1>1. CASE PmoStart
  <2>1. /\ at' \in [Units -> Places]
        /\ at'["pmi"] \in PmiPlaces /\ at'["lmc"] \in LmcPlaces /\ at'["pmo"] \in PmoPlaces
    BY <1>1, UnitNames, Going DEF PmoStart, PlacesOf, PmoPlaces
  <2>2. pauseSem' \in [Units -> 0 .. MaxTokens] /\ sleepSem' \in [Units -> 0 .. MaxTokens]
    BY <1>1, UnitNames, Tokens DEF PmoStart, UnitsOK, Wake
  <2> QED BY <1>1, <2>1, <2>2 DEF PmoStart, UnitsOK
<1>2. CASE PmoNext /\ ~PmoStart
  <2>1. \E w \in PlacesOf("pmo"), from \in Places :
          \/ Moves("pmo", from, w) \/ Unpauses("pmo", from, w)
          \/ /\ Goes("pmo", w) /\ Wake("lmc")
             /\ UNCHANGED <<paused, exiting, pauseSem>>
    <3>1. CASE PmoTop \/ PmoWaits \/ PmoReady \/ PmoTry \/ PmoPeek
      BY <3>1 DEF PlacesOf, Places, PmoPlaces, PmoTop, PmoWaits, PmoReady, PmoTry, PmoPeek, MovesAndWakesLmc
    <3>2. CASE PmoAwaitInit
      BY <3>2 DEF PlacesOf, Places, PmoPlaces, PmoAwaitInit, InitCard, MovesAndWakesLmc
    <3>3. CASE PmoTake
      <4>1. CASE events = <<>>
        BY <3>3, <4>1 DEF PlacesOf, Places, PmoPlaces, PmoTake
      <4>2. CASE events # <<>>
        <5>1. \E w \in {"try", "done"} : Moves("pmo", "take", w)
          BY <3>3, <4>2, HeadEvent DEF PmoTake, InitCard
        <5> QED BY <5>1 DEF PlacesOf, Places, PmoPlaces
      <4> QED BY <4>1, <4>2
    <3>4. CASE PmoDrain \/ PmoSpace \/ PmoWrite
      BY <3>4 DEF PlacesOf, Places, PmoPlaces, PmoDrain, PmoSpace, PmoWrite, MovesAndWakesLmc
    <3> QED BY <1>2, <3>1, <3>2, <3>3, <3>4 DEF PmoNext
  <2> QED BY <2>1, UnitNames, WorkerMoves
<1> QED BY <1>1, <1>2

LEMMA CtlUnits == UnitsOK /\ (CtlNext \/ CtlBegins \/ CardPlays) => UnitsOK'
<1> SUFFICES ASSUME UnitsOK, CtlNext \/ CtlBegins \/ CardPlays PROVE UnitsOK'
  OBVIOUS
<1>1. CASE UNCHANGED unitVars
  BY <1>1 DEF unitVars, UnitsOK
<1>2. ASSUME NEW u \in Units, Pause(u) PROVE UnitsOK'
  BY <1>2, Tokens DEF Pause, Wake, UnitsOK
<1>3. ASSUME NEW u \in Units, Resume(u) PROVE UnitsOK'
  BY <1>3, Tokens DEF Resume, UnitsOK
<1>4. ASSUME NEW u \in Units, Exit(u) PROVE UnitsOK'
  BY <1>4, Tokens DEF Exit, Wake, UnitsOK
<1>5. CASE PauseUnit \/ ResumeUnit \/ ExitUnit
  BY <1>5, <1>2, <1>3, <1>4, UnitNames DEF PauseUnit, ResumeUnit, ExitUnit
<1>6. CASE JoinUnit \/ ResetCard \/ ClearOutput \/ ClearInput \/ PositionFile
           \/ PositionDecoder \/ CtlBegins \/ CardPlays
  BY <1>6, <1>1 DEF JoinUnit, ResetCard, ClearOutput, ClearInput, PositionFile,
     PositionDecoder, CtlBegins, CardPlays, BeginPause, BeginResume, BeginSeek,
     BeginDelete, Begins
<1> QED BY <1>5, <1>6 DEF CtlNext

LEMMA NextUnits == UnitsOK /\ EventsOK /\ Next => UnitsOK'
BY PmiUnits, LmcUnits, PmoUnits, CtlUnits DEF Next

-----------------------------------------------------------------------------
(* The windows and what they were granted for                                 *)

Data == FramesOK /\ WindowsOK /\ ContentsOK /\ EventsOK /\ CardOK

\* Where a worker is after a step, and that the others are where they were.
LEMMA Arrives ==
  ASSUME UnitsOK, NEW u \in Units, NEW from, NEW w \in PlacesOf(u),
         \/ Moves(u, from, w) \/ Awakes(u, from, w) \/ Unpauses(u, from, w)
         \/ at[u] = from /\ Goes(u, w)
  PROVE  at[u] = from /\ at'[u] = w /\ \A v \in Units \ {u} : at'[v] = at[v]
BY Going DEF Moves, Awakes, Unpauses

LEMMA PmiData == UnitsOK /\ Data /\ PmiNext => Data'
<1> SUFFICES ASSUME UnitsOK, Data, PmiNext PROVE Data'
  OBVIOUS
<1>. USE UnitNames, Arrives DEF Data, PlacesOf, PmiPlaces
<1>1. EventsOK' /\ CardOK' /\ UNCHANGED <<outData, outGrant, decoded, written>>
  BY DEF PmiNext, PmiStart, PmiTop, PmiWaits, PmiBegin, PmiRead, PmiEndWrite, PmiSetEos,
     pmiUnchanged, outVars, lmcVars, pmoVars, EventsOK, CardOK
<1>2. CASE PmiStart \/ PmiTop \/ PmiWaits \/ PmiSetEos
  <2>1. /\ at'["lmc"] = at["lmc"] /\ at'["pmo"] = at["pmo"]
        /\ at["pmi"] \notin {"fread", "endWrite", "endShort"}
        /\ at'["pmi"] \notin {"fread", "endWrite", "endShort"}
    BY <1>2 DEF PmiStart, PmiTop, PmiWaits, PmiSetEos
  <2>2. UNCHANGED <<filePos, epoch, fetched, inData, inGrant>> /\ inEos' \in BOOLEAN
    BY <1>2 DEF PmiStart, PmiTop, PmiWaits, PmiSetEos, fileVars, inVars, FramesOK
  <2> QED BY <1>1, <2>1, <2>2 DEF FramesOK, WindowsOK, ContentsOK
<1>3. CASE PmiBegin
  <2>1. /\ at'["lmc"] = at["lmc"] /\ at'["pmo"] = at["pmo"] /\ at["pmi"] = "begin"
        /\ \/ at'["pmi"] = "fread" /\ Len(inData) < InCap /\ inGrant' = inGrant \cup {"pmi"}
           \/ at'["pmi"] = "sleep" /\ inGrant' = inGrant
    BY <1>3 DEF PmiBegin
  <2>2. UNCHANGED <<filePos, epoch, fetched, inData, inEos>>
    BY <1>3 DEF PmiBegin, fileVars
  <2> QED BY <1>1, <2>1, <2>2 DEF FramesOK, WindowsOK, ContentsOK
<1>4. CASE PmiRead
  <2>1. /\ at'["lmc"] = at["lmc"] /\ at'["pmo"] = at["pmo"] /\ at["pmi"] = "fread"
        /\ at'["pmi"] \in {"endWrite", "endShort"}
    BY <1>4 DEF PmiRead
  <2>2. UNCHANGED <<epoch, inData, inGrant, inEos>>
    BY <1>4 DEF PmiRead, inVars
  <2>3. fetched' \in Seq(Frames) /\ Len(fetched') <= 1 /\ filePos' \in 0 .. FileLen
    <3>1. CASE filePos < FileLen
      <4>1. [num |-> filePos, epoch |-> epoch] \in Frames
        BY <3>1 DEF FramesOK, Frames
      <4>2. fetched' = <<[num |-> filePos, epoch |-> epoch]>> /\ filePos' = filePos + 1
        BY <1>4, <3>1 DEF PmiRead
      <4>3. fetched' \in Seq(Frames) /\ Len(fetched') <= 1
        BY <4>1, <4>2
      <4> QED BY <3>1, <4>2, <4>3 DEF FramesOK
    <3>2. CASE ~(filePos < FileLen)
      BY <1>4, <3>2 DEF PmiRead, FramesOK
    <3> QED BY <3>1, <3>2
  <2> QED BY <1>1, <2>1, <2>2, <2>3 DEF FramesOK, WindowsOK, ContentsOK
<1>5. CASE PmiEndWrite
  <2>1. /\ at'["lmc"] = at["lmc"] /\ at'["pmo"] = at["pmo"]
        /\ at["pmi"] \in {"endWrite", "endShort"} /\ at'["pmi"] \in {"top", "setEos"}
    BY <1>5 DEF PmiEndWrite
  <2>2. /\ UNCHANGED <<filePos, epoch, inEos>> /\ fetched' = <<>>
        /\ inData' = inData \o fetched /\ inGrant' = inGrant \ {"pmi"}
    BY <1>5 DEF PmiEndWrite
  <2>3. /\ inData' \in Seq(Frames) /\ Len(inData') <= InCap
        /\ inData # <<>> => inData' # <<>> /\ Head(inData') = Head(inData)
    <3>1. inData \in Seq(Frames) /\ fetched \in Seq(Frames) /\ Len(inData) < InCap /\ Len(fetched) <= 1
      BY <2>1 DEF FramesOK, ContentsOK
    <3>2. Len(inData \o fetched) = Len(inData) + Len(fetched) /\ inData \o fetched \in Seq(Frames)
      BY <3>1
    <3>3. inData # <<>> => inData \o fetched # <<>> /\ Head(inData \o fetched) = Head(inData)
      BY <3>1
    <3> QED BY <2>2, <3>1, <3>2, <3>3
  <2> QED BY <1>1, <2>1, <2>2, <2>3 DEF FramesOK, WindowsOK, ContentsOK
<1> QED BY <1>2, <1>3, <1>4, <1>5 DEF PmiNext

\* AcceptEvent leaves the queue of its type.
LEMMA Accepts ==
  ASSUME EventsOK, FramesOK, NEW kind \in {"init", "time", "quit"}, NEW num \in Nat,
         Accept(kind, num)
  PROVE  events' \in Seq(EventRecords) /\ UNCHANGED <<outData, outStart, outGrant>>
<1>1. (outStart + Len(outData)) % OutCap \in 0 .. OutCap - 1
  BY DEF EventsOK, FramesOK
<1>2. Event(kind, num) \in EventRecords
  BY <1>1 DEF Event, EventRecords
<1> QED BY <1>2 DEF Accept, EventsOK

\* A request is granted only when there is something to grant.
LEMMA Granted ==
  ASSUME FramesOK
  PROVE  /\ Len(inData) \in Nat
         /\ ReadSizeOK /\ Len(inData) >= want => inData # <<>>
         /\ Len(inData) >= ReadAhead => inData # <<>>
<1>1. Len(inData) \in Nat /\ (inData = <<>> => Len(inData) = 0)
  BY DEF FramesOK
<1>2. ReadAhead \in Int /\ ReadAhead > 1
  BY PipelineAssumption
<1>3. ReadSizeOK => want \in Int /\ want > 0
  BY PipelineAssumption DEF ReadSizeOK
<1> QED BY <1>1, <1>2, <1>3

LEMMA LmcData == UnitsOK /\ ReadSizeOK /\ Data /\ LmcNext => Data'
<1> SUFFICES ASSUME UnitsOK, ReadSizeOK, Data, LmcNext PROVE Data'
  OBVIOUS
<1>. USE UnitNames, Arrives DEF Data, PlacesOf, LmcPlaces
<1>1. CardOK' /\ UNCHANGED <<filePos, epoch, fetched, written>>
  <2>1. UNCHANGED <<fileVars, pmoVars>> /\ (told' = told \/ told' = told \cup {"error"})
    <3>1. CASE LmcStart \/ LmcCanDecode \/ LmcPostInit \/ LmcPost \/ LmcTop \/ LmcSize \/ LmcWaits
      BY <3>1 DEF LmcStart, LmcCanDecode, LmcPostInit, LmcPost, LmcTop, LmcSize, LmcWaits, lmcUnchanged
    <3>2. CASE LmcRead \/ LmcPostQuit \/ LmcHang \/ LmcWrite
      BY <3>2 DEF LmcRead, LmcPostQuit, LmcHang, LmcWrite, lmcUnchanged
    <3>3. CASE LmcDecode \/ LmcEndWrite \/ LmcCount \/ LmcAdvance
      BY <3>3 DEF LmcDecode, LmcEndWrite, LmcCount, LmcAdvance, lmcUnchanged
    <3> QED BY <3>1, <3>2, <3>3 DEF LmcNext
  <2>2. told \cup {"error"} \subseteq {"done", "error"} /\ told \subseteq {"done", "error"}
    BY DEF CardOK
  <2>3. told' \subseteq {"done", "error"}
    <3>1. CASE told' = told
      BY <2>2, <3>1
    <3>2. CASE told' = told \cup {"error"}
      BY <2>2, <3>2
    <3> QED BY <2>1, <3>1, <3>2
  <2> QED BY <2>1, <2>3 DEF fileVars, pmoVars, CardOK
<1>2. CASE LmcStart \/ LmcCanDecode \/ LmcPostInit \/ LmcPost \/ LmcTop \/ LmcSize \/ LmcWaits
           \/ LmcPostQuit \/ LmcHang \/ LmcCount
  <2>1. /\ at'["pmi"] = at["pmi"] /\ at'["pmo"] = at["pmo"]
        /\ at["lmc"] \notin {"write", "decode", "endWrite", "done"} \/ at'["lmc"] = at["lmc"]
        /\ at'["lmc"] \notin {"write", "decode", "endWrite"} \/ at'["lmc"] = at["lmc"]
    <3>1. CASE LmcStart \/ LmcPostInit \/ LmcPost \/ LmcTop \/ LmcSize
      BY <3>1 DEF LmcStart, LmcPostInit, LmcPost, LmcTop, LmcSize
    <3>2. CASE LmcCanDecode
      <4>1. \/ Moves("lmc", "canDecode", "done") \/ Moves("lmc", "canDecode", "postInit")
            \/ at["lmc"] = "canDecode" /\ Goes("lmc", "sleepDecode")
        BY <3>2 DEF LmcCanDecode, MovesAndWakesPmi
      <4> QED BY <4>1
    <3>3. CASE LmcWaits
      BY <3>3 DEF LmcWaits
    <3>4. CASE LmcPostQuit \/ LmcHang \/ LmcCount
      BY <3>4 DEF LmcPostQuit, LmcHang, LmcCount
    <3> QED BY <1>2, <3>1, <3>2, <3>3, <3>4
  <2>2. UNCHANGED <<inData, inEos, inGrant, decoded>>
    BY <1>2 DEF LmcStart, LmcCanDecode, LmcPostInit, LmcPost, LmcTop, LmcSize, LmcWaits, LmcPostQuit,
       LmcHang, LmcCount, inVars, lmcVars
  <2>3. EventsOK' /\ UNCHANGED <<outData, outGrant>>
    <3>1. CASE LmcStart \/ LmcCanDecode \/ LmcTop \/ LmcSize \/ LmcWaits \/ LmcHang \/ LmcCount
      BY <3>1 DEF LmcStart, LmcCanDecode, LmcTop, LmcSize, LmcWaits, LmcHang, LmcCount, outVars,
         lmcVars, EventsOK
    <3>2. CASE LmcPostInit
      BY <3>2, Accepts DEF LmcPostInit, EventsOK
    <3>3. CASE LmcPost
      BY <3>3, Accepts DEF LmcPost, EventsOK, outVars, lmcVars
    <3>4. CASE LmcPostQuit
      BY <3>4, Accepts DEF LmcPostQuit, EventsOK, lmcVars
    <3> QED BY <1>2, <3>1, <3>2, <3>3, <3>4
  <2> QED BY <1>1, <2>1, <2>2, <2>3 DEF FramesOK, WindowsOK, ContentsOK
<1>3. CASE LmcRead
  <2>1. /\ at'["pmi"] = at["pmi"] /\ at'["pmo"] = at["pmo"] /\ at["lmc"] = "read"
        /\ UNCHANGED <<inData, inEos, outVars, frameCounter>>
        /\ \/ /\ at'["lmc"] \in {"done", "postQuit", "sleepRead"}
              /\ UNCHANGED <<inGrant, decoded>>
           \/ /\ at'["lmc"] = "write" /\ inData # <<>>
              /\ inGrant' = inGrant \cup {"lmc"} /\ decoded' = Head(inData)
    <3>1. Len(inData) >= want => inData # <<>>
      BY Granted
    <3> QED BY <1>3, <3>1 DEF LmcRead, MovesAndWakesPmi
  <2>2. EventsOK'
    BY <2>1 DEF EventsOK, outVars
  <2>3. inData # <<>> => Head(inData) \in Frames
    BY DEF FramesOK
  <2> QED BY <1>1, <2>1, <2>2, <2>3 DEF FramesOK, WindowsOK, ContentsOK, outVars
<1>4. CASE LmcWrite
  <2>1. /\ at'["pmi"] = at["pmi"] /\ at'["pmo"] = at["pmo"] /\ at["lmc"] = "write"
        /\ UNCHANGED <<inData, inEos, outData, outStart, events, frameCounter>>
        /\ \/ /\ at'["lmc"] = "decode" /\ Len(outData) < OutCap
              /\ outGrant' = outGrant \cup {"lmc"} /\ UNCHANGED <<inGrant, decoded>>
           \/ /\ at'["lmc"] = "sleepWrite" /\ decoded' = NoFrame
              /\ inGrant' = inGrant \ {"lmc"} /\ outGrant' = outGrant
    BY <1>4 DEF LmcWrite
  <2> QED BY <1>1, <2>1 DEF FramesOK, WindowsOK, ContentsOK, EventsOK
<1>5. CASE LmcDecode
  <2>1. /\ at'["pmi"] = at["pmi"] /\ at'["pmo"] = at["pmo"] /\ at["lmc"] = "decode"
        /\ UNCHANGED <<inEos, outData, outStart, events, frameCounter>>
        /\ \/ /\ at'["lmc"] = "advance" /\ decoded' = NoFrame /\ inData' = inData
              /\ inGrant' = inGrant \ {"lmc"} /\ outGrant' = outGrant \ {"lmc"}
           \/ at'["lmc"] = "done" /\ UNCHANGED <<inData, inGrant, outGrant, decoded>>
           \/ /\ at'["lmc"] = "endWrite" /\ inData' = Tail(inData)
              /\ inGrant' = inGrant \ {"lmc"} /\ UNCHANGED <<outGrant, decoded>>
    BY <1>5 DEF LmcDecode, MovesAndWakesPmi
  <2>2. /\ inData # <<>> /\ decoded = Head(inData) /\ Head(inData) \in Frames
        /\ Tail(inData) \in Seq(Frames) /\ Len(Tail(inData)) = Len(inData) - 1
        /\ Len(inData) \in Nat
    BY <2>1 DEF FramesOK, ContentsOK
  <2>3. /\ inData' \in Seq(Frames) /\ Len(inData') <= Len(inData) /\ Len(inData') \in Nat
        /\ decoded' \in Frames \cup {NoFrame} /\ at'["lmc"] = "endWrite" => decoded' \in Frames
    <3>1. inData' = inData \/ inData' = Tail(inData)
      BY <2>1
    <3>2. inData \in Seq(Frames)
      BY DEF FramesOK
    <3>3. decoded' = decoded \/ (decoded' = NoFrame /\ at'["lmc"] = "advance")
      BY <2>1
    <3> QED BY <2>2, <3>1, <3>2, <3>3
  <2>4. WindowsOK'
    BY <2>1 DEF WindowsOK
  <2>5. FramesOK' /\ EventsOK'
    BY <1>1, <2>1, <2>2, <2>3 DEF FramesOK, EventsOK
  <2>6. ContentsOK'
    BY <1>1, <2>1, <2>2, <2>3 DEF ContentsOK, FramesOK
  <2> QED BY <1>1, <2>4, <2>5, <2>6
<1>6. CASE LmcEndWrite
  <2>1. /\ at'["pmi"] = at["pmi"] /\ at'["pmo"] = at["pmo"] /\ at["lmc"] = "endWrite"
        /\ at'["lmc"] = "count"
        /\ UNCHANGED <<inData, inEos, inGrant, outStart, events, frameCounter>>
        /\ outData' = Append(outData, decoded) /\ outGrant' = outGrant \ {"lmc"}
        /\ decoded' = NoFrame
    BY <1>6 DEF LmcEndWrite, inVars
  <2>2. /\ outData' \in Seq(Frames) /\ outData' # <<>> /\ Len(outData') <= OutCap
    BY <2>1 DEF FramesOK, ContentsOK
  <2> QED BY <1>1, <2>1, <2>2 DEF FramesOK, WindowsOK, ContentsOK, EventsOK
<1>7. CASE LmcAdvance
  <2>1. /\ at'["pmi"] = at["pmi"] /\ at'["pmo"] = at["pmo"] /\ at["lmc"] = "advance"
        /\ at'["lmc"] \in {"done", "top", "sleepAdvance"}
        /\ UNCHANGED <<inEos, inGrant, decoded, frameCounter>>
        /\ inData' = inData \/ (inData # <<>> /\ inData' = Tail(inData))
        /\ UNCHANGED outVars \/ Accept("quit", 0)
    <3>1. Len(inData) >= ReadAhead => inData # <<>>
      BY Granted
    <3> QED BY <1>7, <3>1 DEF LmcAdvance, MovesAndWakesPmi, lmcVars
  <2>2. EventsOK' /\ UNCHANGED <<outData, outGrant>>
    BY <2>1, Accepts DEF outVars, EventsOK
  <2>3. inData' \in Seq(Frames) /\ Len(inData') <= Len(inData) /\ Len(inData) \in Nat
        /\ Len(inData') \in Nat
    <3>1. inData \in Seq(Frames) /\ Len(inData) \in Nat
      BY DEF FramesOK
    <3>2. inData # <<>> => Tail(inData) \in Seq(Frames) /\ Len(Tail(inData)) = Len(inData) - 1
      BY <3>1
    <3> QED BY <2>1, <3>1, <3>2
  <2> QED BY <1>1, <2>1, <2>2, <2>3 DEF FramesOK, WindowsOK, ContentsOK
<1> QED BY <1>2, <1>3, <1>4, <1>5, <1>6, <1>7 DEF LmcNext

LEMMA Telling ==
  ASSUME CardOK
  PROVE  told \cup {"error"} \subseteq {"done", "error"} /\ told \cup {"done"} \subseteq {"done", "error"}
BY DEF CardOK

LEMMA CardInits ==
  ASSUME CardOK, NEW from, NEW w1, NEW w2, InitCard(from, w1, w2)
  PROVE  /\ Moves("pmo", from, w1) \/ Moves("pmo", from, w2)
         /\ opened' \in BOOLEAN /\ ready' \in BOOLEAN /\ told' \subseteq {"done", "error"}
<1>1. CASE opened' = TRUE
  BY <1>1, Telling DEF InitCard, CardOK
<1>2. CASE opened' = FALSE
  BY <1>2, Telling DEF InitCard, CardOK
<1> QED BY <1>1, <1>2 DEF InitCard

LEMMA PmoData == UnitsOK /\ Data /\ PmoNext => Data'
<1> SUFFICES ASSUME UnitsOK, Data, PmoNext PROVE Data'
  OBVIOUS
<1>. USE UnitNames, Arrives DEF Data, PlacesOf, PmoPlaces
<1>1. UNCHANGED <<filePos, epoch, fetched, inData, inEos, inGrant, decoded, frameCounter>>
  BY DEF PmoNext, PmoStart, PmoTop, PmoWaits, PmoReady, PmoAwaitInit, PmoTry, PmoPeek,
     PmoTake, PmoDrain, PmoSpace, PmoWrite, pmoUnchanged, fileVars, inVars, lmcVars
<1>2. CASE PmoStart \/ PmoTop \/ PmoWaits \/ PmoReady \/ PmoPeek \/ PmoDrain
  <2>1. /\ at'["pmi"] = at["pmi"] /\ at'["lmc"] = at["lmc"]
        /\ at["pmo"] \notin {"space", "write"} /\ at'["pmo"] \notin {"space", "write"}
    <3>1. CASE PmoStart \/ PmoTop \/ PmoWaits \/ PmoReady
      BY <3>1 DEF PmoStart, PmoTop, PmoWaits, PmoReady
    <3>2. CASE PmoPeek \/ PmoDrain
      BY <3>2 DEF PmoPeek, PmoDrain
    <3> QED BY <1>2, <3>1, <3>2
  <2>2. UNCHANGED <<outVars, pmoVars>> /\ told' \subseteq {"done", "error"}
    BY <1>2 DEF PmoStart, PmoTop, PmoWaits, PmoReady, PmoPeek, PmoDrain, CardOK
  <2> QED BY <1>1, <2>1, <2>2 DEF FramesOK, WindowsOK, ContentsOK, EventsOK, CardOK,
          outVars, pmoVars
<1>3. CASE PmoAwaitInit \/ PmoTake
  <2>1. /\ UNCHANGED <<outData, outStart, outGrant, card, written>>
        /\ events' = events \/ (events # <<>> /\ events' = Tail(events))
    BY <1>3 DEF PmoAwaitInit, PmoTake, pmoVars
  <2>2. events' \in Seq(EventRecords)
    BY <2>1, HeadEvent DEF EventsOK
  <2>3. CASE events = <<>>
    <3>1. \/ at["pmo"] = "checkInit" /\ Goes("pmo", "top")
          \/ Moves("pmo", "take", "crashed")
      BY <1>3, <2>3 DEF PmoAwaitInit, PmoTake, MovesAndWakesLmc
    <3>2. UNCHANGED <<opened, ready, told>>
      BY <1>3, <2>3 DEF PmoAwaitInit, PmoTake
    <3>3. /\ at'["pmi"] = at["pmi"] /\ at'["lmc"] = at["lmc"]
          /\ at["pmo"] \notin {"space", "write"} /\ at'["pmo"] \notin {"space", "write"}
      BY <3>1
    <3> QED BY <1>1, <2>1, <2>2, <3>2, <3>3 DEF FramesOK, WindowsOK, ContentsOK, EventsOK,
            CardOK
  <2>4. CASE events # <<>>
    <3>1. Head(events).kind \in {"init", "time", "quit"}
      BY <2>4, HeadEvent
    <3>2. /\ \/ Moves("pmo", "checkInit", "top") \/ Moves("pmo", "checkInit", "done")
             \/ Moves("pmo", "take", "try") \/ Moves("pmo", "take", "done")
          /\ opened' \in BOOLEAN /\ ready' \in BOOLEAN /\ told' \subseteq {"done", "error"}
      <4>1. CASE PmoAwaitInit
        BY <2>4, <4>1, CardInits DEF PmoAwaitInit, CardOK
      <4>2. CASE PmoTake
        <5>1. CASE Head(events).kind = "init"
          BY <2>4, <4>2, <5>1, CardInits DEF PmoTake
        <5>2. CASE Head(events).kind = "time"
          BY <2>4, <4>2, <5>2 DEF PmoTake, CardOK
        <5>3. CASE Head(events).kind = "quit"
          <6>1. Moves("pmo", "take", "done") /\ told' = told \cup {"done"}
                /\ UNCHANGED <<opened, ready>>
            BY <2>4, <4>2, <5>3 DEF PmoTake
          <6>2. told \subseteq {"done", "error"} /\ opened \in BOOLEAN /\ ready \in BOOLEAN
            BY DEF CardOK
          <6> QED BY <6>1, <6>2
        <5> QED BY <3>1, <5>1, <5>2, <5>3
      <4> QED BY <1>3, <4>1, <4>2
    <3>3. /\ at'["pmi"] = at["pmi"] /\ at'["lmc"] = at["lmc"]
          /\ at["pmo"] \notin {"space", "write"} /\ at'["pmo"] \notin {"space", "write"}
      BY <3>2
    <3> QED BY <1>1, <2>1, <2>2, <3>2, <3>3 DEF FramesOK, WindowsOK, ContentsOK, EventsOK,
            CardOK
  <2> QED BY <2>3, <2>4
<1>4. CASE PmoTry
  <2>1. /\ at'["pmi"] = at["pmi"] /\ at'["lmc"] = at["lmc"] /\ at["pmo"] = "try"
        /\ \/ at'["pmo"] \in {"peek", "try"} /\ outGrant' = outGrant
           \/ /\ at'["pmo"] = "space" /\ outData # <<>>
              /\ outGrant' = outGrant \cup {"pmo"}
    BY <1>4 DEF PmoTry, MovesAndWakesLmc
  <2>2. UNCHANGED <<outData, outStart, events, pmoVars, told>>
    BY <1>4 DEF PmoTry
  <2>3. WindowsOK' /\ ContentsOK'
    BY <1>1, <2>1, <2>2 DEF WindowsOK, ContentsOK
  <2>4. FramesOK' /\ EventsOK' /\ CardOK'
    BY <1>1, <2>2 DEF FramesOK, EventsOK, CardOK, pmoVars
  <2> QED BY <2>3, <2>4
<1>5. CASE PmoSpace
  <2>1. /\ at'["pmi"] = at["pmi"] /\ at'["lmc"] = at["lmc"] /\ at["pmo"] = "space"
        /\ \/ at'["pmo"] = "top" /\ outGrant' = outGrant \ {"pmo"}
           \/ at'["pmo"] = "write" /\ outGrant' = outGrant
    BY <1>5 DEF PmoSpace
  <2>2. UNCHANGED <<outData, outStart, events, pmoVars, told>>
    BY <1>5 DEF PmoSpace
  <2>3. WindowsOK' /\ ContentsOK'
    BY <1>1, <2>1, <2>2 DEF WindowsOK, ContentsOK
  <2>4. FramesOK' /\ EventsOK' /\ CardOK'
    BY <1>1, <2>2 DEF FramesOK, EventsOK, CardOK, pmoVars
  <2> QED BY <2>3, <2>4
<1>6. CASE PmoWrite
  <2>1. /\ at'["pmi"] = at["pmi"] /\ at'["lmc"] = at["lmc"] /\ at["pmo"] = "write"
        /\ at'["pmo"] \in {"top", "done"} /\ outGrant' = outGrant \ {"pmo"}
    BY <1>6 DEF PmoWrite, MovesAndWakesLmc
  <2>2. /\ UNCHANGED <<events, opened, ready>> /\ told' \subseteq {"done", "error"}
        /\ card' \in 0 .. CardCap
        /\ \/ UNCHANGED <<written, outData, outStart>>
           \/ /\ written' = Head(outData) /\ outData' = Tail(outData)
              /\ outStart' = (outStart + 1) % OutCap
    <3>1. card \in 0 .. CardCap
      BY DEF CardOK
    <3>2. (IF card < CardCap THEN card + 1 ELSE card) \in 0 .. CardCap
      BY <3>1
    <3>3. told' = told \/ told' = told \cup {"error"}
      BY <1>6 DEF PmoWrite
    <3>4. card' = card \/ card' = IF card < CardCap THEN card + 1 ELSE card
      BY <1>6 DEF PmoWrite
    <3>5. /\ UNCHANGED <<events, opened, ready>>
          /\ \/ UNCHANGED <<written, outData, outStart>>
             \/ /\ written' = Head(outData) /\ outData' = Tail(outData)
                /\ outStart' = (outStart + 1) % OutCap
      BY <1>6 DEF PmoWrite
    <3>6. told' \subseteq {"done", "error"}
      <4>1. told \subseteq {"done", "error"}
        BY DEF CardOK
      <4>2. CASE told' = told
        BY <4>1, <4>2
      <4>3. CASE told' = told \cup {"error"}
        BY <4>1, <4>3
      <4> QED BY <3>3, <4>2, <4>3
    <3>7. card' \in 0 .. CardCap
      BY <3>1, <3>2, <3>4
    <3> QED BY <3>5, <3>6, <3>7
  <2>3. /\ outData # <<>> /\ Head(outData) \in Frames /\ Tail(outData) \in Seq(Frames)
        /\ Len(Tail(outData)) = Len(outData) - 1 /\ Len(outData) \in Nat
    BY <2>1 DEF FramesOK, ContentsOK
  <2>4. (outStart + 1) % OutCap \in 0 .. OutCap - 1
    BY DEF EventsOK
  <2>5. /\ written' \in Frames \cup {NoFrame} /\ outData' \in Seq(Frames)
        /\ Len(outData') <= Len(outData) /\ Len(outData') \in Nat
        /\ outStart' \in 0 .. OutCap - 1
    <3>1. CASE UNCHANGED <<written, outData, outStart>>
      BY <3>1, <2>3 DEF FramesOK, EventsOK
    <3>2. CASE /\ written' = Head(outData) /\ outData' = Tail(outData)
               /\ outStart' = (outStart + 1) % OutCap
      BY <3>2, <2>3, <2>4
    <3> QED BY <2>2, <3>1, <3>2
  <2>6. WindowsOK' /\ ContentsOK'
    BY <1>1, <2>1, <2>3, <2>5 DEF WindowsOK, ContentsOK, FramesOK
  <2>7. FramesOK' /\ EventsOK' /\ CardOK'
    BY <1>1, <2>2, <2>3, <2>5 DEF FramesOK, EventsOK, CardOK
  <2> QED BY <2>6, <2>7
<1> QED BY <1>2, <1>3, <1>4, <1>5, <1>6 DEF PmoNext

-----------------------------------------------------------------------------
(* The calls of the player's thread                                           *)

StepNames == {"pausePmo", "resetCard", "initCard", "pauseLmc", "pausePmi", "clearEvents",
              "clearOut", "rewind", "clearIn", "position", "seek", "resumePmi", "resumeLmc",
              "resumePmo", "exitPmo", "joinPmo", "exitLmc", "joinLmc", "exitPmi", "joinPmi"}

Has(s, name) == \E i \in 1 .. Len(s) : s[i] = name

\* The steps that position the file come once in a call each, and after them
\* the input buffer is cleared.
Call(s) ==
  /\ s \in Seq(StepNames)
  /\ \A i, j \in 1 .. Len(s) : s[i] = s[j] /\ s[i] \in {"rewind", "seek"} => i = j
  /\ \A i \in 1 .. Len(s) :
       s[i] \in {"rewind", "seek"} => \E j \in i + 1 .. Len(s) : s[j] = "clearIn"

\* How often what is left of a call positions the file.
Once(b) == IF b THEN 1 ELSE 0
Ahead(s) == Once(Has(s, "rewind")) + Once(Has(s, "seek"))

\* The track is being deleted.
Ending == exiting["pmo"] \/ Has(ctl.todo, "exitPmo")

\* The file has been positioned so often, and can be so often yet, that it is
\* twice for each seek and once for the end.
CallOK ==
  /\ ctl \in [todo : Seq(StepNames), pos : 0 .. FileLen - 1] /\ Call(ctl.todo)
  /\ left \in [seeks : 0 .. MaxSeeks, pauses : 0 .. MaxPauses]
  /\ epoch + Ahead(ctl.todo) + 2 * left.seeks + Once(~Ending) <= MaxEpoch

\* What is left of a call after its first step.
LEMMA Stepped ==
  ASSUME NEW s, Call(s), s # <<>>
  PROVE  /\ Call(Tail(s)) /\ Head(s) \in StepNames /\ Has(s, Head(s))
         /\ \A name : name # Head(s) => (Has(Tail(s), name) <=> Has(s, name))
         /\ Head(s) \in {"rewind", "seek"} => ~Has(Tail(s), Head(s)) /\ Has(Tail(s), "clearIn")
<1>1. /\ s \in Seq(StepNames) /\ Head(s) = s[1] /\ Tail(s) \in Seq(StepNames)
      /\ Len(s) \in Nat /\ Len(s) > 0 /\ Len(Tail(s)) = Len(s) - 1
      /\ \A i \in 1 .. Len(s) - 1 : Tail(s)[i] = s[i + 1]
  BY DEF Call
<1>2. \A i \in 2 .. Len(s) : i - 1 \in 1 .. Len(s) - 1 /\ Tail(s)[i - 1] = s[i]
  BY <1>1
<1>3. \A i, j \in 1 .. Len(Tail(s)) :
         Tail(s)[i] = Tail(s)[j] /\ Tail(s)[i] \in {"rewind", "seek"} => i = j
  BY <1>1 DEF Call
<1>4. ASSUME NEW i \in 1 .. Len(Tail(s)), Tail(s)[i] \in {"rewind", "seek"}
      PROVE  \E j \in i + 1 .. Len(Tail(s)) : Tail(s)[j] = "clearIn"
  <2>1. PICK j \in i + 2 .. Len(s) : s[j] = "clearIn"
    BY <1>1, <1>4 DEF Call
  <2> QED BY <1>1, <1>2, <2>1
<1>5. ASSUME NEW name, name # Head(s) PROVE Has(Tail(s), name) <=> Has(s, name)
  <2>1. ASSUME Has(s, name) PROVE Has(Tail(s), name)
    <3>1. PICK i \in 1 .. Len(s) : s[i] = name
      BY <2>1 DEF Has
    <3>2. i \in 2 .. Len(s)
      BY <1>1, <1>5, <3>1
    <3>3. i - 1 \in 1 .. Len(Tail(s)) /\ Tail(s)[i - 1] = name
      BY <1>1, <1>2, <3>1, <3>2
    <3> QED BY <3>3 DEF Has
  <2>2. ASSUME Has(Tail(s), name) PROVE Has(s, name)
    <3>1. PICK i \in 1 .. Len(Tail(s)) : Tail(s)[i] = name
      BY <2>2 DEF Has
    <3>2. i + 1 \in 1 .. Len(s) /\ s[i + 1] = name
      BY <1>1, <3>1
    <3> QED BY <3>2 DEF Has
  <2> QED BY <2>1, <2>2
<1>6. ASSUME Head(s) \in {"rewind", "seek"}
      PROVE  ~Has(Tail(s), Head(s)) /\ Has(Tail(s), "clearIn")
  <2>1. ~Has(Tail(s), Head(s))
    BY <1>1, <1>6 DEF Has, Call
  <2>2. PICK j \in 2 .. Len(s) : s[j] = "clearIn"
    BY <1>1, <1>6 DEF Call
  <2> QED BY <1>1, <1>2, <2>1, <2>2 DEF Has
<1>7. Has(s, Head(s))
  BY <1>1 DEF Has
<1> QED BY <1>1, <1>3, <1>4, <1>5, <1>6, <1>7 DEF Call

\* A call made of two.
LEMMA Joined ==
  ASSUME NEW s, NEW t, Call(s), Call(t),
         \A name \in {"rewind", "seek"} : ~(Has(s, name) /\ Has(t, name))
  PROVE  /\ Call(s \o t)
         /\ \A name : Has(s \o t, name) <=> Has(s, name) \/ Has(t, name)
<1>1. /\ s \in Seq(StepNames) /\ t \in Seq(StepNames) /\ Len(s) \in Nat /\ Len(t) \in Nat
      /\ s \o t \in Seq(StepNames) /\ Len(s \o t) = Len(s) + Len(t)
      /\ \A i \in 1 .. Len(s) : (s \o t)[i] = s[i]
      /\ \A i \in Len(s) + 1 .. Len(s) + Len(t) : (s \o t)[i] = t[i - Len(s)]
  BY ConcatProperties DEF Call
<1>2. \A i \in 1 .. Len(t) : (s \o t)[Len(s) + i] = t[i]
  BY <1>1
<1>3. ASSUME NEW name PROVE Has(s \o t, name) <=> Has(s, name) \/ Has(t, name)
  BY <1>1, <1>2 DEF Has
<1>4. \A i \in 1 .. Len(s \o t) :
         \/ i \in 1 .. Len(s) /\ (s \o t)[i] = s[i]
         \/ /\ i \in Len(s) + 1 .. Len(s) + Len(t) /\ i - Len(s) \in 1 .. Len(t)
            /\ (s \o t)[i] = t[i - Len(s)]
  BY <1>1
<1>5. \A i, j \in 1 .. Len(s \o t) :
         (s \o t)[i] = (s \o t)[j] /\ (s \o t)[i] \in {"rewind", "seek"} => i = j
  <2> SUFFICES ASSUME NEW i \in 1 .. Len(s \o t), NEW j \in 1 .. Len(s \o t),
                      (s \o t)[i] = (s \o t)[j], (s \o t)[i] \in {"rewind", "seek"}
               PROVE  i = j
    OBVIOUS
  <2>1. CASE i \in 1 .. Len(s) /\ j \in 1 .. Len(s)
    BY <1>1, <2>1 DEF Call
  <2>2. CASE i \in Len(s) + 1 .. Len(s) + Len(t) /\ j \in Len(s) + 1 .. Len(s) + Len(t)
    <3>1. i - Len(s) = j - Len(s)
      BY <1>1, <2>2 DEF Call
    <3> QED BY <1>1, <2>2, <3>1
  <2>3. CASE i \in 1 .. Len(s) /\ j \in Len(s) + 1 .. Len(s) + Len(t)
    <3>1. Has(s, (s \o t)[i])
      BY <1>1, <2>3 DEF Has
    <3>2. Has(t, (s \o t)[j])
      BY <1>1, <1>4, <2>3 DEF Has
    <3> QED BY <3>1, <3>2
  <2>4. CASE j \in 1 .. Len(s) /\ i \in Len(s) + 1 .. Len(s) + Len(t)
    <3>1. Has(s, (s \o t)[j])
      BY <1>1, <2>4 DEF Has
    <3>2. Has(t, (s \o t)[i])
      BY <1>1, <1>4, <2>4 DEF Has
    <3> QED BY <3>1, <3>2
  <2> QED BY <1>1, <2>1, <2>2, <2>3, <2>4
<1>6. ASSUME NEW i \in 1 .. Len(s \o t), (s \o t)[i] \in {"rewind", "seek"}
      PROVE  \E j \in i + 1 .. Len(s \o t) : (s \o t)[j] = "clearIn"
  <2>1. CASE i \in 1 .. Len(s)
    <3>1. PICK j \in i + 1 .. Len(s) : s[j] = "clearIn"
      BY <1>1, <1>6, <2>1 DEF Call
    <3>2. j \in i + 1 .. Len(s \o t) /\ (s \o t)[j] = "clearIn"
      BY <1>1, <2>1, <3>1
    <3> QED BY <3>2
  <2>2. CASE i \in Len(s) + 1 .. Len(s) + Len(t)
    <3>1. i - Len(s) \in 1 .. Len(t) /\ t[i - Len(s)] \in {"rewind", "seek"}
      BY <1>1, <1>6, <2>2
    <3>2. PICK j \in i - Len(s) + 1 .. Len(t) : t[j] = "clearIn"
      BY <3>1 DEF Call
    <3>3. Len(s) + j \in i + 1 .. Len(s \o t) /\ j \in 1 .. Len(t)
      BY <1>1, <2>2, <3>1, <3>2
    <3>4. (s \o t)[Len(s) + j] = "clearIn"
      BY <1>2, <3>2, <3>3
    <3> QED BY <3>3, <3>4
  <2> QED BY <1>1, <2>1, <2>2
<1> QED BY <1>1, <1>3, <1>5, <1>6 DEF Call

\* The calls of the player.
LEMMA Pausing ==
  /\ Call(PauseSteps) /\ Call(<<"resumePmo">>) /\ Call(<<>>)
  /\ \A name \in {"rewind", "seek", "exitPmo", "clearIn"} :
       ~Has(PauseSteps, name) /\ ~Has(<<"resumePmo">>, name) /\ ~Has(<<>>, name)
BY DEF Call, Has, PauseSteps, StepNames

LEMMA Deleting ==
  /\ Call(DeleteSteps)
  /\ Has(DeleteSteps, "exitPmo") /\ Has(DeleteSteps, "rewind") /\ ~Has(DeleteSteps, "seek")
<1>1. /\ DeleteSteps \in Seq(StepNames) /\ Len(DeleteSteps) = 15
      /\ DeleteSteps[1] = "exitPmo" /\ DeleteSteps[9] = "rewind" /\ DeleteSteps[10] = "clearIn"
  BY DEF DeleteSteps, StepNames
<1>2. \A i \in 1 .. 15 : (DeleteSteps[i] = "rewind" => i = 9) /\ DeleteSteps[i] # "seek"
  BY DEF DeleteSteps
<1> QED BY <1>1, <1>2 DEF Call, Has

Moving == <<"pauseLmc", "pausePmi", "clearEvents", "clearOut", "rewind", "clearIn",
            "clearIn", "position", "seek", "clearIn", "resumePmi", "resumeLmc">>

LEMMA Seeking ==
  /\ SeekSteps = PauseSteps \o Moving /\ Call(Moving)
  /\ Has(Moving, "rewind") /\ Has(Moving, "seek") /\ ~Has(Moving, "exitPmo")
<1>1. /\ Moving \in Seq(StepNames) /\ Len(Moving) = 12
      /\ Moving[5] = "rewind" /\ Moving[6] = "clearIn" /\ Moving[9] = "seek"
      /\ Moving[10] = "clearIn"
  BY DEF Moving, StepNames
<1>2. \A i \in 1 .. 12 : /\ (Moving[i] = "rewind" => i = 5) /\ (Moving[i] = "seek" => i = 9)
                         /\ Moving[i] # "exitPmo"
  BY DEF Moving
<1>3. SeekSteps = PauseSteps \o Moving
  BY DEF SeekSteps, Moving
<1> QED BY <1>1, <1>2, <1>3 DEF Call, Has

\* A call begins when there is none.
LEMMA Begun ==
  ASSUME UnitsOK, FramesOK, CallOK, ctl.todo = <<>>, ~exiting["pmo"],
         NEW steps, NEW pos \in 0 .. FileLen - 1, Call(steps),
         ctl' = [todo |-> steps, pos |-> pos],
         left' \in [seeks : 0 .. MaxSeeks, pauses : 0 .. MaxPauses],
         UNCHANGED <<epoch, exiting>>,
         Ahead(steps) + 2 * left'.seeks + Once(~Has(steps, "exitPmo"))
           <= 2 * left.seeks + 1
  PROVE  CallOK'
<1>1. ctl'.todo = steps /\ steps \in Seq(StepNames) /\ ctl' \in [todo : Seq(StepNames), pos : 0 .. FileLen - 1]
  BY DEF Call
<1>2. ~Ending /\ Ahead(ctl.todo) = 0 /\ (Ending' <=> Has(steps, "exitPmo"))
  BY <1>1, Pausing DEF Ending, Ahead, Once
<1>3. epoch \in Nat /\ MaxEpoch \in Nat
  BY DEF FramesOK, MaxEpoch
<1>4. left.seeks \in Nat /\ left'.seeks \in Nat
  BY DEF CallOK
<1>5. Ahead(steps) \in Nat /\ Once(~Has(steps, "exitPmo")) \in Nat
  BY DEF Ahead, Once
<1>6. epoch + 2 * left.seeks + 1 <= MaxEpoch
  <2>1. Once(~Ending) = 1
    BY <1>2 DEF Once
  <2>2. epoch + 0 + 2 * left.seeks + 1 <= MaxEpoch
    BY <1>2, <2>1 DEF CallOK
  <2> QED BY <1>3, <1>4, <2>2
<1>7. epoch + Ahead(steps) + 2 * left'.seeks + Once(~Has(steps, "exitPmo")) <= MaxEpoch
  <2>1. ASSUME NEW e \in Nat, NEW m \in Nat, NEW l \in Nat, NEW k \in Nat, NEW a \in Nat, NEW o \in Nat,
               e + 2 * l + 1 <= m, a + 2 * k + o <= 2 * l + 1
        PROVE  e + a + 2 * k + o <= m
    BY <2>1
  <2> QED BY <1>3, <1>4, <1>5, <1>6, <2>1
<1>8. MaxEpoch' = MaxEpoch /\ Call(ctl.todo)' /\ Ahead(ctl.todo)' = Ahead(steps)
      /\ Once(~Ending)' = Once(~Has(steps, "exitPmo"))
  <2>1. MaxEpoch' = MaxEpoch
    BY DEF MaxEpoch
  <2>2. Call(ctl.todo)'
    BY <1>1 DEF Call
  <2>3. Ahead(ctl.todo)' = Ahead(steps)
    BY <1>1 DEF Ahead, Has, Once
  <2>4. Once(~Ending)' = Once(~Has(steps, "exitPmo"))
    BY <1>2 DEF Once
  <2> QED BY <2>1, <2>2, <2>3, <2>4
<1> QED BY <1>1, <1>7, <1>8 DEF CallOK

LEMMA CallBegins == UnitsOK /\ FramesOK /\ CallOK /\ CtlBegins => CallOK' /\ ~Has(ctl.todo, "clearIn")
<1> SUFFICES ASSUME UnitsOK, FramesOK, CallOK, CtlBegins
             PROVE  CallOK' /\ ~Has(ctl.todo, "clearIn")
  OBVIOUS
<1>1. ctl.todo = <<>> /\ ~exiting["pmo"] /\ UNCHANGED <<epoch, exiting>>
  BY DEF CtlBegins, BeginPause, BeginResume, BeginSeek, BeginDelete, Begins, unitVars, fileVars
<1>2. ~Has(ctl.todo, "clearIn")
  BY <1>1, Pausing
<1>3. ctl.pos \in 0 .. FileLen - 1 /\ ctl = [todo |-> ctl.todo, pos |-> ctl.pos]
      /\ left.seeks \in 0 .. MaxSeeks /\ left.pauses \in 0 .. MaxPauses
  BY DEF CallOK
<1>4. ASSUME NEW steps, Begins(steps) PROVE ctl' = [todo |-> steps, pos |-> ctl.pos]
  BY <1>3, <1>4 DEF Begins
<1>5. CASE BeginPause
  <2>1. Begins(PauseSteps) /\ left'.seeks = left.seeks
        /\ left' \in [seeks : 0 .. MaxSeeks, pauses : 0 .. MaxPauses]
    <3>1. /\ Begins(PauseSteps) /\ left.pauses > 0
          /\ left' = [left EXCEPT !.pauses = left.pauses - 1]
      BY <1>5 DEF BeginPause
    <3>2. left \in [seeks : 0 .. MaxSeeks, pauses : 0 .. MaxPauses]
      BY DEF CallOK
    <3>3. left.pauses - 1 \in 0 .. MaxPauses
      BY <1>3, <3>1
    <3> QED BY <3>1, <3>2, <3>3
  <2>2. Ahead(PauseSteps) = 0
    BY Pausing DEF Ahead, Once
  <2>3. Ahead(PauseSteps) + 2 * left'.seeks + Once(~Has(PauseSteps, "exitPmo"))
          <= 2 * left.seeks + 1
    BY <1>3, <2>1, <2>2 DEF Once
  <2> QED BY <1>1, <1>2, <1>3, <1>4, <2>1, <2>3, Pausing, Begun
<1>6. CASE BeginResume
  <2>1. Begins(<<"resumePmo">>) /\ left' = left
    BY <1>6 DEF BeginResume
  <2>2. Ahead(<<"resumePmo">>) = 0
    BY Pausing DEF Ahead, Once
  <2>3. Ahead(<<"resumePmo">>) + 2 * left'.seeks + Once(~Has(<<"resumePmo">>, "exitPmo"))
          <= 2 * left.seeks + 1
    BY <1>3, <2>1, <2>2 DEF Once
  <2>4. left' \in [seeks : 0 .. MaxSeeks, pauses : 0 .. MaxPauses]
    BY <2>1 DEF CallOK
  <2> QED BY <1>1, <1>2, <1>3, <1>4, <2>1, <2>3, <2>4, Pausing, Begun
<1>7. CASE BeginSeek
  <2> DEFINE last == IF paused["pmo"] THEN <<>> ELSE <<"resumePmo">>
             steps == SeekSteps \o last
  <2>1. PICK pos \in SeekTo : ctl' = [todo |-> steps, pos |-> pos]
    BY <1>7 DEF BeginSeek
  <2>2. pos \in 0 .. FileLen - 1
    OBVIOUS
  <2>3. /\ left.seeks > 0 /\ left' = [left EXCEPT !.seeks = left.seeks - 1]
        /\ left \in [seeks : 0 .. MaxSeeks, pauses : 0 .. MaxPauses]
    BY <1>7 DEF BeginSeek, CallOK
  <2>4. left'.seeks = left.seeks - 1
        /\ left' \in [seeks : 0 .. MaxSeeks, pauses : 0 .. MaxPauses]
    BY <1>3, <2>3
  <2>5. Call(SeekSteps)
        /\ \A name : Has(SeekSteps, name) <=> Has(PauseSteps, name) \/ Has(Moving, name)
    BY Pausing, Seeking, Joined
  <2>6. Call(steps)
    BY <2>5, Pausing, Joined
  <2>7. Ahead(steps) \in 0 .. 2 /\ Once(~Has(steps, "exitPmo")) \in 0 .. 1
    BY DEF Ahead, Once
  <2>8. Ahead(steps) + 2 * left'.seeks + Once(~Has(steps, "exitPmo")) <= 2 * left.seeks + 1
    <3> HIDE DEF steps
    <3> QED BY <1>3, <2>4, <2>7
  <2> QED BY <1>1, <1>2, <2>1, <2>2, <2>4, <2>6, <2>8, Begun
<1>8. CASE BeginDelete
  <2>1. PICK steps \in {DeleteSteps, PauseSteps \o DeleteSteps} : Begins(steps)
    BY <1>8 DEF BeginDelete
  <2>2. Call(steps) /\ Has(steps, "exitPmo") /\ Has(steps, "rewind") /\ ~Has(steps, "seek")
    <3>1. Call(PauseSteps \o DeleteSteps)
          /\ \A name : Has(PauseSteps \o DeleteSteps, name) <=> Has(PauseSteps, name) \/ Has(DeleteSteps, name)
      BY Pausing, Deleting, Joined
    <3>2. CASE steps = DeleteSteps
      BY <3>2, Deleting
    <3>3. CASE steps = PauseSteps \o DeleteSteps
      BY <3>1, <3>3, Pausing, Deleting
    <3> QED BY <3>2, <3>3
  <2>3. left' = left /\ left' \in [seeks : 0 .. MaxSeeks, pauses : 0 .. MaxPauses]
    BY <1>8 DEF BeginDelete, CallOK
  <2>4. Ahead(steps) + 2 * left'.seeks + Once(~Has(steps, "exitPmo"))
          <= 2 * left.seeks + 1
    BY <1>3, <2>2, <2>3 DEF Ahead, Once
  <2> QED BY <1>1, <1>2, <1>3, <1>4, <2>1, <2>2, <2>3, <2>4, Begun
<1> QED BY <1>2, <1>5, <1>6, <1>7, <1>8 DEF CtlBegins

\* A step of the call: positioning the file uses up a part of the bound.
LEMMA StepTaken ==
  ASSUME UnitsOK, FramesOK, CallOK, NEW name, Step(name),
         epoch' = epoch + Once(name \in {"rewind", "seek"}),
         exiting'["pmo"] <=> exiting["pmo"] \/ name = "exitPmo"
  PROVE  CallOK'
<1>1. /\ ctl.todo # <<>> /\ Head(ctl.todo) = name /\ Call(ctl.todo)
      /\ ctl'.todo = Tail(ctl.todo) /\ left' = left
      /\ ctl' \in [todo : Seq(StepNames), pos : 0 .. FileLen - 1]
  <2>1. ctl.pos \in 0 .. FileLen - 1 /\ 0 \in 0 .. FileLen - 1
    BY DEF CallOK
  <2>2. Tail(ctl.todo) \in Seq(StepNames) /\ Call(ctl.todo)
    BY Stepped DEF Step, CallOK, Call
  <2> QED BY <2>1, <2>2 DEF Step
<1>2. Call(ctl'.todo)
  BY <1>1, Stepped
<1>3. Ending' <=> Ending
  <2>1. Has(ctl.todo, name) /\ (name # "exitPmo" => (Has(ctl'.todo, "exitPmo") <=> Has(ctl.todo, "exitPmo")))
    BY <1>1, Stepped
  <2>2. Ending' <=> exiting'["pmo"] \/ Has(ctl'.todo, "exitPmo")
    BY DEF Ending, Has
  <2> QED BY <2>1, <2>2 DEF Ending
<1>4. Ahead(ctl.todo) = Ahead(ctl'.todo) + Once(name \in {"rewind", "seek"})
  <2>1. CASE name = "rewind"
    BY <1>1, <2>1, Stepped DEF Ahead, Once
  <2>2. CASE name = "seek"
    BY <1>1, <2>2, Stepped DEF Ahead, Once
  <2>3. CASE name \notin {"rewind", "seek"}
    BY <1>1, <2>3, Stepped DEF Ahead, Once
  <2> QED BY <2>1, <2>2, <2>3
<1>5. /\ epoch \in Nat /\ Ahead(ctl'.todo) \in Nat /\ left.seeks \in Nat /\ MaxEpoch \in Nat
      /\ Once(name \in {"rewind", "seek"}) \in Nat /\ Once(~Ending) \in Nat
  BY DEF FramesOK, CallOK, Ahead, Once, MaxEpoch
<1>6. epoch' + Ahead(ctl'.todo) + 2 * left.seeks + Once(~Ending) <= MaxEpoch
  <2>1. epoch + Ahead(ctl.todo) + 2 * left.seeks + Once(~Ending) <= MaxEpoch
    BY DEF CallOK
  <2>2. ASSUME NEW e \in Nat, NEW a \in Nat, NEW k \in Nat, NEW l \in Nat, NEW o \in Nat,
               e + (a + k) + 2 * l + o <= MaxEpoch
        PROVE  (e + k) + a + 2 * l + o <= MaxEpoch
    BY <1>5, <2>2
  <2> QED BY <1>4, <1>5, <2>1, <2>2
<1>7. MaxEpoch' = MaxEpoch /\ Call(ctl.todo)' /\ Ahead(ctl.todo)' = Ahead(ctl'.todo)
      /\ Once(~Ending)' = Once(~Ending)
  BY <1>2, <1>3 DEF MaxEpoch, Call, Ahead, Has, Once
<1> QED BY <1>1, <1>6, <1>7 DEF CallOK

\* Positioning the file is within the bound.
LEMMA EpochLeft ==
  ASSUME FramesOK, CallOK, NEW name \in {"rewind", "seek"}, Step(name)
  PROVE  epoch + 1 \in 0 .. MaxEpoch
<1>1. Has(ctl.todo, name)
  BY Stepped DEF Step, CallOK
<1>2. Ahead(ctl.todo) \in Nat /\ Ahead(ctl.todo) >= 1
  BY <1>1 DEF Ahead, Once
<1>3. epoch \in Nat /\ left.seeks \in Nat /\ MaxEpoch \in Nat /\ Once(~Ending) \in Nat
  BY DEF FramesOK, CallOK, MaxEpoch, Once
<1>4. epoch + Ahead(ctl.todo) + 2 * left.seeks + Once(~Ending) <= MaxEpoch
  BY DEF CallOK
<1>5. ASSUME NEW e \in Nat, NEW a \in Nat, NEW l \in Nat, NEW o \in Nat, NEW m \in Nat,
             a >= 1, e + a + 2 * l + o <= m
      PROVE  e + 1 \in 0 .. m
  BY <1>5
<1> QED BY <1>2, <1>3, <1>4, <1>5

LEMMA CallSteps == UnitsOK /\ FramesOK /\ CallOK /\ CtlNext => CallOK'
<1> SUFFICES ASSUME UnitsOK, FramesOK, CallOK, CtlNext PROVE CallOK'
  OBVIOUS
<1>1. \E name \in StepNames :
        /\ Step(name) /\ epoch' = epoch + Once(name \in {"rewind", "seek"})
        /\ exiting'["pmo"] <=> exiting["pmo"] \/ name = "exitPmo"
  <2>1. epoch \in Nat /\ epoch + 0 = epoch
    BY DEF FramesOK
  <2>2. CASE PauseUnit \/ ResumeUnit \/ JoinUnit \/ ResetCard \/ ClearOutput \/ ClearInput
             \/ PositionDecoder
    <3>1. \E name \in StepNames \ {"rewind", "seek", "exitPmo"} : Step(name)
      BY <2>2 DEF PauseUnit, ResumeUnit, JoinUnit, ResetCard, ClearOutput, ClearInput,
         PositionDecoder, StepNames
    <3>2. epoch' = epoch /\ exiting' = exiting
      BY <2>2 DEF PauseUnit, ResumeUnit, JoinUnit, ResetCard, ClearOutput, ClearInput,
         PositionDecoder, Pause, Resume, fileVars, unitVars
    <3> QED BY <2>1, <3>1, <3>2 DEF Once
  <2>3. CASE ExitUnit
    <3>1. epoch' = epoch
      BY <2>3 DEF ExitUnit, fileVars
    <3>2. \E name \in {"exitPmo", "exitLmc", "exitPmi"} :
            Step(name) /\ (exiting'["pmo"] <=> exiting["pmo"] \/ name = "exitPmo")
      BY <2>3, UnitNames DEF ExitUnit, Exit, UnitsOK
    <3> QED BY <2>1, <3>1, <3>2 DEF Once, StepNames
  <2>4. CASE PositionFile
    <3>1. epoch' = epoch + 1 /\ exiting' = exiting
          /\ \E name \in {"rewind", "seek"} : Step(name)
      BY <2>4 DEF PositionFile, unitVars
    <3> QED BY <3>1 DEF Once, StepNames
  <2> QED BY <2>2, <2>3, <2>4 DEF CtlNext
<1> QED BY <1>1, StepTaken

\* The windows keep the player from taking away what a worker is at.
LEMMA CtlData == UnitsOK /\ Data /\ CallOK /\ (CtlNext \/ CtlBegins \/ CardPlays) => Data'
<1> SUFFICES ASSUME UnitsOK, Data, CallOK, CtlNext \/ CtlBegins \/ CardPlays PROVE Data'
  OBVIOUS
<1>. USE UnitNames DEF Data
<1>1. at' = at
  BY DEF CtlNext, PauseUnit, ResumeUnit, ExitUnit, JoinUnit, ResetCard, ClearOutput,
     ClearInput, PositionFile, PositionDecoder, Pause, Resume, Exit, CtlBegins, BeginPause,
     BeginResume, BeginSeek, BeginDelete, Begins, CardPlays, unitVars
<1>2. CASE UNCHANGED <<fileVars, inVars, outVars, lmcVars, pmoVars, told>>
  BY <1>1, <1>2 DEF fileVars, inVars, outVars, lmcVars, pmoVars, FramesOK, WindowsOK,
     ContentsOK, EventsOK, CardOK
<1>3. CASE PauseUnit \/ ResumeUnit \/ ExitUnit \/ JoinUnit \/ CtlBegins
  <2>1. UNCHANGED <<fileVars, inVars, outVars, lmcVars, pmoVars, told>>
    BY <1>3 DEF PauseUnit, ResumeUnit, ExitUnit, JoinUnit, CtlBegins, BeginPause,
       BeginResume, BeginSeek, BeginDelete, Begins, Step
  <2> QED BY <1>2, <2>1
<1>4. CASE CardPlays
  <2>1. UNCHANGED <<fileVars, inVars, outVars, lmcVars, opened, ready, written, told>>
        /\ card' \in 0 .. CardCap
    BY <1>4 DEF CardPlays, pmoUnchanged, CardOK
  <2> QED BY <1>1, <2>1 DEF fileVars, inVars, outVars, lmcVars, FramesOK, WindowsOK,
          ContentsOK, EventsOK, CardOK
<1>5. CASE ResetCard
  <2>1. UNCHANGED <<fileVars, inVars, outVars, lmcVars, opened, written, told>>
        /\ card' \in 0 .. CardCap /\ ready' \in BOOLEAN
    <3>1. card \in 0 .. CardCap /\ ready \in BOOLEAN /\ opened \in BOOLEAN /\ 0 \in 0 .. CardCap
      BY DEF CardOK
    <3>2. /\ card' = card \/ card' = 0
          /\ ready' = (ready /\ ~opened) \/ ready' = (ready \/ opened)
      BY <1>5 DEF ResetCard
    <3>3. card' \in 0 .. CardCap /\ ready' \in BOOLEAN
      BY <3>1, <3>2
    <3> QED BY <1>5, <3>3 DEF ResetCard, Step
  <2> QED BY <1>1, <2>1 DEF fileVars, inVars, outVars, lmcVars, FramesOK, WindowsOK,
          ContentsOK, EventsOK, CardOK
<1>6. CASE ClearOutput
  <2>1. /\ UNCHANGED <<fileVars, inVars, lmcVars, pmoVars, told, outGrant>>
        /\ \/ events' = <<>> /\ UNCHANGED <<outData, outStart>>
           \/ /\ outGrant = {} /\ events' = events
              /\ outData' = <<>> /\ outStart' = 0
    BY <1>6 DEF ClearOutput, Step
  <2>2. events' \in Seq(EventRecords) /\ outStart' \in 0 .. OutCap - 1
    <3>1. events \in Seq(EventRecords) /\ <<>> \in Seq(EventRecords)
          /\ outStart \in 0 .. OutCap - 1 /\ 0 \in 0 .. OutCap - 1
      BY DEF EventsOK
    <3> QED BY <2>1, <3>1
  <2>3. outData' \in Seq(Frames) /\ Len(outData') <= OutCap
    <3>1. /\ outData \in Seq(Frames) /\ Len(outData) <= OutCap
          /\ <<>> \in Seq(Frames) /\ Len(<<>>) <= OutCap
      BY DEF FramesOK
    <3> QED BY <2>1, <3>1
  <2>4. WindowsOK' /\ ContentsOK'
    BY <1>1, <2>1 DEF fileVars, inVars, lmcVars, WindowsOK, ContentsOK
  <2> QED BY <2>1, <2>2, <2>3, <2>4 DEF fileVars, inVars, lmcVars, pmoVars, FramesOK,
          EventsOK, CardOK
<1>7. CASE ClearInput
  <2>1. /\ UNCHANGED <<fileVars, outVars, lmcVars, pmoVars, told, inGrant>>
        /\ inGrant = {} /\ inData' = <<>> /\ inEos' = FALSE
    BY <1>7 DEF ClearInput, Step
  <2>2. WindowsOK' /\ ContentsOK'
    BY <1>1, <2>1 DEF fileVars, outVars, lmcVars, WindowsOK, ContentsOK
  <2>3. FramesOK'
    <3>1. <<>> \in Seq(Frames) /\ Len(<<>>) <= InCap
      OBVIOUS
    <3>2. inData' \in Seq(Frames) /\ Len(inData') <= InCap
      BY <2>1, <3>1
    <3> QED BY <2>1, <3>2 DEF fileVars, outVars, lmcVars, pmoVars, FramesOK
  <2> QED BY <2>1, <2>2, <2>3 DEF outVars, lmcVars, pmoVars, EventsOK, CardOK
<1>8. CASE PositionFile
  <2>1. /\ UNCHANGED <<fetched, inVars, outVars, lmcVars, pmoVars, told>>
        /\ (filePos' = 0 \/ filePos' = ctl.pos) /\ epoch' = epoch + 1
        /\ \E name \in {"rewind", "seek"} : Step(name)
    BY <1>8 DEF PositionFile, Step
  <2>2. filePos' \in 0 .. FileLen /\ epoch' \in 0 .. MaxEpoch
    BY <1>8, <2>1, EpochLeft DEF PositionFile, CallOK
  <2> QED BY <1>1, <2>1, <2>2 DEF inVars, outVars, lmcVars, pmoVars, FramesOK, WindowsOK,
          ContentsOK, EventsOK, CardOK
<1>9. CASE PositionDecoder
  <2>1. UNCHANGED <<fileVars, inVars, outVars, decoded, pmoVars, told>> /\ frameCounter' \in Nat
    BY <1>9 DEF PositionDecoder, Step, CallOK
  <2> QED BY <1>1, <2>1 DEF fileVars, inVars, outVars, pmoVars, FramesOK, WindowsOK,
          ContentsOK, EventsOK, CardOK
<1> QED BY <1>3, <1>4, <1>5, <1>6, <1>7, <1>8, <1>9 DEF CtlNext

-----------------------------------------------------------------------------
(* The invariant, and what follows from it at once                            *)

IInv == UnitsOK /\ Data /\ ReadSizeOK /\ CallOK

LEMMA InitIInv == Init => IInv
<1> SUFFICES ASSUME Init PROVE IInv
  OBVIOUS
<1>. USE UnitNames DEF Init
<1>1. UnitsOK
  BY DEF UnitsOK, Places, PmiPlaces, LmcPlaces, PmoPlaces
<1>2. FramesOK
  <2>1. <<>> \in Seq(Frames) /\ Len(<<>>) = 0 /\ MaxEpoch \in Nat
    BY DEF MaxEpoch
  <2>2. filePos \in 0 .. FileLen /\ epoch \in 0 .. MaxEpoch
    BY <2>1
  <2>5. inEos \in BOOLEAN
    BY Zenon
  <2>3. /\ fetched \in Seq(Frames) /\ inData \in Seq(Frames) /\ outData \in Seq(Frames)
        /\ decoded \in Frames \cup {NoFrame} /\ written \in Frames \cup {NoFrame}
    BY <2>1
  <2>4. Len(fetched) <= 1 /\ Len(inData) <= InCap /\ Len(outData) <= OutCap
    BY <2>1
  <2> QED BY <2>2, <2>3, <2>4, <2>5 DEF FramesOK
<1>3. WindowsOK /\ ContentsOK
  BY DEF WindowsOK, ContentsOK
<1>5. CardOK
  <2>1. opened \in BOOLEAN /\ ready \in BOOLEAN
    BY Zenon
  <2>2. card \in 0 .. CardCap /\ told \subseteq {"done", "error"}
    OBVIOUS
  <2> QED BY <2>1, <2>2 DEF CardOK
<1>6. EventsOK
  <2>1. <<>> \in Seq(EventRecords) /\ 0 \in 0 .. OutCap - 1
    OBVIOUS
  <2> QED BY <2>1 DEF EventsOK
<1>4. CallOK
  <2>1. ctl.todo = <<>> /\ ctl.pos = 0 /\ Call(<<>>) /\ ~Ending /\ Ahead(ctl.todo) = 0
    BY Pausing DEF Ending, Ahead, Once
  <2>2. epoch = 0 /\ left.seeks = MaxSeeks /\ Once(~Ending) = 1
    BY <2>1 DEF Once
  <2>3. epoch + Ahead(ctl.todo) + 2 * left.seeks + Once(~Ending) <= MaxEpoch
    BY <2>1, <2>2 DEF MaxEpoch
  <2> QED BY <2>1, <2>3 DEF CallOK, Call
<1>7. ReadSizeOK
  <2>1. ReadAhead \in 1 .. InCap
    BY PipelineAssumption
  <2> QED BY <2>1 DEF ReadSizeOK
<1> QED BY <1>1, <1>2, <1>3, <1>4, <1>5, <1>6, <1>7 DEF IInv, Data

\* Only the decoder's two looks at the buffer change the size it asks for.
LEMMA ReadSizes == ReadSizeOK /\ Data /\ [Next]_vars => ReadSizeOK'
<1> SUFFICES ASSUME ReadSizeOK, Data, [Next]_vars PROVE ReadSizeOK'
  OBVIOUS
<1>1. CASE LmcSize
  <2>1. ReadAhead \in 1 .. InCap
    BY PipelineAssumption
  <2>2. Len(inData) \in Nat /\ Len(inData) <= InCap /\ (inData # <<>> => Len(inData) # 0)
    BY DEF Data, FramesOK
  <2>3. inData # <<>> => Len(inData) \in 1 .. InCap
    BY <2>2, PipelineAssumption
  <2>4. want' = want \/ want' = ReadAhead \/ (inData # <<>> /\ want' = Len(inData))
    BY <1>1 DEF LmcSize
  <2> QED BY <2>1, <2>3, <2>4 DEF ReadSizeOK
<1>2. CASE LmcNext /\ ~LmcSize
  <2>1. want' = want
    BY <1>2 DEF LmcNext, LmcStart, LmcCanDecode, LmcPostInit, LmcPost, LmcTop, LmcWaits,
       LmcRead, LmcPostQuit, LmcHang, LmcWrite, LmcDecode, LmcEndWrite, LmcCount, LmcAdvance,
       lmcVars
  <2> QED BY <2>1 DEF ReadSizeOK
<1>3. CASE PmiNext \/ PmoNext \/ CardPlays
  <2>1. want' = want
    BY <1>3 DEF PmiNext, PmiStart, PmiTop, PmiWaits, PmiBegin, PmiRead, PmiEndWrite, PmiSetEos,
       pmiUnchanged, PmoNext, PmoStart, PmoTop, PmoWaits, PmoReady, PmoAwaitInit, PmoTry, PmoPeek,
       PmoTake, PmoDrain, PmoSpace, PmoWrite, CardPlays, pmoUnchanged, lmcVars
  <2> QED BY <2>1 DEF ReadSizeOK
<1>4. CASE CtlNext \/ CtlBegins
  <2>1. want' = want
    BY <1>4 DEF CtlNext, PauseUnit, ResumeUnit, ExitUnit, JoinUnit, ResetCard, ClearOutput,
       ClearInput, PositionFile, PositionDecoder, CtlBegins, BeginPause, BeginResume, BeginSeek,
       BeginDelete, Begins, lmcVars
  <2> QED BY <2>1 DEF ReadSizeOK
<1>5. CASE UNCHANGED vars
  BY <1>5 DEF vars, lmcVars, ReadSizeOK
<1> QED BY <1>1, <1>2, <1>3, <1>4, <1>5 DEF Next

LEMMA NextIInv == IInv /\ [Next]_vars => IInv'
<1> SUFFICES ASSUME IInv, [Next]_vars PROVE IInv'
  OBVIOUS
<1>1. CASE Next
  <2>1. UnitsOK'
    BY <1>1, NextUnits DEF IInv, Data
  <2>2. Data'
    BY <1>1, PmiData, LmcData, PmoData, CtlData DEF IInv, Next
  <2>3. CallOK'
    <3>1. CASE CtlNext \/ CtlBegins
      BY <3>1, CallSteps, CallBegins DEF IInv, Data
    <3>2. CASE PmiNext \/ LmcNext \/ PmoNext \/ CardPlays
      <4>1. UNCHANGED <<epoch, exiting, ctl, left>>
        <5>1. CASE PmiNext
          BY <5>1 DEF PmiNext, PmiStart, PmiTop, PmiWaits, PmiBegin, PmiRead, PmiEndWrite,
             PmiSetEos, pmiUnchanged, Moves, Awakes, Unpauses, fileVars, ctlVars
        <5>2. CASE LmcNext
          BY <5>2 DEF LmcNext, LmcStart, LmcCanDecode, LmcPostInit, LmcPost, LmcTop, LmcSize, LmcWaits,
             LmcRead, LmcPostQuit, LmcHang, LmcWrite, LmcDecode, LmcEndWrite, LmcCount,
             LmcAdvance, lmcUnchanged, MovesAndWakesPmi, Moves, Awakes, Unpauses, fileVars,
             ctlVars
        <5>3. CASE PmoNext
          <6>1. UNCHANGED <<epoch, ctl, left>>
            BY <5>3 DEF PmoNext, PmoStart, PmoTop, PmoWaits, PmoReady, PmoAwaitInit, PmoTry,
               PmoPeek, PmoTake, PmoDrain, PmoSpace, PmoWrite, pmoUnchanged, fileVars, ctlVars
          <6>2. ASSUME PmoTake PROVE exiting' = exiting
            <7>1. CASE events = <<>>
              BY <6>2, <7>1 DEF PmoTake, Moves
            <7>2. CASE events # <<>>
              BY <6>2, <7>2, HeadEvent DEF PmoTake, InitCard, Moves, IInv, Data
            <7> QED BY <7>1, <7>2
          <6>3. ASSUME PmoNext, ~PmoTake PROVE exiting' = exiting
            BY <6>3 DEF PmoNext, PmoStart, PmoTop, PmoWaits, PmoReady, PmoAwaitInit, InitCard,
               PmoTry, PmoPeek, PmoDrain, PmoSpace, PmoWrite, MovesAndWakesLmc, Moves, Unpauses
          <6>4. exiting' = exiting
            BY <5>3, <6>2, <6>3
          <6> QED BY <6>1, <6>4
        <5>4. CASE CardPlays
          BY <5>4 DEF CardPlays, pmoUnchanged, unitVars, fileVars, ctlVars
        <5> QED BY <3>2, <5>1, <5>2, <5>3, <5>4
      <4> QED BY <4>1 DEF IInv, CallOK, Call, Ahead, Ending, Has, MaxEpoch
    <3> QED BY <1>1, <3>1, <3>2 DEF Next
  <2>4. ReadSizeOK'
    BY ReadSizes DEF IInv
  <2> QED BY <2>1, <2>2, <2>3, <2>4 DEF IInv
<1>2. CASE UNCHANGED vars
  <2>. USE <1>2 DEF vars, unitVars, fileVars, inVars, outVars, lmcVars, pmoVars, ctlVars
  <2>1. UnitsOK'
    BY DEF IInv, UnitsOK
  <2>2. FramesOK'
    BY DEF IInv, Data, FramesOK
  <2>3. WindowsOK' /\ ContentsOK'
    BY DEF IInv, Data, WindowsOK, ContentsOK
  <2>4. EventsOK' /\ CardOK'
    BY DEF IInv, Data, EventsOK, CardOK
  <2>5. CallOK'
    BY DEF IInv, CallOK, Call, Ahead, Ending, Has, MaxEpoch
  <2>6. ReadSizeOK'
    BY ReadSizes DEF IInv
  <2> QED BY <2>1, <2>2, <2>3, <2>4, <2>5, <2>6 DEF IInv, Data
<1> QED BY <1>1, <1>2

THEOREM PipelineInvariant == Spec => []IInv
BY InitIInv, NextIInv, PTL DEF Spec

\* Every variable has its type, nothing is written into a full buffer, and the
\* file is positioned no oftener than its bound says.
THEOREM PipelineTypes == Spec => []TypeOK
<1>1. IInv => TypeOK
  <2> SUFFICES ASSUME IInv PROVE TypeOK
    OBVIOUS
  <2>1. \A i \in 1 .. Len(events) :
          events[i] \in [kind : {"init", "time", "quit"}, num : Nat, idx : 0 .. OutCap - 1]
    <3>1. events \in Seq(EventRecords)
      BY DEF IInv, Data, EventsOK
    <3>2. \A i \in 1 .. Len(events) : events[i] \in EventRecords
      BY <3>1
    <3> QED BY <3>2 DEF EventRecords
  <2> QED BY <2>1 DEF IInv, TypeOK, UnitsOK, Data, FramesOK, WindowsOK, ReadSizeOK, EventsOK,
          CardOK, CallOK
<1> QED BY <1>1, PipelineInvariant, PTL

\* Nobody sleeps or is paused while he holds a window (PullBuffer::Clear waits
\* until nobody does).
THEOREM NoSleeperHoldsAWindow == Spec => []NoneAsleepWithWindow
<1>1. IInv => NoneAsleepWithWindow
  BY DEF IInv, Data, WindowsOK, NoneAsleepWithWindow
<1> QED BY <1>1, PipelineInvariant, PTL

-----------------------------------------------------------------------------
(* What was read before the file was positioned                               *)

\* Either the input buffer is going to be cleared, or everything in it and on
\* its way into it was read since the file was last positioned.
FreshOK ==
  \/ Has(ctl.todo, "clearIn")
  \/ /\ \A i \in 1 .. Len(inData) : inData[i].epoch = epoch
     /\ \A i \in 1 .. Len(fetched) : fetched[i].epoch = epoch

\* A step of the input.
LEMMA PmiFresh == IInv /\ FreshOK /\ PmiNext => FreshOK'
<1> SUFFICES ASSUME IInv, FreshOK, PmiNext PROVE FreshOK'
  OBVIOUS
<1>1. ctl' = ctl /\ epoch' = epoch
  BY DEF PmiNext, PmiStart, PmiTop, PmiWaits, PmiBegin, PmiRead, PmiEndWrite, PmiSetEos,
     pmiUnchanged, fileVars, ctlVars
<1>2. CASE Has(ctl.todo, "clearIn")
  BY <1>1, <1>2 DEF FreshOK, Has
<1>3. CASE ~Has(ctl.todo, "clearIn")
  <2>1. /\ \A i \in 1 .. Len(inData) : inData[i].epoch = epoch
        /\ \A i \in 1 .. Len(fetched) : fetched[i].epoch = epoch
    BY <1>3 DEF FreshOK
  <2>2. inData \in Seq(Frames) /\ fetched \in Seq(Frames)
    BY DEF IInv, Data, FramesOK
  <2>3. CASE PmiStart \/ PmiTop \/ PmiWaits \/ PmiBegin \/ PmiSetEos
    <3>1. inData' = inData /\ fetched' = fetched
      BY <2>3 DEF PmiStart, PmiTop, PmiWaits, PmiBegin, PmiSetEos, fileVars, inVars
    <3> QED BY <1>1, <2>1, <3>1 DEF FreshOK
  <2>4. CASE PmiRead
    <3>1. inData' = inData
          /\ (fetched' = <<>> \/ fetched' = <<[num |-> filePos, epoch |-> epoch]>>)
      BY <2>4 DEF PmiRead, inVars
    <3>2. \A i \in 1 .. Len(fetched') : fetched'[i].epoch = epoch
      BY <3>1
    <3> QED BY <1>1, <2>1, <3>1, <3>2 DEF FreshOK
  <2>5. CASE PmiEndWrite
    <3>1. inData' = inData \o fetched /\ fetched' = <<>>
      BY <2>5 DEF PmiEndWrite
    <3>2. \A i \in 1 .. Len(inData \o fetched) : (inData \o fetched)[i].epoch = epoch
      BY <2>1, <2>2, ConcatProperties
    <3> QED BY <1>1, <3>1, <3>2 DEF FreshOK
  <2> QED BY <2>3, <2>4, <2>5 DEF PmiNext
<1> QED BY <1>2, <1>3

\* The decoder only takes frames away.
LEMMA LmcInput ==
  ASSUME IInv, LmcNext
  PROVE  /\ inData' = inData \/ (inData # <<>> /\ inData' = Tail(inData))
         /\ UNCHANGED <<fetched, epoch, filePos, ctl>>
<1>1. UNCHANGED <<fetched, epoch, filePos, ctl>>
  BY DEF LmcNext, LmcStart, LmcCanDecode, LmcPostInit, LmcPost, LmcTop, LmcSize, LmcWaits, LmcRead,
     LmcPostQuit, LmcHang, LmcWrite, LmcDecode, LmcEndWrite, LmcCount, LmcAdvance,
     lmcUnchanged, fileVars, ctlVars
<1>2. CASE LmcDecode
  BY <1>1, <1>2, UnitNames DEF LmcDecode, MovesAndWakesPmi, IInv, Data, ContentsOK
<1>3. CASE LmcAdvance
  BY <1>1, <1>3, Granted DEF LmcAdvance, IInv, Data
<1>4. CASE LmcNext /\ ~LmcDecode /\ ~LmcAdvance
  <2>1. inData' = inData
    BY <1>4 DEF LmcNext, LmcStart, LmcCanDecode, LmcPostInit, LmcPost, LmcTop, LmcSize, LmcWaits,
       LmcRead, LmcPostQuit, LmcHang, LmcWrite, LmcEndWrite, LmcCount, inVars
  <2> QED BY <1>1, <2>1
<1> QED BY <1>2, <1>3, <1>4

LEMMA InitFresh == Init => FreshOK
BY DEF Init, FreshOK

LEMMA NextFresh == IInv /\ FreshOK /\ [Next]_vars => FreshOK'
<1> SUFFICES ASSUME IInv, FreshOK, [Next]_vars PROVE FreshOK'
  OBVIOUS
<1>1. CASE PmiNext
  BY <1>1, PmiFresh
<1>2. CASE LmcNext
  <2>1. inData \in Seq(Frames)
    BY DEF IInv, Data, FramesOK
  <2>2. inData # <<>> => \A i \in 1 .. Len(Tail(inData)) :
                           i + 1 \in 1 .. Len(inData) /\ Tail(inData)[i] = inData[i + 1]
    BY <2>1
  <2>3. CASE Has(ctl.todo, "clearIn")
    BY <1>2, <2>3, LmcInput DEF FreshOK, Has
  <2>4. CASE ~Has(ctl.todo, "clearIn")
    <3>1. \A i \in 1 .. Len(inData') : inData'[i].epoch = epoch
      BY <1>2, <2>2, <2>4, LmcInput DEF FreshOK
    <3> QED BY <1>2, <2>4, <3>1, LmcInput DEF FreshOK
  <2> QED BY <2>3, <2>4
<1>3. CASE PmoNext \/ CardPlays
  <2>1. UNCHANGED <<inData, fetched, epoch, ctl>>
    BY <1>3 DEF PmoNext, PmoStart, PmoTop, PmoWaits, PmoReady, PmoAwaitInit, PmoTry, PmoPeek,
       PmoTake, PmoDrain, PmoSpace, PmoWrite, CardPlays, pmoUnchanged, fileVars, inVars, ctlVars
  <2> QED BY <2>1 DEF FreshOK, Has
<1>4. CASE CtlBegins
  <2>1. ~Has(ctl.todo, "clearIn")
    BY <1>4, CallBegins DEF IInv, Data
  <2>2. UNCHANGED <<inData, fetched, epoch>>
    BY <1>4 DEF CtlBegins, BeginPause, BeginResume, BeginSeek, BeginDelete, Begins, fileVars, inVars
  <2> QED BY <2>1, <2>2 DEF FreshOK
<1>5. CASE ClearInput
  <2>1. inGrant = {} /\ inData' = <<>> /\ UNCHANGED <<fetched, epoch>>
    BY <1>5 DEF ClearInput, fileVars
  <2>2. fetched = <<>>
    BY <2>1 DEF IInv, Data, WindowsOK, ContentsOK
  <2> QED BY <2>1, <2>2 DEF FreshOK
<1>6. CASE PositionFile
  <2>1. \E name \in {"rewind", "seek"} : Step(name)
    BY <1>6 DEF PositionFile
  <2>2. Has(ctl.todo, "clearIn")'
    <3>1. Has(Tail(ctl.todo), "clearIn")
      BY <2>1, Stepped DEF Step, IInv, CallOK
    <3>2. ctl'.todo = Tail(ctl.todo)
      BY <2>1 DEF Step
    <3> QED BY <3>1, <3>2 DEF Has
  <2> QED BY <2>2 DEF FreshOK
<1>7. CASE PauseUnit \/ ResumeUnit \/ ExitUnit \/ JoinUnit \/ ResetCard \/ ClearOutput
           \/ PositionDecoder
  <2>1. UNCHANGED <<inData, fetched, epoch>>
        /\ \E name \in StepNames \ {"clearIn"} : Step(name)
    BY <1>7 DEF PauseUnit, ResumeUnit, ExitUnit, JoinUnit, ResetCard, ClearOutput,
       PositionDecoder, fileVars, inVars, StepNames
  <2>2. Has(ctl.todo, "clearIn")' <=> Has(ctl.todo, "clearIn")
    <3>1. Has(Tail(ctl.todo), "clearIn") <=> Has(ctl.todo, "clearIn")
      BY <2>1, Stepped DEF Step, IInv, CallOK
    <3>2. ctl'.todo = Tail(ctl.todo)
      BY <2>1 DEF Step
    <3> QED BY <3>1, <3>2 DEF Has
  <2> QED BY <2>1, <2>2 DEF FreshOK
<1>8. CASE UNCHANGED vars
  BY <1>8 DEF FreshOK, Has, vars, fileVars, inVars, ctlVars
<1> QED BY <1>1, <1>2, <1>3, <1>4, <1>5, <1>6, <1>7, <1>8 DEF Next, CtlNext

\* When the player's call returns, nothing that was read before the file was
\* positioned is in the input buffer, whatever the input thread was doing.
THEOREM NoFrameOfTheOldPosition == Spec => []NoStaleInput
<1>1. FreshOK => NoStaleInput
  BY Pausing DEF FreshOK, NoStaleInput
<1> QED BY <1>1, InitFresh, NextFresh, PipelineInvariant, PTL DEF Spec

-----------------------------------------------------------------------------
(* The order of the frames on their way                                       *)

AnyFrames == Frames \cup {NoFrame}

LEMMA FrameFields ==
  /\ NoFrame.num = -1 /\ NoFrame.epoch = 0
  /\ \A f \in AnyFrames : f.num \in Int /\ f.epoch \in Int
  /\ \A f \in Frames : f.num \in Nat /\ f.epoch \in Nat
BY DEF AnyFrames, Frames, NoFrame, MaxEpoch

Before(f, g) == f.epoch < g.epoch \/ (f.epoch = g.epoch /\ f.num < g.num)
Sorted(s) == \A i, j \in 1 .. Len(s) : i < j => Before(s[i], s[j])
In(s) == {s[i] : i \in 1 .. Len(s)}
AllBefore(S, T) == \A f \in S, g \in T : Before(f, g)

\* The frame that is decoded and not yet in the output buffer.
Hand == IF at["lmc"] = "endWrite" THEN {decoded} ELSE {}

\* A frame that the file has given already.
Given(f) == Before(f, [num |-> filePos, epoch |-> epoch])

OrderOK ==
  /\ Sorted(outData) /\ Sorted(inData)
  /\ AllBefore({written}, In(outData)) /\ AllBefore({written}, Hand)
  /\ AllBefore({written}, In(inData)) /\ AllBefore({written}, In(fetched))
  /\ AllBefore(In(outData), Hand) /\ AllBefore(In(outData), In(inData))
  /\ AllBefore(In(outData), In(fetched))
  /\ AllBefore(Hand, In(inData)) /\ AllBefore(Hand, In(fetched))
  /\ AllBefore(In(inData), In(fetched))
  /\ \A f \in {written} \cup In(outData) \cup Hand \cup In(inData) \cup In(fetched) : Given(f)

LEMMA TailSorted ==
  ASSUME NEW S, NEW s \in Seq(S), s # <<>>
  PROVE  /\ In(s) = {Head(s)} \cup In(Tail(s)) /\ Head(s) \in In(s) /\ In(Tail(s)) \subseteq In(s)
         /\ Sorted(s) => Sorted(Tail(s)) /\ AllBefore({Head(s)}, In(Tail(s)))
<1>1. /\ Len(s) \in Nat /\ Len(s) > 0 /\ Head(s) = s[1] /\ Len(Tail(s)) = Len(s) - 1
      /\ \A i \in 1 .. Len(Tail(s)) : i + 1 \in 1 .. Len(s) /\ Tail(s)[i] = s[i + 1]
      /\ \A i \in 2 .. Len(s) : i - 1 \in 1 .. Len(Tail(s)) /\ Tail(s)[i - 1] = s[i]
  OBVIOUS
<1>2. \A f \in In(s) : f = Head(s) \/ f \in In(Tail(s))
  BY <1>1 DEF In
<1>3. Head(s) \in In(s) /\ \A f \in In(Tail(s)) : f \in In(s)
  BY <1>1 DEF In
<1>4. Sorted(s) => Sorted(Tail(s)) /\ AllBefore({Head(s)}, In(Tail(s)))
  BY <1>1 DEF Sorted, AllBefore, In
<1> QED BY <1>2, <1>3, <1>4

LEMMA JoinedSorted ==
  ASSUME NEW S, NEW s \in Seq(S), NEW t \in Seq(S)
  PROVE  /\ In(s \o t) = In(s) \cup In(t)
         /\ Sorted(s) /\ Sorted(t) /\ AllBefore(In(s), In(t)) => Sorted(s \o t)
<1>1. /\ Len(s) \in Nat /\ Len(t) \in Nat /\ Len(s \o t) = Len(s) + Len(t)
      /\ \A i \in 1 .. Len(s \o t) :
           \/ i \in 1 .. Len(s) /\ (s \o t)[i] = s[i]
           \/ i > Len(s) /\ i - Len(s) \in 1 .. Len(t) /\ (s \o t)[i] = t[i - Len(s)]
      /\ \A i \in 1 .. Len(s) : i \in 1 .. Len(s \o t) /\ (s \o t)[i] = s[i]
      /\ \A i \in 1 .. Len(t) : Len(s) + i \in 1 .. Len(s \o t) /\ (s \o t)[Len(s) + i] = t[i]
  BY ConcatProperties
<1>2. In(s \o t) = In(s) \cup In(t)
  <2>1. \A f \in In(s \o t) : f \in In(s) \cup In(t)
    BY <1>1 DEF In
  <2>2. \A f \in In(s) : f \in In(s \o t)
    BY <1>1 DEF In
  <2>3. \A f \in In(t) : f \in In(s \o t)
    BY <1>1 DEF In
  <2> QED BY <2>1, <2>2, <2>3
<1>3. ASSUME Sorted(s), Sorted(t), AllBefore(In(s), In(t)) PROVE Sorted(s \o t)
  <2> SUFFICES ASSUME NEW i \in 1 .. Len(s \o t), NEW j \in 1 .. Len(s \o t), i < j
               PROVE  Before((s \o t)[i], (s \o t)[j])
    BY DEF Sorted
  <2>1. CASE i \in 1 .. Len(s) /\ j \in 1 .. Len(s)
    BY <1>1, <1>3, <2>1 DEF Sorted
  <2>2. CASE i > Len(s) /\ j > Len(s)
    <3>1. /\ i - Len(s) \in 1 .. Len(t) /\ j - Len(s) \in 1 .. Len(t)
          /\ i - Len(s) < j - Len(s)
          /\ (s \o t)[i] = t[i - Len(s)] /\ (s \o t)[j] = t[j - Len(s)]
      BY <1>1, <2>2
    <3> QED BY <1>3, <3>1 DEF Sorted
  <2>3. CASE i \in 1 .. Len(s) /\ j > Len(s)
    <3>1. (s \o t)[i] \in In(s) /\ (s \o t)[j] \in In(t)
      BY <1>1, <2>3 DEF In
    <3> QED BY <1>3, <3>1 DEF AllBefore
  <2> QED BY <1>1, <2>1, <2>2, <2>3
<1> QED BY <1>2, <1>3

LEMMA FramesJoined ==
  ASSUME NEW s \in Seq(AnyFrames), NEW t \in Seq(AnyFrames),
         Sorted(s), Sorted(t), AllBefore(In(s), In(t))
  PROVE  /\ In(s \o t) = In(s) \cup In(t) /\ Sorted(s \o t)
         /\ s \o t \in Seq(AnyFrames) /\ Len(s \o t) \in Nat
<1>1. In(s \o t) = In(s) \cup In(t) /\ Sorted(s \o t)
  BY JoinedSorted
<1> QED BY <1>1

LEMMA OneSorted ==
  ASSUME NEW f
  PROVE  In(<<f>>) = {f} /\ Sorted(<<f>>) /\ In(<<>>) = {} /\ Sorted(<<>>)
BY DEF In, Sorted

LEMMA InitOrder == Init => OrderOK
<1> SUFFICES ASSUME Init PROVE OrderOK
  OBVIOUS
<1>1. In(outData) = {} /\ In(inData) = {} /\ In(fetched) = {} /\ Hand = {}
      /\ Sorted(outData) /\ Sorted(inData)
  BY OneSorted, UnitNames DEF Init, Hand
<1>2. Given(written)
  BY FrameFields DEF Init, Given, Before
<1> QED BY <1>1, <1>2 DEF OrderOK, AllBefore

LEMMA PmiOrder == IInv /\ OrderOK /\ PmiNext => OrderOK'
<1> SUFFICES ASSUME IInv, OrderOK, PmiNext PROVE OrderOK'
  OBVIOUS
<1>1. UNCHANGED <<outData, decoded, written, epoch, Hand>>
  <2>1. UNCHANGED <<outData, decoded, written, epoch>>
    BY DEF PmiNext, PmiStart, PmiTop, PmiWaits, PmiBegin, PmiRead, PmiEndWrite, PmiSetEos,
       pmiUnchanged, fileVars, outVars, lmcVars, pmoVars
  <2>2. at'["lmc"] = at["lmc"]
    BY UnitNames, Arrives DEF IInv, PlacesOf, PmiPlaces, PmiNext, PmiStart, PmiTop, PmiWaits,
       PmiBegin, PmiRead, PmiEndWrite, PmiSetEos
  <2> QED BY <2>1, <2>2 DEF Hand
<1>2. CASE PmiStart \/ PmiTop \/ PmiWaits \/ PmiBegin \/ PmiSetEos
  <2>1. UNCHANGED <<inData, fetched, filePos>>
    BY <1>2 DEF PmiStart, PmiTop, PmiWaits, PmiBegin, PmiSetEos, fileVars, inVars
  <2> QED BY <1>1, <2>1 DEF OrderOK, Sorted, AllBefore, In, Given
<1>3. CASE PmiRead
  <2>1. inData' = inData /\ fetched = <<>>
    BY <1>3, UnitNames DEF PmiRead, Moves, inVars, IInv, Data, ContentsOK
  <2>2. CASE fetched' = <<>> /\ filePos' = filePos
    BY <1>1, <2>1, <2>2 DEF OrderOK, Sorted, AllBefore, In, Given
  <2>3. CASE fetched' = <<[num |-> filePos, epoch |-> epoch]>> /\ filePos' = filePos + 1
    <3> DEFINE new == [num |-> filePos, epoch |-> epoch]
    <3>1. In(fetched') = {new} /\ In(fetched) = {}
      BY <2>1, <2>3, OneSorted
    <3>2. \A f \in {written} \cup In(outData) \cup Hand \cup In(inData) : Before(f, new)
      BY DEF OrderOK, Given
    <3>3. filePos \in Int /\ epoch \in Int
      BY DEF IInv, Data, FramesOK
    <3>4. \A f : f = new => Given(f)'
      BY <1>1, <2>3, <3>3 DEF Given, Before
    <3>5. \A f \in {written} \cup In(outData) \cup Hand \cup In(inData) : f \in AnyFrames
      <4>1. \A f \in In(outData) \cup In(inData) : f \in Frames
        BY DEF In, IInv, Data, FramesOK
      <4>2. written \in AnyFrames /\ \A f \in Hand : f \in AnyFrames
        BY DEF Hand, IInv, Data, FramesOK, AnyFrames
      <4> QED BY <4>1, <4>2 DEF AnyFrames
    <3>6. \A f \in {written} \cup In(outData) \cup Hand \cup In(inData) : Given(f)'
      BY <1>1, <2>3, <3>2, <3>3, <3>5, FrameFields DEF Given, Before
    <3> HIDE DEF new
    <3>7. UNCHANGED <<written, In(outData), Hand, In(inData)>>
          /\ Sorted(outData)' /\ Sorted(inData)'
      BY <1>1, <2>1 DEF In, OrderOK, Sorted
    <3>8. In(fetched)' = {new}
      BY <3>1 DEF In
    <3>9. \A f \in ({written} \cup In(outData) \cup Hand \cup In(inData) \cup In(fetched))' : Given(f)'
      BY <3>4, <3>6, <3>7, <3>8
    <3>10. \A f \in {written} \cup In(outData) \cup Hand \cup In(inData) : \A g \in In(fetched)' : Before(f, g)
      BY <3>2, <3>8
    <3> QED BY <3>7, <3>9, <3>10 DEF OrderOK, AllBefore
  <2> QED BY <1>3, <2>2, <2>3 DEF PmiRead
<1>4. CASE PmiEndWrite
  <2>1. /\ inData' = inData \o fetched /\ fetched' = <<>> /\ filePos' = filePos
        /\ inData \in Seq(Frames) /\ fetched \in Seq(Frames) /\ Len(fetched) <= 1
    BY <1>4 DEF PmiEndWrite, IInv, Data, FramesOK
  <2>2. Sorted(fetched)
    BY <2>1 DEF Sorted
  <2>3. In(inData \o fetched) = In(inData) \cup In(fetched) /\ Sorted(inData \o fetched)
    BY <2>1, <2>2, JoinedSorted DEF OrderOK
  <2>4. /\ In(inData)' = In(inData) \cup In(fetched) /\ Sorted(inData)' /\ In(fetched)' = {}
        /\ UNCHANGED <<written, In(outData), Hand>> /\ Sorted(outData)'
    BY <1>1, <2>1, <2>3 DEF In, Sorted, OrderOK
  <2>5. \A f : Given(f)' <=> Given(f)
    BY <1>1, <2>1 DEF Given
  <2> QED BY <2>4, <2>5 DEF OrderOK, AllBefore
<1> QED BY <1>2, <1>3, <1>4 DEF PmiNext

\* Frames may be taken from anywhere on the way.
LEMMA FewerOrdered ==
  ASSUME OrderOK, written' = written, Sorted(outData)', Sorted(inData)',
         In(outData)' \subseteq In(outData), Hand' \subseteq Hand,
         In(inData)' \subseteq In(inData), In(fetched)' \subseteq In(fetched),
         \A f \in {written} \cup In(outData) \cup Hand \cup In(inData) \cup In(fetched) :
           Given(f) => Given(f)'
  PROVE  OrderOK'
BY DEF OrderOK, AllBefore

LEMMA LmcOrder == IInv /\ OrderOK /\ LmcNext => OrderOK'
<1> SUFFICES ASSUME IInv, OrderOK, LmcNext PROVE OrderOK'
  OBVIOUS
<1>1. written' = written /\ UNCHANGED <<fetched, epoch, filePos>>
  BY LmcInput DEF LmcNext, LmcStart, LmcCanDecode, LmcPostInit, LmcPost, LmcTop, LmcSize, LmcWaits,
     LmcRead, LmcPostQuit, LmcHang, LmcWrite, LmcDecode, LmcEndWrite, LmcCount, LmcAdvance,
     lmcUnchanged, pmoVars
<1>2. (\A f : Given(f)' <=> Given(f)) /\ In(fetched)' = In(fetched)
  BY <1>1 DEF Given, In
<1>3. inData \in Seq(Frames) /\ outData \in Seq(Frames) /\ Sorted(outData) /\ Sorted(inData)
  BY DEF IInv, Data, FramesOK, OrderOK
<1>4. CASE LmcNext /\ ~LmcEndWrite /\ ~(LmcDecode /\ at'["lmc"] = "endWrite")
  <2>1. Hand' \subseteq Hand
    <3>1. at'["lmc"] # "endWrite"
      <4>1. CASE LmcStart \/ LmcCanDecode \/ LmcPostInit \/ LmcPost \/ LmcTop \/ LmcSize
        BY <4>1, UnitNames, Arrives DEF IInv, PlacesOf, LmcPlaces, LmcStart, LmcCanDecode,
           LmcPostInit, LmcPost, LmcTop, LmcSize, MovesAndWakesPmi
      <4>2. CASE LmcWaits \/ LmcRead \/ LmcPostQuit \/ LmcHang
        BY <4>2, UnitNames, Arrives DEF IInv, PlacesOf, LmcPlaces, LmcWaits, LmcRead,
           LmcPostQuit, LmcHang, MovesAndWakesPmi
      <4>3. CASE LmcWrite \/ LmcCount \/ LmcAdvance
        BY <4>3, UnitNames, Arrives DEF IInv, PlacesOf, LmcPlaces, LmcWrite, LmcCount,
           LmcAdvance, MovesAndWakesPmi
      <4> QED BY <1>4, <4>1, <4>2, <4>3 DEF LmcNext
    <3> QED BY <3>1 DEF Hand
  <2>2. outData' = outData
    BY <1>4 DEF LmcNext, LmcStart, LmcCanDecode, LmcPostInit, LmcPost, LmcTop, LmcSize, LmcWaits,
       LmcRead, LmcPostQuit, LmcHang, LmcWrite, LmcDecode, LmcCount, LmcAdvance, Accept,
       outVars
  <2>3. In(outData)' = In(outData) /\ Sorted(outData)'
    BY <1>3, <2>2 DEF In, Sorted
  <2>4. In(inData)' \subseteq In(inData) /\ Sorted(inData)'
    <3>1. CASE inData' = inData
      BY <1>3, <3>1 DEF In, Sorted
    <3>2. CASE inData # <<>> /\ inData' = Tail(inData)
      <4>1. In(Tail(inData)) \subseteq In(inData) /\ Sorted(Tail(inData))
        BY <1>3, <3>2, TailSorted
      <4>2. In(inData)' = In(Tail(inData)) /\ (Sorted(inData)' <=> Sorted(Tail(inData)))
        BY <3>2 DEF In, Sorted
      <4> QED BY <4>1, <4>2
    <3> QED BY <3>1, <3>2, LmcInput
  <2> QED BY <1>1, <1>2, <2>1, <2>3, <2>4, FewerOrdered
<1>5. CASE LmcDecode /\ at'["lmc"] = "endWrite"
  <2>1. /\ at["lmc"] = "decode" /\ inData' = Tail(inData) /\ UNCHANGED <<outData, decoded>>
    BY <1>5, UnitNames, Arrives DEF IInv, PlacesOf, LmcPlaces, LmcDecode, MovesAndWakesPmi
  <2>2. inData # <<>> /\ decoded = Head(inData)
    BY <2>1 DEF IInv, Data, ContentsOK
  <2>3. /\ In(inData) = {decoded} \cup In(Tail(inData))
        /\ Sorted(Tail(inData)) /\ AllBefore({decoded}, In(Tail(inData)))
    BY <1>3, <2>2, TailSorted
  <2>4. Hand' = {decoded} /\ Hand = {} /\ In(inData)' = In(Tail(inData)) /\ Sorted(inData)'
        /\ In(outData)' = In(outData) /\ Sorted(outData)'
    BY <1>3, <1>5, <2>1, <2>3 DEF Hand, In, Sorted
  <2> QED BY <1>1, <1>2, <2>3, <2>4 DEF OrderOK, AllBefore
<1>6. CASE LmcEndWrite
  <2>1. /\ at["lmc"] = "endWrite" /\ at'["lmc"] = "count" /\ outData' = Append(outData, decoded)
        /\ inData' = inData
    BY <1>6, UnitNames, Arrives DEF IInv, PlacesOf, LmcPlaces, LmcEndWrite, inVars
  <2>2. decoded \in Frames /\ Append(outData, decoded) = outData \o <<decoded>>
    BY <1>3, <2>1 DEF IInv, Data, ContentsOK
  <2>3. Hand = {decoded} /\ Hand' = {}
    BY <2>1 DEF Hand
  <2>4. In(outData \o <<decoded>>) = In(outData) \cup {decoded} /\ Sorted(outData \o <<decoded>>)
    <3>1. <<decoded>> \in Seq(Frames) /\ In(<<decoded>>) = {decoded} /\ Sorted(<<decoded>>)
      BY <2>2, OneSorted
    <3>2. AllBefore(In(outData), In(<<decoded>>))
      BY <2>3, <3>1 DEF OrderOK
    <3>3. \A q \in Seq(Frames) : q \in Seq(AnyFrames)
      BY DEF AnyFrames
    <3> QED BY <1>3, <3>1, <3>2, <3>3, FramesJoined
  <2>5. In(outData)' = In(outData) \cup {decoded} /\ Sorted(outData)'
        /\ In(inData)' = In(inData) /\ Sorted(inData)'
    BY <1>3, <2>1, <2>2, <2>4 DEF In, Sorted
  <2> QED BY <1>1, <1>2, <2>3, <2>5 DEF OrderOK, AllBefore
<1> QED BY <1>4, <1>5, <1>6

\* What the output and the card leave alone, and what they take.
LEMMA PmoLeaves ==
  ASSUME IInv, PmoNext \/ CardPlays
  PROVE  /\ UNCHANGED <<fetched, epoch, filePos, inData, decoded>> /\ at'["lmc"] = at["lmc"]
         /\ \/ outData' = outData /\ written' = written
            \/ outData # <<>> /\ written' = Head(outData) /\ outData' = Tail(outData)
<1>1. UNCHANGED <<fetched, epoch, filePos, inData, decoded>>
  BY DEF PmoNext, PmoStart, PmoTop, PmoWaits, PmoReady, PmoAwaitInit, PmoTry, PmoPeek,
     PmoTake, PmoDrain, PmoSpace, PmoWrite, CardPlays, pmoUnchanged, fileVars, inVars, lmcVars
<1>2. at'["lmc"] = at["lmc"]
  <2>1. CASE PmoTake
    BY <2>1, UnitNames, Arrives, HeadEvent DEF IInv, Data, PlacesOf, PmoPlaces, PmoTake, InitCard
  <2>2. CASE PmoAwaitInit
    BY <2>2, UnitNames, Arrives DEF IInv, PlacesOf, PmoPlaces, PmoAwaitInit, InitCard,
       MovesAndWakesLmc
  <2>3. CASE PmoStart \/ PmoTop \/ PmoWaits \/ PmoReady \/ PmoTry \/ PmoPeek
    BY <2>3, UnitNames, Arrives DEF IInv, PlacesOf, PmoPlaces, PmoStart, PmoTop, PmoWaits,
       PmoReady, PmoTry, PmoPeek, MovesAndWakesLmc
  <2>4. CASE PmoDrain \/ PmoSpace \/ PmoWrite
    BY <2>4, UnitNames, Arrives DEF IInv, PlacesOf, PmoPlaces, PmoDrain, PmoSpace, PmoWrite,
       MovesAndWakesLmc
  <2>5. CASE CardPlays
    BY <2>5 DEF CardPlays, unitVars
  <2> QED BY <2>1, <2>2, <2>3, <2>4, <2>5 DEF PmoNext
<1>3. \/ outData' = outData /\ written' = written
      \/ outData # <<>> /\ written' = Head(outData) /\ outData' = Tail(outData)
  <2>1. CASE PmoWrite
    BY <2>1, UnitNames DEF PmoWrite, MovesAndWakesLmc, Moves, IInv, Data, ContentsOK
  <2>2. CASE ~PmoWrite
    BY <2>2 DEF PmoNext, PmoStart, PmoTop, PmoWaits, PmoReady, PmoAwaitInit, PmoTry, PmoPeek,
       PmoTake, PmoDrain, PmoSpace, CardPlays, outVars, pmoVars
  <2> QED BY <2>1, <2>2
<1> QED BY <1>1, <1>2, <1>3

\* A frame that goes to the card.
LEMMA WriteIsWrite ==
  ASSUME IInv, PmoNext, at["pmo"] = "write", at'["pmo"] = "top"
  PROVE  PmoWrite /\ outData # <<>> /\ written' = Head(outData)
<1>1. PmoWrite
  <2>1. CASE PmoTake
    <3>1. CASE events = <<>>
      BY <2>1, <3>1 DEF PmoTake, Moves
    <3>2. CASE events # <<>>
      BY <2>1, <3>2, HeadEvent DEF PmoTake, InitCard, Moves, IInv, Data
    <3> QED BY <3>1, <3>2
  <2>2. CASE ~PmoTake
    BY <2>2 DEF PmoNext, PmoStart, PmoTop, PmoWaits, PmoReady, PmoAwaitInit, InitCard, PmoTry,
       PmoPeek, PmoDrain, PmoSpace, MovesAndWakesLmc, Moves, Unpauses
  <2> QED BY <2>1, <2>2
<1>2. outData # <<>>
  BY DEF IInv, Data, ContentsOK
<1>3. ~Moves("pmo", "write", "done")
  BY UnitNames, Arrives DEF IInv, PlacesOf, PmoPlaces
<1> QED BY <1>1, <1>2, <1>3 DEF PmoWrite

LEMMA PmoOrder == IInv /\ OrderOK /\ (PmoNext \/ CardPlays) => OrderOK'
<1> SUFFICES ASSUME IInv, OrderOK, PmoNext \/ CardPlays PROVE OrderOK'
  OBVIOUS
<1>1. UNCHANGED <<fetched, epoch, filePos, inData, decoded>> /\ at'["lmc"] = at["lmc"]
  BY PmoLeaves
<1>3. UNCHANGED <<Hand, In(inData), In(fetched)>> /\ (\A f : Given(f)' <=> Given(f))
      /\ Sorted(inData)'
  BY <1>1 DEF Hand, In, Given, OrderOK, Sorted
<1>4. CASE outData' = outData /\ written' = written
  <2>1. In(outData)' = In(outData) /\ Sorted(outData)'
    BY <1>4 DEF In, Sorted, OrderOK
  <2> QED BY <1>3, <1>4, <2>1, FewerOrdered
<1>5. CASE outData # <<>> /\ written' = Head(outData) /\ outData' = Tail(outData)
  <2>1. /\ In(outData) = {Head(outData)} \cup In(Tail(outData))
        /\ Sorted(Tail(outData)) /\ AllBefore({Head(outData)}, In(Tail(outData)))
    BY <1>5, TailSorted DEF IInv, Data, FramesOK, OrderOK
  <2>2. In(outData)' = In(Tail(outData)) /\ Sorted(outData)'
    BY <1>5, <2>1 DEF In, Sorted
  <2> QED BY <1>3, <1>5, <2>1, <2>2 DEF OrderOK, AllBefore
<1> QED BY <1>4, <1>5, PmoLeaves

LEMMA CtlOrder == IInv /\ OrderOK /\ (CtlNext \/ CtlBegins) => OrderOK'
<1> SUFFICES ASSUME IInv, OrderOK, CtlNext \/ CtlBegins PROVE OrderOK'
  OBVIOUS
<1>1. at' = at /\ UNCHANGED <<fetched, decoded, written>>
  BY DEF CtlNext, PauseUnit, ResumeUnit, ExitUnit, JoinUnit, ResetCard, ClearOutput,
     ClearInput, PositionFile, PositionDecoder, Pause, Resume, Exit, CtlBegins, BeginPause,
     BeginResume, BeginSeek, BeginDelete, Begins, unitVars, fileVars, lmcVars, pmoVars
<1>2. Hand' = Hand /\ In(fetched)' = In(fetched)
  BY <1>1 DEF Hand, In
<1>3. outData' \in {outData, <<>>} /\ inData' \in {inData, <<>>}
  BY DEF CtlNext, PauseUnit, ResumeUnit, ExitUnit, JoinUnit, ResetCard, ClearOutput,
     ClearInput, PositionFile, PositionDecoder, CtlBegins, BeginPause,
     BeginResume, BeginSeek, BeginDelete, Begins, inVars, outVars
<1>4. /\ In(outData)' \subseteq In(outData) /\ Sorted(outData)'
      /\ In(inData)' \subseteq In(inData) /\ Sorted(inData)'
  BY <1>3 DEF In, Sorted, OrderOK
<1>5. ASSUME NEW f \in {written} \cup In(outData) \cup Hand \cup In(inData) \cup In(fetched), Given(f)
      PROVE  Given(f)'
  <2>1. f \in AnyFrames
    <3>1. \A g \in In(outData) \cup In(inData) \cup In(fetched) : g \in Frames
      BY DEF In, IInv, Data, FramesOK
    <3>2. written \in AnyFrames /\ \A g \in Hand : g \in AnyFrames
      BY DEF Hand, IInv, Data, FramesOK, AnyFrames
    <3> QED BY <3>1, <3>2 DEF AnyFrames
  <2>2. (filePos' = filePos /\ epoch' = epoch) \/ epoch' = epoch + 1
    BY DEF CtlNext, PauseUnit, ResumeUnit, ExitUnit, JoinUnit, ResetCard, ClearOutput,
       ClearInput, PositionFile, PositionDecoder, CtlBegins, BeginPause,
       BeginResume, BeginSeek, BeginDelete, Begins, fileVars
  <2>3. epoch \in Int
    BY DEF IInv, Data, FramesOK
  <2>4. f.epoch \in Int /\ f.num \in Int
    BY <2>1, FrameFields
  <2>5. f.epoch <= epoch
    BY <1>5, <2>3, <2>4 DEF Given, Before
  <2> QED BY <1>5, <2>2, <2>3, <2>4, <2>5 DEF Given, Before
<1> QED BY <1>1, <1>2, <1>4, <1>5, FewerOrdered

LEMMA NextOrder == IInv /\ OrderOK /\ [Next]_vars => OrderOK'
<1> SUFFICES ASSUME IInv, OrderOK, [Next]_vars PROVE OrderOK'
  OBVIOUS
<1>1. CASE Next
  BY <1>1, PmiOrder, LmcOrder, PmoOrder, CtlOrder DEF Next
<1>2. CASE UNCHANGED vars
  BY <1>2 DEF OrderOK, Sorted, In, AllBefore, Hand, Given, vars, unitVars, fileVars, inVars,
     outVars, lmcVars, pmoVars
<1> QED BY <1>1, <1>2

\* On the whole way from the file to the card the frames stay in the order in
\* which the file gave them, over any number of seeks.
THEOREM FramesStayInOrder == Spec => []InOrder
<1>1. IInv /\ OrderOK => InOrder
  <2> SUFFICES ASSUME IInv, OrderOK PROVE InOrder
    OBVIOUS
  <2> DEFINE hand == IF at["lmc"] = "endWrite" THEN <<decoded>> ELSE <<>>
             w1 == <<written>> \o outData
             w2 == w1 \o hand
             w3 == w2 \o inData
             w4 == w3 \o fetched
  <2>1. /\ <<written>> \in Seq(AnyFrames) /\ outData \in Seq(AnyFrames) /\ hand \in Seq(AnyFrames)
        /\ inData \in Seq(AnyFrames) /\ fetched \in Seq(AnyFrames)
    <3>1. written \in AnyFrames /\ decoded \in AnyFrames
      BY DEF IInv, Data, FramesOK, AnyFrames
    <3>2. \A s \in Seq(Frames) : s \in Seq(AnyFrames)
      BY DEF AnyFrames
    <3> QED BY <3>1, <3>2 DEF IInv, Data, FramesOK
  <2>2. /\ In(<<written>>) = {written} /\ Sorted(<<written>>)
        /\ In(hand) = Hand /\ Sorted(hand)
    BY OneSorted DEF Hand
  <2>3. Sorted(fetched)
    BY DEF Sorted, IInv, Data, FramesOK
  <2> HIDE DEF hand
  <2>4. In(w1) = {written} \cup In(outData) /\ Sorted(w1) /\ w1 \in Seq(AnyFrames)
    <3>1. AllBefore(In(<<written>>), In(outData)) /\ Sorted(outData)
      BY <2>2 DEF OrderOK
    <3> QED BY <2>1, <2>2, <3>1, FramesJoined
  <2> HIDE DEF w1
  <2>5. In(w2) = In(w1) \cup Hand /\ Sorted(w2) /\ w2 \in Seq(AnyFrames)
    <3>1. AllBefore(In(w1), In(hand))
      BY <2>2, <2>4 DEF OrderOK, AllBefore
    <3> QED BY <2>1, <2>2, <2>4, <3>1, FramesJoined
  <2> HIDE DEF w2
  <2>6. In(w3) = In(w2) \cup In(inData) /\ Sorted(w3) /\ w3 \in Seq(AnyFrames)
    <3>1. AllBefore(In(w2), In(inData))
      BY <2>4, <2>5 DEF OrderOK, AllBefore
    <3>2. Sorted(inData)
      BY DEF OrderOK
    <3> QED BY <2>1, <2>5, <3>1, <3>2, FramesJoined
  <2> HIDE DEF w3
  <2>7. Sorted(w4) /\ Len(w4) \in Nat
    <3>1. AllBefore(In(w3), In(fetched))
      BY <2>4, <2>5, <2>6 DEF OrderOK, AllBefore
    <3> QED BY <2>1, <2>3, <2>6, <3>1, FramesJoined
  <2> HIDE DEF w4
  <2>8. \A i \in 1 .. Len(w4) - 1 : Before(w4[i], w4[i + 1])
    BY <2>7 DEF Sorted
  <2> QED BY <2>8 DEF InOrder, Before, w4, w3, w2, w1, hand
<1> QED BY <1>1, InitOrder, NextOrder, PipelineInvariant, PTL DEF Spec

-----------------------------------------------------------------------------
(* Frames of the old position after a seek                                    *)

\* In a call, after one step comes another.
Followed(s, a, b) == \A i \in 1 .. Len(s) : s[i] = a => \E j \in i + 1 .. Len(s) : s[j] = b

\* What is left of a call that does not delete the track: the decoder is paused
\* before the output buffer is cleared, and resumed, once, after the input
\* buffer was.
SeekShape(s) ==
  /\ \A i, j \in 1 .. Len(s) : s[i] = "resumeLmc" /\ s[j] = "resumeLmc" => i = j
  /\ Followed(s, "pauseLmc", "clearOut") /\ Followed(s, "clearOut", "clearIn")
  /\ Followed(s, "clearIn", "resumeLmc")
  /\ ~Has(s, "exitLmc")

\* The decoder has passed its pause check and has not yet put a frame into the
\* output buffer; and the frame it puts there next is of an old position.
PastPause ==
  at["lmc"] \in {"size", "sizeEos", "read", "sleepRead", "write", "decode", "endWrite"}
OldInHand == at["lmc"] = "endWrite" /\ decoded.epoch < epoch

\* A signal the decoder did not wait for lets it pass a later pause check.  Each
\* seek leaves at most one.  Between the clearing of the output buffer and the
\* end of the seek the decoder is paused, and what it puts there all the same
\* costs it a signal, or the one check it had passed before.
SignalsLeft == pauseSem["lmc"] + Once(Has(ctl.todo, "resumeLmc")) <= SeeksMade
StillPaused ==
  Has(ctl.todo, "resumeLmc") /\ ~Has(ctl.todo, "pauseLmc") => paused["lmc"]
FewSinceClear ==
  Has(ctl.todo, "resumeLmc") /\ ~Has(ctl.todo, "clearOut") =>
    Len(outData) + Once(PastPause) + pauseSem["lmc"] <= SeeksMade
FewStale ==
  ~Has(ctl.todo, "clearIn") => Cardinality(Stale) + Once(OldInHand) <= SeeksMade

StaleOK ==
  ~Ending => SeekShape(ctl.todo) /\ SignalsLeft /\ StillPaused /\ FewSinceClear /\ FewStale

\* The old frames of a sequence.
OldIn(s, e) == {i \in 1 .. Len(s) : s[i].epoch < e}

LEMMA OldCount ==
  ASSUME NEW s \in Seq(Frames), NEW e
  PROVE  /\ IsFiniteSet(OldIn(s, e)) /\ Cardinality(OldIn(s, e)) \in Nat
         /\ Cardinality(OldIn(s, e)) <= Len(s)
<1>1. Len(s) \in Nat /\ IsFiniteSet(1 .. Len(s)) /\ Cardinality(1 .. Len(s)) = Len(s)
  <2>1. Len(s) \in Nat
    OBVIOUS
  <2>2. 1 <= Len(s) + 1 /\ 1 \in Int /\ Len(s) \in Int
    BY <2>1
  <2>3. /\ IsFiniteSet(1 .. Len(s))
        /\ Cardinality(1 .. Len(s)) = IF 1 > Len(s) THEN 0 ELSE Len(s) - 1 + 1
    BY <2>2, FS_Interval
  <2> QED BY <2>1, <2>3
<1>2. OldIn(s, e) \in SUBSET (1 .. Len(s))
  BY DEF OldIn
<1>3. IsFiniteSet(OldIn(s, e)) /\ Cardinality(OldIn(s, e)) <= Cardinality(1 .. Len(s))
  BY <1>1, <1>2, FS_Subset
<1>4. Cardinality(OldIn(s, e)) \in Nat
  BY <1>3, FS_CardinalityType
<1> QED BY <1>1, <1>3, <1>4

LEMMA OldTail ==
  ASSUME NEW s \in Seq(Frames), NEW e, s # <<>>
  PROVE  Cardinality(OldIn(Tail(s), e)) <= Cardinality(OldIn(s, e))
<1> DEFINE S == OldIn(Tail(s), e)
           T == OldIn(s, e)
           f == [i \in S |-> i + 1]
<1>1. /\ Len(s) \in Nat /\ Len(Tail(s)) = Len(s) - 1
      /\ \A i \in 1 .. Len(Tail(s)) : i + 1 \in 1 .. Len(s) /\ Tail(s)[i] = s[i + 1]
  OBVIOUS
<1>2. \A i \in S : i \in Int /\ i + 1 \in T
  BY <1>1 DEF OldIn
<1>3. f \in [S -> T] /\ \A i, j \in S : f[i] = f[j] => i = j
  <2> HIDE DEF S, T
  <2> QED BY <1>2
<1>4. f \in Injection(S, T)
  BY <1>3 DEF Injection, IsInjective
<1>5. IsFiniteSet(T)
  BY OldCount
<1> HIDE DEF S, T, f
<1>6. Cardinality(S) <= Cardinality(T)
  BY <1>4, <1>5, FS_Injection
<1> QED BY <1>6 DEF S, T

LEMMA OldAppend ==
  ASSUME NEW s \in Seq(Frames), NEW f \in Frames, NEW e
  PROVE  Cardinality(OldIn(Append(s, f), e)) <= Cardinality(OldIn(s, e)) + Once(f.epoch < e)
<1>1. /\ Len(s) \in Nat /\ Len(Append(s, f)) = Len(s) + 1
      /\ \A i \in 1 .. Len(s) : Append(s, f)[i] = s[i]
      /\ Append(s, f)[Len(s) + 1] = f
  OBVIOUS
<1>2. IsFiniteSet(OldIn(s, e)) /\ Cardinality(OldIn(s, e)) \in Nat
  BY OldCount
<1>3. CASE f.epoch < e
  <2>1. OldIn(Append(s, f), e) = OldIn(s, e) \cup {Len(s) + 1}
    BY <1>1, <1>3 DEF OldIn
  <2>2. ASSUME NEW S, NEW x, IsFiniteSet(S), Cardinality(S) \in Nat
        PROVE  Cardinality(S \cup {x}) <= Cardinality(S) + 1
    <3>1. Cardinality(S \cup {x}) = IF x \in S THEN Cardinality(S) ELSE Cardinality(S) + 1
      BY <2>2, FS_AddElement
    <3> QED BY <2>2, <3>1
  <2>3. Cardinality(OldIn(s, e) \cup {Len(s) + 1}) <= Cardinality(OldIn(s, e)) + 1
    BY <1>2, <2>2
  <2> QED BY <1>3, <2>1, <2>3 DEF Once
<1>4. CASE ~(f.epoch < e)
  <2>1. OldIn(Append(s, f), e) = OldIn(s, e)
    BY <1>1, <1>4 DEF OldIn
  <2> QED BY <1>2, <1>4, <2>1 DEF Once
<1> QED BY <1>3, <1>4

\* A call after its first step.
LEMMA ShapeStepped ==
  ASSUME NEW s \in Seq(StepNames), s # <<>>, SeekShape(s)
  PROVE  /\ SeekShape(Tail(s)) /\ Head(s) # "exitLmc"
         /\ Head(s) = "pauseLmc" => Has(Tail(s), "clearOut")
         /\ Head(s) = "clearOut" => Has(Tail(s), "clearIn")
         /\ Head(s) = "clearIn" => Has(Tail(s), "resumeLmc")
         /\ Head(s) = "resumeLmc" => ~Has(Tail(s), "resumeLmc")
         /\ Has(Tail(s), "pauseLmc") => Has(Tail(s), "clearOut")
         /\ Has(Tail(s), "clearOut") => Has(Tail(s), "clearIn")
<1>1. /\ Head(s) = s[1] /\ Len(s) \in Nat /\ Len(s) > 0 /\ Len(Tail(s)) = Len(s) - 1
      /\ \A i \in 1 .. Len(Tail(s)) : i + 1 \in 1 .. Len(s) /\ Tail(s)[i] = s[i + 1]
      /\ \A i \in 2 .. Len(s) : i - 1 \in 1 .. Len(Tail(s)) /\ Tail(s)[i - 1] = s[i]
  OBVIOUS
<1>2. ASSUME NEW a, NEW b, Followed(s, a, b)
      PROVE  /\ Followed(Tail(s), a, b) /\ (Head(s) = a => Has(Tail(s), b))
             /\ (Has(Tail(s), a) => Has(Tail(s), b))
  <2>1. ASSUME NEW i \in 1 .. Len(Tail(s)), Tail(s)[i] = a
        PROVE  \E j \in i + 1 .. Len(Tail(s)) : Tail(s)[j] = b
    <3>1. PICK j \in i + 2 .. Len(s) : s[j] = b
      BY <1>1, <1>2, <2>1 DEF Followed
    <3>2. j - 1 \in i + 1 .. Len(Tail(s)) /\ Tail(s)[j - 1] = b
      BY <1>1, <3>1
    <3> QED BY <3>2
  <2>2. ASSUME Head(s) = a PROVE Has(Tail(s), b)
    <3>1. PICK j \in 2 .. Len(s) : s[j] = b
      BY <1>1, <1>2, <2>2 DEF Followed
    <3> QED BY <1>1, <3>1 DEF Has
  <2>3. ASSUME Has(Tail(s), a) PROVE Has(Tail(s), b)
    <3>1. PICK i \in 1 .. Len(Tail(s)) : Tail(s)[i] = a
      BY <2>3 DEF Has
    <3>2. PICK j \in i + 1 .. Len(Tail(s)) : Tail(s)[j] = b
      BY <2>1, <3>1
    <3>3. j \in 1 .. Len(Tail(s))
      BY <1>1, <3>1, <3>2
    <3> QED BY <3>2, <3>3 DEF Has
  <2> QED BY <2>1, <2>2, <2>3 DEF Followed
<1>3. ~Has(Tail(s), "exitLmc") /\ Head(s) # "exitLmc"
  BY <1>1 DEF SeekShape, Has
<1>4. \A i, j \in 1 .. Len(Tail(s)) :
         Tail(s)[i] = "resumeLmc" /\ Tail(s)[j] = "resumeLmc" => i = j
  <2> SUFFICES ASSUME NEW i \in 1 .. Len(Tail(s)), NEW j \in 1 .. Len(Tail(s)),
                      Tail(s)[i] = "resumeLmc", Tail(s)[j] = "resumeLmc"
               PROVE  i = j
    OBVIOUS
  <2>1. i + 1 = j + 1
    BY <1>1 DEF SeekShape
  <2> QED BY <2>1
<1>5. Head(s) = "resumeLmc" => ~Has(Tail(s), "resumeLmc")
  BY <1>1 DEF SeekShape, Has
<1> QED BY <1>2, <1>3, <1>4, <1>5 DEF SeekShape

LEMMA ShapeJoined ==
  ASSUME NEW s \in Seq(StepNames), NEW t \in Seq(StepNames), SeekShape(s), SeekShape(t),
         ~Has(s, "resumeLmc") \/ ~Has(t, "resumeLmc")
  PROVE  SeekShape(s \o t)
<1>1. /\ Len(s) \in Nat /\ Len(t) \in Nat /\ Len(s \o t) = Len(s) + Len(t)
      /\ \A i \in 1 .. Len(s) : (s \o t)[i] = s[i]
      /\ \A i \in Len(s) + 1 .. Len(s) + Len(t) : (s \o t)[i] = t[i - Len(s)]
  BY ConcatProperties
<1>2. \A i \in 1 .. Len(t) :
         Len(s) + i \in 1 .. Len(s \o t) /\ (s \o t)[Len(s) + i] = t[i]
  BY <1>1
<1>3. \A i \in 1 .. Len(s \o t) :
         \/ i \in 1 .. Len(s) /\ (s \o t)[i] = s[i]
         \/ /\ i \in Len(s) + 1 .. Len(s) + Len(t) /\ i - Len(s) \in 1 .. Len(t)
            /\ (s \o t)[i] = t[i - Len(s)]
  BY <1>1
<1>4. ASSUME NEW a, NEW b, Followed(s, a, b), Followed(t, a, b)
      PROVE  Followed(s \o t, a, b)
  <2> SUFFICES ASSUME NEW i \in 1 .. Len(s \o t), (s \o t)[i] = a
               PROVE  \E j \in i + 1 .. Len(s \o t) : (s \o t)[j] = b
    BY DEF Followed
  <2>1. CASE i \in 1 .. Len(s) /\ (s \o t)[i] = s[i]
    <3>1. PICK j \in i + 1 .. Len(s) : s[j] = b
      BY <1>4, <2>1 DEF Followed
    <3>2. j \in i + 1 .. Len(s \o t) /\ (s \o t)[j] = b
      BY <1>1, <2>1, <3>1
    <3> QED BY <3>2
  <2>2. CASE /\ i \in Len(s) + 1 .. Len(s) + Len(t) /\ i - Len(s) \in 1 .. Len(t)
             /\ (s \o t)[i] = t[i - Len(s)]
    <3>1. PICK j \in i - Len(s) + 1 .. Len(t) : t[j] = b
      BY <1>4, <2>2 DEF Followed
    <3>2. Len(s) + j \in i + 1 .. Len(s \o t) /\ j \in 1 .. Len(t)
      BY <1>1, <2>2, <3>1
    <3>3. (s \o t)[Len(s) + j] = b
      BY <1>2, <3>1, <3>2
    <3> QED BY <3>2, <3>3
  <2> QED BY <1>3, <2>1, <2>2
<1>5. ASSUME NEW i \in 1 .. Len(s \o t), NEW j \in 1 .. Len(s \o t),
             (s \o t)[i] = "resumeLmc", (s \o t)[j] = "resumeLmc"
      PROVE  i = j
  <2>1. CASE ~Has(s, "resumeLmc")
    <3>1. /\ i \in Int /\ j \in Int /\ Len(s) \in Int
          /\ i - Len(s) \in 1 .. Len(t) /\ t[i - Len(s)] = "resumeLmc"
          /\ j - Len(s) \in 1 .. Len(t) /\ t[j - Len(s)] = "resumeLmc"
      BY <1>1, <1>3, <1>5, <2>1 DEF Has
    <3>2. i - Len(s) = j - Len(s)
      BY <3>1 DEF SeekShape
    <3> QED BY <3>1, <3>2
  <2>2. CASE ~Has(t, "resumeLmc")
    <3>1. /\ i \in 1 .. Len(s) /\ s[i] = "resumeLmc"
          /\ j \in 1 .. Len(s) /\ s[j] = "resumeLmc"
      BY <1>3, <1>5, <2>2 DEF Has
    <3> QED BY <3>1 DEF SeekShape
  <2> QED BY <2>1, <2>2
<1>6. ~Has(s \o t, "exitLmc")
  BY <1>3 DEF SeekShape, Has
<1> QED BY <1>4, <1>5, <1>6 DEF SeekShape

\* The calls that do not delete the track.
LEMMA Shapes ==
  /\ SeekShape(<<>>) /\ SeekShape(PauseSteps) /\ SeekShape(<<"resumePmo">>)
  /\ \A name \in {"pauseLmc", "clearOut", "clearIn", "resumeLmc"} :
       ~Has(PauseSteps, name) /\ ~Has(<<"resumePmo">>, name) /\ ~Has(<<>>, name)
BY DEF SeekShape, Followed, Has, PauseSteps

LEMMA SeekingShape ==
  ASSUME NEW last \in {<<>>, <<"resumePmo">>}
  PROVE  /\ SeekShape(SeekSteps \o last)
         /\ Has(SeekSteps \o last, "pauseLmc") /\ Has(SeekSteps \o last, "clearOut")
         /\ Has(SeekSteps \o last, "clearIn") /\ Has(SeekSteps \o last, "resumeLmc")
<1>1. /\ Moving \in Seq(StepNames) /\ Len(Moving) = 12
      /\ Moving[1] = "pauseLmc" /\ Moving[4] = "clearOut" /\ Moving[6] = "clearIn"
      /\ Moving[10] = "clearIn" /\ Moving[12] = "resumeLmc"
  BY DEF Moving, StepNames
<1>2. \A i \in 1 .. 12 :
         /\ (Moving[i] = "pauseLmc" => i = 1) /\ (Moving[i] = "clearOut" => i = 4)
         /\ (Moving[i] = "clearIn" => i \in {6, 7, 10}) /\ (Moving[i] = "resumeLmc" => i = 12)
         /\ Moving[i] # "exitLmc"
  BY DEF Moving
<1>3. SeekShape(Moving)
  <2>1. Followed(Moving, "pauseLmc", "clearOut") /\ Followed(Moving, "clearOut", "clearIn")
    BY <1>1, <1>2 DEF Followed
  <2>2. Followed(Moving, "clearIn", "resumeLmc")
    BY <1>1, <1>2 DEF Followed
  <2> QED BY <1>1, <1>2, <2>1, <2>2 DEF SeekShape, Has
<1>4. /\ Has(Moving, "pauseLmc") /\ Has(Moving, "clearOut")
      /\ Has(Moving, "clearIn") /\ Has(Moving, "resumeLmc")
  BY <1>1 DEF Has
<1>5. /\ SeekSteps = PauseSteps \o Moving /\ Call(PauseSteps) /\ Call(Moving) /\ Call(last)
      /\ \A name \in {"rewind", "seek"} : ~Has(PauseSteps, name) /\ ~Has(last, name)
  BY Seeking, Pausing
<1>6. /\ Call(SeekSteps)
      /\ \A name : Has(SeekSteps, name) <=> Has(PauseSteps, name) \/ Has(Moving, name)
  BY <1>5, Joined
<1>7. \A name : Has(SeekSteps \o last, name) <=> Has(SeekSteps, name) \/ Has(last, name)
  BY <1>5, <1>6, Joined
<1>8. /\ PauseSteps \in Seq(StepNames) /\ SeekSteps \in Seq(StepNames)
      /\ last \in Seq(StepNames) /\ SeekShape(last) /\ ~Has(last, "resumeLmc")
      /\ SeekShape(PauseSteps) /\ ~Has(PauseSteps, "resumeLmc")
  BY <1>5, <1>6, Shapes DEF Call
<1>9. SeekShape(SeekSteps)
  BY <1>1, <1>3, <1>5, <1>8, ShapeJoined
<1>10. SeekShape(SeekSteps \o last)
  BY <1>8, <1>9, ShapeJoined
<1> QED BY <1>4, <1>6, <1>7, <1>10


\* The numbers the parts of StaleOK are about.
LEMMA StaleNumbers ==
  ASSUME IInv
  PROVE  /\ SeeksMade \in Int /\ pauseSem["lmc"] \in Nat /\ Len(outData) \in Nat
         /\ Stale = OldIn(outData, epoch) /\ Cardinality(Stale) \in Nat
         /\ Cardinality(Stale) <= Len(outData)
         /\ Once(OldInHand) \in Nat /\ Once(PastPause) \in Nat
         /\ Once(OldInHand) <= Once(PastPause) /\ Once(PastPause) <= 1
         /\ Once(Has(ctl.todo, "resumeLmc")) \in Nat
<1>1. left.seeks \in Int /\ MaxSeeks \in Int /\ MaxTokens \in Nat
      /\ pauseSem \in [Units -> 0 .. MaxTokens] /\ outData \in Seq(Frames)
  BY DEF IInv, UnitsOK, Data, FramesOK, CallOK
<1>2. SeeksMade \in Int
  BY <1>1 DEF SeeksMade
<1>3. pauseSem["lmc"] \in Nat
  BY <1>1, UnitNames
<1>4. Stale = OldIn(outData, epoch)
  BY DEF Stale, OldIn
<1>5. Len(outData) \in Nat
  BY <1>1
<1>6. Cardinality(Stale) \in Nat /\ Cardinality(Stale) <= Len(outData)
  BY <1>1, <1>4, OldCount
<1>7. Once(OldInHand) <= Once(PastPause)
  BY DEF Once, OldInHand, PastPause
<1> QED BY <1>2, <1>3, <1>4, <1>5, <1>6, <1>7 DEF Once

\* Steps that give the decoder no frame, no signal and no way past its check.
LEMMA StaleKept ==
  ASSUME IInv, StaleOK, Ending => Ending', ~Ending => SeekShape(ctl'.todo),
         \A name \in {"pauseLmc", "clearOut", "clearIn", "resumeLmc"} :
           Has(ctl'.todo, name) <=> Has(ctl.todo, name),
         left' = left, paused'["lmc"] = paused["lmc"], pauseSem'["lmc"] = pauseSem["lmc"],
         at'["lmc"] = at["lmc"], UNCHANGED <<decoded, epoch>>,
         outData' = outData \/ (outData # <<>> /\ outData' = Tail(outData))
  PROVE  StaleOK'
<1> SUFFICES ASSUME ~Ending PROVE (SeekShape(ctl.todo) /\ SignalsLeft /\ StillPaused
                                   /\ FewSinceClear /\ FewStale)'
  BY DEF StaleOK
<1>1. SignalsLeft /\ StillPaused /\ FewSinceClear /\ FewStale
  BY DEF StaleOK
<1>2. /\ SeeksMade' = SeeksMade /\ Once(PastPause)' = Once(PastPause)
      /\ Once(OldInHand)' = Once(OldInHand)
      /\ Once(Has(ctl.todo, "resumeLmc"))' = Once(Has(ctl.todo, "resumeLmc"))
      /\ \A name \in {"pauseLmc", "clearOut", "clearIn", "resumeLmc"} :
           Has(ctl.todo, name)' <=> Has(ctl.todo, name)
  BY DEF SeeksMade, PastPause, OldInHand, Once, Has
<1>3. Len(outData') <= Len(outData) /\ Len(outData') \in Nat
      /\ Cardinality(Stale') <= Cardinality(Stale) /\ Cardinality(Stale') \in Nat
  <2>1. outData \in Seq(Frames)
    BY DEF IInv, Data, FramesOK
  <2>2. Stale' = OldIn(outData', epoch) /\ Stale = OldIn(outData, epoch)
    BY DEF Stale, OldIn
  <2>3. outData' \in Seq(Frames) /\ Len(outData') <= Len(outData) /\ Len(outData') \in Nat
    BY <2>1
  <2>4. Cardinality(OldIn(outData', epoch)) <= Cardinality(OldIn(outData, epoch))
    <3>1. CASE outData' = outData
      <4>1. Cardinality(OldIn(outData, epoch)) \in Nat
        BY <2>1, OldCount
      <4> QED BY <3>1, <4>1
    <3>2. CASE outData # <<>> /\ outData' = Tail(outData)
      BY <2>1, <3>2, OldTail
    <3> QED BY <3>1, <3>2
  <2>5. Cardinality(OldIn(outData', epoch)) \in Nat
    BY <2>3, OldCount
  <2> QED BY <2>2, <2>3, <2>4, <2>5
<1>4. SignalsLeft' /\ StillPaused'
  BY <1>1, <1>2 DEF SignalsLeft, StillPaused
<1>5. FewSinceClear'
  BY <1>1, <1>2, <1>3, StaleNumbers DEF FewSinceClear
<1>6. FewStale'
  BY <1>1, <1>2, <1>3, StaleNumbers DEF FewStale
<1> QED BY <1>4, <1>5, <1>6 DEF SeekShape, Followed, Has

\* What the decoder does with its pause check, its signals and the output buffer.
LEMMA LmcPauses ==
  ASSUME IInv, LmcNext
  PROVE  /\ UNCHANGED <<ctl, left, epoch>> /\ exiting' = exiting /\ paused' = paused
         /\ \/ /\ outData' = outData /\ pauseSem' = pauseSem
               /\ PastPause' => PastPause \/ ~paused["lmc"]
            \/ /\ outData' = outData /\ pauseSem["lmc"] > 0 /\ ~PastPause
               /\ pauseSem'["lmc"] = pauseSem["lmc"] - 1
            \/ /\ at["lmc"] = "endWrite" /\ outData' = Append(outData, decoded)
               /\ pauseSem' = pauseSem /\ ~PastPause'
         /\ at'["lmc"] = "endWrite" =>
              inData # <<>> /\ decoded' = Head(inData) /\ decoded' = decoded
<1>. USE UnitNames, Arrives DEF PlacesOf, LmcPlaces
<1>1. UnitsOK
  BY DEF IInv
<1>2. /\ UNCHANGED <<ctl, left, epoch>> /\ exiting' = exiting /\ paused' = paused
  BY DEF LmcNext, LmcStart, LmcCanDecode, LmcPostInit, LmcPost, LmcTop, LmcSize, LmcWaits, LmcRead,
     LmcPostQuit, LmcHang, LmcWrite, LmcDecode, LmcEndWrite, LmcCount, LmcAdvance,
     lmcUnchanged, MovesAndWakesPmi, Moves, Awakes, Unpauses, fileVars, ctlVars
<1>3. CASE LmcEndWrite
  <2>1. /\ at["lmc"] = "endWrite" /\ at'["lmc"] = "count"
        /\ outData' = Append(outData, decoded) /\ pauseSem' = pauseSem
    BY <1>1, <1>3 DEF LmcEndWrite, Moves
  <2> QED BY <1>2, <2>1 DEF PastPause
<1>4. CASE LmcNext /\ ~LmcEndWrite
  <2>1. outData' = outData
    BY <1>4 DEF LmcNext, LmcStart, LmcCanDecode, LmcPostInit, LmcPost, LmcTop, LmcSize, LmcWaits,
       LmcRead, LmcPostQuit, LmcHang, LmcWrite, LmcDecode, LmcCount, LmcAdvance, outVars,
       Accept
  <2>2. CASE LmcStart \/ LmcPostInit \/ LmcPost \/ LmcPostQuit \/ LmcHang \/ LmcCount
    <3>1. pauseSem' = pauseSem
      BY <2>2 DEF LmcStart, LmcPostInit, LmcPost, LmcPostQuit, LmcHang, LmcCount, Moves
    <3>2. at'["lmc"] \in {"canDecode", "post", "top", "hang", "sleepHang", "done"}
      BY <1>1, <2>2 DEF LmcStart, LmcPostInit, LmcPost, LmcPostQuit, LmcHang, LmcCount
    <3> QED BY <1>2, <2>1, <3>1, <3>2 DEF PastPause
  <2>3. CASE LmcCanDecode
    <3>1. pauseSem' = pauseSem
      BY <2>3 DEF LmcCanDecode, MovesAndWakesPmi, Moves
    <3>2. at'["lmc"] \in {"done", "postInit", "sleepDecode"}
      BY <1>1, <2>3 DEF LmcCanDecode, MovesAndWakesPmi
    <3> QED BY <1>2, <2>1, <3>1, <3>2 DEF PastPause
  <2>4. CASE LmcTop
    <3>1. pauseSem' = pauseSem
      BY <2>4 DEF LmcTop, Moves
    <3>2. at'["lmc"] \in {"done", "waitPause"} \/ (at'["lmc"] = "size" /\ ~paused["lmc"])
      BY <1>1, <2>4 DEF LmcTop
    <3> QED BY <1>2, <2>1, <3>1, <3>2 DEF PastPause
  <2>5. CASE LmcWaits
    <3>1. CASE Unpauses("lmc", "waitPause", IF exiting["lmc"] THEN "done" ELSE "size")
      <4>1. at["lmc"] = "waitPause" /\ at'["lmc"] \in {"done", "size"}
        BY <1>1, <3>1
      <4>2. pauseSem["lmc"] > 0 /\ pauseSem'["lmc"] = pauseSem["lmc"] - 1
        BY <1>1, <3>1 DEF Unpauses, Taken, UnitsOK
      <4> QED BY <1>2, <2>1, <4>1, <4>2 DEF PastPause
    <3>2. CASE Awakes("lmc", "sleepRead", IF exiting["lmc"] THEN "done" ELSE "read")
      <4>1. at["lmc"] = "sleepRead" /\ at'["lmc"] \in {"done", "read"} /\ pauseSem' = pauseSem
        BY <1>1, <3>2 DEF Awakes
      <4> QED BY <1>2, <2>1, <4>1 DEF PastPause
    <3>3. ASSUME NEW from, NEW w \in {"canDecode", "done", "top", "advance", "hang"},
                 Awakes("lmc", from, w)
          PROVE  at'["lmc"] = w /\ pauseSem' = pauseSem
      BY <1>1, <3>3 DEF Awakes
    <3>4. CASE \/ Awakes("lmc", "sleepDecode", "canDecode")
               \/ Awakes("lmc", "sleepWrite", IF exiting["lmc"] THEN "done" ELSE "top")
               \/ Awakes("lmc", "sleepAdvance", IF exiting["lmc"] THEN "done" ELSE "advance")
               \/ Awakes("lmc", "sleepHang", "hang")
      <4>1. at'["lmc"] \in {"canDecode", "done", "top", "advance", "hang"}
            /\ pauseSem' = pauseSem
        BY <3>3, <3>4
      <4> QED BY <1>2, <2>1, <4>1 DEF PastPause
    <3> QED BY <2>5, <3>1, <3>2, <3>4 DEF LmcWaits
  <2>6. CASE LmcRead
    <3>1. at["lmc"] = "read" /\ at'["lmc"] \in {"done", "write", "postQuit", "sleepRead"}
      BY <1>1, <2>6 DEF LmcRead, MovesAndWakesPmi
    <3>2. pauseSem' = pauseSem
      BY <2>6 DEF LmcRead, MovesAndWakesPmi, Moves
    <3> QED BY <1>2, <2>1, <3>1, <3>2 DEF PastPause
  <2>7. CASE LmcWrite
    <3>1. at["lmc"] = "write" /\ at'["lmc"] \in {"decode", "sleepWrite"}
      BY <1>1, <2>7 DEF LmcWrite
    <3>2. pauseSem' = pauseSem
      BY <2>7 DEF LmcWrite, Moves
    <3> QED BY <1>2, <2>1, <3>1, <3>2 DEF PastPause
  <2>8. CASE LmcDecode
    <3>1. at["lmc"] = "decode" /\ at'["lmc"] \in {"advance", "done", "endWrite"}
          /\ (at'["lmc"] = "endWrite" => decoded' = decoded)
      BY <1>1, <2>8 DEF LmcDecode, MovesAndWakesPmi
    <3>2. pauseSem' = pauseSem
      BY <2>8 DEF LmcDecode, MovesAndWakesPmi, Moves
    <3>3. inData # <<>> /\ decoded = Head(inData)
      BY <3>1 DEF IInv, Data, ContentsOK
    <3> QED BY <1>2, <2>1, <3>1, <3>2, <3>3 DEF PastPause
  <2>9. CASE LmcAdvance
    <3>1. at["lmc"] = "advance" /\ at'["lmc"] \in {"done", "top", "sleepAdvance"}
      BY <1>1, <2>9 DEF LmcAdvance, MovesAndWakesPmi
    <3>2. pauseSem' = pauseSem
      BY <2>9 DEF LmcAdvance, MovesAndWakesPmi, Moves
    <3> QED BY <1>2, <2>1, <3>1, <3>2 DEF PastPause
  <2>10. CASE LmcSize
    <3>1. at["lmc"] \in {"size", "sizeEos"} /\ at'["lmc"] \in {"sizeEos", "read"}
      BY <1>1, <2>10 DEF LmcSize
    <3>2. pauseSem' = pauseSem
      BY <2>10 DEF LmcSize, Moves
    <3> QED BY <1>2, <2>1, <3>1, <3>2 DEF PastPause
  <2> QED BY <1>4, <2>2, <2>3, <2>4, <2>5, <2>6, <2>7, <2>8, <2>9, <2>10 DEF LmcNext
<1> QED BY <1>3, <1>4

LEMMA LmcStale == IInv /\ FreshOK /\ StaleOK /\ LmcNext => StaleOK'
<1> SUFFICES ASSUME IInv, FreshOK, StaleOK, LmcNext PROVE StaleOK'
  OBVIOUS
<1>1. UNCHANGED <<ctl, left, epoch>> /\ exiting' = exiting /\ paused' = paused
  BY LmcPauses
<1>2. Ending' <=> Ending
  BY <1>1 DEF Ending, Has
<1> SUFFICES ASSUME ~Ending PROVE (SeekShape(ctl.todo) /\ SignalsLeft /\ StillPaused
                                   /\ FewSinceClear /\ FewStale)'
  BY <1>2 DEF StaleOK
<1>3. SeekShape(ctl.todo) /\ SignalsLeft /\ StillPaused /\ FewSinceClear /\ FewStale
  BY DEF StaleOK
<1>4. /\ SeeksMade' = SeeksMade
      /\ Once(Has(ctl.todo, "resumeLmc"))' = Once(Has(ctl.todo, "resumeLmc"))
      /\ \A name \in {"pauseLmc", "clearOut", "clearIn", "resumeLmc"} :
           Has(ctl.todo, name)' <=> Has(ctl.todo, name)
      /\ SeekShape(ctl.todo)'
  BY <1>1, <1>3 DEF SeeksMade, Once, Has, SeekShape, Followed
<1>5. pauseSem'["lmc"] <= pauseSem["lmc"] /\ pauseSem'["lmc"] \in Nat
  <2>1. CASE pauseSem' = pauseSem
    BY <2>1, StaleNumbers
  <2>2. CASE pauseSem["lmc"] > 0 /\ pauseSem'["lmc"] = pauseSem["lmc"] - 1
    BY <2>2, StaleNumbers
  <2> QED BY <2>1, <2>2, LmcPauses
<1>6. SignalsLeft' /\ StillPaused'
  <2>1. SignalsLeft'
    BY <1>3, <1>4, <1>5, StaleNumbers DEF SignalsLeft
  <2>2. StillPaused'
    BY <1>1, <1>3, <1>4 DEF StillPaused
  <2> QED BY <2>1, <2>2
<1>7. outData \in Seq(Frames) /\ (at["lmc"] = "endWrite" => decoded \in Frames)
  BY DEF IInv, Data, FramesOK, ContentsOK
<1>8. FewSinceClear'
  <2>1. ASSUME Has(ctl.todo, "resumeLmc"), ~Has(ctl.todo, "clearOut")
        PROVE  Len(outData') + Once(PastPause') + pauseSem'["lmc"] <= SeeksMade
    <3>1. ~Has(ctl.todo, "pauseLmc")
      BY <1>3, <2>1 DEF SeekShape, Followed, Has
    <3>2. paused["lmc"] /\ Len(outData) + Once(PastPause) + pauseSem["lmc"] <= SeeksMade
      BY <1>3, <2>1, <3>1 DEF StillPaused, FewSinceClear
    <3>3. CASE /\ outData' = outData /\ pauseSem' = pauseSem
               /\ PastPause' => PastPause \/ ~paused["lmc"]
      <4>1. Once(PastPause') <= Once(PastPause) /\ Once(PastPause') \in Nat
        BY <3>2, <3>3 DEF Once
      <4> QED BY <3>2, <3>3, <4>1, StaleNumbers
    <3>4. CASE /\ outData' = outData /\ pauseSem["lmc"] > 0 /\ ~PastPause
               /\ pauseSem'["lmc"] = pauseSem["lmc"] - 1
      <4>1. Once(PastPause') <= 1 /\ Once(PastPause') \in Nat /\ Once(PastPause) = 0
        BY <3>4 DEF Once
      <4> QED BY <3>2, <3>4, <4>1, StaleNumbers
    <3>5. CASE /\ at["lmc"] = "endWrite" /\ outData' = Append(outData, decoded)
               /\ pauseSem' = pauseSem /\ ~PastPause'
      <4>1. Once(PastPause') = 0 /\ Once(PastPause) = 1
        BY <3>5 DEF Once, PastPause
      <4>2. Len(outData') = Len(outData) + 1
        BY <1>7, <3>5
      <4> QED BY <3>2, <3>5, <4>1, <4>2, StaleNumbers
    <3> QED BY <3>3, <3>4, <3>5, LmcPauses
  <2> QED BY <1>4, <2>1 DEF FewSinceClear
<1>9. FewStale'
  <2>1. ASSUME ~Has(ctl.todo, "clearIn")
        PROVE  Cardinality(Stale') + Once(OldInHand') <= SeeksMade
    <3>1. Cardinality(Stale) + Once(OldInHand) <= SeeksMade
      BY <1>3, <2>1 DEF FewStale
    <3>2. Once(OldInHand') = 0
      <4>1. ASSUME at'["lmc"] = "endWrite" PROVE ~(decoded'.epoch < epoch)
        <5>1. inData # <<>> /\ decoded' = Head(inData) /\ inData \in Seq(Frames)
          BY <4>1, LmcPauses DEF IInv, Data, FramesOK
        <5>2. Head(inData).epoch = epoch
          BY <2>1, <5>1 DEF FreshOK
        <5>3. epoch \in Int
          BY DEF IInv, Data, FramesOK
        <5> QED BY <5>1, <5>2, <5>3
      <4> QED BY <1>1, <4>1 DEF Once, OldInHand
    <3>3. Stale' = OldIn(outData', epoch)
      BY <1>1 DEF Stale, OldIn
    <3>4. Cardinality(Stale') <= Cardinality(Stale) + Once(OldInHand)
      <4>1. CASE outData' = outData
        BY <3>3, <4>1, StaleNumbers
      <4>2. CASE at["lmc"] = "endWrite" /\ outData' = Append(outData, decoded)
        <5>1. Once(decoded.epoch < epoch) = Once(OldInHand)
          BY <4>2 DEF Once, OldInHand
        <5>2. Cardinality(OldIn(Append(outData, decoded), epoch))
                <= Cardinality(OldIn(outData, epoch)) + Once(decoded.epoch < epoch)
          BY <1>7, <4>2, OldAppend
        <5> QED BY <3>3, <4>2, <5>1, <5>2, StaleNumbers
      <4> QED BY <4>1, <4>2, LmcPauses
    <3>5. Cardinality(Stale') \in Nat
      <4>1. outData' \in Seq(Frames)
        BY <1>7, LmcPauses
      <4> QED BY <3>3, <4>1, OldCount
    <3> QED BY <3>1, <3>2, <3>4, <3>5, StaleNumbers
  <2> QED BY <1>4, <2>1 DEF FewStale
<1> QED BY <1>4, <1>6, <1>8, <1>9


\* The input, the output and the card.
LEMMA OthersStale == IInv /\ StaleOK /\ (PmiNext \/ PmoNext \/ CardPlays) => StaleOK'
<1> SUFFICES ASSUME IInv, StaleOK, PmiNext \/ PmoNext \/ CardPlays PROVE StaleOK'
  OBVIOUS
<1>1. /\ UNCHANGED <<ctl, left, decoded, epoch>>
      /\ exiting' = exiting /\ paused' = paused /\ pauseSem'["lmc"] = pauseSem["lmc"]
      /\ at'["lmc"] = at["lmc"]
      /\ outData' = outData \/ (outData # <<>> /\ outData' = Tail(outData))
  <2>1. CASE PmiNext
    <3>1. UNCHANGED <<ctl, left, decoded, epoch, outData>> /\ exiting' = exiting
          /\ paused' = paused
      BY <2>1 DEF PmiNext, PmiStart, PmiTop, PmiWaits, PmiBegin, PmiRead, PmiEndWrite, PmiSetEos,
         pmiUnchanged, Moves, Awakes, Unpauses, fileVars, ctlVars, outVars, lmcVars
    <3>2. \E w \in PlacesOf("pmi"), from \in Places :
            Moves("pmi", from, w) \/ Awakes("pmi", from, w) \/ Unpauses("pmi", from, w)
      BY <2>1 DEF PlacesOf, Places, PmiPlaces, PmiNext, PmiStart, PmiTop, PmiWaits, PmiBegin,
         PmiRead, PmiEndWrite, PmiSetEos
    <3>3. at'["lmc"] = at["lmc"]
      BY <3>2, UnitNames, Arrives DEF IInv
    <3>4. pauseSem'["lmc"] = pauseSem["lmc"]
      BY <3>2, UnitNames DEF Moves, Awakes, Unpauses, Taken, IInv, UnitsOK
    <3> QED BY <3>1, <3>3, <3>4
  <2>2. CASE PmoNext \/ CardPlays
    <3>1. UNCHANGED <<decoded, epoch>> /\ at'["lmc"] = at["lmc"]
          /\ (outData' = outData \/ (outData # <<>> /\ outData' = Tail(outData)))
      BY <2>2, PmoLeaves
    <3>2. UNCHANGED <<ctl, left>>
      BY <2>2 DEF PmoNext, PmoStart, PmoTop, PmoWaits, PmoReady, PmoAwaitInit, PmoTry,
         PmoPeek, PmoTake, PmoDrain, PmoSpace, PmoWrite, CardPlays, pmoUnchanged, ctlVars
    <3>3. exiting' = exiting /\ paused' = paused /\ pauseSem'["lmc"] = pauseSem["lmc"]
      <4>1. CASE PmoTake
        <5>1. CASE events = <<>>
          BY <4>1, <5>1 DEF PmoTake, Moves
        <5>2. CASE events # <<>>
          BY <4>1, <5>2, HeadEvent DEF PmoTake, InitCard, Moves, IInv, Data
        <5> QED BY <5>1, <5>2
      <4>2. CASE PmoStart \/ PmoWaits
        BY <4>2, UnitNames DEF PmoStart, PmoWaits, Unpauses, Taken, IInv, UnitsOK
      <4>3. CASE (PmoNext /\ ~PmoTake /\ ~PmoStart /\ ~PmoWaits) \/ CardPlays
        BY <4>3 DEF PmoNext, PmoTop, PmoReady, PmoAwaitInit, InitCard, PmoTry, PmoPeek,
           PmoDrain, PmoSpace, PmoWrite, CardPlays, MovesAndWakesLmc, Moves, unitVars
      <4> QED BY <2>2, <4>1, <4>2, <4>3
    <3> QED BY <3>1, <3>2, <3>3
  <2> QED BY <2>1, <2>2
<1>2. Ending' <=> Ending
  BY <1>1 DEF Ending, Has
<1>3. ~Ending => SeekShape(ctl'.todo)
  BY <1>1 DEF StaleOK
<1> QED BY <1>1, <1>2, <1>3, StaleKept

\* A call begins when there is none.
LEMMA BeginsStale == IInv /\ StaleOK /\ CtlBegins => StaleOK'
<1> SUFFICES ASSUME IInv, StaleOK, CtlBegins PROVE StaleOK'
  OBVIOUS
<1>1. /\ ctl.todo = <<>> /\ ~exiting["pmo"]
      /\ UNCHANGED <<at, paused, exiting, pauseSem, decoded, epoch, outData>>
  BY DEF CtlBegins, BeginPause, BeginResume, BeginSeek, BeginDelete, Begins, unitVars,
     fileVars, outVars, lmcVars
<1>2. ~Ending /\ SignalsLeft /\ FewStale
  BY <1>1, Pausing DEF Ending, StaleOK
<1>3. ctl = [todo |-> ctl.todo, pos |-> ctl.pos]
  BY DEF IInv, CallOK
<1>4. ASSUME NEW steps, Begins(steps) PROVE ctl'.todo = steps
  BY <1>3, <1>4 DEF Begins
<1>5. CASE BeginPause \/ BeginResume
  <2>1. /\ ctl'.todo \in {PauseSteps, <<"resumePmo">>}
        /\ SeeksMade' = SeeksMade
    <3>1. left'.seeks = left.seeks
      BY <1>5 DEF BeginPause, BeginResume, IInv, CallOK
    <3>2. SeeksMade' = SeeksMade
      BY <3>1 DEF SeeksMade
    <3> QED BY <1>4, <1>5, <3>2 DEF BeginPause, BeginResume
  <2>2. SeekShape(ctl'.todo)
        /\ \A name \in {"pauseLmc", "clearOut", "clearIn", "resumeLmc"} :
             ~Has(ctl'.todo, name) /\ ~Has(ctl.todo, name)
    BY <1>1, <2>1, Shapes
  <2>3. SignalsLeft' /\ StillPaused' /\ FewSinceClear'
    <3>1. Has(ctl.todo, "resumeLmc")' <=> FALSE
      BY <2>2 DEF Has
    <3>2. Once(Has(ctl.todo, "resumeLmc"))' = 0 /\ Once(Has(ctl.todo, "resumeLmc")) = 0
      BY <2>2, <3>1 DEF Once
    <3>3. SignalsLeft'
      BY <1>1, <1>2, <2>1, <3>2 DEF SignalsLeft
    <3> QED BY <3>1, <3>3 DEF StillPaused, FewSinceClear
  <2>4. FewStale'
    <3>1. Cardinality(Stale) + Once(OldInHand) <= SeeksMade
      BY <1>2, <2>2 DEF FewStale
    <3>2. Stale' = Stale /\ Once(OldInHand)' = Once(OldInHand)
      BY <1>1 DEF Stale, Once, OldInHand
    <3> QED BY <2>1, <3>1, <3>2 DEF FewStale
  <2>5. SeekShape(ctl.todo)'
    BY <2>2 DEF SeekShape, Followed, Has
  <2> QED BY <2>3, <2>4, <2>5 DEF StaleOK
<1>6. CASE BeginSeek
  <2>1. PICK last \in {<<>>, <<"resumePmo">>} : ctl'.todo = SeekSteps \o last
    BY <1>6 DEF BeginSeek
  <2>2. /\ SeekShape(ctl'.todo) /\ Has(ctl'.todo, "pauseLmc") /\ Has(ctl'.todo, "clearOut")
        /\ Has(ctl'.todo, "clearIn") /\ Has(ctl'.todo, "resumeLmc")
    BY <2>1, SeekingShape
  <2>3. SeeksMade' = SeeksMade + 1
    <3>1. left.seeks \in Int /\ MaxSeeks \in Int /\ left'.seeks = left.seeks - 1
      BY <1>6 DEF BeginSeek, IInv, CallOK
    <3> QED BY <3>1 DEF SeeksMade
  <2>4. SignalsLeft'
    <3>1. Once(Has(ctl.todo, "resumeLmc"))' = 1 /\ Once(Has(ctl.todo, "resumeLmc")) = 0
      BY <1>1, <2>2, Shapes DEF Once, Has
    <3>2. pauseSem["lmc"] <= SeeksMade
      BY <1>2, <3>1, StaleNumbers DEF SignalsLeft
    <3> QED BY <1>1, <2>3, <3>1, <3>2, StaleNumbers DEF SignalsLeft
  <2>5. SeekShape(ctl.todo)' /\ StillPaused' /\ FewSinceClear' /\ FewStale'
    BY <2>2 DEF SeekShape, Followed, Has, StillPaused, FewSinceClear, FewStale
  <2> QED BY <2>4, <2>5 DEF StaleOK
<1>7. CASE BeginDelete
  <2>1. PICK steps \in {DeleteSteps, PauseSteps \o DeleteSteps} : Begins(steps)
    BY <1>7 DEF BeginDelete
  <2>2. Has(steps, "exitPmo")
    <3>1. \A name : Has(PauseSteps \o DeleteSteps, name)
                      <=> Has(PauseSteps, name) \/ Has(DeleteSteps, name)
      BY Pausing, Deleting, Joined
    <3> QED BY <2>1, <3>1, Deleting
  <2>3. Ending'
    BY <1>4, <2>1, <2>2 DEF Ending, Has
  <2> QED BY <2>3 DEF StaleOK
<1> QED BY <1>5, <1>6, <1>7 DEF CtlBegins

\* A step of the player's call that the decoder and the output buffer do not see.
LEMMA StepStale ==
  ASSUME IInv, StaleOK, NEW name, Step(name),
         name \notin {"pauseLmc", "clearOut", "clearIn", "resumeLmc"},
         Ending => Ending',
         paused'["lmc"] = paused["lmc"], pauseSem'["lmc"] = pauseSem["lmc"],
         at' = at, UNCHANGED <<decoded, epoch, outData>>
  PROVE  StaleOK'
<1>1. /\ Call(ctl.todo) /\ ctl.todo # <<>> /\ Head(ctl.todo) = name
      /\ ctl'.todo = Tail(ctl.todo) /\ left' = left /\ ctl.todo \in Seq(StepNames)
  BY DEF Step, IInv, CallOK
<1>2. \A n \in {"pauseLmc", "clearOut", "clearIn", "resumeLmc"} :
         Has(ctl'.todo, n) <=> Has(ctl.todo, n)
  BY <1>1, Stepped
<1>3. ~Ending => SeekShape(ctl'.todo)
  BY <1>1, ShapeStepped DEF StaleOK
<1> QED BY <1>1, <1>2, <1>3, StaleKept

LEMMA CtlStale == IInv /\ FreshOK /\ StaleOK /\ CtlNext => StaleOK'
<1> SUFFICES ASSUME IInv, FreshOK, StaleOK, CtlNext PROVE StaleOK'
  OBVIOUS
<1>. USE UnitNames
<1>1. at' = at /\ decoded' = decoded /\ left' = left
  BY DEF CtlNext, PauseUnit, ResumeUnit, ExitUnit, JoinUnit, ResetCard, ClearOutput,
     ClearInput, PositionFile, PositionDecoder, Pause, Resume, Exit, unitVars, lmcVars, Step
<1>2. ASSUME NEW name, Step(name)
      PROVE  /\ ctl.todo # <<>> /\ ctl.todo \in Seq(StepNames) /\ Call(ctl.todo)
             /\ Head(ctl.todo) = name /\ ctl'.todo = Tail(ctl.todo)
             /\ Has(ctl.todo, name)
             /\ \A n : n # name => (Has(ctl'.todo, n) <=> Has(ctl.todo, n))
  BY <1>2, Stepped DEF Step, IInv, CallOK
<1>3. ASSUME NEW name, Step(name), name # "exitPmo", exiting' = exiting
      PROVE  Ending' <=> Ending
  BY <1>2, <1>3 DEF Ending, Has
<1>4. ASSUME NEW name, Step(name), exiting'["pmo"] PROVE StaleOK'
  BY <1>4 DEF StaleOK, Ending
<1>5. /\ paused \in [Units -> BOOLEAN] /\ exiting \in [Units -> BOOLEAN]
      /\ pauseSem \in [Units -> 0 .. MaxTokens]
  BY DEF IInv, UnitsOK
<1>6. \A n : Has(ctl.todo, n)' <=> Has(ctl'.todo, n)
  BY DEF Has
<1>7. CASE \/ Step("pausePmo") /\ PauseUnit
           \/ Step("pausePmi") /\ PauseUnit
           \/ Step("resumePmo") /\ ResumeUnit
           \/ Step("resumePmi") /\ ResumeUnit
  <2>1. PICK name \in {"pausePmo", "pausePmi", "resumePmo", "resumePmi"} : Step(name)
    BY <1>7
  <2>2. ~Step("pauseLmc") /\ ~Step("resumeLmc")
    BY <1>2, <2>1
  <2>3. /\ exiting' = exiting /\ paused'["lmc"] = paused["lmc"]
        /\ pauseSem'["lmc"] = pauseSem["lmc"] /\ UNCHANGED <<decoded, epoch, outData>>
    BY <1>5, <1>7, <2>2 DEF PauseUnit, ResumeUnit, Pause, Resume, Signalled, fileVars,
       outVars, lmcVars
  <2> QED BY <1>1, <1>3, <2>1, <2>3, StepStale
<1>8. CASE JoinUnit \/ ResetCard \/ PositionDecoder \/ (ClearOutput /\ Step("clearEvents"))
  <2>1. PICK name \in {"joinPmo", "joinLmc", "joinPmi", "resetCard", "initCard", "position",
                       "clearEvents"} : Step(name)
    BY <1>8 DEF JoinUnit, ResetCard, PositionDecoder
  <2>2. ~Step("clearOut")
    BY <1>2, <2>1
  <2>3. /\ exiting' = exiting /\ paused' = paused /\ pauseSem' = pauseSem
        /\ UNCHANGED <<decoded, epoch, outData>>
    BY <1>8, <2>2 DEF JoinUnit, ResetCard, PositionDecoder, ClearOutput, unitVars, fileVars,
       outVars, lmcVars
  <2> QED BY <1>1, <1>3, <2>1, <2>3, StepStale
<1>9. CASE ExitUnit
  <2>1. CASE Step("exitPmo") /\ Exit("pmo")
    BY <1>4, <1>5, <2>1 DEF Exit
  <2>2. CASE Step("exitLmc") /\ Exit("lmc")
    <3>1. Ending
      BY <1>2, <2>2, ShapeStepped DEF StaleOK
    <3>2. exiting'["pmo"] = exiting["pmo"]
      BY <1>5, <2>2 DEF Exit
    <3>3. Has(ctl'.todo, "exitPmo") <=> Has(ctl.todo, "exitPmo")
      BY <1>2, <2>2
    <3>4. Ending'
      BY <1>6, <3>1, <3>2, <3>3 DEF Ending
    <3> QED BY <3>4 DEF StaleOK
  <2>3. CASE Step("exitPmi") /\ Exit("pmi")
    <3>1. /\ exiting'["pmo"] = exiting["pmo"] /\ paused' = paused
          /\ pauseSem'["lmc"] = pauseSem["lmc"] /\ UNCHANGED <<epoch, outData>>
      BY <1>5, <1>9, <2>3 DEF ExitUnit, Exit, Signalled, fileVars, outVars
    <3>2. Has(ctl'.todo, "exitPmo") <=> Has(ctl.todo, "exitPmo")
      BY <1>2, <2>3
    <3>3. Ending' <=> Ending
      BY <1>6, <3>1, <3>2 DEF Ending
    <3> QED BY <1>1, <2>3, <3>1, <3>3, StepStale
  <2> QED BY <1>9, <2>1, <2>2, <2>3 DEF ExitUnit
\* The steps the decoder's signals and the output buffer depend on.
<1>10. ASSUME NEW name \in {"pauseLmc", "clearOut", "clearIn", "resumeLmc", "rewind", "seek"},
             Step(name), exiting' = exiting, ~Ending'
      PROVE  /\ ~Ending /\ SeekShape(ctl.todo)' /\ SignalsLeft /\ StillPaused
             /\ FewSinceClear /\ FewStale /\ SeeksMade' = SeeksMade
             /\ PastPause' = PastPause
  <2>1. ~Ending
    BY <1>3, <1>10
  <2>2. SeekShape(ctl'.todo)
    BY <1>2, <1>10, <2>1, ShapeStepped DEF StaleOK
  <2>3. SeekShape(ctl.todo)'
    BY <2>2 DEF SeekShape, Followed, Has
  <2> QED BY <1>1, <2>1, <2>3 DEF StaleOK, SeeksMade, PastPause
<1>11. ASSUME NEW name, Step(name), ~Ending
       PROVE  /\ name = "clearOut" => Has(ctl'.todo, "clearIn")
              /\ name = "clearIn" => Has(ctl'.todo, "resumeLmc")
              /\ name = "resumeLmc" => ~Has(ctl'.todo, "resumeLmc")
              /\ Has(ctl'.todo, "clearOut") => Has(ctl'.todo, "clearIn")
              /\ name \in {"rewind", "seek"} => Has(ctl'.todo, "clearIn")
  <2>1. SeekShape(ctl.todo)
    BY <1>11 DEF StaleOK
  <2> QED BY <1>2, <1>11, <2>1, ShapeStepped, Stepped
<1>12. Once(Has(ctl.todo, "resumeLmc"))' = Once(Has(ctl'.todo, "resumeLmc"))
  BY DEF Has, Once
<1>13. Once(OldInHand)' = Once(at["lmc"] = "endWrite" /\ decoded.epoch < epoch')
       /\ Once(OldInHand) = Once(at["lmc"] = "endWrite" /\ decoded.epoch < epoch)
  BY <1>1 DEF Once, OldInHand
<1>14. CASE Step("pauseLmc") /\ Pause("lmc") /\ PauseUnit
  <2>1. /\ exiting' = exiting /\ paused'["lmc"] = TRUE /\ pauseSem' = pauseSem
        /\ UNCHANGED <<epoch, outData>>
    BY <1>5, <1>14 DEF PauseUnit, Pause, fileVars, outVars
  <2>2. SUFFICES ASSUME ~Ending'
                 PROVE  (SeekShape(ctl.todo) /\ SignalsLeft /\ StillPaused
                         /\ FewSinceClear /\ FewStale)'
    BY DEF StaleOK
  <2>3. \A n \in {"clearOut", "clearIn", "resumeLmc"} : Has(ctl'.todo, n) <=> Has(ctl.todo, n)
    BY <1>2, <1>14
  <2>4. Once(Has(ctl'.todo, "resumeLmc")) = Once(Has(ctl.todo, "resumeLmc"))
    BY <2>3 DEF Once
  <2>5. Stale' = Stale /\ Once(OldInHand)' = Once(OldInHand) /\ Once(PastPause)' = Once(PastPause)
    BY <1>1, <2>1 DEF Stale, Once, OldInHand, PastPause
  <2>6. SignalsLeft' /\ StillPaused'
    BY <1>10, <1>12, <1>14, <2>1, <2>2, <2>4 DEF SignalsLeft, StillPaused
  <2>7. FewSinceClear' /\ FewStale'
    BY <1>6, <1>10, <1>14, <2>1, <2>2, <2>3, <2>5 DEF FewSinceClear, FewStale
  <2> QED BY <1>10, <1>14, <2>1, <2>2, <2>6, <2>7
<1>15. CASE ClearOutput /\ Step("clearOut")
  <2>1. /\ exiting' = exiting /\ paused' = paused /\ pauseSem' = pauseSem
        /\ epoch' = epoch /\ outData' = <<>>
    <3>1. ~Step("clearEvents")
      BY <1>2, <1>15
    <3> QED BY <1>15, <3>1 DEF ClearOutput, unitVars, fileVars
  <2>2. SUFFICES ASSUME ~Ending'
                 PROVE  (SeekShape(ctl.todo) /\ SignalsLeft /\ StillPaused
                         /\ FewSinceClear /\ FewStale)'
    BY DEF StaleOK
  <2>3. \A n \in {"pauseLmc", "clearIn", "resumeLmc"} : Has(ctl'.todo, n) <=> Has(ctl.todo, n)
    BY <1>2, <1>15
  <2>4. Once(Has(ctl'.todo, "resumeLmc")) = Once(Has(ctl.todo, "resumeLmc"))
    BY <2>3 DEF Once
  <2>5. SignalsLeft' /\ StillPaused'
    BY <1>6, <1>10, <1>12, <1>15, <2>1, <2>2, <2>3, <2>4 DEF SignalsLeft, StillPaused
  <2>6. FewSinceClear'
    <3>1. ASSUME Has(ctl'.todo, "resumeLmc")
          PROVE  Len(outData') + Once(PastPause') + pauseSem'["lmc"] <= SeeksMade'
      <4>1. pauseSem["lmc"] + 1 <= SeeksMade
        BY <1>10, <1>15, <2>1, <2>2, <2>3, <3>1 DEF SignalsLeft, Once
      <4>2. Len(outData') = 0 /\ Once(PastPause') = Once(PastPause) /\ SeeksMade' = SeeksMade
        BY <1>10, <1>15, <2>1, <2>2 DEF Once
      <4> QED BY <2>1, <4>1, <4>2, StaleNumbers
    <3> QED BY <1>6, <3>1 DEF FewSinceClear, Once
  <2>7. FewStale'
    BY <1>6, <1>10, <1>11, <1>15, <2>1, <2>2 DEF FewStale
  <2> QED BY <1>10, <1>15, <2>1, <2>2, <2>5, <2>6, <2>7
<1>16. CASE ClearInput
  <2>1. /\ Step("clearIn") /\ exiting' = exiting /\ paused' = paused /\ pauseSem' = pauseSem
        /\ epoch' = epoch /\ outData' = outData
    BY <1>16 DEF ClearInput, unitVars, fileVars, outVars
  <2>2. SUFFICES ASSUME ~Ending'
                 PROVE  (SeekShape(ctl.todo) /\ SignalsLeft /\ StillPaused
                         /\ FewSinceClear /\ FewStale)'
    BY DEF StaleOK
  <2>3. \A n \in {"pauseLmc", "clearOut", "resumeLmc"} : Has(ctl'.todo, n) <=> Has(ctl.todo, n)
    BY <1>2, <2>1
  <2>4. Once(Has(ctl'.todo, "resumeLmc")) = Once(Has(ctl.todo, "resumeLmc"))
    BY <2>3 DEF Once
  <2>5. Stale' = Stale /\ Once(OldInHand)' = Once(OldInHand) /\ Once(PastPause)' = Once(PastPause)
    BY <1>1, <2>1 DEF Stale, Once, OldInHand, PastPause
  <2>6. SignalsLeft' /\ StillPaused'
    BY <1>6, <1>10, <1>12, <2>1, <2>2, <2>3, <2>4 DEF SignalsLeft, StillPaused
  <2>7. FewSinceClear'
    BY <1>6, <1>10, <2>1, <2>2, <2>3, <2>5 DEF FewSinceClear
  <2>8. FewStale'
    <3>1. ASSUME ~Has(ctl'.todo, "clearIn")
          PROVE  Cardinality(Stale) + Once(OldInHand) <= SeeksMade
      <4>1. Has(ctl.todo, "resumeLmc") /\ ~Has(ctl.todo, "clearOut")
        BY <1>10, <1>11, <2>1, <2>2, <2>3, <3>1
      <4>2. Len(outData) + Once(PastPause) + pauseSem["lmc"] <= SeeksMade
        BY <1>10, <2>1, <2>2, <4>1 DEF FewSinceClear
      <4> QED BY <4>2, StaleNumbers
    <3> QED BY <1>6, <1>10, <2>1, <2>2, <2>5, <3>1 DEF FewStale
  <2> QED BY <1>10, <2>1, <2>2, <2>6, <2>7, <2>8
<1>17. CASE Step("resumeLmc") /\ Resume("lmc") /\ ResumeUnit
  <2>1. /\ exiting' = exiting /\ pauseSem'["lmc"] <= pauseSem["lmc"] + 1
        /\ pauseSem'["lmc"] \in Nat /\ UNCHANGED <<epoch, outData>>
    <3>1. exiting' = exiting /\ UNCHANGED <<epoch, outData>>
      BY <1>17 DEF ResumeUnit, Resume, fileVars, outVars
    <3>2. pauseSem'["lmc"] = IF pauseSem["lmc"] < MaxTokens THEN pauseSem["lmc"] + 1
                             ELSE pauseSem["lmc"]
      BY <1>5, <1>17 DEF Resume, Signalled
    <3> QED BY <3>1, <3>2, StaleNumbers
  <2>2. SUFFICES ASSUME ~Ending'
                 PROVE  (SeekShape(ctl.todo) /\ SignalsLeft /\ StillPaused
                         /\ FewSinceClear /\ FewStale)'
    BY DEF StaleOK
  <2>3. /\ Has(ctl.todo, "resumeLmc") /\ ~Has(ctl'.todo, "resumeLmc")
        /\ (Has(ctl'.todo, "clearIn") <=> Has(ctl.todo, "clearIn"))
    BY <1>2, <1>10, <1>11, <1>17, <2>1, <2>2
  <2>4. SignalsLeft'
    <3>1. Once(Has(ctl.todo, "resumeLmc")) = 1 /\ Once(Has(ctl'.todo, "resumeLmc")) = 0
      BY <2>3 DEF Once
    <3>2. pauseSem["lmc"] + 1 <= SeeksMade /\ SeeksMade' = SeeksMade
      BY <1>10, <1>17, <2>1, <2>2, <3>1 DEF SignalsLeft
    <3>3. pauseSem'["lmc"] + 0 <= SeeksMade
      BY <2>1, <3>2, StaleNumbers
    <3> QED BY <1>12, <3>1, <3>2, <3>3 DEF SignalsLeft
  <2>5. StillPaused' /\ FewSinceClear'
    BY <1>6, <2>3 DEF StillPaused, FewSinceClear
  <2>6. FewStale'
    <3>1. Stale' = Stale /\ Once(OldInHand)' = Once(OldInHand)
      BY <1>1, <2>1 DEF Stale, Once, OldInHand
    <3> QED BY <1>6, <1>10, <1>17, <2>1, <2>2, <2>3, <3>1 DEF FewStale
  <2> QED BY <1>10, <1>17, <2>1, <2>2, <2>4, <2>5, <2>6
<1>18. CASE PositionFile
  <2>1. PICK name \in {"rewind", "seek"} : Step(name)
    BY <1>18 DEF PositionFile
  <2>2. exiting' = exiting /\ paused' = paused /\ pauseSem' = pauseSem /\ outData' = outData
    BY <1>18 DEF PositionFile, unitVars, outVars
  <2>3. SUFFICES ASSUME ~Ending'
                 PROVE  (SeekShape(ctl.todo) /\ SignalsLeft /\ StillPaused
                         /\ FewSinceClear /\ FewStale)'
    BY DEF StaleOK
  <2>4. \A n \in {"pauseLmc", "clearOut", "resumeLmc"} : Has(ctl'.todo, n) <=> Has(ctl.todo, n)
    BY <1>2, <2>1
  <2>5. Once(Has(ctl'.todo, "resumeLmc")) = Once(Has(ctl.todo, "resumeLmc"))
        /\ Once(PastPause)' = Once(PastPause)
    BY <1>1, <2>4 DEF Once, PastPause
  <2>6. SignalsLeft' /\ StillPaused'
    BY <1>6, <1>10, <1>12, <2>1, <2>2, <2>3, <2>4, <2>5 DEF SignalsLeft, StillPaused
  <2>7. FewSinceClear'
    BY <1>6, <1>10, <2>1, <2>2, <2>3, <2>4, <2>5 DEF FewSinceClear
  <2>8. FewStale'
    BY <1>6, <1>10, <1>11, <2>1, <2>2, <2>3 DEF FewStale
  <2> QED BY <1>10, <2>1, <2>2, <2>3, <2>6, <2>7, <2>8
<1> QED BY <1>7, <1>8, <1>9, <1>14, <1>15, <1>16, <1>17, <1>18
     DEF CtlNext, PauseUnit, ResumeUnit, ClearOutput

LEMMA InitStale == Init => StaleOK
<1> SUFFICES ASSUME Init PROVE SeekShape(ctl.todo) /\ SignalsLeft /\ StillPaused
                               /\ FewSinceClear /\ FewStale
  BY DEF StaleOK
<1>1. ctl.todo = <<>> /\ pauseSem["lmc"] = 0 /\ SeeksMade = 0 /\ at["lmc"] = "start"
      /\ outData = <<>>
  BY UnitNames DEF Init, SeeksMade
<1>2. Once(Has(ctl.todo, "resumeLmc")) = 0 /\ ~Has(ctl.todo, "resumeLmc")
  BY <1>1, Shapes DEF Once
<1>3. Cardinality(Stale) = 0 /\ Once(OldInHand) = 0
  <2>1. Stale = {}
    BY <1>1 DEF Stale
  <2> QED BY <1>1, <2>1, FS_EmptySet DEF Once, OldInHand
<1> QED BY <1>1, <1>2, <1>3, Shapes DEF SignalsLeft, StillPaused, FewSinceClear, FewStale

LEMMA NextStale == IInv /\ FreshOK /\ StaleOK /\ [Next]_vars => StaleOK'
<1> SUFFICES ASSUME IInv, FreshOK, StaleOK, [Next]_vars PROVE StaleOK'
  OBVIOUS
<1>1. CASE Next
  BY <1>1, LmcStale, OthersStale, BeginsStale, CtlStale DEF Next
<1>2. CASE UNCHANGED vars
  <2>1. UNCHANGED <<ctl, left, at, paused, exiting, pauseSem, decoded, epoch, outData>>
    BY <1>2 DEF vars, unitVars, fileVars, outVars, lmcVars, ctlVars
  <2>2. Ending' <=> Ending
    BY <2>1 DEF Ending, Has
  <2>3. ~Ending => SeekShape(ctl'.todo)
    BY <2>1 DEF StaleOK
  <2> QED BY <2>1, <2>2, <2>3, StaleKept
<1> QED BY <1>1, <1>2

\* When the player's call returns, the output buffer holds at most one frame of
\* an old position for each seek made so far: XingLMC::DecodeWork looks at its
\* pause flag once per frame, and Resume signals a decoder that does not wait.
THEOREM StaleFramesAreCounted == Spec => []StaleWithinSeeks
<1>1. IInv /\ StaleOK => StaleWithinSeeks
  <2> SUFFICES ASSUME IInv, StaleOK, ctl.todo = <<>>, ~exiting["pmo"]
               PROVE  Cardinality(Stale) <= SeeksMade
    BY DEF StaleWithinSeeks
  <2>1. ~Ending /\ ~Has(ctl.todo, "clearIn")
    BY Pausing DEF Ending
  <2>2. Cardinality(Stale) + Once(OldInHand) <= SeeksMade
    BY <2>1 DEF StaleOK, FewStale
  <2> QED BY <2>2, StaleNumbers
<1>2. IInv /\ FreshOK /\ StaleOK /\ [Next]_vars => (FreshOK /\ StaleOK)'
  BY NextFresh, NextStale
<1> QED BY <1>1, <1>2, InitFresh, InitStale, PipelineInvariant, PTL DEF Spec

-----------------------------------------------------------------------------
(* Without a seek no frame is lost                                            *)

\* The deletion takes frames away, and only when the output has been joined.
Takes == {"clearOut", "rewind", "clearIn", "seek"}
JoinsFirst(s) ==
  \A i \in 1 .. Len(s) : s[i] \in Takes => \E j \in 1 .. i - 1 : s[j] = "joinPmo"
TakesLast == at["pmo"] = "done" \/ JoinsFirst(ctl.todo)

LEMMA JoinsLater ==
  ASSUME NEW s \in Seq(StepNames), NEW t \in Seq(StepNames),
         \A i \in 1 .. Len(s) : s[i] \notin Takes, JoinsFirst(t)
  PROVE  JoinsFirst(s \o t)
<1>1. /\ Len(s) \in Nat /\ Len(t) \in Nat /\ Len(s \o t) = Len(s) + Len(t)
      /\ \A i \in 1 .. Len(s \o t) :
           \/ i \in 1 .. Len(s) /\ (s \o t)[i] = s[i]
           \/ i > Len(s) /\ i - Len(s) \in 1 .. Len(t) /\ (s \o t)[i] = t[i - Len(s)]
      /\ \A i \in 1 .. Len(t) : Len(s) + i \in 1 .. Len(s \o t) /\ (s \o t)[Len(s) + i] = t[i]
  BY ConcatProperties
<1>2. ASSUME NEW i \in 1 .. Len(s \o t), (s \o t)[i] \in Takes
      PROVE  \E j \in 1 .. i - 1 : (s \o t)[j] = "joinPmo"
  <2>1. i > Len(s) /\ i - Len(s) \in 1 .. Len(t) /\ t[i - Len(s)] \in Takes
    BY <1>1, <1>2
  <2>2. PICK j \in 1 .. i - Len(s) - 1 : t[j] = "joinPmo"
    BY <2>1 DEF JoinsFirst
  <2>3. Len(s) + j \in 1 .. i - 1 /\ (s \o t)[Len(s) + j] = "joinPmo"
    BY <1>1, <2>1, <2>2
  <2> QED BY <2>3
<1> QED BY <1>2 DEF JoinsFirst

LEMMA DeleteJoins ==
  /\ JoinsFirst(PauseSteps) /\ JoinsFirst(<<"resumePmo">>) /\ JoinsFirst(<<>>)
  /\ JoinsFirst(DeleteSteps) /\ JoinsFirst(PauseSteps \o DeleteSteps)
<1>1. JoinsFirst(PauseSteps) /\ JoinsFirst(<<"resumePmo">>) /\ JoinsFirst(<<>>)
  BY DEF JoinsFirst, Takes, PauseSteps
<1>2. /\ DeleteSteps[2] = "joinPmo" /\ Len(DeleteSteps) = 15
      /\ DeleteSteps[1] \notin Takes /\ DeleteSteps[2] \notin Takes
      /\ DeleteSteps \in Seq(StepNames)
  BY DEF DeleteSteps, Takes, StepNames
<1>3. \A i \in 1 .. 15 : DeleteSteps[i] \in Takes => i > 2
  BY <1>2
<1>4. JoinsFirst(DeleteSteps)
  BY <1>2, <1>3 DEF JoinsFirst
<1>5. /\ PauseSteps \in Seq(StepNames) /\ Len(PauseSteps) = 3
      /\ \A i \in 1 .. 3 : PauseSteps[i] \notin Takes
  BY DEF PauseSteps, Takes, StepNames
<1>6. JoinsFirst(PauseSteps \o DeleteSteps)
  BY <1>2, <1>4, <1>5, JoinsLater
<1> QED BY <1>1, <1>4, <1>6

\* No frame is missing between the card and the file, as long as the output
\* has not ended.
WayOK ==
  at["pmo"] # "done" =>
    /\ epoch = 0
    /\ \A f \in In(outData) \cup Hand : f.num \notin Corrupt
    /\ at["lmc"] \in {"advance", "sleepAdvance"} =>
         inData # <<>> /\ Head(inData).num \in Corrupt
    /\ \A g \in Good : g > written.num /\ g < filePos =>
         \E f \in In(outData) \cup Hand \cup In(inData) \cup In(fetched) : f.num = g

NoSeekInv == IInv /\ OrderOK /\ TakesLast /\ WayOK

LEMMA InitWay == Init => TakesLast /\ WayOK
<1> SUFFICES ASSUME Init PROVE TakesLast /\ WayOK
  OBVIOUS
<1>1. TakesLast
  BY DeleteJoins DEF Init, TakesLast
<1>2. In(outData) = {} /\ Hand = {} /\ at["lmc"] = "start"
  BY OneSorted, UnitNames DEF Init, Hand
<1>3. \A g \in Good : ~(g < filePos)
  BY DEF Init, Good
<1> QED BY <1>1, <1>2, <1>3 DEF WayOK, Init

\* Who has ended stays so.
LEMMA OutputEnds ==
  ASSUME IInv,
         PmiNext \/ LmcNext \/ PmoNext \/ CtlNext \/ CtlBegins \/ CardPlays \/ UNCHANGED vars
  PROVE  /\ at["pmo"] = "done" => at'["pmo"] = "done"
         /\ ~PmoNext => at'["pmo"] = at["pmo"]
<1>1. CASE PmiNext
  BY <1>1, UnitNames, Arrives DEF IInv, PlacesOf, PmiPlaces, PmiNext, PmiStart, PmiTop,
     PmiWaits, PmiBegin, PmiRead, PmiEndWrite, PmiSetEos
<1>2. CASE LmcNext
  <2>1. CASE LmcStart \/ LmcCanDecode \/ LmcPostInit \/ LmcPost \/ LmcTop \/ LmcSize
    BY <2>1, UnitNames, Arrives DEF IInv, PlacesOf, LmcPlaces, LmcStart, LmcCanDecode,
       LmcPostInit, LmcPost, LmcTop, LmcSize, MovesAndWakesPmi
  <2>2. CASE LmcWaits \/ LmcRead \/ LmcPostQuit \/ LmcHang
    BY <2>2, UnitNames, Arrives DEF IInv, PlacesOf, LmcPlaces, LmcWaits, LmcRead,
       LmcPostQuit, LmcHang, MovesAndWakesPmi
  <2>3. CASE LmcWrite \/ LmcCount \/ LmcAdvance \/ LmcDecode \/ LmcEndWrite
    BY <2>3, UnitNames, Arrives DEF IInv, PlacesOf, LmcPlaces, LmcWrite, LmcCount,
       LmcAdvance, LmcDecode, LmcEndWrite, MovesAndWakesPmi
  <2> QED BY <1>2, <2>1, <2>2, <2>3 DEF LmcNext
<1>3. CASE PmoNext
  <2>1. ASSUME ~PmoTake PROVE at["pmo"] # "done"
    BY <1>3, <2>1 DEF PmoNext, PmoStart, PmoTop, PmoWaits, PmoReady, PmoAwaitInit, InitCard,
       PmoTry, PmoPeek, PmoDrain, PmoSpace, PmoWrite, MovesAndWakesLmc, Moves, Unpauses
  <2>2. ASSUME PmoTake PROVE at["pmo"] # "done"
    <3>1. CASE events = <<>>
      BY <2>2, <3>1 DEF PmoTake, Moves
    <3>2. CASE events # <<>>
      BY <2>2, <3>2, HeadEvent DEF PmoTake, InitCard, Moves, IInv, Data
    <3> QED BY <3>1, <3>2
  <2> QED BY <1>3, <2>1, <2>2
<1>4. CASE CtlNext \/ CtlBegins \/ CardPlays \/ UNCHANGED vars
  BY <1>4 DEF CtlNext, PauseUnit, ResumeUnit, ExitUnit, JoinUnit, ResetCard, ClearOutput,
     ClearInput, PositionFile, PositionDecoder, Pause, Resume, Exit, CtlBegins, BeginPause,
     BeginResume, BeginSeek, BeginDelete, Begins, CardPlays, unitVars, vars
<1> QED BY <1>1, <1>2, <1>3, <1>4

LEMMA NextTakes == MaxSeeks = 0 /\ IInv /\ TakesLast /\ [Next]_vars => TakesLast'
<1> SUFFICES ASSUME MaxSeeks = 0, IInv, TakesLast, [Next]_vars PROVE TakesLast'
  OBVIOUS
<1>1. CASE at["pmo"] = "done"
  BY <1>1, OutputEnds DEF TakesLast, Next
<1>2. CASE at["pmo"] # "done" /\ ctl' = ctl
  BY <1>2 DEF TakesLast, JoinsFirst
<1>3. CASE at["pmo"] # "done" /\ CtlBegins
  <2>1. ~BeginSeek
    BY DEF BeginSeek, IInv, CallOK
  <2>2. \E s \in {PauseSteps, <<"resumePmo">>, DeleteSteps, PauseSteps \o DeleteSteps} :
          ctl' = [ctl EXCEPT !.todo = s]
    BY <1>3, <2>1 DEF CtlBegins, BeginPause, BeginResume, BeginDelete, Begins
  <2>3. JoinsFirst(ctl'.todo)
    BY <2>2, DeleteJoins DEF IInv, CallOK
  <2> QED BY <2>3 DEF TakesLast, JoinsFirst
<1>4. CASE at["pmo"] # "done" /\ \E name \in StepNames : Step(name) /\ (name = "joinPmo" => at["pmo"] = "done")
  <2>1. /\ ctl.todo \in Seq(StepNames) /\ ctl.todo # <<>> /\ JoinsFirst(ctl.todo)
        /\ ctl.todo[1] # "joinPmo" /\ ctl'.todo = Tail(ctl.todo)
    BY <1>4 DEF Step, TakesLast, IInv, CallOK
  <2>2. ASSUME NEW i \in 1 .. Len(Tail(ctl.todo)), Tail(ctl.todo)[i] \in Takes
        PROVE  \E j \in 1 .. i - 1 : Tail(ctl.todo)[j] = "joinPmo"
    <3>1. i + 1 \in 1 .. Len(ctl.todo) /\ ctl.todo[i + 1] \in Takes
      BY <2>1, <2>2
    <3>2. PICK j \in 1 .. i : ctl.todo[j] = "joinPmo"
      BY <2>1, <3>1 DEF JoinsFirst
    <3>3. j # 1
      BY <2>1, <3>2
    <3>4. j - 1 \in 1 .. i - 1 /\ Tail(ctl.todo)[j - 1] = "joinPmo"
      BY <2>1, <2>2, <3>2, <3>3
    <3> QED BY <3>4
  <2> QED BY <2>1, <2>2 DEF TakesLast, JoinsFirst
<1>5. CASE PmiNext \/ LmcNext \/ PmoNext \/ CardPlays \/ UNCHANGED vars
  <2>1. ctl' = ctl
    <3>1. CASE PmiNext
      BY <3>1 DEF PmiNext, PmiStart, PmiTop, PmiWaits, PmiBegin, PmiRead, PmiEndWrite,
         PmiSetEos, pmiUnchanged, ctlVars
    <3>2. CASE LmcNext
      BY <3>2, LmcInput
    <3>3. CASE PmoNext \/ CardPlays \/ UNCHANGED vars
      BY <3>3 DEF PmoNext, PmoStart, PmoTop, PmoWaits, PmoReady, PmoAwaitInit, PmoTry,
         PmoPeek, PmoTake, PmoDrain, PmoSpace, PmoWrite, CardPlays, pmoUnchanged, ctlVars, vars
    <3> QED BY <1>5, <3>1, <3>2, <3>3
  <2> QED BY <1>1, <1>2, <2>1
<1>6. CASE CtlNext
  <2>1. \E name \in StepNames : Step(name) /\ (name = "joinPmo" => at["pmo"] = "done")
    BY <1>6 DEF CtlNext, PauseUnit, ResumeUnit, ExitUnit, JoinUnit, ResetCard, ClearOutput,
       ClearInput, PositionFile, PositionDecoder, StepNames
  <2> QED BY <1>1, <1>4, <2>1
<1> QED BY <1>1, <1>3, <1>5, <1>6 DEF Next

\* Where there is nothing new for the decoder to give up, the way may grow
\* only at the end of the file.
LEMMA WayKept ==
  ASSUME WayOK, at["pmo"] # "done", epoch' = epoch, written' = written, filePos' = filePos,
         In(outData)' \cup Hand' = In(outData) \cup Hand,
         In(inData)' \cup In(fetched)' = In(inData) \cup In(fetched),
         at'["lmc"] \in {"advance", "sleepAdvance"} =>
           inData' # <<>> /\ Head(inData').num \in Corrupt
  PROVE  WayOK'
<1>1. In(outData)' \cup Hand' \cup In(inData)' \cup In(fetched)'
        = In(outData) \cup Hand \cup In(inData) \cup In(fetched)
  OBVIOUS
<1> QED BY <1>1 DEF WayOK, Good

LEMMA PmiWay == IInv /\ WayOK /\ PmiNext => WayOK'
<1> SUFFICES ASSUME IInv, WayOK, PmiNext PROVE WayOK'
  OBVIOUS
<1>. SUFFICES ASSUME at["pmo"] # "done" PROVE WayOK'
  <2>1. at'["pmo"] = at["pmo"]
    BY UnitNames, Arrives DEF IInv, PlacesOf, PmiPlaces, PmiNext, PmiStart, PmiTop,
       PmiWaits, PmiBegin, PmiRead, PmiEndWrite, PmiSetEos
  <2> QED BY <2>1 DEF WayOK
<1>1. UNCHANGED <<outData, decoded, written, epoch>>
  BY DEF PmiNext, PmiStart, PmiTop, PmiWaits, PmiBegin, PmiRead, PmiEndWrite, PmiSetEos,
     pmiUnchanged, fileVars, outVars, lmcVars, pmoVars
<1>2. at'["lmc"] = at["lmc"]
  BY UnitNames, Arrives DEF IInv, PlacesOf, PmiPlaces, PmiNext, PmiStart, PmiTop, PmiWaits,
     PmiBegin, PmiRead, PmiEndWrite, PmiSetEos
<1>3. In(outData)' = In(outData) /\ Hand' = Hand
  BY <1>1, <1>2 DEF In, Hand
<1>4. CASE PmiStart \/ PmiTop \/ PmiWaits \/ PmiBegin \/ PmiSetEos
  <2>1. UNCHANGED <<inData, fetched, filePos>>
    BY <1>4 DEF PmiStart, PmiTop, PmiWaits, PmiBegin, PmiSetEos, fileVars, inVars
  <2>2. In(inData)' = In(inData) /\ In(fetched)' = In(fetched)
    BY <2>1 DEF In
  <2> QED BY <1>1, <1>2, <1>3, <2>1, <2>2, WayKept DEF WayOK
<1>5. CASE PmiRead
  <2>1. inData' = inData /\ fetched = <<>> /\ filePos \in Int
    BY <1>5, UnitNames DEF PmiRead, Moves, inVars, IInv, Data, ContentsOK, FramesOK
  <2>2. In(inData)' = In(inData) /\ In(fetched) = {}
    BY <2>1, OneSorted DEF In
  <2>3. CASE fetched' = <<>> /\ filePos' = filePos
    <3>1. In(fetched)' = {}
      BY <2>3 DEF In
    <3> QED BY <1>1, <1>2, <1>3, <2>1, <2>2, <2>3, <3>1, WayKept DEF WayOK
  <2>4. CASE fetched' = <<[num |-> filePos, epoch |-> epoch]>> /\ filePos' = filePos + 1
    <3>1. In(fetched)' = {[num |-> filePos, epoch |-> epoch]}
      BY <2>4 DEF In
    <3>2. ASSUME NEW g \in Good, g > written.num, g < filePos + 1
          PROVE  \E f \in In(outData) \cup Hand \cup In(inData) \cup In(fetched)' : f.num = g
      <4>1. CASE g = filePos
        <5>1. [num |-> filePos, epoch |-> epoch] \in In(fetched)'
              /\ [num |-> filePos, epoch |-> epoch].num = g
          BY <3>1, <4>1
        <5> QED BY <5>1
      <4>2. CASE g < filePos
        BY <2>2, <3>2, <4>2 DEF WayOK
      <4> QED BY <2>1, <3>2, <4>1, <4>2 DEF Good
    <3> QED BY <1>1, <1>2, <1>3, <2>1, <2>2, <2>4, <3>2 DEF WayOK, Good
  <2> QED BY <1>5, <2>3, <2>4 DEF PmiRead
<1>6. CASE PmiEndWrite
  <2>1. /\ inData' = inData \o fetched /\ fetched' = <<>> /\ filePos' = filePos
        /\ inData \in Seq(Frames) /\ fetched \in Seq(Frames)
    BY <1>6 DEF PmiEndWrite, IInv, Data, FramesOK
  <2>2. In(inData)' = In(inData) \cup In(fetched) /\ In(fetched)' = {}
    <3>1. In(inData \o fetched) = In(inData) \cup In(fetched)
      BY <2>1, JoinedSorted
    <3>2. In(inData)' = In(inData \o fetched)
      BY <2>1 DEF In
    <3>3. In(fetched)' = {}
      BY <2>1 DEF In
    <3> QED BY <3>1, <3>2, <3>3
  <2>3. inData # <<>> => inData' # <<>> /\ Head(inData') = Head(inData)
    BY <2>1
  <2> QED BY <1>1, <1>2, <1>3, <2>1, <2>2, <2>3, WayKept DEF WayOK
<1> QED BY <1>4, <1>5, <1>6 DEF PmiNext

LEMMA LmcWay == IInv /\ WayOK /\ LmcNext => WayOK'
<1> SUFFICES ASSUME IInv, WayOK, LmcNext PROVE WayOK'
  OBVIOUS
<1>. SUFFICES ASSUME at["pmo"] # "done" PROVE WayOK'
  <2>1. at["pmo"] = "done" => at'["pmo"] = "done"
    BY OutputEnds
  <2> QED BY <2>1 DEF WayOK
<1>1. written' = written /\ UNCHANGED <<fetched, epoch, filePos>>
  BY LmcInput DEF LmcNext, LmcStart, LmcCanDecode, LmcPostInit, LmcPost, LmcTop, LmcSize, LmcWaits,
     LmcRead, LmcPostQuit, LmcHang, LmcWrite, LmcDecode, LmcEndWrite, LmcCount, LmcAdvance,
     lmcUnchanged, pmoVars
<1>2. inData \in Seq(Frames) /\ outData \in Seq(Frames) /\ In(fetched)' = In(fetched)
  BY <1>1 DEF IInv, Data, FramesOK, In
<1>3. CASE LmcNext /\ ~LmcEndWrite /\ ~LmcDecode /\ ~LmcAdvance
  <2>1. /\ at'["lmc"] # "endWrite" /\ at["lmc"] # "endWrite"
        /\ at'["lmc"] \in {"advance", "sleepAdvance"} => at["lmc"] \in {"advance", "sleepAdvance"}
    <3>1. CASE LmcStart \/ LmcPostInit \/ LmcPost \/ LmcTop \/ LmcSize
      BY <3>1, UnitNames, Arrives DEF IInv, PlacesOf, LmcPlaces, LmcStart,
         LmcPostInit, LmcPost, LmcTop, LmcSize
    <3>4. CASE LmcCanDecode
      <4>1. at["lmc"] = "canDecode" /\ at'["lmc"] \in {"done", "postInit", "sleepDecode"}
        <5>1. CASE Moves("lmc", "canDecode", "done") \/ Moves("lmc", "canDecode", "postInit")
          BY <5>1, UnitNames, Arrives DEF IInv, PlacesOf, LmcPlaces
        <5>2. CASE MovesAndWakesPmi("canDecode", "sleepDecode")
          BY <5>2, UnitNames, Arrives DEF IInv, PlacesOf, LmcPlaces, MovesAndWakesPmi
        <5> QED BY <3>4, <5>1, <5>2 DEF LmcCanDecode
      <4> QED BY <4>1
    <3>2. CASE LmcWaits \/ LmcRead \/ LmcPostQuit \/ LmcHang
      BY <3>2, UnitNames, Arrives DEF IInv, PlacesOf, LmcPlaces, LmcWaits, LmcRead,
         LmcPostQuit, LmcHang, MovesAndWakesPmi
    <3>3. CASE LmcWrite \/ LmcCount
      BY <3>3, UnitNames, Arrives DEF IInv, PlacesOf, LmcPlaces, LmcWrite, LmcCount,
         MovesAndWakesPmi
    <3> QED BY <1>3, <3>1, <3>2, <3>3, <3>4 DEF LmcNext
  <2>2. outData' = outData /\ inData' = inData
    BY <1>3 DEF LmcNext, LmcStart, LmcCanDecode, LmcPostInit, LmcPost, LmcTop, LmcSize, LmcWaits,
       LmcRead, LmcPostQuit, LmcHang, LmcWrite, LmcCount, Accept, outVars, inVars
  <2>3. In(outData)' = In(outData) /\ In(inData)' = In(inData) /\ Hand' = {} /\ Hand = {}
    BY <2>1, <2>2 DEF In, Hand
  <2> QED BY <1>1, <1>2, <2>1, <2>2, <2>3, WayKept DEF WayOK
<1>4. CASE LmcDecode
  <2>1. /\ at["lmc"] = "decode" /\ outData' = outData
        /\ \/ /\ decoded.num \in Corrupt /\ at'["lmc"] = "advance" /\ inData' = inData
           \/ /\ at'["lmc"] = "done" /\ inData' = inData
           \/ /\ decoded.num \notin Corrupt /\ at'["lmc"] = "endWrite"
              /\ inData' = Tail(inData) /\ decoded' = decoded
    BY <1>4, UnitNames, Arrives DEF IInv, PlacesOf, LmcPlaces, LmcDecode, MovesAndWakesPmi
  <2>2. inData # <<>> /\ decoded = Head(inData) /\ Hand = {} /\ In(outData)' = In(outData)
    BY <2>1 DEF IInv, Data, ContentsOK, Hand, In
  <2>3. CASE inData' = inData /\ at'["lmc"] # "endWrite"
    <3>1. In(inData)' = In(inData) /\ Hand' = {}
      BY <2>3 DEF In, Hand
    <3> QED BY <1>1, <1>2, <2>1, <2>2, <2>3, <3>1, WayKept
  <2>4. CASE /\ decoded.num \notin Corrupt /\ at'["lmc"] = "endWrite"
             /\ inData' = Tail(inData) /\ decoded' = decoded
    <3>1. In(inData) = {decoded} \cup In(Tail(inData))
      BY <1>2, <2>2, TailSorted
    <3>2. Hand' = {decoded} /\ In(inData)' = In(Tail(inData))
      BY <2>4 DEF Hand, In
    <3> QED BY <1>1, <1>2, <2>2, <2>4, <3>1, <3>2 DEF WayOK, Good
  <2> QED BY <2>1, <2>3, <2>4
<1>5. CASE LmcEndWrite
  <2>1. /\ at["lmc"] = "endWrite" /\ at'["lmc"] = "count" /\ outData' = Append(outData, decoded)
        /\ inData' = inData
    BY <1>5, UnitNames, Arrives DEF IInv, PlacesOf, LmcPlaces, LmcEndWrite, inVars
  <2>2. decoded \in Frames /\ Append(outData, decoded) = outData \o <<decoded>>
    BY <1>2, <2>1 DEF IInv, Data, ContentsOK
  <2>3. In(outData \o <<decoded>>) = In(outData) \cup {decoded}
    <3>1. <<decoded>> \in Seq(Frames) /\ In(<<decoded>>) = {decoded}
      BY <2>2, OneSorted
    <3>2. \A q \in Seq(Frames) : In(outData \o q) = In(outData) \cup In(q)
      BY <1>2, JoinedSorted
    <3> QED BY <3>1, <3>2
  <2>4. /\ Hand = {decoded} /\ Hand' = {} /\ In(outData)' = In(outData) \cup {decoded}
        /\ In(inData)' = In(inData)
    BY <2>1, <2>2, <2>3 DEF Hand, In
  <2> QED BY <1>1, <1>2, <2>1, <2>4, WayKept
<1>6. CASE LmcAdvance
  <2>1. /\ at["lmc"] = "advance" /\ at'["lmc"] \in {"done", "top", "sleepAdvance"}
        /\ outData' = outData
        /\ \/ inData' = inData
           \/ at'["lmc"] = "top" /\ inData' = Tail(inData)
    BY <1>6, UnitNames, Arrives DEF IInv, PlacesOf, LmcPlaces, LmcAdvance, MovesAndWakesPmi,
       Accept, outVars
  <2>2. inData # <<>> /\ Head(inData).num \in Corrupt
    BY <2>1 DEF WayOK
  <2>3. Hand = {} /\ Hand' = {} /\ In(outData)' = In(outData)
    BY <2>1 DEF Hand, In
  <2>4. CASE inData' = inData
    <3>1. In(inData)' = In(inData)
      BY <2>4 DEF In
    <3> QED BY <1>1, <1>2, <2>2, <2>3, <2>4, <3>1, WayKept
  <2>5. CASE at'["lmc"] = "top" /\ inData' = Tail(inData)
    <3>1. In(inData) = {Head(inData)} \cup In(Tail(inData)) /\ In(inData)' = In(Tail(inData))
      <4>1. In(inData) = {Head(inData)} \cup In(Tail(inData))
        BY <1>2, <2>2, TailSorted
      <4>2. In(inData)' = In(Tail(inData))
        BY <2>5 DEF In
      <4> QED BY <4>1, <4>2
    <3>2. \A g \in Good : g \notin Corrupt
      BY DEF Good
    <3>3. ASSUME NEW g \in Good, g > written.num, g < filePos
          PROVE  \E f \in In(outData)' \cup Hand' \cup In(inData)' \cup In(fetched)' : f.num = g
      <4>1. PICK f \in In(outData) \cup Hand \cup In(inData) \cup In(fetched) : f.num = g
        BY <3>3 DEF WayOK
      <4>2. f # Head(inData)
        BY <2>2, <3>2, <4>1
      <4> QED BY <1>2, <2>3, <3>1, <4>1, <4>2
    <3> QED BY <1>1, <2>3, <2>5, <3>3 DEF WayOK, Good
  <2> QED BY <2>1, <2>4, <2>5
<1> QED BY <1>3, <1>4, <1>5, <1>6

\* The frame that goes to the card is the next good one of the file.
LEMMA HeadIsNext ==
  ASSUME IInv, OrderOK, WayOK, at["pmo"] # "done", outData # <<>>
  PROVE  Follows(written, Head(outData).num)
<1> DEFINE h == Head(outData)
<1>1. h \in Frames /\ h \in In(outData) /\ In(outData) = {h} \cup In(Tail(outData))
      /\ AllBefore({h}, In(Tail(outData)))
  <2>1. outData \in Seq(Frames) /\ Sorted(outData) /\ h \in Frames
    BY DEF IInv, Data, FramesOK, OrderOK
  <2> QED BY <2>1, TailSorted
<1> HIDE DEF h
<1>2. h.num \in Good
  BY <1>1 DEF WayOK, Good, Frames
<1>3. /\ epoch = 0 /\ filePos \in Nat
      /\ \A f \in {written} \cup In(outData) \cup Hand \cup In(inData) \cup In(fetched) :
           f.num \in Int /\ f.epoch = 0
  <2>1. epoch = 0 /\ filePos \in Nat
    BY DEF WayOK, IInv, Data, FramesOK
  <2>2. written.num \in Int /\ written.epoch \in Int /\ written.epoch >= 0
    BY FrameFields DEF IInv, Data, FramesOK
  <2>3. \A f \in In(outData) \cup In(inData) \cup In(fetched) : f \in Frames
    BY DEF In, IInv, Data, FramesOK
  <2>4. \A f \in Hand : f \in Frames
    BY DEF Hand, IInv, Data, ContentsOK
  <2>5. \A f \in {written} \cup In(outData) \cup Hand \cup In(inData) \cup In(fetched) :
           f.num \in Int /\ f.epoch \in Int /\ f.epoch >= 0
    BY <2>2, <2>3, <2>4, FrameFields
  <2>6. \A f \in {written} \cup In(outData) \cup Hand \cup In(inData) \cup In(fetched) :
           f.epoch <= 0
    BY <2>1, <2>5 DEF OrderOK, Given, Before
  <2> QED BY <2>1, <2>5, <2>6
<1>4. h.num > written.num
  BY <1>1, <1>3 DEF OrderOK, AllBefore, Before
<1>5. ASSUME NEW g \in Good, g > written.num PROVE h.num <= g
  <2>1. CASE g < filePos
    <3>1. PICK f \in In(outData) \cup Hand \cup In(inData) \cup In(fetched) : f.num = g
      BY <1>5, <2>1 DEF WayOK
    <3>2. f = h \/ Before(h, f)
      BY <1>1, <3>1 DEF OrderOK, AllBefore
    <3> QED BY <1>1, <1>3, <3>1, <3>2 DEF Before
  <2>2. CASE g >= filePos
    <3>1. h.num < filePos
      BY <1>1, <1>3 DEF OrderOK, Given, Before
    <3> QED BY <1>1, <1>3, <2>2, <3>1 DEF Good
  <2> QED BY <1>3, <2>1, <2>2 DEF Good
<1> QED BY <1>2, <1>4, <1>5 DEF Follows, h

LEMMA PmoWay == IInv /\ OrderOK /\ WayOK /\ (PmoNext \/ CardPlays) => WayOK'
<1> SUFFICES ASSUME IInv, OrderOK, WayOK, PmoNext \/ CardPlays PROVE WayOK'
  OBVIOUS
<1>. SUFFICES ASSUME at["pmo"] # "done", at'["pmo"] # "done" PROVE WayOK'
  <2>1. at["pmo"] = "done" => at'["pmo"] = "done"
    BY OutputEnds
  <2> QED BY <2>1 DEF WayOK
<1>1. UNCHANGED <<fetched, epoch, filePos, inData, decoded>> /\ at'["lmc"] = at["lmc"]
  BY PmoLeaves
<1>2. UNCHANGED <<Hand, In(inData), In(fetched)>>
  BY <1>1 DEF Hand, In
<1>3. CASE outData' = outData /\ written' = written
  <2>1. In(outData)' = In(outData)
    BY <1>3 DEF In
  <2> QED BY <1>1, <1>2, <1>3, <2>1, WayKept DEF WayOK
<1>4. CASE outData # <<>> /\ written' = Head(outData) /\ outData' = Tail(outData)
  <2>1. Follows(written, Head(outData).num) /\ Head(outData) \in Frames
    BY <1>4, HeadIsNext DEF IInv, Data, FramesOK
  <2>2. In(outData) = {Head(outData)} \cup In(Tail(outData))
    BY <1>4, TailSorted DEF IInv, Data, FramesOK
  <2>3. In(outData)' = In(Tail(outData))
    BY <1>4 DEF In
  <2>4. written.num \in Int /\ Head(outData).num \in Int
    BY <2>1, FrameFields DEF IInv, Data, FramesOK, AnyFrames
  <2>5. ASSUME NEW g \in Good, g > Head(outData).num, g < filePos
        PROVE  \E f \in In(Tail(outData)) \cup Hand \cup In(inData) \cup In(fetched) : f.num = g
    <3>1. g > written.num /\ g # Head(outData).num
      BY <2>1, <2>4, <2>5 DEF Follows, Good
    <3>2. PICK f \in In(outData) \cup Hand \cup In(inData) \cup In(fetched) : f.num = g
      BY <2>5, <3>1 DEF WayOK
    <3> QED BY <2>2, <3>1, <3>2
  <2> QED BY <1>1, <1>2, <1>4, <2>2, <2>3, <2>5 DEF WayOK, Good
<1> QED BY <1>3, <1>4, PmoLeaves

LEMMA CtlWay == IInv /\ TakesLast /\ WayOK /\ (CtlNext \/ CtlBegins) => WayOK'
<1> SUFFICES ASSUME IInv, TakesLast, WayOK, CtlNext \/ CtlBegins PROVE WayOK'
  OBVIOUS
<1>. SUFFICES ASSUME at["pmo"] # "done" PROVE WayOK'
  <2>1. at["pmo"] = "done" => at'["pmo"] = "done"
    BY OutputEnds
  <2> QED BY <2>1 DEF WayOK
<1>1. \A name \in Takes : ~Step(name)
  <2>1. ASSUME NEW name \in Takes, Step(name) PROVE FALSE
    <3>1. ctl.todo \in Seq(StepNames) /\ ctl.todo # <<>> /\ ctl.todo[1] \in Takes
      BY <2>1 DEF Step, IInv, CallOK
    <3>2. 1 \in 1 .. Len(ctl.todo) /\ JoinsFirst(ctl.todo)
      BY <3>1 DEF TakesLast
    <3> QED BY <3>1, <3>2 DEF JoinsFirst
  <2> QED BY <2>1
<1>2. at' = at /\ UNCHANGED <<fetched, decoded, written, epoch, filePos, inData, outData>>
  <2>1. ~ClearInput /\ ~PositionFile /\ ~Step("clearOut")
    BY <1>1 DEF ClearInput, PositionFile, Takes
  <2> QED BY <2>1 DEF CtlNext, PauseUnit, ResumeUnit, ExitUnit, JoinUnit, ResetCard,
          ClearOutput, PositionDecoder, Pause, Resume, Exit, CtlBegins, BeginPause,
          BeginResume, BeginSeek, BeginDelete, Begins, unitVars, fileVars, inVars, outVars,
          lmcVars, pmoVars
<1> QED BY <1>2 DEF WayOK, Hand, In, Good

LEMMA NextNoSeek == MaxSeeks = 0 /\ NoSeekInv /\ [Next]_vars => NoSeekInv'
<1> SUFFICES ASSUME MaxSeeks = 0, NoSeekInv, [Next]_vars PROVE NoSeekInv'
  OBVIOUS
<1>1. IInv' /\ OrderOK' /\ TakesLast'
  BY NextIInv, NextOrder, NextTakes DEF NoSeekInv
<1>2. WayOK'
  <2>1. CASE Next
    BY <2>1, PmiWay, LmcWay, PmoWay, CtlWay DEF Next, NoSeekInv
  <2>2. CASE UNCHANGED vars
    BY <2>2 DEF NoSeekInv, WayOK, Hand, In, Good, vars, unitVars, fileVars, inVars, outVars,
       lmcVars, pmoVars
  <2> QED BY <2>1, <2>2
<1> QED BY <1>1, <1>2 DEF NoSeekInv

\* Without a seek the card is given every good frame of the file once, in the
\* order of the file, whatever the player pauses, resumes or stops.
THEOREM EveryGoodFrameOnce ==
  ASSUME MaxSeeks = 0
  PROVE  Spec => NextFrame
<1>1. Init => NoSeekInv
  BY InitIInv, InitOrder, InitWay DEF NoSeekInv
<1>2. NoSeekInv /\ [Next]_vars => NoSeekInv'
  BY NextNoSeek
<1>3. NoSeekInv /\ [Next]_vars =>
        [at["pmo"] = "write" /\ at'["pmo"] = "top" => Follows(written, written'.num)]_at
  <2> SUFFICES ASSUME NoSeekInv, [Next]_vars, at["pmo"] = "write", at'["pmo"] = "top"
               PROVE  Follows(written, written'.num)
    OBVIOUS
  <2>1. PmoNext
    BY OutputEnds DEF NoSeekInv, Next
  <2>2. PmoWrite
    BY <2>1, WriteIsWrite DEF NoSeekInv
  <2>3. outData # <<>> /\ written' = Head(outData)
    BY <2>1, WriteIsWrite DEF NoSeekInv
  <2> QED BY <2>3, HeadIsNext DEF NoSeekInv
<1> QED BY <1>1, <1>2, <1>3, PTL DEF Spec, NextFrame
=============================================================================
