------------------------------ MODULE XingLMC ------------------------------
(***************************************************************************)
(* The decoder thread (lmc/xingmp3/src/xinglmc.cpp, DecodeWork): it turns  *)
(* each frame of the input buffer into a frame of the output buffer, and   *)
(* queues the events the output has to act on between two frames.          *)
(***************************************************************************)
EXTENDS PipelineUnit

lmcUnchanged == UNCHANGED <<fileVars, pmoVars, ctlVars>>

\* The worker moves and wakes the input.
MovesAndWakesPmi(from, where) ==
  /\ at["lmc"] = from /\ Goes("lmc", where)
  /\ Wake("pmi")
  /\ UNCHANGED <<paused, exiting, pauseSem>>

LmcStart ==
  /\ at["lmc"] = "start" /\ sleepSem["lmc"] > 0
  /\ Goes("lmc", "canDecode")
  /\ sleepSem' = Signalled(Taken(sleepSem, "lmc"), "pmi")
  /\ UNCHANGED <<paused, exiting, pauseSem, inVars, outVars, lmcVars, told>>
  /\ lmcUnchanged

\* CanDecode, ExtractMediaInfo and InitDecoder look at the head of the stream,
\* some frames long, and leave it there; a shorter one is reported and given up.
LmcCanDecode ==
  /\ \/ exiting["lmc"] /\ Moves("lmc", "canDecode", "done") /\ UNCHANGED told
     \/ /\ ~exiting["lmc"] /\ Len(inData) >= HeadAhead
        /\ Moves("lmc", "canDecode", "postInit") /\ UNCHANGED told
     \/ /\ ~exiting["lmc"] /\ Len(inData) < HeadAhead /\ inEos
        /\ Moves("lmc", "canDecode", "done") /\ told' = told \cup {"error"}
     \/ /\ ~exiting["lmc"] /\ Len(inData) < HeadAhead /\ ~inEos
        /\ MovesAndWakesPmi("canDecode", "sleepDecode") /\ UNCHANGED told
  /\ UNCHANGED <<inVars, outVars, lmcVars>> /\ lmcUnchanged

LmcPostInit ==
  /\ Moves("lmc", "postInit", "post")
  /\ Accept("init", 0)
  /\ frameCounter' = 0
  /\ UNCHANGED <<inVars, want, decoded, told>> /\ lmcUnchanged

\* The outer loop: a time event for each frame.
LmcPost ==
  /\ \/ exiting["lmc"] /\ Moves("lmc", "post", "done") /\ UNCHANGED outVars
     \/ ~exiting["lmc"] /\ Moves("lmc", "post", "top")
        /\ Accept("time", frameCounter)
  /\ UNCHANGED <<inVars, lmcVars, told>> /\ lmcUnchanged

\* Mutant: the pause flag is not looked at.
LmcTopUnpaused ==
  /\ Moves("lmc", "top", IF exiting["lmc"] THEN "done" ELSE "size")
  /\ UNCHANGED <<inVars, outVars, lmcVars, told>> /\ lmcUnchanged

\* The pause flag is looked at once; a left-over signal passes it.
LmcTop ==
  /\ Moves("lmc", "top", IF exiting["lmc"] THEN "done"
                         ELSE IF paused["lmc"] THEN "waitPause" ELSE "size")
  /\ UNCHANGED <<inVars, outVars, lmcVars, told>> /\ lmcUnchanged

\* Sleep() and the pause semaphore: each returns to the call that was refused.
LmcWaits ==
  /\ \/ Unpauses("lmc", "waitPause", IF exiting["lmc"] THEN "done" ELSE "size")
     \/ Awakes("lmc", "sleepDecode", "canDecode")
     \/ Awakes("lmc", "sleepRead", IF exiting["lmc"] THEN "done" ELSE "read")
     \/ Awakes("lmc", "sleepWrite", IF exiting["lmc"] THEN "done" ELSE "top")
     \/ Awakes("lmc", "sleepAdvance", IF exiting["lmc"] THEN "done" ELSE "advance")
     \/ Awakes("lmc", "sleepHang", "hang")
  /\ UNCHANGED <<inVars, outVars, lmcVars, told>> /\ lmcUnchanged

\* How much to ask for: iMaxFrameSize, or all there is once that is less and the
\* stream has ended.  The count and the flag are looked at without a lock.  Left
\* out: a Clear between these looks that makes the size zero (inData # <<>>).
LmcSize ==
  /\ \/ /\ Len(inData) \in 1 .. ReadAhead - 1
        /\ Moves("lmc", "size", "sizeEos") /\ UNCHANGED want
     \/ /\ Len(inData) \notin 1 .. ReadAhead - 1
        /\ Moves("lmc", "size", "read") /\ want' = ReadAhead
     \/ /\ Moves("lmc", "sizeEos", "read")
        /\ want' = IF inEos /\ inData # <<>> THEN Len(inData) ELSE ReadAhead
  /\ UNCHANGED <<inVars, outVars, decoded, frameCounter, told>> /\ lmcUnchanged

\* XingLMC::BeginRead on the input buffer.  A refused request waits and is made
\* again for as much: at the end of the stream there may be less by then, and
\* whole frames in it.
LmcRead ==
  LET enough == Len(inData) >= want
  IN /\ \/ /\ exiting["lmc"] /\ Moves("lmc", "read", "done")
           /\ UNCHANGED <<inGrant, decoded>>
        \/ /\ ~exiting["lmc"] /\ enough
           /\ Moves("lmc", "read", "write")
           /\ inGrant' = inGrant \cup {"lmc"} /\ decoded' = Head(inData)
        \/ /\ ~exiting["lmc"] /\ ~enough /\ inEos
           /\ Moves("lmc", "read", "postQuit") /\ UNCHANGED <<inGrant, decoded>>
        \/ /\ ~exiting["lmc"] /\ ~enough /\ ~inEos
           /\ MovesAndWakesPmi("read", "sleepRead") /\ UNCHANGED <<inGrant, decoded>>
     /\ UNCHANGED <<inData, inEos, outVars, want, frameCounter, told>> /\ lmcUnchanged

LmcPostQuit ==
  /\ Moves("lmc", "postQuit", "hang")
  /\ Accept("quit", 0)
  /\ UNCHANGED <<inVars, lmcVars, told>> /\ lmcUnchanged

\* "Hang around until we're told to leave in case the user seeks."
LmcHang ==
  /\ Moves("lmc", "hang", IF ~inEos THEN "post"
                          ELSE IF exiting["lmc"] THEN "done" ELSE "sleepHang")
  /\ UNCHANGED <<inVars, outVars, lmcVars, told>> /\ lmcUnchanged

\* Mutant: room is not asked for.
LmcWriteUnchecked ==
  /\ Moves("lmc", "write", "decode")
  /\ outGrant' = outGrant \cup {"lmc"}
  /\ UNCHANGED <<inVars, outData, outStart, events, lmcVars, told>> /\ lmcUnchanged

\* BeginWrite on the output buffer; refused, the input window is given back.
LmcWrite ==
  /\ LET room == Len(outData) < OutCap
     IN /\ Moves("lmc", "write", IF room THEN "decode" ELSE "sleepWrite")
        /\ outGrant' = IF room THEN outGrant \cup {"lmc"} ELSE outGrant
        /\ inGrant' = IF room THEN inGrant ELSE inGrant \ {"lmc"}
        /\ decoded' = IF room THEN decoded ELSE NoFrame
  /\ UNCHANGED <<inData, inEos, outData, outStart, events, want, frameCounter, told>>
  /\ lmcUnchanged

\* Mutant: the decoded frame is not consumed.
LmcDecodeKeeps ==
  /\ LET bad == decoded.num \in Corrupt
     IN /\ IF bad THEN Moves("lmc", "decode", "advance")
                  ELSE MovesAndWakesPmi("decode", "endWrite")
        /\ outGrant' = IF bad THEN outGrant \ {"lmc"} ELSE outGrant
        /\ decoded' = IF bad THEN NoFrame ELSE decoded
  /\ inGrant' = inGrant \ {"lmc"}
  /\ UNCHANGED <<inData, inEos, outData, outStart, events, want, frameCounter, told>>
  /\ lmcUnchanged

\* audio_decode.  A frame it takes is consumed from the input at once, and the
\* window on the output kept; a thread told to exit leaves with both windows.
LmcDecode ==
  /\ \/ /\ decoded.num \in Corrupt /\ Moves("lmc", "decode", "advance")
        /\ inGrant' = inGrant \ {"lmc"} /\ outGrant' = outGrant \ {"lmc"}
        /\ decoded' = NoFrame /\ UNCHANGED inData
     \/ /\ decoded.num \notin Corrupt /\ exiting["lmc"]
        /\ Moves("lmc", "decode", "done")
        /\ UNCHANGED <<inData, inGrant, outGrant, decoded>>
     \/ /\ decoded.num \notin Corrupt /\ ~exiting["lmc"]
        /\ MovesAndWakesPmi("decode", "endWrite")
        /\ inData' = Tail(inData) /\ inGrant' = inGrant \ {"lmc"}
        /\ UNCHANGED <<outGrant, decoded>>
  /\ UNCHANGED <<inEos, outData, outStart, events, want, frameCounter, told>>
  /\ lmcUnchanged

LmcEndWrite ==
  /\ Moves("lmc", "endWrite", "count")
  /\ outData' = Append(outData, decoded)
  /\ outGrant' = outGrant \ {"lmc"} /\ decoded' = NoFrame
  /\ UNCHANGED <<inVars, outStart, events, want, frameCounter, told>> /\ lmcUnchanged

LmcCount ==
  /\ Moves("lmc", "count", "post")
  /\ frameCounter' = frameCounter + 1
  /\ UNCHANGED <<inVars, outVars, want, decoded, told>> /\ lmcUnchanged

\* AdvanceBufferToNextFrame skips the frame that did not decode.  It asks for
\* iMaxFrameSize bytes; where the stream ends before them the thread leaves, with
\* what whole frames there are.
LmcAdvance ==
  LET enough == Len(inData) >= ReadAhead
  IN /\ \/ /\ exiting["lmc"] /\ Moves("lmc", "advance", "done")
           /\ UNCHANGED <<inData, outVars>>
        \/ /\ ~exiting["lmc"] /\ ~enough /\ inEos /\ Moves("lmc", "advance", "done")
           /\ Accept("quit", 0) /\ UNCHANGED inData
        \/ /\ ~exiting["lmc"] /\ enough
           /\ Moves("lmc", "advance", "top")
           /\ inData' = Tail(inData) /\ UNCHANGED outVars
        \/ /\ ~exiting["lmc"] /\ ~enough /\ ~inEos
           /\ MovesAndWakesPmi("advance", "sleepAdvance")
           /\ UNCHANGED <<inData, outVars>>
     /\ UNCHANGED <<inEos, inGrant, lmcVars, told>> /\ lmcUnchanged

LmcNext ==
  \/ LmcStart \/ LmcCanDecode \/ LmcPostInit \/ LmcPost \/ LmcTop \/ LmcWaits
  \/ LmcSize \/ LmcRead \/ LmcPostQuit \/ LmcHang \/ LmcWrite \/ LmcDecode \/ LmcEndWrite
  \/ LmcCount \/ LmcAdvance
=============================================================================
