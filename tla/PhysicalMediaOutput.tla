------------------------ MODULE PhysicalMediaOutput ------------------------
(***************************************************************************)
(* What the player's thread does to a playing track (io/src/pmo.cpp): it   *)
(* pauses and resumes it, changes the position, and deletes it.  A call is *)
(* the sequence of the steps it still has to make; between two of them the *)
(* workers run.                                                            *)
(***************************************************************************)
EXTENDS PipelineUnit

\* PhysicalMediaOutput::Pause ends in Reset(true), and that in Init(NULL).
PauseSteps == <<"pausePmo", "resetCard", "initCard">>

\* Mutant: the input buffer is not cleared again after the file is positioned.
SeekStepsClearOnce ==
  PauseSteps \o
  <<"pauseLmc", "pausePmi", "clearEvents", "clearOut", "rewind", "clearIn",
    "clearIn", "position", "seek", "resumePmi", "resumeLmc">>

\* ChangePosition; LocalFileInput::Clear clears twice, and XingLMC::ChangePosition
\* ends in LocalFileInput::Seek.
SeekSteps ==
  PauseSteps \o
  <<"pauseLmc", "pausePmi", "clearEvents", "clearOut", "rewind", "clearIn",
    "clearIn", "position", "seek", "clearIn", "resumePmi", "resumeLmc">>

\* ~SoundCardPMO, ~PhysicalMediaOutput, ~XingLMC, ~LocalFileInput.
DeleteSteps ==
  <<"exitPmo", "joinPmo", "resetCard", "initCard", "pauseLmc", "pausePmi",
    "clearEvents", "clearOut", "rewind", "clearIn", "clearIn", "exitLmc",
    "joinLmc", "exitPmi", "joinPmi">>

\* Once the decoder has told the player the length of the track, it may be
\* asked for a position.
LengthKnown == at["lmc"] \notin {"start", "canDecode", "sleepDecode"}

Deleted == exiting["pmi"] /\ ctl.todo = <<>>

Begins(steps) ==
  /\ ctl.todo = <<>> /\ ~exiting["pmo"]
  /\ ctl' = [ctl EXCEPT !.todo = steps]
  /\ UNCHANGED <<unitVars, fileVars, inVars, outVars, lmcVars, pmoVars, told>>

BeginPause ==
  /\ left.pauses > 0
  /\ Begins(PauseSteps)
  /\ left' = [left EXCEPT !.pauses = @ - 1]

\* Player::UnPause and Play resume a track that is not paused as well.
BeginResume ==
  /\ MaxPauses > 0
  /\ Begins(<<"resumePmo">>) /\ UNCHANGED left

BeginSeek ==
  /\ left.seeks > 0 /\ LengthKnown
  /\ ctl.todo = <<>> /\ ~exiting["pmo"]
  /\ \E pos \in SeekTo :
       ctl' = [todo |-> SeekSteps \o (IF paused["pmo"] THEN <<>> ELSE <<"resumePmo">>),
               pos |-> pos]
  /\ left' = [left EXCEPT !.seeks = @ - 1]
  /\ UNCHANGED <<unitVars, fileVars, inVars, outVars, lmcVars, pmoVars, told>>

\* Player::Stop pauses the track first, Play and DoneOutputting do not.
BeginDelete ==
  /\ MayStop
  /\ \E steps \in {DeleteSteps, PauseSteps \o DeleteSteps} : Begins(steps)
  /\ UNCHANGED left

-----------------------------------------------------------------------------
Step(name) ==
  /\ ctl.todo # <<>> /\ Head(ctl.todo) = name
  /\ ctl' = [todo |-> Tail(ctl.todo), pos |-> IF Len(ctl.todo) > 1 THEN ctl.pos ELSE 0]
  /\ UNCHANGED <<left, told>>

Pause(u) ==
  /\ paused' = [paused EXCEPT ![u] = TRUE] /\ Wake(u)
  /\ UNCHANGED <<at, exiting, pauseSem>>

Resume(u) ==
  /\ paused' = [paused EXCEPT ![u] = FALSE]
  /\ pauseSem' = Signalled(pauseSem, u)
  /\ UNCHANGED <<at, exiting, sleepSem>>

\* Mutant: a worker that waits for the end of a pause is not signalled.
ExitQuietly(u) ==
  /\ exiting' = [exiting EXCEPT ![u] = TRUE]
  /\ Wake(u)
  /\ UNCHANGED <<at, paused, pauseSem>>
Exit(u) ==
  /\ exiting' = [exiting EXCEPT ![u] = TRUE]
  /\ Wake(u) /\ pauseSem' = Signalled(pauseSem, u)
  /\ UNCHANGED <<at, paused>>

PauseUnit ==
  /\ \/ Step("pausePmo") /\ Pause("pmo")
     \/ Step("pauseLmc") /\ Pause("lmc")
     \/ Step("pausePmi") /\ Pause("pmi")
  /\ UNCHANGED <<fileVars, inVars, outVars, lmcVars, pmoVars>>

ResumeUnit ==
  /\ \/ Step("resumePmo") /\ Resume("pmo")
     \/ Step("resumeLmc") /\ Resume("lmc")
     \/ Step("resumePmi") /\ Resume("pmi")
  /\ UNCHANGED <<fileVars, inVars, outVars, lmcVars, pmoVars>>

ExitUnit ==
  /\ \/ Step("exitPmo") /\ Exit("pmo")
     \/ Step("exitLmc") /\ Exit("lmc")
     \/ Step("exitPmi") /\ Exit("pmi")
  /\ UNCHANGED <<fileVars, inVars, outVars, lmcVars, pmoVars>>

\* Thread::Join.
JoinUnit ==
  /\ \/ Step("joinPmo") /\ at["pmo"] = "done"
     \/ Step("joinLmc") /\ at["lmc"] = "done"
     \/ Step("joinPmi") /\ at["pmi"] = "done"
  /\ UNCHANGED <<unitVars, fileVars, inVars, outVars, lmcVars, pmoVars>>

\* Reset(true) and Init(NULL), once the card is open: what the card holds is
\* dropped, and for the time of Init the unit counts as not initialized.
ResetCard ==
  /\ \/ /\ Step("resetCard")
        /\ card' = IF opened THEN 0 ELSE card
        /\ ready' = (ready /\ ~opened)
     \/ /\ Step("initCard")
        /\ ready' = (ready \/ opened)
        /\ UNCHANGED card
  /\ UNCHANGED <<unitVars, fileVars, inVars, outVars, lmcVars, opened, written>>

\* EventBuffer::Clear drops the events, then waits until neither side holds a
\* window (PullBuffer::Clear) and drops the data.
ClearOutput ==
  /\ \/ /\ Step("clearEvents")
        /\ events' = <<>> /\ UNCHANGED <<outData, outStart, outGrant>>
     \/ /\ Step("clearOut") /\ outGrant = {}
        /\ outData' = <<>> /\ outStart' = 0 /\ UNCHANGED <<outGrant, events>>
  /\ UNCHANGED <<unitVars, fileVars, inVars, lmcVars, pmoVars>>

\* The last thing LocalFileInput::Clear and Seek do.
ClearInput ==
  /\ Step("clearIn") /\ inGrant = {}
  /\ inData' = <<>> /\ inEos' = FALSE
  /\ UNCHANGED <<unitVars, fileVars, inGrant, outVars, lmcVars, pmoVars>>

\* fseek to the start of the file, or to the frame asked for.
PositionFile ==
  /\ \/ Step("rewind") /\ filePos' = 0
     \/ Step("seek") /\ filePos' = ctl.pos
  /\ epoch' = epoch + 1
  /\ UNCHANGED <<fetched, unitVars, inVars, outVars, lmcVars, pmoVars>>

PositionDecoder ==
  /\ Step("position") /\ frameCounter' = ctl.pos
  /\ UNCHANGED <<unitVars, fileVars, inVars, outVars, want, decoded, pmoVars>>

CtlNext == PauseUnit \/ ResumeUnit \/ ExitUnit \/ JoinUnit \/ ResetCard
           \/ ClearOutput \/ ClearInput \/ PositionFile \/ PositionDecoder

CtlBegins == BeginPause \/ BeginResume \/ BeginSeek \/ BeginDelete
=============================================================================
