--------------------------- MODULE LocalFileInput ---------------------------
(***************************************************************************)
(* The worker thread of the local file input (io/local/localfileinput.cpp, *)
(* WorkerThread): it reads the file into the input buffer block by block.  *)
(***************************************************************************)
EXTENDS PipelineUnit

pmiUnchanged == UNCHANGED <<outVars, lmcVars, pmoVars, told, ctlVars>>

PmiStart == Awakes("pmi", "start", "top")
            /\ UNCHANGED <<fileVars, inVars>> /\ pmiUnchanged

PmiTop ==
  /\ Moves("pmi", "top", IF exiting["pmi"] THEN "done"
                         ELSE IF paused["pmi"] THEN "waitPause" ELSE "begin")
  /\ UNCHANGED <<fileVars, inVars>> /\ pmiUnchanged

PmiWaits ==
  /\ \/ Unpauses("pmi", "waitPause", "top")
     \/ Awakes("pmi", "sleep", "top")
  /\ UNCHANGED <<fileVars, inVars>> /\ pmiUnchanged

\* Mutant: a refused request leaves its window behind.
PmiBeginHolds ==
  /\ Moves("pmi", "begin", IF ~inEos /\ Len(inData) < InCap THEN "fread" ELSE "sleep")
  /\ inGrant' = inGrant \cup {"pmi"}
  /\ UNCHANGED <<fileVars, inData, inEos>> /\ pmiUnchanged

\* IsEndOfStream, then BeginWrite.
PmiBegin ==
  /\ LET room == ~inEos /\ Len(inData) < InCap
     IN /\ Moves("pmi", "begin", IF room THEN "fread" ELSE "sleep")
        /\ inGrant' = IF room THEN inGrant \cup {"pmi"} ELSE inGrant
  /\ UNCHANGED <<fileVars, inData, inEos>> /\ pmiUnchanged

\* fread into the window.  It returns less than a block at the end of the file:
\* nothing, or the last frames when the file is not a whole number of blocks.
PmiRead ==
  \E short \in BOOLEAN :
    /\ filePos < FileLen - 1 => ~short
    /\ filePos = FileLen => short
    /\ Moves("pmi", "fread", IF short THEN "endShort" ELSE "endWrite")
    /\ IF filePos < FileLen
         THEN fetched' = <<[num |-> filePos, epoch |-> epoch]>> /\ filePos' = filePos + 1
         ELSE fetched' = <<>> /\ UNCHANGED filePos
    /\ UNCHANGED <<epoch, inVars>> /\ pmiUnchanged

PmiEndWrite ==
  /\ \/ Moves("pmi", "endWrite", "top")
     \/ Moves("pmi", "endShort", "setEos")
  /\ inData' = inData \o fetched
  /\ inGrant' = inGrant \ {"pmi"}
  /\ fetched' = <<>>
  /\ UNCHANGED <<filePos, epoch, inEos>> /\ pmiUnchanged

PmiSetEos ==
  /\ Moves("pmi", "setEos", "top")
  /\ inEos' = TRUE
  /\ UNCHANGED <<fileVars, inData, inGrant>> /\ pmiUnchanged

PmiNext == PmiStart \/ PmiTop \/ PmiWaits \/ PmiBegin \/ PmiRead
           \/ PmiEndWrite \/ PmiSetEos
=============================================================================
