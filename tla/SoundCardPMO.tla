---------------------------- MODULE SoundCardPMO ----------------------------
(***************************************************************************)
(* The worker thread of the Linux sound card output (io/soundcard/unix/    *)
(* linux/src/soundcardpmo.cpp, WorkerThread) with the event buffer it      *)
(* reads (io/src/eventbuffer.cpp), and the sound card, which plays what    *)
(* was written to it.                                                      *)
(***************************************************************************)
EXTENDS PipelineUnit

pmoUnchanged == UNCHANGED <<fileVars, inVars, lmcVars, ctlVars>>

\* The worker moves and wakes the decoder.
MovesAndWakesLmc(from, where) ==
  /\ at["pmo"] = from /\ Goes("pmo", where)
  /\ Wake("lmc")
  /\ UNCHANGED <<paused, exiting, pauseSem>>

\* "Don't do anything until resume is called", then PreBuffer.
PmoStart ==
  /\ at["pmo"] = "start" /\ pauseSem["pmo"] > 0
  /\ pauseSem' = Taken(pauseSem, "pmo") /\ Wake("lmc")
  /\ Goes("pmo", "top")
  /\ UNCHANGED <<paused, exiting, outVars, pmoVars, told>> /\ pmoUnchanged

PmoTop ==
  /\ Moves("pmo", "top", IF exiting["pmo"] THEN "done"
                         ELSE IF paused["pmo"] THEN "waitPause" ELSE "checkInit")
  /\ UNCHANGED <<outVars, pmoVars, told>> /\ pmoUnchanged

PmoWaits ==
  /\ Unpauses("pmo", "waitPause", "top")
  /\ UNCHANGED <<outVars, pmoVars, told>> /\ pmoUnchanged

PmoReady ==
  /\ ready /\ Moves("pmo", "checkInit", "try")
  /\ UNCHANGED <<outVars, pmoVars, told>> /\ pmoUnchanged

\* Init(info): the card opens, or it refuses and the track is reported.
InitCard(from, whereOpened, whereRefused) ==
  \/ /\ Moves("pmo", from, whereOpened)
     /\ opened' = TRUE /\ ready' = TRUE /\ UNCHANGED told
  \/ /\ CardMayFail /\ Moves("pmo", from, whereRefused)
     /\ opened' = FALSE /\ ready' = FALSE /\ told' = told \cup {"error"}

\* Mutant: the decoder is not woken while there is no event.
PmoAwaitInitQuietly ==
  /\ ~ready
  /\ \/ /\ events = <<>> /\ Moves("pmo", "checkInit", "top")
        /\ UNCHANGED <<events, opened, ready, told>>
     \/ /\ events # <<>> /\ events' = Tail(events)
        /\ IF Head(events).kind = "init"
             THEN InitCard("checkInit", "top", "done")
             ELSE /\ Moves("pmo", "checkInit", "top")
                  /\ UNCHANGED <<opened, ready, told>>
  /\ UNCHANGED <<outData, outStart, outGrant, card, written>> /\ pmoUnchanged

\* "Loop until we get an Init event": whatever event comes first is taken.
PmoAwaitInit ==
  /\ ~ready
  /\ \/ /\ events = <<>> /\ MovesAndWakesLmc("checkInit", "top")
        /\ UNCHANGED <<events, opened, ready, told>>
     \/ /\ events # <<>> /\ events' = Tail(events)
        /\ IF Head(events).kind = "init"
             THEN InitCard("checkInit", "top", "done")
             ELSE /\ Moves("pmo", "checkInit", "top")
                  /\ UNCHANGED <<opened, ready, told>>
  /\ UNCHANGED <<outData, outStart, outGrant, card, written>> /\ pmoUnchanged

\* Mutant: the block is held back one frame too early.
EventIsDueEarly ==
  events # <<>> /\ (Head(events).idx - outStart) % OutCap \in {0, 1, 2}

\* EventBuffer::BeginRead holds the block back when an event's index is the
\* read index or not further than the end of the block.
EventIsDue ==
  events # <<>> /\ (Head(events).idx - outStart) % OutCap \in {0, 1}

PmoTry ==
  /\ \/ /\ EventIsDue /\ Moves("pmo", "try", "peek") /\ UNCHANGED outGrant
     \/ /\ ~EventIsDue /\ outData # <<>> /\ Moves("pmo", "try", "space")
        /\ outGrant' = outGrant \cup {"pmo"}
     \/ /\ ~EventIsDue /\ outData = <<>> /\ MovesAndWakesLmc("try", "try")
        /\ UNCHANGED outGrant
  /\ UNCHANGED <<outData, outStart, events, pmoVars, told>> /\ pmoUnchanged

\* PeekEvent reads through the head of the queue without looking whether there
\* is one.
PmoPeek ==
  /\ Moves("pmo", "peek",
           IF events = <<>> THEN "crashed"
           ELSE IF Head(events).kind = "quit" /\ outData # <<>> THEN "drain"
           ELSE "take")
  /\ UNCHANGED <<outVars, pmoVars, told>> /\ pmoUnchanged

PmoTake ==
  /\ IF events = <<>>
       THEN Moves("pmo", "take", "crashed") /\ UNCHANGED <<events, opened, ready, told>>
       ELSE /\ events' = Tail(events)
            /\ LET e == Head(events) IN
                 CASE e.kind = "init" -> InitCard("take", "try", "try")
                   [] e.kind = "time" -> /\ Moves("pmo", "take", "try")
                                         /\ UNCHANGED <<opened, ready, told>>
                   [] e.kind = "quit" -> /\ Moves("pmo", "take", "done")
                                         /\ told' = told \cup {"done"}
                                         /\ UNCHANGED <<opened, ready>>
  /\ UNCHANGED <<outData, outStart, outGrant, card, written>> /\ pmoUnchanged

\* WaitForDrain.  Interrupted, it goes back to reading the buffer.
PmoDrain ==
  /\ \/ /\ exiting["pmo"] \/ paused["pmo"]
        /\ Moves("pmo", "drain", "try") /\ UNCHANGED told
     \/ /\ ~exiting["pmo"] /\ ~paused["pmo"] /\ card <= 1
        /\ Moves("pmo", "drain", "done") /\ told' = told \cup {"done"}
  /\ UNCHANGED <<outVars, pmoVars>> /\ pmoUnchanged

\* Mutant: the block is consumed when the wait is interrupted.
PmoSpaceConsumes ==
  /\ \/ /\ exiting["pmo"] \/ paused["pmo"]
        /\ Moves("pmo", "space", "top") /\ outGrant' = outGrant \ {"pmo"}
        /\ outData' = Tail(outData) /\ outStart' = (outStart + 1) % OutCap
     \/ /\ ~exiting["pmo"] /\ ~paused["pmo"] /\ card < CardCap
        /\ Moves("pmo", "space", "write") /\ UNCHANGED <<outGrant, outData, outStart>>
  /\ UNCHANGED <<events, pmoVars, told>> /\ pmoUnchanged

\* The loop that waits for room in the card; exit and pause end it.
PmoSpace ==
  /\ \/ /\ exiting["pmo"] \/ paused["pmo"]
        /\ Moves("pmo", "space", "top") /\ outGrant' = outGrant \ {"pmo"}
     \/ /\ ~exiting["pmo"] /\ ~paused["pmo"] /\ card < CardCap
        /\ Moves("pmo", "space", "write") /\ UNCHANGED outGrant
  /\ UNCHANGED <<outData, outStart, events, pmoVars, told>> /\ pmoUnchanged

\* write and EndRead; a card that fails ends the thread.
PmoWrite ==
  /\ outGrant' = outGrant \ {"pmo"}
  /\ \/ /\ MovesAndWakesLmc("write", "top")
        /\ card' = IF card < CardCap THEN card + 1 ELSE card
        /\ written' = Head(outData)
        /\ outData' = Tail(outData) /\ outStart' = (outStart + 1) % OutCap
        /\ UNCHANGED told
     \/ /\ CardMayFail /\ Moves("pmo", "write", "done")
        /\ told' = told \cup {"error"}
        /\ UNCHANGED <<card, written, outData, outStart>>
  /\ UNCHANGED <<events, opened, ready>> /\ pmoUnchanged

PmoNext == PmoStart \/ PmoTop \/ PmoWaits \/ PmoReady \/ PmoAwaitInit \/ PmoTry
           \/ PmoPeek \/ PmoTake \/ PmoDrain \/ PmoSpace \/ PmoWrite

\* The sound card plays a frame it holds.
CardPlays ==
  /\ card > 0 /\ card' = card - 1
  /\ UNCHANGED <<unitVars, outVars, opened, ready, written, told>>
  /\ pmoUnchanged
=============================================================================
