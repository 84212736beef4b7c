------------------------------ MODULE Pipeline ------------------------------
(***************************************************************************)
(* One playing track: the input, decoder and output threads, the sound     *)
(* card, and the player's thread calling into them.                        *)
(***************************************************************************)
EXTENDS LocalFileInput, XingLMC, SoundCardPMO, PhysicalMediaOutput

Crashed == at["pmo"] = "crashed"

Next ==
  /\ ~Crashed
  /\ PmiNext \/ LmcNext \/ PmoNext \/ CardPlays \/ CtlNext \/ CtlBegins

Spec == Init /\ [][Next]_vars

\* Each thread runs as long as it can, and so does the card; the player starts
\* a call when it likes and then goes through with it.
Fairness ==
  /\ WF_vars(~Crashed /\ PmiNext) /\ WF_vars(~Crashed /\ LmcNext)
  /\ WF_vars(~Crashed /\ PmoNext) /\ WF_vars(~Crashed /\ CardPlays)
  /\ WF_vars(~Crashed /\ CtlNext)

FairSpec == Spec /\ Fairness

-----------------------------------------------------------------------------
(* What reaches the sound card *)

\* The frames that decode, and which of them comes after frame f.
Good == (0 .. FileLen - 1) \ Corrupt
Follows(f, num) == num \in Good /\ num > f.num /\ \A g \in Good : g > f.num => num <= g

\* Without a seek the card is given every good frame once and in the order of
\* the file: no refused write (xinglmc.cpp:915), corrupt frame or interrupted
\* wait for the card (soundcardpmo.cpp:503) loses or repeats one.
NextFrame ==
  [][at["pmo"] = "write" /\ at'["pmo"] = "top" => Follows(written, written'.num)]_at

\* A time event is handled before the frame it announces is played, and not
\* more than one frame before it: EventBuffer::BeginRead compares indices that
\* wrap around (eventbuffer.cpp:64-76).
EventsNearFrame ==
  LET counter(f) == Cardinality({g \in Good : g < f.num})
  IN /\ at["pmo"] = "write" =>
          \A i \in 1 .. Len(events) :
            events[i].kind = "time" => events[i].num > counter(Head(outData))
     /\ at["pmo"] = "take" /\ outData # <<>> /\ Head(events).kind = "time" =>
          Head(events).num <= counter(Head(outData)) + 1

\* When the player is told that the track has been output, few good frames have
\* not been given to the card: the one EventBuffer holds back before the quit
\* event (eventbuffer.cpp:75), and those in fewer bytes than the decoder last
\* asked for (xinglmc.cpp:866: a frame's greatest length, kept while it waits for
\* more, so that short frames at the end of the stream are left together).
FewLeft ==
  "done" \in told => Cardinality({n \in Good : n > written.num}) <= ReadAhead

\* Nobody waits for a wakeup that does not come: a track nobody touches is in
\* the end reported to the player, as output or as an error.
Completes == <>(told # {})

-----------------------------------------------------------------------------
(* Seeking and stopping while the workers run *)

\* Across a seek, the frames on their way from the file to the card stay in
\* order: no frame is there twice, and none read before the file was positioned
\* comes after one read later.
InOrder ==
  LET way == <<written>> \o outData
             \o (IF at["lmc"] = "endWrite" THEN <<decoded>> ELSE <<>>)
             \o inData \o fetched
  IN \A i \in 1 .. Len(way) - 1 :
       \/ way[i].epoch < way[i + 1].epoch
       \/ way[i].epoch = way[i + 1].epoch /\ way[i].num < way[i + 1].num

\* When ChangePosition returns, the input buffer holds nothing the file gave
\* before it was positioned, whatever the input thread was doing meanwhile.
NoStaleInput ==
  ctl.todo = <<>> => \A i \in 1 .. Len(inData) : inData[i].epoch = epoch

Stale == {i \in 1 .. Len(outData) : outData[i].epoch < epoch}

\* The decoder looks at its pause flag once per frame (xinglmc.cpp:855), so one
\* frame of the old position can still reach the output buffer after the Clear;
\* and one more for each signal that the Resume of an earlier seek left behind,
\* as it signals whether the decoder waits or not (pipeline.cpp:147): after the
\* first seek one, after the second two.
SeeksMade == MaxSeeks - left.seeks
StaleWithinSeeks ==
  ctl.todo = <<>> /\ ~exiting["pmo"] => Cardinality(Stale) <= SeeksMade

\* PullBuffer::Clear waits until nobody holds a window (pullbuffer.cpp:92): a
\* thread that sleeps or is paused with one would hang the player.
NoneAsleepWithWindow ==
  \A u \in {"pmi", "lmc"} :
    u \in inGrant \cup outGrant =>
      at[u] \notin {"sleep", "waitPause", "sleepRead", "sleepWrite",
                    "sleepAdvance", "sleepHang"}

\* The inner loop of the output (soundcardpmo.cpp:406) looks at neither m_bExit nor
\* m_bPause.  It is caught there with the quit event before a block it holds back,
\* where it goes to the drain and returns at once, and with nothing due and
\* nothing to play, where it waits for a block or event that does not come: a
\* pause has made it throw the quit event away.
Caught ==
  /\ at["pmo"] \in {"try", "peek", "drain"}
  /\ IF EventIsDue THEN Head(events).kind = "quit" /\ outData # <<>> ELSE outData = <<>>

\* Deleting the pipeline comes to an end (every thread sees its exit flag and
\* every Clear gets its buffer), unless the output is caught in its inner loop
\* for ever.
StopOrCaught == (exiting["pmo"] ~> Deleted) \/ <>[]Caught

-----------------------------------------------------------------------------
(* What the sources say and the code does not do *)

\* event.h:50: CMD_Stop is "stop current play".  The call that stops it ends.
StopEnds == exiting["pmo"] ~> Deleted
=============================================================================
