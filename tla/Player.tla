------------------------------- MODULE Player -------------------------------
(***************************************************************************)
(* The player (base/src/player.cpp): one thread serves a queue of events   *)
(* that user interfaces, the output of the playing track and the player    *)
(* itself put there, and keeps the playback state, the output object and   *)
(* the place in the playlist (base/src/playlist.cpp).  A handler is one    *)
(* step, except that others may put events between the two that            *)
(* NextMediaPiece and PrevMediaPiece put in the queue.  The track is the   *)
(* one Pipeline describes, seen from outside: once it has been resumed it  *)
(* reports its end, or errors of its parts before that, and until its      *)
(* thread has ended deleting it may never return.                          *)
(***************************************************************************)
EXTENDS Integers, Sequences, FiniteSets

CONSTANTS
  Tracks,       \* items of the playlist
  UICount,      \* registered user interfaces
  Commands,     \* the events a user interface may put in the queue
  MaxQueue,     \* bound: a user interface puts one in a shorter queue only
  MayChoose,    \* user interfaces play an item of their choice
  MayFail       \* an item may not be playable: missing, or no plugin for it

Requests == {"Stop", "Play", "Pause", "UnPause", "TogglePause", "NextMediaPiece",
             "PrevMediaPiece", "QuitPlayer", "ReadyToDieUI"}
Events == Requests \cup {"PlayPaused", "DoneOutputting", "DoneOutputtingDueToError"}
States == {"Stopped", "Paused", "Playing"}
RepeatModes == {"RepeatNone", "RepeatOne", "RepeatAll"}

ASSUME PlayerAssumption ==
  /\ Tracks \in Nat \ {0} /\ UICount \in Nat /\ MaxQueue \in Nat
  /\ Commands \subseteq Requests
  /\ MayChoose \in BOOLEAN /\ MayFail \in BOOLEAN

VARIABLES
  state,        \* m_playerState
  pmo,          \* m_pmo: its item, whether it was resumed, has reported an
                \* end or an error, and whether its thread is over
  queue,        \* m_eventQueue
  restart,      \* what NextMediaPiece or PrevMediaPiece still has to put there
  current,      \* the playlist's current index
  repeat,       \* its repeat mode
  quitting,     \* m_imQuitting
  waitingFor,   \* m_quitWaitingFor
  terminated,   \* m_pTermSem was signalled and the thread has left
  stuck,        \* the thread is in m_pmo's destructor for ever
  choosing      \* what a user interface still has to do to play an item

trackVars == <<state, pmo>>
listVars  == <<current, repeat>>
quitVars  == <<quitting, waitingFor, terminated, stuck>>
vars == <<state, pmo, queue, restart, current, repeat, quitting,
          waitingFor, terminated, stuck, choosing>>

Output(item) ==
  [item |-> item, started |-> FALSE, reported |-> FALSE, over |-> FALSE]
None == Output(-1)
Items == 0 .. Tracks - 1

Init ==
  /\ state = "Stopped" /\ pmo = None
  /\ queue = <<>> /\ restart = "nothing"
  /\ current = 0 /\ repeat \in RepeatModes
  /\ quitting = FALSE /\ waitingFor = 0 /\ terminated = FALSE
  /\ stuck = FALSE /\ choosing = "nothing"

Queued(event) == \E i \in 1 .. Len(queue) : queue[i] = event

-----------------------------------------------------------------------------
(* The playlist's cursor                                                      *)

\* Mutant: one past the end.
GotoNextItemPast(userAction) ==
  IF repeat = "RepeatOne" /\ ~userAction THEN current
  ELSE IF current < Tracks THEN current + 1
  ELSE IF repeat = "RepeatAll" \/ userAction THEN 0 ELSE current

GotoNextItem(userAction) ==
  IF repeat = "RepeatOne" /\ ~userAction THEN current
  ELSE IF current + 1 < Tracks THEN current + 1
  ELSE IF repeat = "RepeatAll" \/ userAction THEN 0 ELSE current

GotoPreviousItem ==
  IF current > 0 THEN current - 1 ELSE Tracks - 1

HasAnotherItem == repeat # "RepeatNone" \/ current < Tracks - 1

-----------------------------------------------------------------------------
(* Serving the queue                                                          *)

\* The thread takes an event and puts others at the end.
Serves(event, posted) ==
  /\ ~terminated /\ ~stuck /\ restart = "nothing"
  /\ queue # <<>> /\ Head(queue) = event
  /\ queue' = Tail(queue) \o posted

\* Deleting m_pmo, where it returns, and the state that follows.
DeletesOutput == pmo' = None /\ state' = "Stopped"

\* The destructor joins the output's thread, which never ends when it waits for
\* the card to run dry or has thrown away its quit event after a pause (the hangs
\* of SoundCardPMO); the decoder's and the card's errors do not keep it from that.
\* All handlers that delete an output do so before they change anything, so that
\* nothing else happens; the event counts as queued until its handler returns.
DeletesForEver ==
  /\ ~terminated /\ ~stuck /\ restart = "nothing" /\ queue # <<>>
  /\ \/ Head(queue) \in {"Stop", "QuitPlayer", "DoneOutputting", "DoneOutputtingDueToError"}
     \/ Head(queue) = "PlayPaused" /\ state = "Playing"
  /\ pmo.started /\ ~pmo.over
  /\ stuck' = TRUE
  /\ UNCHANGED <<trackVars, queue, restart, listVars, quitting, waitingFor,
                 terminated, choosing>>

Stop ==
  /\ Serves("Stop", <<>>)
  /\ DeletesOutput
  /\ UNCHANGED <<restart, listVars, quitVars, choosing>>

\* PhysicalMediaOutput::Resume, seen from outside.
Resumed(p) == [p EXCEPT !.started = TRUE]

\* Play of an output that was created paused, paused, or has just been created.
Starts(p, event) ==
  IF event = "PlayPaused"
  THEN pmo' = p /\ state' = "Paused"
  ELSE pmo' = Resumed(p) /\ state' = "Playing"

Created == Output(current)

\* What CreatePMO puts in the queue when it fails: another Play when the file is
\* missing, the report that Pipeline::ReportError adds to an error message, or
\* nothing where no plugin takes the item.
FailurePosts == {<<"Play">>, <<"DoneOutputtingDueToError">>, <<>>}

\* Mutant: a playing track is deleted but the state stays.
PlayOver(event, kept) ==
  \/ kept # None /\ Serves(event, <<>>) /\ Starts(kept, event)
  \/ kept = None /\ Serves(event, <<>>) /\ Starts(Created, event)
  \/ /\ kept = None /\ MayFail
     /\ Serves(event, <<"Play">>) /\ pmo' = None /\ UNCHANGED state
PlayKeepsState ==
  /\ \E event \in {"Play", "PlayPaused"} :
       \/ /\ state = "Playing" /\ event = "Play"
          /\ Serves(event, <<>>) /\ UNCHANGED trackVars
       \/ /\ state # "Playing" \/ event # "Play"
          /\ PlayOver(event, IF state = "Playing" THEN None ELSE pmo)
  /\ UNCHANGED <<restart, listVars, quitVars, choosing>>

\* Play and PlayPaused.  CMD_Play has the number of PlayerState_Playing, so that
\* a playing track is left alone by Play and replaced by PlayPaused.  Without an
\* output CreatePMO makes one for the current item, which may fail.
Play ==
  /\ \E event \in {"Play", "PlayPaused"} :
       LET kept == IF state = "Playing" THEN None ELSE pmo
       IN \/ /\ state = "Playing" /\ event = "Play"
             /\ Serves(event, <<>>) /\ UNCHANGED trackVars
          \/ /\ state # "Playing" \/ event # "Play"
             /\ kept # None
             /\ Serves(event, <<>>) /\ Starts(kept, event)
          \/ /\ state # "Playing" \/ event # "Play"
             /\ kept = None
             /\ Serves(event, <<>>) /\ Starts(Created, event)
          \/ /\ state # "Playing" \/ event # "Play"
             /\ kept = None /\ MayFail
             /\ \E posted \in FailurePosts : Serves(event, posted)
             /\ pmo' = None
             /\ state' = IF state = "Playing" THEN "Stopped" ELSE state
  /\ UNCHANGED <<restart, listVars, quitVars, choosing>>

\* Pause, UnPause and TogglePause need an output.
PauseTrack(event, paused) ==
  /\ Serves(event, <<>>)
  /\ IF pmo = None THEN UNCHANGED trackVars
     ELSE IF paused THEN UNCHANGED pmo /\ state' = "Paused"
     ELSE pmo' = Resumed(pmo) /\ state' = "Playing"
  /\ UNCHANGED <<restart, listVars, quitVars, choosing>>

Pause == PauseTrack("Pause", TRUE)
UnPause == PauseTrack("UnPause", FALSE)
TogglePause ==
  \/ state = "Playing" /\ PauseTrack("TogglePause", TRUE)
  \/ state = "Paused" /\ PauseTrack("TogglePause", FALSE)
  \/ /\ state = "Stopped" /\ Serves("TogglePause", <<>>)
     /\ UNCHANGED <<trackVars, restart, listVars, quitVars, choosing>>

\* Mutant: the cursor moves while the old track plays on.
SkipAtOnce(event, index) ==
  /\ Serves(event, <<>>)
  /\ current' = index /\ UNCHANGED restart
  /\ UNCHANGED <<trackVars, repeat, quitVars, choosing>>

\* NextMediaPiece and PrevMediaPiece put Stop in the queue and move the cursor;
\* Play or PlayPaused follows.
Skip(event, index) ==
  /\ IF state = "Stopped"
       THEN Serves(event, <<>>) /\ UNCHANGED restart
       ELSE Serves(event, <<"Stop">>)
            /\ restart' = IF state = "Paused" THEN "PlayPaused" ELSE "Play"
  /\ current' = index
  /\ UNCHANGED <<trackVars, repeat, quitVars, choosing>>

NextMediaPiece == Skip("NextMediaPiece", GotoNextItem(TRUE))
PrevMediaPiece == Skip("PrevMediaPiece", GotoPreviousItem)

PutRestart ==
  /\ restart # "nothing"
  /\ queue' = Append(queue, restart) /\ restart' = "nothing"
  /\ UNCHANGED <<trackVars, listVars, quitVars, choosing>>

\* Mutant: an error leaves the output where it is.
DoneKeepsOutput ==
  /\ \E event \in {"DoneOutputting", "DoneOutputtingDueToError"} :
       /\ Serves(event, IF event = "DoneOutputting" /\ HasAnotherItem
                        THEN <<"Play">> ELSE <<>>)
       /\ current' = GotoNextItem(FALSE)
       /\ IF event = "DoneOutputting" THEN DeletesOutput
                                      ELSE UNCHANGED trackVars
  /\ UNCHANGED <<restart, repeat, quitVars, choosing>>

\* DoneOutputting takes the event to be the current output's.  (Its branch for
\* a paused player is never taken: it has just set the state to stopped.)
DoneOutputting ==
  /\ \E event \in {"DoneOutputting", "DoneOutputtingDueToError"} :
       LET givesUp == /\ event = "DoneOutputtingDueToError"
                      /\ \/ repeat = "RepeatOne"
                         \/ repeat = "RepeatAll" /\ Tracks = 1
           goesOn == ~givesUp /\ HasAnotherItem
       IN /\ Serves(event, IF goesOn THEN <<"Play">> ELSE <<>>)
          /\ current' = IF goesOn THEN GotoNextItem(FALSE) ELSE 0
  /\ DeletesOutput
  /\ UNCHANGED <<restart, repeat, quitVars, choosing>>

\* Mutant: the user interfaces are not told to clean up.
QuitAlone ==
  /\ Serves("QuitPlayer", <<>>)
  /\ DeletesOutput
  /\ quitting' = TRUE /\ waitingFor' = UICount
  /\ terminated' = (UICount = 0)
  /\ UNCHANGED <<restart, listVars, stuck, choosing>>

\* Quit stops the track and sends Cleanup to the user interfaces, each of which
\* puts ReadyToDieUI in the queue before it returns.
Quit ==
  /\ Serves("QuitPlayer", [i \in 1 .. UICount |-> "ReadyToDieUI"])
  /\ DeletesOutput
  /\ quitting' = TRUE /\ waitingFor' = UICount
  /\ terminated' = (UICount = 0)
  /\ UNCHANGED <<restart, listVars, stuck, choosing>>

ReadyToDieUI ==
  /\ Serves("ReadyToDieUI", <<>>)
  /\ waitingFor' = IF quitting THEN waitingFor - 1 ELSE waitingFor
  /\ terminated' = (quitting /\ waitingFor' <= 0)
  /\ UNCHANGED <<trackVars, restart, listVars, quitting, stuck, choosing>>

ServiceEvent ==
  \/ Stop \/ Play \/ Pause \/ UnPause \/ TogglePause \/ NextMediaPiece \/ PrevMediaPiece
  \/ PutRestart \/ DoneOutputting \/ Quit \/ ReadyToDieUI \/ DeletesForEver

-----------------------------------------------------------------------------
(* The others                                                                 *)

\* A user interface puts an event in the queue (a cmdline interface also a
\* ReadyToDieUI when it is told that the player has stopped).
Request ==
  /\ Len(queue) < MaxQueue
  /\ \E event \in Commands : queue' = Append(queue, event)
  /\ UNCHANGED <<trackVars, restart, listVars, quitVars, choosing>>

SetRepeatMode ==
  /\ Commands # {}
  /\ repeat' \in RepeatModes
  /\ UNCHANGED <<trackVars, queue, restart, current, quitVars, choosing>>

\* The output's last event, with which its thread is over, or an error of one of
\* the track's parts, which is the output's last only when it is the card's.
\* There may be several; bound: a second one comes in a shorter queue only.
Reports ==
  /\ pmo.started /\ (pmo.reported => Len(queue) < MaxQueue)
  /\ \E event \in {"DoneOutputting", "DoneOutputtingDueToError"}, last \in BOOLEAN :
       /\ event = "DoneOutputting" => last
       /\ last => ~pmo.over
       /\ queue' = Append(queue, event)
       /\ pmo' = [pmo EXCEPT !.reported = TRUE, !.over = @ \/ last]
  /\ UNCHANGED <<state, restart, listVars, quitVars, choosing>>

\* GTKMusicBrowser::PlayEvent: Stop, SetCurrentIndex, Play.  (An index outside
\* the list, after which Play finds nothing to play, is left to Playlist.)
ChooseStop ==
  /\ MayChoose /\ choosing = "nothing" /\ Len(queue) < MaxQueue
  /\ queue' = Append(queue, "Stop") /\ choosing' = "item"
  /\ UNCHANGED <<trackVars, restart, listVars, quitVars>>
ChooseItem ==
  /\ choosing = "item"
  /\ current' \in Items /\ choosing' = "play"
  /\ UNCHANGED <<trackVars, queue, restart, repeat, quitVars>>
ChoosePlay ==
  /\ choosing = "play"
  /\ queue' = Append(queue, "Play") /\ choosing' = "nothing"
  /\ UNCHANGED <<trackVars, restart, listVars, quitVars>>

UserInterface ==
  Request \/ SetRepeatMode \/ ChooseStop \/ ChooseItem \/ ChoosePlay

Next == ServiceEvent \/ Reports \/ UserInterface

Spec == Init /\ [][Next]_vars

\* The event thread runs while there is an event to serve.
FairSpec == Spec /\ WF_vars(ServiceEvent)

-----------------------------------------------------------------------------
(* Properties *)

Outputs ==
  [item : Items, started : BOOLEAN, reported : BOOLEAN, over : BOOLEAN]

TypeOK ==
  /\ state \in States
  /\ pmo \in Outputs \cup {None}
  /\ queue \in Seq(Events)
  /\ restart \in {"nothing", "Play", "PlayPaused"}
  /\ current \in Items /\ repeat \in RepeatModes
  /\ quitting \in BOOLEAN /\ waitingFor \in Int
  /\ terminated \in BOOLEAN /\ stuck \in BOOLEAN
  /\ choosing \in {"nothing", "item", "play"}

\* The handlers look at m_playerState in one place and at m_pmo in another
\* (player.cpp:1975, 1988, 2111): the two say the same, and a player that says
\* it is playing has resumed its track.
StateTracksOutput ==
  /\ pmo = None <=> state = "Stopped"
  /\ state = "Playing" => pmo.started

\* A track that has ended is never taken for a playing one for ever: whatever
\* other events were served meanwhile, its report or one that stands for it is
\* still to be served (player.cpp:1818), or is being served.
EndIsNoticed ==
  pmo.reported => Queued("DoneOutputting") \/ Queued("DoneOutputtingDueToError")

\* The track that sounds is the one the playlist shows as current, unless a Stop
\* for it is on its way (player.cpp:2031): late reports and commands may skip a
\* track, but only a user interface that moves the cursor itself parts the two.
PlaysCurrentItem == pmo # None /\ pmo.item # current => Queued("Stop")
OnlyChoiceParts ==
  [][ChooseItem \/ (PlaysCurrentItem => PlaysCurrentItem')]_vars

\* While the player waits for its user interfaces to clean up (player.cpp:2135,
\* 2169), as many answers are on their way as it waits for, however often it was
\* told to quit.
AnswersOnTheirWay ==
  quitting /\ ~terminated =>
    /\ waitingFor > 0
    /\ Cardinality({i \in 1 .. Len(queue) : queue[i] = "ReadyToDieUI"}) >= waitingFor

\* Once it was told to quit the player does, whatever else is requested, unless
\* its thread is caught in the destructor of an output (player.cpp:1883,
\* soundcardpmo.cpp:439-447) for ever.
QuitEnds == Queued("QuitPlayer") ~> terminated \/ stuck

-----------------------------------------------------------------------------
(* A user interface that chooses an item *)

\* When all is served and a track plays, it is the playlist's current one
\* (event.h:51: CMD_Play is "Play current media piece from beginning").  It is not
\* where a user interface moves the cursor between its Stop and its Play.
PlaysChosenItem ==
  queue = <<>> /\ restart = "nothing" /\ choosing = "nothing" /\ pmo # None =>
    pmo.item = current
=============================================================================
