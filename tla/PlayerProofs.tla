---------------------------- MODULE PlayerProofs ----------------------------
(***************************************************************************)
(* Proofs about Player, for any playlist, any number of user interfaces    *)
(* and any queue.                                                          *)
(***************************************************************************)
EXTENDS Player, FiniteSetTheorems, SequenceTheorems, TLAPS

\* The invariant the proofs go by: a handler that finds no output must know
\* that the player counts as stopped, and the other way round.
IndInv ==
  /\ TypeOK
  /\ StateTracksOutput
  /\ EndIsNoticed

-----------------------------------------------------------------------------
(* The queue                                                                  *)

\* Serving an event takes it from the front and nothing else away.
LEMMA ServedQueue ==
  ASSUME queue \in Seq(Events), NEW event \in Events,
         NEW posted \in Seq(Events), Serves(event, posted)
  PROVE  /\ queue' \in Seq(Events)
         /\ \A e \in Events : e # event /\ Queued(e) => Queued(e)'
         /\ \A i \in 1 .. Len(posted) : Queued(posted[i])'
<1>1. /\ queue # <<>> /\ queue[1] = event
      /\ Tail(queue) \in Seq(Events)
      /\ Len(Tail(queue)) = Len(queue) - 1
      /\ \A i \in 1 .. Len(queue) - 1 : Tail(queue)[i] = queue[i + 1]
      /\ queue' = Tail(queue) \o posted
  BY DEF Serves
<1>2. /\ queue' \in Seq(Events)
      /\ Len(queue') = Len(queue) - 1 + Len(posted)
      /\ \A i \in 1 .. Len(queue) - 1 : queue'[i] = queue[i + 1]
      /\ \A i \in 1 .. Len(posted) : queue'[Len(queue) - 1 + i] = posted[i]
  BY <1>1
<1>3. ASSUME NEW e \in Events, e # event, Queued(e)
      PROVE  Queued(e)'
  <2>1. PICK i \in 1 .. Len(queue) : queue[i] = e
    BY <1>3 DEF Queued
  <2>2. i # 1 /\ i \in Int /\ Len(queue) \in Nat /\ Len(posted) \in Nat
    BY <2>1, <1>1, <1>3
  <2>3. i - 1 \in 1 .. Len(queue) - 1 /\ i - 1 \in 1 .. Len(queue')
    BY <2>2, <1>2
  <2>4. queue'[i - 1] = e
    BY <2>1, <2>2, <2>3, <1>2
  <2> QED BY <2>3, <2>4 DEF Queued
<1>4. ASSUME NEW i \in 1 .. Len(posted)
      PROVE  Queued(posted[i])'
  <2>1. Len(queue) - 1 \in Nat /\ Len(posted) \in Nat
    BY <1>1
  <2>2. Len(queue) - 1 + i \in 1 .. Len(queue')
    BY <2>1, <1>2
  <2> QED BY <2>2, <1>2 DEF Queued
<1> QED BY <1>2, <1>3, <1>4

\* Putting an event at the end of the queue keeps those in it.
LEMMA GrownQueue ==
  ASSUME queue \in Seq(Events), NEW event \in Events,
         queue' = Append(queue, event)
  PROVE  /\ queue' \in Seq(Events)
         /\ \A e \in Events : Queued(e) => Queued(e)'
         /\ Queued(event)'
<1>1. /\ queue' \in Seq(Events) /\ Len(queue') = Len(queue) + 1
      /\ \A i \in 1 .. Len(queue) : queue'[i] = queue[i]
      /\ queue'[Len(queue) + 1] = event /\ Len(queue) \in Nat
  OBVIOUS
<1> QED BY <1>1 DEF Queued

-----------------------------------------------------------------------------
(* The steps                                                                  *)

LEMMA InitInv == Init => IndInv
<1> SUFFICES ASSUME Init PROVE IndInv
  OBVIOUS
<1>1. TypeOK
  <2>1. queue \in Seq(Events)
    BY DEF Init
  <2>2. current \in Items
    BY PlayerAssumption DEF Init, Items
  <2>3. pmo \in Outputs \cup {None}
    BY DEF Init
  <2>4. /\ state \in States
        /\ restart \in {"nothing", "Play", "PlayPaused"}
        /\ choosing \in {"nothing", "item", "play"}
    BY DEF Init, States
  <2>5. /\ repeat \in RepeatModes /\ quitting \in BOOLEAN
        /\ terminated \in BOOLEAN /\ stuck \in BOOLEAN
    BY DEF Init
  <2>6. waitingFor \in Int
    BY DEF Init
  <2> QED BY <2>1, <2>2, <2>3, <2>4, <2>5, <2>6 DEF TypeOK
<1>2. StateTracksOutput /\ EndIsNoticed
  BY DEF Init, StateTracksOutput, EndIsNoticed, None, Output
<1> QED BY <1>1, <1>2 DEF IndInv

\* Resuming an output keeps all but that it was started.
LEMMA ResumedOutput ==
  ASSUME NEW p \in Outputs
  PROVE  /\ Resumed(p) \in Outputs /\ p # None /\ p.item # -1
         /\ Resumed(p).item = p.item /\ Resumed(p).reported = p.reported
         /\ Resumed(p).started
<1>1. p.item \in Items /\ p.item # -1
  BY PlayerAssumption DEF Outputs, Items
<1>2. /\ Resumed(p) \in Outputs
      /\ Resumed(p).item = p.item /\ Resumed(p).reported = p.reported
      /\ Resumed(p).started
  BY DEF Outputs, Resumed
<1> QED BY <1>1, <1>2 DEF None, Output

\* An output that is about to play or to wait: Play's last part.
LEMMA StartsOutput ==
  ASSUME IndInv, NEW p \in Outputs, NEW event \in Events, Starts(p, event)
  PROVE  /\ pmo' \in Outputs
         /\ pmo'.reported = p.reported /\ pmo'.item = p.item
         /\ state' \in States
         /\ StateTracksOutput'
<1>1. /\ p.item \in Items /\ p.item # -1
      /\ Resumed(p) \in Outputs
      /\ Resumed(p).item = p.item /\ Resumed(p).reported = p.reported
      /\ Resumed(p).started
  BY ResumedOutput DEF Outputs
<1>2. pmo' \in Outputs /\ pmo'.reported = p.reported /\ pmo'.item = p.item
  BY <1>1 DEF Starts
<1>3. pmo' # None
  BY <1>1, <1>2 DEF None, Output
<1>4. \/ state' = "Paused"
      \/ state' = "Playing" /\ pmo'.started
  BY <1>1 DEF Starts
<1> QED BY <1>2, <1>3, <1>4 DEF States, StateTracksOutput

\* No output: what every handler leaves that deletes it.
LEMMA NoOutput ==
  ASSUME DeletesOutput
  PROVE  /\ pmo' \in Outputs \cup {None} /\ state' \in States
         /\ StateTracksOutput' /\ EndIsNoticed'
BY DEF DeletesOutput, States, StateTracksOutput, EndIsNoticed, None, Output

\* The cursor stays in the playlist.
LEMMA CursorInList ==
  ASSUME current \in Items
  PROVE  /\ \A userAction \in BOOLEAN : GotoNextItem(userAction) \in Items
         /\ GotoPreviousItem \in Items /\ 0 \in Items
BY PlayerAssumption DEF Items, GotoNextItem, GotoPreviousItem

LEMMA StopStep == IndInv /\ Stop => IndInv'
<1> SUFFICES ASSUME IndInv, Stop PROVE IndInv'
  OBVIOUS
<1>1. queue' \in Seq(Events)
  <2>1. "Stop" \in Events /\ <<>> \in Seq(Events) /\ queue \in Seq(Events)
    BY DEF Events, Requests, IndInv, TypeOK
  <2> QED BY <2>1, ServedQueue DEF Stop
<1>2. DeletesOutput
  BY DEF Stop
<1> QED BY <1>1, <1>2, NoOutput DEF Stop, IndInv, TypeOK, listVars, quitVars

LEMMA PlayStep == IndInv /\ Play => IndInv'
<1> SUFFICES ASSUME IndInv, Play PROVE IndInv'
  OBVIOUS
<1>1. PICK event \in {"Play", "PlayPaused"} :
        LET kept == IF state = "Playing" THEN None ELSE pmo
        IN \/ Serves(event, <<>>) /\ UNCHANGED trackVars
           \/ kept # None /\ Serves(event, <<>>) /\ Starts(kept, event)
           \/ kept = None /\ Serves(event, <<>>) /\ Starts(Created, event)
           \/ /\ kept = None
              /\ \E posted \in FailurePosts : Serves(event, posted)
              /\ pmo' = None
              /\ state' = IF state = "Playing" THEN "Stopped" ELSE state
  BY DEF Play
<1>2. /\ event \in Events /\ queue \in Seq(Events)
      /\ FailurePosts \subseteq Seq(Events)
      /\ event \notin {"DoneOutputting", "DoneOutputtingDueToError"}
      /\ {"DoneOutputting", "DoneOutputtingDueToError"} \subseteq Events
  BY DEF Events, Requests, FailurePosts, IndInv, TypeOK
<1>3. \E posted \in FailurePosts : Serves(event, posted)
  BY <1>1 DEF FailurePosts
<1>4. queue' \in Seq(Events)
  BY <1>2, <1>3, ServedQueue
<1>5. EndIsNoticed /\ pmo.reported =>
        Queued("DoneOutputting")' \/ Queued("DoneOutputtingDueToError")'
  BY <1>2, <1>3, ServedQueue DEF EndIsNoticed
<1>6. /\ pmo' \in Outputs \cup {None} /\ state' \in States
      /\ StateTracksOutput' /\ EndIsNoticed'
  <2>1. CASE UNCHANGED trackVars
    BY <2>1, <1>5 DEF trackVars, IndInv, TypeOK, StateTracksOutput,
       EndIsNoticed
  <2>2. CASE /\ state # "Playing" /\ pmo # None
             /\ Serves(event, <<>>) /\ Starts(pmo, event)
    <3>1. pmo \in Outputs
      BY <2>2 DEF IndInv, TypeOK
    <3>2. /\ pmo' \in Outputs /\ pmo'.reported = pmo.reported
          /\ state' \in States
          /\ StateTracksOutput'
      BY <3>1, <2>2, <1>2, StartsOutput
    <3> QED BY <3>2, <1>5 DEF EndIsNoticed, IndInv
  <2>3. CASE Starts(Created, event)
    <3>1. Created \in Outputs /\ ~Created.reported
      BY DEF Created, Output, Outputs, IndInv, TypeOK
    <3>2. /\ pmo' \in Outputs /\ ~pmo'.reported
          /\ state' \in States
          /\ StateTracksOutput'
      BY <3>1, <2>3, <1>2, StartsOutput
    <3> QED BY <3>2 DEF EndIsNoticed
  <2>4. CASE /\ (IF state = "Playing" THEN None ELSE pmo) = None
             /\ pmo' = None
             /\ state' = IF state = "Playing" THEN "Stopped" ELSE state
    <3>1. DeletesOutput
      BY <2>4 DEF DeletesOutput, IndInv, StateTracksOutput
    <3> QED BY <3>1, <2>4, NoOutput
  <2> QED BY <1>1, <2>1, <2>2, <2>3, <2>4
<1> QED BY <1>4, <1>6 DEF Play, IndInv, TypeOK, listVars, quitVars

\* Pause, UnPause and TogglePause.
LEMMA PauseTrackStep ==
  ASSUME IndInv, NEW event \in {"Pause", "UnPause", "TogglePause"},
         NEW paused \in BOOLEAN, PauseTrack(event, paused)
  PROVE  IndInv'
<1>1. /\ event \in Events /\ queue \in Seq(Events) /\ <<>> \in Seq(Events)
      /\ event \notin {"DoneOutputting", "DoneOutputtingDueToError"}
      /\ {"DoneOutputting", "DoneOutputtingDueToError"} \subseteq Events
  BY DEF Events, Requests, IndInv, TypeOK
<1>2. /\ queue' \in Seq(Events)
      /\ EndIsNoticed /\ pmo.reported =>
           Queued("DoneOutputting")' \/ Queued("DoneOutputtingDueToError")'
  BY <1>1, ServedQueue DEF PauseTrack, EndIsNoticed
<1>3. /\ pmo' \in Outputs \cup {None} /\ state' \in States
      /\ StateTracksOutput' /\ EndIsNoticed'
  <2>1. CASE UNCHANGED trackVars
    BY <2>1, <1>2 DEF trackVars, IndInv, TypeOK, StateTracksOutput,
       EndIsNoticed
  <2>2. CASE pmo # None /\ UNCHANGED pmo /\ state' = "Paused"
    BY <2>2, <1>2 DEF States, IndInv, TypeOK, StateTracksOutput,
       EndIsNoticed
  <2>3. CASE pmo # None /\ pmo' = Resumed(pmo) /\ state' = "Playing"
    <3>1. pmo \in Outputs /\ Starts(pmo, "Play") /\ "Play" \in Events
      BY <2>3 DEF IndInv, TypeOK, Starts, Events, Requests
    <3>2. /\ pmo' \in Outputs /\ pmo'.reported = pmo.reported
          /\ state' \in States
          /\ StateTracksOutput'
      BY <3>1, StartsOutput
    <3> QED BY <3>2, <1>2 DEF EndIsNoticed, IndInv
  <2> QED BY <2>1, <2>2, <2>3 DEF PauseTrack
<1> QED BY <1>2, <1>3 DEF PauseTrack, IndInv, TypeOK, listVars, quitVars

LEMMA PauseStep == IndInv /\ (Pause \/ UnPause \/ TogglePause) => IndInv'
<1> SUFFICES ASSUME IndInv, Pause \/ UnPause \/ TogglePause PROVE IndInv'
  OBVIOUS
<1>1. CASE \E event \in {"Pause", "UnPause", "TogglePause"} :
             \E paused \in BOOLEAN : PauseTrack(event, paused)
  BY <1>1, PauseTrackStep
<1>2. CASE Serves("TogglePause", <<>>)
           /\ UNCHANGED <<trackVars, restart, listVars, quitVars, choosing>>
  <2>1. /\ "TogglePause" \in Events /\ queue \in Seq(Events) /\ <<>> \in Seq(Events)
        /\ "DoneOutputting" \in Events /\ "DoneOutputtingDueToError" \in Events
    BY DEF Events, Requests, IndInv, TypeOK
  <2>2. /\ queue' \in Seq(Events)
        /\ EndIsNoticed /\ pmo.reported =>
             Queued("DoneOutputting")' \/ Queued("DoneOutputtingDueToError")'
    BY <2>1, <1>2, ServedQueue DEF EndIsNoticed
  <2> QED BY <2>2, <1>2 DEF IndInv, TypeOK, StateTracksOutput,
          EndIsNoticed, trackVars, listVars, quitVars
<1> QED BY <1>1, <1>2 DEF Pause, UnPause, TogglePause

LEMMA SkipStep == IndInv /\ (NextMediaPiece \/ PrevMediaPiece) => IndInv'
<1> SUFFICES ASSUME IndInv, NextMediaPiece \/ PrevMediaPiece PROVE IndInv'
  OBVIOUS
<1>1. PICK event \in {"NextMediaPiece", "PrevMediaPiece"}, index \in Items :
        Skip(event, index)
  BY CursorInList DEF NextMediaPiece, PrevMediaPiece, IndInv, TypeOK
<1>2. /\ event \in Events /\ queue \in Seq(Events)
      /\ <<>> \in Seq(Events) /\ <<"Stop">> \in Seq(Events)
      /\ event \notin {"DoneOutputting", "DoneOutputtingDueToError"}
      /\ {"DoneOutputting", "DoneOutputtingDueToError"} \subseteq Events
  BY DEF Events, Requests, IndInv, TypeOK
<1>3. Serves(event, <<>>) \/ Serves(event, <<"Stop">>)
  BY <1>1 DEF Skip
<1>4. /\ queue' \in Seq(Events)
      /\ EndIsNoticed /\ pmo.reported =>
           Queued("DoneOutputting")' \/ Queued("DoneOutputtingDueToError")'
  BY <1>2, <1>3, ServedQueue DEF EndIsNoticed
<1>5. restart' \in {"nothing", "Play", "PlayPaused"}
  BY <1>1 DEF Skip, IndInv, TypeOK
<1> QED BY <1>1, <1>4, <1>5 DEF Skip, IndInv, TypeOK, StateTracksOutput,
       EndIsNoticed, trackVars, quitVars

LEMMA DoneStep == IndInv /\ DoneOutputting => IndInv'
<1> SUFFICES ASSUME IndInv, DoneOutputting PROVE IndInv'
  OBVIOUS
<1>1. PICK event \in {"DoneOutputting", "DoneOutputtingDueToError"} :
        /\ Serves(event, <<"Play">>) \/ Serves(event, <<>>)
        /\ current' = GotoNextItem(FALSE) \/ current' = 0
  BY DEF DoneOutputting
<1>2. /\ event \in Events /\ queue \in Seq(Events) /\ current \in Items
      /\ <<>> \in Seq(Events) /\ <<"Play">> \in Seq(Events)
  BY DEF Events, Requests, IndInv, TypeOK
<1>3. queue' \in Seq(Events)
  BY <1>1, <1>2, ServedQueue
<1>4. current' \in Items
  BY <1>1, <1>2, CursorInList
<1>5. DeletesOutput
  BY DEF DoneOutputting
<1> QED BY <1>3, <1>4, <1>5, NoOutput DEF DoneOutputting, IndInv, TypeOK, quitVars

LEMMA QuitStep == IndInv /\ Quit => IndInv'
<1> SUFFICES ASSUME IndInv, Quit PROVE IndInv'
  OBVIOUS
<1>1. queue' \in Seq(Events)
  <2>1. /\ "QuitPlayer" \in Events /\ queue \in Seq(Events)
        /\ "ReadyToDieUI" \in Events
    BY DEF Events, Requests, IndInv, TypeOK
  <2>2. [i \in 1 .. UICount |-> "ReadyToDieUI"] \in Seq(Events)
    BY <2>1, PlayerAssumption
  <2> QED BY <2>1, <2>2, ServedQueue DEF Quit
<1>2. DeletesOutput
  BY DEF Quit
<1>3. /\ quitting' \in BOOLEAN /\ waitingFor' \in Int
      /\ terminated' \in BOOLEAN
  BY PlayerAssumption DEF Quit, IndInv, TypeOK
<1> QED BY <1>1, <1>2, <1>3, NoOutput DEF Quit, IndInv, TypeOK, listVars

LEMMA ReadyStep == IndInv /\ ReadyToDieUI => IndInv'
<1> SUFFICES ASSUME IndInv, ReadyToDieUI PROVE IndInv'
  OBVIOUS
<1>1. /\ "ReadyToDieUI" \in Events /\ queue \in Seq(Events) /\ <<>> \in Seq(Events)
      /\ "DoneOutputting" \in Events /\ "DoneOutputtingDueToError" \in Events
  BY DEF Events, Requests, IndInv, TypeOK
<1>2. /\ queue' \in Seq(Events)
      /\ EndIsNoticed /\ pmo.reported =>
           Queued("DoneOutputting")' \/ Queued("DoneOutputtingDueToError")'
  BY <1>1, ServedQueue DEF ReadyToDieUI, EndIsNoticed
<1>3. waitingFor' \in Int /\ terminated' \in BOOLEAN
  BY DEF ReadyToDieUI, IndInv, TypeOK
<1> QED BY <1>2, <1>3 DEF ReadyToDieUI, IndInv, TypeOK, StateTracksOutput,
       EndIsNoticed, trackVars, listVars

\* Everything that only puts an event at the end of the queue.
LEMMA PutStep ==
  ASSUME IndInv, NEW event \in Events, queue' = Append(queue, event),
         UNCHANGED <<trackVars, listVars, quitVars>>,
         restart' \in {"nothing", restart}, choosing' \in {"nothing", "item", choosing}
  PROVE  IndInv'
<1>1. /\ queue' \in Seq(Events)
      /\ EndIsNoticed /\ pmo.reported =>
           Queued("DoneOutputting")' \/ Queued("DoneOutputtingDueToError")'
  BY GrownQueue DEF EndIsNoticed, Events, IndInv, TypeOK
<1> QED BY <1>1 DEF IndInv, TypeOK, StateTracksOutput,
       EndIsNoticed, trackVars, listVars, quitVars

\* Only an output that was resumed reports, and it stays what it is.
LEMMA ReportingOutput ==
  ASSUME IndInv, Reports
  PROVE  /\ pmo \in Outputs /\ pmo' \in Outputs
         /\ pmo'.started /\ pmo'.item = pmo.item
<1>1. pmo \in Outputs
  BY DEF Reports, IndInv, TypeOK, None, Output
<1> QED BY <1>1 DEF Reports, Outputs

LEMMA ReportStep == IndInv /\ Reports => IndInv'
<1> SUFFICES ASSUME IndInv, Reports PROVE IndInv'
  OBVIOUS
<1>1. PICK event \in {"DoneOutputting", "DoneOutputtingDueToError"} :
        queue' = Append(queue, event)
  BY DEF Reports
<1>2. queue' \in Seq(Events) /\ EndIsNoticed'
  BY <1>1, GrownQueue DEF EndIsNoticed, Events, IndInv, TypeOK
<1>3. pmo' \in Outputs /\ pmo' # None /\ pmo # None /\ pmo'.started
  BY ReportingOutput, ResumedOutput
<1> QED BY <1>2, <1>3 DEF Reports, IndInv, TypeOK, StateTracksOutput,
       listVars, quitVars

\* A deletion that never returns changes nothing else.
LEMMA ForEverStep == IndInv /\ DeletesForEver => IndInv'
BY DEF DeletesForEver, IndInv, TypeOK, StateTracksOutput, EndIsNoticed, Queued,
   trackVars, listVars

LEMMA OthersStep == IndInv /\ (PutRestart \/ UserInterface) => IndInv'
<1> SUFFICES ASSUME IndInv, PutRestart \/ UserInterface PROVE IndInv'
  OBVIOUS
<1>1. CASE PutRestart
  <2>1. restart \in Events
    BY <1>1 DEF PutRestart, IndInv, TypeOK, Events, Requests
  <2> QED BY <2>1, <1>1, PutStep DEF PutRestart
<1>2. CASE Request
  <2>1. \E event \in Events : queue' = Append(queue, event)
    BY <1>2, PlayerAssumption DEF Request, Events
  <2> QED BY <2>1, <1>2, PutStep DEF Request
<1>3. CASE ChooseStop \/ ChoosePlay
  <2>1. "Stop" \in Events /\ "Play" \in Events
    BY DEF Events, Requests
  <2> QED BY <2>1, <1>3, PutStep DEF ChooseStop, ChoosePlay
<1>4. CASE SetRepeatMode \/ ChooseItem
  BY <1>4 DEF SetRepeatMode, ChooseItem, IndInv, TypeOK, StateTracksOutput,
     EndIsNoticed, Queued, trackVars, quitVars
<1> QED BY <1>1, <1>2, <1>3, <1>4 DEF UserInterface

LEMMA NextInv == IndInv /\ [Next]_vars => IndInv'
<1> SUFFICES ASSUME IndInv, [Next]_vars PROVE IndInv'
  OBVIOUS
<1>1. CASE UNCHANGED vars
  BY <1>1 DEF vars, IndInv, TypeOK, StateTracksOutput,
     EndIsNoticed, Queued
<1>2. CASE Next
  BY <1>2, StopStep, PlayStep, PauseStep, SkipStep, DoneStep, QuitStep, ReadyStep,
     ForEverStep, ReportStep, OthersStep DEF Next, ServiceEvent
<1> QED BY <1>1, <1>2

-----------------------------------------------------------------------------
(* The cursor and the track                                                   *)

\* A step that leaves the cursor, the item of the output and a waiting Stop alone.
LEMMA SameTrack ==
  ASSUME PlaysCurrentItem, current' = current,
         pmo' = None \/ (pmo # None /\ pmo'.item = pmo.item),
         Queued("Stop") => Queued("Stop")'
  PROVE  PlaysCurrentItem'
BY DEF PlaysCurrentItem

\* Serving another event than Stop leaves a waiting Stop alone.
LEMMA StopWaits ==
  ASSUME IndInv, NEW event \in Events \ {"Stop"},
         NEW posted \in FailurePosts \cup {<<"Stop">>}, Serves(event, posted)
  PROVE  /\ Queued("Stop") => Queued("Stop")'
         /\ posted = <<"Stop">> => Queued("Stop")'
<1>1. queue \in Seq(Events) /\ posted \in Seq(Events) /\ "Stop" \in Events
  <2>1. queue \in Seq(Events)
    BY DEF IndInv, TypeOK
  <2>2. {"Stop", "Play", "DoneOutputtingDueToError"} \subseteq Events
    BY DEF Events, Requests
  <2>3. <<"Stop">> \in Seq(Events) /\ FailurePosts \subseteq Seq(Events)
    BY <2>2 DEF FailurePosts
  <2> QED BY <2>1, <2>2, <2>3
<1>2. /\ \A e \in Events : e # event /\ Queued(e) => Queued(e)'
      /\ \A i \in 1 .. Len(posted) : Queued(posted[i])'
  BY <1>1, ServedQueue
<1>3. posted = <<"Stop">> => 1 \in 1 .. Len(posted) /\ posted[1] = "Stop"
  OBVIOUS
<1> QED BY <1>1, <1>2, <1>3

LEMMA PlayParts == IndInv /\ PlaysCurrentItem /\ Play => PlaysCurrentItem'
<1> SUFFICES ASSUME IndInv, PlaysCurrentItem, Play PROVE PlaysCurrentItem'
  OBVIOUS
<1>1. PICK event \in {"Play", "PlayPaused"} :
        LET kept == IF state = "Playing" THEN None ELSE pmo
        IN /\ \E posted \in FailurePosts : Serves(event, posted)
           /\ \/ UNCHANGED trackVars
              \/ kept # None /\ Starts(kept, event)
              \/ Starts(Created, event)
              \/ pmo' = None
  BY DEF Play, FailurePosts
<1>2. event \in Events \ {"Stop"}
  BY DEF Events, Requests
<1>3. Queued("Stop") => Queued("Stop")'
  BY <1>1, <1>2, StopWaits
<1>4. current' = current
  BY DEF Play, listVars
<1>5. CASE UNCHANGED trackVars
  BY <1>5, <1>3, <1>4 DEF trackVars, PlaysCurrentItem
<1>6. CASE pmo # None /\ Starts(pmo, event)
  <2>1. pmo'.item = pmo.item
    BY <1>6, ResumedOutput DEF Starts, IndInv, TypeOK
  <2> QED BY <2>1, <1>6, <1>3, <1>4, SameTrack
<1>7. CASE Starts(Created, event)
  <2>1. pmo'.item = current
    BY <1>7 DEF Starts, Resumed, Created, Output
  <2> QED BY <2>1, <1>4 DEF PlaysCurrentItem
<1>8. CASE pmo' = None
  BY <1>8, <1>3, <1>4, SameTrack
<1> QED BY <1>1, <1>5, <1>6, <1>7, <1>8

LEMMA PauseParts ==
  IndInv /\ PlaysCurrentItem /\ (Pause \/ UnPause \/ TogglePause) => PlaysCurrentItem'
<1> SUFFICES ASSUME IndInv, PlaysCurrentItem, Pause \/ UnPause \/ TogglePause
             PROVE  PlaysCurrentItem'
  OBVIOUS
<1>1. PICK event \in {"Pause", "UnPause", "TogglePause"} :
        /\ Serves(event, <<>>)
        /\ pmo' = pmo \/ (pmo # None /\ pmo' = Resumed(pmo))
        /\ current' = current
  BY DEF Pause, UnPause, TogglePause, PauseTrack, trackVars, listVars
<1>2. event \in Events \ {"Stop"}
  BY DEF Events, Requests
<1>3. Queued("Stop") => Queued("Stop")'
  BY <1>1, <1>2, StopWaits DEF FailurePosts
<1>4. pmo # None => pmo \in Outputs
  BY DEF IndInv, TypeOK
<1>5. pmo' = pmo \/ (pmo # None /\ pmo'.item = pmo.item)
  BY <1>1, <1>4, ResumedOutput
<1> QED BY <1>1, <1>3, <1>5 DEF PlaysCurrentItem

LEMMA SkipParts ==
  IndInv /\ (NextMediaPiece \/ PrevMediaPiece) => PlaysCurrentItem'
<1> SUFFICES ASSUME IndInv, NextMediaPiece \/ PrevMediaPiece PROVE PlaysCurrentItem'
  OBVIOUS
<1>1. PICK event \in {"NextMediaPiece", "PrevMediaPiece"} :
        /\ pmo' = pmo
        /\ state = "Stopped" \/ Serves(event, <<"Stop">>)
  BY DEF NextMediaPiece, PrevMediaPiece, Skip, trackVars
<1>2. event \in Events \ {"Stop"}
  BY DEF Events, Requests
<1>3. state = "Stopped" => pmo' = None
  BY <1>1 DEF IndInv, StateTracksOutput
<1>4. state # "Stopped" => Queued("Stop")'
  BY <1>1, <1>2, StopWaits
<1> QED BY <1>3, <1>4 DEF PlaysCurrentItem

LEMMA OthersParts ==
  ASSUME IndInv, PlaysCurrentItem,
         \/ ReadyToDieUI \/ PutRestart \/ Request \/ SetRepeatMode
         \/ Reports \/ ChooseStop \/ ChoosePlay
  PROVE  PlaysCurrentItem'
<1>1. queue \in Seq(Events) /\ "Stop" \in Events
  BY DEF IndInv, TypeOK, Events, Requests
<1>2. Queued("Stop") => Queued("Stop")'
  <2>1. CASE ReadyToDieUI
    <3>1. "ReadyToDieUI" \in Events \ {"Stop"}
      BY DEF Events, Requests
    <3> QED BY <3>1, <2>1, StopWaits DEF ReadyToDieUI, FailurePosts
  <2>2. CASE SetRepeatMode
    BY <2>2 DEF SetRepeatMode, Queued
  <2>3. CASE PutRestart \/ Request \/ Reports \/ ChooseStop \/ ChoosePlay
    <3>1. \E event \in Events : queue' = Append(queue, event)
      BY <2>3, PlayerAssumption DEF PutRestart, Request, Reports, ChooseStop,
         ChoosePlay, IndInv, TypeOK, Events, Requests
    <3> QED BY <3>1, <1>1, GrownQueue
  <2> QED BY <2>1, <2>2, <2>3
<1>3. current' = current /\ (pmo' = pmo \/ (pmo # None /\ pmo'.item = pmo.item))
  <2>1. CASE Reports
    <3>1. pmo # None /\ pmo'.item = pmo.item
      BY <2>1, ReportingOutput, ResumedOutput
    <3> QED BY <3>1, <2>1 DEF Reports, listVars
  <2>2. CASE ~Reports
    BY <2>2 DEF ReadyToDieUI, PutRestart, Request, SetRepeatMode, ChooseStop,
       ChoosePlay, trackVars, listVars
  <2> QED BY <2>1, <2>2
<1> QED BY <1>2, <1>3 DEF PlaysCurrentItem

LEMMA NextParts ==
  IndInv /\ [Next]_vars => ChooseItem \/ (PlaysCurrentItem => PlaysCurrentItem')
<1> SUFFICES ASSUME IndInv, [Next]_vars, ~ChooseItem, PlaysCurrentItem
             PROVE  PlaysCurrentItem'
  OBVIOUS
<1>1. CASE UNCHANGED vars
  BY <1>1 DEF vars, PlaysCurrentItem, Queued
<1>2. CASE Stop \/ DoneOutputting \/ Quit
  BY <1>2 DEF Stop, DoneOutputting, Quit, DeletesOutput, PlaysCurrentItem
<1>3. CASE DeletesForEver
  BY <1>3 DEF DeletesForEver, trackVars, listVars, PlaysCurrentItem, Queued
<1>4. CASE Next /\ ~(Stop \/ DoneOutputting \/ Quit \/ DeletesForEver)
  BY <1>4, PlayParts, PauseParts, SkipParts, OthersParts
     DEF Next, ServiceEvent, UserInterface
<1> QED BY <1>1, <1>2, <1>3, <1>4

-----------------------------------------------------------------------------
(* The answers on their way                                                   *)

\* Where the answers to Cleanup are in the queue.
AnswersIn(q) == {i \in 1 .. Len(q) : q[i] = "ReadyToDieUI"}

LEMMA AnswersFinite ==
  ASSUME NEW q \in Seq(Events)
  PROVE  IsFiniteSet(AnswersIn(q)) /\ Cardinality(AnswersIn(q)) \in Nat
<1>1. IsFiniteSet(1 .. Len(q)) /\ AnswersIn(q) \in SUBSET (1 .. Len(q))
  BY FS_Interval DEF AnswersIn
<1>2. IsFiniteSet(AnswersIn(q))
  BY <1>1, FS_Subset
<1> QED BY <1>2, FS_CardinalityType

\* A set of positions that moves as a whole into the answers' is no larger.
LEMMA Moved ==
  ASSUME NEW S \in SUBSET Int, NEW q \in Seq(Events), NEW d \in Int,
         \A i \in S : i + d \in AnswersIn(q)
  PROVE  Cardinality(S) <= Cardinality(AnswersIn(q))
<1> DEFINE f == [i \in S |-> i + d]
<1>1. f \in [S -> AnswersIn(q)]
  OBVIOUS
<1>2. \A i, j \in S : f[i] = f[j] => i = j
  OBVIOUS
<1>3. f \in Injection(S, AnswersIn(q))
  BY <1>1, <1>2 DEF Injection, IsInjective
<1> QED BY <1>3, AnswersFinite, FS_Injection

\* Serving another event keeps the answers, serving one takes only that one.
LEMMA ServedAnswers ==
  ASSUME queue \in Seq(Events), NEW event \in Events,
         NEW posted \in Seq(Events), Serves(event, posted)
  PROVE  /\ queue' \in Seq(Events)
         /\ Cardinality(AnswersIn(queue)) - (IF event = "ReadyToDieUI" THEN 1 ELSE 0)
              <= Cardinality(AnswersIn(queue'))
         /\ Cardinality(AnswersIn(posted)) <= Cardinality(AnswersIn(queue'))
<1>1. /\ queue # <<>> /\ queue[1] = event
      /\ Tail(queue) \in Seq(Events)
      /\ Len(Tail(queue)) = Len(queue) - 1
      /\ \A i \in 1 .. Len(queue) - 1 : Tail(queue)[i] = queue[i + 1]
      /\ queue' = Tail(queue) \o posted
  BY DEF Serves
<1>2. /\ queue' \in Seq(Events)
      /\ Len(queue) \in Nat \ {0} /\ Len(posted) \in Nat
      /\ Len(queue') = Len(queue) - 1 + Len(posted)
      /\ \A i \in 1 .. Len(queue) - 1 : queue'[i] = queue[i + 1]
      /\ \A i \in 1 .. Len(posted) : queue'[Len(queue) - 1 + i] = posted[i]
  BY <1>1
<1>3. \A i \in AnswersIn(queue) \ {1} : i + (-1) \in AnswersIn(queue')
  <2> SUFFICES ASSUME NEW i \in AnswersIn(queue) \ {1}
               PROVE  i + (-1) \in AnswersIn(queue')
    OBVIOUS
  <2>1. i \in 1 .. Len(queue) /\ queue[i] = "ReadyToDieUI" /\ i # 1
    BY DEF AnswersIn
  <2>2. i - 1 \in 1 .. Len(queue) - 1 /\ i - 1 \in 1 .. Len(queue')
    BY <2>1, <1>2
  <2>3. queue'[i - 1] = "ReadyToDieUI"
    BY <2>1, <2>2, <1>2
  <2> QED BY <2>1, <2>2, <2>3 DEF AnswersIn
<1>4. Cardinality(AnswersIn(queue) \ {1}) <= Cardinality(AnswersIn(queue'))
  <2>1. AnswersIn(queue) \ {1} \in SUBSET Int
    BY DEF AnswersIn
  <2>2. \A d \in Int : (\A i \in AnswersIn(queue) \ {1} : i + d \in AnswersIn(queue')) =>
           Cardinality(AnswersIn(queue) \ {1}) <= Cardinality(AnswersIn(queue'))
    BY <2>1, <1>2, Moved
  <2>3. -1 \in Int
    OBVIOUS
  <2> QED BY <2>2, <2>3, <1>3
<1>5. Cardinality(AnswersIn(queue) \ {1})
        = IF 1 \in AnswersIn(queue) THEN Cardinality(AnswersIn(queue)) - 1
          ELSE Cardinality(AnswersIn(queue))
  BY AnswersFinite, FS_RemoveElement
<1>6. 1 \in AnswersIn(queue) <=> event = "ReadyToDieUI"
  BY <1>1, <1>2 DEF AnswersIn
<1>7. Cardinality(AnswersIn(posted)) <= Cardinality(AnswersIn(queue'))
  <2>1. \A i \in AnswersIn(posted) : i + (Len(queue) - 1) \in AnswersIn(queue')
    <3> SUFFICES ASSUME NEW i \in AnswersIn(posted)
                 PROVE  i + (Len(queue) - 1) \in AnswersIn(queue')
      OBVIOUS
    <3>1. i \in 1 .. Len(posted) /\ posted[i] = "ReadyToDieUI"
      BY DEF AnswersIn
    <3>2. Len(queue) - 1 + i \in 1 .. Len(queue') /\ Len(queue) - 1 + i = i + (Len(queue) - 1)
      BY <3>1, <1>2
    <3>3. queue'[Len(queue) - 1 + i] = "ReadyToDieUI"
      BY <3>1, <1>2
    <3> QED BY <3>2, <3>3 DEF AnswersIn
  <2>2. AnswersIn(posted) \in SUBSET Int
    BY DEF AnswersIn
  <2>3. Len(queue) - 1 \in Int
    BY <1>2
  <2> QED BY <2>1, <2>2, <2>3, <1>2, Moved
<1>8. CASE event = "ReadyToDieUI"
  BY <1>2, <1>4, <1>5, <1>6, <1>7, <1>8
<1>9. CASE event # "ReadyToDieUI"
  <2>1. Cardinality(AnswersIn(queue)) - 0 = Cardinality(AnswersIn(queue))
    BY AnswersFinite
  <2> QED BY <2>1, <1>2, <1>4, <1>5, <1>6, <1>7, <1>9
<1> QED BY <1>8, <1>9

LEMMA GrownAnswers ==
  ASSUME queue \in Seq(Events), NEW event \in Events, queue' = Append(queue, event)
  PROVE  Cardinality(AnswersIn(queue)) <= Cardinality(AnswersIn(queue'))
<1>1. /\ queue' \in Seq(Events) /\ Len(queue') = Len(queue) + 1 /\ Len(queue) \in Nat
      /\ \A i \in 1 .. Len(queue) : queue'[i] = queue[i]
  OBVIOUS
<1>2. AnswersIn(queue) \in SUBSET AnswersIn(queue')
  BY <1>1 DEF AnswersIn
<1> QED BY <1>1, <1>2, AnswersFinite, FS_Subset

\* Quit posts as many answers as there are user interfaces.
LEMMA QuitAnswers ==
  ASSUME IndInv, Quit
  PROVE  UICount <= Cardinality(AnswersIn(queue'))
<1> DEFINE answers == [i \in 1 .. UICount |-> "ReadyToDieUI"]
<1>1. answers \in Seq(Events) /\ Len(answers) = UICount
  BY PlayerAssumption DEF Events, Requests
<1>2. AnswersIn(answers) = 1 .. UICount
  BY <1>1 DEF AnswersIn
<1>3. Cardinality(1 .. UICount) = UICount
  BY PlayerAssumption, FS_Interval
<1>4. "QuitPlayer" \in Events /\ queue \in Seq(Events)
  BY DEF Events, Requests, IndInv, TypeOK
<1>5. Serves("QuitPlayer", answers)
  BY DEF Quit
<1>6. Cardinality(AnswersIn(answers)) <= Cardinality(AnswersIn(queue'))
  BY <1>1, <1>4, <1>5, ServedAnswers
<1> QED BY <1>2, <1>3, <1>6

LEMMA NextAnswers ==
  ASSUME IndInv, AnswersOnTheirWay, [Next]_vars
  PROVE  AnswersOnTheirWay'
<1> SUFFICES ASSUME quitting', ~terminated'
             PROVE  waitingFor' > 0 /\ Cardinality(AnswersIn(queue')) >= waitingFor'
  BY DEF AnswersOnTheirWay, AnswersIn
<1>1. /\ queue \in Seq(Events) /\ waitingFor \in Int /\ quitting \in BOOLEAN
      /\ terminated \in BOOLEAN /\ Cardinality(AnswersIn(queue)) \in Nat
  BY AnswersFinite DEF IndInv, TypeOK
<1>2. quitting /\ ~terminated =>
        waitingFor > 0 /\ Cardinality(AnswersIn(queue)) >= waitingFor
  BY DEF AnswersOnTheirWay, AnswersIn
<1>3. CASE Quit
  <2>1. waitingFor' = UICount /\ UICount # 0
    BY <1>3, Zenon DEF Quit
  <2>2. UICount <= Cardinality(AnswersIn(queue'))
    BY <1>3, QuitAnswers
  <2>3. Cardinality(AnswersIn(queue')) \in Nat
    <3>1. queue' \in Seq(Events)
      BY NextInv DEF IndInv, TypeOK
    <3> QED BY <3>1, AnswersFinite
  <2> QED BY <2>1, <2>2, <2>3, PlayerAssumption
<1>4. CASE ReadyToDieUI
  <2>1. "ReadyToDieUI" \in Events /\ <<>> \in Seq(Events) /\ Serves("ReadyToDieUI", <<>>)
    BY <1>4 DEF ReadyToDieUI, Events, Requests
  <2>2. /\ queue' \in Seq(Events)
        /\ Cardinality(AnswersIn(queue)) - 1 <= Cardinality(AnswersIn(queue'))
    BY <1>1, <2>1, ServedAnswers
  <2>3. quitting /\ ~terminated /\ waitingFor' = waitingFor - 1 /\ ~(waitingFor' <= 0)
    BY <1>4, <1>1 DEF ReadyToDieUI, Serves
  <2>4. Cardinality(AnswersIn(queue')) \in Nat
    BY <2>2, AnswersFinite
  <2> QED BY <1>1, <1>2, <2>2, <2>3, <2>4
<1>5. CASE [Next]_vars /\ ~Quit /\ ~ReadyToDieUI
  <2>1. UNCHANGED <<quitting, waitingFor, terminated>>
    BY <1>5 DEF vars, quitVars, Next, ServiceEvent, UserInterface, Stop, Play, Pause,
       UnPause, TogglePause, PauseTrack, NextMediaPiece, PrevMediaPiece, Skip, PutRestart,
       DoneOutputting, Reports, Request, SetRepeatMode, ChooseStop, ChooseItem, ChoosePlay,
       DeletesForEver
  <2>2. Cardinality(AnswersIn(queue)) <= Cardinality(AnswersIn(queue'))
    <3>1. CASE \E event \in Events \ {"ReadyToDieUI"}, posted \in Seq(Events) :
                 Serves(event, posted)
      BY <3>1, <1>1, ServedAnswers
    <3>2. CASE \E event \in Events : queue' = Append(queue, event)
      BY <3>2, <1>1, GrownAnswers
    <3>3. CASE UNCHANGED queue
      BY <3>3, <1>1
    <3>4. \/ \E event \in Events \ {"ReadyToDieUI"}, posted \in Seq(Events) :
               Serves(event, posted)
          \/ \E event \in Events : queue' = Append(queue, event)
          \/ UNCHANGED queue
      <4>1. CASE Stop \/ Play \/ Pause \/ UnPause \/ TogglePause \/ NextMediaPiece
                 \/ PrevMediaPiece \/ DoneOutputting
        <5>1. /\ FailurePosts \subseteq Seq(Events) /\ <<"Stop">> \in Seq(Events)
              /\ {"Stop", "Play", "PlayPaused", "Pause", "UnPause", "TogglePause",
                  "NextMediaPiece", "PrevMediaPiece", "DoneOutputting",
                  "DoneOutputtingDueToError"} \subseteq Events \ {"ReadyToDieUI"}
          BY DEF Events, Requests, FailurePosts
        <5>2. \E event \in {"Stop", "Play", "PlayPaused", "Pause", "UnPause", "TogglePause",
                  "NextMediaPiece", "PrevMediaPiece", "DoneOutputting",
                  "DoneOutputtingDueToError"}, posted \in FailurePosts \cup {<<"Stop">>} :
                Serves(event, posted)
          BY <4>1 DEF Stop, Play, Pause, UnPause, TogglePause, PauseTrack,
             NextMediaPiece, PrevMediaPiece, Skip, DoneOutputting, FailurePosts
        <5> QED BY <5>1, <5>2
      <4>2. CASE PutRestart \/ Request \/ Reports \/ ChooseStop \/ ChoosePlay
        BY <4>2, PlayerAssumption DEF PutRestart, Request, Reports, ChooseStop,
           ChoosePlay, IndInv, TypeOK, Events, Requests
      <4>3. CASE UNCHANGED vars \/ SetRepeatMode \/ ChooseItem \/ DeletesForEver
        BY <4>3 DEF vars, SetRepeatMode, ChooseItem, DeletesForEver
      <4> QED BY <1>5, <4>1, <4>2, <4>3 DEF Next, ServiceEvent, UserInterface
    <3> QED BY <3>1, <3>2, <3>3, <3>4
  <2>3. Cardinality(AnswersIn(queue')) \in Nat
    <3>1. queue' \in Seq(Events)
      BY <1>5, NextInv DEF IndInv, TypeOK
    <3> QED BY <3>1, AnswersFinite
  <2> QED BY <1>1, <1>2, <2>1, <2>2, <2>3 DEF quitVars
<1> QED BY <1>3, <1>4, <1>5

-----------------------------------------------------------------------------
(* The theorems                                                               *)

\* The strengthened invariant holds in every reachable state of the player
\* (base/src/player.cpp).
THEOREM InvariantHolds == Spec => []IndInv
BY InitInv, NextInv, PTL DEF Spec

\* Type correctness: the cursor stays in the playlist through every combination
\* of GotoNextItem, GotoPreviousItem and SetCurrentIndex (playlist.cpp:526-605).
THEOREM TypeCorrect == Spec => []TypeOK
BY InvariantHolds, PTL DEF IndInv

\* m_playerState and m_pmo agree in every reachable state, whatever is requested
\* and whatever CreatePMO (player.cpp:1630) does.
THEOREM StateAlwaysTracksOutput == Spec => []StateTracksOutput
BY InvariantHolds, PTL DEF IndInv

\* The player never takes a track that has ended for a playing one for ever: the
\* event that DoneOutputting (player.cpp:1818) waits for is in the queue.
THEOREM EndAlwaysNoticed == Spec => []EndIsNoticed
BY InvariantHolds, PTL DEF IndInv

\* While the player waits for its user interfaces to clean up (player.cpp:2135,
\* 2169), as many answers are in the queue as it waits for, for any number of user
\* interfaces, however often it was told to quit: it never waits for ever.
THEOREM AnswersAlwaysOnTheirWay == Spec => []AnswersOnTheirWay
<1>1. Init => AnswersOnTheirWay
  BY DEF Init, AnswersOnTheirWay
<1>2. IndInv /\ AnswersOnTheirWay /\ [Next]_vars => AnswersOnTheirWay'
  BY NextAnswers
<1> QED BY InvariantHolds, <1>1, <1>2, PTL DEF Spec

\* Whatever handlers, reports and commands do, only a user interface that moves
\* the cursor itself (gtkmusicbrowser.cpp:1460) can part it from the track that
\* sounds: Next and Previous (player.cpp:2018-2078) have put a Stop in the queue
\* by the time they move it, and DoneOutputting has no track left.
THEOREM OnlyChoiceEverParts == Spec => OnlyChoiceParts
BY InvariantHolds, NextParts, PTL DEF Spec, OnlyChoiceParts

\* Without such a user interface the current item is the one that sounds whenever
\* nothing is left to serve: Play (player.cpp:1960) and CreatePMO play the cursor's
\* item, and nothing else comes between.
THEOREM UnchosenItemPlays ==
  ASSUME MayChoose = FALSE
  PROVE  Spec => []PlaysChosenItem
<1> DEFINE J == choosing = "nothing" /\ PlaysCurrentItem
<1>1. Init => J
  BY DEF Init, PlaysCurrentItem
<1>2. IndInv /\ J /\ [Next]_vars => J'
  <2> SUFFICES ASSUME IndInv, J, [Next]_vars PROVE J'
    OBVIOUS
  <2>1. ~ChooseItem /\ ~ChooseStop /\ ~ChoosePlay
    BY DEF ChooseItem, ChooseStop, ChoosePlay
  <2>2. PlaysCurrentItem'
    BY <2>1, NextParts
  <2>3. choosing' = choosing
    BY <2>1 DEF vars, Next, ServiceEvent, UserInterface, Stop, Play, Pause, UnPause,
       TogglePause, PauseTrack, NextMediaPiece, PrevMediaPiece, Skip, PutRestart,
       DoneOutputting, Quit, ReadyToDieUI, DeletesForEver, Reports, Request,
       SetRepeatMode
  <2> QED BY <2>2, <2>3
<1>3. IndInv /\ J => PlaysChosenItem
  <2> SUFFICES ASSUME J, queue = <<>>, pmo # None PROVE pmo.item = current
    BY DEF PlaysChosenItem
  <2>1. ~Queued("Stop")
    BY DEF Queued
  <2> QED BY <2>1 DEF PlaysCurrentItem
<1> QED BY InvariantHolds, <1>1, <1>2, <1>3, PTL DEF Spec
=============================================================================
