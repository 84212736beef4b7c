# A TLA+ model of FreeAmp's playback, downloads and playlist

FreeAmp is a music player written in C++ around threads that hand blocks of
sound to each other. This directory models the parts of it that are hard to test:
the ring buffer between two threads, the three threads of a playing track with
the player calling into them, the player's event queue, the download manager with
its thread and its resume database, and the playlist with the threads that fetch
metadata while it is edited. The modules are translated from the sources named in
`PROJECT.json`; line numbers in comments are those of the repository.

## 1. The system

### 1.1 Components

| Component | Source | State | Operations |
|---|---|---|---|
| PullBuffer | `io/src/pullbuffer.cpp` | ring memory, read and write index, byte count, sizes of the windows granted, end-of-stream flag | `BeginWrite`/`EndWrite`, `BeginRead`/`EndRead`, `Clear`, `Resize`, `DiscardBytes`, `SetEndOfStream` |
| EventBuffer | `io/src/eventbuffer.cpp` | a PullBuffer and a queue of events, each tied to an index | `AcceptEvent`, `PeekEvent`, `GetEvent`, `BeginRead`, `Clear` |
| PipelineUnit | `io/src/pipeline.cpp` | pause and exit flags, pause and sleep semaphores | `Pause`, `Resume`, `Wake`, `Sleep`, destructor |
| Input (PMI) | `io/local`, `io/http`, `io/obs` | the file or socket, its worker thread | the worker loop, `Seek`, `Clear` |
| Decoder (LMC) | `lmc/xingmp3`, `lmc/vorbis`, `lmc/wav` | frame counter, its worker thread | the worker loop, `ChangePosition` |
| Output (PMO) | `io/src/pmo.cpp`, `io/soundcard/...` | the sound card, its worker thread | the worker loop, `Pause`, `Resume`, `ChangePosition`, destructor |
| Player | `base/src/player.cpp` | playback state, current output, event queue, quit bookkeeping | one handler per command or report |
| Playlist | `base/src/playlist.cpp` | master and shuffled list, cursor, repeat and shuffle mode, item states, metadata threads | cursor movement; adding, removing, moving, sorting, shuffling; metadata |
| Download manager | `base/src/downloadmanager.cpp` | items with a state each, the files, the resume database, a thread | add, queue, cancel, pause, download, load and save |
| Undo, timers, catalog, preferences | `base/src` | small stores | |
| Primitives | `base/unix/src`, `base/include/queue.h` | semaphores, recursive mutex, locked queue | |
| User interfaces, metadata, portable devices, themes, installer | `ui`, `plm`, `ftc`, `installer` | | clients of the player |

### 1.2 How they interact

A playing track is three units with a thread each:

    file -> [PMI] -> PullBuffer -> [LMC] -> EventBuffer -> [PMO] -> sound card

The player's event thread creates the three, and calls *into* them (pause, seek,
delete) from its own thread while their workers run. They call back by putting
events (`INFO_DoneOutputting`, errors, times) in the player's queue. User
interfaces put commands in the same queue and are called back with what
happened; they also move the playlist's cursor directly. Sleeping is by
semaphores: an input or decoder that is refused goes to sleep, and is woken by
the unit behind it (`Wake`) at fixed points of that unit's loop.

User interfaces call the download manager and the playlist directly. The download
manager's only thread takes queued items in turn; it and its callers share the
list and the items' states without a lock, and a semaphore wakes the thread. The
playlist's methods run under one mutex; adding items starts a thread that fetches
their metadata and shares nothing with the list but the items themselves.

### 1.3 What is hard

* **Windows worked on without the lock.** Clients read and write the ring's own
  memory between two locked calls; the pointer of `BeginRead` is computed after
  the unlock.
* **A call into running threads.** A seek is a dozen steps, none of which
  excludes the workers, which look at their flags once per loop.
* **Wakeups at fixed points**, and loops that look at some flags and not others.
* **Positions that wrap around** compared as numbers; equal indices that mean
  empty or full.
* **Commands and reports in one queue**, where a handler puts further commands
  at the end of it and a report may be served long after what it is about.
* **States tested and set in two steps**, by the download manager's callers and
  its thread, with a dozen ways out of a download.
* **Going on where a file ends**, when the file, the byte count, the date and the
  server's copy have each changed on their own, also across an exit or a crash.
* **Two lists and one cursor**: the cursor indexes one list or the other by mode,
  and every edit has to keep all three together.
* **Items freed by whoever is last**, the list or a metadata thread.

Correct means: for the buffer, that it is a first-in first-out stream, inside its
memory, that never refuses both sides; for a track, that the card is given each
frame once and in order, that a seek leaves no more than it must of the old
position, that calls return, and that the end is reported; for the player,
that state and output agree, that the end of a track is
not lost, that the track that sounds is the current one, and that quitting ends;
for downloads, that a file is one piece, that no item is stuck in a state nobody
acts on, that the queue is served and that neither a cancel nor the exit hangs; for
the playlist, that the two lists hold the same items, that no method loses the cursor
or moves it off its item, and that an item is freed once, and not under a thread that works
on it. Some of this does not hold without an exception; section 5 has the list.
The `hazards` list of `PROJECT.json` gives each place with the properties that
watch it.

## 2. The modules

| Module | Models |
|---|---|
| `ByteStream` | what a PullBuffer promises: a bounded stream with a window for each side (abstract) |
| `PullBuffer` | `pullbuffer.cpp`, byte by byte; `StreamSpec` is `ByteStream` under a refinement mapping |
| `RingArithmetic` | lemmas about `%` on a ring of whole frames |
| `PullBufferProofs` | the inductive invariant of `PullBuffer` and its theorems |
| `StreamProofs` | that `PullBuffer` implements `ByteStream` |
| `PipelineUnit` | the variables of a playing track, its flags, semaphores and `AcceptEvent` |
| `LocalFileInput`, `XingLMC`, `SoundCardPMO` | the three worker threads, and the sound card |
| `PhysicalMediaOutput` | what the player's thread does to them |
| `Pipeline` | all of them together; its properties |
| `PipelineProofs` | its inductive invariants: windows, the player's calls, the order and completeness of the frames, what a seek leaves behind |
| `EventProofs` | the events between the frames, of a track that is neither paused nor positioned |
| `Player` | the event queue, the handlers, the playlist's cursor, the user interfaces |
| `PlayerProofs` | the inductive invariant of `Player` and its theorems |
| `DownloadManager` | the list, the item states, the download thread, files, database, server and user interfaces |
| `DownloadProofs` | its typing, the wholeness of files and that no item is stranded |
| `Playlist` | the two lists, the cursor, the modes, the items' lives and the metadata threads |
| `PlaylistProofs` | facts about lists without repetitions, the inductive invariant and its theorems |
| `MC*` | instances for TLC |

### 2.1 PullBuffer

One action per method body under `m_pMutex`. Not under it, hence actions of their
own: what the writer puts in its window (`Fill`), `BeginRead`'s computation of
`pBuffer` (`TakePointer`), and `Resize`'s first look at the byte count
(`ResizeCheck`). Refused calls change nothing and are stutters. `Clear` may come
at any moment at which no window is granted, which is what the loop at
`pullbuffer.cpp:86-100` waits for. `memory` has real contents: the writer stamps
its bytes with consecutive numbers, so that `StreamSpec` notices a byte lost,
repeated or overwritten. The mapping reads `bytesInBuffer` bytes around the ring
as `unread`, and the window at the read index, overflow area included, as
`reading`.

Four assumptions tie the buffer to its clients, which choose block sizes in other
files: whole frames (`FrameAssumption`), windows no longer than the overflow area
plus a frame (`WindowAssumption`), and a ring at least as large as a read and a
write together less a frame (`RoomAssumption`), without which both sides can be
refused at once. `WindowAssumption` makes the code's own refusal of a window that does not
fit (`pullbuffer.cpp:395`) unreachable; that branch is assumed away, not checked. With the preference's default of 64 KiB, 16 KiB of overflow,
blocks of 8192 bytes and reads of 1441 or 4323 the code satisfies them.
`DiscardBytes` is the network inputs' alone (`Streaming`). `Resize` meets an empty buffer
only, as the decoders call it before the first write.

### 2.2 Pipeline

The unit of data is a frame, its number and how often the file had been
positioned when it was read. The input buffer is a sequence (that is what
`ByteStream` says it is, and what `PullBuffer` is shown to implement); the output
buffer keeps its read index as well, because `EventBuffer` compares indices. A
worker is a program counter in `at`, one action per stretch between two calls
that another thread can see; `inGrant` and `outGrant` say who holds a window.
Semaphores count signals (one waiter each); the code's count starts at one and is
decremented before it is compared, which is the same thing for one waiter.

A call of the player's thread is the sequence of the steps it still has to make
(`ctl.todo`): `SeekSteps` is `PhysicalMediaOutput::ChangePosition` with the calls
it makes, `DeleteSteps` the chain of destructors. Between two steps the workers
run. `PmoPeek` ends in the state `crashed` where `PeekEvent` would read through a
null pointer (`eventbuffer.cpp:122`); nothing happens after that.

The decoder's requests are in bytes in the code and may be larger than a frame. It asks
for the greatest length a frame can have, 1441 bytes, and for 4323 at the head of the stream, while
a frame of an ordinary file has about 417; `ReadAhead` and `HeadAhead` are these amounts
in frames. Only when it finds that less is left, and the stream ended, does it ask for that
(`LmcSize`: two looks without a lock, and the request stays the same while it waits). A
request that the end of the stream overtakes is refused with whole frames in the buffer
(`LmcRead`), and so is that of `AdvanceBufferToNextFrame`, which always asks for the
greatest length (`LmcAdvance`).

Abstracted: `CanDecode`, `ExtractMediaInfo` and `InitDecoder` are one step that
needs `HeadAhead` frames at the head of the stream; a frame either decodes or does not
(`Corrupt`); the card is a number of frames that goes down by itself, and may
refuse to open or to take a frame (`CardMayFail`), while the other ioctls on an
open card succeed. The last read of the file may be short with or without a
frame, so that files of a whole number of blocks and others are both covered.

### 2.3 Player

A handler is one step, since the event thread serves one event at a time; only
`NextMediaPiece` and `PrevMediaPiece`, which put two events in the queue and move
the cursor between, are split (`PutRestart`), because others may put events
between the two. `Serves` takes the head of the queue and puts what the handler
posts at its end. The track is `Pipeline` seen from outside: an item, whether it
has been resumed, whether it has reported an end or an error, and whether its output's thread
is over. It reports its end once and errors any number of times. Every handler that ends a
track deletes the output before it does anything else. As long as the output's
thread is not over the deletion may never return (`DeletesForEver`, `stuck`), which is
what `pipe_stop_hangs` shows of the pipeline; otherwise it does (`DeletesOutput`).
`CMD_Play` and `PlayerState_Playing` are both 2, and `Play` compares the one with
the other (`player.cpp:1967`); the model has the effect, namely that Play is
dropped by a playing player and PlayPaused is not. `CreatePMO` may fail, with a
new Play in the queue (a missing file), with the report that an error message brings along
(`PipelineUnit::ReportError`), or with neither (`FailurePosts`). What the user interfaces are
told of the state is left out. The user interfaces of the model put any command
in the queue at any time, change the repeat mode, play an item as
`GTKMusicBrowser::PlayEvent` does, in three steps, and answer Cleanup before the
call returns, as the Unix ones do.

### 2.4 DownloadManager

A file is a sequence of blocks `<<version, position>>`; the server's copy may be
replaced by another (`ServerChanges`) at any time, and a reply's last-modified
line, if there is one, is the version's number. `Load` and `SaveItems` are the
constructor and the destructor with the database between them, `Crash` loses all
but files and database. `AddItem`, `PauseDownloads` and `ResumeDownloads` are one
step each; `QueueDownload` and `CancelDownload` test the state in one step (`Ask`)
and set it in another (`Apply`), since only `AddItem` takes `m_mutex` and the
thread sets states without it. `CancelDownload` with its flag for pausing is the
call `Pause`, and `QueueDownload` with its flag for starting now `QueueNow`.

The thread is a program counter `at`: `Pick` is `GetNextQueuedItem`, which scans
from `m_downloadIndex`; `SetDownloading` the assignment after it; and `Download`
goes through `begin` (is the file complete already, connect), `header` (the reply:
whole file, the rest, refused range, redirection, error, or a file that cannot be opened once the
item has been reset), `first` (what came with the header) and `body` and `test` (one
block and the condition of the loop). Wherever the code polls `m_exit` and the
item's state, `Abandon` may end it with any of the results the code at that place
returns. `Finish` is the switch over the result in `DownloadThread`,
`CleanUpDownload` the removal of the file. A reply's headers are kept only as far
as the decisions that depend on them. Left out: `ReadDownloadFile`,
`SubmitToDatabase`, what the user interfaces are told, and two items with the same
destination file.

### 2.5 Playlist

Every method holds `m_mutex` from its first line to its last, so each is one step;
what it does to the master list, to the shuffled list, to the cursor and to the
items' states is in it. `SetCurrentIndexTo` is the tail of most of them and ends in
`aborted` where `InternalIndexOf` would fail its assertion (no build of the
repository defines `NDEBUG`). `SetIndexOutside` is a caller's `SetCurrentIndex` with an
index that the list does not have, which leaves a list with items without a cursor; from then
on a method that calls `GetCurrentItem` may read outside the list (`ReadOutside`, which ends in `aborted` as well)
until someone sets the cursor again. `RemoveItem` and `RemoveItems` leave an item whose
state is `RetrievingMetaData` to its thread (`Dispose`), and `MetaDataThread` is the
end of that thread's work on one item, under the mutex. What it has set Normal it keeps
a pointer to (`held`) until the event it posts at its end has been served (`ItemsUpdated`). Orders that come from a
random number or a sort key are left open (`Arrangements`). The indices
outside the list come from `Player::CreatePMO` (`player.cpp:1645`), 0 on an empty list, and from
the music browser (`gtkmusicbrowser.cpp`), which plays `m_lastindex` (1460) after resetting it (1081) and
restores a saved position (1805). Left out: external playlists, the
undo list (commented out in the source), playlist files, updates of an item's
metadata by a user interface, and what the user interfaces are told.

## 3. The runs

| Run | Instance | Shows |
|---|---|---|
| `pull_input` | ring of 4, overflow 2, writes of 1-2, reads of 0, 2, 3, discards, Clear | the buffer's bookkeeping, memory safety and refusals, and `StreamSpec` |
| `pull_output` | resized to 6 or 8, no overflow area, frames of 2, fairness | no byte is lost across `Resize`; the reader is served, or has had all there is to have (`ReaderServed`) |
| `pipe_play` | 5 frames, the second corrupt, reads of 2, output buffer of 3, card may fail, fairness | order, event positions, few frames left at the end, the end is reported |
| `pipe_pause` | 4 frames, the second corrupt, card may fail, two pauses, resumes at any time | no frame lost, repeated or reordered across pauses |
| `pipe_seek` | 2 frames, two seeks to the first, the second while a signal of the first is left, output buffer of 2 | order, empty input, bounded stale output, nobody asleep with a window |
| `pipe_stop` | 2 frames, the first corrupt, a pause, resumes at any time, deletion at any time with and without another pause, fairness | deleting ends, unless the output is caught in its inner loop |
| `player_commands` | 3 items, 2 user interfaces, every command, failures, deletions that hang, fairness | the player's invariants, `OnlyChoiceParts`, `QuitEnds` |
| `download_file` | 1 item, a server copy of 2 blocks replaced by one of 1, every call, exits, crashes, vanishing files, files that cannot be opened, a disk that fills | files in one piece, no item stranded, cancel and exit get through |
| `download_queue` | 2 items, queued again at any time, a server without dates | each queued item is tried |
| `playlist` | 3 items, 2 metadata threads, all edits and modes, indices outside the list | the two lists, who loses the cursor, the lives of items |
| `pipe_stop_hangs`, `download_done` | as small as shows it | where the program does not do what its sources say (section 5) |

**Bounds.** `Stamps`: bytes are numbered modulo 3 (7); a ring of 4 (8) with its windows shows
any displacement by less than that. `MaxTokens`: signals a semaphore remembers
(1 or 2); a unit that finds a further signal only goes around its loop once more.
`MaxSeeks`, `MaxPauses`: calls of the player, of which two meet the workers
in every position. `FileLen` 5 with an output buffer of 3 makes the indices wrap
and the buffer fill up while the card is full. `ReadAhead` and
`HeadAhead` 2 with an input buffer of 2: a request that needs more than one frame, so that the last
one is asked for by itself, or left; three and more differ in how many are left, which
`EventProofs` covers.
`UntilDecoded` ends a run of `pipe_seek` where a frame of the new position has
reached the output buffer, and lets it go on to the second seek only while the signal of
the first one's `Resume` is still there for the decoder, which is what makes two seeks
different from one. From its beginning on the output stands: in that run, what the
second seek leaves is a matter of the decoder, and how the output meets a seek the first has
shown. The view `Seen` leaves out the counter of frames, the times
made from it, what the player was told, and the size of a read when none is under way,
which no guard and no property of the run reads. The theorems about these four properties have none of
these bounds. `pipe_stop` has no seek: with one more call it is out of reach.
`MaxQueue`: a user interface puts commands, and a track its second error, in a queue
shorter than 2; handlers and first reports are not bounded by it, and queues get longer.
`card` saturates where two threads race on it.

For downloads, `Versions` 2 with `Length` `<<2, 1>>` is the least with which a file can be
incomplete, complete, longer than what the server now has, and spliced together.
`MaxSignals` 1: the thread scans the whole list after each wait, so that a second
signal only repeats a scan. One item is enough for the properties of `download_file`,
none of which relates two items; two compete in `download_queue`, where the calls are
those that put an item back in the queue and nothing else happens to the program.
`Items` 3 and two `Threads` for the playlist: three items have arrangements that are
not rotations or reversals of each other, and with two threads one can be at work
while another starts. `repeat one` differs from `none` in one branch that changes
nothing, and the run has `none` and `all`.

**Deadlock** is checked in the `PullBuffer` runs, where the clients never stop, and in
the download runs, where a user can always act. A track and the player do stop, and a
failed assertion ends the program with the playlist, so that the other runs say
`CHECK_DEADLOCK FALSE`; stopping too early is what `Completes`, `StopOrCaught` and
`QuitEnds` are for.

**Fairness.** `Pipeline!Fairness` is weak fairness of each thread and of the card:
the operating system runs a thread that can run, and a card plays what it holds.
The player's *calls* are not fair (nobody need pause or seek), but a call once
begun goes on (`WF(CtlNext)`). The workers' and the player's loops that poll are
steps that are always enabled, so that weak fairness of the whole thread is all
that is used. `Player!FairSpec` is weak fairness of the event thread alone: no
user interface is fair, and no track need end. `PullBuffer!FlowSpec` adds that a
client that was refused asks again, and strong fairness of a delivery of at least
one byte: a source that for ever delivers nothing would starve any reader. The code
marks the end of such a source with the end-of-stream flag; the reader is then served for as
long as what it asks for is there, hence `<>[]NothingLeft`.
`DownloadManager!FairSpec` is weak fairness of the thread's own steps, of a call that
has begun, and of the destructor. The server is not fair: it may be silent for ever,
and `CancelFreesThread` and `ExitEnds` hold all the same. `QueuedIsTried` cannot hold
then, since the one thread would wait in `recv`; its premise asks the server to answer
if tried often enough. `Playlist!FairSpec` is weak fairness of each metadata thread.

Each property of a passing run has a mutant in `PROJECT.json`: a definition next
to the one it replaces, changed the way a slip in that code would change it, under
which the run fails.

## 4. What is proved

TLC sees the instances above; TLAPS shows the following for every value of the
constants that satisfies the modules' assumptions.

**PullBuffer** (`SizeAssumption`, `FrameAssumption`, `WindowAssumption`,
`RoomAssumption`). The invariants of the run are not inductive: that `EndWrite`
keeps the indices in agreement needs to know that the window it ends was granted
when there was room, and that the reader has only made more since. `IndInv` says
so part by part: the shape is one the block sizes were chosen for once the writer
works (`ShapeInv`); everything is a whole number of frames (`FrameInv`); the write
index is the read index plus the count, less the size if it wraps (`RingInv`,
without `%`, which the SMT solver handles badly); and each side's window is within
the count or the room (`WriterInv`, `ReaderInv`). One lemma per action shows that
it is kept. From it follow type correctness, `IndicesAgree`, `PointersHold`,
`WindowsInMemory`, `WindowsDisjoint`, that refusals are justified
(`RefusedOnlyWhenNeeded`) and, with `RoomAssumption`, that they are never mutual
(`NeverBothRefused`). `RingArithmetic` holds the facts about `%`.

`StreamProofs` proves the refinement, `Spec => StreamSpec`. What the abstract stream
holds is a function of memory and indices, so that `IndInv` has to be joined by a fact
about contents: what the writer has put into its window is bytes until `EndWrite` takes
them (`FilledInv`; the two are `StreamInv`). One lemma per action then maps its step:

| `PullBuffer` | `ByteStream` |
|---|---|
| `ResizeCheck`, `TakePointer`, `Fill` | stutter |
| `Resize` | `Reshape` |
| `BeginWrite`, `EndWrite` | `GrantWrite`, `Deliver` |
| `BeginRead`, `EndRead` | `GrantRead`, `Consume`, or a stutter where nothing is granted |
| `SetEndOfStream`, `DiscardBytes`, `Clear` | `DeclareEnd`, `DropOldest`, `Forget` |

The work is in `EndWrite`, which moves what went into the overflow area to the front of
the ring: the bytes read around the ring afterwards are the old ones followed by those
of the window. That moving reaches no unread byte is `WindowsDisjoint`.

**Player** (`PlayerAssumption`). `IndInv` is the conjunction of `TypeOK`,
`StateTracksOutput` and `EndIsNoticed`: each handler that
deletes the output sets the state with it, one that does not return changes nothing, and what is served leaves
every other event where it is (`ServedQueue`). On top of it, `OnlyChoiceEverParts`
proves the action property of the run, and `UnchosenItemPlays` that the track that
sounds is the playlist's current one as long as no user interface moves the cursor
itself (`MayChoose = FALSE`). With such a user interface that is not true (section 5).
`AnswersAlwaysOnTheirWay` proves `AnswersOnTheirWay` with lemmas on how the number of
answers in the queue changes when an event is put in and when one is served.

**Pipeline** (`PipelineAssumption`), for a file, buffers and a card of any size and, where
nothing else is said, any number of pauses, resumptions and seeks, with or without a stop. `IInv` says where each worker may be, that a window
belongs to a worker that is at work on it (a decoder told to leave may keep both of its
own), that what a window was granted for is still there, and that the call of the player
positions the file once for each of its remaining `rewind` and `seek` and clears the
input buffer after each. `PipelineTypes` and `NoSleeperHoldsAWindow` follow.
Further invariants rest on it: `FreshOK` (either the input buffer is still going to be
cleared, or all of it and all that is on its way into it was read since the file was
positioned) gives `NoStaleInput`; `OrderOK` (written, output buffer, the decoder's hand,
input buffer and what was fetched, each sorted and each before all that follow, and all
before the file's position) gives `InOrder`; and with `MaxSeeks = 0`, `WayOK` (no good
frame is missing between the card and the file until the output has ended, which holds
because the deletion joins the output before it clears anything) gives `NextFrame`.

`StaleFramesAreCounted` bounds what a seek leaves of the old position. A frame gets into
the output buffer after the Clear only if the decoder had passed its pause check before
(once) or passes it with a signal it did not wait for, and each seek's `Resume` adds one
such signal at most. `StaleOK` follows this through the call: the signals never exceed the
seeks made (`SignalsLeft`); between Clear and Resume the decoder is paused
(`StillPaused`), and buffer, signals and the frame under way together stay within the
seeks (`FewSinceClear`); once the input has been cleared for the last time, everything
the decoder takes is new (`FreshOK`), and only what is there counts (`FewStale`). So the
n-th seek leaves at most n old frames; that a second one can leave two TLC shows in
`pipe_seek`, and the bound of one frame that the source suggests is true of the first only.

`EventProofs` is about `EventBuffer::BeginRead`, which compares an event's index with the
read index although both wrap around. Its `EventInv` unwinds them: the frames played
and the frames decoded are numbers that do not wrap, an event has the number of the
frame it stands before, `%` of the buffer's size gives its index, and the next event is
never more than two frames ahead of what was played, so that it is found due exactly
when it is due by number. That few frames are left (`FewLeft`) needs what the decoder last
asked for (`WantOK`): it asks for no more than the greatest length of a frame, or for what there is,
so that a refusal at the end of the stream leaves less than that in the buffer (`EndOK`), and the
output holds one block back. From it `EventsNearFrame`, `FewLeft`, and that `PeekEvent`
never meets an empty queue (`NoReadOfAnEmptyQueue`). The theorems have three conditions,
and without each of them TLC finds a counterexample. `MaxSeeks = 0`: a seek empties the
queue under the output, which then reads the head of an empty queue. `MaxPauses = 0`:
after two pauses `EventsNearFrame` and `FewLeft` fail. The first interrupts the wait
for room in the card after two time events were taken, the second's `Reset` meets the
output at its test of `m_properlyInitialized`, where it throws the next event away
(section 5); the one after that is a whole turn of the buffer ahead, and counts as due.
`OutCap >= 3`: in a buffer of two frames every event is due at every time, and both
properties fail; the code's holds at least 64 KiB (`xinglmc.cpp:730`), fourteen frames of
an MP3 file.

**DownloadManager** (`DownloadAssumption`). `DownloadTypes` needs three facts besides
types: a call in progress is about an item of the list, a process that is not there has
nothing in memory, and the file a thread appends to is there. `DownloadsInOnePiece` is
by `PieceInv`: what an item remembers (bytes and date, in memory or in the database) is
true of its file if the file is there, and what the connection delivers next continues
it; the steps that matter are a partial reply, which comes only for a date that is still
the server's, and a whole one, which empties the file first. The theorem has the
property's two conditions, a server that sends dates and a disk that is not full; without either
`PieceInv` fails, and so does the property. `NoDownloadStranded` is by `StrandInv`:
`Download` says that the user cancelled only if the state says so, or the program is
leaving.

**Playlist** (`PlaylistAssumption`). The inductive invariant `IInv` adds to the
properties where an item is: in the list exactly when its state is `Normal` or
`RetrievingMetaData`, and with one thread only, exactly when it is
`RetrievingMetaData` or `Delete`. From it follow the types, `ShuffleIsArrangement`,
`NoneFreedUnderThread` and `NoneLeaked`. The invariant does not say that there is a cursor, which a
caller may take away; that nothing else does is the action property `CursorValid`, proved
with the invariant method by method (`OnlyCallersLoseTheCursor`). The proof rests on lemmas about `Insert`, `Erase`,
`Without` and `InternalIndexOf` on lists without repetitions; each removal's clamping is what keeps the cursor in the list. `EditsKeepTheCursor` proves the action property
`CursorStays` case by case from the same invariant.

**Only model-checked**: every invariant, action property and refinement that a passing
run checks is also stated by a theorem. What is left to TLC is liveness (`ReaderServed`,
`Completes`, `StopOrCaught`, `QuitEnds`, `CancelFreesThread`, `ExitEnds`, `QueuedIsTried`,
`RemovedAreFreed`), which needs fairness and `ENABLED` and is out of the prover's reach.

## 5. Where the code and its texts part

Two disagreements have a run of their own:

* `pipe_stop_hangs`. A Stop that finds the output in `WaitForDrain` interrupts it,
  and the loop around it, which looks at neither flag, calls it again, for ever;
  the player's thread waits in `Join`. `event.h:50`: "stop current play".
* `download_done`. A cancel, a pause or a queue request that tests an item's state just
  before the thread sets it to done takes effect just after: a finished item becomes
  cancelled, and its file is removed at exit, or is downloaded again. `downloadmanager.h:236` and `:243`:
  no effect if the state is Done.

The model shows these as well; they are stated as limits of a property, or noted with
the hazard, rather than run on their own:

* `EventBuffer::BeginRead` holds back a block that ends at an event, so that the last
  frame of a track is never played. Before that the decoder may have given up whole frames: with
  reads of 1441 bytes, up to three of 417 are left when the end of the stream comes while it
  waits, or when it looks for the next frame after a bad one (`xinglmc.cpp:185`, `862-869`). `FewLeft`
  says that this is all.
* A seek that comes between the input's short read and its `SetEndOfStream` leaves the
  stream at the new position marked as ended.
* A pause clears `m_properlyInitialized` for a moment; a worker that looks then throws
  the next event away. After two pauses the time events can be ahead of their frames for
  it, and more frames be left at the end than `FewLeft` allows. When it is the quit event, the output
  waits for ever in its inner loop, which looks at neither `m_bExit` nor `m_bPause`, and a stop
  then hangs as in `pipe_stop_hangs` (`StopOrCaught` names the state).
* `Resume` signals a decoder that is not waiting, and the signal lets it pass the pause
  of a later seek: the n-th seek can leave n frames of old positions (`StaleWithinSeeks`).
* A track that ends while a user interface chooses another item makes the player's own
  Play come first, and another item sounds than the current one (`OnlyChoiceParts` says that nothing else
  parts them).
* The "I'm already quitting flag" of `player.cpp:2129` is set and never tested: a
  second quit tells the user interfaces to clean up again. The player leaves all the same, unless
  it is caught in the deletion of a playing output, by the hangs above (`QuitEnds`).
* A caller that sets an index outside a list with items leaves it without a cursor, and
  `GetCurrentItem` reads outside the list, or in shuffle mode the assertion of `InternalIndexOf`
  fails at once; it also fails when the last item is removed in shuffle mode, or Play is
  pressed on an empty list (`CursorValid` says that nothing else does either).
* A metadata thread keeps pointers to the items it has set Normal and posts them in
  `PlaylistItemsUpdatedEvent`; an item removed meanwhile is freed, and the music browser reads it
  (`gtkmusicbrowser.cpp:2137-2144`). In the model a freed item is in `held` then. `NoneFreedUnderThread`
  says that the thread's own work on an item is safe.
* `SwapItems` and `MoveItem` compare the cursor with indices of the master list in
  shuffle mode too, so that the current item may change.

## 6. Not modelled

* `EventBuffer` at the level of byte indices: `Pipeline` has its queue, its comparison
  of positions and its held-back blocks at the grain of frames, where a block is a frame;
  below that it is `PullBuffer`.
* The inside of `Semaphore`, `Mutex` and `Queue`. `Semaphore` subtracts before it waits,
  which differs from a counter only with several waiters, and none of the semaphores in
  the modelled parts has two.
* The network inputs, the other decoders and the other outputs have the thread
  structure of the modelled three; what is their own (reconnecting, formats, devices) is
  input and output.
* The signature thread, whose service is gone; the timers, which only start
  periodic checks of parts that are not modelled; the undo manager, whose calls
  the playlist has commented out.
* The music catalog, whose database does the work; preferences, registries and
  properties, which are stores without a protocol; codecs and the libraries in `lib`;
  the user interfaces' own code, most of the repository; parsers and device drivers (`plm`);
  the ports to other systems; the APS client; the installer.

By lines the modelled part is small: most of the repository is user
interfaces, codecs, parsers and vendored libraries. It is the part in which threads meet.
