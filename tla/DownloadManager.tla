--------------------------- MODULE DownloadManager ---------------------------
(***************************************************************************)
(* The download manager (base/src/downloadmanager.cpp): user interfaces    *)
(* add, queue, cancel and pause items; one thread downloads the queued     *)
(* ones in turn, resuming what is already in the file; at exit the         *)
(* unfinished items go to a database and the next start reads them back.   *)
(* The thread reads the list and the items' states without m_mutex, which  *)
(* only AddItem takes, so that everything else interleaves freely.         *)
(*                                                                         *)
(* A file is a sequence of blocks <<version, position>>: the server may    *)
(* replace what it offers while a download is interrupted.  Every item has *)
(* a file of its own.  The last-modified time of a reply stands for the    *)
(* version it came with, 0 for none.                                       *)
(***************************************************************************)
EXTENDS Integers, Sequences, FiniteSets

CONSTANTS
  Items,        \* what can be downloaded
  Versions,     \* how often the server's copy changes, plus one
  Length,       \* blocks of each version
  ServerDates,  \* replies carry a Last-Modified line
  DiskMayFill,  \* from some moment on no write succeeds
  Calls,        \* of QueueDownload and CancelDownload, the ones users make
  Adverse,      \* the program exits and crashes, files vanish
  MaxSignals,   \* bound: signals m_queueSemaphore remembers
  NoFile, NoItem, NoCall

VARIABLES
  phase,          \* off, running, exiting (m_exit), stopping (~m_runDownloadThread)
  list,           \* m_itemList
  state,          \* of each item, Null when it is not in the list
  bytes,          \* m_bytesReceived
  total,          \* m_bytesTotal, 0 when the server did not tell
  mtime,          \* m_mtime
  downloadIndex,  \* m_downloadIndex
  downloadsPaused,
  queueSem,       \* signals pending on m_queueSemaphore
  at, cur,        \* where the download thread is, and its item
  conn,           \* its connection: what the server sends next, and whether
                  \* the last write failed
  result,         \* what Download returns
  call,           \* a user interface between a method's test and its effect
  file,           \* the destination files
  db,             \* ResumeDownloadDB
  version,        \* what the server offers
  disk            \* ok or full

ASSUME DownloadAssumption ==
  /\ Versions \in Nat \ {0} /\ Length \in [1 .. Versions -> Nat \ {0}]
  /\ ServerDates \in BOOLEAN /\ DiskMayFill \in BOOLEAN
  /\ Calls \subseteq {"Queue", "QueueNow", "Cancel", "Pause"} /\ Adverse \in BOOLEAN
  /\ MaxSignals \in Nat \ {0}
  /\ IsFiniteSet(Items) /\ NoItem \notin Items
  /\ NoFile \notin Seq((1 .. Versions) \X (Nat \ {0}))

itemVars   == <<list, state, bytes, total, mtime>>
queueVars  == <<downloadIndex, downloadsPaused, queueSem>>
threadVars == <<at, cur, conn, result>>
outside    == <<file, db, version, disk>>
vars == <<phase, itemVars, queueVars, threadVars, call, outside>>

States == {"Null", "Queued", "Downloading", "Cancelled", "Paused", "Error", "Done"}
Working == {"begin", "header", "first", "body", "test", "over", "cleaning"}
NoConn == [ver |-> 0, next |-> 0, lost |-> FALSE, more |-> FALSE]
NotSaved == [state |-> "Null", bytes |-> 0, total |-> 0, mtime |-> 0]

Stored(f) == IF f = NoFile THEN 0 ELSE Len(f)
Listed == {list[k] : k \in 1 .. Len(list)}

\* What the process keeps in memory is gone.
Forget ==
  /\ phase' = "off" /\ list' = <<>>
  /\ state' = [i \in Items |-> "Null"]
  /\ bytes' = [i \in Items |-> 0] /\ total' = [i \in Items |-> 0]
  /\ mtime' = [i \in Items |-> 0]
  /\ downloadIndex' = -1 /\ downloadsPaused' = TRUE /\ queueSem' = 0
  /\ at' = "left" /\ cur' = NoItem /\ conn' = NoConn /\ result' = "NoErr"
  /\ call' = NoCall

Init ==
  /\ phase = "off" /\ list = <<>>
  /\ state = [i \in Items |-> "Null"]
  /\ bytes = [i \in Items |-> 0] /\ total = [i \in Items |-> 0]
  /\ mtime = [i \in Items |-> 0]
  /\ downloadIndex = -1 /\ downloadsPaused = TRUE /\ queueSem = 0
  /\ at = "left" /\ cur = NoItem /\ conn = NoConn /\ result = "NoErr"
  /\ call = NoCall
  /\ file = [i \in Items |-> NoFile] /\ db = [i \in Items |-> NotSaved]
  /\ version = 1 /\ disk = "ok"

-----------------------------------------------------------------------------
(* Start, exit and crash                                                      *)

\* The database is read in the order of its keys' hashes and then emptied.
Load ==
  /\ phase = "off" /\ phase' = "running" /\ at' = "top"
  /\ \E order \in [1 .. Cardinality({i \in Items : db[i].state # "Null"})
                     -> {i \in Items : db[i].state # "Null"}] :
       /\ \A k, l \in DOMAIN order : k # l => order[k] # order[l]
       /\ list' = order
  /\ state' = [i \in Items |-> db[i].state]
  /\ bytes' = [i \in Items |-> db[i].bytes]
  /\ total' = [i \in Items |-> db[i].total]
  /\ mtime' = [i \in Items |-> db[i].mtime]
  /\ db' = [i \in Items |-> NotSaved]
  /\ UNCHANGED <<queueVars, cur, conn, result, call, file, version, disk>>

Signal == queueSem' = IF queueSem < MaxSignals THEN queueSem + 1 ELSE queueSem

SetExit ==
  /\ Adverse /\ phase = "running" /\ call = NoCall /\ phase' = "exiting"
  /\ UNCHANGED <<itemVars, queueVars, threadVars, call, outside>>

\* Mutant: a sleeping thread is not told.
StopThreadSilently ==
  /\ phase = "exiting" /\ phase' = "stopping"
  /\ UNCHANGED <<itemVars, queueVars, threadVars, call, outside>>

StopThread ==
  /\ phase = "exiting" /\ phase' = "stopping" /\ Signal
  /\ UNCHANGED <<itemVars, downloadIndex, downloadsPaused, threadVars, call, outside>>

SavedState(s) == IF s = "Error" THEN "Queued" ELSE s

\* SaveResumableDownloadItems, and the files of the cancelled items are removed.
\* An item that is still marked as downloading is not saved.
SaveItems ==
  /\ phase = "stopping" /\ at = "left"
  /\ db' = [i \in Items |->
              IF state[i] \in {"Paused", "Queued", "Error"}
              THEN [state |-> SavedState(state[i]), bytes |-> bytes[i],
                    total |-> total[i], mtime |-> mtime[i]]
              ELSE NotSaved]
  /\ file' = [i \in Items |-> IF state[i] = "Cancelled" THEN NoFile ELSE file[i]]
  /\ Forget /\ UNCHANGED <<version, disk>>

Crash == Adverse /\ phase # "off" /\ Forget /\ UNCHANGED outside

-----------------------------------------------------------------------------
(* What user interfaces do                                                    *)

AddItem(i) ==
  /\ phase = "running" /\ call = NoCall /\ i \notin Listed
  /\ list' = Append(list, i)
  /\ state' = [state EXCEPT ![i] = "Queued"] /\ Signal
  /\ UNCHANGED <<phase, bytes, total, mtime, downloadIndex, downloadsPaused,
                 threadVars, call, outside>>

Allowed(op) == IF op \in {"Queue", "QueueNow"}
               THEN States \ {"Downloading", "Done"}
               ELSE {"Downloading", "Queued", "Paused"}

Target(op) == CASE op = "Cancel" -> "Cancelled" [] op = "Pause" -> "Paused"
                [] OTHER -> "Queued"

\* QueueDownload and CancelDownload look at the state first ...
Ask(op, i) ==
  /\ phase = "running" /\ call = NoCall
  /\ i \in Listed /\ state[i] \in Allowed(op)
  /\ call' = [op |-> op, item |-> i]
  /\ UNCHANGED <<phase, itemVars, queueVars, threadVars, outside>>

Asks == \E i \in Items, op \in Calls : Ask(op, i)

\* ... and set it afterwards, whatever it is by then.
Apply ==
  /\ call # NoCall /\ call' = NoCall
  /\ state' = [state EXCEPT ![call.item] = Target(call.op)]
  /\ downloadIndex' = IF call.op = "QueueNow" /\ downloadsPaused
                      THEN (CHOOSE k \in 1 .. Len(list) : list[k] = call.item) - 1
                      ELSE downloadIndex
  /\ IF call.op \in {"Queue", "QueueNow"} THEN Signal ELSE UNCHANGED queueSem
  /\ UNCHANGED <<phase, list, bytes, total, mtime, downloadsPaused, threadVars, outside>>

PauseDownloads ==
  /\ phase = "running" /\ ~downloadsPaused /\ downloadsPaused' = TRUE
  /\ UNCHANGED <<phase, itemVars, downloadIndex, queueSem, threadVars, call, outside>>

ResumeDownloads ==
  /\ phase = "running" /\ downloadsPaused' = FALSE /\ Signal
  /\ UNCHANGED <<phase, itemVars, downloadIndex, threadVars, call, outside>>

-----------------------------------------------------------------------------
(* The download thread between items                                          *)

Start == IF downloadIndex \in 0 .. Len(list) - 1 THEN downloadIndex ELSE 0
Nth(k) == list[((Start + k) % Len(list)) + 1]
Queued == {k \in 0 .. Len(list) - 1 : state[Nth(k)] = "Queued"}

Looks == at = "top" /\ phase # "stopping" /\ ~downloadsPaused

\* Mutant: the scan starts where it started before.
PickSameStart ==
  /\ Looks /\ Queued # {}
  /\ \E k \in Queued : (\A l \in Queued : k <= l) /\ cur' = Nth(k)
  /\ downloadIndex' = Start /\ at' = "picked"
  /\ UNCHANGED <<phase, itemVars, downloadsPaused, queueSem, conn, result, call, outside>>

\* Mutant: the index is not brought back into the list.
PickPastEnd ==
  /\ Looks /\ Queued # {}
  /\ \E k \in Queued : (\A l \in Queued : k <= l) /\ cur' = Nth(k)
  /\ downloadIndex' = downloadIndex + 2 /\ at' = "picked"
  /\ UNCHANGED <<phase, itemVars, downloadsPaused, queueSem, conn, result, call, outside>>

\* GetNextQueuedItem finds an item: the next scan starts one further on.
Pick ==
  /\ Looks /\ Queued # {}
  /\ \E k \in Queued : (\A l \in Queued : k <= l) /\ cur' = Nth(k)
  /\ downloadIndex' = Start + 1 /\ at' = "picked"
  /\ UNCHANGED <<phase, itemVars, downloadsPaused, queueSem, conn, result, call, outside>>

\* ... or there is none, or downloads are paused: Wait.
Sleep ==
  /\ at = "top" /\ phase # "stopping"
  /\ \/ downloadsPaused /\ UNCHANGED downloadIndex
     \/ ~downloadsPaused /\ Queued = {} /\ downloadIndex' = Start
  /\ at' = "waiting"
  /\ UNCHANGED <<phase, itemVars, downloadsPaused, queueSem, cur, conn, result, call, outside>>

Wake ==
  /\ at = "waiting" /\ queueSem > 0 /\ queueSem' = queueSem - 1 /\ at' = "top"
  /\ UNCHANGED <<phase, itemVars, downloadIndex, downloadsPaused, cur, conn, result, call, outside>>

Leave ==
  /\ at = "top" /\ phase = "stopping" /\ at' = "left"
  /\ UNCHANGED <<phase, itemVars, queueVars, cur, conn, result, call, outside>>

\* A cancel or a pause since the scan is overwritten.
SetDownloading ==
  /\ at = "picked" /\ at' = "begin"
  /\ state' = [state EXCEPT ![cur] = "Downloading"]
  /\ UNCHANGED <<phase, list, bytes, total, mtime, queueVars, cur, conn, result, call, outside>>

-----------------------------------------------------------------------------
(* Download                                                                   *)

\* Download returns r.
Returns(r) == at' = "over" /\ result' = r

Goes(to) == at' = to /\ UNCHANGED result

Wanted == phase = "running" /\ state[cur] = "Downloading"

\* Everything that was asked for is in the file, as far as is known.
IsThere == file[cur] # NoFile /\ Stored(file[cur]) >= total[cur]

AlreadyThere ==
  /\ at = "begin" /\ IsThere /\ Returns("NoErr")
  /\ UNCHANGED <<phase, itemVars, queueVars, cur, conn, call, outside>>

Interrupted ==
  IF state[cur] # "Downloading" THEN {"UserCancel"}
  ELSE CASE at = "begin" -> {"UserCancel", "Failed"}
         [] at = "header" -> {"IOError", "UserCancel"}
         [] OTHER -> IF conn.lost THEN {"Failed"} ELSE {"UserCancel"}

\* Mutant: Recv of the data does not look at the state of the item.
AbandonAtExit ==
  /\ at \in {"begin", "header", "body"}
  /\ IF at = "body" THEN phase # "running" ELSE ~Wanted
  /\ at = "begin" => ~IsThere
  /\ \E r \in Interrupted : Returns(r)
  /\ UNCHANGED <<phase, itemVars, queueVars, cur, conn, call, outside>>

\* Connect, Send and Recv poll m_exit and the state of the item.  A call that has
\* moved no data when it gives up is an I/O error to the exchange of the headers.
Abandon ==
  /\ at \in {"begin", "header", "body"} /\ ~Wanted
  /\ at = "begin" => ~IsThere
  /\ \E r \in Interrupted : Returns(r)
  /\ UNCHANGED <<phase, itemVars, queueVars, cur, conn, call, outside>>

\* Connected and the request composed: what is left of a vanished file is 0.
Connected ==
  /\ at = "begin" /\ ~IsThere /\ Wanted /\ Goes("header")
  /\ IF bytes[cur] > 0 /\ file[cur] = NoFile
     THEN bytes' = [bytes EXCEPT ![cur] = 0] /\ mtime' = [mtime EXCEPT ![cur] = 0]
     ELSE UNCHANGED <<bytes, mtime>>
  /\ UNCHANGED <<phase, list, state, total, queueVars, cur, conn, call, outside>>

\* No such host, refused, an unsupported protocol.
ConnectFails ==
  /\ at = "begin" /\ ~IsThere /\ Wanted /\ Returns("Failed")
  /\ UNCHANGED <<phase, itemVars, queueVars, cur, conn, call, outside>>

\* The request was a range one; its If-Range holds when there was no date to send.
AskedRange == bytes[cur] > 0
RangeHolds == mtime[cur] \in {0, version}

Receiving(from) == [ver |-> version, next |-> from, lost |-> FALSE, more |-> TRUE]

\* Mutant: the file is not truncated.
WholeAppends ==
  /\ at = "header" /\ Wanted /\ Goes("first")
  /\ bytes' = [bytes EXCEPT ![cur] = 0]
  /\ file' = [file EXCEPT ![cur] = IF @ = NoFile THEN <<>> ELSE @]
  /\ mtime' = [mtime EXCEPT ![cur] = IF ServerDates THEN version ELSE 0]
  /\ total' \in {total, [total EXCEPT ![cur] = Length[version]]}
  /\ conn' = Receiving(1)
  /\ UNCHANGED <<phase, list, state, queueVars, cur, call, db, version, disk>>

\* A reply with the whole file, with or without its length.
Whole ==
  /\ at = "header" /\ Wanted /\ Goes("first")
  /\ bytes' = [bytes EXCEPT ![cur] = 0] /\ file' = [file EXCEPT ![cur] = <<>>]
  /\ mtime' = [mtime EXCEPT ![cur] = IF ServerDates THEN version ELSE 0]
  /\ total' \in {total, [total EXCEPT ![cur] = Length[version]]}
  /\ conn' = Receiving(1)
  /\ UNCHANGED <<phase, list, state, queueVars, cur, call, db, version, disk>>

\* ... but the file cannot be opened, which is found after the item has been reset.
OpenFails ==
  /\ at = "header" /\ Wanted /\ Returns("Failed")
  /\ bytes' = [bytes EXCEPT ![cur] = 0]
  /\ mtime' = [mtime EXCEPT ![cur] = IF ServerDates THEN version ELSE 0]
  /\ total' \in {total, [total EXCEPT ![cur] = Length[version]]}
  /\ UNCHANGED <<phase, list, state, queueVars, cur, conn, call, outside>>

\* 206: the rest of the file, which is opened for appending.
Partial ==
  /\ at = "header" /\ Wanted /\ Goes("first")
  /\ AskedRange /\ RangeHolds /\ bytes[cur] < Length[version]
  /\ conn' = Receiving(bytes[cur] + 1)
  /\ UNCHANGED <<phase, itemVars, queueVars, cur, call, outside>>

\* 416: try to grab the whole thing.
RangeRefused ==
  /\ at = "header" /\ Wanted /\ Goes("begin")
  /\ AskedRange /\ RangeHolds /\ bytes[cur] >= Length[version]
  /\ bytes' = [bytes EXCEPT ![cur] = 0]
  /\ UNCHANGED <<phase, list, state, total, mtime, queueVars, cur, conn, call, outside>>

\* 3xx with a Location: Download calls itself.
Redirected ==
  /\ at = "header" /\ Wanted /\ Goes("begin")
  /\ UNCHANGED <<phase, itemVars, queueVars, cur, conn, call, outside>>

\* An error reply, or a lost connection; a 3xx without a Location counts as success.
NoData ==
  /\ at = "header" /\ Wanted
  /\ \E r \in {"Failed", "IOError", "NoErr"} : Returns(r)
  /\ UNCHANGED <<phase, itemVars, queueVars, cur, conn, call, outside>>

\* A block is written.  bytes counts what was received, written or not.
TakesBlock ==
  /\ conn.next <= Length[conn.ver]
  /\ bytes' = [bytes EXCEPT ![cur] = @ + 1]
  /\ file' = IF disk = "ok" THEN [file EXCEPT ![cur] = Append(@, <<conn.ver, conn.next>>)]
                            ELSE file
  /\ conn' = [ver |-> conn.ver, next |-> conn.next + 1, lost |-> disk # "ok", more |-> TRUE]

\* What has come with the header is written first, if anything has.
First ==
  /\ at = "first" /\ Goes("body")
  /\ TakesBlock \/ UNCHANGED <<bytes, file, conn>>
  /\ UNCHANGED <<phase, list, state, total, mtime, queueVars, cur, call, db, version, disk>>

\* Recv and write.
Receive ==
  /\ at = "body" /\ Wanted /\ TakesBlock /\ at' = "test"
  /\ result' = IF disk = "ok" THEN "NoErr" ELSE "Failed"
  /\ UNCHANGED <<phase, list, state, total, mtime, queueVars, cur, call, db, version, disk>>

\* The server closes the connection, early or not, or it breaks.
ReceiveEnds ==
  /\ at = "body" /\ Wanted /\ at' = "test"
  /\ \E r \in {"NoErr", "IOError"} : result' = IF conn.lost THEN "Failed" ELSE r
  /\ conn' = [ver |-> conn.ver, next |-> conn.next, lost |-> conn.lost, more |-> FALSE]
  /\ UNCHANGED <<phase, itemVars, queueVars, cur, call, outside>>

\* The end of the loop's body and its condition.
Test ==
  /\ at = "test"
  /\ CASE state[cur] # "Downloading" -> Returns("UserCancel")
       [] state[cur] = "Downloading" /\ result # "NoErr" -> Returns(result)
       [] OTHER -> IF conn.more /\ phase # "stopping" /\ total[cur] > bytes[cur]
                   THEN Goes("body") ELSE Returns("NoErr")
  /\ UNCHANGED <<phase, itemVars, queueVars, cur, conn, call, outside>>

-----------------------------------------------------------------------------
(* The download thread after Download                                         *)

Ends == at' = "top" /\ cur' = NoItem /\ conn' = NoConn /\ result' = "NoErr"

\* Mutant: the state of an item whose connection broke stays.
FinishKeepsState ==
  /\ at = "over"
  /\ \/ result = "NoErr" /\ state' = [state EXCEPT ![cur] = "Done"] /\ Ends
     \/ /\ result = "UserCancel" /\ UNCHANGED state
        /\ IF state[cur] = "Cancelled"
           THEN Goes("cleaning") /\ UNCHANGED <<cur, conn>> ELSE Ends
     \/ result = "IOError" /\ UNCHANGED state /\ Ends
     \/ /\ result = "Failed" /\ state' = [state EXCEPT ![cur] = "Error"]
        /\ Goes("cleaning") /\ UNCHANGED <<cur, conn>>
  /\ UNCHANGED <<phase, list, bytes, total, mtime, queueVars, call, outside>>

Finish ==
  /\ at = "over"
  /\ \/ result = "NoErr" /\ state' = [state EXCEPT ![cur] = "Done"] /\ Ends
     \/ /\ result = "UserCancel" /\ UNCHANGED state
        /\ IF state[cur] = "Cancelled"
           THEN Goes("cleaning") /\ UNCHANGED <<cur, conn>> ELSE Ends
     \/ result = "IOError" /\ state' = [state EXCEPT ![cur] = "Error"] /\ Ends
     \/ /\ result = "Failed" /\ state' = [state EXCEPT ![cur] = "Error"]
        /\ Goes("cleaning") /\ UNCHANGED <<cur, conn>>
  /\ UNCHANGED <<phase, list, bytes, total, mtime, queueVars, call, outside>>

CleanUpDownload ==
  /\ at = "cleaning" /\ Ends
  /\ file' = [file EXCEPT ![cur] = NoFile] /\ bytes' = [bytes EXCEPT ![cur] = 0]
  /\ UNCHANGED <<phase, list, state, total, mtime, queueVars, call, db, version, disk>>

-----------------------------------------------------------------------------
(* The world outside                                                          *)

\* The server's copy is replaced; the disk fills up; a user removes a file
\* that is not being downloaded.
ServerChanges ==
  /\ version < Versions /\ version' = version + 1
  /\ UNCHANGED <<phase, itemVars, queueVars, threadVars, call, file, db, disk>>

DiskFills ==
  /\ DiskMayFill /\ disk = "ok" /\ disk' = "full"
  /\ UNCHANGED <<phase, itemVars, queueVars, threadVars, call, file, db, version>>

FileVanishes(i) ==
  /\ Adverse /\ file[i] # NoFile /\ ~(cur = i /\ at \in Working)
  /\ file' = [file EXCEPT ![i] = NoFile]
  /\ UNCHANGED <<phase, itemVars, queueVars, threadVars, call, db, version, disk>>

-----------------------------------------------------------------------------
ThreadStep == Pick \/ Sleep \/ Wake \/ Leave \/ SetDownloading \/ AlreadyThere
              \/ Abandon \/ First \/ Test \/ Finish \/ CleanUpDownload
Connects == Connected \/ ConnectFails
Replies == Whole \/ OpenFails \/ Partial \/ RangeRefused \/ NoData
Sends == Receive \/ ReceiveEnds
Exit == StopThread \/ SaveItems
User == (\E i \in Items : AddItem(i)) \/ Asks \/ PauseDownloads
        \/ ResumeDownloads \/ SetExit \/ Load
World == ServerChanges \/ DiskFills \/ (\E i \in Items : FileVanishes(i)) \/ Crash

Next == ThreadStep \/ Connects \/ Replies \/ Sends \/ Redirected \/ Exit \/ User \/ Apply \/ World

Spec == Init /\ [][Next]_vars

\* The thread and a method that was called go on; nothing is asked of the
\* server here.
FairSpec == Spec /\ WF_vars(ThreadStep) /\ WF_vars(Apply)
                 /\ WF_vars(StopThread) /\ WF_vars(SaveItems)

-----------------------------------------------------------------------------
(* Properties                                                                 *)

\* The variables have their types, and the thread has an item when it works.
ItemsOK ==
  /\ phase \in {"off", "running", "exiting", "stopping"}
  /\ list \in Seq(Items)
  /\ state \in [Items -> States]
  /\ bytes \in [Items -> Nat] /\ total \in [Items -> Nat]
  /\ mtime \in [Items -> 0 .. Versions]

QueueOK ==
  /\ downloadIndex \in -1 .. Len(list)
  /\ downloadsPaused \in BOOLEAN /\ queueSem \in 0 .. MaxSignals

ThreadOK ==
  /\ at \in Working \cup {"top", "waiting", "picked", "left"}
  /\ cur \in Items \cup {NoItem}
  /\ at \in Working \cup {"picked"} <=> cur # NoItem
  /\ conn \in [ver : 0 .. Versions, next : Nat, lost : BOOLEAN, more : BOOLEAN]
  /\ result \in {"NoErr", "UserCancel", "IOError", "Failed"}

OutsideOK ==
  /\ call = NoCall \/ call \in [op : Calls, item : Items]
  /\ file \in [Items -> Seq((1 .. Versions) \X (Nat \ {0})) \cup {NoFile}]
  /\ db \in [Items -> [state : States, bytes : Nat, total : Nat, mtime : 0 .. Versions]]
  /\ version \in 1 .. Versions /\ disk \in {"ok", "full"}

TypeOK == ItemsOK /\ QueueOK /\ ThreadOK /\ OutsideOK

\* The file holds the beginning of version v.
Prefix(f, v) == \A k \in 1 .. Len(f) : f[k] = <<v, k>>

\* However often a download is paused, cancelled, queued again, interrupted by
\* an exit or a crash, and whatever the server does to its copy meanwhile, a
\* file is the beginning of one version of it: never two spliced together, and
\* without a hole.  It takes a server that dates its copies (otherwise no
\* If-Range line is sent) and a disk that has room (a failed write is counted
\* as received when a pause comes with it).
OnePiece ==
  ServerDates /\ disk = "ok" =>
    \A i \in Items : file[i] # NoFile => \E v \in 1 .. Versions : Prefix(file[i], v)

\* While the program runs, an item is marked as downloading only as long as the
\* thread works on it: no interruption leaves one that neither the thread nor
\* QueueDownload, which ignores such items, would ever touch again.
NoneStranded ==
  \A i \in Items : phase = "running" /\ state[i] = "Downloading" =>
                     cur = i /\ at \in Working

\* If the server can be reached, answers requests with something else than
\* redirections, and sends or ends what it announced, each if tried often enough, a queued item is tried although users queue others again and
\* again: it leaves the state Queued, unless downloads are paused or the
\* program ends.
QueuedIsTried ==
  SF_vars(Connects) /\ SF_vars(Replies) /\ SF_vars(Sends) =>
    \A i \in Items : state[i] = "Queued" /\ phase = "running" ~>
                       state[i] # "Queued" \/ phase # "running" \/ downloadsPaused

\* Cancelling or pausing frees the thread even when the server never answers.
CancelFreesThread ==
  at \in Working /\ state[cur] # "Downloading" ~> at \notin Working

\* The destructor, which waits for the thread, gets through in any case.
ExitEnds == phase = "exiting" ~> phase = "off"

\* What the header says of QueueDownload and CancelDownload: no effect if the
\* item's state is Done.
DoneStays ==
  [][\A i \in Items : state[i] = "Done" /\ phase' # "off" => state'[i] = "Done"]_vars
=============================================================================
