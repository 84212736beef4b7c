--------------------------- MODULE DownloadProofs ---------------------------
(***************************************************************************)
(* Theorems of DownloadManager, for any finite set of items, any number    *)
(* and length of versions: the type invariant, that a file is always the   *)
(* beginning of one version, and that no item is left marked as            *)
(* downloading.                                                            *)
(***************************************************************************)
EXTENDS DownloadManager, FiniteSetTheorems, TLAPS

USE DownloadAssumption

-----------------------------------------------------------------------------
(* Typing                                                                     *)

\* An item that a user interface has been asked about is in the list.
CallListed == call # NoCall => call.item \in Listed

\* A process that is not there has nothing in memory.
FreshWhenOff ==
  phase = "off" =>
    /\ at = "left" /\ call = NoCall /\ downloadIndex = -1
    /\ \A i \in Items : bytes[i] = 0 /\ state[i] = "Null"

\* The file a range is asked for exists, and so does the one that is written.
OpenFile ==
  /\ at = "header" => bytes[cur] = 0 \/ file[cur] # NoFile
  /\ at \in {"first", "body", "test"} => /\ conn.ver \in 1 .. Versions /\ conn.next \in Nat \ {0}
                               /\ file[cur] # NoFile

TypeInv == TypeOK /\ CallListed /\ FreshWhenOff /\ OpenFile


LEMMA ItemsTyped ==
  ASSUME TypeInv, Next
  PROVE  ItemsOK'
<1>. USE DEF TypeInv, TypeOK
<1>1. CASE Pick \/ Sleep \/ Wake \/ Leave \/ AlreadyThere \/ Abandon \/ Test \/ ConnectFails
            \/ Partial \/ Redirected \/ NoData \/ ReceiveEnds \/ Asks \/ PauseDownloads
            \/ ResumeDownloads \/ ServerChanges \/ DiskFills \/ (\E i \in Items : FileVanishes(i))
  <2>1. UNCHANGED <<phase, itemVars>>
    BY <1>1 DEF Pick, Sleep, Wake, Leave, AlreadyThere, Abandon, Test, ConnectFails, Partial, Redirected, NoData, ReceiveEnds, Asks, Ask, PauseDownloads, ResumeDownloads, ServerChanges, DiskFills, FileVanishes, itemVars
  <2>. QED  BY <2>1 DEF ItemsOK, itemVars
<1>2. CASE SetExit \/ StopThread
  BY <1>2 DEF SetExit, StopThread, ItemsOK, itemVars
<1>3. CASE \E i \in Items : AddItem(i)
  BY <1>3 DEF AddItem, ItemsOK, States
<1>4. CASE Apply
  BY <1>4 DEF Apply, Target, ItemsOK, OutsideOK, States
<1>5. CASE SetDownloading \/ Finish
  BY <1>5 DEF SetDownloading, Finish, ItemsOK, ThreadOK, States
<1>6. CASE CleanUpDownload \/ RangeRefused
  <2>1. cur \in Items
    BY <1>6 DEF CleanUpDownload, RangeRefused, ThreadOK, Working
  <2>2. bytes' = [bytes EXCEPT ![cur] = 0] /\ UNCHANGED <<phase, list, state, total, mtime>>
    BY <1>6 DEF CleanUpDownload, RangeRefused
  <2>. QED  BY <2>1, <2>2 DEF ItemsOK
<1>7. CASE Connected
  <2>1. cur \in Items
    BY <1>7 DEF Connected, ThreadOK, Working
  <2>2. [bytes EXCEPT ![cur] = 0] \in [Items -> Nat]
        /\ [mtime EXCEPT ![cur] = 0] \in [Items -> 0 .. Versions]
    BY <2>1 DEF ItemsOK
  <2>3. bytes' \in [Items -> Nat] /\ mtime' \in [Items -> 0 .. Versions]
    BY <1>7, <2>2 DEF Connected, ItemsOK
  <2>. QED  BY <1>7, <2>3 DEF Connected, ItemsOK
<1>8. CASE Whole \/ OpenFails
  <2>1. cur \in Items /\ version \in 0 .. Versions /\ Length[version] \in Nat
    BY <1>8 DEF Whole, OpenFails, ThreadOK, OutsideOK, Working
  <2>2. /\ bytes' = [bytes EXCEPT ![cur] = 0]
        /\ mtime' = [mtime EXCEPT ![cur] = IF ServerDates THEN version ELSE 0]
    BY <1>8 DEF Whole, OpenFails
  <2>3. bytes' \in [Items -> Nat] /\ mtime' \in [Items -> 0 .. Versions]
    BY <2>1, <2>2 DEF ItemsOK
  <2>4. [total EXCEPT ![cur] = Length[version]] \in [Items -> Nat]
    BY <2>1 DEF ItemsOK
  <2>5. total' \in [Items -> Nat]
    BY <1>8, <2>4 DEF Whole, OpenFails, ItemsOK
  <2>. QED  BY <1>8, <2>3, <2>5 DEF Whole, OpenFails, ItemsOK
<1>9. CASE Receive \/ First
  <2>1. cur \in Items /\ bytes[cur] \in Nat
    BY <1>9 DEF Receive, First, ItemsOK, ThreadOK, Working
  <2>2. bytes' = bytes \/ bytes' = [bytes EXCEPT ![cur] = bytes[cur] + 1]
    BY <1>9 DEF Receive, First, TakesBlock
  <2>3. bytes' \in [Items -> Nat]
    BY <2>1, <2>2 DEF ItemsOK
  <2>. QED  BY <1>9, <2>3 DEF Receive, First, ItemsOK
<1>10. CASE Load
  <2>1. IsFiniteSet({i \in Items : db[i].state # "Null"})
    BY FS_Subset
  <2>2. Cardinality({i \in Items : db[i].state # "Null"}) \in Nat
    BY <2>1, FS_CardinalityType
  <2>3. list' \in [1 .. Cardinality({i \in Items : db[i].state # "Null"}) -> Items]
    BY <1>10 DEF Load
  <2>4. list' \in Seq(Items)
    <3>1. \A n \in Nat : \A f \in [1 .. n -> Items] : f \in Seq(Items)
      OBVIOUS
    <3>. QED  BY <2>2, <2>3, <3>1
  <2>5. \A i \in Items : /\ db[i].state \in States /\ db[i].bytes \in Nat
                        /\ db[i].total \in Nat /\ db[i].mtime \in 0 .. Versions
    BY DEF OutsideOK
  <2>. QED  BY <1>10, <2>4, <2>5 DEF Load, ItemsOK
<1>11. CASE SaveItems \/ Crash
  <2>1. Forget  BY <1>11 DEF SaveItems, Crash
  <2>. QED  BY <2>1 DEF Forget, ItemsOK, States
<1>. QED
  BY <1>1, <1>2, <1>3, <1>4, <1>5, <1>6, <1>7, <1>8, <1>9, <1>10, <1>11
     DEF Next, ThreadStep, Connects, Replies, Sends, Exit, User, World

\* A pass over the ring starts inside the list.
LEMMA StartInList ==
  ASSUME TypeInv
  PROVE  /\ Start \in 0 .. Len(list)
         /\ Queued # {} => Start + 1 \in 0 .. Len(list)
         /\ \A k \in Queued : Nth(k) \in Items
<1>1. Len(list) \in Nat /\ downloadIndex \in Int
  BY DEF TypeInv, TypeOK, ItemsOK, QueueOK
<1>2. Start \in 0 .. Len(list) /\ (Len(list) > 0 => Start + 1 \in 0 .. Len(list))
  BY <1>1 DEF Start
<1>3. Queued # {} => Len(list) > 0
  BY <1>1 DEF Queued
<1>4. ASSUME NEW k \in Queued
      PROVE  Nth(k) \in Items
  <2>1. k \in Nat /\ Len(list) \in Nat \ {0} /\ Start + k \in Nat
    BY <1>1, <1>2, <1>4 DEF Queued
  <2>2. (Start + k) % Len(list) \in 0 .. Len(list) - 1
    BY <2>1
  <2>3. ((Start + k) % Len(list)) + 1 \in 1 .. Len(list)
    BY <2>1, <2>2
  <2>. QED  BY <2>3 DEF Nth, TypeInv, TypeOK, ItemsOK
<1>. QED
  BY <1>2, <1>3, <1>4

LEMMA QueueTyped ==
  ASSUME TypeInv, Next
  PROVE  QueueOK'
<1>. USE DEF TypeInv, TypeOK
<1>1. CASE \/ Leave \/ AlreadyThere \/ Abandon \/ Test \/ ConnectFails \/ Partial
           \/ Redirected \/ NoData \/ ReceiveEnds \/ Asks \/ ServerChanges \/ DiskFills
           \/ (\E i \in Items : FileVanishes(i)) \/ SetExit
  <2>1. UNCHANGED <<list, queueVars>>
    BY <1>1 DEF Leave, AlreadyThere, Abandon, Test, ConnectFails, Partial, Redirected,
         NoData, ReceiveEnds, Asks, Ask, ServerChanges, DiskFills, FileVanishes, SetExit,
         itemVars
  <2>. QED  BY <2>1 DEF QueueOK, queueVars
<1>2. CASE Finish \/ CleanUpDownload \/ SetDownloading \/ Connected \/ Whole
           \/ OpenFails \/ RangeRefused \/ First \/ Receive
  BY <1>2 DEF Finish, CleanUpDownload, SetDownloading, Connected, Whole, OpenFails,
       RangeRefused, First, Receive, QueueOK, queueVars
<1>3. CASE Pick \/ Sleep
  BY <1>3, StartInList DEF Pick, Sleep, QueueOK, itemVars
<1>4. CASE Wake
  <2>1. queueSem \in Nat /\ queueSem > 0 => queueSem - 1 \in 0 .. queueSem
    OBVIOUS
  <2>. QED  BY <1>4, <2>1 DEF Wake, QueueOK, itemVars
<1>10. CASE PauseDownloads
  BY <1>10 DEF PauseDownloads, QueueOK, itemVars
<1>9. CASE StopThread \/ ResumeDownloads
  <2>1. Signal => queueSem' \in 0 .. MaxSignals
    BY DEF Signal, QueueOK
  <2>. QED  BY <1>9, <2>1 DEF StopThread, ResumeDownloads, QueueOK, itemVars
<1>5. CASE \E i \in Items : AddItem(i)
  <2>1. Len(list') = Len(list) + 1 /\ Len(list) \in Nat
    BY <1>5 DEF AddItem, ItemsOK
  <2>. QED  BY <1>5, <2>1 DEF AddItem, Signal, QueueOK
<1>6. CASE Apply
  <2>1. \E k \in 1 .. Len(list) : list[k] = call.item
    BY <1>6 DEF Apply, CallListed, Listed
  <2>2. (CHOOSE k \in 1 .. Len(list) : list[k] = call.item) \in 1 .. Len(list)
    BY <2>1
  <2>3. downloadIndex' \in -1 .. Len(list)
    BY <1>6, <2>2 DEF Apply, QueueOK, ItemsOK
  <2>. QED  BY <1>6, <2>3 DEF Apply, Signal, QueueOK
<1>7. CASE Load
  <2>1. list' \in Seq(Items)
    BY ItemsTyped DEF ItemsOK
  <2>2. downloadIndex' = -1 /\ UNCHANGED <<downloadsPaused, queueSem>>
    BY <1>7 DEF Load, FreshWhenOff, queueVars
  <2>. QED  BY <2>1, <2>2 DEF QueueOK
<1>8. CASE SaveItems \/ Crash
  <2>1. Forget  BY <1>8 DEF SaveItems, Crash
  <2>. QED  BY <2>1 DEF Forget, QueueOK
<1>. QED
  BY <1>1, <1>2, <1>3, <1>4, <1>5, <1>6, <1>7, <1>8, <1>9, <1>10
     DEF Next, ThreadStep, Connects, Replies, Sends, Exit, User, World

LEMMA ConnType ==
  ASSUME NEW v \in 0 .. Versions, NEW n \in Nat, NEW l \in BOOLEAN, NEW m \in BOOLEAN
  PROVE  [ver |-> v, next |-> n, lost |-> l, more |-> m]
           \in [ver : 0 .. Versions, next : Nat, lost : BOOLEAN, more : BOOLEAN]
  OBVIOUS

LEMMA ThreadTyped ==
  ASSUME TypeInv, Next
  PROVE  ThreadOK'
<1>. USE DEF TypeInv, TypeOK
<1>1. CASE \/ StopThread \/ SetExit \/ (\E i \in Items : AddItem(i)) \/ Asks \/ Apply
           \/ PauseDownloads \/ ResumeDownloads \/ ServerChanges \/ DiskFills
           \/ (\E i \in Items : FileVanishes(i))
  <2>1. UNCHANGED threadVars
    BY <1>1 DEF StopThread, SetExit, AddItem, Asks, Ask, Apply, PauseDownloads,
         ResumeDownloads, ServerChanges, DiskFills, FileVanishes
  <2>. QED  BY <2>1 DEF ThreadOK, threadVars
<1>2. CASE Pick
  <2>1. cur' \in Items
    BY <1>2, StartInList DEF Pick
  <2>. QED  BY <1>2, <2>1 DEF Pick, ThreadOK, Working
<1>3. CASE Sleep \/ Wake \/ Leave \/ SetDownloading
  BY <1>3 DEF Sleep, Wake, Leave, SetDownloading, ThreadOK, Working
<1>4. CASE \/ AlreadyThere \/ ConnectFails \/ NoData \/ OpenFails \/ Connected
           \/ RangeRefused \/ Redirected
  BY <1>4 DEF AlreadyThere, ConnectFails, NoData, OpenFails, Connected, RangeRefused, Redirected,
       Returns, Goes, ThreadOK, Working
<1>5. CASE Abandon
  BY <1>5 DEF Abandon, Interrupted, Returns, ThreadOK, Working
<1>6. CASE Whole \/ Partial
  <2>1. bytes[cur] \in Nat /\ version \in 0 .. Versions
    BY <1>6 DEF Whole, Partial, ThreadOK, ItemsOK, OutsideOK, Working
  <2>2. conn' \in [ver : 0 .. Versions, next : Nat, lost : BOOLEAN, more : BOOLEAN]
    <3>1. \A n \in Nat : Receiving(n) \in [ver : 0 .. Versions, next : Nat,
                                            lost : BOOLEAN, more : BOOLEAN]
      BY <2>1, ConnType DEF Receiving
    <3>2. 1 \in Nat /\ bytes[cur] + 1 \in Nat
      BY <2>1
    <3>3. conn' = Receiving(1) \/ conn' = Receiving(bytes[cur] + 1)
      BY <1>6 DEF Whole, Partial
    <3>. QED  BY <3>1, <3>2, <3>3
  <2>. QED  BY <1>6, <2>2 DEF Whole, Partial, Goes, ThreadOK, Working
<1>7. CASE First \/ Receive \/ ReceiveEnds
  <2>1. conn' \in [ver : 0 .. Versions, next : Nat, lost : BOOLEAN, more : BOOLEAN]
    <3>1. /\ conn.ver \in 0 .. Versions /\ conn.next \in Nat /\ conn.next + 1 \in Nat
          /\ conn.lost \in BOOLEAN /\ (disk # "ok") \in BOOLEAN
      BY DEF ThreadOK
    <3>2. CASE First \/ Receive
      <4>1. \/ conn' = [ver |-> conn.ver, next |-> conn.next + 1, lost |-> disk # "ok",
                        more |-> TRUE]
            \/ conn' = conn
        BY <3>2 DEF First, Receive, TakesBlock
      <4>2. conn \in [ver : 0 .. Versions, next : Nat, lost : BOOLEAN, more : BOOLEAN]
        BY DEF ThreadOK
      <4>3. CASE conn' = conn
        BY <4>2, <4>3
      <4>4. CASE conn' = [ver |-> conn.ver, next |-> conn.next + 1, lost |-> disk # "ok",
                          more |-> TRUE]
        <5>1. TRUE \in BOOLEAN
          OBVIOUS
        <5>. QED  BY <3>1, <4>4, <5>1, ConnType
      <4>. QED  BY <4>1, <4>3, <4>4
    <3>3. CASE ReceiveEnds
      <4>1. conn' = [ver |-> conn.ver, next |-> conn.next, lost |-> conn.lost,
                     more |-> FALSE]
        BY <3>3 DEF ReceiveEnds
      <4>. QED  BY <3>1, <4>1, ConnType
    <3>. QED  BY <1>7, <3>2, <3>3
  <2>. QED  BY <1>7, <2>1 DEF First, Receive, ReceiveEnds, Goes, ThreadOK, Working
<1>8. CASE Test
  BY <1>8 DEF Test, Returns, Goes, ThreadOK, Working
<1>9. CASE Finish \/ CleanUpDownload
  <2>1. NoConn \in [ver : 0 .. Versions, next : Nat, lost : BOOLEAN, more : BOOLEAN]
    BY DEF NoConn
  <2>. QED  BY <1>9, <2>1 DEF Finish, CleanUpDownload, Ends, Goes, ThreadOK, Working
<1>10. CASE Load
  BY <1>10 DEF Load, FreshWhenOff, ThreadOK, Working
<1>11. CASE SaveItems \/ Crash
  <2>1. Forget  BY <1>11 DEF SaveItems, Crash
  <2>. QED  BY <2>1 DEF Forget, NoConn, ThreadOK, Working
<1>. QED
  BY <1>1, <1>2, <1>3, <1>4, <1>5, <1>6, <1>7, <1>8, <1>9, <1>10, <1>11
     DEF Next, ThreadStep, Connects, Replies, Sends, Exit, User, World

LEMMA OutsideTyped ==
  ASSUME TypeInv, Next
  PROVE  OutsideOK'
<1>. USE DEF TypeInv, TypeOK
<1>1. CASE \/ Pick \/ Sleep \/ Wake \/ Leave \/ SetDownloading \/ AlreadyThere \/ Abandon
           \/ Test \/ Finish \/ ConnectFails \/ Connected \/ Partial \/ RangeRefused
           \/ Redirected \/ NoData \/ OpenFails \/ ReceiveEnds \/ StopThread \/ SetExit
           \/ (\E i \in Items : AddItem(i)) \/ PauseDownloads \/ ResumeDownloads
  <2>1. UNCHANGED <<call, outside>>
    BY <1>1 DEF Pick, Sleep, Wake, Leave, SetDownloading, AlreadyThere, Abandon, Test,
         Finish, ConnectFails, Connected, Partial, RangeRefused, Redirected, NoData,
         OpenFails, ReceiveEnds, StopThread, SetExit, AddItem, PauseDownloads, ResumeDownloads
  <2>. QED  BY <2>1 DEF OutsideOK, outside
<1>2. CASE Whole \/ CleanUpDownload \/ (\E i \in Items : FileVanishes(i))
  <2>1. UNCHANGED <<call, db, version, disk>>
    BY <1>2 DEF Whole, CleanUpDownload, FileVanishes
  <2>2. <<>> \in Seq((1 .. Versions) \X (Nat \ {0}))
    OBVIOUS
  <2>3. file' \in [Items -> Seq((1 .. Versions) \X (Nat \ {0})) \cup {NoFile}]
    BY <1>2, <2>2 DEF Whole, CleanUpDownload, FileVanishes, OutsideOK
  <2>. QED  BY <2>1, <2>3 DEF OutsideOK
<1>3. CASE Asks
  <2>1. call' \in [op : Calls, item : Items]
    BY <1>3 DEF Asks, Ask
  <2>. QED  BY <1>3, <2>1 DEF Asks, Ask, OutsideOK, outside
<1>4. CASE Apply \/ ServerChanges \/ DiskFills
  BY <1>4 DEF Apply, ServerChanges, DiskFills, OutsideOK, outside
<1>6. CASE Load
  <2>1. db' \in [Items -> [state : States, bytes : Nat, total : Nat, mtime : 0 .. Versions]]
    BY <1>6 DEF Load, NotSaved, States
  <2>. QED  BY <1>6, <2>1 DEF Load, OutsideOK
<1>7. CASE SaveItems
  <2>1. ASSUME NEW i \in Items
        PROVE  [state |-> SavedState(state[i]), bytes |-> bytes[i], total |-> total[i],
                mtime |-> mtime[i]]
                 \in [state : States, bytes : Nat, total : Nat, mtime : 0 .. Versions]
    BY DEF SavedState, States, ItemsOK
  <2>2. NotSaved \in [state : States, bytes : Nat, total : Nat, mtime : 0 .. Versions]
    BY DEF NotSaved, States
  <2>3. db' \in [Items -> [state : States, bytes : Nat, total : Nat, mtime : 0 .. Versions]]
    BY <1>7, <2>1, <2>2 DEF SaveItems
  <2>4. file' \in [Items -> Seq((1 .. Versions) \X (Nat \ {0})) \cup {NoFile}]
    BY <1>7 DEF SaveItems, OutsideOK
  <2>. QED  BY <1>7, <2>3, <2>4 DEF SaveItems, Forget, OutsideOK
<1>8. CASE Crash
  BY <1>8 DEF Crash, Forget, OutsideOK, outside
<1>5. CASE First \/ Receive
  <2>1. /\ cur \in Items /\ file[cur] \in Seq((1 .. Versions) \X (Nat \ {0}))
        /\ <<conn.ver, conn.next>> \in (1 .. Versions) \X (Nat \ {0})
    BY <1>5 DEF First, Receive, ThreadOK, OutsideOK, OpenFile, Working
  <2>2. Append(file[cur], <<conn.ver, conn.next>>) \in Seq((1 .. Versions) \X (Nat \ {0}))
    BY <2>1
  <2>3. \/ file' = file
        \/ file' = [file EXCEPT ![cur] = Append(file[cur], <<conn.ver, conn.next>>)]
    BY <1>5 DEF First, Receive, TakesBlock
  <2>4. file' \in [Items -> Seq((1 .. Versions) \X (Nat \ {0})) \cup {NoFile}]
    BY <2>1, <2>2, <2>3 DEF OutsideOK
  <2>. QED  BY <1>5, <2>4 DEF First, Receive, OutsideOK
<1>. QED
  BY <1>1, <1>2, <1>3, <1>4, <1>5, <1>6, <1>7, <1>8
     DEF Next, ThreadStep, Connects, Replies, Sends, Exit, User, World

LEMMA CallStaysListed ==
  ASSUME TypeInv, Next
  PROVE  CallListed'
<1>. USE DEF TypeInv, TypeOK, CallListed, Listed
<1>1. CASE Apply \/ Asks
  BY <1>1 DEF Apply, Asks, Ask, itemVars
<1>2. CASE \E i \in Items : AddItem(i)
  BY <1>2 DEF AddItem
<1>3. CASE SaveItems \/ Crash
  BY <1>3 DEF SaveItems, Crash, Forget
<1>4. CASE Load
  BY <1>4 DEF Load, FreshWhenOff
<1>5. CASE ~(Apply \/ Asks \/ (\E i \in Items : AddItem(i)) \/ SaveItems \/ Crash \/ Load)
  <2>1. UNCHANGED <<list, call>>
    BY <1>5 DEF Next, ThreadStep, Connects, Replies, Sends, Exit, User, World, Pick, Sleep,
         Wake, Leave, SetDownloading, AlreadyThere, Abandon, Test, Finish, CleanUpDownload,
         ConnectFails, Connected, Whole, Partial, RangeRefused, Redirected, NoData,
         OpenFails, First, Receive, ReceiveEnds, StopThread, SetExit, PauseDownloads, ResumeDownloads, ServerChanges,
         DiskFills, FileVanishes, itemVars
  <2>. QED  BY <2>1
<1>. QED
  BY <1>1, <1>2, <1>3, <1>4, <1>5

LEMMA FreshStays ==
  ASSUME TypeInv, Next
  PROVE  FreshWhenOff'
<1>. USE DEF TypeInv, FreshWhenOff
<1>1. CASE SaveItems \/ Crash
  <2>1. Forget  BY <1>1 DEF SaveItems, Crash
  <2>. QED  BY <2>1 DEF Forget
<1>2. CASE ServerChanges \/ DiskFills \/ (\E i \in Items : FileVanishes(i))
  BY <1>2 DEF ServerChanges, DiskFills, FileVanishes, itemVars, queueVars, threadVars
<1>3. CASE ~(SaveItems \/ Crash \/ ServerChanges \/ DiskFills
              \/ (\E i \in Items : FileVanishes(i)))
  <2>1. ThreadStep \/ Connects \/ Replies \/ Sends \/ Redirected => at # "left" /\ phase' = phase
    BY DEF ThreadStep, Connects, Replies, Sends, Pick, Looks, Sleep, Wake, Leave,
         SetDownloading, AlreadyThere, Abandon, Test, Finish, CleanUpDownload, ConnectFails,
         Connected, Whole, Partial, RangeRefused, Redirected, NoData,
         OpenFails, First, Receive, ReceiveEnds
  <2>2. Apply => call # NoCall /\ phase' = phase
    BY DEF Apply
  <2>3. User \/ StopThread => phase' # "off"
    BY DEF User, StopThread, SetExit, PauseDownloads, ResumeDownloads, AddItem, Asks, Ask, Load
  <2>. QED  BY <1>3, <2>1, <2>2, <2>3 DEF Next, Exit, World
<1>. QED
  BY <1>1, <1>2, <1>3

LEMMA FileStaysOpen ==
  ASSUME TypeInv, Next
  PROVE  OpenFile'
<1>. USE DEF TypeInv, OpenFile
<1>1. CASE ~(at' \in {"header", "first", "body", "test"})
  BY <1>1
<1>2. CASE Connected
  BY <1>2 DEF Connected, Goes, TypeOK, ThreadOK, ItemsOK, Working, outside
<1>3. CASE Whole
  <2>1. cur \in Items /\ conn' = Receiving(1) /\ cur' = cur /\ at' = "first"
    BY <1>3 DEF Whole, Goes, TypeOK, ThreadOK, Working
  <2>2. conn'.ver \in 1 .. Versions /\ conn'.next \in Nat \ {0}
    BY <2>1 DEF Receiving, TypeOK, OutsideOK
  <2>3. file'[cur] = <<>> /\ <<>> \in Seq((1 .. Versions) \X (Nat \ {0}))
    BY <1>3, <2>1 DEF Whole, TypeOK, OutsideOK
  <2>. QED  BY <2>1, <2>2, <2>3
<1>4. CASE Partial
  <2>1. cur \in Items /\ conn' = Receiving(bytes[cur] + 1) /\ cur' = cur /\ at' = "first"
    BY <1>4 DEF Partial, Goes, TypeOK, ThreadOK, Working
  <2>2. conn'.ver \in 1 .. Versions /\ conn'.next \in Nat \ {0}
    BY <2>1 DEF Receiving, TypeOK, OutsideOK, ItemsOK
  <2>. QED  BY <1>4, <2>1, <2>2 DEF Partial, AskedRange, TypeOK, ItemsOK, outside
<1>5. CASE First \/ Receive
  <2>1. /\ cur \in Items /\ cur' = cur /\ at \in {"first", "body"}
        /\ file[cur] \in Seq((1 .. Versions) \X (Nat \ {0}))
        /\ <<conn.ver, conn.next>> \in (1 .. Versions) \X (Nat \ {0})
    BY <1>5 DEF First, Receive, TypeOK, ThreadOK, OutsideOK, Working
  <2>2. Append(file[cur], <<conn.ver, conn.next>>) \in Seq((1 .. Versions) \X (Nat \ {0}))
    BY <2>1
  <2>3. TakesBlock \/ UNCHANGED <<bytes, file, conn>>
    BY <1>5 DEF First, Receive
  <2>4. file'[cur] # NoFile
    <3>1. \/ file' = file
          \/ file' = [file EXCEPT ![cur] = Append(file[cur], <<conn.ver, conn.next>>)]
      BY <2>3 DEF TakesBlock
    <3>2. CASE file' = file
      BY <1>5, <2>1, <3>2 DEF First, Receive
    <3>3. CASE file' = [file EXCEPT ![cur] = Append(file[cur], <<conn.ver, conn.next>>)]
      BY <2>1, <2>2, <3>3 DEF TypeOK, OutsideOK
    <3>. QED  BY <3>1, <3>2, <3>3
  <2>5. conn' = conn \/ (conn'.ver = conn.ver /\ conn'.next = conn.next + 1)
    BY <2>3 DEF TakesBlock
  <2>6. at' \in {"body", "test"} /\ conn.ver \in 1 .. Versions /\ conn.next \in Nat \ {0}
    BY <1>5, <2>1 DEF First, Receive, Goes
  <2>. QED  BY <2>1, <2>4, <2>5, <2>6
<1>6. CASE ReceiveEnds
  BY <1>6 DEF ReceiveEnds, outside
<1>7. CASE Test
  BY <1>7 DEF Test, Goes, Returns, outside
<1>8. CASE \/ StopThread \/ SetExit \/ (\E i \in Items : AddItem(i)) \/ Asks \/ Apply
           \/ PauseDownloads \/ ResumeDownloads \/ ServerChanges \/ DiskFills
  <2>1. UNCHANGED <<bytes, at, cur, conn, file>>
    BY <1>8 DEF StopThread, SetExit, AddItem, Asks, Ask, Apply, PauseDownloads,
         ResumeDownloads, ServerChanges, DiskFills, itemVars, threadVars, outside
  <2>. QED  BY <2>1
<1>9. CASE \E i \in Items : FileVanishes(i)
  <2>1. PICK i \in Items : FileVanishes(i)
    BY <1>9
  <2>2. UNCHANGED <<bytes, at, cur, conn>>
    BY <2>1 DEF FileVanishes, itemVars, threadVars
  <2>3. file' = [file EXCEPT ![i] = NoFile] /\ ~(cur = i /\ at \in Working)
    BY <2>1 DEF FileVanishes
  <2>. QED  BY <2>2, <2>3 DEF Working
<1>10. CASE ~(\/ Connected \/ Whole \/ Partial \/ First \/ Receive \/ ReceiveEnds
              \/ Test \/ StopThread \/ SetExit \/ (\E i \in Items : AddItem(i)) \/ Asks \/ Apply
              \/ PauseDownloads \/ ResumeDownloads \/ ServerChanges \/ DiskFills
              \/ (\E i \in Items : FileVanishes(i)))
  <2>1. at' \notin {"header", "first", "body", "test"}
    BY <1>10 DEF Next, ThreadStep, Connects, Replies, Sends, Exit, User, World, Pick, Sleep,
         Wake, Leave, SetDownloading, AlreadyThere, Abandon, Finish, CleanUpDownload,
         ConnectFails, RangeRefused, Redirected, NoData, OpenFails, Load, SaveItems, Crash, Forget,
         Returns, Goes, Ends
  <2>. QED  BY <2>1
<1>. QED
  BY <1>2, <1>3, <1>4, <1>5, <1>6, <1>7, <1>8, <1>9, <1>10

LEMMA TypeInvHolds == Spec => []TypeInv
<1>1. Init => TypeInv
  <2>1. ASSUME Init  PROVE  TypeOK
    BY <2>1 DEF Init, TypeOK, ItemsOK, QueueOK, ThreadOK, OutsideOK, States, Working,
         NoConn, NotSaved
  <2>. QED  BY <2>1 DEF TypeInv, Init, CallListed, FreshWhenOff, OpenFile
<1>2. TypeInv /\ [Next]_vars => TypeInv'
  <2>1. ASSUME TypeInv, Next  PROVE  TypeInv'
    BY <2>1, ItemsTyped, QueueTyped, ThreadTyped, OutsideTyped, CallStaysListed, FreshStays,
       FileStaysOpen DEF TypeInv, TypeOK
  <2>2. ASSUME TypeInv, UNCHANGED vars  PROVE  TypeInv'
    BY <2>2 DEF TypeInv, TypeOK, ItemsOK, QueueOK, ThreadOK, OutsideOK, CallListed, Listed,
         FreshWhenOff, OpenFile, vars, itemVars, queueVars, threadVars, outside
  <2>. QED  BY <2>1, <2>2
<1>. QED
  BY <1>1, <1>2, PTL DEF Spec

\* The variables of the download manager have their types in every reachable state.
THEOREM DownloadTypes == Spec => []TypeOK
  BY TypeInvHolds, PTL DEF TypeInv

-----------------------------------------------------------------------------
(* One piece                                                                  *)

\* An item that counts n bytes and remembers date m has them in its file f, if
\* the file is there.
Remembers(n, m, f) ==
  n > 0 /\ f # NoFile => m \in 1 .. Versions /\ Len(f) = n /\ Prefix(f, m)

\* What the server sends next continues the file.
Continues ==
  at \in {"first", "body", "test"} =>
    /\ conn.ver = mtime[cur] /\ conn.next = bytes[cur] + 1
    /\ Len(file[cur]) = bytes[cur] /\ Prefix(file[cur], mtime[cur])

DbEmpty == phase # "off" => \A i \in Items : db[i].bytes = 0

PieceInv ==
  disk = "ok" =>
    /\ Continues
    /\ \A i \in Items : /\ Remembers(bytes[i], mtime[i], file[i])
                        /\ Remembers(db[i].bytes, db[i].mtime, file[i])
                        /\ file[i] # NoFile => \E v \in 1 .. Versions : Prefix(file[i], v)

LEMMA EmptyIsPrefix == \A v : Prefix(<<>>, v)
  BY DEF Prefix

LEMMA PrefixGrows ==
  ASSUME NEW f \in Seq((1 .. Versions) \X (Nat \ {0})), NEW v \in 1 .. Versions, Prefix(f, v)
  PROVE  Prefix(Append(f, <<v, Len(f) + 1>>), v)
<1>1. Len(Append(f, <<v, Len(f) + 1>>)) = Len(f) + 1 /\ Len(f) \in Nat
  OBVIOUS
<1>2. \A k \in 1 .. Len(f) + 1 :
        Append(f, <<v, Len(f) + 1>>)[k] = IF k = Len(f) + 1 THEN <<v, Len(f) + 1>> ELSE f[k]
  OBVIOUS
<1>3. ASSUME NEW k \in 1 .. Len(f) + 1
      PROVE  Append(f, <<v, Len(f) + 1>>)[k] = <<v, k>>
  <2>1. CASE k = Len(f) + 1
    BY <1>2, <2>1
  <2>2. CASE k # Len(f) + 1
    <3>1. k \in 1 .. Len(f)
      BY <1>1, <2>2
    <3>. QED  BY <1>2, <2>2, <3>1 DEF Prefix
  <2>. QED  BY <2>1, <2>2
<1>. QED
  BY <1>1, <1>3 DEF Prefix

LEMMA DbStaysEmpty ==
  ASSUME TypeInv, DbEmpty, Next
  PROVE  DbEmpty'
<1>. USE DEF DbEmpty
<1>1. CASE Load
  BY <1>1 DEF Load, NotSaved
<1>2. CASE SaveItems \/ Crash
  BY <1>2 DEF SaveItems, Crash, Forget
<1>3. CASE ~(Load \/ SaveItems \/ Crash)
  <2>1. ThreadStep \/ Connects \/ Replies \/ Sends \/ Redirected => phase' = phase /\ db' = db
    BY DEF ThreadStep, Connects, Replies, Sends, Pick, Looks, Sleep, Wake, Leave,
         SetDownloading, AlreadyThere, Abandon, Test, Finish, CleanUpDownload, ConnectFails,
         Connected, Whole, Partial, RangeRefused, Redirected, NoData,
         OpenFails, First, Receive, ReceiveEnds,
         outside
  <2>2. Apply => db' = db /\ phase' = phase
    BY DEF Apply, outside
  <2>3. (\E i \in Items : AddItem(i)) \/ Asks \/ PauseDownloads \/ ResumeDownloads \/ SetExit
        \/ StopThread => db' = db /\ phase # "off"
    BY DEF StopThread, SetExit, PauseDownloads, ResumeDownloads, AddItem, Asks, Ask, outside
  <2>4. ServerChanges \/ DiskFills \/ (\E i \in Items : FileVanishes(i)) => db' = db /\ phase' = phase
    BY DEF ServerChanges, DiskFills, FileVanishes
  <2>. QED  BY <1>3, <2>1, <2>2, <2>3, <2>4 DEF Next, Exit, User, World
<1>. QED
  BY <1>1, <1>2, <1>3

LEMMA PieceStays ==
  ASSUME ServerDates, TypeInv, DbEmpty, PieceInv, Next
  PROVE  PieceInv'
<1>1. SUFFICES ASSUME disk' = "ok"
               PROVE  PieceInv'
  BY DEF PieceInv
<1>2. disk = "ok"
  <2>1. DiskFills \/ UNCHANGED disk
    BY DEF Next, ThreadStep, Connects, Replies, Sends, Exit, User, World, Pick, Sleep, Wake,
         Leave, SetDownloading, AlreadyThere, Abandon, Test, Finish, CleanUpDownload,
         ConnectFails, Connected, Whole, Partial, RangeRefused, Redirected, NoData,
         OpenFails, First, Receive, ReceiveEnds, StopThread, SetExit, PauseDownloads, ResumeDownloads, AddItem, Asks,
         Ask, Apply, Load, SaveItems, Crash, ServerChanges, FileVanishes, outside
  <2>. QED  BY <1>1, <2>1 DEF DiskFills
<1>3. /\ Continues
      /\ \A i \in Items : /\ Remembers(bytes[i], mtime[i], file[i])
                          /\ Remembers(db[i].bytes, db[i].mtime, file[i])
                          /\ file[i] # NoFile => \E v \in 1 .. Versions : Prefix(file[i], v)
  BY <1>2 DEF PieceInv
<1>. USE DEF TypeInv, TypeOK
\* Steps that touch neither files nor what is remembered of them.
<1>4. CASE \/ Pick \/ Sleep \/ Wake \/ Leave \/ SetDownloading \/ AlreadyThere \/ Abandon
           \/ Test \/ Finish \/ ConnectFails \/ Redirected \/ NoData \/ ReceiveEnds
           \/ StopThread \/ SetExit \/ (\E i \in Items : AddItem(i)) \/ Asks \/ Apply
           \/ PauseDownloads \/ ResumeDownloads \/ ServerChanges \/ DiskFills
  <2>1. UNCHANGED <<bytes, mtime, file, db>>
    BY <1>4 DEF Pick, Sleep, Wake, Leave, SetDownloading, AlreadyThere, Abandon, Test, Finish,
         ConnectFails, Redirected, NoData, ReceiveEnds, StopThread, SetExit, AddItem, Asks,
         Ask, Apply, PauseDownloads, ResumeDownloads, ServerChanges, DiskFills, itemVars, outside
  <2>2. at' \in {"first", "body", "test"} =>
          /\ at \in {"first", "body", "test"} /\ cur' = cur
          /\ conn'.ver = conn.ver /\ conn'.next = conn.next
    BY <1>4 DEF Pick, Sleep, Wake, Leave, SetDownloading, AlreadyThere, Abandon, Test, Finish,
         ConnectFails, Redirected, NoData, ReceiveEnds, StopThread, SetExit, AddItem, Asks,
         Ask, Apply, PauseDownloads, ResumeDownloads, ServerChanges, DiskFills, threadVars,
         Returns, Goes, Ends
  <2>. QED  BY <1>3, <2>1, <2>2 DEF PieceInv, Continues
<1>5. CASE Connected \/ RangeRefused \/ OpenFails
  <2>1. /\ cur \in Items /\ at' \notin {"first", "body", "test"} /\ UNCHANGED <<file, db>>
        /\ \A i \in Items : \/ bytes'[i] = bytes[i] /\ mtime'[i] = mtime[i]
                            \/ bytes'[i] = 0
    BY <1>5 DEF Connected, RangeRefused, OpenFails, Goes, Returns, ItemsOK, ThreadOK, Working, outside
  <2>. QED  BY <1>3, <2>1 DEF PieceInv, Continues, Remembers
<1>6. CASE Whole
  <2>1. /\ cur \in Items /\ cur' = cur /\ db' = db /\ conn' = Receiving(1)
        /\ bytes' = [bytes EXCEPT ![cur] = 0] /\ file' = [file EXCEPT ![cur] = <<>>]
        /\ mtime' = [mtime EXCEPT ![cur] = version] /\ phase # "off"
    BY <1>6 DEF Whole, ThreadOK, Working, Wanted
  <2>2. /\ bytes'[cur] = 0 /\ file'[cur] = <<>> /\ mtime'[cur] = version
        /\ version \in 1 .. Versions /\ db[cur].bytes = 0
        /\ \A i \in Items : i # cur => /\ bytes'[i] = bytes[i] /\ file'[i] = file[i]
                                     /\ mtime'[i] = mtime[i]
    BY <2>1 DEF ItemsOK, OutsideOK, DbEmpty
  <2>3. conn'.ver = version /\ conn'.next = 1
    BY <2>1 DEF Receiving
  <2>4. Continues'
    BY <2>1, <2>2, <2>3, EmptyIsPrefix DEF Continues
  <2>. QED  BY <1>3, <2>1, <2>2, <2>4, EmptyIsPrefix DEF PieceInv, Remembers
<1>7. CASE Partial
  <2>1. /\ cur \in Items /\ cur' = cur /\ UNCHANGED <<bytes, mtime, file, db>>
        /\ conn' = Receiving(bytes[cur] + 1) /\ bytes[cur] > 0 /\ mtime[cur] \in {0, version}
        /\ file[cur] # NoFile
    BY <1>7 DEF Partial, AskedRange, RangeHolds, ThreadOK, ItemsOK, Working, OpenFile,
         itemVars, outside
  <2>2. mtime[cur] = version /\ Len(file[cur]) = bytes[cur] /\ Prefix(file[cur], mtime[cur])
    BY <1>3, <2>1 DEF Remembers
  <2>3. conn'.ver = version /\ conn'.next = bytes[cur] + 1
    BY <2>1 DEF Receiving
  <2>. QED  BY <1>3, <2>1, <2>2, <2>3 DEF PieceInv, Continues
<1>13. CASE First /\ UNCHANGED <<bytes, file, conn>>
  <2>1. UNCHANGED <<bytes, mtime, file, db, cur, conn>> /\ at = "first"
    BY <1>13 DEF First
  <2>. QED  BY <1>3, <2>1 DEF PieceInv, Continues
<1>8. CASE Receive \/ (First /\ TakesBlock)
  <2>1. /\ cur \in Items /\ cur' = cur /\ db' = db /\ mtime' = mtime
        /\ bytes' = [bytes EXCEPT ![cur] = bytes[cur] + 1]
        /\ file' = [file EXCEPT ![cur] = Append(file[cur], <<conn.ver, conn.next>>)]
        /\ phase # "off" /\ at \in {"first", "body"}
    BY <1>2, <1>8 DEF Receive, First, TakesBlock, FreshWhenOff, ThreadOK, Working
  <2>2. /\ conn.ver = mtime[cur] /\ conn.ver \in 1 .. Versions /\ conn.next = bytes[cur] + 1
        /\ Len(file[cur]) = bytes[cur] /\ Prefix(file[cur], conn.ver) /\ bytes[cur] \in Nat
        /\ file[cur] \in Seq((1 .. Versions) \X (Nat \ {0}))
    BY <1>3, <2>1 DEF Continues, OpenFile, OutsideOK, ItemsOK
  <2>3. /\ bytes'[cur] = bytes[cur] + 1 /\ db[cur].bytes = 0
        /\ file'[cur] = Append(file[cur], <<mtime[cur], Len(file[cur]) + 1>>)
        /\ \A i \in Items : i # cur => bytes'[i] = bytes[i] /\ file'[i] = file[i]
    BY <2>1, <2>2 DEF ItemsOK, OutsideOK, DbEmpty
  <2>4. Len(file'[cur]) = bytes'[cur] /\ Prefix(file'[cur], mtime[cur])
    <3>1. mtime[cur] \in 1 .. Versions /\ Prefix(file[cur], mtime[cur])
      BY <2>2
    <3>2. Prefix(file'[cur], mtime[cur])
      BY <2>2, <2>3, <3>1, PrefixGrows
    <3>3. Len(Append(file[cur], <<mtime[cur], Len(file[cur]) + 1>>)) = Len(file[cur]) + 1
      BY <2>2
    <3>. QED  BY <2>2, <2>3, <3>2, <3>3
  <2>5. conn'.ver = conn.ver /\ conn'.next = conn.next + 1
    BY <1>8 DEF Receive, TakesBlock
  <2>6. Continues'
    BY <2>1, <2>2, <2>3, <2>4, <2>5 DEF Continues
  <2>7. ASSUME NEW i \in Items
        PROVE  /\ Remembers(bytes'[i], mtime'[i], file'[i])
               /\ Remembers(db'[i].bytes, db'[i].mtime, file'[i])
               /\ file'[i] # NoFile => \E v \in 1 .. Versions : Prefix(file'[i], v)
    <3>1. CASE i = cur
      <4>1. mtime'[i] \in 1 .. Versions /\ Len(file'[i]) = bytes'[i] /\ Prefix(file'[i], mtime'[i])
        BY <2>1, <2>2, <2>4, <3>1
      <4>2. db'[i].bytes = 0
        BY <2>1, <2>3, <3>1
      <4>. QED  BY <4>1, <4>2 DEF Remembers
    <3>2. CASE i # cur
      <4>1. /\ bytes'[i] = bytes[i] /\ file'[i] = file[i] /\ mtime'[i] = mtime[i]
            /\ db'[i] = db[i]
        BY <2>1, <2>3, <3>2
      <4>. QED  BY <1>3, <4>1
    <3>. QED  BY <3>1, <3>2
  <2>. QED  BY <2>6, <2>7 DEF PieceInv
<1>9. CASE CleanUpDownload \/ (\E i \in Items : FileVanishes(i))
  <2>1. /\ db' = db /\ mtime' = mtime
        /\ \A i \in Items : \/ file'[i] = NoFile
                            \/ file'[i] = file[i] /\ bytes'[i] = bytes[i]
    BY <1>9 DEF CleanUpDownload, FileVanishes, itemVars, ItemsOK, OutsideOK, ThreadOK, Working
  <2>2. Continues'
    <3>1. CASE CleanUpDownload
      BY <3>1 DEF CleanUpDownload, Ends, Continues
    <3>2. CASE \E i \in Items : FileVanishes(i)
      <4>1. PICK i \in Items : FileVanishes(i)  BY <3>2
      <4>2. /\ UNCHANGED <<at, cur, conn, bytes, mtime>>
            /\ file' = [file EXCEPT ![i] = NoFile] /\ ~(cur = i /\ at \in Working)
        BY <4>1 DEF FileVanishes, itemVars, threadVars
      <4>3. at \in {"first", "body", "test"} => cur # i /\ cur \in Items /\ file'[cur] = file[cur]
        BY <4>2 DEF Working, ThreadOK, OutsideOK
      <4>. QED  BY <1>3, <4>2, <4>3 DEF Continues
    <3>. QED  BY <1>9, <3>1, <3>2
  <2>. QED  BY <1>3, <2>1, <2>2 DEF PieceInv, Remembers
<1>10. CASE Load
  <2>1. /\ UNCHANGED file /\ at' = "top"
        /\ \A i \in Items : /\ bytes'[i] = db[i].bytes /\ mtime'[i] = db[i].mtime
                            /\ db'[i].bytes = 0
    BY <1>10 DEF Load, NotSaved
  <2>. QED  BY <1>3, <2>1 DEF PieceInv, Continues, Remembers
<1>11. CASE SaveItems
  <2>1. /\ at' = "left"
        /\ \A i \in Items : /\ bytes'[i] = 0 /\ file'[i] \in {file[i], NoFile}
                            /\ \/ db'[i].bytes = bytes[i] /\ db'[i].mtime = mtime[i]
                               \/ db'[i].bytes = 0
    BY <1>11 DEF SaveItems, Forget, NotSaved
  <2>. QED  BY <1>3, <2>1 DEF PieceInv, Continues, Remembers
<1>12. CASE Crash
  <2>1. at' = "left" /\ UNCHANGED <<file, db>> /\ \A i \in Items : bytes'[i] = 0
    BY <1>12 DEF Crash, Forget, outside
  <2>. QED  BY <1>3, <2>1 DEF PieceInv, Continues, Remembers
<1>. QED
  BY <1>4, <1>5, <1>6, <1>7, <1>8, <1>9, <1>10, <1>11, <1>12, <1>13
     DEF First, Next, ThreadStep, Connects, Replies, Sends, Exit, User, World

\* Whatever is paused, cancelled, interrupted or crashes, and however the server
\* changes its copy, a file is never spliced from two versions of it.
THEOREM DownloadsInOnePiece == Spec => []OnePiece
<1>1. Init => DbEmpty /\ PieceInv
  BY DEF Init, DbEmpty, PieceInv, Continues, Remembers, NotSaved
<1>2. CASE ServerDates
  <2>1. TypeInv /\ DbEmpty /\ PieceInv /\ [Next]_vars => (DbEmpty /\ PieceInv)'
    <3>1. ASSUME UNCHANGED vars, DbEmpty, PieceInv  PROVE  (DbEmpty /\ PieceInv)'
      BY <3>1 DEF DbEmpty, PieceInv, Continues, vars, itemVars, queueVars, threadVars, outside
    <3>. QED  BY <1>2, <3>1, DbStaysEmpty, PieceStays
  <2>2. PieceInv => OnePiece
    BY DEF PieceInv, OnePiece
  <2>. QED  BY <1>1, <2>1, <2>2, TypeInvHolds, PTL DEF Spec
<1>3. CASE ~ServerDates
  <2>1. OnePiece
    BY <1>3 DEF OnePiece
  <2>. QED  BY <2>1, PTL
<1>. QED
  BY <1>2, <1>3

-----------------------------------------------------------------------------
(* None is stranded                                                           *)

\* Download says that a user cancelled only if the state says so, unless the
\* program is about to end.
StrandInv ==
  phase = "running" =>
    /\ \A i \in Items : state[i] = "Downloading" => cur = i /\ at \in Working
    /\ at = "over" /\ result = "UserCancel" => state[cur] # "Downloading"
    /\ at = "test" => result # "UserCancel"
    /\ at = "cleaning" => state[cur] # "Downloading"

NoneSaved == \A i \in Items : db[i].state # "Downloading"

LEMMA NoneSavedStays ==
  ASSUME TypeInv, NoneSaved, Next
  PROVE  NoneSaved'
<1>1. CASE Load
  BY <1>1 DEF Load, NotSaved, NoneSaved
<1>2. CASE SaveItems
  BY <1>2 DEF SaveItems, NotSaved, SavedState, NoneSaved
<1>3. CASE ~(Load \/ SaveItems)
  <2>1. db' = db
    BY <1>3 DEF Next, ThreadStep, Connects, Replies, Sends, Exit, User, World, Pick, Sleep, Wake,
         Leave, SetDownloading, AlreadyThere, Abandon, Test, Finish, CleanUpDownload,
         ConnectFails, Connected, Whole, Partial, RangeRefused, Redirected, NoData,
         OpenFails, First, Receive, ReceiveEnds, StopThread, SetExit, PauseDownloads, ResumeDownloads, AddItem, Asks,
         Ask, Apply, Crash, ServerChanges, DiskFills, FileVanishes, outside
  <2>. QED  BY <2>1 DEF NoneSaved
<1>. QED
  BY <1>1, <1>2, <1>3

LEMMA StrandStays ==
  ASSUME TypeInv, NoneSaved, StrandInv, Next
  PROVE  StrandInv'
<1>1. SUFFICES ASSUME phase' = "running"
               PROVE  StrandInv'
  BY DEF StrandInv
<1>. USE <1>1 DEF StrandInv, TypeInv, TypeOK
<1>2. CASE Load
  BY <1>2 DEF Load, NoneSaved, OutsideOK
<1>3. CASE SetExit \/ Exit \/ Crash
  BY <1>3 DEF SetExit, Exit, StopThread, SaveItems, Crash, Forget
<1>4. CASE ~(Load \/ SetExit \/ Exit \/ Crash)
  <2>1. phase = "running"
    BY <1>4 DEF Next, ThreadStep, Connects, Replies, Sends, User, World, Pick, Sleep, Wake,
         Leave, SetDownloading, AlreadyThere, Abandon, Test, Finish, CleanUpDownload,
         ConnectFails, Connected, Whole, Partial, RangeRefused, Redirected, NoData,
         OpenFails, First, Receive, ReceiveEnds, PauseDownloads, ResumeDownloads, AddItem, Asks, Ask, Apply,
         ServerChanges, DiskFills, FileVanishes
  <2>2. /\ \A i \in Items : state[i] = "Downloading" => cur = i /\ at \in Working
        /\ at = "over" /\ result = "UserCancel" => state[cur] # "Downloading"
        /\ at = "test" => result # "UserCancel"
        /\ at = "cleaning" => state[cur] # "Downloading"
    BY <2>1
  <2>3. CASE (\E i \in Items : AddItem(i)) \/ Asks \/ PauseDownloads \/ ResumeDownloads
             \/ Apply \/ ServerChanges \/ DiskFills \/ (\E i \in Items : FileVanishes(i))
    <3>1. UNCHANGED threadVars
      BY <2>3 DEF AddItem, Asks, Ask, PauseDownloads, ResumeDownloads, Apply, ServerChanges,
           DiskFills, FileVanishes
    <3>2. \A i \in Items : state'[i] # state[i] => state'[i] # "Downloading"
      BY <2>3 DEF AddItem, Asks, Ask, PauseDownloads, ResumeDownloads, Apply, ServerChanges,
           DiskFills, FileVanishes, itemVars, Target, ItemsOK, OutsideOK
    <3>. QED  BY <2>2, <3>1, <3>2 DEF threadVars, ThreadOK, Working
  <2>4. CASE Pick \/ Sleep \/ Wake \/ Leave
    BY <2>2, <2>4 DEF Pick, Looks, Sleep, Wake, Leave, itemVars, Working
  <2>5. CASE SetDownloading
    BY <2>2, <2>5 DEF SetDownloading, ItemsOK, ThreadOK, Working
  <2>6. CASE AlreadyThere \/ ConnectFails \/ NoData \/ OpenFails \/ Connected \/ Whole
             \/ Partial \/ RangeRefused \/ Redirected
    BY <2>2, <2>6 DEF AlreadyThere, ConnectFails, NoData, OpenFails, Connected, Whole, Partial,
         RangeRefused, Redirected, Returns, Goes, itemVars, Working
  <2>7. CASE Abandon
    BY <2>1, <2>2, <2>7 DEF Abandon, Wanted, Interrupted, Returns, itemVars, Working
  <2>8. CASE First \/ Receive \/ ReceiveEnds
    BY <2>2, <2>8 DEF First, Receive, ReceiveEnds, Goes, itemVars, Working
  <2>9. CASE Test
    BY <2>2, <2>9 DEF Test, Returns, Goes, itemVars, Working
  <2>10. CASE Finish
    <3>1. cur \in Items /\ \A i \in Items : state[i] = "Downloading" => i = cur
      BY <2>2, <2>10 DEF Finish, ThreadOK, Working
    <3>2. state'[cur] # "Downloading"
      BY <2>2, <2>10, <3>1 DEF Finish, ItemsOK
    <3>3. \A i \in Items : state'[i] # "Downloading"
      BY <2>10, <3>1, <3>2 DEF Finish, ItemsOK
    <3>4. at' \in {"top", "cleaning"} /\ (at' = "cleaning" => cur' = cur)
      BY <2>10 DEF Finish, Ends, Goes
    <3>. QED  BY <3>1, <3>3, <3>4
  <2>11. CASE CleanUpDownload
    BY <2>2, <2>11 DEF CleanUpDownload, Ends
  <2>. QED
    BY <1>4, <2>3, <2>4, <2>5, <2>6, <2>7, <2>8, <2>9, <2>10, <2>11
       DEF Next, ThreadStep, Connects, Replies, Sends, User, World
<1>. QED
  BY <1>2, <1>3, <1>4

\* No interruption leaves an item marked as downloading that nobody downloads.
THEOREM NoDownloadStranded == Spec => []NoneStranded
<1>1. Init => NoneSaved /\ StrandInv
  BY DEF Init, NoneSaved, StrandInv, NotSaved
<1>2. TypeInv /\ NoneSaved /\ StrandInv /\ [Next]_vars => (NoneSaved /\ StrandInv)'
  <2>1. ASSUME UNCHANGED vars, NoneSaved, StrandInv  PROVE  (NoneSaved /\ StrandInv)'
    BY <2>1 DEF NoneSaved, StrandInv, vars, itemVars, threadVars, outside
  <2>. QED  BY <2>1, NoneSavedStays, StrandStays
<1>3. StrandInv => NoneStranded
  BY DEF StrandInv, NoneStranded
<1>. QED
  BY <1>1, <1>2, <1>3, TypeInvHolds, PTL DEF Spec
=============================================================================
