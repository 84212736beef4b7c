------------------------------ MODULE Playlist ------------------------------
(***************************************************************************)
(* The playlist manager (base/src/playlist.cpp): the master list, the      *)
(* shuffled list beside it, the cursor, and the lives of the items, which  *)
(* the threads that fetch metadata work on while the list is edited.       *)
(*                                                                         *)
(* The cursor m_current indexes the master list, and in shuffle mode the   *)
(* shuffled one; indices count from 0 as in the code, kInvalidIndex is -1. *)
(* Every method holds m_mutex from beginning to end, so each is one step.  *)
(* Items are pointers: one is created once, added, and freed.              *)
(* A caller may set an index outside the list; from then on the methods    *)
(* that call GetCurrentItem read outside it until the cursor is set anew.  *)
(***************************************************************************)
EXTENDS Integers, Sequences, FiniteSets

CONSTANTS
  Items,        \* every item that is ever created
  NoItem,       \* a pointer to none of them
  Threads,      \* bound: metadata threads that run at the same time
  RepeatModes   \* the ones that are set, of None, One and All

VARIABLES
  masterList,   \* m_masterList, which is the active list
  shuffleList,  \* m_shuffleList
  current,      \* m_current
  shuffle,      \* m_shuffle
  repeatMode,   \* m_repeatMode
  itemState,    \* PlaylistItem::m_state; Unborn before and Freed after its life
  fetching,     \* of each metadata thread, the items it has yet to finish
  held,         \* its pl_items: those it has finished and tells of at its end
  aborted       \* an assertion has failed, or a read outside the list

ASSUME PlaylistAssumption ==
  /\ IsFiniteSet(Items) /\ NoItem \notin Items
  /\ RepeatModes \subseteq {"None", "One", "All"} /\ "None" \in RepeatModes

lists == <<masterList, shuffleList>>
modes == <<shuffle, repeatMode>>
lives == <<itemState, fetching, held>>
vars  == <<lists, current, modes, lives, aborted>>

kInvalidIndex == -1
States == {"Unborn", "Normal", "RetrievingMetaData", "Delete", "Freed"}
-----------------------------------------------------------------------------
\* Sequences of items
ItemsOf(l) == {l[k] : k \in 1 .. Len(l)}

\* The sequences that hold each member of S once
Arrangements(S) ==
  {f \in [1 .. Cardinality(S) -> S] :
     /\ \A x \in S : \E k \in 1 .. Cardinality(S) : f[k] = x
     /\ \A j, k \in 1 .. Cardinality(S) : f[j] = f[k] => j = k}

Indices(l) == 0 .. Len(l) - 1

ItemAt(l, i) == l[i + 1]

InternalIndexOf(l, x) ==
  IF x \in ItemsOf(l) THEN CHOOSE i \in Indices(l) : ItemAt(l, i) = x ELSE kInvalidIndex

\* vector::insert before index i, of the items of t
Insert(l, i, t) ==
  [k \in 1 .. Len(l) + Len(t) |-> IF k <= i THEN l[k]
                                  ELSE IF k <= i + Len(t) THEN t[k - i]
                                  ELSE l[k - Len(t)]]

\* vector::erase of index i
Erase(l, i) == [k \in 1 .. Len(l) - 1 |-> IF k <= i THEN l[k] ELSE l[k + 1]]

\* What a loop of erasures of the items in S leaves of l
Without(l, S) ==
  {r \in Arrangements(ItemsOf(l) \ S) :
     \A j, k \in Indices(r) :
       j < k => InternalIndexOf(l, ItemAt(r, j)) < InternalIndexOf(l, ItemAt(r, k))}

\* There is a current item exactly when there are items.
HasCursor ==
  IF masterList = <<>> THEN current = kInvalidIndex ELSE current \in Indices(masterList)

\* Without a cursor NULL, or what lies outside the list when it has items
GetCurrentItem ==
  IF current = kInvalidIndex THEN NoItem
  ELSE ItemAt(IF shuffle THEN shuffleList ELSE masterList, current)
-----------------------------------------------------------------------------
Init ==
  /\ masterList = <<>> /\ shuffleList = <<>> /\ current = kInvalidIndex
  /\ shuffle \in BOOLEAN /\ repeatMode \in RepeatModes
  /\ itemState = [x \in Items |-> "Unborn"]
  /\ fetching = [t \in Threads |-> {}] /\ held = [t \in Threads |-> {}]
  /\ aborted = FALSE

\* SetCurrentIndex on the new lists: in shuffle mode it looks the item up in
\* the shuffled list, and InternalIndexOf asserts that there is one.
SetCurrentIndexTo(i) ==
  LET valid == i \in Indices(masterList')
  IN  /\ aborted' = (shuffle /\ ~valid)
      /\ current' = IF ~valid THEN kInvalidIndex
                    ELSE IF shuffle THEN InternalIndexOf(shuffleList', ItemAt(masterList', i))
                    ELSE i

SetCurrentIndex(i) ==
  /\ ~aborted
  /\ UNCHANGED <<lists, modes, lives>>
  /\ SetCurrentIndexTo(i)

\* GotoNextItem and GotoPreviousItem: past the end of the list they start again,
\* after a new shuffle, for a user or when everything is repeated.
Goto(userAction, index, wrapped, end) ==
  /\ ~aborted
  /\ UNCHANGED <<masterList, modes, lives, aborted>>
  /\ IF masterList = <<>> \/ (repeatMode = "One" /\ ~userAction)
     THEN UNCHANGED <<shuffleList, current>>
     ELSE IF index \in Indices(masterList)
     THEN current' = index /\ UNCHANGED shuffleList
     ELSE IF repeatMode = "All" \/ userAction
     THEN /\ current' = wrapped
          /\ IF shuffle THEN shuffleList' \in Arrangements(ItemsOf(shuffleList))
                        ELSE UNCHANGED shuffleList
     ELSE current' = end /\ UNCHANGED shuffleList

GotoNextItem(userAction) ==
  Goto(userAction, current + 1, 0, current)

\* Mutant: going back from the first item goes past the last one.
GotoPreviousPastEnd(userAction) ==
  Goto(userAction, current - 1, Len(masterList), current)

\* Without a cursor it goes before kInvalidIndex and reads there: ReadOutside
GotoPreviousItem(userAction) ==
  HasCursor /\ Goto(userAction, current - 1, Len(masterList) - 1, current)

\* Every method that calls GetCurrentItem, and GotoPreviousItem, may end the
\* program when the list has items and no cursor; else it finds NoItem there.
ReadOutside ==
  /\ ~aborted /\ ~HasCursor
  /\ aborted' = TRUE
  /\ UNCHANGED <<lists, current, modes, lives>>

SetShuffleMode(on) ==
  /\ ~aborted
  /\ shuffle' = on
  /\ shuffleList' \in IF on THEN Arrangements(ItemsOf(shuffleList)) ELSE {shuffleList}
  /\ current' = IF masterList = <<>> THEN current
                ELSE InternalIndexOf(IF on THEN shuffleList' ELSE masterList, GetCurrentItem)
  /\ UNCHANGED <<masterList, repeatMode, lives, aborted>>

SetRepeatMode(mode) ==
  /\ ~aborted
  /\ repeatMode' = mode
  /\ UNCHANGED <<lists, current, shuffle, lives, aborted>>
-----------------------------------------------------------------------------
\* A metadata thread for the new items, which take the state at once
RetrieveMetaData(S, query) ==
  /\ itemState' = [x \in Items |-> IF x \notin S THEN itemState[x]
                                   ELSE IF query THEN "RetrievingMetaData" ELSE "Normal"]
  /\ IF query THEN \E t \in Threads : /\ fetching[t] = {} /\ held[t] = {}
                                      /\ fetching' = [fetching EXCEPT ![t] = S]
              ELSE UNCHANGED fetching
  /\ UNCHANGED held

\* AddItem and AddItems at the end, or before an index: the new items go to the
\* end of the shuffled list, in an order of their own.
AddItems(new, index, query) ==
  /\ ~aborted
  /\ \A x \in ItemsOf(new) : itemState[x] = "Unborn"
  /\ masterList' = Insert(masterList, index, new)
  /\ \E order \in Arrangements(ItemsOf(new)) :
       shuffleList' = Insert(shuffleList, Len(shuffleList), order)
  /\ IF current = kInvalidIndex THEN current' = 0 /\ UNCHANGED aborted
     ELSE IF index <= current
     THEN SetCurrentIndexTo(InternalIndexOf(masterList', GetCurrentItem))
     ELSE UNCHANGED <<current, aborted>>
  /\ RetrieveMetaData(ItemsOf(new), query)
  /\ UNCHANGED modes

\* Mutant: a removed item is freed at once.
DisposeAtOnce(S) ==
  itemState' = [x \in Items |-> IF x \in S THEN "Freed" ELSE itemState[x]]

\* A removed item is freed, by its metadata thread if it has one
Dispose(S) ==
  itemState' = [x \in Items |-> IF x \notin S THEN itemState[x]
                                ELSE IF itemState[x] = "RetrievingMetaData" THEN "Delete"
                                ELSE "Freed"]

\* Mutant: the cursor stays at its index.
FindCurrentKept(item, index) ==
  SetCurrentIndexTo(IF index # kInvalidIndex /\ index >= Len(masterList')
                    THEN Len(masterList') - 1 ELSE index)

\* The end of the methods that remove: the cursor finds its item again or stays
\* where it was, now read as an index of the master list.
FindCurrent(item, index) ==
  SetCurrentIndexTo(
    IF item \in ItemsOf(masterList') THEN InternalIndexOf(masterList', item)
    ELSE IF index # kInvalidIndex /\ index >= Len(masterList') THEN Len(masterList') - 1
    ELSE index)

\* Mutant: the index of the master list is erased from both lists.
RemoveItemSameIndex(index) ==
  /\ ~aborted /\ index \in Indices(masterList)
  /\ masterList' = Erase(masterList, index) /\ shuffleList' = Erase(shuffleList, index)
  /\ Dispose({ItemAt(masterList, index)})
  /\ FindCurrent(GetCurrentItem, IF masterList' = <<>> THEN kInvalidIndex ELSE current)
  /\ UNCHANGED <<modes, fetching, held>>

RemoveItem(index) ==
  /\ ~aborted /\ index \in Indices(masterList)
  /\ LET item == ItemAt(masterList, index)
     IN  /\ masterList' = Erase(masterList, index)
         /\ shuffleList' = Erase(shuffleList, InternalIndexOf(shuffleList, item))
         /\ Dispose({item})
  /\ FindCurrent(GetCurrentItem, IF masterList' = <<>> THEN kInvalidIndex ELSE current)
  /\ UNCHANGED <<modes, fetching, held>>

\* RemoveItems, of a list or of count items from an index
RemoveItems(S) ==
  /\ ~aborted /\ masterList # <<>> /\ S \subseteq ItemsOf(masterList)
  /\ masterList' \in Without(masterList, S)
  /\ shuffleList' \in Without(shuffleList, S)
  /\ Dispose(S)
  /\ FindCurrent(GetCurrentItem, current)
  /\ UNCHANGED <<modes, fetching, held>>

\* Mutant: the cursor of the cleared list is not reset.
RemoveAllKeepsCurrent ==
  /\ ~aborted
  /\ masterList' = <<>> /\ shuffleList' = <<>>
  /\ Dispose(ItemsOf(masterList))
  /\ UNCHANGED <<current, modes, fetching, held, aborted>>

RemoveAll ==
  /\ ~aborted
  /\ masterList' = <<>> /\ shuffleList' = <<>> /\ current' = kInvalidIndex
  /\ Dispose(ItemsOf(masterList))
  /\ UNCHANGED <<modes, fetching, held, aborted>>

\* The cursor is compared with indices of the master list in shuffle mode too
SwapItems(i, j) ==
  /\ ~aborted /\ i \in Indices(masterList) /\ j \in Indices(masterList)
  /\ masterList' = [masterList EXCEPT ![i + 1] = ItemAt(masterList, j),
                                      ![j + 1] = ItemAt(masterList, i)]
  /\ current' = IF current = i THEN j ELSE IF current = j THEN i ELSE current
  /\ UNCHANGED <<shuffleList, modes, lives, aborted>>

\* An item that passes over the cursor leaves it where it is
MoveItem(i, j) ==
  /\ ~aborted /\ i \in Indices(masterList) /\ j \in Indices(masterList)
  /\ masterList' = Insert(Erase(masterList, i), j, <<ItemAt(masterList, i)>>)
  /\ current' = IF i = current THEN j
                ELSE IF j = current THEN IF i > current THEN current + 1 ELSE current - 1
                ELSE current
  /\ UNCHANGED <<shuffleList, modes, lives, aborted>>

\* MoveItems counts off, one by one, the moved items that are in front of index
CountedOff(moved, index) ==
  LET before[k \in 0 .. Len(moved)] ==
        IF k = 0 THEN index
        ELSE IF InternalIndexOf(masterList, moved[k]) < before[k - 1] THEN before[k - 1] - 1
        ELSE before[k - 1]
  IN  before[Len(moved)]

\* The items of moved leave the list and come back together before index
MoveItems(moved, index) ==
  /\ ~aborted /\ masterList # <<>> /\ ItemsOf(moved) \subseteq ItemsOf(masterList)
  /\ \E rest \in Without(masterList, ItemsOf(moved)) :
       LET counted == CountedOff(moved, index)
       IN  \E at \in 0 .. Len(rest) :
             /\ at = IF counted > Len(rest) THEN Len(rest) ELSE counted
             /\ masterList' = Insert(rest, at, moved)
  /\ UNCHANGED shuffleList
  /\ SetCurrentIndexTo(InternalIndexOf(masterList', GetCurrentItem))
  /\ UNCHANGED <<modes, lives>>

\* By a key or at random; which order a key gives is left open
Sort ==
  /\ ~aborted
  /\ masterList' \in Arrangements(ItemsOf(masterList))
  /\ UNCHANGED <<shuffleList, modes, lives>>
  /\ IF masterList = <<>> THEN UNCHANGED <<current, aborted>>
     ELSE SetCurrentIndexTo(InternalIndexOf(masterList', GetCurrentItem))

\* Mutant: the thread does not look whether its item has been removed.
MetaDataThreadRevives(t) ==
  \E x \in fetching[t] :
    /\ ~aborted
    /\ itemState' = [itemState EXCEPT ![x] = "Normal"]
    /\ fetching' = [fetching EXCEPT ![t] = fetching[t] \ {x}]
    /\ held' = [held EXCEPT ![t] = held[t] \cup {x}]
    /\ UNCHANGED <<lists, current, modes, aborted>>

\* MetaDataThreadFunction, the end of its work on one item
MetaDataThread(t) ==
  \E x \in fetching[t] :
    /\ ~aborted
    /\ fetching' = [fetching EXCEPT ![t] = fetching[t] \ {x}]
    /\ IF itemState[x] = "Delete"
       THEN itemState' = [itemState EXCEPT ![x] = "Freed"] /\ UNCHANGED held
       ELSE /\ itemState' = [itemState EXCEPT ![x] = "Normal"]
            /\ held' = [held EXCEPT ![t] = held[t] \cup {x}]
    /\ UNCHANGED <<lists, current, modes, aborted>>

\* Its end: PlaylistItemsUpdatedEvent takes the pointers along, and they are gone
\* when the user interfaces have served it, without m_mutex.
ItemsUpdated(t) ==
  /\ ~aborted /\ fetching[t] = {} /\ held[t] # {}
  /\ held' = [held EXCEPT ![t] = {}]
  /\ UNCHANGED <<lists, current, modes, itemState, fetching, aborted>>

\* An index outside the list, as GTKMusicBrowser::PlayEvent sets when its m_lastindex
\* was reset and StartMusicSearch when the saved position is past a shorter list
SetIndexOutside == SetCurrentIndex(Len(masterList))

Cursor ==
  \/ \E i \in Indices(masterList) : SetCurrentIndex(i)
  \/ SetIndexOutside
  \/ \E user \in BOOLEAN : GotoNextItem(user) \/ GotoPreviousItem(user)
  \/ \E mode \in RepeatModes : SetRepeatMode(mode)
  \/ ReadOutside

Edit ==
  \/ \E S \in (SUBSET Items) \ {{}} : \E new \in Arrangements(S) :
       \E index \in 0 .. Len(masterList), query \in BOOLEAN : AddItems(new, index, query)
  \/ \E index \in Indices(masterList) : RemoveItem(index)
  \/ \E S \in (SUBSET ItemsOf(masterList)) \ {{}} : RemoveItems(S)
  \/ RemoveAll
  \/ Sort
  \/ \E on \in BOOLEAN : SetShuffleMode(on)
  \/ \E S \in (SUBSET ItemsOf(masterList)) \ {{}} : \E moved \in Arrangements(S) :
       \E index \in 0 .. Len(masterList) : MoveItems(moved, index)

Rearrange == \E i, j \in Indices(masterList) : SwapItems(i, j) \/ MoveItem(i, j)

Next ==
  Cursor \/ Edit \/ Rearrange \/ \E t \in Threads : MetaDataThread(t) \/ ItemsUpdated(t)

Spec     == Init /\ [][Next]_vars
FairSpec == Spec /\ \A t \in Threads : WF_vars(MetaDataThread(t))
-----------------------------------------------------------------------------
\* Types of the playlist manager's fields.
TypeOK ==
  /\ masterList \in Seq(Items) /\ shuffleList \in Seq(Items)
  /\ current \in {kInvalidIndex} \cup Indices(masterList)
  /\ shuffle \in BOOLEAN /\ repeatMode \in RepeatModes
  /\ itemState \in [Items -> States]
  /\ fetching \in [Threads -> SUBSET Items] /\ held \in [Threads -> SUBSET Items]
  /\ aborted \in BOOLEAN

\* A list holds no item twice.
Distinct(l) == \A j, k \in 1 .. Len(l) : l[j] = l[k] => j = k

\* The shuffled list is always an arrangement of the master list, through every
\* insertion, removal and new shuffle: no item is played twice in a round, none
\* is left out, and RemoveItem finds what it erases in both.
ShuffleIsArrangement ==
  /\ Distinct(masterList) /\ Distinct(shuffleList)
  /\ ItemsOf(masterList) = ItemsOf(shuffleList)

\* Whoever adds, removes, moves, sorts or shuffles finds the cursor on an item and
\* leaves it on one while there are items, where GetCurrentItem reads at m_current
\* whenever the list is not empty (playlist.cpp:480); only a caller that sets an
\* index outside the list loses it.  With a cursor the assertion assert(item) of
\* InternalIndexOf (playlist.cpp:2350) ends the program in shuffle mode only, when
\* the last item is removed or such an index set (on an empty list too).
CursorValid ==
  [][HasCursor => /\ HasCursor' \/ SetIndexOutside
                  /\ aborted' /\ ~aborted =>
                       shuffle /\ (masterList' = <<>> \/ SetIndexOutside)]_vars

\* No item of the list, and none whose metadata a thread is still to set, has been
\* freed: the methods that remove leave it to its thread, and the thread frees it
\* only when it has been removed ("we don't wanna delete the item out from under
\* it", playlist.cpp:1064).  The promise ends there: once it has set an item Normal
\* the thread, and then its event, hold a pointer to what may be freed meanwhile.
NoneFreedUnderThread ==
  /\ \A x \in ItemsOf(masterList) : itemState[x] \in {"Normal", "RetrievingMetaData"}
  /\ \A t \in Threads : /\ \A x \in fetching[t] : itemState[x] \in {"RetrievingMetaData", "Delete"}
                        /\ \A x \in held[t] : itemState[x] \in {"Normal", "Freed"}

\* An item that is out of the list and not freed is with a thread that will see so.
NoneLeaked ==
  \A x \in Items : itemState[x] \notin {"Unborn", "Freed"} =>
    x \in ItemsOf(masterList) \/ \E t \in Threads : x \in fetching[t]

\* Adding, removing, sorting, shuffling and moving lists of items leave the
\* cursor on its item, unless that is the item removed.
CursorStays ==
  [][(/\ masterList # <<>> /\ ~aborted'
      /\ GetCurrentItem \in ItemsOf(masterList')
      /\ GetCurrentItem' # GetCurrentItem) => Cursor \/ Rearrange]_vars

\* An item removed while its metadata is fetched is freed in the end.
RemovedAreFreed ==
  \A x \in Items : (itemState[x] = "Delete") ~> (itemState[x] = "Freed" \/ aborted)
=============================================================================
