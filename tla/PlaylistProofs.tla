--------------------------- MODULE PlaylistProofs ---------------------------
(***************************************************************************)
(* For any items, threads and repeat modes, the playlist keeps its types,  *)
(* its two lists hold the same items once each, only a caller that sets an *)
(* index outside the list loses the cursor, and no item of the list, nor   *)
(* one whose metadata is still to be set, is freed.                        *)
(* The inductive invariant ties an item's state to where the item is.      *)
(***************************************************************************)
EXTENDS Playlist, FiniteSetTheorems, FunctionTheorems, TLAPS

ListsOK ==
  /\ masterList \in Seq(Items) /\ shuffleList \in Seq(Items)
  /\ ShuffleIsArrangement

CursorOK == current \in {kInvalidIndex} \cup Indices(masterList)

\* What CursorValid says of every step but SetIndexOutside
KeepsCursor ==
  HasCursor => HasCursor' /\ (aborted' /\ ~aborted => shuffle /\ masterList' = <<>>)

ModesOK == shuffle \in BOOLEAN /\ repeatMode \in RepeatModes /\ aborted \in BOOLEAN

\* In the list: Normal or RetrievingMetaData; with a thread, and one only:
\* RetrievingMetaData or Delete; held by one that is done with it: Normal or Freed.
LivesOK ==
  /\ itemState \in [Items -> States]
  /\ fetching \in [Threads -> SUBSET Items]
  /\ \A x \in Items : x \in ItemsOf(masterList) <=>
                        itemState[x] \in {"Normal", "RetrievingMetaData"}
  /\ \A x \in Items : (\E t \in Threads : x \in fetching[t]) <=>
                        itemState[x] \in {"RetrievingMetaData", "Delete"}
  /\ \A t, u \in Threads : t # u => fetching[t] \cap fetching[u] = {}
  /\ held \in [Threads -> SUBSET Items]
  /\ \A t \in Threads : \A x \in held[t] : itemState[x] \in {"Normal", "Freed"}

IInv == ListsOK /\ CursorOK /\ ModesOK /\ LivesOK
-----------------------------------------------------------------------------
\* Facts about sequences of items

\* Arrangements are lists without repetitions.
LEMMA ArrangementIsList ==
  ASSUME NEW S \in SUBSET Items, NEW f \in Arrangements(S)
  PROVE  f \in Seq(Items) /\ Distinct(f) /\ ItemsOf(f) = S
<1>1. IsFiniteSet(S)
  BY PlaylistAssumption, FS_Subset
<1>2. Cardinality(S) \in Nat
  BY <1>1, FS_CardinalityType
<1>3. f \in [1 .. Cardinality(S) -> S]
  BY DEF Arrangements
<1>4. f \in Seq(Items) /\ Len(f) = Cardinality(S)
  BY <1>2, <1>3
<1> QED
  BY <1>2, <1>3, <1>4 DEF Arrangements, Distinct, ItemsOf

LEMMA InsertList ==
  ASSUME NEW l \in Seq(Items), NEW t \in Seq(Items), NEW i \in 0 .. Len(l),
         Distinct(l), Distinct(t), ItemsOf(l) \cap ItemsOf(t) = {}
  PROVE  /\ Insert(l, i, t) \in Seq(Items) /\ Distinct(Insert(l, i, t))
         /\ ItemsOf(Insert(l, i, t)) = ItemsOf(l) \cup ItemsOf(t)
         /\ Len(Insert(l, i, t)) = Len(l) + Len(t)
<1> DEFINE n == Len(l)
           m == Len(t)
           r == Insert(l, i, t)
<1>1. n \in Nat /\ m \in Nat /\ i \in 0 .. n
  OBVIOUS
<1>2. /\ \A k \in 1 .. n : l[k] \in Items
      /\ \A k \in 1 .. m : t[k] \in Items
  OBVIOUS
<1>3. /\ DOMAIN r = 1 .. n + m
      /\ \A k \in 1 .. n + m : r[k] = IF k <= i THEN l[k] ELSE IF k <= i + m THEN t[k - i]
                                      ELSE l[k - m]
  BY DEF Insert
<1>a. ASSUME NEW k \in 1 .. n + m
      PROVE  \/ k <= i /\ k \in 1 .. n /\ r[k] = l[k]
             \/ k > i /\ k <= i + m /\ k - i \in 1 .. m /\ r[k] = t[k - i]
             \/ k > i + m /\ k - m > i /\ k - m \in 1 .. n /\ r[k] = l[k - m]
  <2> HIDE DEF r, n, m
  <2>1. CASE k <= i
    <3>1. r[k] = l[k]
      BY <1>3, <2>1
    <3> QED
      BY <1>1, <2>1, <3>1
  <2>2. CASE ~(k <= i) /\ k <= i + m
    <3>1. r[k] = t[k - i]
      BY <1>3, <2>2
    <3> QED
      BY <1>1, <2>2, <3>1
  <2>3. CASE ~(k <= i) /\ ~(k <= i + m)
    <3>1. r[k] = l[k - m]
      BY <1>3, <2>3
    <3> QED
      BY <1>1, <2>3, <3>1
  <2> QED
    BY <2>1, <2>2, <2>3
<1>4. \A k \in 1 .. n + m : r[k] \in Items
  <2> HIDE DEF r, n, m
  <2> QED
    BY <1>2, <1>a
<1>5. r \in Seq(Items) /\ Len(r) = n + m
  <2>1. r \in [1 .. n + m -> Items]
    BY <1>3, <1>4 DEF Insert
  <2>2. n + m \in Nat
    BY <1>1
  <2> HIDE DEF r
  <2> QED
    BY <2>1, <2>2
<1>6. Distinct(r)
  <2>1. /\ \A j, k \in 1 .. n : l[j] = l[k] => j = k
        /\ \A j, k \in 1 .. m : t[j] = t[k] => j = k
        /\ \A j \in 1 .. n, k \in 1 .. m : l[j] # t[k]
    BY DEF Distinct, ItemsOf
  <2>2. ASSUME NEW j \in 1 .. n + m, NEW k \in 1 .. n + m, r[j] = r[k]
        PROVE  j = k
    <3> HIDE DEF r, n, m
    <3>1. CASE j <= i
      BY <1>1, <1>a, <2>1, <2>2, <3>1
    <3>2. CASE j > i /\ j <= i + m
      BY <1>1, <1>a, <2>1, <2>2, <3>2
    <3>3. CASE j > i + m
      BY <1>1, <1>a, <2>1, <2>2, <3>3
    <3> QED
      BY <1>1, <3>1, <3>2, <3>3
  <2> QED
    BY <1>5, <2>2 DEF Distinct
<1>7. ItemsOf(r) \subseteq ItemsOf(l) \cup ItemsOf(t)
  <2> HIDE DEF r, n, m
  <2>1. ASSUME NEW k \in 1 .. n + m
        PROVE  (\E j \in 1 .. n : r[k] = l[j]) \/ (\E j \in 1 .. m : r[k] = t[j])
    BY <1>a
  <2> QED
    BY <1>5, <2>1 DEF ItemsOf, n, m
<1>8. ItemsOf(l) \subseteq ItemsOf(r)
  <2> HIDE DEF r, n, m
  <2>1. ASSUME NEW j \in 1 .. n
        PROVE  \E k \in 1 .. n + m : r[k] = l[j]
    <3>1. CASE j <= i
      BY <1>1, <1>3, <3>1
    <3>2. CASE ~(j <= i)
      <4>1. PICK q \in 1 .. n + m : q = j + m
        BY <1>1
      <4>2. ~(q <= i) /\ ~(q <= i + m) /\ q - m = j
        BY <1>1, <3>2, <4>1
      <4> QED
        BY <1>3, <4>2
    <3> QED
      BY <3>1, <3>2
  <2> QED
    BY <1>5, <2>1 DEF ItemsOf, n
<1>9. ItemsOf(t) \subseteq ItemsOf(r)
  <2> HIDE DEF r, n, m
  <2>1. ASSUME NEW j \in 1 .. m
        PROVE  \E k \in 1 .. n + m : r[k] = t[j]
    <3>1. j + i \in 1 .. n + m /\ ~(j + i <= i) /\ j + i <= i + m /\ j + i - i = j
      BY <1>1
    <3> QED
      BY <1>3, <3>1
  <2> QED
    BY <1>5, <2>1 DEF ItemsOf, m
<1> QED
  BY <1>5, <1>6, <1>7, <1>8, <1>9

LEMMA EraseList ==
  ASSUME NEW l \in Seq(Items), NEW i \in Indices(l), Distinct(l)
  PROVE  /\ Erase(l, i) \in Seq(Items) /\ Distinct(Erase(l, i))
         /\ ItemsOf(Erase(l, i)) = ItemsOf(l) \ {ItemAt(l, i)}
         /\ Len(Erase(l, i)) = Len(l) - 1
         /\ ItemAt(l, i) \in ItemsOf(l)
<1> DEFINE n == Len(l)
           r == Erase(l, i)
<1>1. n \in Nat /\ i \in 0 .. n - 1 /\ \A k \in 1 .. n : l[k] \in Items
  BY DEF Indices
<1>2. /\ DOMAIN r = 1 .. n - 1
      /\ \A k \in 1 .. n - 1 : r[k] = IF k <= i THEN l[k] ELSE l[k + 1]
  BY DEF Erase
<1>3. \A k \in 1 .. n - 1 : r[k] \in Items
  BY <1>1, <1>2
<1>4. r \in Seq(Items) /\ Len(r) = n - 1
  <2>1. r \in [1 .. n - 1 -> Items]
    BY <1>2, <1>3 DEF Erase
  <2>2. n - 1 \in Nat
    BY <1>1
  <2> HIDE DEF r
  <2> QED
    BY <2>1, <2>2
<1>5. \A j, k \in 1 .. n : l[j] = l[k] => j = k
  BY DEF Distinct
<1>6. Distinct(r)
  <2> HIDE DEF r, n
  <2>1. ASSUME NEW j \in 1 .. n - 1, NEW k \in 1 .. n - 1, r[j] = r[k]
        PROVE  j = k
    BY <1>1, <1>2, <1>5, <2>1
  <2> QED
    BY <1>4, <2>1 DEF Distinct
<1>7. ItemAt(l, i) = l[i + 1] /\ i + 1 \in 1 .. n
  BY <1>1 DEF ItemAt
<1>8. ItemsOf(r) \subseteq ItemsOf(l) \ {l[i + 1]}
  <2> HIDE DEF r, n
  <2>1. ASSUME NEW k \in 1 .. n - 1
        PROVE  \E j \in 1 .. n : r[k] = l[j] /\ j # i + 1
    <3>1. CASE k <= i
      BY <1>1, <1>2, <3>1
    <3>2. CASE ~(k <= i)
      <4>1. k + 1 \in 1 .. n /\ k + 1 # i + 1 /\ r[k] = l[k + 1]
        BY <1>1, <1>2, <3>2
      <4> QED
        BY <4>1
    <3> QED
      BY <3>1, <3>2
  <2> QED
    BY <1>4, <1>5, <1>7, <2>1 DEF ItemsOf, n
<1>9. ItemsOf(l) \ {l[i + 1]} \subseteq ItemsOf(r)
  <2> HIDE DEF r, n
  <2>1. ASSUME NEW j \in 1 .. n, j # i + 1
        PROVE  \E k \in 1 .. n - 1 : r[k] = l[j]
    <3>1. CASE j <= i
      BY <1>1, <1>2, <3>1
    <3>2. CASE ~(j <= i)
      <4>1. j - 1 \in 1 .. n - 1 /\ ~(j - 1 <= i) /\ j - 1 + 1 = j
        BY <1>1, <2>1, <3>2
      <4> QED
        BY <1>2, <4>1
    <3> QED
      BY <3>1, <3>2
  <2> QED
    BY <1>4, <2>1 DEF ItemsOf, n
<1> QED
  BY <1>4, <1>6, <1>7, <1>8, <1>9 DEF ItemsOf

LEMMA IndexFound ==
  ASSUME NEW l \in Seq(Items), NEW x \in ItemsOf(l)
  PROVE  InternalIndexOf(l, x) \in Indices(l) /\ ItemAt(l, InternalIndexOf(l, x)) = x
<1>1. PICK k \in 1 .. Len(l) : l[k] = x
  BY DEF ItemsOf
<1>2. k - 1 \in Indices(l) /\ ItemAt(l, k - 1) = x
  BY <1>1 DEF Indices, ItemAt
<1>3. (CHOOSE i \in Indices(l) : ItemAt(l, i) = x) \in Indices(l)
      /\ ItemAt(l, CHOOSE i \in Indices(l) : ItemAt(l, i) = x) = x
  BY <1>2
<1> QED
  BY <1>3 DEF InternalIndexOf

LEMMA IndexTyped ==
  ASSUME NEW l \in Seq(Items), NEW x
  PROVE  InternalIndexOf(l, x) \in {kInvalidIndex} \cup Indices(l) /\ InternalIndexOf(l, x) \in Int
<1>1. CASE x \in ItemsOf(l)
  <2>1. InternalIndexOf(l, x) \in Indices(l)
    BY <1>1, IndexFound
  <2> QED
    BY <2>1 DEF Indices
<1>2. CASE x \notin ItemsOf(l)
  BY <1>2 DEF InternalIndexOf, kInvalidIndex
<1> QED
  BY <1>1, <1>2

LEMMA SameLength ==
  ASSUME NEW l \in Seq(Items), NEW r \in Seq(Items), Distinct(l), Distinct(r),
         ItemsOf(l) = ItemsOf(r)
  PROVE  Len(l) = Len(r)
<1>1. ASSUME NEW s \in Seq(Items), Distinct(s)
      PROVE  Cardinality(ItemsOf(s)) = Len(s)
  <2>1. s \in [1 .. Len(s) -> ItemsOf(s)]
    BY DEF ItemsOf
  <2>2. s \in Bijection(1 .. Len(s), ItemsOf(s))
    BY <1>1, <2>1, Fun_IsBij DEF ItemsOf, Distinct
  <2>3. ExistsBijection(1 .. Len(s), ItemsOf(s))
    BY <2>2 DEF ExistsBijection
  <2> QED
    BY <2>3, FS_CountingElements
<1> QED
  BY <1>1

LEMMA EmptyList ==
  ASSUME NEW l \in Seq(Items)
  PROVE  (l = <<>> <=> ItemsOf(l) = {}) /\ (l = <<>> <=> Indices(l) = {})
         /\ (l # <<>> => Len(l) \in Nat \ {0})
<1>1. l = <<>> <=> Len(l) = 0
  OBVIOUS
<1>2. Len(l) \in Nat
  OBVIOUS
<1>3. ItemsOf(l) = {} <=> Len(l) = 0
  <2>1. CASE Len(l) = 0
    BY <2>1 DEF ItemsOf
  <2>2. CASE Len(l) # 0
    <3>1. 1 \in 1 .. Len(l)
      BY <1>2, <2>2
    <3> QED
      BY <2>2, <3>1 DEF ItemsOf
  <2> QED
    BY <2>1, <2>2
<1>4. Indices(l) = {} <=> Len(l) = 0
  <2>1. CASE Len(l) = 0
    BY <2>1 DEF Indices
  <2>2. CASE Len(l) # 0
    <3>1. 0 \in 0 .. Len(l) - 1
      BY <1>2, <2>2
    <3> QED
      BY <2>2, <3>1 DEF Indices
  <2> QED
    BY <2>1, <2>2
<1> QED
  BY <1>1, <1>2, <1>3, <1>4
-----------------------------------------------------------------------------
\* What the parts of the actions do

\* SetCurrentIndex sets a cursor at an index of the list, and none at another.
LEMMA SetCurrentIndexOK ==
  ASSUME ListsOK', shuffle \in BOOLEAN, NEW i \in Int, SetCurrentIndexTo(i)
  PROVE  /\ CursorOK' /\ aborted' \in BOOLEAN /\ (aborted' => shuffle)
         /\ i \in Indices(masterList') => current' \in Indices(masterList') /\ ~aborted'
         /\ i \notin Indices(masterList') => current' = kInvalidIndex
<1> DEFINE valid == i \in Indices(masterList')
<1>1. /\ aborted' = (shuffle /\ ~valid)
      /\ current' = IF ~valid THEN kInvalidIndex
                    ELSE IF shuffle THEN InternalIndexOf(shuffleList', ItemAt(masterList', i))
                    ELSE i
  BY DEF SetCurrentIndexTo
<1>2. masterList' \in Seq(Items) /\ shuffleList' \in Seq(Items)
  BY DEF ListsOK
<1>3. Len(shuffleList') = Len(masterList')
  BY <1>2, SameLength DEF ListsOK, ShuffleIsArrangement
<1>4. CASE ~valid
  BY <1>1, <1>4 DEF CursorOK
<1>5. CASE valid
  <2>1. ItemAt(masterList', i) \in ItemsOf(masterList')
    BY <1>2, <1>5 DEF Indices, ItemAt, ItemsOf
  <2>2. InternalIndexOf(shuffleList', ItemAt(masterList', i)) \in Indices(shuffleList')
    BY <1>2, <2>1, IndexFound DEF ListsOK, ShuffleIsArrangement
  <2>3. current' \in Indices(masterList')
    BY <1>1, <1>3, <1>5, <2>2 DEF Indices
  <2> QED
    BY <1>1, <1>5, <2>3 DEF CursorOK
<1> QED
  BY <1>4, <1>5

\* A list that has items has a cursor exactly when its index is valid.
LEMMA CursorOrNone ==
  ASSUME IInv
  PROVE  /\ masterList = <<>> => HasCursor /\ current = kInvalidIndex
         /\ masterList # <<>> => (HasCursor <=> current # kInvalidIndex)
         /\ masterList # <<>> => (HasCursor <=> current \in Indices(masterList))
<1>1. masterList \in Seq(Items) /\ current \in {kInvalidIndex} \cup Indices(masterList)
  BY DEF IInv, ListsOK, CursorOK
<1>2. masterList = <<>> => Indices(masterList) = {}
  BY <1>1, EmptyList
<1>3. kInvalidIndex \notin Indices(masterList)
  BY <1>1 DEF Indices, kInvalidIndex
<1> QED
  BY <1>1, <1>2, <1>3 DEF HasCursor

\* The current item is in both lists.
LEMMA CurrentItemListed ==
  ASSUME IInv, masterList # <<>>, HasCursor
  PROVE  /\ GetCurrentItem \in ItemsOf(masterList) /\ current \in Indices(masterList)
         /\ Len(shuffleList) = Len(masterList)
<1>1. masterList \in Seq(Items) /\ shuffleList \in Seq(Items)
  BY DEF IInv, ListsOK
<1>2. Len(shuffleList) = Len(masterList)
  BY <1>1, SameLength DEF IInv, ListsOK, ShuffleIsArrangement
<1>3. current \in Indices(masterList) /\ current # kInvalidIndex
  BY CursorOrNone
<1>4. ItemAt(masterList, current) \in ItemsOf(masterList)
  BY <1>1, <1>3 DEF Indices, ItemAt, ItemsOf
<1>5. ItemAt(shuffleList, current) \in ItemsOf(shuffleList)
  BY <1>1, <1>2, <1>3 DEF Indices, ItemAt, ItemsOf
<1> QED
  BY <1>2, <1>3, <1>4, <1>5 DEF GetCurrentItem, IInv, ListsOK, ShuffleIsArrangement

\* An item of the list as it is after a step is the current one only with a cursor.
LEMMA CurrentHasCursor ==
  ASSUME IInv, masterList # <<>>, GetCurrentItem \in Items
  PROVE  HasCursor
BY CursorOrNone, PlaylistAssumption DEF GetCurrentItem

\* Rearranging the lists is no matter of life and death.
LEMMA LivesFrame ==
  ASSUME LivesOK, UNCHANGED lives, ItemsOf(masterList') = ItemsOf(masterList)
  PROVE  LivesOK'
BY DEF LivesOK, lives

LEMMA DisposeOK ==
  ASSUME LivesOK, NEW S \in SUBSET ItemsOf(masterList), Dispose(S),
         UNCHANGED <<fetching, held>>, ItemsOf(masterList') = ItemsOf(masterList) \ S
  PROVE  LivesOK'
<1>1. itemState' \in [Items -> States]
  BY DEF LivesOK, Dispose, States
<1>2. ASSUME NEW x \in Items
      PROVE  /\ x \in ItemsOf(masterList') <=>
                  itemState'[x] \in {"Normal", "RetrievingMetaData"}
             /\ itemState'[x] \in {"RetrievingMetaData", "Delete"} <=>
                  itemState[x] \in {"RetrievingMetaData", "Delete"}
  <2>1. itemState'[x] = IF x \notin S THEN itemState[x]
                        ELSE IF itemState[x] = "RetrievingMetaData" THEN "Delete" ELSE "Freed"
    BY DEF Dispose
  <2>2. x \in ItemsOf(masterList) <=> itemState[x] \in {"Normal", "RetrievingMetaData"}
    BY DEF LivesOK
  <2>3. CASE x \in S
    BY <2>1, <2>2, <2>3
  <2>4. CASE x \notin S
    BY <2>1, <2>2, <2>4
  <2> QED
    BY <2>3, <2>4
<1>3. \A t \in Threads : \A x \in held[t] : itemState'[x] \in {"Normal", "Freed"}
  BY DEF LivesOK, Dispose
<1> QED
  BY <1>1, <1>2, <1>3 DEF LivesOK

LEMMA RetrieveOK ==
  ASSUME LivesOK, NEW S \in SUBSET Items, NEW query \in BOOLEAN,
         \A x \in S : itemState[x] = "Unborn", RetrieveMetaData(S, query),
         ItemsOf(masterList') = ItemsOf(masterList) \cup S
  PROVE  LivesOK'
<1>1. itemState' = [x \in Items |-> IF x \notin S THEN itemState[x]
                                    ELSE IF query THEN "RetrievingMetaData" ELSE "Normal"]
  BY DEF RetrieveMetaData
<1>2. itemState' \in [Items -> States]
  BY <1>1 DEF LivesOK, States
<1>3. ASSUME NEW x \in Items
      PROVE  x \in ItemsOf(masterList') <=> itemState'[x] \in {"Normal", "RetrievingMetaData"}
  <2>1. x \in ItemsOf(masterList) <=> itemState[x] \in {"Normal", "RetrievingMetaData"}
    BY DEF LivesOK
  <2>2. CASE x \in S
    BY <1>1, <2>2
  <2>3. CASE x \notin S
    BY <1>1, <2>1, <2>3
  <2> QED
    BY <2>2, <2>3
<1>4. \A t \in Threads : fetching[t] \cap S = {}
  BY DEF LivesOK
<1>h. /\ held' \in [Threads -> SUBSET Items]
      /\ \A t \in Threads : \A x \in held'[t] : itemState'[x] \in {"Normal", "Freed"}
  <2>1. held' = held
    BY DEF RetrieveMetaData
  <2> QED
    BY <1>1, <2>1 DEF LivesOK
<1>5. CASE query
  <2>1. PICK t \in Threads : fetching[t] = {} /\ fetching' = [fetching EXCEPT ![t] = S]
    BY <1>5 DEF RetrieveMetaData
  <2>2. \A u \in Threads : fetching'[u] = IF u = t THEN S ELSE fetching[u]
    BY <2>1 DEF LivesOK
  <2>3. fetching' \in [Threads -> SUBSET Items]
    BY <2>1 DEF LivesOK
  <2>4. \A u, v \in Threads : u # v => fetching'[u] \cap fetching'[v] = {}
    BY <1>4, <2>2 DEF LivesOK
  <2>5. ASSUME NEW x \in Items
        PROVE  (\E u \in Threads : x \in fetching'[u]) <=>
                 itemState'[x] \in {"RetrievingMetaData", "Delete"}
    <3>1. CASE x \in S
      BY <1>1, <1>5, <2>2, <3>1
    <3>2. CASE x \notin S
      <4>1. itemState'[x] = itemState[x]
        BY <1>1, <3>2
      <4>2. (\E u \in Threads : x \in fetching'[u]) <=> (\E u \in Threads : x \in fetching[u])
        BY <2>1, <2>2, <3>2
      <4> QED
        BY <4>1, <4>2 DEF LivesOK
    <3> QED
      BY <3>1, <3>2
  <2> QED
    BY <1>2, <1>3, <1>h, <2>3, <2>4, <2>5 DEF LivesOK
<1>6. CASE ~query
  <2>1. fetching' = fetching
    BY <1>6 DEF RetrieveMetaData
  <2>2. \A x \in Items : itemState'[x] \in {"RetrievingMetaData", "Delete"} <=>
                           itemState[x] \in {"RetrievingMetaData", "Delete"}
    BY <1>1, <1>6
  <2> QED
    BY <1>2, <1>3, <1>h, <2>1, <2>2 DEF LivesOK
<1> QED
  BY <1>5, <1>6

\* What a metadata thread does is not seen in the lists.
LEMMA UnseenStep ==
  ASSUME ListsOK, CursorOK, ModesOK, UNCHANGED <<lists, current, modes, aborted>>
  PROVE  ListsOK' /\ CursorOK' /\ ModesOK' /\ KeepsCursor
BY DEF ListsOK, CursorOK, ModesOK, KeepsCursor, HasCursor, ShuffleIsArrangement, lists, modes

LEMMA MetaDataThreadOK ==
  ASSUME IInv, NEW t \in Threads, MetaDataThread(t)
  PROVE  IInv' /\ KeepsCursor
<1>1. PICK x \in fetching[t] :
        /\ itemState' = [itemState EXCEPT ![x] = IF itemState[x] = "Delete" THEN "Freed" ELSE "Normal"]
        /\ fetching' = [fetching EXCEPT ![t] = fetching[t] \ {x}]
        /\ held' = IF itemState[x] = "Delete" THEN held
                   ELSE [held EXCEPT ![t] = held[t] \cup {x}]
        /\ UNCHANGED <<lists, current, modes, aborted>>
  BY DEF MetaDataThread
<1>2. ListsOK' /\ CursorOK' /\ ModesOK' /\ KeepsCursor
  BY <1>1, UnseenStep DEF IInv
<1>3. LivesOK
  BY DEF IInv
<1>4. x \in Items /\ masterList' = masterList
  BY <1>1, <1>3 DEF LivesOK, lists
<1>5. /\ itemState[x] \in {"RetrievingMetaData", "Delete"}
      /\ \A u \in Threads : u # t => x \notin fetching[u]
  BY <1>3, <1>4 DEF LivesOK
<1>6. \A y \in Items : itemState'[y] = IF y # x THEN itemState[y]
                                       ELSE IF itemState[x] = "Delete" THEN "Freed" ELSE "Normal"
  BY <1>1, <1>3, <1>4 DEF LivesOK
<1>7. \A u \in Threads : fetching'[u] = IF u = t THEN fetching[t] \ {x} ELSE fetching[u]
  BY <1>1, <1>3 DEF LivesOK
<1>8. itemState' \in [Items -> States] /\ fetching' \in [Threads -> SUBSET Items]
  BY <1>1, <1>3, <1>4 DEF LivesOK, States
<1>9. \A y \in Items : y \in ItemsOf(masterList') <=>
                         itemState'[y] \in {"Normal", "RetrievingMetaData"}
  BY <1>3, <1>4, <1>5, <1>6 DEF LivesOK
<1>10. \A y \in Items : (\E u \in Threads : y \in fetching'[u]) <=>
                          itemState'[y] \in {"RetrievingMetaData", "Delete"}
  <2>1. ASSUME NEW y \in Items, y # x
        PROVE  (\E u \in Threads : y \in fetching'[u]) <=> (\E u \in Threads : y \in fetching[u])
    BY <1>7, <2>1
  <2>2. ~\E u \in Threads : x \in fetching'[u]
    BY <1>5, <1>7
  <2> QED
    BY <1>3, <1>6, <2>1, <2>2 DEF LivesOK
<1>11. \A u, v \in Threads : u # v => fetching'[u] \cap fetching'[v] = {}
  BY <1>3, <1>7 DEF LivesOK
<1>h. /\ held' \in [Threads -> SUBSET Items]
      /\ \A u \in Threads : \A y \in held'[u] : itemState'[y] \in {"Normal", "Freed"}
  <2>1. \A u \in Threads : x \notin held[u]
    BY <1>3, <1>5 DEF LivesOK
  <2>2. CASE itemState[x] = "Delete"
    BY <1>1, <1>3, <1>6, <2>1, <2>2 DEF LivesOK
  <2>3. CASE itemState[x] # "Delete"
    <3>1. held' = [held EXCEPT ![t] = held[t] \cup {x}] /\ held \in [Threads -> SUBSET Items]
      BY <1>1, <1>3, <2>3 DEF LivesOK
    <3>2. \A u \in Threads : held'[u] = IF u = t THEN held[t] \cup {x} ELSE held[u]
      BY <3>1
    <3>3. \A u \in Threads : \A y \in held[u] : itemState'[y] \in {"Normal", "Freed"}
      BY <1>3, <1>6, <2>1 DEF LivesOK
    <3>4. itemState'[x] = "Normal"
      BY <1>4, <1>6, <2>3
    <3> QED
      BY <1>4, <3>1, <3>2, <3>3, <3>4
  <2> QED
    BY <2>2, <2>3
<1>12. LivesOK'
  BY <1>8, <1>9, <1>10, <1>11, <1>h DEF LivesOK
<1> QED
  BY <1>2, <1>12 DEF IInv

LEMMA ItemsUpdatedOK ==
  ASSUME IInv, NEW t \in Threads, ItemsUpdated(t)
  PROVE  IInv' /\ KeepsCursor
<1>1. /\ held' = [held EXCEPT ![t] = {}]
      /\ UNCHANGED <<lists, current, modes, itemState, fetching, aborted>>
  BY DEF ItemsUpdated
<1>2. ListsOK' /\ CursorOK' /\ ModesOK' /\ KeepsCursor
  BY <1>1, UnseenStep DEF IInv
<1>3. held \in [Threads -> SUBSET Items]
  BY DEF IInv, LivesOK
<1>4. \A u \in Threads : held'[u] \subseteq held[u]
  BY <1>1, <1>3
<1>5. held' \in [Threads -> SUBSET Items]
  BY <1>1, <1>3
<1>6. LivesOK'
  BY <1>1, <1>4, <1>5 DEF IInv, LivesOK, lists
<1> QED
  BY <1>2, <1>6 DEF IInv
-----------------------------------------------------------------------------
\* The actions preserve the invariant

LEMMA ShuffleAgain ==
  ASSUME ListsOK, masterList' = masterList,
         shuffleList' = shuffleList \/ shuffleList' \in Arrangements(ItemsOf(shuffleList))
  PROVE  ListsOK'
<1>1. ItemsOf(shuffleList) \in SUBSET Items
  BY DEF ListsOK, ItemsOf
<1>2. /\ shuffleList' \in Seq(Items) /\ Distinct(shuffleList')
      /\ ItemsOf(shuffleList') = ItemsOf(shuffleList)
  <2>1. CASE shuffleList' = shuffleList
    BY <2>1 DEF ListsOK, ShuffleIsArrangement
  <2>2. CASE shuffleList' \in Arrangements(ItemsOf(shuffleList))
    BY <1>1, <2>2, ArrangementIsList
  <2> QED
    BY <2>1, <2>2
<1> QED
  BY <1>2 DEF ListsOK, ShuffleIsArrangement

LEMMA GotoOK ==
  ASSUME IInv, NEW user \in BOOLEAN, NEW index \in Int, NEW wrapped \in Int, NEW end \in Int,
         masterList # <<>> => wrapped \in Indices(masterList),
         end \in Indices(masterList) \/ end = current, Goto(user, index, wrapped, end)
  PROVE  IInv' /\ KeepsCursor
<1>1. /\ ~aborted /\ masterList' = masterList /\ UNCHANGED <<modes, lives, aborted>>
      /\ shuffleList' = shuffleList \/ shuffleList' \in Arrangements(ItemsOf(shuffleList))
      /\ \/ UNCHANGED current
         \/ masterList # <<>> /\ current' \in Indices(masterList)
  BY DEF Goto
<1>2. ListsOK'
  BY <1>1, ShuffleAgain DEF IInv
<1>3. CursorOK' /\ KeepsCursor
  <2>1. CASE UNCHANGED current
    BY <1>1, <2>1 DEF IInv, CursorOK, KeepsCursor, HasCursor
  <2>2. CASE masterList # <<>> /\ current' \in Indices(masterList)
    BY <1>1, <2>2 DEF CursorOK, KeepsCursor, HasCursor
  <2> QED
    BY <1>1, <2>1, <2>2
<1>4. ModesOK' /\ LivesOK'
  BY <1>1, LivesFrame DEF IInv, ModesOK, modes
<1> QED
  BY <1>2, <1>3, <1>4 DEF IInv

LEMMA SetOK ==
  ASSUME IInv, NEW i \in Int, SetCurrentIndex(i)
  PROVE  IInv' /\ (aborted' => shuffle) /\ (i \in Indices(masterList) => KeepsCursor)
<1>1. UNCHANGED <<lists, modes, lives>> /\ SetCurrentIndexTo(i) /\ masterList' = masterList
  BY DEF SetCurrentIndex, lists
<1>2. ListsOK' /\ shuffle \in BOOLEAN /\ LivesOK'
  BY <1>1, LivesFrame DEF IInv, ListsOK, ShuffleIsArrangement, ModesOK, lists
<1>3. /\ CursorOK' /\ aborted' \in BOOLEAN /\ (aborted' => shuffle)
      /\ i \in Indices(masterList') => current' \in Indices(masterList') /\ ~aborted'
  BY <1>1, <1>2, SetCurrentIndexOK
<1>4. masterList \in Seq(Items)
  BY DEF IInv, ListsOK
<1>5. ASSUME i \in Indices(masterList) PROVE KeepsCursor
  <2>1. masterList' # <<>>
    BY <1>1, <1>4, <1>5, EmptyList
  <2> QED
    BY <1>1, <1>3, <1>5, <2>1 DEF KeepsCursor, HasCursor
<1> QED
  BY <1>1, <1>2, <1>3, <1>5 DEF IInv, ModesOK, modes

LEMMA CursorStep ==
  ASSUME IInv, Cursor
  PROVE  IInv' /\ (KeepsCursor \/ (SetIndexOutside /\ (aborted' => shuffle)))
<1>1. masterList \in Seq(Items) /\ Len(masterList) \in Nat
  BY DEF IInv, ListsOK
<1>2. masterList # <<>> => 0 \in Indices(masterList) /\ Len(masterList) - 1 \in Indices(masterList)
  BY <1>1, EmptyList DEF Indices
<1>3. current \in Int /\ Len(masterList) - 1 \in Int
  BY <1>1 DEF IInv, CursorOK, Indices, kInvalidIndex
<1>4. ASSUME NEW i \in Indices(masterList), SetCurrentIndex(i)
      PROVE  IInv' /\ KeepsCursor
  BY <1>1, <1>4, SetOK DEF Indices
<1>5. ASSUME SetIndexOutside
      PROVE  IInv' /\ (aborted' => shuffle)
  BY <1>1, <1>5, SetOK DEF SetIndexOutside
<1>6. ASSUME NEW user \in BOOLEAN, GotoNextItem(user)
      PROVE  IInv' /\ KeepsCursor
  <2>1. current + 1 \in Int
    BY <1>3
  <2> QED
    BY <1>2, <1>3, <1>6, <2>1, GotoOK DEF GotoNextItem
<1>7. ASSUME NEW user \in BOOLEAN, GotoPreviousItem(user)
      PROVE  IInv' /\ KeepsCursor
  <2>1. current - 1 \in Int
    BY <1>3
  <2> QED
    BY <1>2, <1>3, <1>7, <2>1, GotoOK DEF GotoPreviousItem
<1>8. ASSUME NEW mode \in RepeatModes, SetRepeatMode(mode)
      PROVE  IInv' /\ KeepsCursor
  <2>1. ~aborted /\ UNCHANGED <<lists, current, shuffle, lives, aborted>> /\ repeatMode' = mode
    BY <1>8 DEF SetRepeatMode
  <2>2. ListsOK' /\ CursorOK' /\ LivesOK' /\ KeepsCursor
    BY <2>1, LivesFrame
       DEF IInv, ListsOK, ShuffleIsArrangement, CursorOK, KeepsCursor, HasCursor, lists
  <2> QED
    BY <2>1, <2>2 DEF IInv, ModesOK
<1>9. ASSUME ReadOutside
      PROVE  IInv' /\ KeepsCursor
  <2>1. ~HasCursor /\ aborted' = TRUE /\ UNCHANGED <<lists, current, modes, lives>>
    BY <1>9 DEF ReadOutside
  <2>2. ListsOK' /\ CursorOK' /\ LivesOK' /\ KeepsCursor
    BY <2>1, LivesFrame
       DEF IInv, ListsOK, ShuffleIsArrangement, CursorOK, KeepsCursor, lists
  <2> QED
    BY <2>1, <2>2 DEF IInv, ModesOK, modes
<1> QED
  BY <1>4, <1>5, <1>6, <1>7, <1>8, <1>9 DEF Cursor

LEMMA AddItemsOK ==
  ASSUME IInv, NEW S \in SUBSET Items, S # {}, NEW new \in Arrangements(S),
         NEW index \in 0 .. Len(masterList), NEW query \in BOOLEAN,
         AddItems(new, index, query)
  PROVE  IInv' /\ KeepsCursor
<1> USE DEF kInvalidIndex
<1>1. /\ ~aborted /\ \A x \in ItemsOf(new) : itemState[x] = "Unborn"
      /\ masterList' = Insert(masterList, index, new)
      /\ \E order \in Arrangements(ItemsOf(new)) :
           shuffleList' = Insert(shuffleList, Len(shuffleList), order)
      /\ IF current = kInvalidIndex THEN current' = 0 /\ UNCHANGED aborted
         ELSE IF index <= current
         THEN SetCurrentIndexTo(InternalIndexOf(masterList', GetCurrentItem))
         ELSE UNCHANGED <<current, aborted>>
      /\ RetrieveMetaData(ItemsOf(new), query)
      /\ UNCHANGED modes
  BY DEF AddItems
<1>2. new \in Seq(Items) /\ Distinct(new) /\ ItemsOf(new) = S
  BY ArrangementIsList
<1>3. PICK order \in Arrangements(S) :
        shuffleList' = Insert(shuffleList, Len(shuffleList), order)
  BY <1>1, <1>2
<1>4. order \in Seq(Items) /\ Distinct(order) /\ ItemsOf(order) = S
  BY ArrangementIsList
<1>5. /\ masterList \in Seq(Items) /\ shuffleList \in Seq(Items)
      /\ Distinct(masterList) /\ Distinct(shuffleList)
      /\ ItemsOf(masterList) = ItemsOf(shuffleList)
      /\ LivesOK
  BY DEF IInv, ListsOK, ShuffleIsArrangement
<1>6. ItemsOf(masterList) \cap S = {}
  BY <1>1, <1>2, <1>5 DEF LivesOK
<1>7. /\ masterList' \in Seq(Items) /\ Distinct(masterList')
      /\ ItemsOf(masterList') = ItemsOf(masterList) \cup S
      /\ Len(masterList') = Len(masterList) + Len(new)
  BY <1>1, <1>2, <1>5, <1>6, InsertList
<1>8. /\ shuffleList' \in Seq(Items) /\ Distinct(shuffleList')
      /\ ItemsOf(shuffleList') = ItemsOf(shuffleList) \cup S
  <2>1. Len(shuffleList) \in 0 .. Len(shuffleList)
    BY <1>5
  <2> QED
    BY <1>3, <1>4, <1>5, <1>6, <2>1, InsertList
<1>9. ListsOK'
  BY <1>5, <1>7, <1>8 DEF ListsOK, ShuffleIsArrangement
<1>10. LivesOK'
  BY <1>1, <1>2, <1>5, <1>7, RetrieveOK
<1>11. masterList' # <<>>
  BY <1>7, EmptyList
<1>12. CursorOK' /\ aborted' \in BOOLEAN /\ KeepsCursor
  <2>1. CASE current = kInvalidIndex
    <3>1. 0 \in Indices(masterList')
      BY <1>7, <1>11, EmptyList DEF Indices
    <3> QED
      BY <1>1, <1>11, <2>1, <3>1 DEF IInv, ModesOK, CursorOK, KeepsCursor, HasCursor
  <2>2. CASE current # kInvalidIndex
    <3>1. masterList # <<>> /\ HasCursor
      BY <2>2, CursorOrNone
    <3>2. GetCurrentItem \in ItemsOf(masterList) /\ current \in Indices(masterList)
      BY <3>1, CurrentItemListed
    <3>3. CASE index <= current
      <4>1. InternalIndexOf(masterList', GetCurrentItem) \in Indices(masterList')
        BY <1>7, <3>2, IndexFound
      <4>2. InternalIndexOf(masterList', GetCurrentItem) \in Int
        BY <1>7, <4>1 DEF Indices
      <4>3. SetCurrentIndexTo(InternalIndexOf(masterList', GetCurrentItem))
        BY <1>1, <2>2, <3>3
      <4>4. shuffle \in BOOLEAN
        BY DEF IInv, ModesOK
      <4>5. CursorOK' /\ aborted' \in BOOLEAN /\ ~aborted' /\ current' \in Indices(masterList')
        BY <1>9, <4>1, <4>2, <4>3, <4>4, SetCurrentIndexOK
      <4> QED
        BY <1>11, <4>5 DEF KeepsCursor, HasCursor
    <3>4. CASE ~(index <= current)
      <4>1. current' = current /\ aborted' = aborted
        BY <1>1, <2>2, <3>4
      <4>2. current \in Indices(masterList')
        BY <1>2, <1>5, <1>7, <3>2 DEF Indices
      <4> QED
        BY <1>11, <4>1, <4>2 DEF IInv, ModesOK, CursorOK, KeepsCursor, HasCursor
    <3> QED
      BY <3>3, <3>4
  <2> QED
    BY <2>1, <2>2
<1> QED
  BY <1>1, <1>9, <1>10, <1>12 DEF IInv, ModesOK, modes

\* The end of the methods that remove the items of S
LEMMA RemovalOK ==
  ASSUME IInv, NEW S \in SUBSET ItemsOf(masterList), NEW index \in Int,
         masterList' \in Seq(Items), Distinct(masterList'),
         ItemsOf(masterList') = ItemsOf(masterList) \ S,
         shuffleList' \in Seq(Items), Distinct(shuffleList'),
         ItemsOf(shuffleList') = ItemsOf(shuffleList) \ S,
         Dispose(S), FindCurrent(GetCurrentItem, index),
         HasCursor /\ masterList' # <<>> => index \in Nat,
         UNCHANGED <<modes, fetching, held>>
  PROVE  IInv' /\ KeepsCursor
<1> USE DEF kInvalidIndex
<1>1. ListsOK'
  BY DEF IInv, ListsOK, ShuffleIsArrangement
<1>2. LivesOK'
  BY DisposeOK DEF IInv
<1>3. shuffle \in BOOLEAN
  BY DEF IInv, ModesOK
<1> DEFINE target == IF GetCurrentItem \in ItemsOf(masterList')
                     THEN InternalIndexOf(masterList', GetCurrentItem)
                     ELSE IF index # kInvalidIndex /\ index >= Len(masterList')
                     THEN Len(masterList') - 1 ELSE index
<1>4. SetCurrentIndexTo(target)
  BY DEF FindCurrent
<1>5. Len(masterList') \in Nat
  OBVIOUS
<1>6. target \in Int /\ (HasCursor /\ masterList' # <<>> => target \in Indices(masterList'))
  <2>1. CASE GetCurrentItem \in ItemsOf(masterList')
    <3>1. target \in Indices(masterList')
      BY <2>1, IndexFound
    <3> QED
      BY <1>5, <3>1 DEF Indices
  <2>2. CASE GetCurrentItem \notin ItemsOf(masterList')
    <3>1. target = IF index # kInvalidIndex /\ index >= Len(masterList')
                   THEN Len(masterList') - 1 ELSE index
      BY <2>2
    <3>2. masterList' # <<>> => Len(masterList') > 0
      BY EmptyList
    <3> HIDE DEF target
    <3> QED
      BY <1>5, <3>1, <3>2 DEF Indices
  <2> QED
    BY <2>1, <2>2
<1>7. /\ CursorOK' /\ aborted' \in BOOLEAN /\ (aborted' => shuffle)
      /\ target \in Indices(masterList') => current' \in Indices(masterList') /\ ~aborted'
      /\ target \notin Indices(masterList') => current' = kInvalidIndex
  <2> HIDE DEF target
  <2> QED
    BY <1>1, <1>3, <1>4, <1>6, SetCurrentIndexOK
<1>8. KeepsCursor
  <2> HIDE DEF target
  <2>1. masterList' = <<>> => target \notin Indices(masterList')
    BY EmptyList
  <2> QED
    BY <1>6, <1>7, <2>1 DEF KeepsCursor, HasCursor
<1> QED
  BY <1>1, <1>2, <1>7, <1>8 DEF IInv, ModesOK, modes

LEMMA RemoveItemOK ==
  ASSUME IInv, NEW index \in Indices(masterList), RemoveItem(index)
  PROVE  IInv' /\ KeepsCursor
<1> USE DEF kInvalidIndex
<1> DEFINE item == ItemAt(masterList, index)
           at == InternalIndexOf(shuffleList, item)
<1>1. /\ masterList' = Erase(masterList, index) /\ shuffleList' = Erase(shuffleList, at)
      /\ Dispose({item})
      /\ FindCurrent(GetCurrentItem, IF masterList' = <<>> THEN kInvalidIndex ELSE current)
      /\ UNCHANGED <<modes, fetching, held>>
  BY DEF RemoveItem
<1>2. /\ masterList \in Seq(Items) /\ shuffleList \in Seq(Items)
      /\ Distinct(masterList) /\ Distinct(shuffleList)
      /\ ItemsOf(masterList) = ItemsOf(shuffleList)
  BY DEF IInv, ListsOK, ShuffleIsArrangement
<1>3. masterList # <<>>
  BY <1>2, EmptyList
<1>4. /\ masterList' \in Seq(Items) /\ Distinct(masterList')
      /\ ItemsOf(masterList') = ItemsOf(masterList) \ {item}
      /\ item \in ItemsOf(masterList)
  BY <1>1, <1>2, EraseList
<1>5. at \in Indices(shuffleList) /\ ItemAt(shuffleList, at) = item
  BY <1>2, <1>4, IndexFound
<1>6. /\ shuffleList' \in Seq(Items) /\ Distinct(shuffleList')
      /\ ItemsOf(shuffleList') = ItemsOf(shuffleList) \ {item}
  <2> HIDE DEF at, item
  <2> QED
    BY <1>1, <1>2, <1>5, EraseList
<1>7. HasCursor => current \in Nat
  BY <1>2, <1>3, CurrentItemListed DEF Indices
<1>8. (IF masterList' = <<>> THEN kInvalidIndex ELSE current) \in Int
  BY <1>2 DEF IInv, CursorOK, Indices
<1> HIDE DEF item
<1> QED
  BY <1>1, <1>4, <1>6, <1>7, <1>8, RemovalOK

LEMMA RemoveItemsOK ==
  ASSUME IInv, NEW S \in SUBSET ItemsOf(masterList), RemoveItems(S)
  PROVE  IInv' /\ KeepsCursor
<1>1. /\ masterList # <<>>
      /\ masterList' \in Arrangements(ItemsOf(masterList) \ S)
      /\ shuffleList' \in Arrangements(ItemsOf(shuffleList) \ S)
      /\ Dispose(S) /\ FindCurrent(GetCurrentItem, current)
      /\ UNCHANGED <<modes, fetching, held>>
  BY DEF RemoveItems, Without
<1>2. /\ masterList \in Seq(Items) /\ shuffleList \in Seq(Items)
  BY DEF IInv, ListsOK
<1>3. /\ ItemsOf(masterList) \ S \in SUBSET Items
      /\ ItemsOf(shuffleList) \ S \in SUBSET Items
  BY <1>2 DEF ItemsOf
<1>4. /\ masterList' \in Seq(Items) /\ Distinct(masterList')
      /\ ItemsOf(masterList') = ItemsOf(masterList) \ S
      /\ shuffleList' \in Seq(Items) /\ Distinct(shuffleList')
      /\ ItemsOf(shuffleList') = ItemsOf(shuffleList) \ S
  BY <1>1, <1>3, ArrangementIsList
<1>5. HasCursor => current \in Nat
  BY <1>1, <1>2, CurrentItemListed DEF Indices
<1>6. current \in Int
  BY <1>2 DEF IInv, CursorOK, Indices, kInvalidIndex
<1> QED
  BY <1>1, <1>4, <1>5, <1>6, RemovalOK

LEMMA RemoveAllOK ==
  ASSUME IInv, RemoveAll
  PROVE  IInv' /\ KeepsCursor
<1>1. /\ ~aborted /\ masterList' = <<>> /\ shuffleList' = <<>> /\ current' = kInvalidIndex
      /\ Dispose(ItemsOf(masterList))
      /\ UNCHANGED <<modes, fetching, held, aborted>>
  BY DEF RemoveAll
<1>2. <<>> \in Seq(Items) /\ Distinct(<<>>) /\ ItemsOf(<<>>) = {}
  BY DEF Distinct, ItemsOf
<1>3. ListsOK' /\ CursorOK' /\ KeepsCursor
  BY <1>1, <1>2 DEF ListsOK, ShuffleIsArrangement, CursorOK, KeepsCursor, HasCursor
<1>4. LivesOK'
  BY <1>1, <1>2, DisposeOK DEF IInv
<1> QED
  BY <1>1, <1>3, <1>4 DEF IInv, ModesOK, modes

\* Sort and MoveItems leave the same items in the list and look the cursor up.
LEMMA ReorderOK ==
  ASSUME IInv, masterList' \in Seq(Items), Distinct(masterList'),
         ItemsOf(masterList') = ItemsOf(masterList),
         masterList # <<>>, UNCHANGED <<shuffleList, modes, lives>>,
         SetCurrentIndexTo(InternalIndexOf(masterList', GetCurrentItem))
  PROVE  IInv' /\ KeepsCursor
<1> DEFINE found == InternalIndexOf(masterList', GetCurrentItem)
<1>1. ListsOK' /\ shuffle \in BOOLEAN
  BY DEF IInv, ListsOK, ShuffleIsArrangement, ModesOK
<1>2. LivesOK'
  BY LivesFrame DEF IInv
<1>3. HasCursor => found \in Indices(masterList')
  BY CurrentItemListed, IndexFound
<1>4. found \in Int
  BY IndexTyped
<1>5. /\ CursorOK' /\ aborted' \in BOOLEAN
      /\ found \in Indices(masterList') => current' \in Indices(masterList') /\ ~aborted'
  <2> HIDE DEF found
  <2>1. SetCurrentIndexTo(found)
    BY DEF found
  <2> QED
    BY <1>1, <1>4, <2>1, SetCurrentIndexOK
<1>6. KeepsCursor
  <2> HIDE DEF found
  <2>1. found \in Indices(masterList') => masterList' # <<>>
    BY EmptyList
  <2> QED
    BY <1>3, <1>5, <2>1 DEF KeepsCursor, HasCursor
<1> QED
  BY <1>1, <1>2, <1>5, <1>6 DEF IInv, ModesOK, modes

LEMMA SortOK ==
  ASSUME IInv, Sort
  PROVE  IInv' /\ KeepsCursor
<1>1. /\ masterList' \in Arrangements(ItemsOf(masterList))
      /\ UNCHANGED <<shuffleList, modes, lives>>
      /\ IF masterList = <<>> THEN UNCHANGED <<current, aborted>>
         ELSE SetCurrentIndexTo(InternalIndexOf(masterList', GetCurrentItem))
  BY DEF Sort
<1>2. masterList \in Seq(Items) /\ ItemsOf(masterList) \in SUBSET Items
  BY DEF IInv, ListsOK, ItemsOf
<1>3. /\ masterList' \in Seq(Items) /\ Distinct(masterList')
      /\ ItemsOf(masterList') = ItemsOf(masterList)
  BY <1>1, <1>2, ArrangementIsList
<1>4. CASE masterList = <<>>
  <2>1. masterList' = <<>>
    BY <1>2, <1>3, <1>4, EmptyList
  <2> QED
    BY <1>1, <1>4, <2>1, LivesFrame
       DEF IInv, ListsOK, ShuffleIsArrangement, CursorOK, KeepsCursor, HasCursor, ModesOK, modes
<1>5. CASE masterList # <<>>
  BY <1>1, <1>3, <1>5, ReorderOK
<1> QED
  BY <1>4, <1>5

LEMMA MoveItemsOK ==
  ASSUME IInv, NEW S \in SUBSET ItemsOf(masterList), NEW moved \in Arrangements(S),
         NEW index \in Int, MoveItems(moved, index)
  PROVE  IInv' /\ KeepsCursor
<1>1. /\ masterList # <<>> /\ UNCHANGED <<shuffleList, modes, lives>>
      /\ SetCurrentIndexTo(InternalIndexOf(masterList', GetCurrentItem))
      /\ \E rest \in Without(masterList, ItemsOf(moved)) : \E at \in 0 .. Len(rest) :
           masterList' = Insert(rest, at, moved)
  BY DEF MoveItems
<1>2. masterList \in Seq(Items) /\ ItemsOf(masterList) \in SUBSET Items
  BY DEF IInv, ListsOK, ItemsOf
<1>3. moved \in Seq(Items) /\ Distinct(moved) /\ ItemsOf(moved) = S
  BY <1>2, ArrangementIsList
<1>4. PICK rest \in Arrangements(ItemsOf(masterList) \ S) :
        \E at \in 0 .. Len(rest) : masterList' = Insert(rest, at, moved)
  BY <1>1, <1>3 DEF Without
<1>at. PICK at \in 0 .. Len(rest) : masterList' = Insert(rest, at, moved)
  BY <1>4
<1>5. rest \in Seq(Items) /\ Distinct(rest) /\ ItemsOf(rest) = ItemsOf(masterList) \ S
  BY <1>2, ArrangementIsList
<1>6. /\ masterList' \in Seq(Items) /\ Distinct(masterList')
      /\ ItemsOf(masterList') = ItemsOf(rest) \cup ItemsOf(moved)
  BY <1>3, <1>at, <1>5, InsertList
<1>7. ItemsOf(masterList') = ItemsOf(masterList)
  BY <1>3, <1>5, <1>6
<1> QED
  BY <1>1, <1>6, <1>7, ReorderOK

LEMMA SwapItemsOK ==
  ASSUME IInv, NEW i \in Indices(masterList), NEW j \in Indices(masterList), SwapItems(i, j)
  PROVE  IInv' /\ KeepsCursor
<1> USE DEF kInvalidIndex
<1> DEFINE l == masterList
           n == Len(masterList)
           r == masterList'
<1>1. /\ ~aborted /\ r = [l EXCEPT ![i + 1] = ItemAt(l, j), ![j + 1] = ItemAt(l, i)]
      /\ current' = IF current = i THEN j ELSE IF current = j THEN i ELSE current
      /\ UNCHANGED <<shuffleList, modes, lives, aborted>>
  BY DEF SwapItems
<1>2. l \in Seq(Items) /\ Distinct(l) /\ n \in Nat
  BY DEF IInv, ListsOK, ShuffleIsArrangement
<1>3. i + 1 \in 1 .. n /\ j + 1 \in 1 .. n /\ ItemAt(l, i) = l[i + 1] /\ ItemAt(l, j) = l[j + 1]
  BY <1>2 DEF Indices, ItemAt
<1>4. l \in [1 .. n -> Items]
  BY <1>2
<1>5. /\ r \in [1 .. n -> Items]
      /\ \A k \in 1 .. n : r[k] = IF k = j + 1 THEN l[i + 1]
                                  ELSE IF k = i + 1 THEN l[j + 1] ELSE l[k]
  <2> HIDE DEF l, n, r
  <2> QED
    BY <1>1, <1>3, <1>4
<1>6. r \in Seq(Items) /\ Len(r) = n
  BY <1>2, <1>5
<1>7. \A k, m \in 1 .. n : l[k] = l[m] => k = m
  BY <1>2 DEF Distinct
<1>8. Distinct(r)
  <2> HIDE DEF l, n, r
  <2>1. \A k, m \in 1 .. n : r[k] = r[m] => k = m
    BY <1>3, <1>5, <1>7
  <2> QED
    BY <1>6, <2>1 DEF Distinct
<1>9. ItemsOf(r) = ItemsOf(l)
  <2> HIDE DEF l, r
  <2>1. \A k \in 1 .. n : \E m \in 1 .. n : r[k] = l[m]
    BY <1>3, <1>5
  <2>2. \A k \in 1 .. n : \E m \in 1 .. n : l[k] = r[m]
    <3>1. SUFFICES ASSUME NEW k \in 1 .. n PROVE \E m \in 1 .. n : l[k] = r[m]
      OBVIOUS
    <3>2. CASE k = i + 1
      BY <1>3, <1>5, <3>2
    <3>3. CASE k = j + 1
      <4>1. l[k] = r[i + 1]
        BY <1>3, <1>5, <3>3
      <4> QED
        BY <1>3, <4>1
    <3>4. CASE k # i + 1 /\ k # j + 1
      BY <1>5, <3>4
    <3> QED
      BY <3>2, <3>3, <3>4
  <2>3. ItemsOf(r) = {r[k] : k \in 1 .. n} /\ ItemsOf(l) = {l[k] : k \in 1 .. n}
    BY <1>6 DEF ItemsOf, l
  <2> HIDE DEF n
  <2> QED
    BY <2>1, <2>2, <2>3
<1>10. ListsOK'
  BY <1>1, <1>6, <1>8, <1>9 DEF IInv, ListsOK, ShuffleIsArrangement
<1>11. LivesOK'
  BY <1>1, <1>9, LivesFrame DEF IInv
<1>12. masterList # <<>> /\ r # <<>>
  BY <1>2, <1>6, EmptyList
<1>13. /\ HasCursor => current' \in Indices(r)
       /\ ~HasCursor => current' = kInvalidIndex
  <2>1. Indices(r) = Indices(l)
    BY <1>6 DEF Indices
  <2>2. CASE HasCursor
    <3>1. current \in Indices(l)
      BY <1>12, <2>2, CursorOrNone
    <3> QED
      BY <1>1, <2>1, <2>2, <3>1
  <2>3. CASE ~HasCursor
    <3>1. current = kInvalidIndex /\ current # i /\ current # j
      BY <1>2, <1>12, <2>3, CursorOrNone DEF Indices
    <3> QED
      BY <1>1, <2>3, <3>1
  <2> QED
    BY <2>2, <2>3
<1>14. CursorOK' /\ KeepsCursor
  BY <1>1, <1>12, <1>13 DEF CursorOK, KeepsCursor, HasCursor
<1> QED
  BY <1>1, <1>10, <1>11, <1>14 DEF IInv, ModesOK, modes

LEMMA MoveItemOK ==
  ASSUME IInv, NEW i \in Indices(masterList), NEW j \in Indices(masterList), MoveItem(i, j)
  PROVE  IInv' /\ KeepsCursor
<1> USE DEF kInvalidIndex
<1> DEFINE item == ItemAt(masterList, i)
           rest == Erase(masterList, i)
<1>1. /\ ~aborted /\ masterList' = Insert(rest, j, <<item>>)
      /\ current' = IF i = current THEN j
                    ELSE IF j = current THEN IF i > current THEN current + 1 ELSE current - 1
                    ELSE current
      /\ UNCHANGED <<shuffleList, modes, lives, aborted>>
  BY DEF MoveItem
<1>2. masterList \in Seq(Items) /\ Distinct(masterList) /\ Len(masterList) \in Nat
  BY DEF IInv, ListsOK, ShuffleIsArrangement
<1>3. /\ rest \in Seq(Items) /\ Distinct(rest) /\ Len(rest) = Len(masterList) - 1
      /\ ItemsOf(rest) = ItemsOf(masterList) \ {item} /\ item \in ItemsOf(masterList)
  BY <1>2, EraseList
<1>4. <<item>> \in Seq(Items) /\ Distinct(<<item>>) /\ ItemsOf(<<item>>) = {item}
      /\ Len(<<item>>) = 1
  <2>1. item \in Items
    BY <1>2, <1>3 DEF ItemsOf
  <2> HIDE DEF item
  <2> QED
    BY <2>1 DEF Distinct, ItemsOf
<1>5. j \in 0 .. Len(rest)
  BY <1>2, <1>3 DEF Indices
<1>6. /\ masterList' \in Seq(Items) /\ Distinct(masterList')
      /\ ItemsOf(masterList') = ItemsOf(rest) \cup {item}
      /\ Len(masterList') = Len(masterList)
  <2> HIDE DEF item, rest
  <2>1. ItemsOf(rest) \cap ItemsOf(<<item>>) = {}
    BY <1>3, <1>4
  <2>2. Len(masterList') = Len(rest) + 1
    BY <1>1, <1>3, <1>4, <1>5, <2>1, InsertList
  <2>3. Len(masterList') = Len(masterList)
    BY <1>2, <1>3, <2>2
  <2>4. /\ masterList' \in Seq(Items) /\ Distinct(masterList')
        /\ ItemsOf(masterList') = ItemsOf(rest) \cup ItemsOf(<<item>>)
    BY <1>1, <1>3, <1>4, <1>5, <2>1, InsertList
  <2> QED
    BY <1>4, <2>3, <2>4
<1>7. ItemsOf(masterList') = ItemsOf(masterList)
  BY <1>3, <1>6
<1>8. ListsOK'
  BY <1>1, <1>6, <1>7 DEF IInv, ListsOK, ShuffleIsArrangement
<1>9. LivesOK'
  BY <1>1, <1>7, LivesFrame DEF IInv
<1>10. masterList # <<>> /\ masterList' # <<>>
  BY <1>2, <1>6, EmptyList
<1>11. /\ HasCursor => current' \in Indices(masterList')
       /\ ~HasCursor => current' = kInvalidIndex
  <2>1. CASE HasCursor
    <3>1. current \in Indices(masterList)
      BY <1>10, <2>1, CursorOrNone
    <3> QED
      BY <1>1, <1>2, <1>6, <2>1, <3>1 DEF Indices
  <2>2. CASE ~HasCursor
    <3>1. current = kInvalidIndex /\ current # i /\ current # j
      BY <1>2, <1>10, <2>2, CursorOrNone DEF Indices
    <3> QED
      BY <1>1, <2>2, <3>1
  <2> QED
    BY <2>1, <2>2
<1>12. CursorOK' /\ KeepsCursor
  BY <1>1, <1>10, <1>11 DEF CursorOK, KeepsCursor, HasCursor
<1> QED
  BY <1>1, <1>8, <1>9, <1>12 DEF IInv, ModesOK, modes

LEMMA SetShuffleModeOK ==
  ASSUME IInv, NEW on \in BOOLEAN, SetShuffleMode(on)
  PROVE  IInv' /\ KeepsCursor
<1>1. /\ ~aborted /\ shuffle' = on
      /\ shuffleList' \in IF on THEN Arrangements(ItemsOf(shuffleList)) ELSE {shuffleList}
      /\ current' = IF masterList = <<>> THEN current
                    ELSE InternalIndexOf(IF on THEN shuffleList' ELSE masterList, GetCurrentItem)
      /\ UNCHANGED <<masterList, repeatMode, lives, aborted>>
  BY DEF SetShuffleMode
<1>2. ListsOK' /\ masterList' = masterList
  BY <1>1, ShuffleAgain DEF IInv
<1>3. LivesOK' /\ ModesOK'
  BY <1>1, LivesFrame DEF IInv, ModesOK
<1>4. CASE masterList = <<>>
  BY <1>1, <1>2, <1>3, <1>4 DEF IInv, CursorOK, KeepsCursor, HasCursor
<1>5. CASE masterList # <<>>
  <2>1. /\ masterList \in Seq(Items) /\ shuffleList' \in Seq(Items)
        /\ ItemsOf(shuffleList') = ItemsOf(masterList)
        /\ Len(shuffleList') = Len(masterList)
    BY <1>2, SameLength DEF ListsOK, ShuffleIsArrangement
  <2>2. Indices(shuffleList') = Indices(masterList)
    BY <2>1 DEF Indices
  <2>3. current' \in {kInvalidIndex} \cup Indices(masterList)
    BY <1>1, <1>5, <2>1, <2>2, IndexTyped
  <2>4. HasCursor => current' \in Indices(masterList)
    <3>1. SUFFICES ASSUME HasCursor PROVE current' \in Indices(masterList)
      OBVIOUS
    <3>2. GetCurrentItem \in ItemsOf(masterList)
      BY <1>5, <3>1, CurrentItemListed
    <3>3. CASE on
      BY <1>1, <1>5, <2>1, <2>2, <3>2, <3>3, IndexFound
    <3>4. CASE ~on
      BY <1>1, <1>5, <2>1, <3>2, <3>4, IndexFound
    <3> QED
      BY <3>3, <3>4
  <2>5. CursorOK' /\ KeepsCursor
    BY <1>1, <1>2, <1>5, <2>3, <2>4 DEF CursorOK, KeepsCursor, HasCursor
  <2> QED
    BY <1>2, <1>3, <2>5 DEF IInv
<1> QED
  BY <1>4, <1>5

LEMMA EditStep ==
  ASSUME IInv, Edit
  PROVE  IInv' /\ KeepsCursor
<1>1. \A S \in (SUBSET Items) \ {{}} : S \in SUBSET Items /\ S # {}
  OBVIOUS
<1>2. \A S \in (SUBSET ItemsOf(masterList)) \ {{}} : S \in SUBSET ItemsOf(masterList)
  OBVIOUS
<1>3. CASE \E S \in (SUBSET Items) \ {{}} : \E new \in Arrangements(S) :
             \E index \in 0 .. Len(masterList), query \in BOOLEAN : AddItems(new, index, query)
  BY <1>1, <1>3, AddItemsOK
<1>4. CASE \E index \in Indices(masterList) : RemoveItem(index)
  BY <1>4, RemoveItemOK
<1>5. CASE \E S \in (SUBSET ItemsOf(masterList)) \ {{}} : RemoveItems(S)
  BY <1>2, <1>5, RemoveItemsOK
<1>6. CASE \E on \in BOOLEAN : SetShuffleMode(on)
  BY <1>6, SetShuffleModeOK
<1>7. CASE \E S \in (SUBSET ItemsOf(masterList)) \ {{}} : \E moved \in Arrangements(S) :
             \E index \in 0 .. Len(masterList) : MoveItems(moved, index)
  <2>1. \A index \in 0 .. Len(masterList) : index \in Int
    BY DEF IInv, ListsOK
  <2> QED
    BY <1>2, <1>7, <2>1, MoveItemsOK
<1> QED
  BY <1>3, <1>4, <1>5, <1>6, <1>7, RemoveAllOK, SortOK DEF Edit

LEMMA Step ==
  ASSUME IInv, Next
  PROVE  IInv' /\ (KeepsCursor \/ (SetIndexOutside /\ (aborted' => shuffle)))
<1>1. CASE Cursor
  BY <1>1, CursorStep
<1>2. CASE Edit
  BY <1>2, EditStep
<1>3. CASE Rearrange
  BY <1>3, SwapItemsOK, MoveItemOK DEF Rearrange
<1>4. CASE \E t \in Threads : MetaDataThread(t) \/ ItemsUpdated(t)
  BY <1>4, MetaDataThreadOK, ItemsUpdatedOK
<1> QED
  BY <1>1, <1>2, <1>3, <1>4 DEF Next

LEMMA Invariant == Spec => []IInv
<1>1. ASSUME Init PROVE IInv
  <2>1. <<>> \in Seq(Items) /\ Distinct(<<>>) /\ ItemsOf(<<>>) = {}
    BY DEF Distinct, ItemsOf
  <2>2. ListsOK /\ CursorOK /\ ModesOK
    BY <1>1, <2>1 DEF Init, ListsOK, ShuffleIsArrangement, CursorOK, ModesOK
  <2>3. LivesOK
    BY <1>1, <2>1 DEF Init, LivesOK, States
  <2> QED
    BY <2>2, <2>3 DEF IInv
<1>2. ASSUME IInv, [Next]_vars PROVE IInv'
  <2>1. CASE Next
    BY <1>2, <2>1, Step
  <2>2. CASE UNCHANGED vars
    <3>1. UNCHANGED <<lists, current, modes, lives, aborted>>
      BY <2>2 DEF vars
    <3>2. LivesOK'
      BY <1>2, <3>1, LivesFrame DEF IInv, lists
    <3> QED
      BY <1>2, <3>1, <3>2, UnseenStep DEF IInv
  <2> QED
    BY <1>2, <2>1, <2>2
<1> QED
  BY <1>1, <1>2, PTL DEF Spec
-----------------------------------------------------------------------------
\* The fields keep their types, whatever the items, threads and repeat modes.
THEOREM PlaylistTypes == Spec => []TypeOK
<1>1. ASSUME IInv PROVE TypeOK
  BY <1>1 DEF IInv, ListsOK, CursorOK, ModesOK, LivesOK, TypeOK
<1> QED
  BY <1>1, Invariant, PTL

\* The shuffled list holds the items of the master list, each once.
THEOREM ShuffleKeepsItems == Spec => []ShuffleIsArrangement
<1>1. ASSUME IInv PROVE ShuffleIsArrangement
  BY <1>1 DEF IInv, ListsOK
<1> QED
  BY <1>1, Invariant, PTL

\* Only a caller that sets an index outside the list takes the cursor away, and
\* while there is one, only that or removing the last item fails the assertion.
THEOREM OnlyCallersLoseTheCursor == Spec => CursorValid
<1> DEFINE Kept == HasCursor => /\ HasCursor' \/ SetIndexOutside
                                /\ aborted' /\ ~aborted =>
                                     shuffle /\ (masterList' = <<>> \/ SetIndexOutside)
<1>1. ASSUME IInv, Next PROVE Kept
  BY <1>1, Step DEF KeepsCursor
<1>2. IInv /\ [Next]_vars => [Kept]_vars
  BY <1>1
<1>3. [][Next]_vars /\ []IInv => [][Kept]_vars
  BY <1>2, PTL
<1> QED
  BY <1>3, Invariant, PTL DEF Spec, CursorValid

\* No item of the list, and none whose metadata a thread is still to set, is freed.
THEOREM NoneEverFreedUnderThread == Spec => []NoneFreedUnderThread
<1>1. ASSUME IInv PROVE NoneFreedUnderThread
  <2>1. \A x \in ItemsOf(masterList) : x \in Items
    BY <1>1 DEF IInv, ListsOK, ItemsOf
  <2> QED
    BY <1>1, <2>1 DEF IInv, LivesOK, NoneFreedUnderThread
<1> QED
  BY <1>1, Invariant, PTL

\* Every removed item is with a thread until it is freed.
THEOREM RemovedItemsAreHeld == Spec => []NoneLeaked
<1>1. ASSUME IInv PROVE NoneLeaked
  BY <1>1 DEF IInv, LivesOK, NoneLeaked, States
<1> QED
  BY <1>1, Invariant, PTL
-----------------------------------------------------------------------------
\* The cursor stays on its item

LEMMA CursorFindsItem ==
  ASSUME ListsOK', shuffle \in BOOLEAN, UNCHANGED modes, NEW x \in ItemsOf(masterList'),
         SetCurrentIndexTo(InternalIndexOf(masterList', x))
  PROVE  GetCurrentItem' = x
<1> DEFINE i == InternalIndexOf(masterList', x)
<1>1. masterList' \in Seq(Items) /\ shuffleList' \in Seq(Items) /\ x \in ItemsOf(shuffleList')
  BY DEF ListsOK, ShuffleIsArrangement
<1>2. i \in Indices(masterList') /\ ItemAt(masterList', i) = x
  BY <1>1, IndexFound
<1>3. ItemAt(shuffleList', InternalIndexOf(shuffleList', x)) = x
  BY <1>1, IndexFound
<1>4. current' = IF shuffle THEN InternalIndexOf(shuffleList', x) ELSE i
  BY <1>2 DEF SetCurrentIndexTo
<1>5. current' # kInvalidIndex
  <2>1. i # kInvalidIndex
    BY <1>1, <1>2 DEF Indices, kInvalidIndex
  <2>2. InternalIndexOf(shuffleList', x) # kInvalidIndex
    BY <1>1, IndexFound DEF Indices, kInvalidIndex
  <2> QED
    BY <1>4, <2>1, <2>2
<1>6. GetCurrentItem' = ItemAt(IF shuffle THEN shuffleList' ELSE masterList', current')
  BY <1>5 DEF GetCurrentItem, modes
<1> QED
  BY <1>2, <1>3, <1>4, <1>6

LEMMA AddKeepsCursor ==
  ASSUME IInv, IInv', NEW S \in SUBSET Items, NEW new \in Arrangements(S),
         NEW index \in 0 .. Len(masterList), NEW query \in BOOLEAN, masterList # <<>>,
         AddItems(new, index, query), GetCurrentItem \in ItemsOf(masterList')
  PROVE  GetCurrentItem' = GetCurrentItem
<1> USE DEF kInvalidIndex
<1>1. masterList \in Seq(Items) /\ shuffleList \in Seq(Items)
  BY DEF IInv, ListsOK
<1>h. HasCursor
  <2>1. masterList' \in Seq(Items)
    BY DEF IInv, ListsOK
  <2>2. GetCurrentItem \in Items
    BY <2>1 DEF ItemsOf
  <2> QED
    BY <2>2, CurrentHasCursor
<1>2. current \in Indices(masterList) /\ Len(shuffleList) = Len(masterList)
  BY <1>h, CurrentItemListed
<1>3. current # kInvalidIndex /\ Len(masterList) \in Nat /\ current \in Nat
      /\ current < Len(masterList)
  BY <1>1, <1>2 DEF Indices
<1>4. UNCHANGED modes
  BY DEF AddItems
<1>5. CASE index <= current
  <2>1. SetCurrentIndexTo(InternalIndexOf(masterList', GetCurrentItem))
    BY <1>3, <1>5 DEF AddItems
  <2>2. ListsOK' /\ shuffle \in BOOLEAN
    BY DEF IInv, ModesOK
  <2> QED
    BY <1>4, <2>1, <2>2, CursorFindsItem
<1>6. CASE ~(index <= current)
  <2>1. current' = current
    BY <1>3, <1>6 DEF AddItems
  <2>2. masterList' = Insert(masterList, index, new)
    BY DEF AddItems
  <2>3. PICK order \in Arrangements(ItemsOf(new)) :
          shuffleList' = Insert(shuffleList, Len(shuffleList), order)
    BY DEF AddItems
  <2>4. new \in Seq(Items) /\ order \in Seq(Items)
    BY ArrangementIsList
  <2>5. current + 1 \in 1 .. Len(masterList) + Len(new) /\ current + 1 <= index
    BY <1>3, <1>6, <2>4
  <2>6. masterList'[current + 1] = masterList[current + 1]
    BY <2>2, <2>5 DEF Insert
  <2>7. current + 1 \in 1 .. Len(shuffleList) + Len(order) /\ current + 1 <= Len(shuffleList)
    BY <1>2, <1>3, <2>4
  <2>8. shuffleList'[current + 1] = shuffleList[current + 1]
    BY <2>3, <2>7 DEF Insert
  <2> QED
    BY <1>4, <2>1, <2>6, <2>8 DEF GetCurrentItem, ItemAt, modes
<1> QED
  BY <1>5, <1>6

LEMMA ShuffleKeepsCursor ==
  ASSUME IInv, IInv', NEW on \in BOOLEAN, masterList # <<>>, SetShuffleMode(on), HasCursor
  PROVE  GetCurrentItem' = GetCurrentItem
<1>1. /\ shuffle' = on /\ masterList' = masterList
      /\ current' = InternalIndexOf(IF on THEN shuffleList' ELSE masterList, GetCurrentItem)
  BY DEF SetShuffleMode
<1>2. masterList \in Seq(Items) /\ shuffleList' \in Seq(Items)
      /\ GetCurrentItem \in ItemsOf(masterList) /\ GetCurrentItem \in ItemsOf(shuffleList')
  BY <1>1, CurrentItemListed DEF IInv, ListsOK, ShuffleIsArrangement
<1>3. ItemAt(IF on THEN shuffleList' ELSE masterList, current') = GetCurrentItem
  <2>1. CASE on
    BY <1>1, <1>2, <2>1, IndexFound
  <2>2. CASE ~on
    BY <1>1, <1>2, <2>2, IndexFound
  <2> QED
    BY <2>1, <2>2
<1>n. current' # kInvalidIndex
  <2>1. HasCursor' /\ masterList' # <<>>
    BY <1>1, SetShuffleModeOK DEF KeepsCursor
  <2>2. current' \in Indices(masterList')
    BY <2>1 DEF HasCursor
  <2> QED
    BY <1>1, <1>2, <2>2 DEF Indices, kInvalidIndex
<1>4. GetCurrentItem' = ItemAt(IF on THEN shuffleList' ELSE masterList, current')
  BY <1>1, <1>n DEF GetCurrentItem
<1> QED
  BY <1>3, <1>4

LEMMA EditKeepsCursor ==
  ASSUME IInv, IInv', Edit, masterList # <<>>, GetCurrentItem \in ItemsOf(masterList')
  PROVE  GetCurrentItem' = GetCurrentItem
<1>1. ListsOK' /\ shuffle \in BOOLEAN
  BY DEF IInv, ModesOK
<1>h. HasCursor
  <2>1. GetCurrentItem \in Items
    BY <1>1 DEF ListsOK, ItemsOf
  <2> QED
    BY <2>1, CurrentHasCursor
<1>2. CASE \E S \in (SUBSET Items) \ {{}} : \E new \in Arrangements(S) :
             \E index \in 0 .. Len(masterList), query \in BOOLEAN : AddItems(new, index, query)
  <2>1. \A S \in (SUBSET Items) \ {{}} : S \in SUBSET Items
    OBVIOUS
  <2> QED
    BY <1>2, <2>1, AddKeepsCursor
<1>3. CASE \E index \in Indices(masterList) : RemoveItem(index)
  <2>1. UNCHANGED modes /\ \E i \in Int \cup {kInvalidIndex, current} : FindCurrent(GetCurrentItem, i)
    BY <1>3 DEF RemoveItem
  <2>2. SetCurrentIndexTo(InternalIndexOf(masterList', GetCurrentItem))
    BY <2>1 DEF FindCurrent
  <2> QED
    BY <1>1, <2>1, <2>2, CursorFindsItem
<1>4. CASE \E S \in (SUBSET ItemsOf(masterList)) \ {{}} : RemoveItems(S)
  <2>1. UNCHANGED modes /\ FindCurrent(GetCurrentItem, current)
    BY <1>4 DEF RemoveItems
  <2>2. SetCurrentIndexTo(InternalIndexOf(masterList', GetCurrentItem))
    BY <2>1 DEF FindCurrent
  <2> QED
    BY <1>1, <2>1, <2>2, CursorFindsItem
<1>5. CASE RemoveAll
  <2>1. ItemsOf(masterList') = {}
    BY <1>5 DEF RemoveAll, ItemsOf
  <2> QED
    BY <2>1
<1>6. CASE Sort
  <2>1. UNCHANGED modes /\ SetCurrentIndexTo(InternalIndexOf(masterList', GetCurrentItem))
    BY <1>6 DEF Sort
  <2> QED
    BY <1>1, <2>1, CursorFindsItem
<1>7. CASE \E on \in BOOLEAN : SetShuffleMode(on)
  BY <1>7, <1>h, ShuffleKeepsCursor
<1>8. CASE \E S \in (SUBSET ItemsOf(masterList)) \ {{}} : \E moved \in Arrangements(S) :
             \E index \in 0 .. Len(masterList) : MoveItems(moved, index)
  <2>1. UNCHANGED modes /\ SetCurrentIndexTo(InternalIndexOf(masterList', GetCurrentItem))
    BY <1>8 DEF MoveItems
  <2> QED
    BY <1>1, <2>1, CursorFindsItem
<1> QED
  BY <1>2, <1>3, <1>4, <1>5, <1>6, <1>7, <1>8 DEF Edit

\* Every edit other than a swap and a move leaves the cursor on its item.
THEOREM EditsKeepTheCursor == Spec => CursorStays
<1> DEFINE Parts == /\ masterList # <<>> /\ ~aborted'
                    /\ GetCurrentItem \in ItemsOf(masterList')
                    /\ GetCurrentItem' # GetCurrentItem
<1>1. ASSUME IInv, IInv', [Next]_vars, Parts
      PROVE  Cursor \/ Rearrange
  <2>1. CASE Edit
    BY <1>1, <2>1, EditKeepsCursor
  <2>2. CASE \E t \in Threads : MetaDataThread(t) \/ ItemsUpdated(t)
    BY <1>1, <2>2 DEF MetaDataThread, ItemsUpdated, GetCurrentItem, lists, modes
  <2>3. CASE UNCHANGED vars
    BY <1>1, <2>3 DEF vars, GetCurrentItem, lists, modes
  <2> QED
    BY <1>1, <2>1, <2>2, <2>3 DEF Next
<1>2. IInv /\ IInv' /\ [Next]_vars => [Parts => Cursor \/ Rearrange]_vars
  BY <1>1
<1>3. [][Next]_vars /\ []IInv => [][Parts => Cursor \/ Rearrange]_vars
  BY <1>2, PTL
<1> QED
  BY <1>3, Invariant, PTL DEF Spec, CursorStays
=============================================================================
