----------------------------- MODULE LibraryProofs -----------------------------
(***************************************************************************)
(* What the library shows and serves, proved for every value of the        *)
(* constants: the inductive invariant of each component, the properties    *)
(* that follow from it, and at the end the same of the behaviours of       *)
(* MCLibrary. The storage health comes first: the bucket a row is counted  *)
(* in and the list it is shown in are the same classification, written     *)
(* twice, and while rows stand still the pages of a list show each of them *)
(* once.                                                                   *)
(***************************************************************************)
EXTENDS MCLibrary, OrderLemmas, FiniteSetTheorems, TLAPS

ListStates == HealthStates \cup {"any"}
WalkType ==
  [at : {"idle", "page", "hydrate", "counts", "end"}, state : ListStates,
   kind : {"any", "show", "movie"}, offset : Nat, keys : SUBSET WIds, next : Nat,
   shown : [WIds -> Nat], items : SUBSET (WIds \X (HealthStates \cup {"missing", "inaccessible"}))]

\* The keys of the walk, and how many of them have been shown: those of the first places.
Walked == KeysSelect(wWalk.state, wWalk.kind)
ShownUpTo(n) ==
  \A i \in WIds :
    wWalk.shown[i] = IF i \in Walked /\ Place(Walked, wWalk.state, i) < n THEN 1 ELSE 0

\* While no row changes, what has been shown is what precedes the next page.
WalkInStep ==
  wQuiet =>
    /\ wWalk.at = "hydrate" =>
         LET page == PaginateKeys(wWalk.state, wWalk.kind, wWalk.offset) IN
         /\ ShownUpTo(wWalk.offset) /\ wWalk.keys = page.keys
         /\ wWalk.next = NextOffset(wWalk.offset, page)
    /\ wWalk.at = "page" => ShownUpTo(wWalk.next)
    /\ wWalk.at \in {"counts", "end"} => ShownUpTo(Cardinality(Walked))
    /\ wWalk.at = "end" => wCounts = CountBuckets

StorageInv == StorageTypeOK /\ wWalk \in WalkType /\ WalkInStep

(***************************************************************************)
(* The two classifications agree on every row there can be, and the SQL    *)
(* one picks exactly one class: NULL errors included.                      *)
(***************************************************************************)
LEMMA ClassesAgree ==
  ASSUME NEW r \in WCols, NEW h \in HealthStates
  PROVE  Clause(h, r) = "true" <=> ClassifySqlState(r) = h
<1>. USE StorageAssumption DEF Clause, ClassifySqlState, HealthStates, Sql, SqlAnd, SqlOr, SqlNot,
       LikeMismatch, ImportedClause, NotMismatched, Ghosts
<1>1. CASE h = "corrupt"
  BY <1>1 DEF CorruptClause
<1>2. CASE h = "orphaned"
  BY <1>2 DEF OrphanedClause
<1>3. CASE h = "pending"
  BY <1>3 DEF PendingClause, OrphanedClause
<1>4. CASE h = "unknown"
  BY <1>4 DEF UnknownClause
<1>5. CASE h = "healthy"
  BY <1>5 DEF HealthyClause
<1>. QED  BY <1>1, <1>2, <1>3, <1>4, <1>5

LEMMA ClassIsOne ==
  ASSUME NEW r
  PROVE  ClassifySqlState(r) \in HealthStates
BY DEF ClassifySqlState, HealthStates

LEMMA RankNumber ==
  ASSUME NEW r
  PROVE  RankOf(r) \in Nat
<1>. DEFINE R == {Rank[s] : s \in {x \in HealthStates : Clause(x, r) = "true"}} \cup {4}
<1>1. \A s \in HealthStates : Rank[s] \in Nat
  BY DEF Rank, HealthStates
<1>2. R \in SUBSET Nat /\ R # {}
  BY <1>1
<1>3. Min(R) \in Nat
  <2>. HIDE DEF R
  <2>. QED  BY <1>2, MinOfNaturals
<1>. QED  BY <1>3 DEF RankOf

(***************************************************************************)
(* The order of the listing is strict, and compares any two keys.          *)
(***************************************************************************)
AheadOf(all, state) == [i \in all |-> {j \in all : PageOrder(state, j, i)}]

LEMMA ListingOrdered ==
  ASSUME NEW all \in SUBSET WIds, NEW state \in ListStates
  PROVE  /\ StrictOrder(all, AheadOf(all, state)) /\ IsFiniteSet(all)
         /\ \A i \in all : Place(all, state, i) = Cardinality(AheadOf(all, state)[i])
<1>. DEFINE rank(k) == IF state = "any" THEN RankOf(wRow[k]) ELSE Rank[state]
<1>1. \A k \in all : rank(k) \in Nat
  BY RankNumber DEF ListStates, HealthStates, Rank
<1>2. \A k \in all : k \in Nat
  BY StorageAssumption
<1>3. \A i, j \in all : PageOrder(state, i, j) <=> rank(i) < rank(j) \/ (rank(i) = rank(j) /\ i < j)
  BY DEF PageOrder
<1>. HIDE DEF rank
<1>4. \A i \in all : ~PageOrder(state, i, i)
  BY <1>1, <1>2, <1>3
<1>5. \A i, j, k \in all : PageOrder(state, i, j) /\ PageOrder(state, j, k) => PageOrder(state, i, k)
  BY <1>1, <1>2, <1>3
<1>6. \A i, j \in all : i # j => PageOrder(state, i, j) \/ PageOrder(state, j, i)
  BY <1>1, <1>2, <1>3
<1>7. StrictOrder(all, AheadOf(all, state))
  BY <1>4, <1>5, <1>6 DEF StrictOrder, AheadOf
<1>8. IsFiniteSet(all)
  BY StorageAssumption, FS_Subset
<1>9. \A i \in all : Place(all, state, i) = Cardinality(AheadOf(all, state)[i])
  BY DEF Place, AheadOf
<1>. QED  BY <1>7, <1>8, <1>9

\* The page at an offset, and the next offset, divide the keys by their places.
LEMMA PageDivides ==
  ASSUME NEW state \in ListStates, NEW kind, NEW offset \in Nat
  PROVE  LET all == KeysSelect(state, kind)
             page == PaginateKeys(state, kind, offset)
             next == NextOffset(offset, page)
         IN  /\ next \in Nat
             /\ page.keys \subseteq all /\ Cardinality(all) \in Nat
             /\ \A i \in all : Place(all, state, i) \in 0 .. (Cardinality(all) - 1)
             /\ \A i \in page.keys : Place(all, state, i) >= offset
             /\ \A i \in all : IF next = 0
                  THEN i \in page.keys \/ Place(all, state, i) < offset
                  ELSE i \in page.keys \/ Place(all, state, i) < offset <=> Place(all, state, i) < next
<1>. DEFINE all == KeysSelect(state, kind)
            keys == {i \in all : Place(all, state, i) \in offset .. (offset + WLimit - 1)}
            n == Cardinality(all)
            span == Cardinality(keys)
            next == NextOffset(offset, PaginateKeys(state, kind, offset))
            place(i) == Place(all, state, i)
            Ahead == AheadOf(all, state)
<1>0. WLimit \in Nat \ {0}
  BY StorageAssumption
<1>1. all \in SUBSET WIds
  BY DEF KeysSelect, RowsOf
<1>2. StrictOrder(all, Ahead) /\ IsFiniteSet(all) /\ \A i \in all : place(i) = Cardinality(Ahead[i])
  <2>. HIDE DEF all
  <2>. QED  BY <1>1, ListingOrdered
<1>3. n \in Nat /\ \A i \in all : place(i) \in 0 .. (n - 1)
  <2>. HIDE DEF all, Ahead
  <2>. QED  BY <1>2, PlacesAreNumbers, FS_CardinalityType
<1>4. span = IF offset >= n THEN 0 ELSE IF offset + WLimit <= n THEN WLimit ELSE n - offset
  <2>1. keys \in SUBSET all /\ \A i \in all : i \in keys <=> Cardinality(Ahead[i]) \in offset .. (offset + WLimit - 1)
    <3>. HIDE DEF all, Ahead
    <3>. QED  BY <1>2
  <2>. HIDE DEF all, keys, Ahead
  <2>2. \A a \in Nat, l \in Nat \ {0}, page \in SUBSET all :
          (\A i \in all : i \in page <=> Cardinality(Ahead[i]) \in a .. (a + l - 1))
            => Cardinality(page) = IF a >= n THEN 0 ELSE IF a + l <= n THEN l ELSE n - a
    BY <1>2, WindowSize
  <2>. HIDE DEF n
  <2>. QED  BY <1>0, <2>1, <2>2
<1>5. PaginateKeys(state, kind, offset).keys = keys
      /\ next = IF span > 0 /\ offset + span < n THEN offset + span ELSE 0
  BY DEF PaginateKeys, NextOffset
<1>. HIDE DEF all, keys, n, span, next, place, Ahead
<1>6. \A i \in all : i \in keys <=> place(i) \in offset .. (offset + WLimit - 1)
  BY DEF keys, place
<1>7. keys \subseteq all
  BY DEF keys
<1>8. next \in Nat /\ (next # 0 => next = offset + WLimit) /\ (next = 0 => n <= offset + WLimit)
  BY <1>0, <1>3, <1>4, <1>5
<1>9. ASSUME NEW i \in all
      PROVE  IF next = 0 THEN i \in keys \/ place(i) < offset
             ELSE i \in keys \/ place(i) < offset <=> place(i) < next
  <2>1. place(i) \in Nat /\ place(i) < n
    BY <1>3
  <2>. QED  BY <1>0, <1>3, <1>6, <1>8, <2>1
<1>10. \A i \in keys : place(i) >= offset
  BY <1>0, <1>3, <1>6, <1>7
<1>. QED  BY <1>3, <1>5, <1>7, <1>8, <1>9, <1>10 DEF all, next, place, n

\* The summary counts each row in the class that Python gives it.
LEMMA CountsByClass ==
  ASSUME wRow \in [WIds -> WCols \cup {NoRowHere}], NEW h \in HealthStates
  PROVE  /\ CountBuckets[h] = Cardinality({i \in RowsOf : ClassifySqlState(wRow[i]) = h})
         /\ CountBuckets[h] \in 0 .. Cardinality(WIds)
<1>. DEFINE A == {i \in RowsOf \ WMovies : Clause(h, wRow[i]) = "true"}
            B == {i \in RowsOf \cap WMovies : Clause(h, wRow[i]) = "true"}
            C == {i \in RowsOf : ClassifySqlState(wRow[i]) = h}
<1>1. CountBuckets[h] = Cardinality(A) + Cardinality(B)
  BY DEF CountBuckets, CountTable
<1>2. A \cup B = C /\ A \cap B = {}
  <2>1. \A i \in RowsOf : wRow[i] \in WCols
    BY DEF RowsOf
  <2>2. \A i \in RowsOf : Clause(h, wRow[i]) = "true" <=> ClassifySqlState(wRow[i]) = h
    BY <2>1, ClassesAgree
  <2>. QED  BY <2>2
<1>3. A \in SUBSET WIds /\ B \in SUBSET WIds /\ C \in SUBSET WIds /\ IsFiniteSet(WIds)
  BY StorageAssumption DEF RowsOf
<1>. HIDE DEF A, B, C
<1>4. Cardinality(A \cup B) = Cardinality(A) + Cardinality(B)
  <2>1. IsFiniteSet(A) /\ IsFiniteSet(B) /\ Cardinality(A) \in Nat /\ Cardinality(B) \in Nat
    BY <1>3, FS_Subset, FS_CardinalityType
  <2>2. Cardinality(A \cup B) = Cardinality(A) + Cardinality(B) - Cardinality(A \cap B)
    BY <2>1, FS_Union
  <2>3. Cardinality(A \cap B) = 0
    BY <1>2, FS_EmptySet
  <2>. QED  BY <2>1, <2>2, <2>3
<1>5. Cardinality(C) \in Nat /\ Cardinality(C) <= Cardinality(WIds) /\ Cardinality(WIds) \in Nat
  BY <1>3, FS_Subset, FS_CardinalityType
<1>6. CountBuckets[h] = Cardinality(C)
  BY <1>1, <1>2, <1>4
<1>. QED  BY <1>5, <1>6 DEF C

LEMMA StorageInvInit == StorageInit => StorageInv
<1>. SUFFICES ASSUME StorageInit PROVE StorageInv
  OBVIOUS
<1>1. Cardinality(WIds) \in Nat
  BY StorageAssumption, FS_CardinalityType
<1>2. NoStorageWalk \in WalkType
  BY DEF NoStorageWalk, WalkType, ListStates
<1>3. StorageTypeOK
  BY <1>1, <1>2, StorageAssumption DEF StorageInit, StorageTypeOK, NoStorageWalk
<1>4. WalkInStep
  BY DEF StorageInit, WalkInStep, NoStorageWalk
<1>. QED  BY <1>2, <1>3, <1>4 DEF StorageInv, StorageInit

LEMMA StorageInvNext == StorageInv /\ [StorageNext]_wVars => StorageInv'
<1>. SUFFICES ASSUME StorageInv, [StorageNext]_wVars PROVE StorageInv'
  OBVIOUS
<1>0. StorageTypeOK /\ wWalk \in WalkType /\ WalkInStep
  BY DEF StorageInv
<1>c. Cardinality(WIds) \in Nat
  BY StorageAssumption, FS_CardinalityType
<1>p. ASSUME NEW state \in ListStates, NEW kind, NEW offset \in Nat
      PROVE  LET page == PaginateKeys(state, kind, offset)
             IN  page.keys \in SUBSET WIds /\ NextOffset(offset, page) \in Nat
  BY PageDivides DEF KeysSelect, RowsOf
<1>1. ASSUME NEW state \in ListStates, NEW kind \in {"any", "show", "movie"}, ListFiles(state, kind)
      PROVE  StorageInv'
  <2>. DEFINE page == PaginateKeys(state, kind, 0)
  <2>1. page.keys \in SUBSET WIds /\ NextOffset(0, page) \in Nat
    BY <1>p
  <2>. HIDE DEF page
  <2>2. /\ wWalk' = [at |-> "hydrate", state |-> state, kind |-> kind, offset |-> 0, keys |-> page.keys,
                     next |-> NextOffset(0, page), shown |-> [i \in WIds |-> 0], items |-> {}]
        /\ wQuiet' = TRUE /\ wCounts' = [h \in HealthStates |-> 0]
        /\ UNCHANGED <<wRow, wPath, wRoot, wChanges>>
    BY <1>1 DEF ListFiles, NoStorageWalk, page
  <2>3. wWalk' \in WalkType
    BY <2>1, <2>2 DEF WalkType
  <2>4. StorageTypeOK'
    BY <1>0, <1>c, <2>2, <2>3 DEF StorageTypeOK, WalkType
  <2>5. page' = page
    BY <2>2 DEF page, PaginateKeys, KeysSelect, RowsOf, Place, PageOrder
  <2>6. ShownUpTo(0)'
    <3>1. Walked' = KeysSelect(state, kind)' /\ KeysSelect(state, kind)' = KeysSelect(state, kind)
      BY <2>2 DEF Walked, KeysSelect, RowsOf
    <3>2. \A i \in Walked' : ~(Place(Walked, wWalk.state, i)' < 0)
      <4>1. \A i \in KeysSelect(state, kind) : ~(Place(KeysSelect(state, kind), state, i) < 0)
        BY PageDivides
      <4>2. \A i : Place(KeysSelect(state, kind), state, i)' = Place(KeysSelect(state, kind), state, i)
        BY <2>2, <3>1 DEF Place, PageOrder
      <4>3. \A i : Place(Walked, wWalk.state, i)' = Place(KeysSelect(state, kind), state, i)'
        BY <2>2, <3>1 DEF Place, PageOrder
      <4>. QED  BY <3>1, <4>1, <4>2, <4>3
    <3>. QED  BY <2>2, <3>2 DEF ShownUpTo
  <2>7. WalkInStep'
    BY <2>2, <2>5, <2>6 DEF WalkInStep, page
  <2>. QED  BY <2>3, <2>4, <2>7 DEF StorageInv
<1>k. ASSUME UNCHANGED wRow, wWalk'.state = wWalk.state, wWalk'.kind = wWalk.kind
      PROVE  /\ Walked' = Walked /\ CountBuckets' = CountBuckets
             /\ \A i : Place(Walked, wWalk.state, i)' = Place(Walked, wWalk.state, i)
             /\ \A n : PaginateKeys(wWalk.state, wWalk.kind, n)' = PaginateKeys(wWalk.state, wWalk.kind, n)
  <2>1. Walked' = Walked /\ CountBuckets' = CountBuckets
    BY <1>k DEF Walked, KeysSelect, RowsOf, CountBuckets, CountTable
  <2>2. \A i : Place(Walked, wWalk.state, i)' = Place(Walked, wWalk.state, i)
    BY <1>k, <2>1 DEF Place, PageOrder
  <2>3. \A n : PaginateKeys(wWalk.state, wWalk.kind, n)' = PaginateKeys(wWalk.state, wWalk.kind, n)
    BY <1>k DEF PaginateKeys, KeysSelect, RowsOf, Place, PageOrder
  <2>. QED  BY <2>1, <2>2, <2>3
<1>2. CASE NextPage
  <2>. DEFINE page == PaginateKeys(wWalk.state, wWalk.kind, wWalk.next)
  <2>0. wWalk.state \in ListStates /\ wWalk.next \in Nat
    BY <1>0 DEF WalkType
  <2>1. page.keys \in SUBSET WIds /\ NextOffset(wWalk.next, page) \in Nat
    BY <1>p, <2>0
  <2>. HIDE DEF page
  <2>2. /\ wWalk.at = "page"
        /\ wWalk' = [wWalk EXCEPT !.at = "hydrate", !.offset = wWalk.next, !.keys = page.keys,
                                  !.next = NextOffset(wWalk.next, page)]
        /\ UNCHANGED <<wRow, wPath, wRoot, wCounts, wQuiet, wChanges>>
    BY <1>2 DEF NextPage, page
  <2>3. wWalk' \in WalkType
    BY <1>0, <2>0, <2>1, <2>2 DEF WalkType
  <2>4. StorageTypeOK'
    BY <1>0, <2>2, <2>3 DEF StorageTypeOK, WalkType
  <2>5. /\ wWalk'.at = "hydrate" /\ wWalk'.state = wWalk.state /\ wWalk'.kind = wWalk.kind
        /\ wWalk'.offset = wWalk.next /\ wWalk'.keys = page.keys /\ wWalk'.shown = wWalk.shown
        /\ wWalk'.next = NextOffset(wWalk.next, page)
    BY <1>0, <2>2 DEF WalkType
  <2>6. PaginateKeys(wWalk.state, wWalk.kind, wWalk.offset)' = page
    BY <1>k, <2>2, <2>5 DEF page, PaginateKeys, KeysSelect, RowsOf, Place, PageOrder
  <2>7. wQuiet => ShownUpTo(wWalk.offset)'
    BY <1>0, <1>k, <2>2, <2>5 DEF WalkInStep, ShownUpTo
  <2>8. WalkInStep'
    <3>1. wQuiet' => NextOffset(wWalk.offset, PaginateKeys(wWalk.state, wWalk.kind, wWalk.offset))'
                      = NextOffset(wWalk.next, page)
      BY <2>5, <2>6 DEF NextOffset
    <3>. QED  BY <2>2, <2>5, <2>6, <2>7, <3>1 DEF WalkInStep
  <2>. QED  BY <2>3, <2>4, <2>8 DEF StorageInv
<1>3. CASE HydratePage
  <2>. DEFINE found == wWalk.keys \cap RowsOf
              shown == [i \in WIds |-> wWalk.shown[i] + IF i \in found THEN 1 ELSE 0]
              at == IF wWalk.next = 0 THEN "counts" ELSE "page"
              items == wWalk.items \cup {<<i, FileItem(i)>> : i \in found}
  <2>1. /\ wWalk.at = "hydrate"
        /\ wWalk' = [wWalk EXCEPT !.at = at, !.shown = shown, !.items = items]
        /\ UNCHANGED <<wRow, wPath, wRoot, wCounts, wQuiet, wChanges>>
    BY <1>3 DEF HydratePage
  <2>2. shown \in [WIds -> Nat] /\ items \in SUBSET (WIds \X (HealthStates \cup {"missing", "inaccessible"}))
    <3>1. \A i \in WIds : FileItem(i) \in HealthStates \cup {"missing", "inaccessible"}
      BY ClassIsOne DEF FileItem, ApplyPathOverlay
    <3>2. wWalk.shown \in [WIds -> Nat] /\ wWalk.keys \in SUBSET WIds
          /\ wWalk.items \in SUBSET (WIds \X (HealthStates \cup {"missing", "inaccessible"}))
      BY <1>0 DEF WalkType
    <3>. QED  BY <3>1, <3>2
  <2>3. \A i \in WIds : shown[i] = wWalk.shown[i] + IF i \in found THEN 1 ELSE 0
    OBVIOUS
  <2>. HIDE DEF shown, items
  <2>4. wWalk' \in WalkType
    BY <1>0, <2>1, <2>2 DEF WalkType
  <2>5. StorageTypeOK'
    BY <1>0, <2>1, <2>4 DEF StorageTypeOK, WalkType
  <2>6. /\ wWalk'.at = at /\ wWalk'.state = wWalk.state /\ wWalk'.kind = wWalk.kind
        /\ wWalk'.shown = shown /\ wWalk'.next = wWalk.next
    BY <1>0, <2>1 DEF WalkType
  <2>7. ASSUME wQuiet
        PROVE  IF wWalk.next = 0 THEN ShownUpTo(Cardinality(Walked))' ELSE ShownUpTo(wWalk.next)'
    <3>. DEFINE page == PaginateKeys(wWalk.state, wWalk.kind, wWalk.offset)
                place(i) == Place(Walked, wWalk.state, i)
    <3>0. wWalk.state \in ListStates /\ wWalk.offset \in Nat
      BY <1>0 DEF WalkType
    <3>1. ShownUpTo(wWalk.offset) /\ wWalk.keys = page.keys /\ wWalk.next = NextOffset(wWalk.offset, page)
      BY <1>0, <2>1, <2>7 DEF WalkInStep
    <3>2. /\ wWalk.next \in Nat /\ wWalk.keys \subseteq Walked /\ Cardinality(Walked) \in Nat
          /\ \A i \in Walked : place(i) \in 0 .. (Cardinality(Walked) - 1)
          /\ \A i \in wWalk.keys : place(i) >= wWalk.offset
          /\ \A i \in Walked : IF wWalk.next = 0 THEN i \in wWalk.keys \/ place(i) < wWalk.offset
                              ELSE i \in wWalk.keys \/ place(i) < wWalk.offset <=> place(i) < wWalk.next
      <4>. HIDE DEF place
      <4>. QED  BY <3>0, <3>1, PageDivides DEF Walked, place
    <3>3. found = wWalk.keys
      BY <3>2 DEF Walked, KeysSelect
    <3>4. /\ Walked' = Walked /\ \A i : Place(Walked, wWalk.state, i)' = place(i)
      BY <1>k, <2>1, <2>6
    <3>5. \A i \in WIds : wWalk.shown[i] = IF i \in Walked /\ place(i) < wWalk.offset THEN 1 ELSE 0
      BY <3>1 DEF ShownUpTo
    <3>. HIDE DEF place
    <3>6. \A i \in WIds : shown[i] = IF i \in Walked /\ (i \in wWalk.keys \/ place(i) < wWalk.offset) THEN 1 ELSE 0
      <4>. SUFFICES ASSUME NEW i \in WIds
                    PROVE  shown[i] = IF i \in Walked /\ (i \in wWalk.keys \/ place(i) < wWalk.offset) THEN 1 ELSE 0
        OBVIOUS
      <4>1. shown[i] = wWalk.shown[i] + IF i \in wWalk.keys THEN 1 ELSE 0
        BY <2>3, <3>3
      <4>2. wWalk.shown[i] = IF i \in Walked /\ place(i) < wWalk.offset THEN 1 ELSE 0
        BY <3>5
      <4>3. i \in wWalk.keys => i \in Walked /\ ~(place(i) < wWalk.offset)
        BY <3>0, <3>2
      <4>. QED  BY <4>1, <4>2, <4>3
    <3>7. CASE wWalk.next = 0
      <4>1. \A i \in WIds : shown[i] = IF i \in Walked /\ place(i) < Cardinality(Walked) THEN 1 ELSE 0
        BY <3>2, <3>6, <3>7
      <4>. QED  BY <2>6, <3>4, <3>7, <4>1 DEF ShownUpTo
    <3>8. CASE wWalk.next # 0
      <4>1. \A i \in WIds : shown[i] = IF i \in Walked /\ place(i) < wWalk.next THEN 1 ELSE 0
        BY <3>2, <3>6, <3>8
      <4>. QED  BY <2>6, <3>4, <3>8, <4>1 DEF ShownUpTo
    <3>. QED  BY <3>7, <3>8
  <2>8. WalkInStep'
    BY <2>1, <2>6, <2>7 DEF WalkInStep
  <2>. QED  BY <2>4, <2>5, <2>8 DEF StorageInv
<1>4. CASE GetSummary
  <2>1. /\ wWalk.at = "counts" /\ wCounts' = CountBuckets /\ wWalk' = [wWalk EXCEPT !.at = "end"]
        /\ UNCHANGED <<wRow, wPath, wRoot, wQuiet, wChanges>>
    BY <1>4 DEF GetSummary
  <2>2. wWalk' \in WalkType
    BY <1>0, <2>1 DEF WalkType
  <2>3. wWalk'.at = "end" /\ wWalk'.state = wWalk.state /\ wWalk'.kind = wWalk.kind /\ wWalk'.shown = wWalk.shown
    BY <1>0, <2>1 DEF WalkType
  <2>4. CountBuckets \in [HealthStates -> 0 .. Cardinality(WIds)]
    <3>1. \A h \in HealthStates : CountBuckets[h] \in 0 .. Cardinality(WIds)
      BY <1>0, CountsByClass DEF StorageTypeOK
    <3>2. CountBuckets = [h \in HealthStates |-> CountBuckets[h]]
      BY DEF CountBuckets
    <3>. HIDE DEF CountBuckets
    <3>. QED  BY <3>1, <3>2
  <2>5. StorageTypeOK'
    BY <1>0, <2>1, <2>2, <2>4 DEF StorageTypeOK, WalkType
  <2>6. WalkInStep'
    BY <1>0, <1>k, <2>1, <2>3 DEF WalkInStep, ShownUpTo
  <2>. QED  BY <2>2, <2>5, <2>6 DEF StorageInv
<1>5. ASSUME NEW i \in WIds, NEW r \in WCols \cup {NoRowHere}, RowChanges(i, r) PROVE StorageInv'
  <2>1. StorageTypeOK' /\ wWalk' \in WalkType
    <3>1. wChanges' \in 0 .. WMaxChanges
      BY <1>0, <1>5, StorageAssumption DEF StorageTypeOK, RowChanges
    <3>2. wRow' \in [WIds -> WCols \cup {NoRowHere}] /\ wQuiet' \in BOOLEAN
          /\ UNCHANGED <<wPath, wRoot, wCounts, wWalk>>
      BY <1>0, <1>5 DEF StorageTypeOK, RowChanges
    <3>. QED  BY <1>0, <3>1, <3>2 DEF StorageTypeOK
  <2>2. WalkInStep'
    BY <1>5 DEF WalkInStep, RowChanges
  <2>. QED  BY <2>1, <2>2 DEF StorageInv
<1>6. ASSUME UNCHANGED <<wRow, wCounts, wWalk, wQuiet>> PROVE WalkInStep'
  BY <1>0, <1>6, <1>k DEF WalkInStep, ShownUpTo
<1>7. CASE DiskChanges
  <2>1. wChanges' \in 0 .. WMaxChanges /\ wPath' \subseteq WIds /\ wRoot' \in [WRoots -> {"ok", "missing"}]
    BY <1>0, <1>7, StorageAssumption DEF StorageTypeOK, DiskChanges
  <2>2. UNCHANGED <<wRow, wCounts, wWalk, wQuiet>>
    BY <1>7 DEF DiskChanges
  <2>3. StorageTypeOK' /\ wWalk' \in WalkType
    BY <1>0, <2>1, <2>2 DEF StorageTypeOK
  <2>. QED  BY <1>6, <2>2, <2>3 DEF StorageInv
<1>8. CASE UNCHANGED wVars
  <2>1. StorageTypeOK' /\ wWalk' \in WalkType
    BY <1>0, <1>8 DEF StorageTypeOK, wVars
  <2>. QED  BY <1>6, <1>8, <2>1 DEF StorageInv, wVars
<1>. QED  BY <1>1, <1>2, <1>3, <1>4, <1>5, <1>7, <1>8 DEF StorageNext, ListStates

LEMMA StorageInvMatches == StorageInv => ListingMatchesCounts
<1>. SUFFICES ASSUME StorageInv, wWalk.at = "end", wQuiet
              PROVE  /\ \A i \in WIds : wWalk.shown[i] =
                           IF i \in RowsOf \cap OfKind(wWalk.kind)
                              /\ wWalk.state \in {"any", ClassifySqlState(wRow[i])} THEN 1 ELSE 0
                     /\ \A h \in HealthStates :
                           wCounts[h] = Cardinality({i \in RowsOf : ClassifySqlState(wRow[i]) = h})
  BY DEF ListingMatchesCounts
<1>0. StorageTypeOK /\ wWalk \in WalkType /\ ShownUpTo(Cardinality(Walked)) /\ wCounts = CountBuckets
  BY DEF StorageInv, WalkInStep
<1>1. wWalk.state \in ListStates
  BY <1>0 DEF WalkType
<1>2. \A i \in Walked : Place(Walked, wWalk.state, i) < Cardinality(Walked)
  <2>1. \A i \in Walked : Place(Walked, wWalk.state, i) \in 0 .. (Cardinality(Walked) - 1)
    BY <1>1, 0 \in Nat, PageDivides DEF Walked
  <2>2. Cardinality(Walked) \in Nat
    BY <1>1, 0 \in Nat, PageDivides DEF Walked
  <2>. QED  BY <2>1, <2>2
<1>3. \A i \in WIds : i \in Walked <=> /\ i \in RowsOf \cap OfKind(wWalk.kind)
                                    /\ wWalk.state \in {"any", ClassifySqlState(wRow[i])}
  <2>1. \A i \in RowsOf : wRow[i] \in WCols
    BY <1>0 DEF StorageTypeOK, RowsOf
  <2>2. \A i \in RowsOf : wWalk.state # "any" =>
          (Clause(wWalk.state, wRow[i]) = "true" <=> ClassifySqlState(wRow[i]) = wWalk.state)
    BY <1>1, <2>1, ClassesAgree DEF ListStates
  <2>. QED  BY <2>2 DEF Walked, KeysSelect
<1>4. \A i \in WIds : wWalk.shown[i] = IF i \in Walked THEN 1 ELSE 0
  BY <1>0, <1>2 DEF ShownUpTo
<1>5. \A h \in HealthStates : wCounts[h] = Cardinality({i \in RowsOf : ClassifySqlState(wRow[i]) = h})
  BY <1>0, CountsByClass DEF StorageTypeOK
<1>. QED  BY <1>3, <1>4, <1>5

\* Every row of the class asked for is listed once, and the counts are those of the classes.
THEOREM StorageListsWhatItCounts == StorageSpec => [](StorageTypeOK /\ ListingMatchesCounts)
<1>1. StorageInv => StorageTypeOK /\ ListingMatchesCounts
  BY StorageInvMatches DEF StorageInv
<1>. QED  BY <1>1, StorageInvInit, StorageInvNext, PTL DEF StorageSpec

(***************************************************************************)
(* The catalogue.  A row keeps its specials skipped, and their season,     *)
(* unless the user asked for them.  A refresh that read the season of the  *)
(* specials as wanted, from a row that is still there, found it so because *)
(* the user had asked.                                                     *)
(***************************************************************************)
RefreshPcs == {"idle", "read", "fetch", "apply", "seasons", "stamp", "failed"}
Refreshes == [pc : RefreshPcs, id : CRows \cup {CNone}, snap : ShowRow \cup {CNone}, fresh : Fresh,
              left : SUBSET CSeasons, gone : BOOLEAN]
Adds == [pc : {"idle", "save", "done"}, id : CRows \cup {CNone}, fresh : Fresh]

CatalogVarsTyped ==
  /\ cRow \in [CRows -> ShowRow \cup {CNone}] /\ cWorld \in [CRows -> Fresh]
  /\ cUp \in [CRows -> BOOLEAN]
  /\ cAdd \in [CAdders -> Adds] /\ cRef \in [Refreshers -> Refreshes]
  /\ cSweep \in [on : BOOLEAN, ids : SUBSET CRows, seen : SUBSET CRows]
  /\ cAsked \subseteq CRows
  /\ cEdits \in Nat /\ cOutages \in Nat /\ cEdits + cOutages <= MaxCEdits /\ cOutages <= MaxOutages

AddHasRow == \A u \in CAdders : cAdd[u].pc = "save" => cAdd[u].id \in CRows

Reading == {"fetch", "apply", "seasons"}
SpecialsWanted(row) == 0 \in row.seasons /\ 0 \notin row.skS

\* A refresh has a row, in the catalogue unless it was deleted since, and what it read of it.
RefreshKept(f) ==
  /\ f.pc # "idle" => f.id \in CRows /\ (~f.gone => cRow[f.id] # CNone)
  /\ f.pc \in Reading => f.snap \in ShowRow
  /\ f.pc \in Reading /\ ~f.gone /\ SpecialsWanted(f.snap) => f.id \in cAsked

RefreshesKept == \A w \in Refreshers : RefreshKept(cRef[w])

SpecialsSkipped(row) == InSeason(row.eps, 0) \subseteq row.skE /\ ~SpecialsWanted(row)

SpecialsAsked == \A r \in CRows : cRow[r] # CNone => SpecialsSkipped(cRow[r]) \/ r \in cAsked

\* The titles that the sweep is about to refresh are there.
BatchKept == cSweep.ids \subseteq InLibrary

CatalogInv == CatalogVarsTyped /\ AddHasRow /\ RefreshesKept /\ SpecialsAsked /\ BatchKept

LEMMA Seasons ==
  /\ CSeasons \subseteq Nat
  /\ \A eps \in SUBSET CEps : ShowSeasons(eps) \subseteq CSeasons
  /\ \A eps \in SUBSET CEps : \A s : InSeason(eps, s) \subseteq eps
BY CatalogAssumption DEF CSeasons, ShowSeasons, InSeason

LEMMA NoRefresh == IdleRefresh \in Refreshes /\ IdleRefresh.pc = "idle" /\ NoFresh \in Fresh
BY DEF IdleRefresh, Refreshes, RefreshPcs, NoFresh, Fresh

LEMMA CatalogInvInit == CatalogInit => CatalogInv
<1>1. ASSUME CatalogInit PROVE CatalogVarsTyped
  BY <1>1, CatalogAssumption, NoRefresh DEF CatalogInit, CatalogVarsTyped, Adds
<1>2. ASSUME CatalogInit PROVE AddHasRow /\ RefreshesKept /\ SpecialsAsked /\ BatchKept
  BY <1>2, NoRefresh DEF BatchKept,  CatalogInit, AddHasRow, RefreshesKept, RefreshKept, Reading, SpecialsAsked
<1>. QED  BY <1>1, <1>2 DEF CatalogInv

(***************************************************************************)
(* A step that deletes no row and moves one refresh.                       *)
(***************************************************************************)
LEMMA RowsStay ==
  ASSUME CatalogInv, CatalogVarsTyped', AddHasRow',
         NEW w \in Refreshers, \A v \in Refreshers \ {w} : cRef'[v] = cRef[v], RefreshKept(cRef[w])',
         cAsked \subseteq cAsked', cSweep'.ids \subseteq InLibrary,
         \A r \in CRows : cRow[r] # CNone => cRow'[r] # CNone,
         \A r \in CRows : cRow'[r] # CNone =>
           cRow'[r] = cRow[r] \/ SpecialsSkipped(cRow'[r]) \/ r \in cAsked'
  PROVE  CatalogInv'
<1>1. SpecialsAsked'
  BY DEF CatalogInv, SpecialsAsked
<1>2. ASSUME NEW v \in Refreshers \ {w} PROVE RefreshKept(cRef[v])'
  BY <1>2 DEF CatalogInv, RefreshesKept, RefreshKept
<1>3. BatchKept'
  BY DEF BatchKept, InLibrary
<1>. QED  BY <1>1, <1>2, <1>3 DEF CatalogInv, RefreshesKept

\* The same, when no refresh moves.
LEMMA RefreshesStay ==
  ASSUME CatalogInv, CatalogVarsTyped', AddHasRow', cRef' = cRef, cAsked \subseteq cAsked',
         cSweep'.ids \subseteq InLibrary,
         \A r \in CRows : cRow[r] # CNone => cRow'[r] # CNone,
         \A r \in CRows : cRow'[r] # CNone =>
           cRow'[r] = cRow[r] \/ SpecialsSkipped(cRow'[r]) \/ r \in cAsked'
  PROVE  CatalogInv'
<1>1. "sweep" \in Refreshers
  BY DEF Refreshers
<1>2. RefreshKept(cRef["sweep"])'
  BY <1>1 DEF CatalogInv, RefreshesKept, RefreshKept
<1>. QED  BY <1>1, <1>2, RowsStay

\* A refresh that ends or moves while every row and everything else stays as it is.
LEMMA RefreshMoves ==
  ASSUME CatalogInv, NEW w \in Refreshers, NEW f \in Refreshes, cRef' = [cRef EXCEPT ![w] = f], RefreshKept(f),
         UNCHANGED <<cRow, cWorld, cUp, cAdd, cAsked, cOutages>>,
         cSweep' \in [on : BOOLEAN, ids : SUBSET CRows, seen : SUBSET CRows], cSweep'.ids \subseteq InLibrary,
         cEdits' \in Nat, cEdits' + cOutages <= MaxCEdits
  PROVE  CatalogInv'
<1>1. CatalogVarsTyped' /\ AddHasRow'
  BY DEF CatalogInv, CatalogVarsTyped, AddHasRow
<1>2. cRef'[w] = f /\ \A v \in Refreshers \ {w} : cRef'[v] = cRef[v]
  BY DEF CatalogInv, CatalogVarsTyped
<1>3. RefreshKept(cRef[w])'
  BY <1>2 DEF RefreshKept
<1>. QED  BY <1>1, <1>2, <1>3, RowsStay

\* One row is written, by a refresh or by nobody.
LEMMA RowWritten ==
  ASSUME CatalogInv, NEW r \in CRows, NEW row \in ShowRow, cRow' = [cRow EXCEPT ![r] = row]
  PROVE  /\ cRow' \in [CRows -> ShowRow \cup {CNone}]
         /\ cRow'[r] = row /\ row # CNone /\ \A q \in CRows \ {r} : cRow'[q] = cRow[q]
         /\ \A q \in CRows : cRow[q] # CNone => cRow'[q] # CNone
BY NoRowAssumption DEF CatalogInv, CatalogVarsTyped

(***************************************************************************)
(* The providers, the requests that add a title, and the sweep.            *)
(***************************************************************************)
LEMMA WorldStep ==
  ASSUME CatalogInv, NEW r \in CRows, PublishEpisode(r) \/ EndShow(r) \/ Outage(r) \/ Recovery(r)
  PROVE  CatalogInv'
<1>t. CatalogVarsTyped
  BY DEF CatalogInv
<1>1. UNCHANGED <<cRow, cAdd, cRef, cSweep, cAsked, cEdits>>
  BY DEF PublishEpisode, EndShow, Outage, Recovery
<1>2. cWorld' \in [CRows -> Fresh]
  <2>1. \A e \in CEps : [cWorld[r] EXCEPT !.eps = @ \cup {e}] \in Fresh
    BY <1>t DEF CatalogVarsTyped, Fresh
  <2>2. [cWorld[r] EXCEPT !.ended = TRUE] \in Fresh
    BY <1>t DEF CatalogVarsTyped, Fresh
  <2>3. \A f \in Fresh : [cWorld EXCEPT ![r] = f] \in [CRows -> Fresh]
    BY <1>t DEF CatalogVarsTyped
  <2>4. \/ \E e \in CEps : cWorld' = [cWorld EXCEPT ![r] = [cWorld[r] EXCEPT !.eps = @ \cup {e}]]
        \/ cWorld' = [cWorld EXCEPT ![r] = [cWorld[r] EXCEPT !.ended = TRUE]]
        \/ cWorld' = cWorld
    BY DEF PublishEpisode, EndShow, Outage, Recovery
  <2>. QED  BY <1>t, <2>1, <2>2, <2>3, <2>4 DEF CatalogVarsTyped
<1>3. cUp' \in [CRows -> BOOLEAN]
  BY <1>t DEF CatalogVarsTyped, PublishEpisode, EndShow, Outage, Recovery
<1>4. cOutages' \in Nat /\ cEdits + cOutages' <= MaxCEdits /\ cOutages' <= MaxOutages
  <2>1. cOutages' = cOutages \/ (cOutages' = cOutages + 1 /\ cOutages < MaxOutages /\ MayDisturb)
    BY DEF PublishEpisode, EndShow, Outage, Recovery
  <2>2. cEdits \in Nat /\ cOutages \in Nat /\ cEdits + cOutages <= MaxCEdits /\ cOutages <= MaxOutages
        /\ MaxCEdits \in Nat /\ MaxOutages \in Nat
    BY <1>t, CatalogAssumption DEF CatalogVarsTyped
  <2>. QED  BY <2>1, <2>2 DEF MayDisturb
<1>5. CatalogVarsTyped' /\ AddHasRow'
  BY <1>t, <1>1, <1>2, <1>3, <1>4 DEF CatalogVarsTyped, CatalogInv, AddHasRow
<1>. QED  BY <1>1, <1>5, RefreshesStay DEF CatalogInv, BatchKept

LEMMA Published == ASSUME NEW f \in Fresh
                   PROVE  /\ NewShow(f) \in ShowRow /\ SpecialsSkipped(NewShow(f))
                          /\ NewMovie \in ShowRow /\ SpecialsSkipped(NewMovie)
<1>1. NewShow(f) \in ShowRow /\ NewMovie \in ShowRow
  BY Seasons DEF NewShow, NewMovie, ShowRow, Switches, Fresh
<1>2. SpecialsSkipped(NewMovie)
  BY DEF NewMovie, SpecialsSkipped, SpecialsWanted, InSeason
<1>3. /\ NewShow(f).eps = f.eps /\ NewShow(f).skE = InSeason(f.eps, 0)
      /\ NewShow(f).seasons = ShowSeasons(f.eps) /\ NewShow(f).skS = ShowSeasons(f.eps) \cap {0}
  BY DEF NewShow
<1>4. SpecialsSkipped(NewShow(f))
  BY <1>3 DEF SpecialsSkipped, SpecialsWanted
<1>. QED  BY <1>1, <1>2, <1>4

LEMMA AddStep ==
  ASSUME CatalogInv, NEW u \in CAdders,
         SaveShow(u) \/ SaveMovie(u) \/ \E r \in CRows : FetchAndLookup(u, r)
  PROVE  CatalogInv'
<1>t. CatalogVarsTyped /\ AddHasRow
  BY DEF CatalogInv
<1>1. UNCHANGED <<cWorld, cUp, cRef, cSweep, cAsked, cEdits, cOutages>>
  BY DEF SaveShow, SaveMovie, FetchAndLookup
<1>2. cAdd' \in [CAdders -> Adds] /\ AddHasRow'
  <2>1. PICK a \in Adds : cAdd' = [cAdd EXCEPT ![u] = a] /\ (a.pc = "save" => a.id \in CRows)
    <3>1. DoneAdd \in Adds /\ DoneAdd.pc = "done"
      BY NoRefresh DEF DoneAdd, Adds
    <3>2. CASE SaveShow(u) \/ SaveMovie(u)
      BY <3>1, <3>2 DEF SaveShow, SaveMovie
    <3>3. ASSUME NEW r \in CRows, FetchAndLookup(u, r)
          PROVE  \E a \in Adds : cAdd' = [cAdd EXCEPT ![u] = a] /\ (a.pc = "save" => a.id \in CRows)
      <4>1. [pc |-> "save", id |-> r, fresh |-> cWorld[r]] \in Adds
        BY <1>t DEF Adds, CatalogVarsTyped
      <4>. QED  BY <3>1, <3>3, <4>1 DEF FetchAndLookup
    <3>. QED  BY <3>2, <3>3
  <2>. QED  BY <1>t, <2>1 DEF CatalogVarsTyped, AddHasRow
<1>3. CASE cRow' = cRow
  BY <1>t, <1>1, <1>2, <1>3, RefreshesStay DEF CatalogVarsTyped, CatalogInv, BatchKept
<1>4. CASE cRow' # cRow
  <2>. DEFINE r == cAdd[u].id
              row == IF r \in CMovies THEN NewMovie ELSE NewShow(cAdd[u].fresh)
  <2>1. cRow' = [cRow EXCEPT ![r] = row] /\ r \in CRows
    BY <1>t, <1>4 DEF SaveShow, SaveMovie, FetchAndLookup, AddHasRow
  <2>2. row \in ShowRow /\ SpecialsSkipped(row)
    BY <1>t, Published DEF CatalogVarsTyped, Adds
  <2>. HIDE DEF r, row
  <2>3. /\ cRow' \in [CRows -> ShowRow \cup {CNone}] /\ cRow'[r] = row
        /\ \A q \in CRows \ {r} : cRow'[q] = cRow[q]
        /\ \A q \in CRows : cRow[q] # CNone => cRow'[q] # CNone
    BY <2>1, <2>2, RowWritten
  <2>4. CatalogVarsTyped'
    BY <1>t, <1>1, <1>2, <2>3 DEF CatalogVarsTyped
  <2>. QED  BY <1>1, <1>2, <2>2, <2>3, <2>4, RefreshesStay DEF CatalogInv, BatchKept
<1>. QED  BY <1>3, <1>4

LEMMA SweepStep ==
  ASSUME CatalogInv, StartSweep \/ NextBatch
  PROVE  CatalogInv'
<1>1. cSweep' \in [on : BOOLEAN, ids : SUBSET CRows, seen : SUBSET CRows] /\ cSweep'.ids \subseteq InLibrary
  <2>1. \A due \in DueBatches : Batch(due) \subseteq CRows /\ Batch(due) \subseteq InLibrary
    BY DEF DueBatches, kSubset, Due, InLibrary, Batch
  <2>2. \A due \in DueBatches : [cSweep EXCEPT !.ids = Batch(due)] \in [on : BOOLEAN, ids : SUBSET CRows, seen : SUBSET CRows]
    BY <2>1 DEF CatalogInv, CatalogVarsTyped
  <2>3. [on |-> TRUE, ids |-> {}, seen |-> {}] \in [on : BOOLEAN, ids : SUBSET CRows, seen : SUBSET CRows]
        /\ [on |-> FALSE, ids |-> {}, seen |-> {}] \in [on : BOOLEAN, ids : SUBSET CRows, seen : SUBSET CRows]
        /\ [on |-> TRUE, ids |-> {}, seen |-> {}].ids = {} /\ [on |-> FALSE, ids |-> {}, seen |-> {}].ids = {}
    OBVIOUS
  <2>4. \A due \in DueBatches : [cSweep EXCEPT !.ids = Batch(due)].ids \subseteq InLibrary
    BY <2>1 DEF CatalogInv, CatalogVarsTyped
  <2>5. CASE StartSweep
    <3>1. cSweep' = [on |-> TRUE, ids |-> {}, seen |-> {}]
      BY <2>5 DEF StartSweep
    <3>. QED  BY <2>3, <3>1
  <2>6. ASSUME NEW due \in DueBatches,
               cSweep' = IF Batch(due) = {} THEN [on |-> FALSE, ids |-> {}, seen |-> {}]
                         ELSE [cSweep EXCEPT !.ids = Batch(due)]
        PROVE  cSweep' \in [on : BOOLEAN, ids : SUBSET CRows, seen : SUBSET CRows] /\ cSweep'.ids \subseteq InLibrary
    <3>1. CASE Batch(due) = {}
      <4>1. cSweep' = [on |-> FALSE, ids |-> {}, seen |-> {}]
        BY <2>6, <3>1
      <4>. QED  BY <2>3, <4>1
    <3>2. CASE Batch(due) # {}
      <4>1. cSweep' = [cSweep EXCEPT !.ids = Batch(due)]
        BY <2>6, <3>2
      <4>. QED  BY <2>2, <2>4, <4>1
    <3>. QED  BY <3>1, <3>2
  <2>. QED  BY <2>5, <2>6 DEF NextBatch
<1>2. UNCHANGED <<cRow, cWorld, cUp, cAdd, cRef, cAsked, cEdits, cOutages>>
  BY DEF StartSweep, NextBatch
<1>3. CatalogVarsTyped' /\ AddHasRow'
  BY <1>1, <1>2 DEF CatalogInv, CatalogVarsTyped, AddHasRow
<1>. QED  BY <1>1, <1>2, <1>3, RefreshesStay

LEMMA StartStep ==
  ASSUME CatalogInv, NextTitle \/ \E r \in CRows : StartManual(r)
  PROVE  CatalogInv'
<1>t. CatalogVarsTyped /\ BatchKept
  BY DEF CatalogInv
<1>1. PICK w \in Refreshers, r \in InLibrary : StartRefresh(w, r)
  BY <1>t DEF NextTitle, StartManual, BatchKept, InLibrary, Refreshers
<1>2. r \in CRows /\ cRow[r] # CNone
  BY DEF InLibrary
<1>. DEFINE f == [IdleRefresh EXCEPT !.pc = "read", !.id = r]
<1>3. f \in Refreshes /\ f.pc = "read" /\ f.id = r
  BY <1>2, NoRefresh DEF Refreshes, RefreshPcs
<1>4. cRef' = [cRef EXCEPT ![w] = f]
  BY <1>1 DEF StartRefresh
<1>. HIDE DEF f
<1>5. RefreshKept(f)
  BY <1>2, <1>3 DEF RefreshKept, Reading
<1>6. UNCHANGED <<cRow, cWorld, cUp, cAdd, cAsked, cOutages>>
  BY DEF NextTitle, StartManual
<1>7. cSweep' \in [on : BOOLEAN, ids : SUBSET CRows, seen : SUBSET CRows] /\ cSweep'.ids \subseteq InLibrary
  <2>1. \A q \in CRows : LET v == [cSweep EXCEPT !.ids = @ \ {q}, !.seen = @ \cup {q}] IN
          v \in [on : BOOLEAN, ids : SUBSET CRows, seen : SUBSET CRows] /\ v.ids = cSweep.ids \ {q}
    BY <1>t DEF CatalogVarsTyped
  <2>2. cSweep' = cSweep
        \/ \E q \in cSweep.ids : cSweep' = [cSweep EXCEPT !.ids = @ \ {q}, !.seen = @ \cup {q}]
    BY DEF NextTitle, StartManual
  <2>3. cSweep \in [on : BOOLEAN, ids : SUBSET CRows, seen : SUBSET CRows] /\ cSweep.ids \subseteq CRows
    BY <1>t DEF CatalogVarsTyped
  <2>. QED  BY <1>t, <2>1, <2>2, <2>3 DEF BatchKept
<1>8. cEdits' \in Nat /\ cEdits' + cOutages <= MaxCEdits
  <2>1. cEdits' = cEdits \/ (MayDisturb /\ cEdits' = cEdits + 1)
    BY DEF NextTitle, StartManual
  <2>. QED  BY <1>t, <2>1, CatalogAssumption DEF MayDisturb, CatalogVarsTyped
<1>. QED  BY <1>3, <1>4, <1>5, <1>6, <1>7, <1>8, RefreshMoves

(***************************************************************************)
(* The refresh of a title.                                                 *)
(***************************************************************************)
\* A refresh that has its row and what it read goes on.
LEMMA GoesOn ==
  ASSUME CatalogInv, NEW w \in Refreshers, cRef[w].pc # "idle",
         NEW pc \in RefreshPcs \ {"idle"}, pc \in Reading => cRef[w].pc \in Reading,
         NEW fresh \in Fresh, NEW left \in SUBSET CSeasons
  PROVE  LET f == [cRef[w] EXCEPT !.pc = pc, !.fresh = fresh, !.left = left] IN
         f \in Refreshes /\ RefreshKept(f) /\ f.gone = cRef[w].gone /\ f.snap = cRef[w].snap
         /\ f.id = cRef[w].id /\ f.pc = pc
<1>. DEFINE f == [cRef[w] EXCEPT !.pc = pc, !.fresh = fresh, !.left = left]
<1>1. cRef[w] \in Refreshes /\ RefreshKept(cRef[w])
  BY DEF CatalogInv, CatalogVarsTyped, RefreshesKept
<1>2. f \in Refreshes /\ f.pc = pc /\ f.id = cRef[w].id /\ f.gone = cRef[w].gone /\ f.snap = cRef[w].snap
  BY <1>1 DEF Refreshes
<1>. HIDE DEF f
<1>3. RefreshKept(f)
  BY <1>1, <1>2 DEF RefreshKept
<1>. QED  BY <1>2, <1>3 DEF f

Moves(w) == \E f \in Refreshes : cRef' = [cRef EXCEPT ![w] = f] /\ RefreshKept(f)

LEMMA Ends == ASSUME NEW w \in Refreshers, cRef' = [cRef EXCEPT ![w] = IdleRefresh] PROVE Moves(w)
<1>1. RefreshKept(IdleRefresh)
  BY NoRefresh DEF RefreshKept, Reading
<1>. QED  BY <1>1, NoRefresh DEF Moves

LEMMA ReadMoves == ASSUME CatalogInv, NEW w \in Refreshers, ReadTitle(w) PROVE Moves(w)
<1>. DEFINE f == [cRef[w] EXCEPT !.pc = "fetch", !.snap = cRow[cRef[w].id]]
<1>1. cRef[w] \in Refreshes /\ RefreshKept(cRef[w]) /\ cRef[w].pc = "read"
  BY DEF CatalogInv, CatalogVarsTyped, RefreshesKept, ReadTitle
<1>2. CASE cRef[w].gone
  <2>1. cRef' = [cRef EXCEPT ![w] = IdleRefresh]
    BY <1>2 DEF ReadTitle
  <2>. QED  BY <2>1, Ends
<1>3. CASE ~cRef[w].gone
  <2>1. cRow[cRef[w].id] \in ShowRow /\ cRef[w].id \in CRows
        /\ (SpecialsWanted(cRow[cRef[w].id]) => cRef[w].id \in cAsked)
    BY <1>1, <1>3 DEF RefreshKept, CatalogInv, CatalogVarsTyped, SpecialsAsked, SpecialsSkipped
  <2>2. f \in Refreshes /\ f.pc = "fetch" /\ f.id = cRef[w].id /\ f.gone = cRef[w].gone /\ f.snap = cRow[cRef[w].id]
    BY <1>1, <2>1 DEF Refreshes, RefreshPcs
  <2>3. cRef' = [cRef EXCEPT ![w] = f]
    BY <1>3 DEF ReadTitle
  <2>. HIDE DEF f
  <2>4. RefreshKept(f)
    BY <1>1, <1>3, <2>1, <2>2 DEF RefreshKept
  <2>. QED  BY <2>2, <2>3, <2>4 DEF Moves
<1>. QED  BY <1>2, <1>3

LEMMA FetchMoves ==
  ASSUME CatalogInv, NEW w \in Refreshers, (w = "sweep" /\ SweepFetch) \/ (w = "manual" /\ ManualFetch)
  PROVE  Moves(w)
<1>t. CatalogVarsTyped /\ cRef[w] \in Refreshes /\ cRef[w].pc = "fetch" /\ cRef[w].id \in CRows
  BY DEF CatalogInv, CatalogVarsTyped, RefreshesKept, RefreshKept, SweepFetch, ManualFetch
<1>1. CASE cRef' = [cRef EXCEPT ![w] = IdleRefresh]
  BY <1>1, Ends
<1>2. ASSUME NEW fresh \in Fresh, NEW pc \in {"apply", "failed"},
             cRef' = [cRef EXCEPT ![w] = [cRef[w] EXCEPT !.pc = pc, !.fresh = fresh, !.left = cRef[w].left]]
      PROVE  Moves(w)
  <2>1. cRef[w].left \in SUBSET CSeasons
    BY <1>t DEF Refreshes
  <2>. DEFINE f == [cRef[w] EXCEPT !.pc = pc, !.fresh = fresh, !.left = cRef[w].left]
  <2>2. pc \in RefreshPcs \ {"idle"} /\ (pc \in Reading => cRef[w].pc \in Reading) /\ cRef[w].pc # "idle"
    BY <1>t DEF RefreshPcs, Reading
  <2>3. f \in Refreshes /\ RefreshKept(f)
    BY <2>1, <2>2, GoesOn
  <2>4. cRef' = [cRef EXCEPT ![w] = f]
    BY <1>2
  <2>. HIDE DEF f
  <2>. QED  BY <2>3, <2>4 DEF Moves
<1>3. ASSUME SweepFetch, w = "sweep" PROVE Moves(w)
  <2>1. CASE cUp[cRef[w].id]
    <3>1. cWorld[cRef[w].id] \in Fresh
      BY <1>t DEF CatalogVarsTyped
    <3>2. cRef' = [cRef EXCEPT ![w] = [cRef[w] EXCEPT !.pc = "apply", !.fresh = cWorld[cRef[w].id]]]
      BY <1>3, <2>1 DEF SweepFetch
    <3>3. [cRef[w] EXCEPT !.pc = "apply", !.fresh = cWorld[cRef[w].id]]
          = [cRef[w] EXCEPT !.pc = "apply", !.fresh = cWorld[cRef[w].id], !.left = cRef[w].left]
      BY <1>t DEF Refreshes
    <3>. QED  BY <1>2, <3>1, <3>2, <3>3
  <2>2. CASE ~cUp[cRef[w].id]
    <3>1. cRef[w].fresh \in Fresh
      BY <1>t DEF Refreshes
    <3>2. cRef' = [cRef EXCEPT ![w] = [cRef[w] EXCEPT !.pc = "failed"]]
      BY <1>3, <2>2 DEF SweepFetch
    <3>3. [cRef[w] EXCEPT !.pc = "failed"]
          = [cRef[w] EXCEPT !.pc = "failed", !.fresh = cRef[w].fresh, !.left = cRef[w].left]
      BY <1>t DEF Refreshes
    <3>. QED  BY <1>2, <3>1, <3>2, <3>3
  <2>. QED  BY <2>1, <2>2
<1>4. ASSUME ManualFetch, w = "manual", cRef' # [cRef EXCEPT ![w] = IdleRefresh] PROVE Moves(w)
  <2>. DEFINE id == cRef[w].id
              known == {r \in CRows : cUp[r] /\ CImdb[r] = CImdb[id] /\ (r \in CMovies <=> id \in CMovies)}
              from == IF cUp[id] THEN id ELSE CHOOSE r \in known : TRUE
  <2>1. known # {} /\ from \in CRows
    BY <1>t, <1>4 DEF ManualFetch
  <2>2. cRef' = [cRef EXCEPT ![w].pc = "apply", ![w].fresh = cWorld[from]]
    BY <1>4, <2>1 DEF ManualFetch
  <2>. HIDE DEF from
  <2>3. cWorld[from] \in Fresh
    BY <1>t, <2>1 DEF CatalogVarsTyped
  <2>4. cRef' = [cRef EXCEPT ![w] = [cRef[w] EXCEPT !.pc = "apply", !.fresh = cWorld[from], !.left = cRef[w].left]]
    BY <1>t, <2>2 DEF CatalogVarsTyped, Refreshes
  <2>. QED  BY <1>2, <2>3, <2>4
<1>. QED  BY <1>1, <1>3, <1>4

LEMMA EndMoves ==
  ASSUME CatalogInv, NEW w \in Refreshers, ApplyMovie(w) \/ EndRefresh(w)
  PROVE  Moves(w)
<1>t. CatalogVarsTyped /\ cRef[w] \in Refreshes /\ cRef[w].pc \in Reading /\ cRef[w].fresh \in Fresh
      /\ cRef[w].left \in SUBSET CSeasons
  BY DEF CatalogInv, CatalogVarsTyped, ApplyMovie, EndRefresh, Refreshes, Reading
<1>1. CASE cRef' = [cRef EXCEPT ![w] = IdleRefresh]
  BY <1>1, Ends
<1>2. ASSUME NEW pc \in {"stamp", "failed"}, cRef' = [cRef EXCEPT ![w] = [cRef[w] EXCEPT !.pc = pc]]
      PROVE  Moves(w)
  <2>. DEFINE f == [cRef[w] EXCEPT !.pc = pc, !.fresh = cRef[w].fresh, !.left = cRef[w].left]
  <2>1. pc \in RefreshPcs \ {"idle"} /\ (pc \in Reading => cRef[w].pc \in Reading) /\ cRef[w].pc # "idle"
    BY <1>t DEF RefreshPcs, Reading
  <2>2. f \in Refreshes /\ RefreshKept(f)
    BY <1>t, <2>1, GoesOn
  <2>3. f = [cRef[w] EXCEPT !.pc = pc]
    BY <1>t DEF Refreshes
  <2>4. cRef' = [cRef EXCEPT ![w] = f]
    BY <1>2, <2>3
  <2>. HIDE DEF f
  <2>. QED  BY <2>2, <2>4 DEF Moves
<1>3. \/ cRef' = [cRef EXCEPT ![w] = IdleRefresh]
      \/ \E pc \in {"stamp", "failed"} : cRef' = [cRef EXCEPT ![w] = [cRef[w] EXCEPT !.pc = pc]]
  BY DEF ApplyMovie, EndRefresh
<1>. QED  BY <1>1, <1>2, <1>3

LEMMA MoveStep ==
  ASSUME CatalogInv, NEW w \in Refreshers,
         \/ ReadTitle(w) \/ ApplyMovie(w) \/ EndRefresh(w)
         \/ (w = "sweep" /\ SweepFetch) \/ (w = "manual" /\ ManualFetch)
  PROVE  CatalogInv'
<1>1. Moves(w)
  BY ReadMoves, FetchMoves, EndMoves
<1>2. UNCHANGED <<cRow, cWorld, cUp, cAdd, cSweep, cAsked, cEdits, cOutages>>
  BY DEF ReadTitle, ApplyMovie, EndRefresh, SweepFetch, ManualFetch
<1>3. PICK f \in Refreshes : cRef' = [cRef EXCEPT ![w] = f] /\ RefreshKept(f)
  BY <1>1 DEF Moves
<1>4. cSweep' \in [on : BOOLEAN, ids : SUBSET CRows, seen : SUBSET CRows] /\ cSweep'.ids \subseteq InLibrary
      /\ cEdits' \in Nat /\ cEdits' + cOutages <= MaxCEdits
  BY <1>2 DEF CatalogInv, CatalogVarsTyped, BatchKept
<1>. QED  BY <1>2, <1>3, <1>4, RefreshMoves

(***************************************************************************)
(* What a refresh writes: with what it read the specials stay skipped.     *)
(***************************************************************************)
LEMMA AttributesKept ==
  ASSUME NEW row \in ShowRow, NEW snap \in ShowRow, NEW fresh \in Fresh
  PROVE  Attributes(row, snap, fresh) \in ShowRow
         /\ (SpecialsSkipped(row) => SpecialsSkipped(Attributes(row, snap, fresh)))
<1>. DEFINE a == Attributes(row, snap, fresh)
<1>1. a \in ShowRow /\ a.eps = row.eps /\ a.skE = row.skE /\ a.seasons = row.seasons /\ a.skS = row.skS
  BY DEF Attributes, ShowRow, Fresh, Switches
<1>. HIDE DEF a
<1>2. SpecialsSkipped(row) => SpecialsSkipped(a)
  BY <1>1 DEF SpecialsSkipped, SpecialsWanted
<1>. QED  BY <1>1, <1>2 DEF a

LEMMA SeasonsApart ==
  ASSUME NEW eps \in SUBSET CEps, NEW s \in CSeasons
  PROVE  /\ s # 0 => InSeason(InSeason(eps, s), 0) = {}
         /\ \A old \in SUBSET CEps : InSeason(old \cup eps, 0) = InSeason(old, 0) \cup InSeason(eps, 0)
BY DEF InSeason

LEMMA SeasonAdded ==
  ASSUME NEW row \in ShowRow, NEW f \in Refreshes, NEW s \in CSeasons
  PROVE  AddSeason(row, s, f) \in ShowRow
         /\ (SpecialsSkipped(row) => SpecialsSkipped(AddSeason(row, s, f)))
<1>1. CASE s \in row.seasons
  BY <1>1 DEF AddSeason
<1>2. CASE s \notin row.seasons
  <2>. DEFINE new == InSeason(f.fresh.eps, s)
              a == AddSeason(row, s, f)
  <2>1. f.fresh.eps \in SUBSET CEps /\ new \in SUBSET CEps
    BY Seasons DEF Refreshes, Fresh
  <2>2. /\ a = [row EXCEPT !.seasons = @ \cup {s}, !.eps = @ \cup new,
                   !.skS = IF SkipNew(s, f.snap) THEN @ \cup {s} ELSE @,
                   !.skE = IF SkipNew(s, f.snap) THEN @ \cup new ELSE @]
    BY <1>2 DEF AddSeason
  <2>3. /\ a \in ShowRow /\ a.seasons = row.seasons \cup {s} /\ a.eps = row.eps \cup new
        /\ a.skS = IF SkipNew(s, f.snap) THEN row.skS \cup {s} ELSE row.skS
        /\ a.skE = IF SkipNew(s, f.snap) THEN row.skE \cup new ELSE row.skE
    <3>. HIDE DEF a, new
    <3>. QED  BY <2>1, <2>2 DEF ShowRow
  <2>4. row.eps \in SUBSET CEps
    BY DEF ShowRow
  <2>5. InSeason(a.eps, 0) = InSeason(row.eps, 0) \cup InSeason(new, 0)
        /\ InSeason(new, 0) \subseteq new /\ (s # 0 => InSeason(new, 0) = {})
    BY <2>1, <2>3, <2>4, SeasonsApart, Seasons
  <2>. HIDE DEF a, new
  <2>6. s = 0 => SkipNew(s, f.snap)
    BY DEF SkipNew
  <2>7. SpecialsSkipped(row) => InSeason(a.eps, 0) \subseteq a.skE
    BY <2>3, <2>5, <2>6 DEF SpecialsSkipped
  <2>8. SpecialsSkipped(row) => ~SpecialsWanted(a)
    BY <2>3, <2>6 DEF SpecialsSkipped, SpecialsWanted
  <2>. QED  BY <2>3, <2>7, <2>8 DEF SpecialsSkipped, a
<1>. QED  BY <1>1, <1>2

LEMMA EpisodesAdded ==
  ASSUME NEW row \in ShowRow, NEW f \in Refreshes, NEW s \in CSeasons, f.snap \in ShowRow, s \in f.snap.seasons
  PROVE  AddEpisodes(row, s, f) \in ShowRow
         /\ (SpecialsSkipped(row) /\ ~SpecialsWanted(f.snap) => SpecialsSkipped(AddEpisodes(row, s, f)))
<1>. DEFINE new == InSeason(f.fresh.eps, s) \ (f.snap.eps \cup row.eps)
            a == AddEpisodes(row, s, f)
<1>1. f.fresh.eps \in SUBSET CEps /\ new \in SUBSET CEps /\ row.eps \in SUBSET CEps
  BY Seasons DEF Refreshes, Fresh, ShowRow
<1>2. a = [row EXCEPT !.eps = @ \cup new, !.skE = IF s \in f.snap.skS THEN @ \cup new ELSE @]
  BY DEF AddEpisodes
<1>3. InSeason(new, 0) \subseteq new /\ (s # 0 => InSeason(new, 0) = {})
  BY <1>1 DEF InSeason
<1>. HIDE DEF new, a
<1>4. /\ a \in ShowRow /\ a.seasons = row.seasons /\ a.skS = row.skS /\ a.eps = row.eps \cup new
      /\ a.skE = IF s \in f.snap.skS THEN row.skE \cup new ELSE row.skE
  BY <1>1, <1>2 DEF ShowRow
<1>5. InSeason(a.eps, 0) = InSeason(row.eps, 0) \cup InSeason(new, 0)
  BY <1>1, <1>4, SeasonsApart
<1>6. ~SpecialsWanted(f.snap) /\ s = 0 => s \in f.snap.skS
  BY DEF SpecialsWanted
<1>7. SpecialsSkipped(row) /\ ~SpecialsWanted(f.snap) => InSeason(a.eps, 0) \subseteq a.skE
  BY <1>3, <1>4, <1>5, <1>6 DEF SpecialsSkipped
<1>8. SpecialsSkipped(row) => ~SpecialsWanted(a)
  BY <1>4 DEF SpecialsSkipped, SpecialsWanted
<1>. QED  BY <1>4, <1>7, <1>8 DEF SpecialsSkipped, a

\* A refresh writes its row and goes on with it.
LEMMA RowAndRefresh ==
  ASSUME CatalogInv, NEW w \in Refreshers, cRef[w].pc \in Reading, ~cRef[w].gone,
         NEW row \in ShowRow, cRow' = [cRow EXCEPT ![cRef[w].id] = row],
         SpecialsSkipped(cRow[cRef[w].id]) /\ ~SpecialsWanted(cRef[w].snap) => SpecialsSkipped(row),
         NEW left \in SUBSET CSeasons,
         cRef' = [cRef EXCEPT ![w] = [cRef[w] EXCEPT !.pc = "seasons", !.left = left]],
         UNCHANGED <<cWorld, cUp, cAdd, cSweep, cAsked, cEdits, cOutages>>
  PROVE  CatalogInv'
<1>. DEFINE id == cRef[w].id
            f == [cRef[w] EXCEPT !.pc = "seasons", !.fresh = cRef[w].fresh, !.left = left]
<1>t. CatalogVarsTyped /\ cRef[w] \in Refreshes /\ RefreshKept(cRef[w])
  BY DEF CatalogInv, CatalogVarsTyped, RefreshesKept
<1>1. id \in CRows /\ cRow[id] # CNone /\ cRef[w].pc # "idle" /\ cRef[w].fresh \in Fresh
  BY <1>t DEF RefreshKept, Reading, Refreshes
<1>2. f \in Refreshes /\ RefreshKept(f) /\ f.gone = cRef[w].gone /\ f.snap = cRef[w].snap /\ f.id = id
      /\ f.pc = "seasons"
  <2>1. cRef[w].pc # "idle" /\ cRef[w].fresh \in Fresh
    BY <1>1
  <2>2. ASSUME NEW pc \in {"seasons"}
        PROVE  LET g == [cRef[w] EXCEPT !.pc = pc, !.fresh = cRef[w].fresh, !.left = left] IN
               g \in Refreshes /\ RefreshKept(g)
    <3>1. pc \in RefreshPcs \ {"idle"} /\ (pc \in Reading => cRef[w].pc \in Reading)
      BY DEF RefreshPcs
    <3>. QED  BY <2>1, <3>1, GoesOn
  <2>3. f.gone = cRef[w].gone /\ f.snap = cRef[w].snap /\ f.id = id /\ f.pc = "seasons"
    BY <1>t DEF Refreshes
  <2>. QED  BY <2>2, <2>3
<1>3. cRef' = [cRef EXCEPT ![w] = f]
  <2>1. f = [cRef[w] EXCEPT !.pc = "seasons", !.left = left]
    BY <1>t DEF Refreshes
  <2>. QED  BY <2>1
<1>4. SpecialsSkipped(row) \/ id \in cAsked
  <2>1. SpecialsSkipped(cRow[id]) \/ id \in cAsked
    BY <1>1 DEF CatalogInv, SpecialsAsked
  <2>2. ~SpecialsWanted(cRef[w].snap) \/ id \in cAsked
    BY <1>t DEF RefreshKept
  <2>. QED  BY <2>1, <2>2
<1>. HIDE DEF id, f
<1>5. /\ cRow' \in [CRows -> ShowRow \cup {CNone}] /\ cRow'[id] = row /\ row # CNone
      /\ \A q \in CRows \ {id} : cRow'[q] = cRow[q]
      /\ \A q \in CRows : cRow[q] # CNone => cRow'[q] # CNone
  <2>1. cRow' = [cRow EXCEPT ![id] = row]
    BY DEF id
  <2>. QED  BY <1>1, <2>1, RowWritten
<1>6. cRef' \in [Refreshers -> Refreshes] /\ cRef'[w] = f /\ \A v \in Refreshers \ {w} : cRef'[v] = cRef[v]
  BY <1>t, <1>2, <1>3 DEF CatalogVarsTyped
<1>7. CatalogVarsTyped' /\ AddHasRow'
  BY <1>t, <1>5, <1>6 DEF CatalogVarsTyped, CatalogInv, AddHasRow
<1>8. RefreshKept(cRef[w])'
  BY <1>2, <1>5, <1>6 DEF RefreshKept
<1>9. \A r \in CRows : cRow'[r] # CNone => cRow'[r] = cRow[r] \/ SpecialsSkipped(cRow'[r]) \/ r \in cAsked'
  BY <1>4, <1>5
<1>. QED  BY <1>5, <1>6, <1>7, <1>8, <1>9, RowsStay DEF CatalogInv, BatchKept

LEMMA WriteStep ==
  ASSUME CatalogInv, NEW w \in Refreshers, ApplyShow(w) \/ RefreshSeason(w)
  PROVE  CatalogInv'
<1>. DEFINE f == cRef[w]
            id == cRef[w].id
<1>t. CatalogVarsTyped /\ f \in Refreshes /\ RefreshKept(f) /\ f.pc \in Reading
  BY DEF CatalogInv, CatalogVarsTyped, RefreshesKept, ApplyShow, RefreshSeason, Reading
<1>u. UNCHANGED <<cWorld, cUp, cAdd, cSweep, cAsked, cEdits, cOutages>>
  BY DEF ApplyShow, RefreshSeason
<1>k. f.snap \in ShowRow /\ f.fresh \in Fresh /\ f.left \in SUBSET CSeasons
  BY <1>t DEF RefreshKept, Refreshes
<1>1. CASE f.gone
  <2>1. cRow' = cRow /\ \/ cRef' = [cRef EXCEPT ![w] = IdleRefresh]
                         \/ cRef' = [cRef EXCEPT ![w] = [cRef[w] EXCEPT !.pc = "failed"]]
    BY <1>1 DEF ApplyShow, RefreshSeason
  <2>2. Moves(w)
    <3>1. cRef[w].pc # "idle" /\ cRef[w].fresh \in Fresh /\ cRef[w].left \in SUBSET CSeasons
      BY <1>t, <1>k DEF Reading
    <3>. DEFINE g == [cRef[w] EXCEPT !.pc = "failed", !.fresh = cRef[w].fresh, !.left = cRef[w].left]
    <3>2. g \in Refreshes /\ RefreshKept(g)
      <4>1. ASSUME NEW pc \in {"failed"}
            PROVE  LET h == [cRef[w] EXCEPT !.pc = pc, !.fresh = cRef[w].fresh, !.left = cRef[w].left] IN
                   h \in Refreshes /\ RefreshKept(h)
        <5>1. pc \in RefreshPcs \ {"idle"} /\ (pc \in Reading => cRef[w].pc \in Reading)
          BY <1>t DEF RefreshPcs
        <5>. QED  BY <3>1, <5>1, GoesOn
      <4>. QED  BY <4>1
    <3>3. g = [cRef[w] EXCEPT !.pc = "failed"]
      BY <1>t DEF Refreshes
    <3>. QED  BY <2>1, <3>2, <3>3, Ends DEF Moves
  <2>3. PICK g \in Refreshes : cRef' = [cRef EXCEPT ![w] = g] /\ RefreshKept(g)
    BY <2>2 DEF Moves
  <2>4. cSweep' \in [on : BOOLEAN, ids : SUBSET CRows, seen : SUBSET CRows] /\ cSweep'.ids \subseteq InLibrary
        /\ cEdits' \in Nat /\ cEdits' + cOutages <= MaxCEdits
    BY <1>t, <1>u DEF CatalogInv, CatalogVarsTyped, BatchKept
  <2>. QED  BY <1>u, <2>1, <2>3, <2>4, RefreshMoves
<1>2. CASE ~f.gone
  <2>1. id \in CRows /\ cRow[id] \in ShowRow
    BY <1>t, <1>2 DEF RefreshKept, CatalogVarsTyped, Reading
  <2>2. ASSUME ApplyShow(w) PROVE CatalogInv'
    <3>. DEFINE row == Attributes(cRow[id], f.snap, f.fresh)
                left == ShowSeasons(f.fresh.eps)
    <3>1. row \in ShowRow /\ (SpecialsSkipped(cRow[id]) => SpecialsSkipped(row))
      BY <1>k, <2>1, AttributesKept
    <3>2. left \in SUBSET CSeasons
      BY <1>k, Seasons DEF Fresh
    <3>3. cRow' = [cRow EXCEPT ![id] = row]
      BY <1>2, <2>2 DEF ApplyShow
    <3>4. cRef' = [cRef EXCEPT ![w] = [cRef[w] EXCEPT !.pc = "seasons", !.left = left]]
      BY <1>2, <1>t, <2>2 DEF ApplyShow, CatalogVarsTyped, Refreshes
    <3>. HIDE DEF row, left
    <3>. QED  BY <1>2, <1>t, <1>u, <3>1, <3>2, <3>3, <3>4, RowAndRefresh
  <2>3. ASSUME RefreshSeason(w) PROVE CatalogInv'
    <3>. DEFINE s == Min(f.left)
                row == IF s \in f.snap.seasons THEN AddEpisodes(cRow[id], s, f) ELSE AddSeason(cRow[id], s, f)
                left == f.left \ {s}
    <3>1. s \in CSeasons
      <4>1. f.left \in SUBSET Nat /\ f.left # {}
        BY <1>k, <2>3, Seasons DEF RefreshSeason
      <4>2. Min(f.left) \in f.left
        BY <4>1, MinOfNaturals
      <4>. QED  BY <1>k, <4>2
    <3>2. cRow' = [cRow EXCEPT ![id] = row]
      BY <1>2, <2>3 DEF RefreshSeason
    <3>3. cRef' = [cRef EXCEPT ![w] = [cRef[w] EXCEPT !.pc = "seasons", !.left = left]]
      <4>1. cRef' = [cRef EXCEPT ![w].left = f.left \ {s}] /\ cRef[w].pc = "seasons"
        BY <1>2, <2>3 DEF RefreshSeason
      <4>2. [cRef[w] EXCEPT !.pc = "seasons", !.left = left] = [cRef[w] EXCEPT !.left = left]
        BY <1>t, <4>1 DEF Refreshes
      <4>. QED  BY <4>1, <4>2
    <3>. HIDE DEF s
    <3>4. row \in ShowRow
          /\ (SpecialsSkipped(cRow[id]) /\ ~SpecialsWanted(f.snap) => SpecialsSkipped(row))
      BY <1>t, <1>k, <2>1, <3>1, SeasonAdded, EpisodesAdded
    <3>5. left \in SUBSET CSeasons
      BY <1>k
    <3>. HIDE DEF row, left
    <3>. QED  BY <1>2, <1>t, <1>u, <3>2, <3>3, <3>4, <3>5, RowAndRefresh
  <2>. QED  BY <2>2, <2>3
<1>. QED  BY <1>1, <1>2

\* Stamps and their expiry: the check of a row, which says nothing of its specials.
LEMMA CheckStep ==
  ASSUME CatalogInv, StampCheck \/ MarkFailure \/ \E r \in CRows : BecomesDue(r)
  PROVE  CatalogInv'
<1>t. CatalogVarsTyped
  BY DEF CatalogInv
<1>u. UNCHANGED <<cWorld, cUp, cAdd, cSweep, cAsked, cEdits, cOutages>>
  BY DEF StampCheck, MarkFailure, BecomesDue
<1>w. "sweep" \in Refreshers /\ RefreshKept(cRef["sweep"])
  BY DEF Refreshers, CatalogInv, RefreshesKept
<1>1. \A r \in CRows, c \in {"due", "fresh", "backoff"} :
        cRow[r] # CNone => LET row == [cRow[r] EXCEPT !.check = c] IN
                           row \in ShowRow /\ (SpecialsSkipped(cRow[r]) => SpecialsSkipped(row))
  <2>. SUFFICES ASSUME NEW r \in CRows, NEW c \in {"due", "fresh", "backoff"}, cRow[r] # CNone
                PROVE  LET row == [cRow[r] EXCEPT !.check = c] IN
                       row \in ShowRow /\ (SpecialsSkipped(cRow[r]) => SpecialsSkipped(row))
    OBVIOUS
  <2>. DEFINE row == [cRow[r] EXCEPT !.check = c]
  <2>1. cRow[r] \in ShowRow
    BY <1>t DEF CatalogVarsTyped
  <2>2. row \in ShowRow /\ row.eps = cRow[r].eps /\ row.skE = cRow[r].skE /\ row.seasons = cRow[r].seasons
        /\ row.skS = cRow[r].skS
    BY <2>1 DEF ShowRow
  <2>. HIDE DEF row
  <2>3. SpecialsSkipped(cRow[r]) => SpecialsSkipped(row)
    BY <2>2 DEF SpecialsSkipped, SpecialsWanted
  <2>. QED  BY <2>2, <2>3 DEF row
<1>2. cRow' = cRow \/ \E r \in CRows, c \in {"due", "fresh", "backoff"} :
        cRow[r] # CNone /\ cRow' = [cRow EXCEPT ![r] = [cRow[r] EXCEPT !.check = c]]
  <2>1. CASE StampCheck \/ MarkFailure
    <3>1. cRef["sweep"].id \in CRows /\ (~cRef["sweep"].gone => cRow[cRef["sweep"].id] # CNone)
      BY <1>w, <2>1 DEF RefreshKept, StampCheck, MarkFailure
    <3>2. \A c : ~cRef["sweep"].gone => Checked(cRef["sweep"], c) =
                  [cRow EXCEPT ![cRef["sweep"].id] = [cRow[cRef["sweep"].id] EXCEPT !.check = c]]
      BY DEF Checked
    <3>3. \A c : cRef["sweep"].gone => Checked(cRef["sweep"], c) = cRow
      BY DEF Checked
    <3>4. cRow' = cRow \/ \E c \in {"due", "fresh", "backoff"} : cRow' = Checked(cRef["sweep"], c)
      BY <2>1 DEF StampCheck, MarkFailure
    <3>. QED  BY <3>1, <3>2, <3>3, <3>4
  <2>2. CASE \E r \in CRows : BecomesDue(r)
    BY <2>2 DEF BecomesDue
  <2>. QED  BY <2>1, <2>2
<1>. DEFINE Kept ==
       /\ cRow' \in [CRows -> ShowRow \cup {CNone}]
       /\ \A r \in CRows : cRow[r] # CNone => cRow'[r] # CNone
       /\ \A r \in CRows : cRow'[r] # CNone => cRow'[r] = cRow[r] \/ SpecialsSkipped(cRow'[r]) \/ r \in cAsked'
<1>3. Kept
  <2>1. CASE cRow' = cRow
    BY <1>t, <2>1 DEF CatalogVarsTyped
  <2>2. ASSUME NEW r \in CRows, NEW row \in ShowRow, cRow[r] # CNone, cRow' = [cRow EXCEPT ![r] = row],
               SpecialsSkipped(cRow[r]) => SpecialsSkipped(row)
        PROVE  Kept
    <3>1. SpecialsSkipped(cRow[r]) \/ r \in cAsked'
      BY <1>u, <2>2 DEF CatalogInv, SpecialsAsked
    <3>. QED  BY <2>2, <3>1, RowWritten
  <2>. QED  BY <1>1, <1>2, <2>1, <2>2
<1>4. CASE cRef' = cRef
  <2>1. CatalogVarsTyped' /\ AddHasRow'
    BY <1>t, <1>u, <1>3, <1>4 DEF CatalogVarsTyped, CatalogInv, AddHasRow
  <2>. QED  BY <1>u, <1>3, <1>4, <2>1, RefreshesStay DEF CatalogInv, BatchKept
<1>5. CASE cRef' = [cRef EXCEPT !["sweep"] = IdleRefresh]
  <2>1. cRef' \in [Refreshers -> Refreshes] /\ cRef'["sweep"] = IdleRefresh
        /\ \A v \in Refreshers \ {"sweep"} : cRef'[v] = cRef[v]
    BY <1>t, <1>w, <1>5, NoRefresh DEF CatalogVarsTyped
  <2>2. RefreshKept(cRef["sweep"])'
    BY <2>1, NoRefresh DEF RefreshKept, Reading
  <2>3. CatalogVarsTyped' /\ AddHasRow'
    BY <1>t, <1>u, <1>3, <2>1 DEF CatalogVarsTyped, CatalogInv, AddHasRow
  <2>. QED  BY <1>u, <1>w, <1>3, <2>1, <2>2, <2>3, RowsStay DEF CatalogInv, BatchKept
<1>. QED  BY <1>4, <1>5 DEF StampCheck, MarkFailure, BecomesDue

(***************************************************************************)
(* The user: switches, skip flags, deletion.                               *)
(***************************************************************************)
\* A switch writes one row; if a special became wanted, the row is asked for.
LEMMA SwitchStep ==
  ASSUME CatalogInv, NEW r \in CRows, Edit(r), UNCHANGED <<cRef, cSweep>>,
         NEW row \in ShowRow, cRow' = [cRow EXCEPT ![r] = row],
         cAsked' \subseteq CRows, cAsked \subseteq cAsked',
         SpecialsSkipped(cRow[r]) => SpecialsSkipped(row) \/ r \in cAsked'
  PROVE  CatalogInv'
<1>t. CatalogVarsTyped
  BY DEF CatalogInv
<1>1. UNCHANGED <<cWorld, cUp, cAdd, cOutages>> /\ cRow[r] # CNone
  BY DEF Edit
<1>2. cEdits' \in Nat /\ cEdits' + cOutages <= MaxCEdits
  BY <1>t, CatalogAssumption DEF Edit, MayDisturb, CatalogVarsTyped
<1>3. SpecialsSkipped(row) \/ r \in cAsked'
  BY <1>1 DEF CatalogInv, SpecialsAsked
<1>4. /\ cRow' \in [CRows -> ShowRow \cup {CNone}] /\ cRow'[r] = row
      /\ \A q \in CRows \ {r} : cRow'[q] = cRow[q]
      /\ \A q \in CRows : cRow[q] # CNone => cRow'[q] # CNone
  BY RowWritten
<1>5. CatalogVarsTyped' /\ AddHasRow'
  BY <1>t, <1>1, <1>2, <1>4 DEF CatalogVarsTyped, CatalogInv, AddHasRow
<1>6. \A q \in CRows : cRow'[q] # CNone => cRow'[q] = cRow[q] \/ SpecialsSkipped(cRow'[q]) \/ q \in cAsked'
  BY <1>3, <1>4
<1>. QED  BY <1>4, <1>5, <1>6, RefreshesStay DEF CatalogInv, BatchKept

LEMMA EditStep ==
  ASSUME CatalogInv, NEW r \in CRows, SetContinuous(r) \/ SkipSeason(r) \/ SkipEpisode(r)
  PROVE  CatalogInv'
<1>e. Edit(r) /\ UNCHANGED <<cRef, cSweep>>
  BY DEF SetContinuous, SkipSeason, SkipEpisode
<1>r. cRow[r] \in ShowRow /\ cAsked \subseteq CRows
  BY <1>e DEF Edit, CatalogInv, CatalogVarsTyped
<1>1. ASSUME SetContinuous(r) PROVE CatalogInv'
  <2>1. PICK v \in Switches : cRow' = [cRow EXCEPT ![r].cd = v] /\ cAsked' = cAsked
    BY <1>1 DEF SetContinuous
  <2>. DEFINE row == [cRow[r] EXCEPT !.cd = v]
  <2>2. row \in ShowRow /\ row.eps = cRow[r].eps /\ row.skE = cRow[r].skE /\ row.seasons = cRow[r].seasons
        /\ row.skS = cRow[r].skS
    BY <1>r DEF ShowRow
  <2>3. cRow' = [cRow EXCEPT ![r] = row]
    BY <2>1
  <2>. HIDE DEF row
  <2>4. SpecialsSkipped(cRow[r]) => SpecialsSkipped(row)
    BY <2>2 DEF SpecialsSkipped, SpecialsWanted
  <2>. QED  BY <1>e, <1>r, <2>1, <2>2, <2>3, <2>4, SwitchStep
<1>2. ASSUME SkipSeason(r) PROVE CatalogInv'
  <2>1. PICK s \in cRow[r].seasons, skipped \in BOOLEAN :
          LET cascade == InSeason(cRow[r].eps, s) \ CDownloaded IN
          /\ cRow' = [cRow EXCEPT ![r].skS = IF skipped THEN @ \cup {s} ELSE @ \ {s},
                                  ![r].skE = IF skipped THEN @ \cup cascade ELSE @ \ cascade]
          /\ cAsked' = IF s = 0 /\ ~skipped THEN cAsked \cup {r} ELSE cAsked
    BY <1>2 DEF SkipSeason
  <2>. DEFINE cascade == InSeason(cRow[r].eps, s) \ CDownloaded
              row == [cRow[r] EXCEPT !.skS = IF skipped THEN @ \cup {s} ELSE @ \ {s},
                                     !.skE = IF skipped THEN @ \cup cascade ELSE @ \ cascade]
  <2>2. cRow' = [cRow EXCEPT ![r] = row]
    <3>. HIDE DEF cascade
    <3>1. cRow' = [cRow EXCEPT ![r].skS = IF skipped THEN @ \cup {s} ELSE @ \ {s},
                               ![r].skE = IF skipped THEN @ \cup cascade ELSE @ \ cascade]
      BY <2>1 DEF cascade
    <3>. QED  BY <1>r, <3>1 DEF CatalogInv, CatalogVarsTyped, ShowRow
  <2>3. s \in CSeasons /\ cascade \subseteq CEps /\ cascade \subseteq InSeason(cRow[r].eps, s)
    BY <1>r, Seasons DEF ShowRow
  <2>4. s # 0 => InSeason(cRow[r].eps, 0) \cap InSeason(cRow[r].eps, s) = {}
    BY DEF InSeason
  <2>. HIDE DEF cascade
  <2>5. /\ row \in ShowRow /\ row.eps = cRow[r].eps /\ row.seasons = cRow[r].seasons
        /\ row.skS = IF skipped THEN cRow[r].skS \cup {s} ELSE cRow[r].skS \ {s}
        /\ row.skE = IF skipped THEN cRow[r].skE \cup cascade ELSE cRow[r].skE \ cascade
    BY <1>r, <2>3 DEF ShowRow
  <2>. HIDE DEF row
  <2>6. s # 0 \/ skipped => (SpecialsSkipped(cRow[r]) => SpecialsSkipped(row))
    BY <2>3, <2>4, <2>5 DEF SpecialsSkipped, SpecialsWanted
  <2>7. /\ cAsked' \subseteq CRows /\ cAsked \subseteq cAsked'
        /\ (SpecialsSkipped(cRow[r]) => SpecialsSkipped(row) \/ r \in cAsked')
    BY <1>r, <2>1, <2>6
  <2>. QED  BY <1>e, <2>2, <2>5, <2>7, SwitchStep
<1>3. ASSUME SkipEpisode(r) PROVE CatalogInv'
  <2>1. PICK e \in cRow[r].eps, skipped \in BOOLEAN :
          /\ cRow' = [cRow EXCEPT ![r].skE = IF skipped THEN @ \cup {e} ELSE @ \ {e},
                                  ![r].skS = IF skipped THEN @ ELSE @ \ {e[1]}]
          /\ cAsked' = IF e[1] = 0 /\ ~skipped THEN cAsked \cup {r} ELSE cAsked
    BY <1>3 DEF SkipEpisode
  <2>. DEFINE row == [cRow[r] EXCEPT !.skE = IF skipped THEN @ \cup {e} ELSE @ \ {e},
                                     !.skS = IF skipped THEN @ ELSE @ \ {e[1]}]
  <2>2. cRow' = [cRow EXCEPT ![r] = row]
    BY <1>r, <2>1 DEF CatalogInv, CatalogVarsTyped, ShowRow
  <2>3. e \in CEps /\ (e[1] # 0 => e \notin InSeason(cRow[r].eps, 0))
    BY <1>r DEF ShowRow, InSeason
  <2>4. /\ row \in ShowRow /\ row.eps = cRow[r].eps /\ row.seasons = cRow[r].seasons
        /\ row.skS = IF skipped THEN cRow[r].skS ELSE cRow[r].skS \ {e[1]}
        /\ row.skE = IF skipped THEN cRow[r].skE \cup {e} ELSE cRow[r].skE \ {e}
    BY <1>r, <2>3 DEF ShowRow
  <2>. HIDE DEF row
  <2>5. e[1] # 0 \/ skipped => (SpecialsSkipped(cRow[r]) => SpecialsSkipped(row))
    BY <2>3, <2>4 DEF SpecialsSkipped, SpecialsWanted
  <2>6. /\ cAsked' \subseteq CRows /\ cAsked \subseteq cAsked'
        /\ (SpecialsSkipped(cRow[r]) => SpecialsSkipped(row) \/ r \in cAsked')
    BY <1>r, <2>1, <2>5
  <2>. QED  BY <1>e, <2>2, <2>4, <2>6, SwitchStep
<1>. QED  BY <1>1, <1>2, <1>3

\* The refreshes of a deleted row have lost it, and the sweep forgets it.
LEMMA DeleteStep == ASSUME CatalogInv, NEW r \in CRows, DeleteTitle(r) PROVE CatalogInv'
<1>t. CatalogVarsTyped
  BY DEF CatalogInv
<1>1. UNCHANGED <<cWorld, cUp, cAdd, cOutages>> /\ cAsked' = cAsked \ {r} /\ cRow' = [cRow EXCEPT ![r] = CNone]
  BY DEF DeleteTitle, Edit
<1>2. cEdits' \in Nat /\ cEdits' + cOutages <= MaxCEdits
  BY <1>t, CatalogAssumption DEF DeleteTitle, Edit, MayDisturb, CatalogVarsTyped
<1>3. cRow' \in [CRows -> ShowRow \cup {CNone}] /\ cRow'[r] = CNone /\ \A q \in CRows \ {r} : cRow'[q] = cRow[q]
  BY <1>t, <1>1 DEF CatalogVarsTyped
<1>4. ASSUME NEW w \in Refreshers PROVE cRef'[w] \in Refreshes /\ RefreshKept(cRef[w])'
  <2>. DEFINE f == [cRef[w] EXCEPT !.gone = @ \/ cRef[w].id = r]
  <2>1. cRef[w] \in Refreshes /\ RefreshKept(cRef[w])
    BY <1>t DEF CatalogInv, CatalogVarsTyped, RefreshesKept
  <2>2. f \in Refreshes /\ f.pc = cRef[w].pc /\ f.id = cRef[w].id /\ f.snap = cRef[w].snap
        /\ (f.gone <=> cRef[w].gone \/ cRef[w].id = r)
    BY <2>1 DEF Refreshes
  <2>3. cRef'[w] = f
    BY <1>4 DEF DeleteTitle
  <2>. HIDE DEF f
  <2>. QED  BY <1>1, <1>3, <2>1, <2>2, <2>3 DEF RefreshKept, Reading
<1>5. cRef' \in [Refreshers -> Refreshes] /\ RefreshesKept'
  <2>1. cRef' = [w \in Refreshers |-> cRef'[w]]
    BY DEF DeleteTitle
  <2>. QED  BY <1>4, <2>1 DEF RefreshesKept
<1>6. cSweep' \in [on : BOOLEAN, ids : SUBSET CRows, seen : SUBSET CRows] /\ cSweep'.ids = cSweep.ids \ {r}
  BY <1>t DEF CatalogVarsTyped, DeleteTitle
<1>7. CatalogVarsTyped' /\ AddHasRow'
  BY <1>t, <1>1, <1>2, <1>3, <1>5, <1>6 DEF CatalogVarsTyped, CatalogInv, AddHasRow
<1>8. SpecialsAsked' /\ BatchKept'
  BY <1>1, <1>3, <1>6 DEF CatalogInv, SpecialsAsked, BatchKept, InLibrary
<1>. QED  BY <1>5, <1>7, <1>8 DEF CatalogInv

LEMMA CatalogInvNext == CatalogInv /\ [CatalogNext]_cVars => CatalogInv'
<1>. SUFFICES ASSUME CatalogInv, [CatalogNext]_cVars PROVE CatalogInv'
  OBVIOUS
<1>w. "sweep" \in Refreshers /\ "manual" \in Refreshers
  BY DEF Refreshers
<1>1. ASSUME RefreshSweepStep PROVE CatalogInv'
  <2>1. CASE StartSweep \/ NextBatch
    BY <2>1, SweepStep
  <2>2. CASE NextTitle
    BY <2>2, StartStep
  <2>3. CASE StampCheck \/ MarkFailure
    BY <2>3, CheckStep
  <2>4. CASE ReadTitle("sweep") \/ ApplyMovie("sweep") \/ EndRefresh("sweep") \/ SweepFetch
    <3>1. \E w \in Refreshers :
            \/ ReadTitle(w) \/ ApplyMovie(w) \/ EndRefresh(w)
            \/ (w = "sweep" /\ SweepFetch) \/ (w = "manual" /\ ManualFetch)
      BY <1>w, <2>4
    <3>. QED  BY <3>1, MoveStep
  <2>5. CASE ApplyShow("sweep") \/ RefreshSeason("sweep")
    BY <1>w, <2>5, WriteStep
  <2>. QED  BY <1>1, <2>1, <2>2, <2>3, <2>4, <2>5 DEF RefreshSweepStep, RefreshStep
<1>2. ASSUME RefreshStep("manual") \/ ManualFetch PROVE CatalogInv'
  BY <1>w, <1>2, MoveStep, WriteStep DEF RefreshStep
<1>3. ASSUME NEW r \in CRows,
             \/ PublishEpisode(r) \/ EndShow(r) \/ Outage(r) \/ Recovery(r) \/ BecomesDue(r) \/ StartManual(r)
             \/ DeleteTitle(r) \/ SetContinuous(r) \/ SkipSeason(r) \/ SkipEpisode(r)
      PROVE  CatalogInv'
  BY <1>3, WorldStep, CheckStep, StartStep, DeleteStep, EditStep
<1>4. ASSUME NEW u \in CAdders, SaveShow(u) \/ SaveMovie(u) \/ \E r \in CRows : FetchAndLookup(u, r)
      PROVE  CatalogInv'
  BY <1>4, AddStep
<1>5. ASSUME UNCHANGED cVars PROVE CatalogInv'
  <2>1. CatalogVarsTyped' /\ AddHasRow'
    BY <1>5 DEF cVars, CatalogInv, CatalogVarsTyped, AddHasRow
  <2>. QED  BY <1>5, <2>1, RefreshesStay DEF cVars, CatalogInv, BatchKept
<1>. QED  BY <1>1, <1>2, <1>3, <1>4, <1>5 DEF CatalogNext

LEMMA CatalogConsequence == CatalogInv => SpecialsOnlyOnRequest /\ CatalogTypeOK
<1>1. CatalogInv => SpecialsOnlyOnRequest
  BY DEF CatalogInv, SpecialsAsked, SpecialsSkipped, SpecialsOnlyOnRequest, InLibrary
<1>2. CatalogInv => CatalogTypeOK
  <2>. SUFFICES ASSUME CatalogVarsTyped PROVE CatalogTypeOK
    BY DEF CatalogInv
  <2>1. \A u \in CAdders : cAdd[u].pc \in {"idle", "save", "done"}
    BY DEF CatalogVarsTyped, Adds
  <2>2. \A w \in Refreshers :
          /\ cRef[w].pc \in RefreshPcs /\ cRef[w].id \in CRows \cup {CNone}
          /\ cRef[w].left \subseteq CSeasons /\ cRef[w].gone \in BOOLEAN
    BY DEF CatalogVarsTyped, Refreshes
  <2>3. cEdits \in 0..MaxCEdits /\ cOutages \in 0..MaxOutages
    BY CatalogAssumption DEF CatalogVarsTyped
  <2>4. cSweep.on \in BOOLEAN /\ cSweep.ids \subseteq CRows /\ cSweep.seen \subseteq CRows
    BY DEF CatalogVarsTyped
  <2>. QED  BY <2>1, <2>2, <2>3, <2>4 DEF CatalogVarsTyped, CatalogTypeOK, RefreshPcs
<1>. QED  BY <1>1, <1>2

\* What every reachable state of the catalogue satisfies, for any rows, episodes and bounds.
THEOREM CatalogInvariant == CatalogSpec => []CatalogInv
BY CatalogInvInit, CatalogInvNext, PTL DEF CatalogSpec

\* A special is wanted only where the user asked for it, however adding, the sweep, the
\* button, the switches and deletions interleave (shows/service.py:update_show_metadata).
THEOREM SpecialsStaySkipped == CatalogSpec => [](SpecialsOnlyOnRequest /\ CatalogTypeOK)
BY CatalogConsequence, CatalogInvariant, PTL

(***************************************************************************)
(* The subtitles: the types of the searches, of the scan and of the        *)
(* notices.                                                                *)
(***************************************************************************)
SearchPcs == {"idle", "queued", "status", "video", "ask", "save", "record"}
SearchRecords == [pc : SearchPcs, t : UTitles \cup {NoTitle}, miss : SUBSET ULangs, got : SUBSET ULangs, year : BOOLEAN]
ScanRecords == [pc : {"idle", "list", "episodes", "movies"}, eps : SUBSET UTitles, movies : SUBSET UTitles]

SubtitlesInv ==
  /\ uFile \in [UTitles -> SUBSET ULangs] /\ uRec \in [UTitles -> SUBSET ULangs]
  /\ uVideo \subseteq UTitles
  /\ uTask \in [Searchers -> SearchRecords] /\ uScan \in ScanRecords /\ uLock \in BOOLEAN
  /\ uIds \subseteq UTitles /\ uNote \in [UTitles -> {"none", "ids", "post", "told", "failed"}]
  /\ uTroubles \in 0..UMaxTroubles

LEMMA IdleSearchTyped == IdleSearch \in SearchRecords /\ IdleScan \in ScanRecords /\ UTitles \subseteq Searchers
                   /\ USearches \subseteq Searchers
BY DEF IdleSearch, SearchRecords, SearchPcs, IdleScan, ScanRecords, Searchers

LEMMA SubtitlesInvInit == SubtitlesInit => SubtitlesInv
<1>. SUFFICES ASSUME SubtitlesInit PROVE SubtitlesInv
  OBVIOUS
<1>1. uFile \in [UTitles -> SUBSET ULangs] /\ uRec \in [UTitles -> SUBSET ULangs]
  BY DEF SubtitlesInit
<1>2. uTask \in [Searchers -> SearchRecords] /\ uScan \in ScanRecords
  BY IdleSearchTyped DEF SubtitlesInit
<1>3. uNote \in [UTitles -> {"none", "ids", "post", "told", "failed"}]
  BY DEF SubtitlesInit
<1>4. uTroubles \in 0..UMaxTroubles
  BY SubtitlesAssumption DEF SubtitlesInit
<1>. QED  BY <1>1, <1>2, <1>3, <1>4 DEF SubtitlesInit, SubtitlesInv

LEMMA TroubleCounted == SubtitlesInv /\ USometimes => uTroubles' \in 0..UMaxTroubles
BY SubtitlesAssumption DEF SubtitlesInv, USometimes

\* What a search may become.
Searching(k) == \E v \in SearchRecords : uTask' = [uTask EXCEPT ![k] = v]

LEMMA SearchEnded == ASSUME NEW k \in Searchers, End(k) PROVE Searching(k)
BY IdleSearchTyped DEF End, Searching

LEMMA SearchMoved == ASSUME SubtitlesInv, NEW k \in Searchers, NEW pc \in SearchPcs, Move(k, pc) PROVE Searching(k)
<1>. DEFINE v == [uTask[k] EXCEPT !.pc = pc]
<1>1. v \in SearchRecords /\ uTask' = [uTask EXCEPT ![k] = v]
  BY DEF SubtitlesInv, SearchRecords, Move
<1>. QED  BY <1>1 DEF Searching

LEMMA SearchesTyped == ASSUME SubtitlesInv, NEW k \in Searchers, Searching(k)
                       PROVE  uTask' \in [Searchers -> SearchRecords]
BY DEF SubtitlesInv, Searching

LEMMA SearchMoves == ASSUME SubtitlesInv, NEW k \in Searchers, ReadStatus(k) \/ ResolveVideo(k) \/ AskProviders(k)
                     PROVE  Searching(k)
<1>r. uTask[k] \in SearchRecords
  BY DEF SubtitlesInv
<1>1. CASE End(k)
  BY <1>1, SearchEnded
<1>2. CASE Move(k, "ask")
  BY <1>2, SearchMoved DEF SearchPcs
<1>3. CASE ReadStatus(k) /\ ~End(k)
  <2>. DEFINE miss == MissingLanguages(uTask[k].t)
              v == [uTask[k] EXCEPT !.pc = "video", !.miss = miss]
  <2>1. miss \in SUBSET ULangs
    BY DEF MissingLanguages
  <2>2. uTask' = [uTask EXCEPT ![k].pc = "video", ![k].miss = miss]
    BY <1>3 DEF ReadStatus
  <2>. HIDE DEF miss
  <2>3. v \in SearchRecords
    BY <1>r, <2>1 DEF SearchRecords, SearchPcs
  <2>4. uTask' = [uTask EXCEPT ![k] = v]
    BY <1>r, <2>2 DEF SubtitlesInv, SearchRecords
  <2>. QED  BY <2>3, <2>4 DEF Searching
<1>4. CASE AskProviders(k) /\ ~End(k)
  <2>. DEFINE got == Answer(uTask[k].t, uTask[k].year, uTask[k].miss)
              v == [uTask[k] EXCEPT !.pc = "save", !.got = got]
              w == [uTask[k] EXCEPT !.year = FALSE]
  <2>1. got \in SUBSET ULangs
    BY <1>r DEF Answer, SearchRecords
  <2>2. uTask' = [uTask EXCEPT ![k].pc = "save", ![k].got = got] \/ uTask' = [uTask EXCEPT ![k].year = FALSE]
    BY <1>4 DEF AskProviders
  <2>. HIDE DEF got
  <2>3. v \in SearchRecords /\ w \in SearchRecords
    BY <1>r, <2>1 DEF SearchRecords, SearchPcs
  <2>4. uTask' = [uTask EXCEPT ![k] = v] \/ uTask' = [uTask EXCEPT ![k] = w]
    BY <1>r, <2>2 DEF SubtitlesInv, SearchRecords
  <2>. QED  BY <2>3, <2>4 DEF Searching
<1>. QED  BY <1>1, <1>2, <1>3, <1>4 DEF ResolveVideo

LEMMA TitlesQueued == ASSUME SubtitlesInv, NEW ts \in SUBSET UTitles, Queue(ts)
                PROVE  uTask' \in [Searchers -> SearchRecords]
<1>1. \A k \in ts : [IdleSearch EXCEPT !.pc = "queued", !.t = k] \in SearchRecords
  BY DEF IdleSearch, SearchRecords, SearchPcs
<1>. QED  BY <1>1 DEF Queue, SubtitlesInv

LEMMA SubtitlesInvNext == SubtitlesInv /\ [SubtitlesNext]_uVars => SubtitlesInv'
<1>. SUFFICES ASSUME SubtitlesInv, [SubtitlesNext]_uVars PROVE SubtitlesInv'
  OBVIOUS
<1>1. ASSUME NEW k \in Searchers, ReadStatus(k) \/ ResolveVideo(k) \/ AskProviders(k) PROVE SubtitlesInv'
  <2>1. OnlyTask /\ uTask' \in [Searchers -> SearchRecords]
    BY <1>1, SearchMoves, SearchesTyped DEF ReadStatus, ResolveVideo, AskProviders
  <2>. QED  BY <2>1 DEF OnlyTask, noteVars, SubtitlesInv
<1>2. ASSUME NEW k \in Searchers, SaveSubtitles(k) \/ SaveRecords(k) PROVE SubtitlesInv'
  <2>1. uTask[k].got \subseteq ULangs
    BY DEF SubtitlesInv, SearchRecords
  <2>2. uTask' \in [Searchers -> SearchRecords]
    BY <1>2, SearchMoved, SearchEnded, SearchesTyped DEF SaveSubtitles, SaveRecords, SearchPcs
  <2>3. uFile' \in [UTitles -> SUBSET ULangs] /\ uRec' \in [UTitles -> SUBSET ULangs]
    BY <1>2, <2>1 DEF SubtitlesInv, SaveSubtitles, SaveRecords
  <2>. QED  BY <1>2, <2>2, <2>3 DEF SaveSubtitles, SaveRecords, noteVars, SubtitlesInv
<1>3. ASSUME NEW k \in Searchers, SearchFails(k) PROVE SubtitlesInv'
  <2>1. uTask' \in [Searchers -> SearchRecords] /\ uTroubles' \in 0..UMaxTroubles
    BY <1>3, SearchEnded, SearchesTyped, TroubleCounted DEF SearchFails, AfterFailure
  <2>. QED  BY <1>3, <2>1 DEF SearchFails, noteVars, SubtitlesInv
<1>4. ASSUME NEW k \in Searchers, NEW t \in UTitles, StartSearch(k, t) PROVE SubtitlesInv'
  <2>1. [IdleSearch EXCEPT !.pc = "status", !.t = t] \in SearchRecords
    BY DEF IdleSearch, SearchRecords, SearchPcs
  <2>2. OnlyTask /\ uTask' \in [Searchers -> SearchRecords]
    BY <1>4, <2>1, SearchesTyped DEF StartSearch, Searching
  <2>. QED  BY <2>2 DEF OnlyTask, noteVars, SubtitlesInv
<1>5. ASSUME NEW t \in UTitles, ScanTitle(t) PROVE SubtitlesInv'
  <2>1. OnlyTask /\ uTask' \in [Searchers -> SearchRecords]
    BY <1>5, IdleSearchTyped, SearchMoved, SearchesTyped DEF ScanTitle, SearchPcs
  <2>. QED  BY <2>1 DEF OnlyTask, noteVars, SubtitlesInv
<1>6. ASSUME NEW t \in UTitles, ImportVideo(t) \/ GetArrIds(t) \/ NotifyBazarr(t) PROVE SubtitlesInv'
  <2>1. UNCHANGED <<uFile, uRec, uTask, uScan, uLock, uTroubles>>
    BY <1>6 DEF ImportVideo, GetArrIds, NotifyBazarr
  <2>2. uVideo' \subseteq UTitles /\ uIds' \subseteq UTitles
        /\ uNote' \in [UTitles -> {"none", "ids", "post", "told", "failed"}]
    BY <1>6 DEF SubtitlesInv, ImportVideo, GetArrIds, NotifyBazarr
  <2>. QED  BY <2>1, <2>2 DEF SubtitlesInv
<1>7. ASSUME NEW t \in UTitles, NotifyFails(t) \/ \E l \in ULangs : DeleteSubtitle(t, l) PROVE SubtitlesInv'
  <2>1. uTroubles' \in 0..UMaxTroubles
    BY <1>7, TroubleCounted DEF NotifyFails, DeleteSubtitle
  <2>2. uFile' \in [UTitles -> SUBSET ULangs] /\ uNote' \in [UTitles -> {"none", "ids", "post", "told", "failed"}]
    BY <1>7 DEF SubtitlesInv, NotifyFails, DeleteSubtitle, noteVars
  <2>. QED  BY <1>7, <2>1, <2>2 DEF SubtitlesInv, NotifyFails, DeleteSubtitle, noteVars
<1>8. ASSUME StartScan \/ EndScan \/ EnumerateFails PROVE SubtitlesInv'
  <2>1. [IdleScan EXCEPT !.pc = "list"] \in ScanRecords
    BY DEF IdleScan, ScanRecords
  <2>2. uScan' \in ScanRecords /\ uLock' \in BOOLEAN
    BY <1>8, <2>1, IdleSearchTyped DEF StartScan, EndScan, EnumerateFails
  <2>3. uTroubles' \in 0..UMaxTroubles
    BY <1>8, TroubleCounted DEF StartScan, EndScan, EnumerateFails, SubtitlesInv
  <2>4. UNCHANGED <<uFile, uVideo, uRec, uTask, noteVars>>
    BY <1>8 DEF StartScan, EndScan, EnumerateFails
  <2>. QED  BY <2>2, <2>3, <2>4 DEF SubtitlesInv, noteVars
<1>9. ASSUME EnumerateTargets \/ ScanMovies PROVE SubtitlesInv'
  <2>1. uScan' \in ScanRecords
    BY <1>9 DEF EnumerateTargets, ScanMovies, SubtitlesInv, ScanRecords
  <2>2. uTask' \in [Searchers -> SearchRecords]
    <3>1. uScan.movies \in SUBSET UTitles /\ uVideo \cap UEpisodes \in SUBSET UTitles
      BY DEF SubtitlesInv, ScanRecords
    <3>. QED  BY <1>9, <3>1, TitlesQueued DEF EnumerateTargets, ScanMovies
  <2>. QED  BY <1>9, <2>1, <2>2 DEF EnumerateTargets, ScanMovies, SubtitlesInv, noteVars
<1>10. ASSUME UNCHANGED uVars PROVE SubtitlesInv'
  BY <1>10 DEF uVars, SubtitlesInv
<1>. QED
  BY <1>1, <1>2, <1>3, <1>4, <1>5, <1>6, <1>7, <1>8, <1>9, <1>10 DEF SubtitlesNext, SearchStep, ScanStep

LEMMA SubtitlesTyped == SubtitlesInv => SubtitlesTypeOK
<1>1. SubtitlesInv => \A k \in Searchers : uTask[k].pc \in SearchPcs /\ uTask[k].miss \subseteq ULangs
  BY DEF SubtitlesInv, SearchRecords
<1>2. SubtitlesInv => uScan.pc \in {"idle", "list", "episodes", "movies"}
  BY DEF SubtitlesInv, ScanRecords
<1>. QED  BY <1>1, <1>2 DEF SubtitlesInv, SubtitlesTypeOK, SearchPcs

(***************************************************************************)
(* The viewing sync: cursors and digests stay dates of plays, whatever     *)
(* users and polls fail.                                                   *)
(***************************************************************************)
PlayEvents == [user : SUsers, item : SItems, at : SDates, kind : Kinds]
Outcomes == [e : PlayEvents, proposed : BOOLEAN]
Polls == [pc : {"idle", "fetch", "commit"}, cursors : [SUsers -> SDates], todo : SUBSET SUsers,
          events : SUBSET PlayEvents, reach : [SUsers -> SDates], out : SUBSET Outcomes]

SyncInv ==
  /\ sPlay \in [SUsers -> [SItems -> [at : SDates, kind : Kinds]]] /\ sClock \in 0..SMaxPlays
  /\ sCursor \in [SUsers -> SDates] /\ sDigest \in [SUsers \X SItems -> SDates]
  /\ sSeen \subseteq SUsers \X SItems \X SDates
  /\ sLocal \in [SUsers -> [STitles -> [at : SDates, manual : BOOLEAN]]] /\ sLocals \in Nat
  /\ sPoll \in [SPollers -> Polls]
  /\ sFails \in 0..SMaxFails

LEMMA DatesAreNumbers ==
  /\ SDates \subseteq Nat /\ Never \in SDates /\ 0..SMaxPlays \subseteq SDates /\ Future \in SDates
  /\ Future \in Nat /\ SDates = 0..Future
BY SyncAssumption DEF SDates, Never, Future

LEMMA NoPollTyped == NoPoll \in Polls /\ NoPoll.pc = "idle"
BY DatesAreNumbers DEF NoPoll, Polls

LEMMA SyncInvInit == SyncInit => SyncInv
<1>. SUFFICES ASSUME SyncInit PROVE SyncInv
  OBVIOUS
<1>1. sPlay \in [SUsers -> [SItems -> [at : SDates, kind : Kinds]]]
  BY DatesAreNumbers DEF SyncInit, Kinds
<1>2. sLocal \in [SUsers -> [STitles -> [at : SDates, manual : BOOLEAN]]]
  BY DatesAreNumbers DEF SyncInit
<1>3. sClock \in 0..SMaxPlays /\ sFails \in 0..SMaxFails /\ sLocals \in Nat
  BY SyncAssumption DEF SyncInit
<1>4. sCursor \in [SUsers -> SDates] /\ sDigest \in [SUsers \X SItems -> SDates] /\ sPoll \in [SPollers -> Polls]
  BY DatesAreNumbers, NoPollTyped DEF SyncInit
<1>. QED  BY <1>1, <1>2, <1>3, <1>4 DEF SyncInit, SyncInv

LEMMA LatestTyped == ASSUME NEW events \in SUBSET PlayEvents PROVE Latest(events) \in SDates
<1>. DEFINE S == {e.at : e \in events}
<1>1. CASE events = {}
  BY <1>1, DatesAreNumbers DEF Latest
<1>2. CASE events # {}
  <2>1. S \subseteq SDates /\ S # {} /\ S \in SUBSET Nat /\ S \subseteq 0..Future
    BY <1>2, DatesAreNumbers DEF PlayEvents
  <2>2. PICK m \in S : \A y \in S : m >= y
    <3>. HIDE DEF S
    <3>. QED  BY <2>1, MaxOfBounded, DatesAreNumbers
  <2>3. \A e \in events : e.at <= m
    BY <2>1, <2>2
  <2>4. (CHOOSE at \in S : \A e \in events : e.at <= at) \in S
    BY <2>2, <2>3
  <2>. QED  BY <1>2, <2>1, <2>4 DEF Latest
<1>. QED  BY <1>1, <1>2

LEMMA EventsTyped == ASSUME SyncInv, NEW u \in SUsers, NEW since PROVE Events(u, since) \subseteq PlayEvents
BY DEF SyncInv, Events, PlayEvents

LEMMA PollTyped == ASSUME SyncInv, NEW p \in SPollers, NEW r \in Polls, sPoll' = [sPoll EXCEPT ![p] = r]
                   PROVE  sPoll' \in [SPollers -> Polls]
BY DEF SyncInv

LEMMA SomeTrouble == SyncInv /\ Trouble => sFails + 1 \in 0..SMaxFails
BY SyncAssumption DEF SyncInv, Trouble

LEMMA FetchTyped == ASSUME SyncInv, NEW p \in SPollers, NEW u \in SUsers, FetchUser(p, u)
                    PROVE  sPoll' \in [SPollers -> Polls]
<1>. DEFINE new == Events(u, sPoll[p].cursors[u])
            r == [sPoll[p] EXCEPT !.todo = @ \ {u}, !.events = @ \cup new, !.reach = [@ EXCEPT ![u] = Latest(new)]]
<1>1. sPoll[p] \in Polls /\ new \in SUBSET PlayEvents /\ Latest(new) \in SDates
  BY EventsTyped, LatestTyped DEF SyncInv
<1>2. sPoll' = [sPoll EXCEPT ![p].todo = @ \ {u}, ![p].events = @ \cup new, ![p].reach[u] = Latest(new)]
  BY DEF FetchUser
<1>. HIDE DEF new
<1>3. r \in Polls
  BY <1>1 DEF Polls
<1>4. sPoll' = [sPoll EXCEPT ![p] = r]
  BY <1>1, <1>2 DEF SyncInv, Polls
<1>. HIDE DEF r
<1>. QED  BY <1>3, <1>4, PollTyped

LEMMA CommitTyped ==
  ASSUME SyncInv, NEW p \in SPollers, CommitPoll(p)
  PROVE  /\ sCursor' \in [SUsers -> SDates] /\ sDigest' \in [SUsers \X SItems -> SDates]
         /\ sSeen' \subseteq SUsers \X SItems \X SDates
<1>. DEFINE r == sPoll[p]
<1>1. r \in Polls
  BY DEF SyncInv
<1>2. sCursor' = SetUserCursors(r) /\ sDigest' = PriorDigests(r) /\ sSeen' = sSeen \cup Inserted(r)
  BY DEF CommitPoll
<1>3. \A o \in r.out : o.e.user \in SUsers /\ o.e.item \in SItems /\ o.e.at \in SDates
  BY <1>1 DEF Polls, Outcomes, PlayEvents
<1>4. SetUserCursors(r) \in [SUsers -> SDates]
  BY <1>1 DEF SetUserCursors, Polls, SyncInv
<1>5. Inserted(r) \subseteq SUsers \X SItems \X SDates
  BY <1>3 DEF Inserted
<1>. HIDE DEF r
<1>6. PriorDigests(r) \in [SUsers \X SItems -> SDates]
  <2>. DEFINE new(x) == {o \in r.out : o.proposed /\ o.e.user = x[1] /\ o.e.item = x[2]}
              digest(x) == IF new(x) = {} THEN sDigest[x] ELSE (CHOOSE o \in new(x) : TRUE).e.at
  <2>1. ASSUME NEW x \in SUsers \X SItems PROVE digest(x) \in SDates
    <3>1. CASE new(x) = {}
      BY <3>1 DEF SyncInv
    <3>2. CASE new(x) # {}
      <4>1. (CHOOSE o \in new(x) : TRUE) \in r.out
        BY <3>2
      <4>. QED  BY <1>3, <3>2, <4>1
    <3>. QED  BY <3>1, <3>2
  <2>2. PriorDigests(r) = [x \in SUsers \X SItems |-> digest(x)]
    BY DEF PriorDigests
  <2>. HIDE DEF digest
  <2>. QED  BY <2>1, <2>2
<1>. QED  BY <1>2, <1>4, <1>5, <1>6 DEF SyncInv

LEMMA SyncInvNext == SyncInv /\ [SyncNext]_sVars => SyncInv'
<1>. SUFFICES ASSUME SyncInv, [SyncNext]_sVars PROVE SyncInv'
  OBVIOUS
<1>1. ASSUME NEW p \in SPollers, StartPoll(p) \/ ProcessEvents(p) PROVE SyncInv'
  <2>1. sPoll[p] \in Polls /\ sCursor \in [SUsers -> SDates]
    BY DEF SyncInv
  <2>2. ASSUME StartPoll(p) PROVE sPoll' \in [SPollers -> Polls]
    <3>. DEFINE r == [NoPoll EXCEPT !.pc = "fetch", !.cursors = sCursor, !.todo = SUsers]
    <3>1. r \in Polls
      BY <2>1, NoPollTyped DEF Polls
    <3>2. sPoll' = [sPoll EXCEPT ![p] = r]
      BY <2>2 DEF StartPoll
    <3>. HIDE DEF r
    <3>. QED  BY <3>1, <3>2, PollTyped
  <2>3. ASSUME ProcessEvents(p) PROVE sPoll' \in [SPollers -> Polls]
    <3>. DEFINE out == {[e |-> e, proposed |-> ~Quarantined(e)] : e \in sPoll[p].events}
                r == [sPoll[p] EXCEPT !.pc = "commit", !.out = out]
    <3>1. out \in SUBSET Outcomes
      <4>1. \A e \in sPoll[p].events : e \in PlayEvents
        BY <2>1 DEF Polls
      <4>2. \A e \in PlayEvents, b \in BOOLEAN : [e |-> e, proposed |-> b] \in Outcomes
        BY DEF Outcomes
      <4>3. \A e : (~Quarantined(e)) \in BOOLEAN
        OBVIOUS
      <4>. QED  BY <4>1, <4>2, <4>3
    <3>2. sPoll' = [sPoll EXCEPT ![p].pc = "commit", ![p].out = out]
      BY <2>3 DEF ProcessEvents
    <3>. HIDE DEF out
    <3>3. r \in Polls
      BY <2>1, <3>1 DEF Polls
    <3>4. sPoll' = [sPoll EXCEPT ![p] = r]
      BY <2>1, <3>2 DEF SyncInv, Polls
    <3>. HIDE DEF r
    <3>. QED  BY <3>3, <3>4, PollTyped
  <2>4. UNCHANGED <<sPlay, sClock, sCursor, sDigest, sSeen, sLocal, sLocals, sFails>>
    BY <1>1 DEF StartPoll, ProcessEvents, serverVars, localVars
  <2>. QED  BY <1>1, <2>2, <2>3, <2>4 DEF SyncInv
<1>2. ASSUME NEW p \in SPollers, NEW u \in SUsers, FetchUser(p, u) PROVE SyncInv'
  <2>1. UNCHANGED <<sPlay, sClock, sCursor, sDigest, sSeen, sLocal, sLocals, sFails>>
    BY <1>2 DEF FetchUser, serverVars, localVars
  <2>. QED  BY <1>2, <2>1, FetchTyped DEF SyncInv
<1>3. ASSUME NEW p \in SPollers, CommitPoll(p) PROVE SyncInv'
  <2>1. sPoll' \in [SPollers -> Polls]
    BY <1>3, NoPollTyped, PollTyped DEF CommitPoll
  <2>2. UNCHANGED <<sPlay, sClock, sLocal, sLocals, sFails>>
    BY <1>3 DEF CommitPoll, serverVars, localVars
  <2>. QED  BY <1>3, <2>1, <2>2, CommitTyped DEF SyncInv
<1>4. ASSUME NEW p \in SPollers, PollFails(p) \/ \E u \in SUsers : FetchFails(p, u) PROVE SyncInv'
  <2>1. UNCHANGED <<sPlay, sClock, sCursor, sDigest, sSeen, sLocal, sLocals>> /\ sFails' \in 0..SMaxFails
    BY <1>4, SomeTrouble DEF PollFails, FetchFails, serverVars, localVars
  <2>2. sPoll' \in [SPollers -> Polls]
    <3>1. sPoll[p] \in Polls
      BY DEF SyncInv
    <3>2. \A u \in SUsers : [sPoll[p] EXCEPT !.todo = @ \ {u}] \in Polls
      BY <3>1 DEF Polls
    <3>3. sPoll' = [sPoll EXCEPT ![p] = NoPoll]
          \/ \E u \in SUsers : sPoll' = [sPoll EXCEPT ![p] = [sPoll[p] EXCEPT !.todo = @ \ {u}]]
      BY <1>4 DEF PollFails, FetchFails
    <3>. QED  BY <3>2, <3>3, NoPollTyped, PollTyped
  <2>. QED  BY <2>1, <2>2 DEF SyncInv
<1>5. ASSUME NEW u \in SUsers, NEW i \in SItems, PurgeStaleRows(u, i) PROVE SyncInv'
  <2>1. sDigest' \in [SUsers \X SItems -> SDates]
    BY <1>5, DatesAreNumbers DEF PurgeStaleRows, SyncInv
  <2>. QED  BY <1>5, <2>1 DEF PurgeStaleRows, SyncInv, serverVars, localVars
<1>6. ASSUME NEW u \in SUsers, NEW i \in SItems, NEW k \in Kinds, RemotePlay(u, i, k) PROVE SyncInv'
  <2>1. PICK at \in {sClock + 1, Future} : sPlay' = [sPlay EXCEPT ![u][i] = [at |-> at, kind |-> k]]
    BY <1>6 DEF RemotePlay
  <2>2. sClock' = sClock + 1 /\ sClock + 1 \in 0..SMaxPlays
    BY <1>6, SyncAssumption DEF RemotePlay, SyncInv
  <2>3. [at |-> at, kind |-> k] \in [at : SDates, kind : Kinds]
    BY <2>2, DatesAreNumbers
  <2>4. sPlay' \in [SUsers -> [SItems -> [at : SDates, kind : Kinds]]]
    BY <2>1, <2>3 DEF SyncInv
  <2>. QED  BY <1>6, <2>2, <2>4 DEF RemotePlay, SyncInv, localVars
<1>7. ASSUME NEW u \in SUsers, NEW t \in STitles, LocalPlay(u, t) \/ \E m \in BOOLEAN : LocalMark(u, t, m)
      PROVE  SyncInv'
  <2>. DEFINE l == sLocal[u][t]
  <2>1. l \in [at : SDates, manual : BOOLEAN] /\ sClock \in SDates
    BY DatesAreNumbers DEF SyncInv
  <2>2. \E v \in [at : SDates, manual : BOOLEAN] : sLocal' = [sLocal EXCEPT ![u][t] = v]
    <3>1. [l EXCEPT !.at = sClock] \in [at : SDates, manual : BOOLEAN]
          /\ \A m \in BOOLEAN : [l EXCEPT !.manual = m] \in [at : SDates, manual : BOOLEAN]
      BY <2>1
    <3>2. sLocal' = [sLocal EXCEPT ![u][t] = [l EXCEPT !.at = sClock]]
          \/ \E m \in BOOLEAN : sLocal' = [sLocal EXCEPT ![u][t] = [l EXCEPT !.manual = m]]
      BY <1>7 DEF LocalPlay, LocalMark
    <3>. QED  BY <3>1, <3>2
  <2>3. sLocal' \in [SUsers -> [STitles -> [at : SDates, manual : BOOLEAN]]]
    BY <2>2 DEF SyncInv
  <2>4. sLocals' \in Nat /\ UNCHANGED <<sPlay, sClock, sCursor, sDigest, sSeen, sPoll, sFails>>
    BY <1>7 DEF LocalPlay, LocalMark, serverVars, SyncInv
  <2>. QED  BY <2>3, <2>4 DEF SyncInv
<1>8. ASSUME UNCHANGED sVars PROVE SyncInv'
  BY <1>8 DEF sVars, SyncInv
<1>. QED  BY <1>1, <1>2, <1>3, <1>4, <1>5, <1>6, <1>7, <1>8 DEF SyncNext, PollStep

LEMMA SyncTyped == SyncInv => SyncTypeOK
<1>1. SyncInv => \A u \in SUsers, i \in SItems : sPlay[u][i].at \in SDates /\ sPlay[u][i].kind \in Kinds
  BY DEF SyncInv
<1>2. SyncInv => \A u \in SUsers, t \in STitles : sLocal[u][t].at \in SDates /\ sLocal[u][t].manual \in BOOLEAN
  BY DEF SyncInv
<1>3. SyncInv => \A p \in SPollers : sPoll[p].pc \in {"idle", "fetch", "commit"} /\ sPoll[p].todo \subseteq SUsers
  BY DEF SyncInv, Polls
<1>. QED  BY <1>1, <1>2, <1>3 DEF SyncInv, SyncTypeOK

(***************************************************************************)
(* The streams: the cache's directories, the encodes and the players stay  *)
(* well formed, whatever is reaped, published, evicted or restarted.       *)
(***************************************************************************)
StreamFiles == [row : BOOLEAN, indexed : BOOLEAN, subtitle : BOOLEAN, vtt : BOOLEAN,
                on : BOOLEAN, ver : 1 .. ZMaxVer]
Dirs == [there : BOOLEAN, segs : 0 .. ZLen, done : BOOLEAN, wrote : 0 .. 3, read : 0 .. 3]
Encodes == [n : 0 .. ZTmp, at : {"none", "begin", "run", "ended"}]
Players == [at : {"idle", "open", "wait", "play"}, file : ZFiles,
            key : ZKeys, n : 0 .. ZTmp, listed : 0 .. ZLen]

LEMMA StreamConstants ==
  /\ NoDir \in Dirs /\ NoJob \in Encodes /\ NoRequest \in Players
  /\ ZLen \in Nat /\ ZTmp \in Nat /\ ZMaxVer \in Nat /\ 1 \in 1 .. ZMaxVer
<1>1. ZLen \in Nat /\ ZTmp \in Nat /\ ZMaxVer \in Nat /\ 1 \in 1 .. ZMaxVer /\ ZFiles # {}
  BY StreamsAssumption
<1>2. NoDir \in Dirs
  BY <1>1 DEF NoDir, Dirs
<1>3. NoJob \in Encodes
  BY <1>1 DEF NoJob, Encodes
<1>4. NoRequest \in Players
  <2>. DEFINE f == CHOOSE g \in ZFiles : TRUE
  <2>1. f \in ZFiles
    BY <1>1
  <2>2. NoRequest = [at |-> "idle", file |-> f, key |-> <<f, 1>>, n |-> 0, listed |-> 0]
    BY DEF NoRequest
  <2>. HIDE DEF f
  <2>. QED  BY <1>1, <2>1, <2>2 DEF Players, ZKeys
<1>. QED  BY <1>1, <1>2, <1>3, <1>4

LEMMA StreamsTypes ==
  StreamsTypeOK <=> /\ zFile \in [ZFiles -> StreamFiles] /\ zDir \in [Places -> Dirs]
                    /\ zJob \in [ZKeys -> Encodes] /\ zReq \in [ZClients -> Players]
                    /\ zSweep \subseteq Places
BY DEF StreamsTypeOK, StreamFiles, Dirs, Encodes, Players

LEMMA StreamsTypesNext ==
  /\ zFile' \in [ZFiles -> StreamFiles] /\ zDir' \in [Places -> Dirs]
  /\ zJob' \in [ZKeys -> Encodes] /\ zReq' \in [ZClients -> Players]
  /\ zSweep' \subseteq Places
  => StreamsTypeOK'
BY DEF StreamsTypeOK, StreamFiles, Dirs, Encodes, Players

LEMMA KeysAndPlaces ==
  ASSUME StreamsTypeOK
  PROVE  /\ \A f \in ZFiles : CacheKey(f) \in ZKeys
         /\ \A k \in ZKeys, n \in 0 .. ZTmp : <<k, n>> \in Places
         /\ \A p \in Places : p[1] \in ZKeys /\ p[2] \in 0 .. ZTmp
<1>1. \A f \in ZFiles : CacheKey(f) \in ZKeys
  BY DEF StreamsTypeOK, CacheKey, ZKeys
<1>. QED  BY <1>1 DEF Places

LEMMA ReqStays ==
  ASSUME StreamsTypeOK, NEW c \in ZClients,
         NEW at \in {"idle", "open", "wait", "play"}, NEW file \in ZFiles
  PROVE  /\ [zReq EXCEPT ![c].at = at] \in [ZClients -> Players]
         /\ [zReq EXCEPT ![c].at = at, ![c].file = file] \in [ZClients -> Players]
BY StreamConstants DEF StreamsTypeOK, Players

LEMMA BackTyped ==
  ASSUME StreamsTypeOK, NEW c \in ZClients, Back(c)
  PROVE  zReq' \in [ZClients -> Players]
BY StreamConstants, StreamsTypes DEF Back

LEMMA JobStays ==
  ASSUME StreamsTypeOK, NEW k \in ZKeys, NEW at \in {"none", "begin", "run", "ended"}
  PROVE  /\ [zJob EXCEPT ![k] = NoJob] \in [ZKeys -> Encodes]
         /\ [zJob EXCEPT ![k].at = at] \in [ZKeys -> Encodes]
BY StreamConstants DEF StreamsTypeOK, Encodes

LEMMA StartTyped ==
  ASSUME StreamsTypeOK, NEW k \in ZKeys, StartJob(k)
  PROVE  zJob' \in [ZKeys -> Encodes]
<1>1. PICK n \in FreshTmp(k) : zJob' = [zJob EXCEPT ![k] = [n |-> n, at |-> "begin"]]
  BY DEF StartJob
<1>2. [n |-> n, at |-> "begin"] \in Encodes
  BY <1>1 DEF FreshTmp, Encodes
<1>. QED  BY <1>1, <1>2 DEF StreamsTypeOK, Encodes

LEMMA FileStays ==
  ASSUME StreamsTypeOK, NEW f \in ZFiles
  PROVE  /\ ResolveSource(f) => zFile' \in [ZFiles -> StreamFiles]
         /\ [zFile EXCEPT ![f].subtitle = zFile[f].on, ![f].vtt = @ \/ zFile[f].on]
              \in [ZFiles -> StreamFiles]
<1>1. zFile \in [ZFiles -> StreamFiles] /\ zFile[f] \in StreamFiles
  BY StreamsTypes
<1>2. /\ (zFile[f].row /\ zFile[f].on) \in BOOLEAN /\ zFile[f].on \in BOOLEAN
      /\ (zFile[f].vtt \/ zFile[f].on) \in BOOLEAN
  BY <1>1 DEF StreamFiles
<1>3. ASSUME NEW b \in BOOLEAN, NEW d \in BOOLEAN
      PROVE  /\ [zFile EXCEPT ![f].indexed = b] \in [ZFiles -> StreamFiles]
             /\ [zFile EXCEPT ![f].subtitle = b, ![f].vtt = d] \in [ZFiles -> StreamFiles]
  BY <1>1 DEF StreamFiles
<1>4. ASSUME ResolveSource(f) PROVE zFile' \in [ZFiles -> StreamFiles]
  BY <1>2, <1>3, <1>4 DEF ResolveSource
<1>5. [zFile EXCEPT ![f].subtitle = zFile[f].on, ![f].vtt = @ \/ zFile[f].on]
        = [zFile EXCEPT ![f].subtitle = zFile[f].on, ![f].vtt = zFile[f].vtt \/ zFile[f].on]
  BY <1>1 DEF StreamFiles
<1>. QED  BY <1>2, <1>3, <1>4, <1>5

LEMMA PlaylistTyped ==
  ASSUME StreamsTypeOK, NEW c \in ZClients, NEW p \in Places, GivesPlaylist(c, p)
  PROVE  zReq' \in [ZClients -> Players]
<1>. DEFINE r == [zReq[c] EXCEPT !.at = "play", !.key = p[1], !.n = p[2], !.listed = zDir[p].segs]
<1>1. r \in Players
  BY KeysAndPlaces DEF StreamsTypeOK, Players
<1>2. zReq' = [zReq EXCEPT ![c] = r]
  BY DEF GivesPlaylist, StreamsTypeOK
<1>. HIDE DEF r
<1>. QED  BY <1>1, <1>2 DEF StreamsTypeOK, Players

LEMMA DirStays ==
  ASSUME StreamsTypeOK, NEW d \in [Places -> Dirs], NEW p \in Places, NEW e \in Dirs
  PROVE  [d EXCEPT ![p] = e] \in [Places -> Dirs]
OBVIOUS

LEMMA StreamsInitTyped == StreamsInit => StreamsTypeOK
<1>1. SUFFICES ASSUME StreamsInit PROVE StreamsTypeOK
  OBVIOUS
<1>2. [row |-> TRUE, indexed |-> FALSE, subtitle |-> FALSE, vtt |-> FALSE, on |-> TRUE, ver |-> 1]
         \in StreamFiles
  BY StreamConstants DEF StreamFiles
<1>. QED  BY <1>1, <1>2, StreamConstants, StreamsTypes DEF StreamsInit

LEMMA RequestStepTyped ==
  ASSUME StreamsTypeOK, NEW c \in ZClients,
         \/ \E f \in ZFiles : Open(c, f)
         \/ Probe(c) \/ EnsureHlsPlaylist(c) \/ ReqStep(c) \/ Reload(c) \/ Leave(c)
         \/ \E s \in 1 .. ZLen : Segment(c, s)
  PROVE  StreamsTypeOK'
<1>r. zReq[c] \in Players
  BY StreamsTypes, StreamsTypesNext
<1>f. zReq[c].file \in ZFiles /\ zReq[c].key \in ZKeys /\ zReq[c].n \in 0 .. ZTmp
  BY <1>r DEF Players
<1>k. CacheKey(zReq[c].file) \in ZKeys
  BY <1>f, KeysAndPlaces
<1>1. ASSUME NEW f \in ZFiles, Open(c, f) PROVE StreamsTypeOK'
  <2>1. zReq' \in [ZClients -> Players]
    <3>1. ASSUME NEW at \in {"open"}, at = "open"
          PROVE [zReq EXCEPT ![c].at = at, ![c].file = f] \in [ZClients -> Players]
      BY ReqStays
    <3>. QED  BY <1>1, <3>1, StreamsTypes, StreamsTypesNext DEF Open
  <2>. QED  BY <1>1, <2>1, FileStays, StreamsTypes, StreamsTypesNext DEF Open, cacheVars
<1>2. CASE Probe(c)
  <2>1. zJob' \in [ZKeys -> Encodes]
    BY <1>2, <1>k, StartTyped, StreamsTypes, StreamsTypesNext DEF Probe
  <2>. QED  BY <1>2, <2>1, BackTyped, StreamsTypes, StreamsTypesNext DEF Probe
<1>3. CASE EnsureHlsPlaylist(c)
  <2>. DEFINE k == CacheKey(zReq[c].file)
  <2>1. CASE Ready(Out(k))
    <3>1. <<k, 0>> \in Places
      BY <1>k, KeysAndPlaces, StreamConstants
    <3>2. GivesPlaylist(c, <<k, 0>>) /\ UNCHANGED <<zFile, zDir, zJob, zSweep>>
      BY <1>3, <2>1 DEF EnsureHlsPlaylist
    <3>. HIDE DEF k
    <3>3. zReq' \in [ZClients -> Players]
      BY <3>1, <3>2, PlaylistTyped
    <3>. QED  BY <3>2, <3>3, StreamsTypes, StreamsTypesNext
  <2>2. CASE ~Ready(Out(k))
    <3>1. /\ IF zJob[k] = NoJob THEN StartJob(k) ELSE UNCHANGED zJob
          /\ zReq' = [zReq EXCEPT ![c].at = "wait", ![c].key = k, ![c].n = zJob'[k].n]
          /\ UNCHANGED <<zFile, zDir, zSweep>>
      BY <1>3, <2>2 DEF EnsureHlsPlaylist
    <3>2. k \in ZKeys
      BY <1>k
    <3>. HIDE DEF k
    <3>3. zJob' \in [ZKeys -> Encodes]
      BY <3>1, <3>2, StartTyped, StreamsTypes, StreamsTypesNext
    <3>. DEFINE r == [zReq[c] EXCEPT !.at = "wait", !.key = k, !.n = zJob'[k].n]
    <3>4. zJob'[k].n \in 0 .. ZTmp
      BY <3>2, <3>3 DEF Encodes
    <3>5. r \in Players
      BY <1>r, <3>2, <3>4 DEF Players
    <3>6. zReq' = [zReq EXCEPT ![c] = r]
      BY <3>1, StreamsTypes, StreamsTypesNext
    <3>. HIDE DEF r
    <3>. QED  BY <3>1, <3>3, <3>5, <3>6, StreamsTypes, StreamsTypesNext
  <2>. QED  BY <2>1, <2>2
<1>4. CASE PlayableSource(c)
  <2>. DEFINE place == PlaylistAt(CacheKey(zReq[c].file), zReq[c].key, zReq[c].n)
  <2>1. place \subseteq Places
    BY <1>f, <1>k, KeysAndPlaces, StreamConstants DEF PlaylistAt
  <2>2. (place = {} /\ Back(c)) \/ \E p \in place : GivesPlaylist(c, p)
    BY <1>4 DEF PlayableSource
  <2>3. UNCHANGED <<zFile, zDir, zJob, zSweep>>
    BY <1>4 DEF PlayableSource, cacheVars
  <2>. HIDE DEF place
  <2>4. zReq' \in [ZClients -> Players]
    <3>1. CASE Back(c)
      BY <3>1, BackTyped
    <3>2. ASSUME NEW p \in place, GivesPlaylist(c, p) PROVE zReq' \in [ZClients -> Players]
      BY <2>1, <3>2, PlaylistTyped
    <3>. QED  BY <2>2, <3>1, <3>2
  <2>. QED  BY <2>3, <2>4, StreamsTypes, StreamsTypesNext
<1>5. CASE GiveUp(c) \/ FileVanished(c) \/ Leave(c)
  <2>1. Back(c) /\ UNCHANGED <<zFile, zDir, zJob, zSweep>>
    BY <1>5 DEF GiveUp, FileVanished, Leave, cacheVars
  <2>. QED  BY <2>1, BackTyped, StreamsTypes, StreamsTypesNext
<1>6. CASE Reload(c)
  <2>1. ASSUME NEW at \in {"open"}, at = "open"
        PROVE [zReq EXCEPT ![c].at = at] \in [ZClients -> Players]
    BY ReqStays, <1>f
  <2>2. zReq' = [zReq EXCEPT ![c].at = "open"] /\ UNCHANGED <<zFile, zDir, zJob, zSweep>>
    BY <1>6 DEF Reload, ReqGoes, cacheVars
  <2>. QED  BY <2>1, <2>2, StreamsTypes, StreamsTypesNext
<1>7. ASSUME NEW s \in 1 .. ZLen, Segment(c, s) PROVE StreamsTypeOK'
  <2>. DEFINE f == zReq[c].file
              k == CacheKey(f)
              hit == SegmentAt(k, s)
  <2>1. /\ ResolveSource(f) /\ UNCHANGED <<zJob, zSweep>>
        /\ \/ Resolves(f) /\ hit # {} /\ \E n \in hit : zDir' = [zDir EXCEPT ![<<k, n>>].read = 0]
                                                         /\ UNCHANGED zReq
           \/ Back(c) /\ UNCHANGED zDir
    BY <1>7 DEF Segment
  <2>2. zFile' \in [ZFiles -> StreamFiles]
    BY <1>f, <2>1, FileStays
  <2>3. ASSUME NEW q PROVE [zDir EXCEPT ![q].read = 0] \in [Places -> Dirs]
    <3>. DEFINE d == [zDir EXCEPT ![q].read = 0]
    <3>0. zDir \in [Places -> Dirs] /\ 0 \in 0 .. 3
      BY StreamsTypes
    <3>1. d = [x \in Places |-> IF x = q THEN [zDir[q] EXCEPT !.read = 0] ELSE zDir[x]]
      BY <3>0
    <3>2. \A e \in Dirs : [e EXCEPT !.read = 0] \in Dirs
      BY <3>0 DEF Dirs
    <3>. HIDE DEF d
    <3>. QED  BY <3>0, <3>1, <3>2
  <2>. HIDE DEF k, hit, f
  <2>4. zReq' \in [ZClients -> Players]
    BY <2>1, BackTyped, StreamsTypes
  <2>5. zDir' \in [Places -> Dirs]
    BY <2>1, <2>3, StreamsTypes
  <2>. QED  BY <2>1, <2>2, <2>4, <2>5, StreamsTypes, StreamsTypesNext
<1>. QED  BY <1>1, <1>2, <1>3, <1>4, <1>5, <1>6, <1>7 DEF ReqStep

LEMMA EncodeStepTyped ==
  ASSUME StreamsTypeOK, NEW k \in ZKeys, EncodeStep(k)
  PROVE  StreamsTypeOK'
<1>. DEFINE p == <<k, zJob[k].n>>
<1>p. p \in Places /\ <<k, 0>> \in Places
  <2>1. zJob[k].n \in 0 .. ZTmp
    BY DEF StreamsTypeOK
  <2>. QED  BY <2>1, KeysAndPlaces, StreamConstants
<1>e. ASSUME NEW at \in {"run", "ended"}
      PROVE [zJob EXCEPT ![k].at = at] \in [ZKeys -> Encodes]
  BY JobStays
<1>d. zDir \in [Places -> Dirs] /\ zDir[p] \in Dirs /\ zDir[<<k, 0>>] \in Dirs
  <2>1. zDir \in [Places -> Dirs]
    BY StreamsTypes, StreamsTypesNext
  <2>. HIDE DEF p
  <2>. QED  BY <1>p, <2>1
<1>w. ASSUME NEW d \in Dirs PROVE Wrote(d) \in Dirs /\ [Wrote(d) EXCEPT !.done = TRUE] \in Dirs
  <2>1. Wrote(d) \in Dirs
    <3>1. 0 \in 0 .. 3
      OBVIOUS
    <3>2. ASSUME NEW z \in 0 .. 3 PROVE [d EXCEPT !.wrote = z, !.read = z] \in Dirs
      BY DEF Dirs
    <3>. QED  BY <3>1, <3>2 DEF Wrote
  <2>. DEFINE e == Wrote(d)
  <2>2. e \in Dirs
    BY <2>1
  <2>. HIDE DEF e
  <2>3. [e EXCEPT !.done = TRUE] \in Dirs
    BY <2>2 DEF Dirs
  <2>. QED  BY <2>1, <2>3 DEF e
<1>1. CASE EncodeBegins(k)
  <2>1. Reaped \in [Places -> Dirs]
    BY <1>d, StreamConstants DEF Reaped
  <2>2. [NoDir EXCEPT !.there = TRUE] \in Dirs
    BY StreamConstants DEF Dirs
  <2>3. \/ UNCHANGED zDir
        \/ zDir' = [Reaped EXCEPT ![p] = [NoDir EXCEPT !.there = TRUE]]
    BY <1>1 DEF EncodeBegins
  <2>4. zJob' = [zJob EXCEPT ![k].at = "ended"] \/ zJob' = [zJob EXCEPT ![k].at = "run"]
    BY <1>1 DEF EncodeBegins, EndJob
  <2>5. UNCHANGED <<zFile, zReq, zSweep>>
    BY <1>1 DEF EncodeBegins
  <2>. HIDE DEF p
  <2>6. zDir' \in [Places -> Dirs]
    BY <2>1, <2>2, <2>3, <1>p, <1>d
  <2>7. zJob' \in [ZKeys -> Encodes]
    BY <2>4, <1>e
  <2>. QED  BY <2>5, <2>6, <2>7, StreamsTypes, StreamsTypesNext
<1>2. CASE WritesSegment(k)
  <2>1. /\ zDir' = [zDir EXCEPT ![p].segs = @ + 1, ![p].wrote = 0, ![p].read = 0]
        /\ zDir[p].segs < ZLen /\ UNCHANGED <<zFile, zJob, zReq, zSweep>>
    BY <1>2 DEF WritesSegment
  <2>. DEFINE d == [zDir[p] EXCEPT !.segs = zDir[p].segs + 1, !.wrote = 0, !.read = 0]
  <2>. HIDE DEF p
  <2>2. d \in Dirs
    <3>1. zDir[p].segs \in 0 .. ZLen
      BY <1>d DEF Dirs
    <3>2. zDir[p].segs + 1 \in 0 .. ZLen
      BY <2>1, <3>1, StreamConstants
    <3>3. ASSUME NEW e \in Dirs, NEW n \in 0 .. ZLen, NEW z \in 0 .. 3
          PROVE  [e EXCEPT !.segs = n, !.wrote = z, !.read = z] \in Dirs
      BY DEF Dirs
    <3>4. 0 \in 0 .. 3 /\ zDir[p] \in Dirs
      BY <1>d
    <3>. QED  BY <3>2, <3>3, <3>4
  <2>3. zDir' = [zDir EXCEPT ![p] = d]
    BY <1>d, <1>p, <2>1 DEF Dirs
  <2>. HIDE DEF d
  <2>4. zDir' \in [Places -> Dirs]
    BY <1>d, <2>2, <2>3
  <2>. QED  BY <2>1, <2>4, StreamsTypes, StreamsTypesNext
<1>3. CASE EncodeFails(k)
  <2>1. /\ zDir' = [zDir EXCEPT ![p] = NoDir] /\ zJob' = [zJob EXCEPT ![k].at = "ended"]
        /\ UNCHANGED <<zFile, zReq, zSweep>>
    BY <1>3 DEF EncodeFails, EndJob
  <2>. HIDE DEF p
  <2>2. zJob' \in [ZKeys -> Encodes]
    BY <2>1, <1>e
  <2>. QED  BY <1>d, <2>1, <2>2, StreamConstants, StreamsTypes, StreamsTypesNext
<1>4. CASE EncodeSucceeds(k)
  <2>1. zJob' = [zJob EXCEPT ![k].at = "ended"] /\ UNCHANGED <<zFile, zReq, zSweep>>
    BY <1>4 DEF EncodeSucceeds, EndJob
  <2>2. \/ zDir' = [zDir EXCEPT ![p] = NoDir]
        \/ zDir' = [zDir EXCEPT ![p] = NoDir, ![<<k, 0>>] = [Wrote(zDir[p]) EXCEPT !.done = TRUE]]
        \/ zDir' = [zDir EXCEPT ![p] = [Wrote(@) EXCEPT !.done = TRUE], ![<<k, 0>>] = NoDir]
    BY <1>4 DEF EncodeSucceeds, PublishTmpDir
  <2>. DEFINE o == <<k, 0>>
  <2>3. o \in Places /\ zDir[o] \in Dirs
    BY <1>p, <1>d
  <2>4. zDir' \in [Places -> Dirs]
    <3>1. /\ [Wrote(zDir[p]) EXCEPT !.done = TRUE] \in Dirs
          /\ NoDir \in Dirs /\ p \in Places
      BY <1>d, <1>w, <1>p, StreamConstants
    <3>2. \/ zDir' = [zDir EXCEPT ![p] = NoDir]
          \/ zDir' = [zDir EXCEPT ![p] = NoDir, ![o] = [Wrote(zDir[p]) EXCEPT !.done = TRUE]]
          \/ zDir' = [zDir EXCEPT ![p] = [Wrote(@) EXCEPT !.done = TRUE], ![o] = NoDir]
      BY <2>2
    <3>. HIDE DEF p, o
    <3>. QED  BY <1>d, <3>1, <3>2, <2>3
  <2>5. zJob' \in [ZKeys -> Encodes]
    BY <2>1, <1>e
  <2>. QED  BY <2>1, <2>4, <2>5, StreamsTypes, StreamsTypesNext
<1>5. CASE Cleanup(k)
  <2>1. zJob' = [zJob EXCEPT ![k] = NoJob] /\ UNCHANGED <<zFile, zDir, zReq, zSweep>>
    BY <1>5 DEF Cleanup
  <2>. QED  BY <2>1, StreamConstants, StreamsTypes, StreamsTypesNext
<1>. QED  BY <1>1, <1>2, <1>3, <1>4, <1>5 DEF EncodeStep

\* What the sweep decides to delete are places of the cache.
LEMMA DeletesPlaces == ASSUME NEW ds \in ToDelete PROVE ds \subseteq Places
<1>1. SweepCandidates \subseteq Places /\ Expired \subseteq Places /\ TierTwo \subseteq Places
  BY DEF SweepCandidates, Expired, TierTwo, Listed
<1>2. ASSUME NEW ps \in SUBSET Places, NEW gone \in SUBSET Places, NEW age,
             NEW d \in Evictions(ps, gone, age)
      PROVE  d \subseteq Places
  BY DEF Evictions
<1>. DEFINE unwritten == [p \in Places |-> zDir[p].wrote]
            unread == [p \in Places |-> zDir[p].read]
<1>3. PICK gone \in Evictions(SweepCandidates \ Expired, Expired, unwritten) :
          ds \in Evictions(TierTwo, gone, unread)
  BY DEF ToDelete
<1>. HIDE DEF unwritten, unread
<1>4. gone \subseteq Places
  BY <1>1, <1>2, <1>3
<1>. QED  BY <1>1, <1>2, <1>3, <1>4

LEMMA StreamsNextTyped == StreamsTypeOK /\ [StreamsNext]_zVars => StreamsTypeOK'
<1>. SUFFICES ASSUME StreamsTypeOK, [StreamsNext]_zVars PROVE StreamsTypeOK'
  OBVIOUS
<1>1. ASSUME NEW c \in ZClients,
             \/ \E f \in ZFiles : Open(c, f)
             \/ Probe(c) \/ EnsureHlsPlaylist(c) \/ ReqStep(c) \/ Reload(c) \/ Leave(c)
             \/ \E s \in 1 .. ZLen : Segment(c, s)
      PROVE StreamsTypeOK'
  BY <1>1, RequestStepTyped
<1>2. ASSUME NEW f \in ZFiles, StreamFile(f) \/ StreamSubtitle(f) PROVE StreamsTypeOK'
  BY <1>2, FileStays, StreamsTypes, StreamsTypesNext DEF StreamFile, StreamSubtitle, cacheVars
<1>3. ASSUME NEW k \in ZKeys, EncodeStep(k) PROVE StreamsTypeOK'
  BY <1>3, EncodeStepTyped
<1>4. CASE SweepHlsCache
  BY <1>4, DeletesPlaces, StreamsTypes, StreamsTypesNext DEF SweepHlsCache
<1>5. ASSUME NEW p \in Places, DeletesDir(p) PROVE StreamsTypeOK'
  BY <1>5, StreamConstants, StreamsTypes, StreamsTypesNext DEF DeletesDir
<1>6. CASE TimePasses
  <2>1. \A n \in 0 .. 3 : Min({3, n + 1}) \in 0 .. 3
    <3>1. ASSUME NEW n \in 0 .. 3 PROVE Min({3, n + 1}) \in 0 .. 3
      <4>. DEFINE S == {3, n + 1}
      <4>1. S \in SUBSET Nat /\ S # {} /\ 3 \in S /\ S \subseteq Nat
        OBVIOUS
      <4>. HIDE DEF S
      <4>2. Min(S) \in S /\ \A y \in S : Min(S) <= y
        BY <4>1, MinOfNaturals
      <4>3. Min(S) \in Nat /\ Min(S) <= 3
        BY <4>1, <4>2
      <4>. QED  BY <4>3 DEF S
    <3>. QED  BY <3>1
  <2>. DEFINE older(d) == [d EXCEPT !.wrote = Min({3, d.wrote + 1}), !.read = Min({3, d.read + 1})]
  <2>2. \A d \in Dirs : older(d) \in Dirs
    BY <2>1 DEF Dirs
  <2>3. zDir' = [p \in Places |-> IF zDir[p].there THEN older(zDir[p]) ELSE zDir[p]]
    BY <1>6 DEF TimePasses
  <2>. HIDE DEF older
  <2>4. zDir \in [Places -> Dirs]
    BY StreamsTypes, StreamsTypesNext
  <2>5. zDir' \in [Places -> Dirs]
    BY <2>2, <2>3, <2>4
  <2>. QED  BY <1>6, <2>5, StreamsTypes, StreamsTypesNext DEF TimePasses
<1>7. ASSUME NEW f \in ZFiles, FileChanges(f) PROVE StreamsTypeOK'
  <2>1. zFile' \in [ZFiles -> StreamFiles]
    <3>1. zFile \in [ZFiles -> StreamFiles] /\ zFile[f] \in StreamFiles
      BY StreamsTypes, StreamsTypesNext
    <3>2. zFile[f].ver < ZMaxVer => zFile[f].ver + 1 \in 1 .. ZMaxVer
      BY <3>1, StreamConstants DEF StreamFiles
    <3>3. CASE zFile' = [zFile EXCEPT ![f].on = ~@]
      BY <3>1, <3>3 DEF StreamFiles
    <3>4. CASE zFile[f].ver < ZMaxVer /\ zFile' = [zFile EXCEPT ![f].ver = @ + 1]
      BY <3>1, <3>2, <3>4 DEF StreamFiles
    <3>5. CASE zFile' = [zFile EXCEPT ![f].row = FALSE]
      BY <3>1, <3>5 DEF StreamFiles
    <3>. QED  BY <1>7, <3>3, <3>4, <3>5 DEF FileChanges
  <2>. QED  BY <1>7, <2>1, StreamsTypes, StreamsTypesNext DEF FileChanges, cacheVars
<1>8. CASE StreamRestart
  BY <1>8, StreamConstants, StreamsTypes, StreamsTypesNext DEF StreamRestart
<1>9. CASE UNCHANGED zVars
  BY <1>9 DEF zVars, StreamsTypeOK
<1>. QED  BY <1>1, <1>2, <1>3, <1>4, <1>5, <1>6, <1>7, <1>8, <1>9 DEF StreamsNext

(***************************************************************************)
(* The listings: what an aborted, a running and a committed transaction    *)
(* leave of the stored counters, and the listings that a thread reads and  *)
(* stores later, which hold files of their season only.                    *)
(***************************************************************************)
TxCounts == [wanted : Nat, down : Nat, status : {"none", "partial", "complete"}]
Txs == [at : {"idle", "staged", "true", "between", "false", "count", "commit"},
        items : SUBSET Items, row : {"none", "imported"}, skips : SUBSET YEps,
        scope : SUBSET Items, snap : SUBSET Items, on : SUBSET Items, off : SUBSET Items,
        count : TxCounts]
Cached == {c \in [DOMAIN YSeasons -> [valid : BOOLEAN, files : SUBSET Items]] :
              \A s \in DOMAIN YSeasons : c[s].files \subseteq YSeasons[s]}
Scans == {<<>>} \cup {<<s, fs>> : s \in DOMAIN YSeasons, fs \in SUBSET Items}

\* The types of the view, with those of the transactions under way, the cached listings and
\* the listing that a thread has read and not yet stored.
ViewInv ==
  /\ yRow \in [Items -> {"none", "pending", "imported"}] /\ yDisk \in SUBSET Items
  /\ ySkip \in SUBSET YEps /\ ySeason \in SUBSET (DOMAIN YSeasons)
  /\ yFlag \in [Items -> BOOLEAN] /\ yAttr \in YAttrs /\ yOps \in 0 .. YMaxOps
  /\ yCount \in TxCounts
  /\ yTx \in [Workers -> Txs]
  /\ yCache \in Cached
  /\ yScan \in Scans
  /\ yScan # <<>> => yScan[2] \subseteq YSeasons[yScan[1]]

LEMMA SeasonItems ==
  /\ YEps \subseteq Items
  /\ \A s \in DOMAIN YSeasons : YSeasons[s] \subseteq YEps
BY DEF YEps, Items

LEMMA CountersTyped ==
  ASSUME NEW wanted \in SUBSET YEps, NEW down \in SUBSET YEps
  PROVE  [wanted |-> Cardinality(wanted), down |-> Cardinality(down),
          status |-> ProgressStatus(Cardinality(wanted), Cardinality(down))] \in TxCounts
<1>1. ASSUME NEW S \in SUBSET YEps PROVE Cardinality(S) \in Nat
  <2>1. IsFiniteSet(Items) /\ S \subseteq Items
    BY SeasonItems, ViewAssumption
  <2>. QED  BY <2>1, FS_Subset, FS_CardinalityType
<1>2. \A n, m : ProgressStatus(n, m) \in {"none", "partial", "complete"}
  BY DEF ProgressStatus
<1>. QED  BY <1>1, <1>2 DEF TxCounts

LEMMA NoTxTyped == NoTx \in Txs
<1>1. 0 \in Nat
  OBVIOUS
<1>2. [wanted |-> 0, down |-> 0, status |-> "none"] \in TxCounts
  BY DEF TxCounts
<1>. QED  BY <1>2 DEF NoTx, Txs

LEMMA NowhereCached == [s \in DOMAIN YSeasons |-> Nowhere] \in Cached
BY DEF Cached, Nowhere

LEMMA ViewInvInit == ViewInit => ViewInv
<1>. SUFFICES ASSUME ViewInit PROVE ViewInv
  OBVIOUS
<1>1. yCount \in TxCounts
  <2>1. IsFiniteSet(YEps)
    BY SeasonItems, ViewAssumption, FS_Subset
  <2>2. Cardinality(YEps) \in Nat
    BY <2>1, FS_CardinalityType
  <2>. QED  BY <2>2 DEF ViewInit, TxCounts
<1>. QED  BY <1>1, NoTxTyped, NowhereCached, ViewAssumption DEF ViewInit, ViewInv, Scans

\* A step that writes one transaction and leaves all the rest as it is.
LEMMA OnlyTx ==
  ASSUME ViewInv, NEW t \in Workers, NEW tx \in Txs, Set(t, tx),
         UNCHANGED <<yRow, yDisk, ySkip, ySeason, yFlag, yCount, yCache, yScan, yAttr, yOps>>
  PROVE  ViewInv'
BY DEF ViewInv, Set

LEMMA TxTyped == ASSUME ViewInv, NEW t \in Workers
                 PROVE  /\ yTx[t] \in Txs
                        /\ yTx[t].snap \in SUBSET Items /\ yTx[t].on \in SUBSET Items
                        /\ yTx[t].scope \in SUBSET Items /\ yTx[t].skips \in SUBSET YEps
                        /\ yTx[t].row \in {"none", "imported"} /\ yTx[t].count \in TxCounts
<1>1. yTx[t] \in Txs
  BY DEF ViewInv
<1>. QED  BY <1>1 DEF Txs

LEMMA TxStepTyped == ASSUME ViewInv, NEW t \in Workers, TxStep(t) PROVE ViewInv'
<1>1. CASE RefreshFlags(t)
  <2>1. ASSUME NEW from, NEW to \in {"true", "false"}, NEW rows \in SUBSET Items,
               StartUpdate(t, from, to, rows)
        PROVE  ViewInv'
    <3>. DEFINE tx == [yTx[t] EXCEPT !.at = to, !.snap = rows]
    <3>1. tx \in Txs
      BY TxTyped DEF Txs
    <3>2. Set(t, tx) /\ UNCHANGED <<yRow, yDisk, ySkip, ySeason, yFlag, yCount, yCache, yScan, yAttr, yOps>>
      BY <2>1 DEF StartUpdate, dbVars, cacheVarsY
    <3>. HIDE DEF tx
    <3>. QED  BY <3>1, <3>2, OnlyTx
  <2>2. ImportedRows(t) \cap yTx[t].scope \in SUBSET Items /\ yTx[t].scope \ ImportedRows(t) \in SUBSET Items
    BY TxTyped
  <2>3. CASE SetsTrue(t)
    <3>. DEFINE tx == [yTx[t] EXCEPT !.at = "between", !.on = yTx[t].snap]
    <3>1. tx \in Txs
      BY TxTyped DEF Txs
    <3>2. Set(t, tx) /\ UNCHANGED <<yRow, yDisk, ySkip, ySeason, yFlag, yCount, yCache, yScan, yAttr, yOps>>
      BY <2>3 DEF SetsTrue, dbVars, cacheVarsY
    <3>. HIDE DEF tx
    <3>. QED  BY <3>1, <3>2, OnlyTx
  <2>4. CASE SetsFalse(t)
    <3>. DEFINE tx == [yTx[t] EXCEPT !.at = "count", !.off = yTx[t].snap,
                                     !.on = yTx[t].on \ yTx[t].snap]
    <3>0. yTx[t].on \ yTx[t].snap \in SUBSET Items
      BY TxTyped
    <3>1. tx \in Txs
      BY <3>0, TxTyped DEF Txs
    <3>2. Set(t, tx) /\ UNCHANGED <<yRow, yDisk, ySkip, ySeason, yFlag, yCount, yCache, yScan, yAttr, yOps>>
      BY <2>4 DEF SetsFalse, dbVars, cacheVarsY
    <3>. HIDE DEF tx
    <3>. QED  BY <3>1, <3>2, OnlyTx
  <2>5. CASE StartUpdate(t, "staged", "true", ImportedRows(t) \cap yTx[t].scope)
    <3>1. ASSUME NEW to \in {"true"}, to = "true" PROVE ViewInv'
      <4>1. StartUpdate(t, "staged", to, ImportedRows(t) \cap yTx[t].scope)
        BY <2>5, <3>1
      <4>. QED  BY <4>1, <2>1, <2>2
    <3>. QED  BY <3>1
  <2>6. CASE StartUpdate(t, "between", "false", yTx[t].scope \ ImportedRows(t))
    <3>1. ASSUME NEW to \in {"false"}, to = "false" PROVE ViewInv'
      <4>1. StartUpdate(t, "between", to, yTx[t].scope \ ImportedRows(t))
        BY <2>6, <3>1
      <4>. QED  BY <4>1, <2>1, <2>2
    <3>. QED  BY <3>1
  <2>. QED  BY <1>1, <2>3, <2>4, <2>5, <2>6 DEF RefreshFlags
<1>2. CASE UpdateShowProgressCounters(t)
  <2>. DEFINE tx == [yTx[t] EXCEPT !.at = "commit", !.count = Counters(t)]
  <2>1. Counters(t) \in TxCounts
    <3>. DEFINE wanted == YEps \ (ySkip \cup yTx[t].skips)
                down == wanted \cap FlagsSeen(t)
    <3>1. wanted \in SUBSET YEps /\ down \in SUBSET YEps
      OBVIOUS
    <3>2. Counters(t) = [wanted |-> Cardinality(wanted), down |-> Cardinality(down),
                         status |-> ProgressStatus(Cardinality(wanted), Cardinality(down))]
      BY DEF Counters
    <3>. HIDE DEF wanted, down
    <3>. QED  BY <3>1, <3>2, CountersTyped
  <2>2. tx \in Txs
    BY <2>1, TxTyped DEF Txs
  <2>3. Set(t, tx) /\ UNCHANGED <<yRow, yDisk, ySkip, ySeason, yFlag, yCount, yCache, yScan, yAttr, yOps>>
    BY <1>2 DEF UpdateShowProgressCounters, dbVars, cacheVarsY
  <2>. HIDE DEF tx
  <2>. QED  BY <2>2, <2>3, OnlyTx
<1>3. CASE CommitTx(t)
  <2>1. yRow' \in [Items -> {"none", "pending", "imported"}]
    <3>1. yRow' = [i \in Items |-> IF i \in yTx[t].items THEN yTx[t].row ELSE yRow[i]]
      BY <1>3 DEF CommitTx
    <3>. QED  BY <3>1, TxTyped DEF ViewInv
  <2>2. ySkip' \in SUBSET YEps
    BY <1>3, TxTyped DEF CommitTx, ViewInv
  <2>3. yFlag' \in [Items -> BOOLEAN]
    <3>1. yFlag' = [i \in Items |-> IF i \in yTx[t].scope THEN i \in FlagsSeen(t) ELSE yFlag[i]]
      BY <1>3 DEF CommitTx
    <3>2. \A i \in Items : (i \in FlagsSeen(t)) \in BOOLEAN /\ yFlag[i] \in BOOLEAN
      BY DEF ViewInv
    <3>. QED  BY <3>1, <3>2
  <2>4. yCount' \in TxCounts
    BY <1>3, TxTyped DEF CommitTx, ViewInv
  <2>5. yTx' \in [Workers -> Txs]
    BY <1>3, NoTxTyped DEF CommitTx, Set, ViewInv
  <2>6. yCache' \in Cached
    BY <1>3, NowhereCached DEF CommitTx, InvalidateDiskScanCache, ViewInv
  <2>7. UNCHANGED <<yDisk, ySeason, yScan, yAttr, yOps>>
    BY <1>3 DEF CommitTx
  <2>. QED  BY <2>1, <2>2, <2>3, <2>4, <2>5, <2>6, <2>7 DEF ViewInv
<1>4. CASE DeadlockAbort(t)
  <2>1. Set(t, NoTx) /\ UNCHANGED <<yRow, yDisk, ySkip, ySeason, yFlag, yCount, yCache, yScan, yAttr, yOps>>
    BY <1>4 DEF DeadlockAbort, dbVars, cacheVarsY
  <2>. QED  BY <2>1, NoTxTyped, OnlyTx
<1>. QED  BY <1>1, <1>2, <1>3, <1>4 DEF TxStep

LEMMA StageTyped ==
  ASSUME ViewInv, NEW t \in Workers, NEW items \in SUBSET Items, NEW row \in {"none", "imported"},
         NEW skips \in SUBSET YEps, NEW scope \in SUBSET Items, Stage(t, items, row, skips, scope),
         yDisk' \in SUBSET Items
  PROVE  ViewInv'
<1>. DEFINE tx == [NoTx EXCEPT !.at = "staged", !.items = items, !.row = row, !.skips = skips,
                               !.scope = scope]
<1>1. tx \in Txs
  BY NoTxTyped DEF Txs
<1>2. yTx' = [yTx EXCEPT ![t] = tx] /\ UNCHANGED <<yRow, ySkip, ySeason, yFlag, yCount, yCache, yScan, yAttr>>
  BY DEF Stage, Set, dbVars, cacheVarsY
<1>3. yOps' \in 0 .. YMaxOps
  BY ViewAssumption DEF Stage, ViewInv
<1>. HIDE DEF tx
<1>. QED  BY <1>1, <1>2, <1>3 DEF ViewInv

LEMMA ViewInvNext == ViewInv /\ [ViewNext]_yVars => ViewInv'
<1>. SUFFICES ASSUME ViewInv, [ViewNext]_yVars PROVE ViewInv'
  OBVIOUS
<1>s. \A i \in Items : Scope(i) \in SUBSET Items
  BY SeasonItems DEF Scope
<1>w. YTasks \subseteq Workers /\ "watcher" \in Workers
  BY DEF Workers
<1>n. {} \in SUBSET YEps /\ {} \in SUBSET Items
  OBVIOUS
<1>1. ASSUME NEW t \in YTasks, NEW i \in Items, ImportFile(t, i) PROVE ViewInv'
  <2>1. Stage(t, {i}, "imported", {}, Scope(i)) /\ yDisk' \in SUBSET Items
    BY <1>1 DEF ImportFile, ViewInv
  <2>2. ASSUME NEW row \in {"imported"}, row = "imported" PROVE ViewInv'
    <3>1. Stage(t, {i}, row, {}, Scope(i)) /\ {i} \in SUBSET Items /\ t \in Workers /\ Scope(i) \in SUBSET Items
      BY <2>1, <2>2, <1>w, <1>s
    <3>. QED  BY <2>1, <3>1, <1>n, StageTyped
  <2>. QED  BY <2>2
<1>2. ASSUME NEW t \in YTasks, NEW i \in Items, NEW d \in BOOLEAN, DeleteFile(t, i, d)
      PROVE ViewInv'
  <2>1. Stage(t, {i}, "none", {}, Scope(i)) /\ yDisk' \in SUBSET Items
    BY <1>2 DEF DeleteFile, ViewInv
  <2>2. ASSUME NEW row \in {"none"}, row = "none" PROVE ViewInv'
    <3>1. Stage(t, {i}, row, {}, Scope(i)) /\ {i} \in SUBSET Items /\ t \in Workers /\ Scope(i) \in SUBSET Items
      BY <2>1, <2>2, <1>w, <1>s
    <3>. QED  BY <2>1, <3>1, <1>n, StageTyped
  <2>. QED  BY <2>2
<1>3. ASSUME NEW t \in YTasks, NEW s \in DOMAIN YSeasons, DeleteSeasonFiles(t, s)
      PROVE ViewInv'
  <2>1. Stage(t, {}, "none", YSeasons[s], YEps) /\ yDisk' \in SUBSET Items
    BY <1>3 DEF DeleteSeasonFiles, ViewInv
  <2>2. ASSUME NEW row \in {"none"}, row = "none" PROVE ViewInv'
    <3>1. /\ Stage(t, {}, row, YSeasons[s], YEps) /\ t \in Workers /\ YEps \in SUBSET Items
          /\ YSeasons[s] \in SUBSET YEps
      BY <2>1, <2>2, <1>w, SeasonItems
    <3>. QED  BY <2>1, <3>1, <1>n, StageTyped
  <2>. QED  BY <2>2
<1>4. ASSUME NEW t \in Workers, TxStep(t) PROVE ViewInv'
  BY <1>4, TxStepTyped
<1>5. CASE WatcherRound
  <2>. DEFINE tx == [NoTx EXCEPT !.at = "staged", !.scope = Items]
  <2>1. tx \in Txs
    BY NoTxTyped DEF Txs
  <2>2. Set("watcher", tx) /\ UNCHANGED <<yRow, yDisk, ySkip, ySeason, yFlag, yCount, yCache, yScan, yAttr, yOps>>
    BY <1>5 DEF WatcherRound, dbVars, cacheVarsY
  <2>. HIDE DEF tx
  <2>. QED  BY <1>w, <2>1, <2>2, OnlyTx
<1>6. ASSUME NEW s \in DOMAIN YSeasons, ScanReads(s) PROVE ViewInv'
  <2>1. yScan' = <<s, Found(s)>> /\ Found(s) \subseteq YSeasons[s] /\ Found(s) \in SUBSET Items
    BY <1>6, SeasonItems DEF ScanReads, Found
  <2>2. UNCHANGED <<yRow, yDisk, ySkip, ySeason, yFlag, yCount, yCache, yTx, yAttr, yOps>>
    BY <1>6 DEF ScanReads, dbVars
  <2>3. yScan' \in Scans /\ yScan'[2] \subseteq YSeasons[yScan'[1]]
    <3>. DEFINE fs == Found(s)
    <3>1. yScan' = <<s, fs>> /\ fs \subseteq YSeasons[s] /\ fs \in SUBSET Items
      BY <2>1
    <3>. HIDE DEF fs
    <3>. QED  BY <3>1 DEF Scans
  <2>. QED  BY <2>2, <2>3 DEF ViewInv
<1>7. CASE ScanStores
  <2>1. PICK s \in DOMAIN YSeasons, fs \in SUBSET Items : yScan = <<s, fs>>
    BY <1>7 DEF ScanStores, ViewInv, Scans
  <2>2. fs \subseteq YSeasons[s]
    BY <1>7, <2>1 DEF ScanStores, ViewInv
  <2>3. yCache' = [yCache EXCEPT ![s] = [valid |-> TRUE, files |-> fs]] /\ yScan' = <<>>
    BY <1>7, <2>1 DEF ScanStores
  <2>4. yCache' \in Cached
    BY <2>2, <2>3 DEF Cached, ViewInv
  <2>5. UNCHANGED <<yRow, yDisk, ySkip, ySeason, yFlag, yCount, yTx, yAttr, yOps>>
    BY <1>7 DEF ScanStores, dbVars
  <2>. QED  BY <2>3, <2>4, <2>5 DEF ViewInv, Scans
<1>8. ASSUME NEW s \in DOMAIN YSeasons, CacheTtl(s) PROVE ViewInv'
  <2>1. yCache' \in Cached
    BY <1>8 DEF CacheTtl, Cached, Nowhere, ViewInv
  <2>2. UNCHANGED <<yRow, yDisk, ySkip, ySeason, yFlag, yCount, yTx, yScan, yAttr, yOps>>
    BY <1>8 DEF CacheTtl, dbVars
  <2>. QED  BY <2>1, <2>2 DEF ViewInv
<1>9. ASSUME NEW s \in DOMAIN YSeasons, NEW b \in BOOLEAN,
             SetSeasonSkipped(s, b) \/ \E e \in YSeasons[s] : SetEpisodeSkipped(s, e, b)
      PROVE ViewInv'
  <2>1. ySkip' \in SUBSET YEps /\ ySeason' \in SUBSET (DOMAIN YSeasons)
    BY <1>9, SeasonItems DEF SetSeasonSkipped, SetEpisodeSkipped, ViewInv
  <2>2. yOps' \in 0 .. YMaxOps
    BY <1>9, ViewAssumption DEF SetSeasonSkipped, SetEpisodeSkipped, ViewInv
  <2>3. UNCHANGED <<yRow, yDisk, yFlag, yCount, yTx, yCache, yScan, yAttr>>
    BY <1>9 DEF SetSeasonSkipped, SetEpisodeSkipped, cacheVarsY
  <2>. QED  BY <2>1, <2>2, <2>3 DEF ViewInv
<1>10. CASE UNCHANGED yVars
  BY <1>10 DEF yVars, ViewInv
<1>. QED  BY <1>1, <1>2, <1>3, <1>4, <1>5, <1>6, <1>7, <1>8, <1>9, <1>10 DEF ViewNext

LEMMA ViewTyped == ViewInv => ViewTypeOK
<1>. SUFFICES ASSUME ViewInv PROVE ViewTypeOK
  OBVIOUS
<1>1. yCount.status \in {"none", "partial", "complete"}
  BY DEF ViewInv, TxCounts
<1>2. \A t \in Workers : yTx[t].at \in {"idle", "staged", "true", "between", "false", "count", "commit"}
  BY DEF ViewInv, Txs
<1>. QED  BY <1>1, <1>2 DEF ViewInv, ViewTypeOK, Cached

(***************************************************************************)
(* The behaviours of MCLibrary: one part runs, and a step of it leaves the *)
(* variables of the others as they are.                                    *)
(***************************************************************************)
LibrarySideInv ==
  /\ part \in Parts
  /\ ViewInv /\ StorageInv /\ SubtitlesInv /\ StreamsTypeOK /\ SyncInv /\ CatalogInv

LEMMA LibrarySideStep ==
  LibrarySideInv /\ [LibrarySideNext]_<<part, libVars>> => LibrarySideInv'
<1>. SUFFICES ASSUME LibrarySideInv, [LibrarySideNext]_<<part, libVars>> PROVE LibrarySideInv'
  OBVIOUS
<1>1. /\ part' = part /\ [ViewNext]_yVars /\ [StorageNext]_wVars /\ [SubtitlesNext]_uVars
      /\ [StreamsNext]_zVars /\ [SyncNext]_sVars /\ [CatalogNext]_cVars
  BY DEF LibrarySideNext, libVars
<1>2. ViewInv'
  BY <1>1, ViewInvNext DEF LibrarySideInv
<1>3. StorageInv'
  BY <1>1, StorageInvNext DEF LibrarySideInv
<1>4. SubtitlesInv'
  BY <1>1, SubtitlesInvNext DEF LibrarySideInv
<1>5. StreamsTypeOK'
  BY <1>1, StreamsNextTyped DEF LibrarySideInv
<1>6. SyncInv'
  BY <1>1, SyncInvNext DEF LibrarySideInv
<1>7. CatalogInv'
  BY <1>1, CatalogInvNext DEF LibrarySideInv
<1>. QED  BY <1>1, <1>2, <1>3, <1>4, <1>5, <1>6, <1>7 DEF LibrarySideInv

\* What every state that MCLibrary reaches satisfies, on instances of any size.
THEOREM LibrarySideInvariant == LibrarySideSpec => []LibrarySideInv
<1>1. LibrarySideInit => LibrarySideInv
  BY ViewInvInit, StorageInvInit, SubtitlesInvInit, StreamsInitTyped, SyncInvInit, CatalogInvInit
     DEF LibrarySideInit, LibrarySideInv
<1>. QED  BY <1>1, LibrarySideStep, PTL DEF LibrarySideSpec

\* Listings, storage health, subtitles, streams, cursors and catalogue stay well formed
\* (media_state.py, storage/service.py, subtitles/service.py, streams/transcode.py,
\* viewing_sync/service.py, media_service.py).
THEOREM LibrarySideTyped == LibrarySideSpec => []LibrarySideTypeOK
<1>1. LibrarySideInv => LibrarySideTypeOK
  <2>1. StorageInv => StorageTypeOK
    BY DEF StorageInv
  <2>. QED  BY <2>1, ViewTyped, SubtitlesTyped, SyncTyped, CatalogConsequence
            DEF LibrarySideInv, LibrarySideTypeOK
<1>. QED  BY <1>1, LibrarySideInvariant, PTL

\* The storage page lists in each bucket the rows it counts there, whatever their columns
\* hold (storage/repository.py).
THEOREM LibrarySideListing == LibrarySideSpec => []ListingMatchesCounts
<1>1. LibrarySideInv => ListingMatchesCounts
  BY StorageInvMatches DEF LibrarySideInv
<1>. QED  BY <1>1, LibrarySideInvariant, PTL

\* A special is wanted only where the user asked for it (shows/service.py).
THEOREM LibrarySideSpecials == LibrarySideSpec => []SpecialsOnlyOnRequest
<1>1. LibrarySideInv => SpecialsOnlyOnRequest
  BY CatalogConsequence DEF LibrarySideInv
<1>. QED  BY <1>1, LibrarySideInvariant, PTL
===============================================================================
