----------------------------- MODULE Export_proofs -----------------------------
(***************************************************************************)
(* Proofs about Export, for any finite set of names, any page size and     *)
(* bounds, with and without cascading deletes and failing statements.      *)
(***************************************************************************)
EXTENDS Export, FiniteSetTheorems, TLAPS

-----------------------------------------------------------------------------
(* The invariant.                                                          *)

Element == [name : Names, id : Ids, shares : SUBSET Users]

ExportTypeOK ==
  /\ links \in [Names -> Ids \cup {Absent}]
  /\ shares \in [Ids -> SUBSET Users]
  /\ nextId \in 1 .. MaxId + 1
  /\ pc \in {"list", "rows", "done", "failed"}
  /\ offset \in Nat /\ count \in Nat
  /\ DOMAIN page \subseteq Names /\ page = [n \in DOMAIN page |-> page[n]]
  /\ \A n \in DOMAIN page : page[n] \in Ids
  /\ out \in Seq(Element)
  /\ kept \subseteq Ids
  /\ created \in Nat /\ removed \in Nat /\ reshared \in Nat

PageIds == {page[n] : n \in DOMAIN page}
Seen == Exported \cup PageIds

(* Where the reader stands in the table.                                   *)
Front == IF pc = "rows" THEN offset + count ELSE offset

(* Ids are names of one link only; those that are seen or were there all   *)
(* along were handed out, and what was there all along still is.           *)
IdsOK ==
  /\ \A n \in Stored(links) : links[n] < nextId
  /\ \A m, n \in Stored(links) : links[m] = links[n] => m = n
  /\ \A i \in Seen : i < nextId
  /\ \A i \in kept : \E n \in Stored(links) : links[n] = i

PagesOK ==
  /\ pc # "rows" => DOMAIN page = {}
  /\ count <= PageSize

(* What held all along is held now, and what is held now was granted.      *)
SharesOK == held \subseteq Pairs(shares) /\ Pairs(shares) \subseteq granted

(* The links that were there all along, in front of which the reader is    *)
(* already, and that it has not seen; after a page that was not full it    *)
(* will not see any other.                                                 *)
Missed ==
  {i \in kept \ Seen :
     \/ \E n \in Stored(links) : links[n] = i /\ Rank(n) < Front
     \/ pc = "rows" /\ count < PageSize}

SkipsOK ==
  /\ pc \in {"list", "rows"} => Cardinality(Missed) <= removed
  /\ SkipsBounded

(* The links that the reader has seen and will meet again.                 *)
Ahead == {i \in Seen : \E n \in Stored(links) : links[n] = i /\ Rank(n) >= Front}

RepeatsOK ==
  Len(out) + Cardinality(DOMAIN page) + Cardinality(Ahead) <= Cardinality(Seen) + created

(* Without creations, the names seen are in order, and no more rows than   *)
(* the reader has passed are in front of any of them.                      *)
Reached == {out[k].name : k \in 1 .. Len(out)}

OrderOK ==
  created = 0 =>
    /\ OrderedWithoutCreations
    /\ \A m \in Reached, n \in DOMAIN page : m < n
    /\ \A m \in Reached \cup DOMAIN page :
         Cardinality({n \in Stored(links) : n <= m}) <= Front

ExportInv ==
  /\ ExportTypeOK
  /\ IdsOK
  /\ PagesOK
  /\ SharesOK
  /\ SharesOfTheLink
  /\ SkipsOK
  /\ RepeatsOK
  /\ OrderOK

-----------------------------------------------------------------------------
(* Places in a finite set of numbers.  A name's rank counts those before it.*)

Below(S, n) == {m \in S : m < n}
Place(S, n) == Cardinality(Below(S, n))

LEMMA BelowFinite ==
  ASSUME NEW S \in SUBSET Nat, IsFiniteSet(S), NEW n \in Nat
  PROVE  IsFiniteSet(Below(S, n)) /\ Place(S, n) \in Nat
<1>1. Below(S, n) \in SUBSET S
  BY DEF Below
<1>2. IsFiniteSet(Below(S, n))
  BY <1>1, FS_Subset
<1> QED
  BY <1>2, FS_CardinalityType DEF Place

LEMMA PlaceGrows ==
  ASSUME NEW S \in SUBSET Nat, IsFiniteSet(S), NEW m \in S, NEW n \in Nat, m < n
  PROVE  Place(S, m) < Place(S, n)
<1> DEFINE upto == Below(S, m) \cup {m}
<1>1. upto \in SUBSET Below(S, n)
  <2>1. \A k \in S : k < m => k < n
    BY DEF Below
  <2> QED
    BY <2>1 DEF Below
<1>2. m \notin Below(S, m)
  BY DEF Below
<1>3. Cardinality(upto) = Place(S, m) + 1
  BY <1>2, BelowFinite, FS_AddElement DEF Place
<1>4. Cardinality(upto) <= Place(S, n)
  BY <1>1, BelowFinite, FS_Subset DEF Place
<1> QED
  BY <1>3, <1>4, BelowFinite

LEMMA PlaceInjective ==
  ASSUME NEW S \in SUBSET Nat, IsFiniteSet(S), NEW m \in S, NEW n \in S,
         Place(S, m) = Place(S, n)
  PROVE  m = n
<1>1. m \in Nat /\ n \in Nat /\ Place(S, m) \in Nat /\ Place(S, n) \in Nat
  BY BelowFinite
<1>2. ~(m < n) /\ ~(n < m)
  BY <1>1, PlaceGrows
<1> QED
  BY <1>1, <1>2

LEMMA PlaceInRange ==
  ASSUME NEW S \in SUBSET Nat, IsFiniteSet(S), NEW n \in S
  PROVE  Place(S, n) \in 0 .. Cardinality(S) - 1
<1> DEFINE upto == Below(S, n) \cup {n}
<1>1. upto \in SUBSET S /\ n \notin Below(S, n)
  BY DEF Below
<1>2. Cardinality(upto) = Place(S, n) + 1
  BY <1>1, BelowFinite, FS_AddElement DEF Place
<1>3. Cardinality(upto) <= Cardinality(S)
  BY <1>1, FS_Subset
<1> QED
  BY <1>2, <1>3, BelowFinite, FS_CardinalityType

(* Places are numbered without gaps.                                       *)
LEMMA PlaceOnto ==
  ASSUME NEW S \in SUBSET Nat, IsFiniteSet(S), NEW k \in 0 .. Cardinality(S) - 1
  PROVE  \E n \in S : Place(S, n) = k
<1> DEFINE T == 0 .. Cardinality(S) - 1
           place == [n \in S |-> Place(S, n)]
<1>1. Cardinality(S) \in Nat
  BY FS_CardinalityType
<1>2. IsFiniteSet(T) /\ Cardinality(T) = Cardinality(S)
  BY <1>1, FS_Interval
<1>3. place \in Injection(S, T)
  <2>1. place \in [S -> T]
    BY PlaceInRange
  <2>2. \A m, n \in S : place[m] = place[n] => m = n
    BY PlaceInjective
  <2> QED
    BY <2>1, <2>2 DEF Injection, IsInjective
<1>4. place \in Surjection(S, T)
  <2> HIDE DEF place, T
  <2> QED
    BY <1>2, <1>3, FS_Injection
<1> QED
  BY <1>4 DEF Surjection

Smaller(a, b) == IF a <= b THEN a ELSE b

(* How many names a window of places holds.                                *)
LEMMA WindowSize ==
  ASSUME NEW S \in SUBSET Nat, IsFiniteSet(S), NEW a \in Nat, NEW b \in Nat, a <= b,
         a <= Cardinality(S)
  PROVE  LET W == {n \in S : Place(S, n) \in a .. b - 1}
         IN  IsFiniteSet(W) /\ Cardinality(W) = Smaller(b, Cardinality(S)) - a
<1> DEFINE W == {n \in S : Place(S, n) \in a .. b - 1}
           last == Smaller(b, Cardinality(S)) - 1
           T == a .. last
           place == [n \in W |-> Place(S, n)]
<1>1. Cardinality(S) \in Nat
  BY FS_CardinalityType
<1>2. IsFiniteSet(W)
  BY FS_Subset
<1>3. \A n \in W : Place(S, n) \in T
  BY <1>1, PlaceInRange DEF Smaller
<1>4. \A k \in T : \E n \in W : Place(S, n) = k
  <2> SUFFICES ASSUME NEW k \in T
               PROVE  \E n \in W : Place(S, n) = k
    OBVIOUS
  <2>1. k \in 0 .. Cardinality(S) - 1 /\ k \in a .. b - 1
    BY <1>1 DEF Smaller
  <2> QED
    BY <2>1, PlaceOnto
<1>5. place \in Bijection(W, T)
  <2>1. place \in [W -> T]
    BY <1>3
  <2>2. \A m, n \in W : place[m] = place[n] => m = n
    BY PlaceInjective
  <2>3. \A k \in T : \E n \in W : place[n] = k
    BY <1>4
  <2> HIDE DEF place, T, W
  <2> QED
    BY <2>1, <2>2, <2>3 DEF Bijection, Injection, IsInjective, Surjection
<1>6. Cardinality(T) = Cardinality(W)
  <2>1. ExistsBijection(W, T)
    BY <1>5 DEF ExistsBijection
  <2> HIDE DEF T, W
  <2> QED
    BY <1>2, <2>1, FS_Bijection
<1>7. Cardinality(T) = last - a + 1
  <2>1. last \in Int /\ a \in Int /\ last >= a - 1
    BY <1>1 DEF Smaller
  <2> HIDE DEF last
  <2>2. Cardinality(T) = IF a > last THEN 0 ELSE last - a + 1
    BY <2>1, FS_Interval
  <2> QED
    BY <2>1, <2>2
<1>8. Cardinality(W) = Smaller(b, Cardinality(S)) - a
  <2>1. Smaller(b, Cardinality(S)) \in Int
    BY <1>1 DEF Smaller
  <2> HIDE DEF W, T
  <2> QED
    BY <1>6, <1>7, <2>1
<1> QED
  BY <1>2, <1>8

(* A deletion moves what is behind it up by one place ...                  *)
LEMMA PlaceAfterDelete ==
  ASSUME NEW S \in SUBSET Nat, IsFiniteSet(S), NEW d \in S, NEW n \in Nat
  PROVE  Place(S \ {d}, n) = Place(S, n) - (IF d < n THEN 1 ELSE 0)
<1>1. Below(S \ {d}, n) = Below(S, n) \ {d}
  BY DEF Below
<1>2. d \in Below(S, n) <=> d < n
  BY DEF Below
<1>3. Place(S \ {d}, n) = IF d \in Below(S, n) THEN Place(S, n) - 1 ELSE Place(S, n)
  BY <1>1, BelowFinite, FS_RemoveElement DEF Place
<1> QED
  BY <1>2, <1>3, BelowFinite

(* ... and a creation moves it down.                                       *)
LEMMA PlaceAfterCreate ==
  ASSUME NEW S \in SUBSET Nat, IsFiniteSet(S), NEW d \in Nat \ S, NEW n \in Nat
  PROVE  Place(S \cup {d}, n) = Place(S, n) + (IF d < n THEN 1 ELSE 0)
<1>1. Below(S \cup {d}, n) = IF d < n THEN Below(S, n) \cup {d} ELSE Below(S, n)
  BY DEF Below
<1>2. d \notin Below(S, n)
  BY DEF Below
<1>3. CASE d < n
  BY <1>1, <1>2, <1>3, BelowFinite, FS_AddElement DEF Place
<1>4. CASE ~(d < n)
  BY <1>1, <1>4, BelowFinite DEF Place
<1> QED
  BY <1>3, <1>4

(* At most one element more makes a finite set at most one larger.         *)
LEMMA OneMore ==
  ASSUME NEW S, IsFiniteSet(S), NEW T, NEW x, T \subseteq S \cup {x}
  PROVE  IsFiniteSet(T) /\ Cardinality(T) \in Nat /\ Cardinality(T) <= Cardinality(S) + 1
<1>0. Cardinality(S) \in Nat
  BY FS_CardinalityType
<1>1. /\ IsFiniteSet(S \cup {x}) /\ Cardinality(S \cup {x}) \in Nat
      /\ Cardinality(S \cup {x}) <= Cardinality(S) + 1
  <2>1. /\ IsFiniteSet(S \cup {x})
        /\ Cardinality(S \cup {x}) = IF x \in S THEN Cardinality(S) ELSE Cardinality(S) + 1
    BY FS_AddElement
  <2> QED
    BY <1>0, <2>1
<1>2. T \in SUBSET (S \cup {x})
  OBVIOUS
<1>3. IsFiniteSet(T) /\ Cardinality(T) <= Cardinality(S \cup {x})
  BY <1>1, <1>2, FS_Subset
<1>4. Cardinality(T) \in Nat
  BY <1>3, FS_CardinalityType
<1> QED
  BY <1>0, <1>1, <1>3, <1>4

-----------------------------------------------------------------------------
(* What the steps do to the table and the page.                            *)

LEMMA StoredFinite ==
  ASSUME NEW t
  PROVE  Stored(t) \in SUBSET Nat /\ IsFiniteSet(Stored(t)) /\ Cardinality(Stored(t)) \in Nat
<1>1. Stored(t) \in SUBSET Names
  BY DEF Stored
<1> QED
  BY <1>1, NamesAssumption, FS_Subset, FS_CardinalityType

LEMMA RankIs == \A n : Rank(n) = Place(Stored(links), n)
BY DEF Rank, Place, Below

LEMMA RankType == \A n \in Nat : Rank(n) \in Nat
BY RankIs, StoredFinite, BelowFinite

LEMMA Constants ==
  /\ PageSize \in Nat /\ PageSize > 0 /\ MaxId \in Nat
  /\ Ids \subseteq Nat /\ Absent = 0 /\ Absent \notin Ids
BY PageAssumption, BoundsAssumption DEF Ids, Absent

(* The page listed holds the places from offset on, all of them if it is   *)
(* not full.                                                               *)
LEMMA PageWindow ==
  ASSUME offset \in Nat
  PROVE  /\ IsFiniteSet(PageNames) /\ Cardinality(PageNames) \in 0 .. PageSize
         /\ \A n \in Stored(links) :
              n \in PageNames <=>
                Rank(n) >= offset /\ Rank(n) < offset + Cardinality(PageNames)
         /\ Cardinality(PageNames) < PageSize =>
              \A n \in Stored(links) : Rank(n) < offset + Cardinality(PageNames)
<1> DEFINE S == Stored(links)
           size == Cardinality(S)
<1>1. S \in SUBSET Nat /\ IsFiniteSet(S) /\ size \in Nat
  BY StoredFinite
<1>2. \A n \in S : Rank(n) \in Nat /\ Rank(n) < size
  BY <1>1, RankIs, PlaceInRange
<1>3. PageNames = {n \in S : Place(S, n) \in offset .. (offset + PageSize) - 1}
  BY RankIs, Constants DEF PageNames
<1>4. CASE offset <= size
  <2>1. /\ IsFiniteSet(PageNames)
        /\ Cardinality(PageNames) = Smaller(offset + PageSize, size) - offset
    <3>1. offset + PageSize \in Nat /\ offset <= offset + PageSize
      BY Constants
    <3> HIDE DEF S
    <3> QED
      BY <1>1, <1>3, <1>4, <3>1, WindowSize
  <2>2. \A n \in S : n \in PageNames <=> Rank(n) >= offset /\ Rank(n) < offset + PageSize
    BY <1>2, Constants DEF PageNames
  <2> HIDE DEF S
  <2>3. \A n \in Stored(links) : Rank(n) \in Nat /\ Rank(n) < size
    BY <1>2 DEF S
  <2>4. \A n \in Stored(links) :
          n \in PageNames <=> Rank(n) >= offset /\ Rank(n) < offset + PageSize
    BY <2>2 DEF S
  <2> HIDE DEF size
  <2>5. CASE offset + PageSize <= size
    <3>1. Cardinality(PageNames) = PageSize
      BY <1>1, <2>1, <2>5, Constants DEF Smaller
    <3> QED
      BY <2>1, <2>4, <3>1, Constants
  <2>6. CASE ~(offset + PageSize <= size)
    <3>1. Cardinality(PageNames) = size - offset
      BY <1>1, <2>1, <2>6, Constants DEF Smaller
    <3>2. offset + Cardinality(PageNames) = size /\ Cardinality(PageNames) \in 0 .. PageSize
      BY <1>1, <1>4, <2>6, <3>1, Constants
    <3>3. \A n \in Stored(links) : Rank(n) < offset + PageSize
      BY <1>1, <2>3, <2>6, Constants
    <3> QED
      BY <2>1, <2>3, <2>4, <3>2, <3>3
  <2> QED
    BY <2>5, <2>6
<1>5. CASE ~(offset <= size)
  <2>1. \A n \in S : Rank(n) < offset
    BY <1>1, <1>2, <1>5
  <2>2. PageNames = {}
    BY <1>2, <2>1 DEF PageNames
  <2>3. IsFiniteSet(PageNames) /\ Cardinality(PageNames) = 0
    BY <2>2, FS_EmptySet
  <2> QED
    BY <1>2, <2>1, <2>2, <2>3, Constants
<1> QED
  BY <1>4, <1>5

LEMMA Listed ==
  ASSUME ExportTypeOK, PagesOK, ListPage
  PROVE  /\ DOMAIN page' = PageNames /\ PageNames \subseteq Stored(links)
         /\ page' = [n \in PageNames |-> page'[n]]
         /\ \A n \in PageNames : page'[n] = links[n] /\ links[n] \in Ids
         /\ count' = Cardinality(PageNames) /\ count' \in 0 .. PageSize
         /\ pc = "list" /\ DOMAIN page = {} /\ PageIds = {}
         /\ pc' = "rows" \/ (pc' = "done" /\ PageNames = {} /\ count' = 0)
         /\ UNCHANGED <<offset, out, unread, table, past>>
<1>1. PageNames \subseteq Stored(links)
  BY DEF PageNames
<1>2. page' = [n \in PageNames |-> links[n]] /\ count' = Cardinality(PageNames)
  BY DEF ListPage, Page
<1>3. \A n \in Stored(links) : links[n] \in Ids
  BY DEF Stored, ExportTypeOK
<1>4. count' \in 0 .. PageSize
  BY <1>2, PageWindow DEF ExportTypeOK
<1>5. pc = "list" /\ DOMAIN page = {}
  BY DEF ListPage, PagesOK
<1>6. PageIds = {}
  BY <1>5 DEF PageIds
<1>7. PageNames = {} => count' = 0
  BY <1>2, FS_EmptySet
<1> QED
  BY <1>1, <1>2, <1>3, <1>4, <1>5, <1>6, <1>7 DEF ListPage

(* Writing a row moves it from the page to what was written.               *)
LEMMA Written ==
  ASSUME ExportTypeOK, NEW n \in Names, First(n), NEW whom \in SUBSET Users,
         WriteElement(n, whom)
  PROVE  /\ out' \in Seq(Element) /\ Len(out') = Len(out) + 1 /\ Len(out) \in Nat
         /\ out'[Len(out) + 1] = [name |-> n, id |-> page[n], shares |-> whom]
         /\ \A k \in 1 .. Len(out) : out'[k] = out[k]
         /\ n \in DOMAIN page /\ DOMAIN page' = DOMAIN page \ {n}
         /\ page' = [m \in DOMAIN page' |-> page'[m]]
         /\ \A m \in DOMAIN page' : page'[m] = page[m]
         /\ Exported' = Exported \cup {page[n]}
         /\ Seen' = Seen
         /\ Reached' = Reached \cup {n}
<1> DEFINE e == [name |-> n, id |-> page[n], shares |-> whom]
<1>1. n \in DOMAIN page
  BY DEF First
<1>2. e \in Element
  BY <1>1 DEF ExportTypeOK, Element
<1>3. e.id = page[n] /\ e.name = n
  OBVIOUS
<1>4. out' = Append(out, e) /\ out \in Seq(Element)
  BY DEF WriteElement, ExportTypeOK
<1> HIDE DEF e
<1>5. /\ out' \in Seq(Element) /\ Len(out') = Len(out) + 1 /\ Len(out) \in Nat
      /\ out'[Len(out) + 1] = e
      /\ \A k \in 1 .. Len(out) : out'[k] = out[k]
  BY <1>2, <1>4
<1>6. page' = [m \in DOMAIN page \ {n} |-> page[m]]
  BY DEF WriteElement
<1>7. 1 .. Len(out') = 1 .. Len(out) \cup {Len(out) + 1}
  BY <1>5
<1>8. Exported' = Exported \cup {page[n]}
  BY <1>3, <1>5, <1>7 DEF Exported
<1>9. Reached' = Reached \cup {n}
  BY <1>3, <1>5, <1>7 DEF Reached
<1>10. PageIds = PageIds' \cup {page[n]}
  BY <1>1, <1>6 DEF PageIds
<1>11. Seen' = Seen
  BY <1>8, <1>10 DEF Seen
<1> QED
  BY <1>1, <1>5, <1>6, <1>8, <1>9, <1>11 DEF e

LEMMA StoredCreated ==
  ASSUME ExportTypeOK, NEW n \in Names, CreateLink(n)
  PROVE  /\ n \notin Stored(links) /\ Stored(links') = Stored(links) \cup {n}
         /\ links' \in [Names -> Ids \cup {Absent}]
         /\ links'[n] = nextId /\ nextId \in Ids /\ nextId' = nextId + 1
         /\ \A m \in Stored(links) : links'[m] = links[m]
         /\ \A m \in Stored(links) :
              Rank(m)' = Rank(m) + (IF n < m THEN 1 ELSE 0)
<1>1. nextId \in Ids
  BY Constants DEF CreateLink, ExportTypeOK, Ids
<1>2. /\ links' \in [Names -> Ids \cup {Absent}] /\ links'[n] = nextId
      /\ \A m \in Names \ {n} : links'[m] = links[m]
  BY <1>1 DEF CreateLink, ExportTypeOK
<1>3. n \notin Stored(links) /\ Stored(links') = Stored(links) \cup {n}
  BY <1>1, <1>2, Constants DEF CreateLink, Stored
<1>4. n \in Nat \ Stored(links)
  BY <1>3, NamesAssumption
<1>5. \A m \in Stored(links) : Place(Stored(links'), m)
                                 = Place(Stored(links), m) + (IF n < m THEN 1 ELSE 0)
  BY <1>3, <1>4, StoredFinite, PlaceAfterCreate
<1>6. \A m : Rank(m)' = Place(Stored(links'), m)
  BY DEF Rank, Place, Below
<1> QED
  BY <1>1, <1>2, <1>3, <1>5, <1>6, RankIs DEF CreateLink, Stored

LEMMA StoredDeleted ==
  ASSUME ExportTypeOK, NEW n \in Names, DeleteLink(n)
  PROVE  /\ n \in Stored(links) /\ Stored(links') = Stored(links) \ {n}
         /\ links' \in [Names -> Ids \cup {Absent}]
         /\ links[n] \in Ids
         /\ \A m \in Stored(links') : links'[m] = links[m]
         /\ \A m \in Stored(links') :
              Rank(m)' = Rank(m) - (IF n < m THEN 1 ELSE 0)
<1>1. n \in Stored(links) /\ links[n] \in Ids
  BY DEF DeleteLink, Stored, ExportTypeOK
<1>2. /\ links' \in [Names -> Ids \cup {Absent}] /\ links'[n] = Absent
      /\ \A m \in Names \ {n} : links'[m] = links[m]
  BY DEF DeleteLink, ExportTypeOK
<1>3. Stored(links') = Stored(links) \ {n}
  BY <1>1, <1>2 DEF Stored
<1>4. \A m \in Stored(links') : Place(Stored(links'), m)
                                  = Place(Stored(links), m) - (IF n < m THEN 1 ELSE 0)
  BY <1>1, <1>3, StoredFinite, PlaceAfterDelete
<1>5. \A m : Rank(m)' = Place(Stored(links'), m)
  BY DEF Rank, Place, Below
<1> QED
  BY <1>1, <1>2, <1>3, <1>4, <1>5, RankIs DEF Stored

-----------------------------------------------------------------------------
(* Types, ids and pages.                                                   *)

LEMMA TypeStep == ExportTypeOK /\ PagesOK /\ [Next]_vars => ExportTypeOK'
<1> SUFFICES ASSUME ExportTypeOK, PagesOK, [Next]_vars
             PROVE  ExportTypeOK'
  OBVIOUS
<1>1. CASE ListPage
  <2>1. /\ DOMAIN page' \subseteq Names /\ page' = [n \in DOMAIN page' |-> page'[n]]
        /\ \A n \in DOMAIN page' : page'[n] \in Ids
    BY <1>1, Listed DEF Stored
  <2>2. count' \in Nat
    BY <1>1, Listed, Constants
  <2> QED
    BY <1>1, <2>1, <2>2, Listed DEF ExportTypeOK, table, past
<1>2. CASE ListFails
  BY <1>2 DEF ListFails, ExportTypeOK, table, past
<1>3. ASSUME NEW n \in Names, First(n), NEW whom \in SUBSET Users, WriteElement(n, whom)
      PROVE  ExportTypeOK'
  <2>1. /\ DOMAIN page' \subseteq Names /\ page' = [m \in DOMAIN page' |-> page'[m]]
        /\ \A m \in DOMAIN page' : page'[m] \in Ids
        /\ out' \in Seq(Element)
    BY <1>3, Written DEF ExportTypeOK
  <2> QED
    BY <1>3, <2>1 DEF WriteElement, ExportTypeOK, table, past
<1>4. CASE WriteRow
  <2>1. PICK n \in Names : First(n) /\ WriteElement(n, SharesOf(n))
    BY <1>4 DEF WriteRow
  <2>2. SharesOf(n) \in SUBSET Users
    BY <2>1 DEF First, SharesOf, ExportTypeOK
  <2> QED
    BY <1>3, <2>1, <2>2
<1>5. CASE WriteRowUnshared
  BY <1>3, <1>5 DEF WriteRowUnshared
<1>6. CASE EndPage
  BY <1>6 DEF EndPage, ExportTypeOK, table, past
<1>7. ASSUME NEW n \in Names, CreateLink(n) PROVE ExportTypeOK'
  <2>1. nextId' \in 1 .. MaxId + 1
    BY <1>7, StoredCreated, Constants DEF Ids
  <2>2. created' \in Nat
    BY <1>7 DEF CreateLink, ExportTypeOK
  <2>3. links' \in [Names -> Ids \cup {Absent}]
    BY <1>7, StoredCreated
  <2>4. UNCHANGED <<shares, pc, offset, count, page, out, kept, removed, reshared>>
    BY <1>7 DEF CreateLink, reader
  <2> QED
    BY <2>1, <2>2, <2>3, <2>4 DEF ExportTypeOK
<1>8. ASSUME NEW n \in Names, DeleteLink(n) PROVE ExportTypeOK'
  <2>1. shares' \in [Ids -> SUBSET Users]
    BY <1>8 DEF DeleteLink, ExportTypeOK
  <2> QED
    BY <1>8, <2>1, StoredDeleted DEF DeleteLink, ExportTypeOK, reader
<1>9. ASSUME NEW n \in Names, NEW u \in Users, AddShare(n, u) \/ RemoveShare(n, u)
      PROVE  ExportTypeOK'
  <2>1. shares' \in [Ids -> SUBSET Users]
    BY <1>9 DEF AddShare, RemoveShare, ExportTypeOK
  <2> QED
    BY <1>9, <2>1 DEF AddShare, RemoveShare, ExportTypeOK, reader
<1>10. CASE UNCHANGED vars
  BY <1>10 DEF vars, table, reader, past, ExportTypeOK
<1> QED
  BY <1>1, <1>2, <1>4, <1>5, <1>6, <1>7, <1>8, <1>9, <1>10 DEF Next, Export, Others

LEMMA PagesStep == ExportTypeOK /\ PagesOK /\ [Next]_vars => PagesOK'
<1> SUFFICES ASSUME ExportTypeOK, PagesOK, [Next]_vars
             PROVE  PagesOK'
  OBVIOUS
<1>1. CASE ListPage
  <2>1. count' <= PageSize
    BY <1>1, Listed, Constants
  <2>2. pc' # "rows" => DOMAIN page' = {}
    BY <1>1, Listed
  <2> QED
    BY <2>1, <2>2 DEF PagesOK
<1>2. CASE ListFails
  BY <1>2 DEF ListFails, PagesOK
<1>3. CASE WriteRow \/ WriteRowUnshared
  BY <1>3 DEF WriteRow, WriteRowUnshared, WriteElement, PagesOK
<1>4. CASE EndPage
  BY <1>4 DEF EndPage, PagesOK
<1>5. CASE Others
  BY <1>5 DEF Others, CreateLink, DeleteLink, AddShare, RemoveShare, reader, PagesOK
<1>6. CASE UNCHANGED vars
  BY <1>6 DEF vars, reader, PagesOK
<1> QED
  BY <1>1, <1>2, <1>3, <1>4, <1>5, <1>6 DEF Next, Export

(* A row written or a page ended leaves what was seen as it is.            *)
LEMMA SeenStays ==
  ASSUME ExportTypeOK, WriteRow \/ WriteRowUnshared
  PROVE  /\ Seen' = Seen /\ Len(out') = Len(out) + 1
         /\ \E n \in DOMAIN page : DOMAIN page' = DOMAIN page \ {n}
         /\ UNCHANGED <<pc, offset, count, table, past>>
<1>1. PICK n \in Names, whom \in SUBSET Users : First(n) /\ WriteElement(n, whom)
  <2>1. CASE WriteRow
    <3>1. PICK n \in Names : First(n) /\ WriteElement(n, SharesOf(n))
      BY <2>1 DEF WriteRow
    <3>2. SharesOf(n) \in SUBSET Users
      BY <3>1 DEF First, SharesOf, ExportTypeOK
    <3> QED
      BY <3>1, <3>2
  <2>2. CASE WriteRowUnshared
    BY <2>2 DEF WriteRowUnshared
  <2> QED
    BY <2>1, <2>2
<1> QED
  BY <1>1, Written DEF WriteElement

LEMMA SeenUnchanged ==
  ASSUME UNCHANGED <<out, page>>
  PROVE  Seen' = Seen /\ Exported' = Exported /\ PageIds' = PageIds /\ Reached' = Reached
BY DEF Seen, Exported, PageIds, Reached

(* Ids that are seen are ids.                                              *)
LEMMA SeenTyped == ExportTypeOK => Seen \subseteq Ids /\ IsFiniteSet(Seen) /\ IsFiniteSet(Ids)
<1> SUFFICES ASSUME ExportTypeOK
             PROVE  Seen \subseteq Ids /\ IsFiniteSet(Seen) /\ IsFiniteSet(Ids)
  OBVIOUS
<1>1. Exported \subseteq Ids
  <2>1. \A k \in 1 .. Len(out) : out[k] \in Element
    BY DEF ExportTypeOK
  <2> QED
    BY <2>1 DEF Exported, Element
<1>2. PageIds \subseteq Ids
  BY DEF PageIds, ExportTypeOK
<1>3. IsFiniteSet(Ids)
  BY Constants, FS_Interval DEF Ids
<1>4. Seen \in SUBSET Ids
  BY <1>1, <1>2 DEF Seen
<1> QED
  BY <1>3, <1>4, FS_Subset

LEMMA IdsStep == ExportTypeOK /\ PagesOK /\ IdsOK /\ [Next]_vars => IdsOK'
<1> SUFFICES ASSUME ExportTypeOK, PagesOK, IdsOK, [Next]_vars
             PROVE  IdsOK'
  OBVIOUS
<1>1. ASSUME UNCHANGED <<links, nextId, kept>>, Seen' = Seen PROVE IdsOK'
  BY <1>1 DEF IdsOK
<1>2. CASE ListPage
  <2>1. UNCHANGED <<links, nextId, kept>> /\ Exported' = Exported
    BY <1>2 DEF ListPage, table, past, Exported
  <2>2. \A i \in PageIds' : \E n \in Stored(links) : links[n] = i
    BY <1>2, Listed DEF PageIds
  <2> QED
    BY <2>1, <2>2 DEF IdsOK, Seen
<1>3. CASE WriteRow \/ WriteRowUnshared
  BY <1>1, <1>3, SeenStays DEF table, past
<1>4. CASE ListFails \/ EndPage
  BY <1>1, <1>4, SeenUnchanged DEF ListFails, EndPage, table, past
<1>5. ASSUME NEW n \in Names, CreateLink(n) PROVE IdsOK'
  <2>1. UNCHANGED <<kept, out, page>>
    BY <1>5 DEF CreateLink, reader
  <2>2. Seen' = Seen
    BY <2>1, SeenUnchanged
  <2>3. nextId \in Nat
    BY Constants DEF ExportTypeOK
  <2>4. \A m \in Stored(links) : links[m] \in Nat
    BY Constants DEF Stored, ExportTypeOK
  <2>5. \A m \in Stored(links') : links'[m] < nextId'
    BY <1>5, <2>3, <2>4, StoredCreated DEF IdsOK
  <2>6. \A m \in Stored(links) : links[m] # nextId
    BY <2>3, <2>4 DEF IdsOK
  <2>7. \A m1, m2 \in Stored(links') : links'[m1] = links'[m2] => m1 = m2
    BY <1>5, <2>6, StoredCreated DEF IdsOK
  <2>8. \A i \in kept' : \E m \in Stored(links') : links'[m] = i
    BY <1>5, <2>1, StoredCreated DEF IdsOK
  <2>9. \A i \in Seen' : i < nextId'
    <3>1. Seen \subseteq Nat /\ \A i \in Seen : i < nextId
      BY SeenTyped, Constants DEF IdsOK
    <3>2. nextId' = nextId + 1
      BY <1>5, StoredCreated
    <3> QED
      BY <2>2, <2>3, <3>1, <3>2
  <2> QED
    BY <2>5, <2>7, <2>8, <2>9 DEF IdsOK
<1>6. ASSUME NEW n \in Names, DeleteLink(n) PROVE IdsOK'
  <2>1. UNCHANGED <<nextId, out, page>> /\ kept' = kept \ {links[n]}
    BY <1>6 DEF DeleteLink, reader
  <2>2. Seen' = Seen
    BY <2>1, SeenUnchanged
  <2> QED
    BY <1>6, <2>1, <2>2, StoredDeleted DEF IdsOK
<1>7. ASSUME NEW n \in Names, NEW u \in Users, AddShare(n, u) \/ RemoveShare(n, u)
      PROVE  IdsOK'
  BY <1>1, <1>7, SeenUnchanged DEF AddShare, RemoveShare, reader
<1>8. CASE UNCHANGED vars
  BY <1>1, <1>8, SeenUnchanged DEF vars, table, reader, past
<1> QED
  BY <1>2, <1>3, <1>4, <1>5, <1>6, <1>7, <1>8 DEF Next, Export, Others

-----------------------------------------------------------------------------
(* Shares.                                                                 *)

LEMMA SharesStep ==
  ExportTypeOK /\ SharesOK /\ SharesOfTheLink /\ [Next]_vars => SharesOK' /\ SharesOfTheLink'
<1> SUFFICES ASSUME ExportTypeOK, SharesOK, SharesOfTheLink, [Next]_vars
             PROVE  SharesOK' /\ SharesOfTheLink'
  OBVIOUS
<1>1. ASSUME UNCHANGED <<out, unread>>, granted \subseteq granted', held' \subseteq held
      PROVE  SharesOfTheLink'
  BY <1>1 DEF SharesOfTheLink
<1>2. CASE ListPage \/ ListFails \/ EndPage
  BY <1>1, <1>2 DEF ListPage, ListFails, EndPage, table, past, SharesOK, Pairs
<1>3. ASSUME NEW n \in Names, First(n), NEW whom \in SUBSET Users, WriteElement(n, whom),
             whom \subseteq SharesOf(n), unread \subseteq unread',
             Len(out) + 1 \notin unread' => whom = SharesOf(n)
      PROVE  SharesOK' /\ SharesOfTheLink'
  <2>1. UNCHANGED <<shares, granted, held>>
    BY <1>3 DEF WriteElement, table, past
  <2>2. page[n] \in Ids /\ SharesOf(n) = shares[page[n]] /\ SharesOf(n) \subseteq Users
    BY <1>3 DEF First, ExportTypeOK, SharesOf
  <2>3. \A u \in SharesOf(n) : <<page[n], u>> \in granted
    BY <2>2 DEF SharesOK, Pairs
  <2>4. \A u \in Users : <<page[n], u>> \in held => u \in SharesOf(n)
    BY <2>2 DEF SharesOK, Pairs
  <2>5. ASSUME NEW k \in 1 .. Len(out')
        PROVE  /\ \A u \in out'[k].shares : <<out'[k].id, u>> \in granted
               /\ k \notin unread' =>
                    \A u \in Users : <<out'[k].id, u>> \in held => u \in out'[k].shares
    <3>1. CASE k \in 1 .. Len(out)
      <4>1. out'[k] = out[k]
        BY <1>3, <3>1, Written
      <4>2. k \notin unread' => k \notin unread
        BY <1>3
      <4> QED
        BY <3>1, <4>1, <4>2 DEF SharesOfTheLink
    <3>2. CASE k = Len(out) + 1
      <4>1. out'[k] = [name |-> n, id |-> page[n], shares |-> whom]
        BY <1>3, <3>2, Written
      <4>2. out'[k].id = page[n] /\ out'[k].shares = whom
        BY <4>1
      <4> QED
        BY <1>3, <2>3, <2>4, <3>2, <4>2
    <3>3. Len(out') = Len(out) + 1 /\ Len(out) \in Nat
      BY <1>3, Written
    <3>4. k \in 1 .. Len(out) \/ k = Len(out) + 1
      BY <3>3
    <3> QED
      BY <3>1, <3>2, <3>4
  <2> QED
    BY <2>1, <2>5 DEF SharesOK, SharesOfTheLink, Pairs
<1>4. CASE WriteRow
  <2>1. PICK n \in Names : First(n) /\ WriteElement(n, SharesOf(n))
    BY <1>4 DEF WriteRow
  <2>2. SharesOf(n) \in SUBSET Users
    BY <2>1 DEF First, SharesOf, ExportTypeOK
  <2>3. unread' = unread
    BY <1>4 DEF WriteRow
  <2> QED
    BY <1>3, <2>1, <2>2, <2>3
<1>5. CASE WriteRowUnshared
  BY <1>3, <1>5 DEF WriteRowUnshared
<1>6. ASSUME NEW n \in Names, CreateLink(n) PROVE SharesOK' /\ SharesOfTheLink'
  BY <1>1, <1>6 DEF CreateLink, reader, SharesOK, Pairs
<1>7. ASSUME NEW n \in Names, DeleteLink(n) PROVE SharesOK' /\ SharesOfTheLink'
  <2>1. Pairs(shares') \subseteq Pairs(shares)
    BY <1>7 DEF DeleteLink, Pairs, ExportTypeOK
  <2>2. held' = held \cap Pairs(shares') /\ UNCHANGED <<granted, out, unread>>
    BY <1>7 DEF DeleteLink, reader
  <2> QED
    BY <1>1, <2>1, <2>2 DEF SharesOK, Pairs
<1>8. ASSUME NEW n \in Names, NEW u \in Users, AddShare(n, u)
      PROVE  SharesOK' /\ SharesOfTheLink'
  <2>1. links[n] \in Ids
    BY <1>8 DEF AddShare, ExportTypeOK
  <2>2. Pairs(shares') = Pairs(shares) \cup {<<links[n], u>>}
    BY <1>8, <2>1 DEF AddShare, Pairs, ExportTypeOK
  <2>3. UNCHANGED <<held, out, unread>> /\ granted' = granted \cup {<<links[n], u>>}
    BY <1>8 DEF AddShare, reader
  <2> QED
    BY <1>1, <2>2, <2>3 DEF SharesOK, Pairs
<1>9. ASSUME NEW n \in Names, NEW u \in Users, RemoveShare(n, u)
      PROVE  SharesOK' /\ SharesOfTheLink'
  <2>1. links[n] \in Ids
    BY <1>9 DEF RemoveShare, ExportTypeOK
  <2>2. Pairs(shares') = Pairs(shares) \ {<<links[n], u>>}
    BY <1>9, <2>1 DEF RemoveShare, Pairs, ExportTypeOK
  <2>3. UNCHANGED <<granted, out, unread>> /\ held' = held \ {<<links[n], u>>}
    BY <1>9 DEF RemoveShare, reader
  <2> QED
    BY <1>1, <2>2, <2>3 DEF SharesOK, Pairs
<1>10. CASE UNCHANGED vars
  BY <1>1, <1>10 DEF vars, table, reader, past, SharesOK, Pairs
<1> QED
  BY <1>2, <1>4, <1>5, <1>6, <1>7, <1>8, <1>9, <1>10 DEF Next, Export, Others

-----------------------------------------------------------------------------
(* Links that are missed.                                                  *)

(* Whoever was there all along and is not seen, in front of place c.       *)
Passed(c) == {i \in kept \ Seen : \E n \in Stored(links) : links[n] = i /\ Rank(n) < c}

LEMMA KeptFinite ==
  ASSUME ExportTypeOK, NEW T, T \subseteq kept
  PROVE  IsFiniteSet(T) /\ Cardinality(T) \in Nat
<1>1. IsFiniteSet(Ids) /\ T \in SUBSET Ids
  BY SeenTyped DEF ExportTypeOK
<1> QED
  BY <1>1, FS_Subset, FS_CardinalityType

LEMMA Fewer ==
  ASSUME ExportTypeOK, NEW S, S \subseteq kept, NEW T, T \subseteq S
  PROVE  Cardinality(T) <= Cardinality(S) /\ Cardinality(T) \in Nat /\ Cardinality(S) \in Nat
<1>1. IsFiniteSet(S) /\ Cardinality(S) \in Nat /\ T \in SUBSET S
  BY KeptFinite
<1> QED
  BY <1>1, FS_Subset, FS_CardinalityType

LEMMA SkipsStep ==
  ExportTypeOK /\ IdsOK /\ PagesOK /\ SkipsOK /\ [Next]_vars => SkipsOK'
<1> SUFFICES ASSUME ExportTypeOK, IdsOK, PagesOK, SkipsOK, [Next]_vars
             PROVE  SkipsOK'
  OBVIOUS
<1>0. removed \in Nat
  BY DEF ExportTypeOK
<1>1. CASE ListPage
  <2>1. /\ UNCHANGED <<links, kept, removed, offset, out>> /\ pc = "list"
        /\ \A n : Rank(n)' = Rank(n)
    BY <1>1 DEF ListPage, table, past, Rank, Stored
  <2>2. Seen = Exported /\ Exported' = Exported
    BY <1>1, <2>1, Listed DEF Seen, Exported
  <2>3. Missed = Passed(offset)
    BY <2>1 DEF Missed, Passed, Front
  <2>4. Cardinality(Passed(offset)) <= removed
    BY <2>1, <2>3 DEF SkipsOK
  <2>5. ASSUME NEW i \in kept, i \notin Seen', NEW n \in Stored(links), links[n] = i,
               Rank(n) < offset + count' \/ count' < PageSize
        PROVE  i \in Passed(offset)
    <3>1. Rank(n) < offset + count'
      BY <1>1, <2>5, Listed, PageWindow DEF ExportTypeOK
    <3>2. n \notin PageNames
      BY <1>1, <2>5, Listed DEF Seen, PageIds
    <3>3. ~(Rank(n) >= offset)
      BY <1>1, <3>1, <3>2, Listed, PageWindow DEF ExportTypeOK
    <3>4. n \in Nat
      BY StoredFinite
    <3>5. Rank(n) < offset
      BY <3>3, <3>4, RankType DEF ExportTypeOK
    <3> QED
      BY <2>2, <2>5, <3>5 DEF Passed, Seen
  <2>6. CASE pc' = "rows"
    <3>1. Missed' \subseteq Passed(offset)
      <4> SUFFICES ASSUME NEW i \in Missed'
                   PROVE  i \in Passed(offset)
        OBVIOUS
      <4>1. i \in kept /\ i \notin Seen'
        BY <2>1 DEF Missed
      <4>2. CASE \E n \in Stored(links) : links[n] = i /\ Rank(n) < offset + count'
        BY <2>5, <4>1, <4>2
      <4>3. CASE count' < PageSize
        BY <2>5, <4>1, <4>3 DEF IdsOK
      <4> QED
        BY <2>1, <2>6, <4>2, <4>3 DEF Missed, Front, Stored
    <3>2. Cardinality(Missed') <= Cardinality(Passed(offset))
             /\ Cardinality(Missed') \in Nat /\ Cardinality(Passed(offset)) \in Nat
      BY <3>1, Fewer DEF Passed
    <3> QED
      BY <1>0, <2>1, <2>4, <2>6, <3>2 DEF SkipsOK, SkipsBounded
  <2>7. CASE pc' = "done" /\ PageNames = {} /\ count' = 0
    <3>1. Seen' = Seen
      BY <1>1, <2>2, <2>7, Listed DEF Seen, PageIds
    <3>2. kept \ Exported \subseteq Passed(offset)
      BY <2>2, <2>5, <2>7, <3>1, Constants DEF IdsOK
    <3>3. Cardinality(kept \ Exported) <= Cardinality(Passed(offset))
             /\ Cardinality(kept \ Exported) \in Nat /\ Cardinality(Passed(offset)) \in Nat
      BY <3>2, Fewer DEF Passed
    <3> QED
      BY <1>0, <2>1, <2>2, <2>4, <2>7, <3>3 DEF SkipsOK, SkipsBounded
  <2> QED
    BY <1>1, <2>6, <2>7, Listed
<1>2. CASE ListFails
  BY <1>2 DEF ListFails, SkipsOK, SkipsBounded
<1>3. ASSUME UNCHANGED <<links, kept, removed>>, Seen' = Seen,
             pc \in {"list", "rows"}, pc' \in {"list", "rows"}, Front' = Front,
             pc' = "rows" /\ count' < PageSize => pc = "rows" /\ count < PageSize
      PROVE  SkipsOK'
  <2>1. \A n : Rank(n)' = Rank(n)
    BY <1>3 DEF Rank, Stored
  <2>2. Missed' \subseteq Missed
    BY <1>3, <2>1 DEF Missed, Stored
  <2>3. Cardinality(Missed') <= Cardinality(Missed)
          /\ Cardinality(Missed') \in Nat /\ Cardinality(Missed) \in Nat
    BY <2>2, Fewer DEF Missed
  <2> QED
    BY <1>0, <1>3, <2>3 DEF SkipsOK, SkipsBounded
<1>4. CASE WriteRow \/ WriteRowUnshared
  BY <1>3, <1>4, SeenStays DEF table, past, WriteRow, WriteRowUnshared, Front
<1>5. CASE EndPage
  <2>1. /\ UNCHANGED <<links, kept, removed, out, page>> /\ pc = "rows"
        /\ offset' = offset + count /\ pc' = IF count < PageSize THEN "done" ELSE "list"
    BY <1>5 DEF EndPage, table, past
  <2>2. Seen' = Seen /\ Exported' = Exported
    BY <2>1, SeenUnchanged
  <2>3. CASE pc' = "list"
    BY <1>3, <2>1, <2>2, <2>3 DEF Front
  <2>4. CASE count < PageSize
    <3>1. Seen = Exported
      BY <1>5 DEF EndPage, Seen, PageIds
    <3>2. kept \ Exported = Missed
      BY <2>1, <2>4, <3>1 DEF Missed
    <3> QED
      BY <2>1, <2>2, <2>4, <3>2 DEF SkipsOK, SkipsBounded
  <2> QED
    BY <2>1, <2>3, <2>4
<1>6. ASSUME NEW n \in Names, CreateLink(n) PROVE SkipsOK'
  <2>1. /\ UNCHANGED <<kept, removed, pc, offset, count, out, page>>
        /\ pc \in {"list", "rows"}
    BY <1>6 DEF CreateLink, reader, Exporting, ExportTypeOK
  <2>2. Seen' = Seen
    BY <2>1, SeenUnchanged
  <2>3. Missed' \subseteq Missed
    <3> SUFFICES ASSUME NEW i \in Missed', NEW m \in Stored(links'), links'[m] = i,
                        Rank(m)' < Front
                 PROVE  i \in Missed
      BY <2>1, <2>2 DEF Missed, Front
    <3>1. i \in kept \ Seen
      BY <2>1, <2>2 DEF Missed
    <3>2. i # nextId
      BY <3>1, Constants DEF IdsOK, ExportTypeOK, Stored
    <3>3. m \in Stored(links) /\ links[m] = i
      BY <1>6, <3>2, StoredCreated
    <3>4. Rank(m)' = Rank(m) + (IF n < m THEN 1 ELSE 0)
      BY <1>6, <3>3, StoredCreated
    <3>5. Rank(m) \in Nat /\ Front \in Nat
      BY <3>3, StoredFinite, RankType DEF Front, ExportTypeOK
    <3>6. Rank(m) < Front
      BY <3>4, <3>5
    <3> QED
      BY <3>1, <3>3, <3>6 DEF Missed
  <2>4. Cardinality(Missed') <= Cardinality(Missed)
          /\ Cardinality(Missed') \in Nat /\ Cardinality(Missed) \in Nat
    BY <2>3, Fewer DEF Missed
  <2> QED
    BY <1>0, <2>1, <2>4 DEF SkipsOK, SkipsBounded
<1>7. ASSUME NEW n \in Names, DeleteLink(n) PROVE SkipsOK'
  <2>1. /\ UNCHANGED <<pc, offset, count, out, page>>
        /\ kept' = kept \ {links[n]} /\ removed' = removed + 1
        /\ pc \in {"list", "rows"}
    BY <1>7 DEF DeleteLink, reader, Exporting, ExportTypeOK
  <2>2. Seen' = Seen
    BY <2>1, SeenUnchanged
  <2> DEFINE x == CHOOSE i : \E m \in Stored(links) : links[m] = i /\ Rank(m) = Front
  <2>3. Missed' \subseteq Missed \cup {x}
    <3> SUFFICES ASSUME NEW i \in Missed', NEW m \in Stored(links'), links'[m] = i,
                        Rank(m)' < Front
                 PROVE  i \in Missed \cup {x}
      BY <2>1, <2>2 DEF Missed, Front
    <3>1. i \in kept \ Seen
      BY <2>1, <2>2 DEF Missed
    <3>2. m \in Stored(links) /\ links[m] = i
      BY <1>7, StoredDeleted
    <3>3. Rank(m)' = Rank(m) - (IF n < m THEN 1 ELSE 0)
      BY <1>7, StoredDeleted
    <3>4. Rank(m) \in Nat /\ Front \in Nat
      BY <3>2, StoredFinite, RankType DEF Front, ExportTypeOK
    <3>5. Rank(m) < Front \/ Rank(m) = Front
      BY <3>3, <3>4
    <3>6. CASE Rank(m) < Front
      BY <3>1, <3>2, <3>6 DEF Missed
    <3>7. CASE Rank(m) = Front
      <4>1. \A k \in Stored(links) : Rank(k) = Front => k = m
        BY <3>2, <3>7, RankIs, StoredFinite, PlaceInjective
      <4>2. x = i
        BY <3>2, <3>7, <4>1
      <4> QED
        BY <4>2
    <3> QED
      BY <3>5, <3>6, <3>7
  <2> HIDE DEF x
  <2>4. IsFiniteSet(Missed) /\ Cardinality(Missed) \in Nat
    BY KeptFinite DEF Missed
  <2>5. Cardinality(Missed') <= Cardinality(Missed) + 1 /\ Cardinality(Missed') \in Nat
    BY <2>3, <2>4, OneMore
  <2> QED
    BY <1>0, <2>1, <2>4, <2>5 DEF SkipsOK, SkipsBounded
<1>8. ASSUME UNCHANGED <<links, kept, removed, reader>> PROVE SkipsOK'
  <2>1. Seen' = Seen /\ Exported' = Exported /\ Front' = Front /\ \A n : Rank(n)' = Rank(n)
    BY <1>8, SeenUnchanged DEF reader, Front, Rank, Stored
  <2>2. Missed' = Missed
    BY <1>8, <2>1 DEF Missed, reader, Stored
  <2> QED
    BY <1>8, <2>1, <2>2 DEF SkipsOK, SkipsBounded, reader
<1>9. ASSUME NEW n \in Names, NEW u \in Users, AddShare(n, u) \/ RemoveShare(n, u)
      PROVE  SkipsOK'
  BY <1>8, <1>9 DEF AddShare, RemoveShare
<1>10. CASE UNCHANGED vars
  BY <1>8, <1>10 DEF vars, table, past
<1> QED
  BY <1>1, <1>2, <1>4, <1>5, <1>6, <1>7, <1>9, <1>10 DEF Next, Export, Others

-----------------------------------------------------------------------------
(* Links that are repeated.                                                *)

LEMMA AheadFinite ==
  ASSUME ExportTypeOK
  PROVE  /\ IsFiniteSet(Ahead) /\ Cardinality(Ahead) \in Nat
         /\ Cardinality(Seen) \in Nat
         /\ IsFiniteSet(DOMAIN page) /\ Cardinality(DOMAIN page) \in Nat
         /\ Len(out) \in Nat /\ created \in Nat
<1>1. IsFiniteSet(Seen) /\ Ahead \in SUBSET Seen
  BY SeenTyped DEF Ahead
<1>2. DOMAIN page \in SUBSET Names
  BY DEF ExportTypeOK
<1>3. IsFiniteSet(Ahead) /\ IsFiniteSet(DOMAIN page)
  BY <1>1, <1>2, NamesAssumption, FS_Subset
<1>4. Len(out) \in Nat
  BY DEF ExportTypeOK
<1> QED
  BY <1>1, <1>3, <1>4, FS_CardinalityType DEF ExportTypeOK

LEMMA Disjoint ==
  ASSUME NEW S, IsFiniteSet(S), NEW A, NEW B, A \cup B \subseteq S, A \cap B = {}
  PROVE  /\ Cardinality(A) + Cardinality(B) <= Cardinality(S)
         /\ Cardinality(A) \in Nat /\ Cardinality(B) \in Nat
<1>1. A \in SUBSET S /\ B \in SUBSET S /\ A \cup B \in SUBSET S
  OBVIOUS
<1>2. IsFiniteSet(A) /\ IsFiniteSet(B)
  BY <1>1, FS_Subset
<1>3. Cardinality(A) \in Nat /\ Cardinality(B) \in Nat
  BY <1>2, FS_CardinalityType
<1>4. Cardinality(A \cap B) = 0
  <2>1. A \cap B = {}
    OBVIOUS
  <2> QED
    BY <2>1, FS_EmptySet, Zenon
<1>5. Cardinality(A \cup B) = Cardinality(A) + Cardinality(B)
  <2>1. Cardinality(A \cup B) = Cardinality(A) + Cardinality(B) - Cardinality(A \cap B)
    BY <1>2, FS_Union, Zenon
  <2> QED
    BY <1>3, <1>4, <2>1
<1>6. Cardinality(A \cup B) <= Cardinality(S)
  BY <1>1, FS_Subset
<1> QED
  BY <1>3, <1>5, <1>6

(* The rows of a page are as many as their ids.                            *)
LEMMA RowsAndIds ==
  ASSUME NEW P, IsFiniteSet(P), NEW f, \A m, n \in P : f[m] = f[n] => m = n
  PROVE  LET T == {f[n] : n \in P}
         IN  IsFiniteSet(T) /\ Cardinality(T) = Cardinality(P)
<1> DEFINE T == {f[n] : n \in P}
           g == [n \in P |-> f[n]]
<1>1. g \in Bijection(P, T)
  BY DEF Bijection, Injection, IsInjective, Surjection
<1>2. ExistsBijection(P, T)
  BY <1>1 DEF ExistsBijection
<1> HIDE DEF T
<1>3. IsFiniteSet(T) /\ Cardinality(T) = Cardinality(P)
  BY <1>2, FS_Bijection
<1> QED
  BY <1>3 DEF T

LEMMA RepeatsStep ==
  ExportTypeOK /\ IdsOK /\ PagesOK /\ RepeatsOK /\ [Next]_vars => RepeatsOK'
<1> SUFFICES ASSUME ExportTypeOK, IdsOK, PagesOK, RepeatsOK, [Next]_vars
             PROVE  RepeatsOK'
  OBVIOUS
<1>0. ExportTypeOK'
  BY TypeStep
<1>1. CASE ListPage
  <2>1. /\ UNCHANGED <<links, created, offset, out>> /\ pc = "list"
        /\ \A n : Rank(n)' = Rank(n)
    BY <1>1 DEF ListPage, table, past, Rank, Stored
  <2>2. Seen = Exported /\ Exported' = Exported /\ DOMAIN page = {}
    BY <1>1, <2>1, Listed DEF Seen, Exported
  <2>3. Front = offset /\ Front' = offset + count'
    <3>1. offset \in Nat
      BY DEF ExportTypeOK
    <3> QED
      BY <1>1, <2>1, <3>1, Listed DEF Front
  <2> DEFINE D == PageIds' \cap Exported
  <2>4. PageIds' = {links[n] : n \in PageNames}
    BY <1>1, Listed DEF PageIds
  <2>5. IsFiniteSet(PageIds') /\ Cardinality(PageIds') = Cardinality(PageNames)
    <3>1. \A m, n \in PageNames : links[m] = links[n] => m = n
      BY <1>1, Listed DEF IdsOK
    <3>2. IsFiniteSet(PageNames)
      BY PageWindow DEF ExportTypeOK
    <3> QED
      BY <2>4, <3>1, <3>2, RowsAndIds
  <2>6. \A n \in PageNames : Rank(n) >= offset /\ Rank(n) < offset + count' /\ n \in Stored(links)
    BY <1>1, Listed, PageWindow DEF ExportTypeOK
  <2>7. D \subseteq Ahead
    BY <2>2, <2>3, <2>4, <2>6 DEF Ahead
  <2>8. ASSUME NEW i \in Ahead' PROVE i \in Ahead /\ i \notin PageIds'
    <3>1. PICK n \in Stored(links) : links[n] = i /\ Rank(n) >= offset + count'
      BY <2>1, <2>3, <2>8 DEF Ahead, Stored
    <3>2. Rank(n) \in Nat /\ offset \in Nat /\ count' \in Nat
      BY <1>0, StoredFinite, RankType DEF ExportTypeOK
    <3>3. n \notin PageNames
      BY <2>6, <3>1, <3>2
    <3>4. i \notin PageIds'
      BY <2>4, <2>6, <3>1, <3>3 DEF IdsOK
    <3>5. i \in Seen
      BY <2>2, <2>8, <3>4 DEF Ahead, Seen
    <3>6. Rank(n) >= offset
      BY <3>1, <3>2
    <3> QED
      BY <2>3, <3>1, <3>4, <3>5, <3>6 DEF Ahead
  <2>9. Ahead' \cup D \subseteq Ahead /\ Ahead' \cap D = {}
    BY <2>7, <2>8
  <2>10. /\ Cardinality(Ahead') + Cardinality(D) <= Cardinality(Ahead)
         /\ Cardinality(Ahead') \in Nat /\ Cardinality(D) \in Nat
    <3> HIDE DEF D
    <3> QED
      BY <2>9, AheadFinite, Disjoint
  <2>11. Cardinality(Seen') = Cardinality(Exported) + Cardinality(PageNames) - Cardinality(D)
    <3>1. IsFiniteSet(Exported) /\ Seen' = PageIds' \cup Exported
      BY <2>2, SeenTyped DEF Seen
    <3>2. Cardinality(Exported) \in Nat /\ Cardinality(PageIds') \in Nat
      BY <2>5, <3>1, FS_CardinalityType
    <3>3. Cardinality(PageIds' \cup Exported)
            = Cardinality(PageIds') + Cardinality(Exported) - Cardinality(D)
      BY <2>5, <3>1, FS_Union
    <3> QED
      BY <2>5, <2>10, <3>1, <3>2, <3>3
  <2>12. Len(out) + Cardinality(Ahead) <= Cardinality(Exported) + created
    <3>1. Cardinality(DOMAIN page) = 0
      BY <2>2, FS_EmptySet
    <3> QED
      BY <2>2, <3>1, AheadFinite DEF RepeatsOK
  <2>13. DOMAIN page' = PageNames /\ Cardinality(PageNames) \in Nat
    BY <1>1, Listed, PageWindow, FS_CardinalityType DEF ExportTypeOK
  <2>14. Cardinality(Exported) \in Nat
    BY <2>2, AheadFinite
  <2> HIDE DEF D
  <2>15. Len(out) + Cardinality(PageNames) + Cardinality(Ahead') <= Cardinality(Seen') + created
    BY <2>10, <2>11, <2>12, <2>13, <2>14, AheadFinite
  <2> QED
    BY <2>1, <2>13, <2>15 DEF RepeatsOK
<1>2. CASE WriteRow \/ WriteRowUnshared
  <2>1. /\ Seen' = Seen /\ Len(out') = Len(out) + 1
        /\ UNCHANGED <<pc, offset, count, links, created>>
    BY <1>2, SeenStays DEF table, past
  <2>2. Ahead' = Ahead
    BY <2>1 DEF Ahead, Front, Rank, Stored
  <2>3. Cardinality(DOMAIN page') = Cardinality(DOMAIN page) - 1
    <3>1. PICK n \in DOMAIN page : DOMAIN page' = DOMAIN page \ {n}
      BY <1>2, SeenStays
    <3> QED
      BY <3>1, AheadFinite, FS_RemoveElement
  <2> QED
    BY <2>1, <2>2, <2>3, AheadFinite DEF RepeatsOK
<1>3. ASSUME UNCHANGED <<out, page, created>>, Ahead' \subseteq Ahead PROVE RepeatsOK'
  <2>1. Seen' = Seen
    BY <1>3, SeenUnchanged
  <2>2. Ahead' \in SUBSET Ahead
    BY <1>3
  <2>3. Cardinality(Ahead') <= Cardinality(Ahead) /\ Cardinality(Ahead') \in Nat
    BY <2>2, AheadFinite, FS_Subset, FS_CardinalityType
  <2> QED
    BY <1>3, <2>1, <2>3, AheadFinite DEF RepeatsOK
<1>4. ASSUME UNCHANGED <<out, page, links, created>>, Front' = Front PROVE RepeatsOK'
  <2>1. Ahead' = Ahead
    BY <1>4, SeenUnchanged DEF Ahead, Rank, Stored
  <2> QED
    BY <1>3, <1>4, <2>1
<1>5. CASE ListFails \/ EndPage
  BY <1>4, <1>5 DEF ListFails, EndPage, table, past, Front
<1>6. ASSUME NEW n \in Names, CreateLink(n) PROVE RepeatsOK'
  <2>1. UNCHANGED <<pc, offset, count, out, page>> /\ created' = created + 1
    BY <1>6 DEF CreateLink, reader
  <2>2. Seen' = Seen /\ Front' = Front
    BY <2>1, SeenUnchanged DEF Front
  <2> DEFINE x == CHOOSE i : \E m \in Stored(links) : links[m] = i /\ Rank(m) = Front - 1
  <2>3. Ahead' \subseteq Ahead \cup {x}
    <3> SUFFICES ASSUME NEW i \in Ahead', NEW m \in Stored(links'), links'[m] = i,
                        Rank(m)' >= Front
                 PROVE  i \in Ahead \cup {x}
      BY <2>2 DEF Ahead
    <3>1. i \in Seen
      BY <2>2 DEF Ahead
    <3>2. i # nextId
      BY <3>1, SeenTyped, Constants DEF IdsOK, ExportTypeOK
    <3>3. m \in Stored(links) /\ links[m] = i
      BY <1>6, <3>2, StoredCreated
    <3>4. Rank(m)' = Rank(m) + (IF n < m THEN 1 ELSE 0)
      BY <1>6, <3>3, StoredCreated
    <3>5. Rank(m) \in Nat /\ Front \in Nat
      BY <3>3, StoredFinite, RankType DEF Front, ExportTypeOK
    <3>6. Rank(m) >= Front \/ Rank(m) = Front - 1
      BY <3>4, <3>5
    <3>7. CASE Rank(m) >= Front
      BY <3>1, <3>3, <3>7 DEF Ahead
    <3>8. CASE Rank(m) = Front - 1
      <4>1. \A k \in Stored(links) : Rank(k) = Front - 1 => k = m
        BY <3>3, <3>8, RankIs, StoredFinite, PlaceInjective
      <4>2. x = i
        BY <3>3, <3>8, <4>1
      <4> QED
        BY <4>2
    <3> QED
      BY <3>6, <3>7, <3>8
  <2> HIDE DEF x
  <2>4. Cardinality(Ahead') <= Cardinality(Ahead) + 1 /\ Cardinality(Ahead') \in Nat
    BY <2>3, AheadFinite, OneMore
  <2> QED
    BY <2>1, <2>2, <2>4, AheadFinite DEF RepeatsOK
<1>7. ASSUME NEW n \in Names, DeleteLink(n) PROVE RepeatsOK'
  <2>1. UNCHANGED <<pc, offset, count, out, page, created>>
    BY <1>7 DEF DeleteLink, reader
  <2>2. Seen' = Seen /\ Front' = Front
    BY <2>1, SeenUnchanged DEF Front
  <2>3. Ahead' \subseteq Ahead
    <3> SUFFICES ASSUME NEW i \in Ahead', NEW m \in Stored(links'), links'[m] = i,
                        Rank(m)' >= Front
                 PROVE  i \in Ahead
      BY <2>2 DEF Ahead
    <3>1. i \in Seen /\ m \in Stored(links) /\ links[m] = i
      BY <1>7, <2>2, StoredDeleted DEF Ahead
    <3>2. Rank(m)' = Rank(m) - (IF n < m THEN 1 ELSE 0)
      BY <1>7, StoredDeleted
    <3>3. Rank(m) \in Nat /\ Front \in Nat
      BY <3>1, StoredFinite, RankType DEF Front, ExportTypeOK
    <3>4. Rank(m) >= Front
      BY <3>2, <3>3
    <3> QED
      BY <3>1, <3>4 DEF Ahead
  <2> QED
    BY <1>3, <2>1, <2>3
<1>8. ASSUME NEW n \in Names, NEW u \in Users, AddShare(n, u) \/ RemoveShare(n, u)
      PROVE  RepeatsOK'
  BY <1>4, <1>8 DEF AddShare, RemoveShare, reader, Front
<1>9. CASE UNCHANGED vars
  BY <1>4, <1>9 DEF vars, table, reader, past, Front
<1> QED
  BY <1>1, <1>2, <1>5, <1>6, <1>7, <1>8, <1>9 DEF Next, Export, Others

(* A row of the page adds at most one id to those exported.                *)
LEMMA RepeatsFollow == ExportTypeOK /\ RepeatsOK => RepeatsBounded
<1> SUFFICES ASSUME ExportTypeOK, RepeatsOK
             PROVE  RepeatsBounded
  OBVIOUS
<1>1. IsFiniteSet(PageIds) /\ Cardinality(PageIds) <= Cardinality(DOMAIN page)
  <2> DEFINE g == [n \in DOMAIN page |-> page[n]]
  <2>1. g \in Surjection(DOMAIN page, PageIds)
    BY DEF Surjection, PageIds
  <2> HIDE DEF g
  <2> QED
    BY <2>1, AheadFinite, FS_Surjection
<1>2. Exported \in SUBSET Seen /\ IsFiniteSet(Seen) /\ Seen = Exported \cup PageIds
  BY SeenTyped DEF Seen
<1>3. IsFiniteSet(Exported) /\ IsFiniteSet(Exported \cap PageIds)
  BY <1>1, <1>2, FS_Subset, FS_Intersection
<1>4. Cardinality(Seen) = Cardinality(Exported) + Cardinality(PageIds)
                            - Cardinality(Exported \cap PageIds)
  BY <1>1, <1>2, <1>3, FS_Union
<1>5. /\ Cardinality(Exported) \in Nat /\ Cardinality(PageIds) \in Nat
      /\ Cardinality(Exported \cap PageIds) \in Nat
  BY <1>1, <1>3, FS_CardinalityType
<1> QED
  BY <1>1, <1>4, <1>5, AheadFinite DEF RepeatsOK, RepeatsBounded

-----------------------------------------------------------------------------
(* The order of the names.                                                 *)

Upto(m) == {n \in Stored(links) : n <= m}

(* Up to a name there are those before it and itself.                      *)
LEMMA UptoPlace ==
  ASSUME NEW S \in SUBSET Nat, IsFiniteSet(S), NEW n \in S, NEW T, T = {m \in S : m <= n}
  PROVE  Cardinality(T) = Place(S, n) + 1
<1>1. \A m \in S : m <= n <=> m < n \/ m = n
  OBVIOUS
<1>2. T = Below(S, n) \cup {n}
  BY <1>1, Zenon DEF Below
<1>3. n \notin Below(S, n)
  BY DEF Below
<1> QED
  BY <1>2, <1>3, BelowFinite, FS_AddElement DEF Place

LEMMA UptoStored ==
  ASSUME NEW m \in Stored(links)
  PROVE  Cardinality(Upto(m)) = Rank(m) + 1
BY UptoPlace, RankIs, StoredFinite DEF Upto

LEMMA UptoFinite ==
  ASSUME NEW m
  PROVE  IsFiniteSet(Upto(m)) /\ Cardinality(Upto(m)) \in Nat
<1>1. Upto(m) \in SUBSET Stored(links)
  BY DEF Upto
<1> QED
  BY <1>1, StoredFinite, FS_Subset, FS_CardinalityType

LEMMA OrderStep == ExportTypeOK /\ PagesOK /\ OrderOK /\ [Next]_vars => OrderOK'
<1> SUFFICES ASSUME ExportTypeOK, PagesOK, OrderOK, [Next]_vars, created' = 0
             PROVE  /\ OrderedWithoutCreations'
                    /\ \A m \in Reached', n \in DOMAIN page' : m < n
                    /\ \A m \in Reached' \cup DOMAIN page' : Cardinality(Upto(m)') <= Front'
  BY DEF OrderOK, Upto
<1> DEFINE Goal == /\ OrderedWithoutCreations'
                   /\ \A m \in Reached', n \in DOMAIN page' : m < n
                   /\ \A m \in Reached' \cup DOMAIN page' : Cardinality(Upto(m)') <= Front'
<1>0. ASSUME created = 0
      PROVE  /\ OrderedWithoutCreations
             /\ \A j, k \in 1 .. Len(out) : j < k => out[j].name < out[k].name
             /\ \A m \in Reached, n \in DOMAIN page : m < n
             /\ \A m \in Reached \cup DOMAIN page : Cardinality(Upto(m)) <= Front
  BY <1>0 DEF OrderOK, Upto, OrderedWithoutCreations
<1>1. CASE ListPage
  <2>1. /\ UNCHANGED <<links, created, offset, out>> /\ pc = "list"
        /\ Reached' = Reached /\ OrderedWithoutCreations' = OrderedWithoutCreations
        /\ \A m : Upto(m)' = Upto(m)
    BY <1>1 DEF ListPage, table, past, Upto, Stored, Reached, OrderedWithoutCreations
  <2>2. offset \in Nat /\ count' \in Nat /\ Front = offset /\ Front' = offset + count'
    <3>1. offset \in Nat /\ count' \in Nat
      BY <1>1, Listed, Constants DEF ExportTypeOK
    <3> QED
      BY <1>1, <2>1, <3>1, Listed DEF Front
  <2>3. ASSUME NEW n \in PageNames
        PROVE  /\ n \in Stored(links) /\ n \in Nat /\ Rank(n) \in Nat
               /\ Rank(n) >= offset /\ Rank(n) < offset + count'
               /\ Cardinality(Upto(n)) = Rank(n) + 1
    BY <1>1, Listed, PageWindow, StoredFinite, RankType, UptoStored DEF ExportTypeOK
  <2>4. ASSUME NEW m \in Reached, NEW n \in DOMAIN page' PROVE m < n
    <3>1. n \in PageNames
      BY <1>1, Listed
    <3>2. m \in Nat
      <4>1. \A k \in 1 .. Len(out) : out[k] \in Element
        BY DEF ExportTypeOK
      <4> QED
        BY <4>1, NamesAssumption DEF Reached, Element
    <3>3. ASSUME n <= m PROVE FALSE
      <4>0. \A k \in Nat : k <= n => k <= m
        BY <2>3, <3>1, <3>2, <3>3
      <4>1. Upto(n) \in SUBSET Upto(m)
        BY <4>0, StoredFinite DEF Upto
      <4>2. Cardinality(Upto(n)) <= Cardinality(Upto(m))
        BY <4>1, UptoFinite, FS_Subset
      <4>3. Cardinality(Upto(m)) <= offset
        BY <1>0, <2>1, <2>2
      <4> QED
        BY <2>2, <2>3, <3>1, <4>2, <4>3, UptoFinite
    <3> QED
      BY <2>3, <3>1, <3>2, <3>3
  <2>5. ASSUME NEW m \in Reached PROVE Cardinality(Upto(m)) <= offset + count'
    BY <1>0, <2>1, <2>2, UptoFinite
  <2>6. ASSUME NEW m \in DOMAIN page' PROVE Cardinality(Upto(m)) <= offset + count'
    <3>1. m \in PageNames
      BY <1>1, Listed
    <3> QED
      BY <2>2, <2>3, <3>1
  <2> QED
    BY <1>0, <2>1, <2>2, <2>4, <2>5, <2>6
<1>2. ASSUME NEW n \in Names, NEW whom \in SUBSET Users, First(n), WriteElement(n, whom)
      PROVE  Goal
  <2>1. UNCHANGED <<pc, offset, count, links, created>>
    BY <1>2 DEF WriteElement, table, past
  <2>2. Front' = Front /\ \A m : Upto(m)' = Upto(m)
    BY <2>1 DEF Front, Upto, Stored
  <2>3. /\ n \in DOMAIN page /\ DOMAIN page' = DOMAIN page \ {n}
        /\ Reached' = Reached \cup {n}
    BY <1>2, Written
  <2>4. \A m \in DOMAIN page' : n < m
    <3>1. \A m \in DOMAIN page : n <= m /\ m \in Nat /\ n \in Nat
      BY <1>2, NamesAssumption DEF First, ExportTypeOK
    <3> QED
      BY <2>3, <3>1
  <2>5. \A m \in Reached', k \in DOMAIN page' : m < k
    BY <1>0, <2>1, <2>3, <2>4
  <2>6. Reached' \cup DOMAIN page' = Reached \cup DOMAIN page
    BY <2>3
  <2>7. ASSUME NEW j \in 1 .. Len(out'), NEW k \in 1 .. Len(out'), j < k
        PROVE  out'[j].name < out'[k].name
    <3>1. Len(out') = Len(out) + 1 /\ Len(out) \in Nat
      BY <1>2, Written
    <3>2. j \in 1 .. Len(out) /\ out'[j] = out[j]
      <4>1. j \in 1 .. Len(out)
        BY <2>7, <3>1
      <4> QED
        BY <1>2, <4>1, Written
    <3>3. CASE k \in 1 .. Len(out)
      <4>1. out'[k] = out[k]
        BY <1>2, <3>3, Written
      <4> QED
        BY <1>0, <2>1, <2>7, <3>2, <3>3, <4>1
    <3>4. CASE k = Len(out) + 1
      <4>1. out'[k] = [name |-> n, id |-> page[n], shares |-> whom]
        BY <1>2, <3>4, Written
      <4>2. out'[k].name = n
        BY <4>1
      <4>3. out[j].name \in Reached
        BY <3>2 DEF Reached
      <4> QED
        BY <1>0, <2>1, <2>3, <3>2, <4>2, <4>3
    <3> QED
      BY <3>1, <3>3, <3>4
  <2> QED
    BY <1>0, <2>1, <2>2, <2>5, <2>6, <2>7 DEF OrderedWithoutCreations
<1>3. CASE WriteRow
  <2>1. PICK n \in Names : First(n) /\ WriteElement(n, SharesOf(n))
    BY <1>3 DEF WriteRow
  <2>2. SharesOf(n) \in SUBSET Users
    BY <2>1 DEF First, SharesOf, ExportTypeOK
  <2> QED
    BY <1>2, <2>1, <2>2
<1>4. CASE WriteRowUnshared
  BY <1>2, <1>4 DEF WriteRowUnshared
<1>5. ASSUME UNCHANGED <<out, page, created>>, Front' = Front,
             Stored(links') \subseteq Stored(links)
      PROVE  Goal
  <2>1. Reached' = Reached /\ OrderedWithoutCreations' = OrderedWithoutCreations
    BY <1>5, SeenUnchanged DEF OrderedWithoutCreations
  <2>2. ASSUME NEW m PROVE Cardinality(Upto(m)') <= Cardinality(Upto(m))
                             /\ Cardinality(Upto(m)') \in Nat
    <3>1. Upto(m)' \in SUBSET Upto(m)
      BY <1>5 DEF Upto
    <3> QED
      BY <3>1, UptoFinite, FS_Subset, FS_CardinalityType
  <2>3. Front \in Nat
    BY DEF Front, ExportTypeOK
  <2>4. \A m \in Reached \cup DOMAIN page : Cardinality(Upto(m)') <= Front
    <3>1. \A m \in Reached \cup DOMAIN page : Cardinality(Upto(m)) <= Front
      BY <1>0, <1>5
    <3> QED
      BY <2>2, <2>3, <3>1, UptoFinite
  <2> QED
    BY <1>0, <1>5, <2>1, <2>4
<1>6. CASE ListFails \/ EndPage
  BY <1>5, <1>6 DEF ListFails, EndPage, table, past, Front
<1>7. ASSUME NEW n \in Names, CreateLink(n) PROVE FALSE
  BY <1>7 DEF CreateLink, ExportTypeOK
<1>8. ASSUME NEW n \in Names, DeleteLink(n) PROVE Goal
  <2>1. UNCHANGED <<pc, offset, count, out, page, created>>
    BY <1>8 DEF DeleteLink, reader
  <2>2. Stored(links') \subseteq Stored(links)
    BY <1>8, StoredDeleted
  <2> QED
    BY <1>5, <2>1, <2>2 DEF Front
<1>9. ASSUME NEW n \in Names, NEW u \in Users, AddShare(n, u) \/ RemoveShare(n, u)
      PROVE  Goal
  BY <1>5, <1>9 DEF AddShare, RemoveShare, reader, Front
<1>10. CASE UNCHANGED vars
  BY <1>5, <1>10 DEF vars, table, reader, past, Front
<1> QED
  BY <1>1, <1>3, <1>4, <1>6, <1>7, <1>8, <1>9, <1>10 DEF Next, Export, Others

-----------------------------------------------------------------------------
(* The invariant holds.                                                    *)

LEMMA InitInv == Init => ExportInv
<1> SUFFICES ASSUME Init
             PROVE  ExportInv
  OBVIOUS
<1>1. PICK S \in SUBSET Names :
        /\ links = [n \in Names |-> IF n \in S THEN Cardinality({m \in S : m <= n})
                                    ELSE Absent]
        /\ nextId = Cardinality(S) + 1
        /\ shares = [i \in Ids |-> IF i <= Cardinality(S) THEN Users ELSE {}]
  BY DEF Init
<1>2. S \in SUBSET Nat /\ IsFiniteSet(S) /\ Cardinality(S) \in Nat /\ Cardinality(S) <= MaxId
  <2>1. IsFiniteSet(S) /\ Cardinality(S) <= Cardinality(Names)
    BY NamesAssumption, FS_Subset
  <2>2. Cardinality(S) \in Nat /\ Cardinality(Names) \in Nat
    BY <2>1, NamesAssumption, FS_CardinalityType
  <2> QED
    BY <2>1, <2>2, NamesAssumption, BoundsAssumption
<1>3. ASSUME NEW n \in S
      PROVE  links[n] = Place(S, n) + 1 /\ Place(S, n) \in 0 .. Cardinality(S) - 1
  <2> DEFINE T == {m \in S : m <= n}
  <2>1. links[n] = Cardinality(T)
    BY <1>1
  <2>2. Cardinality(T) = Place(S, n) + 1
    <3>1. T = {m \in S : m <= n}
      OBVIOUS
    <3> HIDE DEF T
    <3> QED
      BY <1>2, <3>1, UptoPlace
  <2>3. Place(S, n) \in 0 .. Cardinality(S) - 1
    BY <1>2, PlaceInRange
  <2> HIDE DEF T
  <2> QED
    BY <2>1, <2>2, <2>3
<1>4. \A n \in S : links[n] \in Ids /\ links[n] < nextId /\ links[n] # Absent
  <2>1. nextId = Cardinality(S) + 1
    BY <1>1
  <2> QED
    BY <1>2, <1>3, <2>1, Constants DEF Ids
<1>5. Stored(links) = S
  BY <1>1, <1>4 DEF Stored
<1>6. \A m, n \in S : links[m] = links[n] => m = n
  <2> SUFFICES ASSUME NEW m \in S, NEW n \in S, links[m] = links[n]
               PROVE  m = n
    OBVIOUS
  <2>1. Place(S, m) = Place(S, n)
    BY <1>3
  <2> QED
    BY <1>2, <2>1, PlaceInjective
<1>7. /\ pc = "list" /\ offset = 0 /\ count = 0 /\ page = << >> /\ out = << >>
      /\ kept = {links[n] : n \in Stored(links)}
      /\ created = 0 /\ removed = 0 /\ reshared = 0
      /\ granted = Pairs(shares) /\ held = Pairs(shares)
  BY DEF Init
<1>8. DOMAIN page = {} /\ page = [n \in DOMAIN page |-> page[n]]
  BY <1>7
<1>9. Exported = {} /\ PageIds = {} /\ Reached = {} /\ Len(out) = 0
  BY <1>7, <1>8 DEF Exported, PageIds, Reached
<1>10. Seen = {} /\ Front = 0
  BY <1>7, <1>9 DEF Seen, Front
<1>11. ExportTypeOK
  <2>1. links \in [Names -> Ids \cup {Absent}]
    BY <1>1, <1>4
  <2>2. shares \in [Ids -> SUBSET Users]
    BY <1>1
  <2>3. nextId \in 1 .. MaxId + 1
    BY <1>1, <1>2, Constants
  <2>4. out \in Seq(Element)
    BY <1>7
  <2>5. kept \subseteq Ids
    BY <1>4, <1>5, <1>7
  <2> QED
    BY <1>7, <1>8, <2>1, <2>2, <2>3, <2>4, <2>5 DEF ExportTypeOK
<1>12. IdsOK
  BY <1>4, <1>5, <1>6, <1>7, <1>10 DEF IdsOK
<1>13. PagesOK
  BY <1>7, <1>8, Constants DEF PagesOK
<1>14. SharesOK /\ SharesOfTheLink
  BY <1>7, <1>9 DEF SharesOK, SharesOfTheLink
<1>15. SkipsOK
  <2>1. \A n \in Stored(links) : Rank(n) \in Nat
    BY StoredFinite, RankType
  <2>2. Missed = {}
    BY <1>7, <1>10, <2>1 DEF Missed
  <2>3. Cardinality(Missed) = 0
    BY <2>2, FS_EmptySet
  <2> QED
    BY <1>7, <2>3 DEF SkipsOK, SkipsBounded
<1>16. RepeatsOK
  <2>1. Ahead = {}
    BY <1>10 DEF Ahead
  <2>2. Cardinality(Ahead) = 0 /\ Cardinality(Seen) = 0 /\ Cardinality(DOMAIN page) = 0
    BY <1>8, <1>10, <2>1, FS_EmptySet
  <2> QED
    BY <1>7, <1>9, <2>2 DEF RepeatsOK
<1>17. OrderOK
  BY <1>8, <1>9 DEF OrderOK, OrderedWithoutCreations
<1> QED
  BY <1>11, <1>12, <1>13, <1>14, <1>15, <1>16, <1>17 DEF ExportInv

LEMMA NextInv == ExportInv /\ [Next]_vars => ExportInv'
<1> SUFFICES ASSUME ExportInv, [Next]_vars
             PROVE  ExportInv'
  OBVIOUS
<1>1. /\ ExportTypeOK /\ IdsOK /\ PagesOK /\ SharesOK /\ SharesOfTheLink
      /\ SkipsOK /\ RepeatsOK /\ OrderOK
  BY DEF ExportInv
<1>2. ExportTypeOK' /\ IdsOK' /\ PagesOK'
  BY <1>1, TypeStep, IdsStep, PagesStep
<1>3. SharesOK' /\ SharesOfTheLink'
  BY <1>1, SharesStep
<1>4. SkipsOK' /\ RepeatsOK' /\ OrderOK'
  BY <1>1, SkipsStep, RepeatsStep, OrderStep
<1> QED
  BY <1>2, <1>3, <1>4 DEF ExportInv

LEMMA Invariance == Spec => []ExportInv
<1>1. Init => ExportInv
  BY InitInv
<1>2. ExportInv /\ [Next]_vars => ExportInv'
  BY NextInv
<1> QED
  BY <1>1, <1>2, PTL DEF Spec

-----------------------------------------------------------------------------
(* The theorems.                                                           *)

(* The export of handleExport (internal/server/export.go) keeps its types  *)
(* and pages of at most pageSize rows whatever the other requests do, and  *)
(* no two names ever have one id, nor is the id of a link that was         *)
(* exported given to another (AUTOINCREMENT).                              *)
THEOREM TypeCorrect == Spec => [](ExportTypeOK /\ IdsOK /\ PagesOK)
<1>1. ExportInv => ExportTypeOK /\ IdsOK /\ PagesOK
  BY DEF ExportInv
<1> QED
  BY <1>1, Invariance, PTL

(* An export that ends well misses, of the links that were there from its  *)
(* beginning to its end, no more than there were deletions between its     *)
(* pages: for any page size, table, and interleaving of other requests.    *)
THEOREM SkipsAlwaysBounded == Spec => []SkipsBounded
<1>1. ExportInv => SkipsBounded
  BY DEF ExportInv, SkipsOK
<1> QED
  BY <1>1, Invariance, PTL

(* And it writes no more links twice than there were links created between *)
(* its pages.                                                              *)
THEOREM RepeatsAlwaysBounded == Spec => []RepeatsBounded
<1>1. ExportInv => RepeatsBounded
  BY RepeatsFollow DEF ExportInv
<1> QED
  BY <1>1, Invariance, PTL

(* While no link is created, the names it writes are in strictly           *)
(* increasing order, whatever is deleted: none twice.                      *)
THEOREM AlwaysInOrder == Spec => []OrderedWithoutCreations
<1>1. ExportInv /\ OrderOK => OrderedWithoutCreations
  BY DEF OrderOK, OrderedWithoutCreations
<1>2. ExportInv => OrderedWithoutCreations
  BY <1>1 DEF ExportInv
<1> QED
  BY <1>2, Invariance, PTL

(* The shares it writes with a link are shares of that link, however long  *)
(* after the row they are read and whatever has the name by then, and all  *)
(* of those that were there all along unless GetShares failed.             *)
THEOREM SharesAlwaysOfTheLink == Spec => []SharesOfTheLink
<1>1. ExportInv => SharesOfTheLink
  BY DEF ExportInv
<1> QED
  BY <1>1, Invariance, PTL
=============================================================================
