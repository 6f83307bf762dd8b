---------------------------- MODULE LinkTable_proofs ----------------------------
(***************************************************************************)
(* Lemmas about the statements of LinkTable: each returns a table, and     *)
(* which row carries which id changes in none of them but DeleteRow.       *)
(***************************************************************************)
EXTENDS LinkTable, TLAPS

(* NoLink has the id that no row has.                                      *)
LEMMA NoLinkId == NoLink.id = 0 /\ 0 \notin Ids
BY MaxIdAssumption DEF NoLink, Ids

(* NoLink is the only row without an id.                                   *)
LEMMA RowIds ==
  ASSUME NEW row \in Row \cup {NoLink}
  PROVE  /\ row.id \in Nat
         /\ row.id # 0 => row \in Row /\ row.id \in Ids
         /\ row.id = 0 => row = NoLink
<1>1. CASE row \in Row
  <2>1. row.id \in 1 .. MaxId
    BY <1>1 DEF Row, Ids
  <2> QED
    BY <1>1, <2>1, MaxIdAssumption DEF Ids
<1>2. CASE row = NoLink
  <2>1. row.id = 0
    BY <1>2 DEF NoLink
  <2> QED
    BY <1>2, <2>1
<1> QED
  BY <1>1, <1>2

(* The empty table.                                                        *)
LEMMA EmptyTableType == EmptyTable \in Table
BY DEF EmptyTable, Table

(* A lookup returns a row of the table or none.                            *)
LEMMA RowOfType ==
  ASSUME NEW t \in Table, NEW text
  PROVE  /\ RowOf(t, text) \in Row \cup {NoLink}
         /\ Present(RowOf(t, text)) => text \in Names /\ RowOf(t, text) = t[text]
BY DEF RowOf, Table, Present, NoLink

(* UPDATE by id changes the columns of that row only.                      *)
LEMMA UpdateRowType ==
  ASSUME NEW t \in Table, NEW i \in Ids, NEW target \in Text, NEW type \in Types,
         NEW auth \in BOOLEAN
  PROVE  LET after == UpdateRow(t, i, target, type, auth)
         IN  /\ after \in Table
             /\ \A n \in Names : after[n].id = t[n].id
             /\ \A n \in Names : after[n].owner = t[n].owner
             /\ \A n \in Names : after[n] # t[n] => t[n].id = i
<1> DEFINE after == UpdateRow(t, i, target, type, auth)
<1>1. ASSUME NEW n \in Names
      PROVE  /\ after[n] \in Row \cup {NoLink}
             /\ after[n].id = t[n].id
             /\ after[n].owner = t[n].owner
             /\ after[n] # t[n] => t[n].id = i
  <2>1. t[n] \in Row \cup {NoLink}
    BY DEF Table
  <2>2. CASE t[n].id = i
    <3>1. t[n] \in Row
      BY <2>1, <2>2, RowIds, MaxIdAssumption DEF Ids
    <3> QED
      BY <2>2, <3>1 DEF UpdateRow, Row, Text
  <2>3. CASE t[n].id # i
    BY <2>1, <2>3 DEF UpdateRow
  <2> QED
    BY <2>2, <2>3
<1>2. after = [n \in Names |-> after[n]]
  BY DEF UpdateRow
<1> QED
  BY <1>1, <1>2 DEF Table

(* A conversion to an alias changes the converted row, and in other rows   *)
(* only the alias target, where it named the converted link.               *)
LEMMA SetAliasType ==
  ASSUME NEW t \in Table, NEW i \in Ids, NEW text \in Text, NEW auth \in BOOLEAN
  PROVE  LET after == SetAlias(t, i, text, auth)
         IN  /\ after \in Table
             /\ \A n \in Names : after[n].id = t[n].id
             /\ \A n \in Names : after[n].owner = t[n].owner
             /\ \A n \in Names :
                  after[n] # t[n] =>
                    \/ t[n].id = i
                    \/ /\ t[n].aliasTarget = NameOf(t, i)
                       /\ after[n] = [t[n] EXCEPT !.aliasTarget = text]
<1> DEFINE after == SetAlias(t, i, text, auth)
           mid == [n \in Names |->
                     IF Present(t[n]) /\ t[n].aliasTarget = NameOf(t, i)
                       THEN [t[n] EXCEPT !.aliasTarget = text]
                       ELSE t[n]]
<1>0. after = ConvertToAlias(mid, i, text, auth)
  BY DEF SetAlias
<1>1. ASSUME NEW n \in Names
      PROVE  /\ mid[n] \in Row \cup {NoLink}
             /\ mid[n].id = t[n].id
             /\ mid[n].owner = t[n].owner
             /\ mid[n] # t[n] => /\ t[n].aliasTarget = NameOf(t, i)
                                 /\ mid[n] = [t[n] EXCEPT !.aliasTarget = text]
  <2>1. t[n] \in Row \cup {NoLink}
    BY DEF Table
  <2>2. CASE Present(t[n]) /\ t[n].aliasTarget = NameOf(t, i)
    <3>1. t[n] \in Row
      BY <2>1, <2>2, RowIds DEF Present
    <3>2. mid[n] = [t[n] EXCEPT !.aliasTarget = text]
      BY <2>2
    <3> HIDE DEF mid
    <3> QED
      BY <2>2, <3>1, <3>2 DEF Row
  <2>3. CASE ~(Present(t[n]) /\ t[n].aliasTarget = NameOf(t, i))
    BY <2>1, <2>3
  <2> QED
    BY <2>2, <2>3
<1> HIDE DEF mid
<1>2. ASSUME NEW n \in Names
      PROVE  /\ after[n] \in Row \cup {NoLink}
             /\ after[n].id = mid[n].id
             /\ after[n].owner = mid[n].owner
             /\ after[n] # mid[n] => mid[n].id = i
  <2>0. mid[n] \in Row \cup {NoLink}
    BY <1>1
  <2>1. after[n] = IF mid[n].id = i
                     THEN [mid[n] EXCEPT !.target = "", !.type = "alias",
                                         !.aliasTarget = text, !.requireAuth = auth]
                     ELSE mid[n]
    BY <1>0 DEF ConvertToAlias
  <2> HIDE DEF after
  <2>2. CASE mid[n].id = i
    <3>1. mid[n].id # 0
      BY <2>2, MaxIdAssumption DEF Ids
    <3>2. mid[n] \in Row
      BY <2>0, <3>1, RowIds
    <3> QED
      BY <2>1, <2>2, <3>2 DEF Row, Text, Types
  <2>3. CASE mid[n].id # i
    BY <2>0, <2>1, <2>3
  <2> QED
    BY <2>2, <2>3
<1>3. after = [n \in Names |-> after[n]]
  BY <1>0 DEF ConvertToAlias
<1> HIDE DEF after
<1>4. after \in Table
  BY <1>2, <1>3 DEF Table
<1>5. ASSUME NEW n \in Names, after[n] # t[n], t[n].id # i
      PROVE  /\ t[n].aliasTarget = NameOf(t, i)
             /\ after[n] = [t[n] EXCEPT !.aliasTarget = text]
  <2>1. after[n] = mid[n]
    BY <1>1, <1>2, <1>5
  <2> QED
    BY <1>1, <1>5, <2>1
<1>6. \A n \in Names : after[n].id = t[n].id /\ after[n].owner = t[n].owner
  BY <1>1, <1>2
<1> QED
  BY <1>4, <1>5, <1>6 DEF after

(* A deletion leaves every other row as it is.                             *)
LEMMA DeleteRowType ==
  ASSUME NEW t \in Table, NEW i \in Ids
  PROVE  LET after == DeleteRow(t, i)
         IN  /\ after \in Table
             /\ \A n \in Names :
                  after[n] # t[n] => t[n].id = i /\ after[n] = NoLink
BY DEF DeleteRow, Table

(* A transfer changes the owner of one row and nothing else.               *)
LEMMA TransferType ==
  ASSUME NEW t \in Table, NEW i \in Ids, NEW owner \in Users
  PROVE  LET after == TransferOwnership(t, i, owner)
         IN  /\ after \in Table
             /\ \A n \in Names : after[n].id = t[n].id
             /\ \A n \in Names :
                  after[n] # t[n] => t[n].id = i /\ after[n].owner = owner
<1> DEFINE after == TransferOwnership(t, i, owner)
<1>1. ASSUME NEW n \in Names
      PROVE  /\ after[n] \in Row \cup {NoLink}
             /\ after[n].id = t[n].id
             /\ after[n] # t[n] => t[n].id = i /\ after[n].owner = owner
  <2>1. t[n] \in Row \cup {NoLink}
    BY DEF Table
  <2>2. CASE t[n].id = i
    <3>1. t[n] \in Row
      BY <2>1, <2>2, RowIds, MaxIdAssumption DEF Ids
    <3> QED
      BY <2>2, <3>1 DEF TransferOwnership, Row
  <2>3. CASE t[n].id # i
    BY <2>1, <2>3 DEF TransferOwnership
  <2> QED
    BY <2>2, <2>3
<1>2. after = [n \in Names |-> after[n]]
  BY DEF TransferOwnership
<1> QED
  BY <1>1, <1>2 DEF Table

(* A reassignment changes the owner of rows of the old owner only.         *)
LEMMA ReassignType ==
  ASSUME NEW t \in Table, NEW from, NEW to \in Users
  PROVE  LET after == ReassignLinks(t, from, to)
         IN  /\ after \in Table
             /\ \A n \in Names : after[n].id = t[n].id
             /\ \A n \in Names :
                  after[n] # t[n] => t[n].owner = from /\ after[n].owner = to
<1> DEFINE after == ReassignLinks(t, from, to)
<1>1. ASSUME NEW n \in Names
      PROVE  /\ after[n] \in Row \cup {NoLink}
             /\ after[n].id = t[n].id
             /\ after[n] # t[n] => t[n].owner = from /\ after[n].owner = to
  <2>1. t[n] \in Row \cup {NoLink}
    BY DEF Table
  <2>2. CASE Present(t[n]) /\ t[n].owner = from
    <3>1. t[n] \in Row
      BY <2>1, <2>2, RowIds DEF Present
    <3> QED
      BY <2>2, <3>1 DEF ReassignLinks, Row
  <2>3. CASE ~(Present(t[n]) /\ t[n].owner = from)
    BY <2>1, <2>3 DEF ReassignLinks
  <2> QED
    BY <2>2, <2>3
<1>2. after = [n \in Names |-> after[n]]
  BY DEF ReassignLinks
<1> QED
  BY <1>1, <1>2 DEF Table

(* An update writes its columns into the row with the id.                  *)
LEMMA UpdateRowRows ==
  ASSUME NEW t \in Table, NEW i \in Ids, NEW target \in Text, NEW type \in Types,
         NEW auth \in BOOLEAN, NEW n \in Names
  PROVE  LET after == UpdateRow(t, i, target, type, auth)
         IN  /\ t[n].id = i => /\ after[n].target = target /\ after[n].type = type
                               /\ after[n].requireAuth = auth
             /\ t[n].id # i => after[n] = t[n]
<1> DEFINE after == UpdateRow(t, i, target, type, auth)
<1>1. after[n] = IF t[n].id = i
                   THEN [t[n] EXCEPT !.target = target, !.type = type,
                                     !.aliasTarget = "", !.requireAuth = auth]
                   ELSE t[n]
  BY DEF UpdateRow
<1>2. t[n].id = i => t[n] \in Row
  BY RowIds, MaxIdAssumption DEF Table, Ids
<1> HIDE DEF after
<1>3. CASE t[n].id = i
  BY <1>1, <1>2, <1>3 DEF Row, after
<1>4. CASE t[n].id # i
  BY <1>1, <1>4 DEF after
<1> QED
  BY <1>3, <1>4

(* A conversion makes an alias of the row with the id, and of the others   *)
(* changes no more than where those that pointed at it point.              *)
LEMMA SetAliasRows ==
  ASSUME NEW t \in Table, NEW i \in Ids, NEW text \in Text, NEW auth \in BOOLEAN,
         NEW n \in Names
  PROVE  LET after == SetAlias(t, i, text, auth)
         IN  /\ t[n].id = i => /\ after[n].type = "alias" /\ after[n].aliasTarget = text
                               /\ after[n].requireAuth = auth
             /\ t[n].id # i =>
                  /\ after[n].type = t[n].type
                  /\ after[n].aliasTarget =
                       IF Present(t[n]) /\ t[n].aliasTarget = NameOf(t, i)
                         THEN text ELSE t[n].aliasTarget
<1> DEFINE after == SetAlias(t, i, text, auth)
           mid == [m \in Names |->
                     IF Present(t[m]) /\ t[m].aliasTarget = NameOf(t, i)
                       THEN [t[m] EXCEPT !.aliasTarget = text]
                       ELSE t[m]]
<1>0. after = ConvertToAlias(mid, i, text, auth)
  BY DEF SetAlias
<1>1. /\ mid[n] \in Row \cup {NoLink} /\ mid[n].id = t[n].id /\ mid[n].type = t[n].type
      /\ mid[n].aliasTarget = IF Present(t[n]) /\ t[n].aliasTarget = NameOf(t, i)
                                THEN text ELSE t[n].aliasTarget
  <2>1. t[n] \in Row \cup {NoLink}
    BY DEF Table
  <2>2. CASE Present(t[n]) /\ t[n].aliasTarget = NameOf(t, i)
    <3>1. t[n] \in Row
      BY <2>1, <2>2, RowIds DEF Present
    <3>2. mid[n] = [t[n] EXCEPT !.aliasTarget = text]
      BY <2>2
    <3> HIDE DEF mid
    <3> QED
      BY <2>2, <3>1, <3>2 DEF Row
  <2>3. CASE ~(Present(t[n]) /\ t[n].aliasTarget = NameOf(t, i))
    BY <2>1, <2>3
  <2> QED
    BY <2>2, <2>3
<1>2. after[n] = IF mid[n].id = i
                   THEN [mid[n] EXCEPT !.target = "", !.type = "alias",
                                       !.aliasTarget = text, !.requireAuth = auth]
                   ELSE mid[n]
  BY <1>0 DEF ConvertToAlias
<1> HIDE DEF mid, after
<1>3. CASE t[n].id = i
  <2>1. mid[n] \in Row
    BY <1>1, <1>3, RowIds, MaxIdAssumption DEF Ids
  <2> QED
    BY <1>1, <1>2, <1>3, <2>1 DEF Row, after
<1>4. CASE t[n].id # i
  BY <1>1, <1>2, <1>4 DEF after
<1> QED
  BY <1>3, <1>4

(* A transfer and a reassignment leave the other columns as they are.      *)
LEMMA OwnerRows ==
  ASSUME NEW t \in Table, NEW i \in Ids, NEW from, NEW to \in Users, NEW n \in Names
  PROVE  /\ TransferOwnership(t, i, to)[n].type = t[n].type
         /\ TransferOwnership(t, i, to)[n].aliasTarget = t[n].aliasTarget
         /\ ReassignLinks(t, from, to)[n].type = t[n].type
         /\ ReassignLinks(t, from, to)[n].aliasTarget = t[n].aliasTarget
<1> DEFINE row == [t[n] EXCEPT !.owner = to]
<1>1. t[n] \in Row \cup {NoLink}
  BY DEF Table
<1>2. t[n] \in Row => row.type = t[n].type /\ row.aliasTarget = t[n].aliasTarget
  BY DEF Row
<1>3. t[n].id = i \/ Present(t[n]) => t[n] \in Row
  BY <1>1, RowIds, MaxIdAssumption DEF Present, Ids
<1> HIDE DEF row
<1>4. TransferOwnership(t, i, to)[n] = IF t[n].id = i THEN row ELSE t[n]
  BY DEF TransferOwnership, row
<1>5. ReassignLinks(t, from, to)[n]
        = IF Present(t[n]) /\ t[n].owner = from THEN row ELSE t[n]
  BY DEF ReassignLinks, row
<1> QED
  BY <1>2, <1>3, <1>4, <1>5

(* NameOf names the row with the id, when there is one.                    *)
LEMMA NameOfId ==
  ASSUME NEW t \in Table, NEW i, HasId(t, i)
  PROVE  NameOf(t, i) \in Names /\ t[NameOf(t, i)].id = i
BY DEF HasId, NameOf
=============================================================================
