--------------------------------- MODULE Export ---------------------------------
(***************************************************************************)
(* GET /api/export (internal/server/export.go) reading the links table     *)
(* page by page with OFFSET, and the shares of each link with a query of   *)
(* its own, while other requests create, delete, share and unshare links.  *)
(* Nothing holds the table still between two of these statements.          *)
(*                                                                         *)
(* Names are numbers and < is the order of name_lower.  A link is its id;  *)
(* its other columns are copied from the row and left out here.            *)
(***************************************************************************)
EXTENDS Naturals, Sequences, FiniteSets

CONSTANTS
  Names,     (* the names links may have                                   *)
  Users,     (* the addresses links are shared with                        *)
  MaxId,     (* bound: ids the other requests may use up                   *)
  MaxReshares, (* bound: shares they may add or remove                     *)
  PageSize,  (* the const pageSize of handleExport, 500                    *)
  Cascade,   (* deleting a link deletes its link_shares rows               *)
  Faults     (* statements of the export may fail                          *)

ASSUME NamesAssumption == Names \subseteq Nat /\ IsFiniteSet(Names)
ASSUME PageAssumption == PageSize \in Nat \ {0}
ASSUME BoundsAssumption ==
  MaxId \in Nat /\ Cardinality(Names) <= MaxId /\ MaxReshares \in Nat
ASSUME BackendAssumption == Cascade \in BOOLEAN /\ Faults \in BOOLEAN

Ids == 1 .. MaxId
Absent == 0

VARIABLES
  links,   (* the links table: the id under each name, or Absent           *)
  shares,  (* link_shares: the addresses each id is shared with            *)
  nextId,  (* AUTOINCREMENT                                                *)
  pc,      (* where handleExport is: list, rows, done or failed            *)
  offset,  (* its OFFSET                                                   *)
  count,   (* len(linkPage)                                                *)
  page,    (* the rows of linkPage not yet written: name -> id             *)
  out      (* the elements written to the response                         *)

(* What happened since the export began, for the properties.               *)
VARIABLES
  kept,     (* the ids present all along                                   *)
  created,  (* how many links were created                                 *)
  removed,  (* how many were deleted                                       *)
  reshared, (* how many shares were added or removed                       *)
  granted,  (* the shares that existed at some time                        *)
  held,     (* the shares that existed all along                           *)
  unread    (* the elements whose GetShares failed                         *)

table == <<links, shares, nextId>>
reader == <<pc, offset, count, page, out, unread>>
past == <<kept, created, removed, reshared, granted, held>>
vars == <<table, reader, past>>

Stored(t) == {n \in Names : t[n] # Absent}
Pairs(s) == {pair \in Ids \X Users : pair[2] \in s[pair[1]]}

(* Any set of names: which id is under which name does not matter to a     *)
(* reader that only compares ids, so they get the first ids in order.      *)
Init ==
  /\ \E S \in SUBSET Names :
       /\ links = [n \in Names |-> IF n \in S THEN Cardinality({m \in S : m <= n})
                                   ELSE Absent]
       /\ nextId = Cardinality(S) + 1
       /\ shares = [i \in Ids |-> IF i <= Cardinality(S) THEN Users ELSE {}]
  /\ pc = "list" /\ offset = 0 /\ count = 0 /\ page = << >> /\ out = << >>
  /\ kept = {links[n] : n \in Stored(links)}
  /\ created = 0 /\ removed = 0 /\ reshared = 0
  /\ granted = Pairs(shares) /\ held = Pairs(shares)
  /\ unread = {}

-----------------------------------------------------------------------------
(* The export.                                                             *)

Rank(n) == Cardinality({m \in Stored(links) : m < n})

(* SELECT ... ORDER BY name_lower LIMIT PageSize OFFSET offset.            *)
PageNames == {n \in Stored(links) : Rank(n) \in offset .. offset + PageSize - 1}
Page == [n \in PageNames |-> links[n]]

(* An empty page that is asked for again.                                  *)
ListPageAgain ==
  /\ pc = "list"
  /\ page' = Page
  /\ count' = Cardinality(PageNames)
  /\ pc' = IF PageNames = {} THEN "list" ELSE "rows"
  /\ UNCHANGED <<offset, out, unread, table, past>>

ListPage ==
  /\ pc = "list"
  /\ page' = Page
  /\ count' = Cardinality(PageNames)
  /\ pc' = IF PageNames = {} THEN "done" ELSE "rows"
  /\ UNCHANGED <<offset, out, unread, table, past>>

(* List fails: the response ends in the middle of the JSON document.       *)
ListFails ==
  /\ Faults
  /\ pc = "list"
  /\ pc' = "failed"
  /\ UNCHANGED <<offset, count, page, out, unread, table, past>>

First(n) == n \in DOMAIN page /\ \A m \in DOMAIN page : n <= m

(* Reading the shares of whatever link has the name now.                   *)
SharesByName(n) == IF links[n] = Absent THEN {} ELSE shares[links[n]]

SharesOf(n) == shares[page[n]]

WriteElement(n, whom) ==
  /\ out' = Append(out, [name |-> n, id |-> page[n], shares |-> whom])
  /\ page' = [m \in DOMAIN page \ {n} |-> page[m]]
  /\ UNCHANGED <<pc, offset, count, table, past>>

WriteRow ==
  /\ pc = "rows"
  /\ \E n \in Names :
       First(n) /\ WriteElement(n, SharesOf(n))
  /\ UNCHANGED unread

(* GetShares fails: logged, and the link is exported as shared with nobody.*)
WriteRowUnshared ==
  /\ Faults
  /\ pc = "rows"
  /\ \E n \in Names : First(n) /\ WriteElement(n, {})
  /\ unread' = unread \cup {Len(out) + 1}

(* Stopping at a full page, or one row too far.                            *)
EndPageEarly ==
  /\ pc = "rows" /\ page = << >>
  /\ offset' = offset + count
  /\ pc' = IF count <= PageSize THEN "done" ELSE "list"
  /\ UNCHANGED <<count, page, out, unread, table, past>>

EndPageOverlapping ==
  /\ pc = "rows" /\ page = << >>
  /\ offset' = offset + count - 1
  /\ pc' = IF count < PageSize THEN "done" ELSE "list"
  /\ UNCHANGED <<count, page, out, unread, table, past>>

EndPage ==
  /\ pc = "rows" /\ page = << >>
  /\ offset' = offset + count
  /\ pc' = IF count < PageSize THEN "done" ELSE "list"
  /\ UNCHANGED <<count, page, out, unread, table, past>>

Export == ListPage \/ ListFails \/ WriteRow \/ WriteRowUnshared \/ EndPage

-----------------------------------------------------------------------------
(* The other requests, until the export is answered.                       *)

Exporting == pc \notin {"done", "failed"}

CreateLink(n) ==
  /\ Exporting
  /\ links[n] = Absent /\ nextId <= MaxId
  /\ links' = [links EXCEPT ![n] = nextId]
  /\ nextId' = nextId + 1
  /\ created' = created + 1
  /\ UNCHANGED <<shares, reader, kept, removed, reshared, granted, held>>

DeleteLink(n) ==
  /\ Exporting
  /\ links[n] # Absent
  /\ links' = [links EXCEPT ![n] = Absent]
  /\ shares' = IF Cascade THEN [shares EXCEPT ![links[n]] = {}] ELSE shares
  /\ removed' = removed + 1
  /\ kept' = kept \ {links[n]}
  /\ held' = held \cap Pairs(shares')
  /\ UNCHANGED <<nextId, reader, created, reshared, granted>>

AddShare(n, u) ==
  /\ Exporting
  /\ links[n] # Absent /\ u \notin shares[links[n]]
  /\ reshared < MaxReshares /\ reshared' = reshared + 1
  /\ shares' = [shares EXCEPT ![links[n]] = @ \cup {u}]
  /\ granted' = granted \cup {<<links[n], u>>}
  /\ UNCHANGED <<links, nextId, reader, kept, created, removed, held>>

RemoveShare(n, u) ==
  /\ Exporting
  /\ links[n] # Absent /\ u \in shares[links[n]]
  /\ reshared < MaxReshares /\ reshared' = reshared + 1
  /\ shares' = [shares EXCEPT ![links[n]] = @ \ {u}]
  /\ held' = held \ {<<links[n], u>>}
  /\ UNCHANGED <<links, nextId, reader, kept, created, removed, granted>>

Others ==
  \E n \in Names :
    \/ CreateLink(n) \/ DeleteLink(n)
    \/ \E u \in Users : AddShare(n, u) \/ RemoveShare(n, u)

Next == Export \/ Others

Spec == Init /\ [][Next]_vars

(* handleExport keeps running; nothing it calls waits for a request, and   *)
(* nothing obliges a statement to fail.                                    *)
FairSpec == Spec /\ WF_vars(ListPage \/ WriteRow \/ EndPage)

-----------------------------------------------------------------------------
(* Properties.                                                             *)

Exported == {out[k].id : k \in 1 .. Len(out)}

(* Paging by OFFSET over a table that changes: a deletion moves the rows   *)
(* behind it up, past the reader.  An export that ends well misses no more *)
(* links that were there all along than links were deleted meanwhile, so   *)
(* none if nothing was deleted, at a page boundary as elsewhere.           *)
SkipsBounded ==
  pc = "done" => Cardinality(kept \ Exported) <= removed

(* A creation moves rows down, in front of the reader again: at most one   *)
(* link is exported twice for each link created.                           *)
RepeatsBounded == Len(out) <= Cardinality(Exported) + created

(* Without creations the names come in strictly increasing order, whatever *)
(* is deleted: an import of the document meets every name once.            *)
OrderedWithoutCreations ==
  created = 0 => \A j, k \in 1 .. Len(out) : j < k => out[j].name < out[k].name

(* The shares written with a link are those of that very link, although    *)
(* they are read later than its row and the name may have been deleted and *)
(* taken again: each existed for this id during the export, and each that  *)
(* existed all along is there unless reading them failed.                  *)
SharesOfTheLink ==
  \A k \in 1 .. Len(out) :
    /\ \A u \in out[k].shares : <<out[k].id, u>> \in granted
    /\ k \notin unread =>
         \A u \in Users : <<out[k].id, u>> \in held => u \in out[k].shares

(* Once no more links are created the export ends, whatever is deleted     *)
(* under its offset: every full page moves the offset on, a page that the  *)
(* deletions have emptied or shortened is the last.  The premise is the    *)
(* code's (here MaxId sees to it): creations that stay a page ahead of the *)
(* reader keep it going for as long as they do.                            *)
ExportEnds == <>[][created' = created]_vars => <>(pc \in {"done", "failed"})
=============================================================================
