------------------------------- MODULE LinkTable -------------------------------
(***************************************************************************)
(* The links table and the statements of internal/db/link_repo.go that     *)
(* change it, as operators on a table value.  A table maps every           *)
(* name_lower to its row: the UNIQUE index idx_links_name_lower makes that *)
(* a function.  Row ids start at 1; NoLink, with id 0, stands for no row.  *)
(*                                                                         *)
(* Texts (names, URLs, owners) are abstract values.  A text is already     *)
(* trimmed and lower-cased, as the handlers make it.  Columns that no      *)
(* handler decides on (name, created_at, last_used_at, use_count) are left *)
(* out.                                                                    *)
(***************************************************************************)
EXTENDS Naturals, FiniteSets

CONSTANTS
  Names,     (* link names, lower-cased                                    *)
  Urls,      (* texts that links.ValidateTarget accepts                    *)
  Users,     (* e-mail addresses                                           *)
  MaxId      (* bound on the ids the table hands out, for model checking   *)

ASSUME NamesAssumption == "" \notin Names
ASSUME MaxIdAssumption == MaxId \in Nat

Types == {"simple", "advanced", "alias"}
Text == Names \cup Urls \cup {""}
Ids == 1 .. MaxId

Row == [id : Ids, target : Text, owner : Users, type : Types,
        aliasTarget : Text, requireAuth : BOOLEAN]

NoLink == [id |-> 0, target |-> "", owner |-> "", type |-> "simple",
           aliasTarget |-> "", requireAuth |-> FALSE]

Table == [Names -> Row \cup {NoLink}]

Present(row) == row.id # 0

EmptyTable == [n \in Names |-> NoLink]

(* SELECT ... WHERE name_lower = ?: any text may be looked up.             *)
RowOf(t, text) == IF text \in Names THEN t[text] ELSE NoLink

HasId(t, i) == \E n \in Names : t[n].id = i

NameOf(t, i) == CHOOSE n \in Names : t[n].id = i

(* SELECT COUNT( * ) FROM links WHERE alias_target = ?: any row type.      *)
CountAliases(t, text) ==
  Cardinality({n \in Names : Present(t[n]) /\ t[n].aliasTarget = text})

(* UPDATE links SET target, link_type, alias_target = '', require_auth     *)
(* WHERE id = ?: the owner is not touched.                                 *)
UpdateRow(t, i, target, type, auth) ==
  [n \in Names |->
     IF t[n].id = i
       THEN [t[n] EXCEPT !.target = target, !.type = type,
                         !.aliasTarget = "", !.requireAuth = auth]
       ELSE t[n]]

(* The limit test inside the SetAlias transaction.                         *)
AliasLimitExceeded(t, i, text, max) ==
  CountAliases(t, text) + CountAliases(t, NameOf(t, i)) + 1 > max

(* The alias conversion without the reparenting of the link's own aliases. *)
ConvertToAlias(t, i, text, auth) ==
  [n \in Names |->
     IF t[n].id = i
       THEN [t[n] EXCEPT !.target = "", !.type = "alias",
                         !.aliasTarget = text, !.requireAuth = auth]
       ELSE t[n]]

(* SetAlias: reparent every row that points at this link, then convert it. *)
SetAlias(t, i, text, auth) ==
  LET own == NameOf(t, i)
      reparented == [n \in Names |->
                       IF Present(t[n]) /\ t[n].aliasTarget = own
                         THEN [t[n] EXCEPT !.aliasTarget = text]
                         ELSE t[n]]
  IN  ConvertToAlias(reparented, i, text, auth)

(* DELETE FROM links WHERE id = ?                                          *)
DeleteRow(t, i) == [n \in Names |-> IF t[n].id = i THEN NoLink ELSE t[n]]

(* UPDATE links SET owner_email = ? WHERE id = ?                           *)
TransferOwnership(t, i, owner) ==
  [n \in Names |->
     IF t[n].id = i THEN [t[n] EXCEPT !.owner = owner] ELSE t[n]]

(* UPDATE links SET owner_email = ? WHERE owner_email = ?                  *)
ReassignLinks(t, from, to) ==
  [n \in Names |->
     IF Present(t[n]) /\ t[n].owner = from
       THEN [t[n] EXCEPT !.owner = to] ELSE t[n]]
=============================================================================
