------------------------------ MODULE LinkService ------------------------------
(***************************************************************************)
(* The link handlers of internal/server (api.go, ui.go, link_actions.go,   *)
(* import.go, reassign_*.go) running concurrently over one links table and *)
(* one CachingLinkRepo (internal/db/cache.go).                             *)
(*                                                                         *)
(* A process is a request goroutine.  Between two steps of a process any   *)
(* other may run: a step is one database statement (or the SetAlias        *)
(* transaction; the SQLite pool has a single connection) or one operation  *)
(* on the cache, with the local computation that follows it.               *)
(*                                                                         *)
(* op of a request        handler                                          *)
(*   read                 handleAPIGetLink, and the GET pages              *)
(*   create               handleAPICreateLink, handleNew -> doCreateLink   *)
(*   addAlias             handleCreateAlias                                *)
(*   update               handleAPIUpdateLink, handleDetailsPost           *)
(*   delete, uiDelete     handleAPIDeleteLink, handleDetailsDelete         *)
(*   transfer             handleAPITransferLink, handleDetailsTransfer     *)
(*   share, unshare       handleDetailsShare, handleDetailsUnshare         *)
(*   reassign             handle(API)ReassignLinks                         *)
(*   import               one element of doImport                          *)
(* Fields: name, the link; alias, the alias_target (for addAlias the new   *)
(* alias's name); to, the new owner, the address shared with, the target   *)
(* of a reassignment, an imported share or ""; from, the owner reassigned  *)
(* from or the imported owner or ""; mask, the fields a PATCH carries (a   *)
(* form and an import element carry them all).                             *)
(***************************************************************************)
EXTENDS LinkTable

CONSTANTS
  Procs,           (* request goroutines                                   *)
  Requests,        (* the requests that may arrive                         *)
  Admins,          (* users whose identity has IsAdmin                     *)
  MaxAliases,      (* cfg.MaxAliasesPerLink                                *)
  AdvancedTargets, (* targets CheckTemplateTargetDomain accepts; {} when   *)
                   (* advanced links are disabled                          *)
  Cascade,         (* the backend enforces link_shares' foreign key:       *)
                   (* PostgreSQL does, SQLite as opened here does not      *)
  Faults           (* requests may be cut off by a cancelled context or a  *)
                   (* failing database                                     *)

Ops == {"read", "create", "addAlias", "update", "delete", "uiDelete",
        "transfer", "share", "unshare", "reassign", "import"}
EditOps == {"update", "delete", "uiDelete", "transfer", "share", "unshare"}
Fields == {"type", "target", "alias", "auth"}

Request == [op : Ops, user : Users, name : Names, type : Types, target : Text,
            alias : Text, auth : BOOLEAN, to : Users \cup {""},
            from : Users \cup {""}, mask : SUBSET Fields]

ASSUME RequestsAssumption == Requests \subseteq Request
ASSUME ConfigAssumption ==
  MaxAliases \in Nat /\ Cascade \in BOOLEAN /\ Faults \in BOOLEAN

VARIABLES
  links,    (* the links table                                             *)
  shares,   (* link_shares: the addresses each link id is shared with      *)
  nextId,   (* AUTOINCREMENT: the next id, never one handed out before     *)
  cache,    (* the LRU cache: name_lower -> row, NoLink when absent        *)
  proc      (* each request goroutine: its stage and its local variables   *)

vars == <<links, shares, nextId, cache, proc>>

NoRequest == [op |-> "read", user |-> "", name |-> "", type |-> "simple",
              target |-> "", alias |-> "", auth |-> FALSE, to |-> "",
              from |-> "", mask |-> {}]

(* Locals: snap, the link the handler found; goal, the text it is looking  *)
(* up or will alias to; got, the row its last statement returned; filling, *)
(* a cache miss has read got and not yet added it to the cache.            *)
Idle == [pc |-> "idle", req |-> NoRequest, snap |-> NoLink, got |-> NoLink,
         goal |-> "", filling |-> FALSE]

Init ==
  /\ links = EmptyTable
  /\ shares = [i \in Ids |-> {}]
  /\ nextId = 1
  /\ cache = EmptyTable
  /\ proc = [p \in Procs |-> Idle]

Become(p, state) == proc' = [proc EXCEPT ![p] = state]
GoTo(p, pc) == Become(p, [proc[p] EXCEPT !.pc = pc])
Finish(p) == Become(p, Idle)

Stage(p) == proc[p].pc
Req(p) == proc[p].req
Snap(p) == proc[p].snap

-----------------------------------------------------------------------------
(* Arrival.  A request that its handler rejects without reading anything   *)
(* shared has no effect and is not modelled.                               *)

AcceptsType(type, target) == type = "advanced" => target \in AdvancedTargets

(* Validation that lets an empty new owner through.                        *)
AcceptableUnchecked(r) ==
  CASE r.op = "create" ->
         IF r.type = "alias" THEN r.alias # ""
         ELSE r.target \in Urls /\ AcceptsType(r.type, r.target)
    [] r.op = "import" ->
         IF r.type = "alias" THEN r.alias # "" ELSE r.target \in Urls
    [] r.op = "reassign" -> r.from # "" /\ r.to # "" /\ r.from # r.to
    [] r.op = "addAlias" -> r.alias \in Names
    [] OTHER -> TRUE

Acceptable(r) ==
  CASE r.op = "create" ->
         IF r.type = "alias" THEN r.alias # ""
         ELSE r.target \in Urls /\ AcceptsType(r.type, r.target)
    [] r.op = "import" ->
         IF r.type = "alias" THEN r.alias # "" ELSE r.target \in Urls
    [] r.op \in {"transfer", "share"} -> r.to # ""
    [] r.op = "reassign" -> r.from # "" /\ r.to # "" /\ r.from # r.to
    [] r.op = "addAlias" -> r.alias \in Names
    [] OTHER -> TRUE

FirstStage(r) ==
  CASE r.op = "create" -> IF r.type = "alias" THEN "resolve" ELSE "write"
    [] r.op = "reassign" -> "write"
    [] OTHER -> "find"

Started(r) ==
  [pc |-> FirstStage(r), req |-> r, snap |-> NoLink, got |-> NoLink,
   goal |-> IF r.op = "addAlias" THEN r.name ELSE r.alias, filling |-> FALSE]

Begin(p, r) ==
  /\ Stage(p) = "idle"
  /\ Acceptable(r)
  /\ r.op \in {"reassign", "import"} => r.user \in Admins
  /\ Become(p, Started(r))
  /\ UNCHANGED <<links, shares, nextId, cache>>

(* The context is cancelled or a statement fails: the handler answers an   *)
(* error.  At "cache" the statement took effect but its result was lost.   *)
Abort(p) ==
  /\ Faults
  /\ Stage(p) # "idle"
  /\ Finish(p)
  /\ UNCHANGED <<links, shares, nextId, cache>>

-----------------------------------------------------------------------------
(* CachingLinkRepo.GetByName, called to find the link (find), to look at   *)
(* an alias target (resolve) and to verify its canonical link (canon).     *)

Key(s) == IF s.pc = "find" THEN s.req.name ELSE s.goal

(* The link a request is about has been found.                             *)
FoundLink(s, row) ==
  LET after == [s EXCEPT !.filling = FALSE, !.got = NoLink, !.snap = row] IN
  CASE s.req.op = "read" -> Idle
    [] s.req.op = "addAlias" ->
         IF row.type = "alias" THEN Idle ELSE [after EXCEPT !.pc = "count"]
    [] s.req.op = "import" -> [after EXCEPT !.pc = "write"]
    [] s.req.op \in EditOps -> [after EXCEPT !.pc = "access"]

(* Following aliases until something else is found, however many there are.*)
FollowAllAliases(s, row) ==
  LET after == [s EXCEPT !.filling = FALSE, !.got = NoLink] IN
  IF row.type = "alias"
    THEN [after EXCEPT !.goal = row.aliasTarget, !.pc = "canon"]
    ELSE [after EXCEPT !.pc = IF s.req.op = "create" THEN "count" ELSE "write"]

(* resolveAliasTarget follows one alias and only checks that what it finds *)
(* exists; selfNameLower is "" for a create.                               *)
FoundTarget(s, row) ==
  LET after == [s EXCEPT !.filling = FALSE, !.got = NoLink] IN
  IF s.pc = "resolve" /\ row.type = "alias"
    THEN IF s.req.op = "update" /\ row.aliasTarget = s.req.name THEN Idle
         ELSE [after EXCEPT !.goal = row.aliasTarget, !.pc = "canon"]
    ELSE [after EXCEPT !.pc = IF s.req.op = "create" THEN "count" ELSE "write"]

(* Where a handler goes with the row a lookup returned.                    *)
Found(s, row) ==
  IF s.pc = "find" THEN FoundLink(s, row) ELSE FoundTarget(s, row)

Looking(s) == s.pc \in {"find", "resolve", "canon"} /\ ~s.filling

LookupHit(p) ==
  /\ Looking(proc[p])
  /\ Present(RowOf(cache, Key(proc[p])))
  /\ Become(p, Found(proc[p], RowOf(cache, Key(proc[p]))))
  /\ UNCHANGED <<links, shares, nextId, cache>>

(* A miss reads the database ...                                           *)
LookupRead(p) ==
  /\ Looking(proc[p])
  /\ ~Present(RowOf(cache, Key(proc[p])))
  /\ Present(RowOf(links, Key(proc[p])))
  /\ Become(p, [proc[p] EXCEPT !.got = RowOf(links, Key(proc[p])), !.filling = TRUE])
  /\ UNCHANGED <<links, shares, nextId, cache>>

(* ... and adds what it read, whatever happened in between.                *)
LookupFill(p) ==
  /\ proc[p].filling
  /\ cache' = [cache EXCEPT ![Key(proc[p])] = proc[p].got]
  /\ Become(p, Found(proc[p], proc[p].got))
  /\ UNCHANGED <<links, shares, nextId>>

(* ErrNotFound is not cached.  An import goes on to create the link.       *)
LookupMissing(p) ==
  /\ Looking(proc[p])
  /\ ~Present(RowOf(cache, Key(proc[p])))
  /\ ~Present(RowOf(links, Key(proc[p])))
  /\ IF Req(p).op = "import" THEN GoTo(p, "write") ELSE Finish(p)
  /\ UNCHANGED <<links, shares, nextId, cache>>

(* LRU pressure or the TTL drops an entry.                                 *)
Evict(n) ==
  /\ Present(cache[n])
  /\ cache' = [cache EXCEPT ![n] = NoLink]
  /\ UNCHANGED <<links, shares, nextId, proc>>

-----------------------------------------------------------------------------
(* Access, and what is decided from the link found: the field mask.        *)

IsOwner(s) == s.req.user \in Admins \/ s.req.user = s.snap.owner

(* canEditBasic, then isSharedWith; delete and transfer are for owners.    *)
MayProceed(s) ==
  \/ IsOwner(s)
  \/ /\ s.req.op \in {"update", "uiDelete", "share", "unshare"}
     /\ s.req.user \in shares[s.snap.id]

In(s, field) == s.req.op = "import" \/ field \in s.req.mask
NewType(s) == IF In(s, "type") THEN s.req.type ELSE s.snap.type
NewTarget(s) == IF In(s, "target") THEN s.req.target ELSE s.snap.target

(* A checkbox form's reading of require_auth, absent meaning false.        *)
NewAuthUnmasked(s) == s.req.auth

NewAuth(s) == IF In(s, "auth") THEN s.req.auth ELSE s.snap.requireAuth
NewAlias(s) == IF In(s, "alias") THEN s.req.alias ELSE s.snap.aliasTarget

AfterAccess(s) ==
  LET proceed == [s EXCEPT !.pc = "write"] IN
  IF ~MayProceed(s) THEN Idle ELSE
  CASE s.req.op = "update" /\ NewType(s) = "alias" ->
         IF NewAlias(s) \in {"", s.req.name} THEN Idle
         ELSE [s EXCEPT !.goal = NewAlias(s), !.pc = "resolve"]
    [] s.req.op = "update" /\ NewType(s) # "alias" ->
         IF /\ In(s, "target") => s.req.target \in Urls
            /\ AcceptsType(NewType(s), NewTarget(s))
         THEN proceed ELSE Idle
    [] s.req.op = "transfer" ->
         IF s.req.to = s.snap.owner THEN Idle ELSE proceed
    [] OTHER -> proceed

Access(p) ==
  /\ Stage(p) = "access"
  /\ Become(p, AfterAccess(proc[p]))
  /\ UNCHANGED <<links, shares, nextId, cache>>

(* A limit that lets one alias too many through.                           *)
CheckLimitTooLate(p) ==
  /\ Stage(p) = "count"
  /\ IF CountAliases(links, proc[p].goal) > MaxAliases
       THEN Finish(p) ELSE GoTo(p, "write")
  /\ UNCHANGED <<links, shares, nextId, cache>>

(* The limit read by doCreateLink and handleCreateAlias before inserting.  *)
CheckLimit(p) ==
  /\ Stage(p) = "count"
  /\ IF CountAliases(links, proc[p].goal) >= MaxAliases
       THEN Finish(p) ELSE GoTo(p, "write")
  /\ UNCHANGED <<links, shares, nextId, cache>>

-----------------------------------------------------------------------------
(* The database write of each handler.                                     *)

Inserts(s) ==
  \/ s.req.op \in {"create", "addAlias"}
  \/ s.req.op = "import" /\ ~Present(s.snap)

Rewrites(s) ==
  \/ s.req.op = "update"
  \/ s.req.op = "import" /\ Present(s.snap)

NewName(s) == IF s.req.op = "addAlias" THEN s.req.alias ELSE s.req.name

(* doCreateLink and doImport pass target and alias_target on, whatever the *)
(* type; only an alias's target is replaced by the one it resolved to.     *)
NewRow(s) ==
  LET r == s.req
      row == [id |-> nextId, target |-> r.target, owner |-> r.user,
              type |-> r.type, aliasTarget |-> s.goal,
              requireAuth |-> r.auth]
  IN  CASE r.op = "addAlias" ->
             [row EXCEPT !.target = "", !.type = "alias", !.requireAuth = FALSE]
        [] r.op = "import" /\ r.from # "" -> [row EXCEPT !.owner = r.from]
        [] OTHER -> row

InsertFails(s) == Present(links[NewName(s)]) \/ nextId > MaxId

(* Ids as SQLite hands them out without AUTOINCREMENT: one more than the   *)
(* largest id in the table.                                                *)
NextRowId(t) ==
  CHOOSE i \in 1 .. MaxId + 1 :
    (\A n \in Names : t[n].id < i) /\ (i = 1 \/ HasId(t, i - 1))

InsertReusingIds(p) ==
  LET row == [NewRow(proc[p]) EXCEPT !.id = NextRowId(links)] IN
  /\ Stage(p) = "write"
  /\ Inserts(proc[p])
  /\ \/ /\ Present(links[NewName(proc[p])]) \/ row.id > MaxId
        /\ Finish(p)
        /\ UNCHANGED <<links, nextId>>
     \/ /\ ~Present(links[NewName(proc[p])]) /\ row.id <= MaxId
        /\ links' = [links EXCEPT ![NewName(proc[p])] = row]
        /\ nextId' = NextRowId(links')
        /\ Become(p, [proc[p] EXCEPT !.pc = "cache", !.got = row])
  /\ UNCHANGED <<shares, cache>>

(* INSERT INTO links: fails on the UNIQUE index (and at the bound MaxId).  *)
Insert(p) ==
  /\ Stage(p) = "write"
  /\ Inserts(proc[p])
  /\ \/ /\ InsertFails(proc[p])
        /\ Finish(p)
        /\ UNCHANGED <<links, nextId>>
     \/ /\ ~InsertFails(proc[p])
        /\ links' = [links EXCEPT ![NewName(proc[p])] = NewRow(proc[p])]
        /\ nextId' = nextId + 1
        /\ Become(p, [proc[p] EXCEPT !.pc = "cache", !.got = NewRow(proc[p])])
  /\ UNCHANGED <<shares, cache>>

(* A statement on a row that is gone: ErrNotFound.                         *)
RowGone(p) ==
  /\ Stage(p) = "write"
  /\ Rewrites(proc[p]) \/ Req(p).op \in {"delete", "uiDelete", "transfer"}
  /\ ~HasId(links, Snap(p).id)
  /\ Finish(p)
  /\ UNCHANGED <<links, shares, nextId, cache>>

(* An update that writes the whole record it read, and by name.            *)
UpdateWholeRow(p) ==
  /\ Stage(p) = "write"
  /\ Rewrites(proc[p]) /\ NewType(proc[p]) # "alias"
  /\ HasId(links, Snap(p).id)
  /\ links' = [UpdateRow(links, Snap(p).id, NewTarget(proc[p]), NewType(proc[p]), NewAuth(proc[p]))
                 EXCEPT ![Req(p).name].owner = Snap(p).owner]
  /\ GoTo(p, "cache")
  /\ UNCHANGED <<shares, nextId, cache>>

(* An update addressed to the name instead of the id.                      *)
UpdateByName(p) ==
  /\ Stage(p) = "write"
  /\ Rewrites(proc[p]) /\ NewType(proc[p]) # "alias"
  /\ Present(links[Req(p).name])
  /\ links' = UpdateRow(links, links[Req(p).name].id, NewTarget(proc[p]), NewType(proc[p]),
                        NewAuth(proc[p]))
  /\ GoTo(p, "cache")
  /\ UNCHANGED <<shares, nextId, cache>>

Update(p) ==
  /\ Stage(p) = "write"
  /\ Rewrites(proc[p]) /\ NewType(proc[p]) # "alias"
  /\ HasId(links, Snap(p).id)
  /\ links' = UpdateRow(links, Snap(p).id, NewTarget(proc[p]), NewType(proc[p]), NewAuth(proc[p]))
  /\ GoTo(p, "cache")
  /\ UNCHANGED <<shares, nextId, cache>>

MakeAlias(p) ==
  /\ Stage(p) = "write"
  /\ Rewrites(proc[p]) /\ NewType(proc[p]) = "alias"
  /\ HasId(links, Snap(p).id)
  /\ \/ /\ AliasLimitExceeded(links, Snap(p).id, proc[p].goal, MaxAliases)
        /\ Finish(p)
        /\ UNCHANGED links
     \/ /\ ~AliasLimitExceeded(links, Snap(p).id, proc[p].goal, MaxAliases)
        /\ links' = SetAlias(links, Snap(p).id, proc[p].goal, NewAuth(proc[p]))
        /\ GoTo(p, "cache")
  /\ UNCHANGED <<shares, nextId, cache>>

Delete(p) ==
  /\ Stage(p) = "write"
  /\ Req(p).op \in {"delete", "uiDelete"}
  /\ HasId(links, Snap(p).id)
  /\ links' = DeleteRow(links, Snap(p).id)
  /\ shares' = IF Cascade THEN [shares EXCEPT ![Snap(p).id] = {}] ELSE shares
  /\ GoTo(p, "cache")
  /\ UNCHANGED <<nextId, cache>>

Transfer(p) ==
  /\ Stage(p) = "write"
  /\ Req(p).op = "transfer"
  /\ HasId(links, Snap(p).id)
  /\ links' = TransferOwnership(links, Snap(p).id, Req(p).to)
  /\ GoTo(p, "cache")
  /\ UNCHANGED <<shares, nextId, cache>>

Reassign(p) ==
  /\ Stage(p) = "write"
  /\ Req(p).op = "reassign"
  /\ links' = ReassignLinks(links, Req(p).from, Req(p).to)
  /\ GoTo(p, "cache")
  /\ UNCHANGED <<shares, nextId, cache>>

(* INSERT INTO link_shares; the foreign key, where it is enforced, refuses *)
(* a link that is gone.                                                    *)
WithShare(i, user) ==
  IF Cascade /\ ~HasId(links, i) THEN shares
  ELSE [shares EXCEPT ![i] = @ \cup {user}]

ChangeShare(p) ==
  /\ Stage(p) = "write"
  /\ \/ /\ Req(p).op = "share"
        /\ shares' = WithShare(Snap(p).id, Req(p).to)
     \/ /\ Req(p).op = "unshare"
        /\ shares' = [shares EXCEPT ![Snap(p).id] = @ \ {Req(p).to}]
  /\ Finish(p)
  /\ UNCHANGED <<links, nextId, cache>>

-----------------------------------------------------------------------------
(* What CachingLinkRepo does to the cache after a successful write.        *)

(* Invalidation that removes one entry where the code purges them all.     *)
CacheRemoveOnly(s) ==
  IF Inserts(s) THEN [cache EXCEPT ![NewName(s)] = s.got]
  ELSE [cache EXCEPT ![s.req.name] = NoLink]

CacheAfterWrite(s) ==
  CASE Inserts(s) -> [cache EXCEPT ![NewName(s)] = s.got]
    [] \/ Rewrites(s) /\ NewType(s) # "alias"
       \/ s.req.op = "transfer" -> [cache EXCEPT ![s.req.name] = NoLink]
    [] OTHER -> EmptyTable

UpdateCache(p) ==
  /\ Stage(p) = "cache"
  /\ cache' = CacheAfterWrite(proc[p])
  /\ IF Inserts(proc[p]) /\ Req(p).op = "import" /\ Req(p).to # ""
       THEN GoTo(p, "share") ELSE Finish(p)
  /\ UNCHANGED <<links, shares, nextId>>

(* doImport restores the shares of a link it created.                      *)
ImportShare(p) ==
  /\ Stage(p) = "share"
  /\ shares' = WithShare(proc[p].got.id, Req(p).to)
  /\ Finish(p)
  /\ UNCHANGED <<links, nextId, cache>>

-----------------------------------------------------------------------------
Step(p) ==
  \/ LookupHit(p) \/ LookupRead(p) \/ LookupFill(p) \/ LookupMissing(p)
  \/ Access(p) \/ CheckLimit(p)
  \/ Insert(p) \/ RowGone(p) \/ Update(p) \/ MakeAlias(p) \/ Delete(p)
  \/ Transfer(p) \/ Reassign(p) \/ ChangeShare(p)
  \/ UpdateCache(p) \/ ImportShare(p)

Next ==
  \/ \E p \in Procs : Step(p) \/ Abort(p) \/ \E r \in Requests : Begin(p, r)
  \/ \E n \in Names : Evict(n)

Spec == Init /\ [][Next]_vars

(* A request goroutine keeps running: no step of a handler waits.          *)
FairSpec == Spec /\ \A p \in Procs : WF_vars(Step(p))

-----------------------------------------------------------------------------
(* Properties.                                                             *)

Stages == {"idle", "find", "resolve", "canon", "access", "count", "write",
           "cache", "share"}

ProcState == [pc : Stages, req : Request \cup {NoRequest},
              snap : Row \cup {NoLink}, got : Row \cup {NoLink}, goal : Text,
              filling : BOOLEAN]

TypeOK ==
  /\ links \in Table
  /\ shares \in [Ids -> SUBSET Users]
  /\ nextId \in 1 .. MaxId + 1
  /\ cache \in Table
  /\ proc \in [Procs -> ProcState]

(* A handler in state s holds the row with id i under the name n: as the   *)
(* link it found, on its way into the cache, or as the row it inserted.    *)
Holds(s, n, i) ==
  \/ s.req.name = n /\ s.snap.id = i
  \/ s.filling /\ Key(s) = n /\ s.got.id = i
  \/ s.pc \in {"cache", "share"} /\ Inserts(s) /\ NewName(s) = n /\ s.got.id = i

Seen(n, i) ==
  \/ links[n].id = i
  \/ cache[n].id = i
  \/ \E p \in Procs : Holds(proc[p], n, i)

(* An id belongs to one name for ever, across deletions and re-creations:  *)
(* rows, cache entries and the snapshots of handlers never disagree on     *)
(* which link an id is.  Update and TransferOwnership write by id and then *)
(* invalidate by name; that is only right because of this.                 *)
IdsDenoteNames ==
  \A i \in Ids, m, n \in Names :
    Seen(m, i) /\ Seen(n, i) => m = n

(* A link that does not exist yet is shared with nobody: a share written   *)
(* late, to a link deleted meanwhile, never opens a link created later     *)
(* under the same name, although SQLite keeps the orphaned row.            *)
FreshIdsUnshared == \A i \in Ids : i >= nextId => shares[i] = {}

(* What a handler writes is the very link it looked up and authorised: a   *)
(* request held up while its link is deleted and created again by somebody *)
(* else never touches the new link.  The other rows that may change are    *)
(* the aliases that a conversion reparents, and those of a reassignment.   *)
OnlySeenIncarnation ==
  [][\A p \in Procs, n \in Names :
       /\ Stage(p) = "write" /\ proc'[p] # proc[p]
       /\ Present(links[n]) /\ links'[n] # links[n]
       => \/ links[n].id = Snap(p).id
          \/ Rewrites(proc[p]) /\ NewType(proc[p]) = "alias"
             /\ links[n].aliasTarget = Req(p).name
             /\ links'[n] = [links[n] EXCEPT !.aliasTarget = proc[p].goal]
          \/ Req(p).op = "reassign" /\ links[n].owner = Req(p).from]_vars

(* The owner of a link changes by a transfer or a reassignment and by      *)
(* nothing else: an edit racing a transfer does not give the link back,    *)
(* although the edit was computed from the old record.                     *)
OwnerChangesOnlyByTransfer ==
  [][\A n \in Names :
       /\ Present(links[n]) /\ links'[n].id = links[n].id
       /\ links'[n].owner # links[n].owner
       => \E p \in Procs : /\ Stage(p) = "write"
                           /\ Req(p).op \in {"transfer", "reassign"}
                           /\ Req(p).to = links'[n].owner]_vars

(* With requests one at a time, the cache never contradicts the table once *)
(* a request has been answered: each write invalidates every entry it made *)
(* stale, those of reparented aliases and reassigned links included.       *)
CacheCoherent ==
  (\A p \in Procs : Stage(p) = "idle") =>
    \A n \in Names : Present(cache[n]) => cache[n] = links[n]

(* docs/api.md: omitted fields of a PATCH are unchanged.  (A conversion to *)
(* an alias clears the target whatever the mask says.)                     *)
OmittedFieldsUnchanged ==
  [][\A p \in Procs, n \in Names :
       /\ Stage(p) = "write" /\ Req(p).op = "update"
       /\ links'[n] # links[n] /\ links[n].id = Snap(p).id
       => /\ In(proc[p], "auth") \/ links'[n].requireAuth = links[n].requireAuth
          /\ In(proc[p], "type") \/ links'[n].type = links[n].type
          /\ \/ In(proc[p], "target") \/ links'[n].type = "alias"
             \/ links'[n].target = links[n].target]_vars

(* Resolving an alias takes one hop: its canonical link exists and is not  *)
(* an alias.  With requests one at a time nothing but a deletion or an     *)
(* import, which look at no alias, breaks that; in particular not the      *)
(* conversion of a canonical link that has aliases.                        *)
OneHop(n) ==
  links[n].type = "alias" =>
    /\ Present(RowOf(links, links[n].aliasTarget))
    /\ RowOf(links, links[n].aliasTarget).type # "alias"

AliasesStayOneHop ==
  [][(\A n \in Names : OneHop(n)) =>
       \/ (\A n \in Names : OneHop(n))'
       \/ \E p \in Procs : Stage(p) = "write"
                           /\ Req(p).op \in {"delete", "uiDelete", "import"}]_vars

(* The alias limit is checked before the insertion, in another statement.  *)
(* The overshoot is bounded all the same: every request in flight can add  *)
(* one alias beyond the limit, and no sequence of requests adds more.      *)
(* Imports, which do not look at the limit, are not among the requests.    *)
AliasesOf(text) ==
  {n \in Names : links[n].type = "alias" /\ links[n].aliasTarget = text}

LimitSlack ==
  \A text \in Names :
    Cardinality(AliasesOf(text)) <= MaxAliases + Cardinality(Procs) - 1

(* Every request is answered, even while a link is an alias of itself:     *)
(* resolving looks at two links at most.                                   *)
RequestsAnswered ==
  \A p \in Procs : Stage(p) # "idle" ~> Stage(p) = "idle"

-----------------------------------------------------------------------------
(* What a comment of the repository says of the rows.                      *)

(* api.go: resolving to the canonical link prevents loops.  Two            *)
(* conversions, of a to b and of b to a, that both resolve before either   *)
(* writes end with a an alias of itself: the second one reparents a, which *)
(* the first one made an alias of b, to a.                                 *)
NoAliasLoop ==
  \A n \in Names : ~ (links[n].type = "alias" /\ links[n].aliasTarget = n)
=============================================================================
