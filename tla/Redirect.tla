-------------------------------- MODULE Redirect --------------------------------
(***************************************************************************)
(* Redirects (internal/server/redirect.go) on one of several replicas of   *)
(* the server, which share the links table and have each an expiring cache *)
(* of their own (internal/db/cache.go), while requests here and at the     *)
(* other replicas write links.                                             *)
(*                                                                         *)
(* A write is the statement at the end of a link handler and, as a second  *)
(* step, what CachingLinkRepo does to the cache of the handler's own       *)
(* replica, if that is this one: the caches of the others matter to nobody *)
(* here.  How a handler comes to its statement is in LinkService; here any *)
(* row may be written, with a target its handler accepts.  Owners and      *)
(* shares decide nothing in a redirect.                                    *)
(*                                                                         *)
(* Time passes in ticks.  Ttl ticks are cfg.CacheTTL, and Lag bounds how   *)
(* many ticks go by from the arrival of a request to its last step.        *)
(***************************************************************************)
EXTENDS LinkTable, Sequences

CONSTANTS
  Procs,     (* request goroutines that redirect                           *)
  Writers,   (* request goroutines that write, on this replica             *)
  Writes,    (* the statements that may be executed                        *)
  Callers,   (* who redirects: with an identity?  at the canonical address?*)
  Configs,   (* configurations, one of which all replicas have             *)
  Body,      (* Urls -> the text of the target                             *)
  Values,    (* what the actions of a template may expand to               *)
  Ttl, Lag   (* in ticks; a Ttl of 0, which never expires, is excluded     *)

WriteOps == {"create", "update", "alias", "delete", "importCreate", "importUpdate"}
Write == [op : WriteOps, name : Names, type : Types, target : Urls \cup {""},
          alias : Text, auth : BOOLEAN, owner : Users]
Caller == [identified : BOOLEAN, canonical : BOOLEAN]

ASSUME WritesAssumption == Writes \subseteq Write
ASSUME CallersAssumption == Callers \subseteq Caller
ASSUME TimeAssumption == Ttl \in Nat \ {0} /\ Lag \in Nat

-----------------------------------------------------------------------------
(* Targets.  A text is a sequence of atoms: Scheme, pieces of a host such  *)
(* as "good" and ".", Separator, which begins a path, a query or a         *)
(* fragment that is not empty, Action, a template's first "{{", and        *)
(* Broken, what url.Parse refuses: half an escape or a control character.  *)

Scheme == "https://"
Separator == "/"
Action == "{{"
Broken == "%"

Has(text, atom) == \E i \in DOMAIN text : text[i] = atom

TextOf(target) == IF target \in Urls THEN Body[target] ELSE <<>>

(* What stands before the first occurrence of an atom.                     *)
Before(text, atom) ==
  LET ends == {i \in DOMAIN text : text[i] = atom} IN
  IF ends = {} THEN text
  ELSE SubSeq(text, 1, (CHOOSE i \in ends : \A j \in ends : i <= j) - 1)

(* url.Parse(text) returns no error.                                       *)
Parses(text) == ~Has(text, Broken)

(* url.Parse(text).Hostname(), empty for a text without a scheme.          *)
HostOf(text) ==
  IF text = <<>> \/ text[1] # Scheme THEN <<>> ELSE Before(Tail(text), Separator)

(* links.ValidateTarget, which looks at the scheme only.                   *)
IsHttp(text) == text # <<>> /\ text[1] = Scheme

ASSUME BodyAssumption ==
  /\ \A u \in Urls : Body[u] \in Seq(STRING) /\ IsHttp(Body[u])
  /\ Values \subseteq Seq(STRING)

(* A pattern is a host, exact or, as "*." before it, for its subdomains.   *)
MatchesDomainPattern(host, pattern) ==
  LET suffix == IF pattern.wildcard THEN <<".">> \o pattern.host ELSE pattern.host
      cut == Len(host) - Len(suffix)
  IN  /\ IF pattern.wildcard THEN cut > 0 ELSE cut = 0
      /\ SubSeq(host, cut + 1, Len(host)) = suffix

CheckAdvancedLinkDomain(text, patterns) ==
  \/ patterns = {}
  \/ /\ Parses(text) /\ HostOf(text) # <<>>
     /\ \E pattern \in patterns : MatchesDomainPattern(HostOf(text), pattern)

(* The static domain without the separator that has to follow it.          *)
CheckStaticHost(text, patterns) ==
  CheckAdvancedLinkDomain(Before(text, Action), patterns)

CheckTemplateTargetDomain(text, patterns) ==
  LET static == Before(text, Action) IN
  \/ patterns = {}
  \/ /\ Has(text, Action) =>
          Parses(static) /\ HostOf(static) # <<>> /\ Has(static, Separator)
     /\ CheckAdvancedLinkDomain(static, patterns)

(* Executing a template: what follows its first action depends on the      *)
(* request, through actions, conditions and arguments.                     *)
Execute(text, value) ==
  IF Has(text, Action) THEN Before(text, Action) \o value ELSE text

-----------------------------------------------------------------------------
VARIABLES
  config,  (* the configuration                                            *)
  links,   (* the links table                                              *)
  nextId,  (* the next id, never handed out before                         *)
  cache,   (* the LRU of this replica: name_lower -> entry                 *)
  proc,    (* the redirects: their stage and local variables               *)
  writer   (* the writes                                                   *)

vars == <<config, links, nextId, cache, proc, writer>>

(* A copy of a row, with the ticks since the table last agreed with it,    *)
(* which the program does not know; a cache entry also has an age.         *)
Nothing == [row |-> NoLink, stale |-> 0]
NoEntry == [copy |-> Nothing, age |-> 0]
Fresh(row) == [row |-> row, stale |-> 0]

NobodyYet == [identified |-> FALSE, canonical |-> FALSE]

(* link, the row found under name; dest, the row to resolve, the canonical *)
(* link's for an alias; got, a row read and not yet cached; counted, the   *)
(* ids given to Increment; viaAlias, aliasName is not empty; waited, the   *)
(* ticks since arrival.                                                    *)
IdleProc == [pc |-> "idle", name |-> "", caller |-> NobodyYet,
             link |-> Nothing, dest |-> Nothing, got |-> Nothing,
             filling |-> FALSE, viaAlias |-> FALSE, counted |-> <<>>, waited |-> 0]

IdleWriter == [pc |-> "idle", op |-> "delete", name |-> "",
               got |-> Nothing, waited |-> 0]

Init ==
  /\ config \in Configs
  /\ links = EmptyTable
  /\ nextId = 1
  /\ cache = [n \in Names |-> NoEntry]
  /\ proc = [p \in Procs |-> IdleProc]
  /\ writer = [w \in Writers |-> IdleWriter]

Busy(p) == proc[p].pc \in {"find", "resolve", "answer"}
Become(p, state) == proc' = [proc EXCEPT ![p] = state]

(* The request is answered: what it counted is kept, and for what.         *)
Finished(s, outcome, counted) ==
  [pc |-> outcome, name |-> IF counted = <<>> THEN "" ELSE s.name, caller |-> NobodyYet,
   link |-> Nothing, dest |-> Nothing, got |-> Nothing, filling |-> FALSE,
   viaAlias |-> s.viaAlias, counted |-> counted, waited |-> 0]

Answered(s, outcome) == Finished(s, outcome, s.counted)

-----------------------------------------------------------------------------
(* handleRedirect up to doRedirect: what the row found under the name asks *)
(* of the caller.                                                          *)

RedirectsToCanonical(s) == config.canonical /\ ~s.caller.canonical

AccessOutcome(s, row) ==
  CASE ~(row.requireAuth \/ config.globalAuth) -> "go"
    [] OTHER -> IF RedirectsToCanonical(s) THEN "canonical"
                ELSE IF s.caller.identified THEN "go"
                ELSE IF config.oidc THEN "login" ELSE "unauthorized"

FoundLink(s, copy) ==
  LET found == [s EXCEPT !.link = copy, !.dest = copy, !.got = Nothing,
                         !.filling = FALSE]
      outcome == AccessOutcome(s, copy.row)
  IN  IF outcome # "go" THEN Answered(found, outcome)
      ELSE IF copy.row.type = "alias"
        THEN [found EXCEPT !.pc = "resolve", !.viaAlias = TRUE]
        ELSE [found EXCEPT !.pc = "answer"]

(* The canonical link of an alias is found: the alias is counted, before   *)
(* the canonical link is resolved and whatever comes of that.              *)
FoundCanonical(s, copy) ==
  [s EXCEPT !.dest = copy, !.got = Nothing, !.filling = FALSE,
            !.counted = Append(@, s.link.row.id), !.pc = "answer"]

Found(s, copy) ==
  IF s.pc = "find" THEN FoundLink(s, copy) ELSE FoundCanonical(s, copy)

(* renderNotFound, and the plain 404 for an alias without its link.        *)
NotFoundOutcome(s) ==
  IF s.pc = "resolve" THEN "broken"
  ELSE IF RedirectsToCanonical(s) THEN "canonical" ELSE "notFound"

Begin(p, n, c) ==
  /\ ~Busy(p)
  /\ Become(p, [IdleProc EXCEPT !.pc = "find", !.name = n, !.caller = c])
  /\ UNCHANGED <<config, links, nextId, cache, writer>>

-----------------------------------------------------------------------------
(* CachingLinkRepo.GetByName.                                              *)

Key(s) == IF s.pc = "find" THEN s.name ELSE s.link.row.aliasTarget

EntryOf(text) == IF text \in Names THEN cache[text] ELSE NoEntry

Looking(s) == s.pc \in {"find", "resolve"} /\ ~s.filling
Cached(s) == Present(EntryOf(Key(s)).copy.row)

(* A hit that starts the entry's life again.                               *)
HitExtending(p) ==
  /\ Looking(proc[p])
  /\ Cached(proc[p])
  /\ Become(p, Found(proc[p], EntryOf(Key(proc[p])).copy))
  /\ cache' = [cache EXCEPT ![Key(proc[p])].age = 0]
  /\ UNCHANGED <<config, links, nextId, writer>>

Hit(p) ==
  /\ Looking(proc[p])
  /\ Cached(proc[p])
  /\ Become(p, Found(proc[p], EntryOf(Key(proc[p])).copy))
  /\ UNCHANGED <<config, links, nextId, cache, writer>>

Read(p) ==
  /\ Looking(proc[p])
  /\ ~Cached(proc[p])
  /\ Present(RowOf(links, Key(proc[p])))
  /\ Become(p, [proc[p] EXCEPT !.got = Fresh(RowOf(links, Key(proc[p]))), !.filling = TRUE])
  /\ UNCHANGED <<config, links, nextId, cache, writer>>

WithEntry(n, copy) == [cache EXCEPT ![n] = [copy |-> copy, age |-> 0]]

Fill(p) ==
  /\ proc[p].filling
  /\ cache' = WithEntry(Key(proc[p]), proc[p].got)
  /\ Become(p, Found(proc[p], proc[p].got))
  /\ UNCHANGED <<config, links, nextId, writer>>

Missing(p) ==
  /\ Looking(proc[p])
  /\ ~Cached(proc[p])
  /\ ~Present(RowOf(links, Key(proc[p])))
  /\ Become(p, Answered(proc[p], NotFoundOutcome(proc[p])))
  /\ UNCHANGED <<config, links, nextId, cache, writer>>

(* The database fails or the caller has gone: a 500 that counts nothing.   *)
ReadFails(p) ==
  /\ Looking(proc[p])
  /\ ~Cached(proc[p])
  /\ Become(p, Answered(proc[p], "failed"))
  /\ UNCHANGED <<config, links, nextId, cache, writer>>

-----------------------------------------------------------------------------
(* doRedirect, from the row to resolve to the answer.                      *)

(* ResolveSimple leaves the target alone unless there is a suffix or a     *)
(* query to add, which takes a URL with a host.  http.Redirect turns an    *)
(* empty target into the directory of the path that was asked for: the     *)
(* root, or the same path again if it ends in a slash.                     *)
SimpleOutcome(row, suffix) ==
  LET text == TextOf(row.target) IN
  CASE ~suffix -> IF row.target = "" THEN "home" ELSE "target"
    [] suffix -> IF Parses(text) /\ HostOf(text) # <<>> THEN "target" ELSE "badTarget"

RefusedOutcome(s) ==
  IF RedirectsToCanonical(s) THEN "canonical" ELSE "refused"

AdvancedOutcome(s, text) ==
  CASE ~config.advanced -> RefusedOutcome(s)
    [] config.advanced /\ ~IsHttp(text) -> "badTarget"
    [] config.advanced /\ IsHttp(text) ->
         IF CheckAdvancedLinkDomain(text, config.patterns)
           THEN "target" ELSE RefusedOutcome(s)

ResolvedOutcome(s, suffix, value) ==
  IF s.dest.row.type # "advanced" THEN SimpleOutcome(s.dest.row, suffix)
  ELSE AdvancedOutcome(s, Execute(TextOf(s.dest.row.target), value))

(* A count decided on the row that was resolved, not the one asked for.    *)
CountUnlessDestAlias(s, outcome) ==
  IF outcome \in {"target", "home"} /\ s.dest.row.type # "alias"
    THEN Append(s.counted, s.dest.row.id) ELSE s.counted

(* A link that is no alias is counted once its target is known.            *)
CountUnlessAlias(s, outcome) ==
  IF outcome \in {"target", "home"} /\ ~s.viaAlias
    THEN Append(s.counted, s.link.row.id) ELSE s.counted

Answer(p, suffix, value) ==
  LET outcome == ResolvedOutcome(proc[p], suffix, value) IN
  /\ proc[p].pc = "answer"
  /\ Become(p, Finished(proc[p], outcome, CountUnlessAlias(proc[p], outcome)))
  /\ UNCHANGED <<config, links, nextId, cache, writer>>

(* Executing the template fails or panics.                                 *)
ExecuteFails(p) ==
  /\ proc[p].pc = "answer"
  /\ proc[p].dest.row.type = "advanced" /\ config.advanced
  /\ Become(p, Answered(proc[p], "badTarget"))
  /\ UNCHANGED <<config, links, nextId, cache, writer>>

-----------------------------------------------------------------------------
(* Writes.                                                                 *)

Imports(c) == c.op \in {"importCreate", "importUpdate"}

(* Create and edit check the domain of an advanced target; an import does  *)
(* not, and it takes advanced links when they are disabled, too.           *)
Accepts(c) ==
  c.type = "advanced" /\ ~Imports(c) =>
    config.advanced /\ CheckTemplateTargetDomain(TextOf(c.target), config.patterns)

RowFor(c) == [id |-> nextId, target |-> c.target, owner |-> c.owner,
              type |-> c.type, aliasTarget |-> c.alias, requireAuth |-> c.auth]

(* The statement was one of a handler here, w, which goes on, or one of a  *)
(* handler at another replica.                                             *)
Wrote(w, op, n, copy) ==
  \/ /\ writer[w].pc = "idle"
     /\ writer' =
          [writer EXCEPT ![w] = [pc |-> "cache", op |-> op, name |-> n,
                                 got |-> copy, waited |-> 0]]
  \/ UNCHANGED writer

(* An insertion under the smallest id that no row has.                     *)
InsertReusingIds(w, c) ==
  LET free == {i \in Ids : ~HasId(links, i)}
      row == [RowFor(c) EXCEPT !.id = CHOOSE i \in free : \A j \in free : i <= j]
  IN
  /\ c.op \in {"create", "importCreate"} /\ Accepts(c)
  /\ ~Present(links[c.name]) /\ free # {}
  /\ links' = [links EXCEPT ![c.name] = row]
  /\ Wrote(w, "create", c.name, Fresh(row))
  /\ UNCHANGED <<config, nextId, cache, proc>>

(* INSERT INTO links ... RETURNING                                         *)
Insert(w, c) ==
  /\ c.op \in {"create", "importCreate"} /\ Accepts(c)
  /\ ~Present(links[c.name]) /\ nextId <= MaxId
  /\ links' = [links EXCEPT ![c.name] = RowFor(c)]
  /\ nextId' = nextId + 1
  /\ Wrote(w, "create", c.name, Fresh(RowFor(c)))
  /\ UNCHANGED <<config, cache, proc>>

Update(w, c) ==
  /\ c.op \in {"update", "importUpdate"} /\ Accepts(c)
  /\ Present(links[c.name])
  /\ links' = UpdateRow(links, links[c.name].id, c.target, c.type, c.auth)
  /\ Wrote(w, "update", c.name, Nothing)
  /\ UNCHANGED <<config, nextId, cache, proc>>

MakeAlias(w, c) ==
  /\ c.op = "alias"
  /\ Present(links[c.name])
  /\ links' = SetAlias(links, links[c.name].id, c.alias, c.auth)
  /\ Wrote(w, "alias", c.name, Nothing)
  /\ UNCHANGED <<config, nextId, cache, proc>>

Delete(w, c) ==
  /\ c.op = "delete"
  /\ Present(links[c.name])
  /\ links' = DeleteRow(links, links[c.name].id)
  /\ Wrote(w, "delete", c.name, Nothing)
  /\ UNCHANGED <<config, nextId, cache, proc>>

(* The cache after a statement of a handler here.                          *)
CacheAfter(s) ==
  CASE s.op = "create" -> WithEntry(s.name, s.got)
    [] s.op = "update" -> [cache EXCEPT ![s.name] = NoEntry]
    [] OTHER -> [n \in Names |-> NoEntry]

Invalidate(w) ==
  /\ writer[w].pc = "cache"
  /\ cache' = CacheAfter(writer[w])
  /\ writer' = [writer EXCEPT ![w] = IdleWriter]
  /\ UNCHANGED <<config, links, nextId, proc>>

(* LRU pressure.                                                           *)
Evict(n) ==
  /\ Present(cache[n].copy.row)
  /\ cache' = [cache EXCEPT ![n] = NoEntry]
  /\ UNCHANGED <<config, links, nextId, proc, writer>>

-----------------------------------------------------------------------------
(* Time.  An entry is dropped when its Ttl is over, whether it was looked  *)
(* up or not.  Nobody takes longer than Lag.                               *)

Later(copy, text) ==
  IF Present(copy.row) /\ copy.row # RowOf(links, text)
    THEN [copy EXCEPT !.stale = @ + 1] ELSE [copy EXCEPT !.stale = 0]

(* An entry that is kept one tick too long.                                *)
OlderEntryLate(n, entry) ==
  IF ~Present(entry.copy.row) \/ entry.age > Ttl THEN NoEntry
  ELSE [copy |-> Later(entry.copy, n), age |-> entry.age + 1]

OlderEntry(n, entry) ==
  IF ~Present(entry.copy.row) \/ entry.age >= Ttl THEN NoEntry
  ELSE [copy |-> Later(entry.copy, n), age |-> entry.age + 1]

OlderProc(s) ==
  [s EXCEPT !.link = Later(s.link, s.name), !.got = Later(s.got, Key(s)),
            !.dest = Later(s.dest, IF s.link.row.type = "alias"
                                     THEN s.link.row.aliasTarget ELSE s.name),
            !.waited = s.waited + 1]

OlderWriter(s) ==
  [s EXCEPT !.got = Later(s.got, s.name), !.waited = s.waited + 1]

Tick ==
  /\ \A p \in Procs : Busy(p) => proc[p].waited < Lag
  /\ \A w \in Writers : writer[w].pc = "cache" => writer[w].waited < Lag
  /\ cache' = [n \in Names |-> OlderEntry(n, cache[n])]
  /\ proc' = [p \in Procs |-> IF Busy(p) THEN OlderProc(proc[p]) ELSE proc[p]]
  /\ writer' = [w \in Writers |->
                  IF writer[w].pc = "idle" THEN writer[w] ELSE OlderWriter(writer[w])]
  /\ UNCHANGED <<config, links, nextId>>

-----------------------------------------------------------------------------
Redirecting(p) ==
  \/ \E n \in Names, c \in Callers : Begin(p, n, c)
  \/ Hit(p) \/ Read(p) \/ Fill(p) \/ Missing(p) \/ ReadFails(p)
  \/ \E suffix \in BOOLEAN, value \in Values : Answer(p, suffix, value)
  \/ ExecuteFails(p)

Writing(w) ==
  \/ \E c \in Writes :
       Insert(w, c) \/ Update(w, c) \/ MakeAlias(w, c) \/ Delete(w, c)
  \/ Invalidate(w)

Next ==
  \/ \E p \in Procs : Redirecting(p)
  \/ \E w \in Writers : Writing(w)
  \/ \E n \in Names : Evict(n)
  \/ Tick

Spec == Init /\ [][Next]_vars

-----------------------------------------------------------------------------
(* Properties.                                                             *)

Outcomes == {"canonical", "login", "unauthorized", "notFound", "broken",
             "failed", "refused", "badTarget", "home", "target"}

Copy == [row : Row \cup {NoLink}, stale : Nat]

ProcState == [pc : {"idle", "find", "resolve", "answer"} \cup Outcomes,
              name : Names \cup {""}, caller : Caller,
              link : Copy, dest : Copy, got : Copy, filling : BOOLEAN, viaAlias : BOOLEAN,
              counted : Seq(Ids), waited : 0 .. Lag]

WriterState == [pc : {"idle", "cache"}, op : WriteOps,
                name : Names \cup {""}, got : Copy, waited : 0 .. Lag]

(* Every variable keeps its type; an entry never outlives its Ttl.         *)
TypeOK ==
  /\ config \in Configs
  /\ links \in Table
  /\ nextId \in 1 .. MaxId + 1
  /\ cache \in [Names -> [copy : Copy, age : 0 .. Ttl]]
  /\ proc \in [Procs -> ProcState]
  /\ writer \in [Writers -> WriterState]

(* A cache entry has disagreed with the table for no longer than it has    *)
(* been there and the request that put it there took; so one is served     *)
(* for at most Ttl + Lag ticks after the link changed, on whichever        *)
(* replica, although fills and the Add of a creation come after later      *)
(* writes and other replicas are told nothing.  A redirect in flight is    *)
(* at most its own time later still: what it decides access and target on  *)
(* was in the table Ttl + 2 Lag ticks ago or since.                        *)
EntriesFollowTable ==
  \A n \in Names : cache[n].copy.stale <= cache[n].age + Lag

RedirectsFollowTable ==
  \A p \in Procs :
    /\ proc[p].got.stale <= proc[p].waited
    /\ proc[p].link.stale <= Ttl + Lag + proc[p].waited
    /\ proc[p].dest.stale <= Ttl + Lag + proc[p].waited

StalenessBounded == EntriesFollowTable /\ RedirectsFollowTable

(* Every redirect to a target is one use, and one only, of the link that   *)
(* was named, also when it is an alias, when the row it was found in is    *)
(* long deleted, or when its name belongs to a new link by now: the id     *)
(* never counts for a link of another name.  A request that was answered   *)
(* otherwise is a use only of an alias whose canonical link was there.     *)
OneUsePerRedirect ==
  \A p \in Procs :
    LET s == proc[p] IN
    /\ s.pc = "target" => Len(s.counted) = 1
    /\ s.pc \in Outcomes \ {"target", "home"} /\ s.counted # <<>> =>
         s.viaAlias /\ Len(s.counted) = 1
    /\ \A i \in 1 .. Len(s.counted), n \in Names :
         links[n].id = s.counted[i] => n = s.name

(* What a create or an edit accepted under the domain restriction is not   *)
(* refused by it when the link is followed, whatever URL the template      *)
(* makes of the request: only an import can leave such a link behind.  A   *)
(* result that is no URL, because a suffix brought half an escape into it, *)
(* is refused with the same words.                                         *)
AcceptedIsFollowed ==
  \A p \in Procs :
    LET text == TextOf(proc[p].dest.row.target) IN
    /\ proc[p].pc = "answer" /\ proc[p].dest.row.type = "advanced"
    /\ CheckTemplateTargetDomain(text, config.patterns)
    => \A value \in Values :
         Parses(Execute(text, value)) =>
           CheckAdvancedLinkDomain(Execute(text, value), config.patterns)
=============================================================================
