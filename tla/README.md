# golink: a verification project

golink is a link shortener: one Go process, one SQL database, a browser or an
API client in front of it. This directory holds TLA+ models of the parts of it
where several things happen at once, the TLC configurations that check them on
small instances, and theorems about them that TLAPS proves for every value of
the constants. Paths below are relative to the repository's `internal/` unless
they begin with `cmd/`, `docs/` or `config.template.toml`.

- [The system](#the-system)
- [What is hard](#what-is-hard)
- [Modules and the code](#modules-and-the-code)
- [Runs](#runs)
- [Fairness](#fairness)
- [Proofs](#proofs)
- [Where the code and the text disagree](#where-the-code-and-the-text-disagree)
- [Not modelled, and the plan](#not-modelled-and-the-plan)

## The system

| component | code | state | operations |
|---|---|---|---|
| use counter | `db/usecounter.go` | a map of increments, a channel of capacity one, the batch being written | `Increment`, the runner's select and `flush`, `Shutdown` |
| process | `cmd/golink/main.go` | serving, draining, stopping, a 30 s context | signal, server shutdown, counter shutdown, exit |
| link table | `db/link_repo.go`, `db/models.go`, migrations | `links`, `link_shares` | create, update, `SetAlias`, delete, transfer, reassign, share, unshare, list, search |
| link cache | `db/cache.go` | an expiring LRU keyed by `name_lower` | fill on a miss; add, remove or purge after a write |
| link handlers | `server/api.go`, `ui.go`, `link_actions.go`, `import.go`, `reassign_*.go` | the locals of each request | look up, resolve an alias, check access, check the alias limit, write |
| export | `server/export.go` | an offset and a page | list a page, read each link's shares, write |
| login | `auth/oidc.go` | none on the server; three cookies in the browser | `HandleLogin`, `HandleCallback`, `HandleLogout` |
| authentication chain | `auth/*.go`, `server/server.go` | the request's identity | Tailscale, proxy, OIDC, anonymous, API key; `RequireAuth`, `RequireAdmin`, `RequireWriteScope` |
| API keys | `server/apikey.go`, `apikeys_ui.go`, `db/apikey_repo.go` | `api_keys` | create, look up, record the last use, delete |
| users | `db/user_repo.go`, `auth/identity.go` | `users` | an upsert per request, asynchronous |
| redirect | `server/redirect.go`, `redirect/` | the locals of each request; it lives on the cache's entries and their age | look up, check access, resolve an alias, count, render the target |
| validation | `links/` | none | names, targets, domains of templates |
| CSRF tokens | `server/csrf.go` | a cookie, replaced with every page | set, compare |
| request middleware | `server/middleware/`, `auth/cidr.go` | none | canonical domain, page access; forwarded addresses, logging, headers |
| configuration, start-up, pages | `config/`, `db/open.go`, `db/migrate.go`, `templates/` | constants | read once |

How they interact:

- A redirect handler calls `Increment`, whose runner updates `links.use_count`
  behind it. `main` closes the server first and the counter second.
- The link handlers reach the table only through the cache, which they share.
  Nothing holds a lock or a transaction from the look-up of a link to the write
  that the look-up authorised; the only transaction is that of `SetAlias`.
- The export reads the same table, one statement at a time, while handlers write.
- Replicas of the server share the table and nothing else: each has its own cache, and a
  write clears only the cache of the replica that handled it (`db/cache.go:57`).
- A visit is a chain of redirects through several of the parts: to the canonical
  address, to the login, to the provider, back to the callback and to the page
  asked for. All the server knows of it is in the browser's cookies, which the
  tabs share.
- The login talks to the rest of the server through one cookie, the session. The
  authentication chain reads it, and API keys, headers and the anonymous
  identity compete with it.
- Two kinds of goroutine outlive their request: the one that records the use of
  an API key and the one that upserts a user.

What makes each part correct:

| component | correct when |
|---|---|
| use counter | no accepted use is lost or counted twice, none waits unannounced, a clean shutdown leaves none behind |
| process | the order of shutdown keeps handlers off a closed channel, and the process exits |
| table, cache, handlers | what is written is the link that was authorised; owners change only by a transfer; a failed race never opens somebody else's link; the cache follows the table; aliases take one hop; the limit holds up to the requests in flight |
| export | nothing is missed unless something was deleted, nothing repeated unless something was created; a link is written with its own shares |
| redirect | an answer is stale for a bounded time; a redirect is one use of the link that was named; what was accepted is followed |
| visits | every chain of redirects ends, on what was asked for; a login or a form fails only for a reason |
| login | a state is accepted only together with its own verifier; rights end with the session |
| access | a read-only key changes nothing however it is combined; revoked rights end in bounded time; a delete hits the key that was listed |

## What is hard

`PROJECT.json` lists the hazards line by line. In kinds:

- **Interleaving between statements.** Every link handler reads, decides and
  writes in separate statements, through a cache another handler may refill with
  what it read before the write.
- **Wake-ups.** `Increment` unlocks first and nudges afterwards, into a channel
  that may be full or closed; the runner may be between its receive and its swap.
- **Shutdown.** Two waits under one deadline, in an order that matters.
- **Answers out of order.** Two tabs of a browser share the login's cookies;
  answers arrive late; the cookies expire at different ages.
- **Identity over time.** A session keeps the groups of its login. A form names
  a row of a listing made earlier.
- **Stale copies.** Nobody tells another replica of a write, and a fill or the `Add`
  of a creation may come after a later write's `Remove` on the same replica.
- **Redirects that depend on each other.** Whether an address is canonical is
  judged from headers; the login's cookie must be set where the callback looks for
  it; every page replaces the token that another tab's form was made with.
- **Paging.** `OFFSET` over a table that changes.

## Modules and the code

`PROJECT.json` maps each definition to its lines. Every module has one action
per critical section, statement or handler step; a definition that shows a
plausible mistake (a dropped reset, a swapped order) stands just before the
definition it is a mistake of, is used by no specification, and serves to show
that the properties notice it.

**UseCounter** — `db/usecounter.go`. `counts` is the map, `nudge` and `closed`
the channel, `pending` the batch, `useCount` the column, `runner`, `caller` and
`stop` the program counters. A critical section of the mutex is one action;
the nudge is a step of its own, as in the code, and panics on a closed channel
(`NudgePanics`). `RecvNudge`, `Tick`, `RecvClosed` are the cases of the select;
a closed channel delivers its buffered token first. `WriteLost` is an `UPDATE`
that fails (its error is ignored) or whose link is gone. `accepted` and `lost` are
history.

**StatLedger** — what the counter promises, without channel, map or goroutine:
each accepted use ends at most once, in the column or dropped.

**Lifecycle** — `cmd/golink/main.go`. EXTENDS UseCounter and interleaves it with
request goroutines (a caller is `busy` while its handler runs), the signal, the
drain, the deadline and the exit. Handlers, runner and database may take any
time, or hang.

**LinkTable** — the statements of `db/link_repo.go` that change a row, as
operators on a table value: `UpdateRow` (which leaves the owner alone),
`SetAlias` (which reparents), `DeleteRow`, `TransferOwnership`, `ReassignLinks`,
and the limit test inside `SetAlias`. The unique index makes the table a function
of the name.

**LinkService** — the handlers over one table and one cache. A process is a
request goroutine; its `pc` is the stage of the handler and its locals are the
link it found (`snap`), the row its last statement returned (`got`) and the text
it is looking up (`goal`). A step is one statement, or one operation on the
cache with the computation after it. The stages, in the order the code runs them:

| stage | code |
|---|---|
| `find` | `GetByNameOrAlias`/`GetByName` through the cache (`LookupHit`, `LookupRead`, `LookupFill`, `LookupMissing`) |
| `access` | owner, administrator or shared, per handler |
| `resolve`, `canon` | `resolveAliasTarget`: the target, and the target's target |
| `count` | `CountAliases`, checked before the insertion |
| `write` | the statement: `Insert`, `Update`, `MakeAlias`, `Delete`, `Transfer`, `Reassign`, `ChangeShare`; `RowGone` when no row has the id |
| `cache` | add, remove or purge, only after a write that succeeded |
| `share` | the share an import restores |

`Evict` is the LRU's size and its expiry at once: an entry may go at any time, so
no property rests on how long one stays. `Abort` (with `Faults`) ends a request
at any stage, as a cancelled context or a failing database does. `Cascade` says
whether the backend deletes the shares of a deleted link: PostgreSQL does,
SQLite as `db/open.go` opens it does not.

**Export** — `server/export.go` with pages of `PageSize`, each link's shares in a
statement of their own, failing statements (`Faults`), and creations, deletions
and shares at any point. The variables from `kept` on are history.

**Cookies, Sessions, Login** — `auth/oidc.go`. `Sessions` is the promise: one
session cookie, which ages, and which never grants a group's rights for longer
than `SessionAge + Lag` after its user left the group. `Login` is the protocol with
the cookies for state, verifier and session, shared by the tabs; a request
carries the cookies there are when it is sent and an answer changes them when it
arrives. A callback takes two steps, because time passes between them: `Exchange` gets the
ID token, which fixes the groups (`auth/oidc.go:153`), and `IssueSession` verifies it, perhaps after fetching
the provider's keys (`:169`), and signs a session whose life begins only then (`:262`). `Lag` bounds
the time between, because no answer leaves later than the server's `WriteTimeout` after
its request was read (`cmd/golink/main.go:76`, 15 s against the session's 24 h). Provider and browser are external and do what the code relies on.

**Access** — EXTENDS Sessions, so it is checked against the promise and not
against one way of keeping it. A request is sent with the cookie of that
moment, goes through the chain of `buildRouter` (`ByHeader`, `BySession`,
`ByFallback`, `ByKey`) and the guards (`Allowed`), and then acts on the keys;
`touches` are the goroutines that will record the use of a key.

**Redirect** — `server/redirect.go`, `redirect/` and the domain rule of `links/`, over
LinkTable. It is one replica: `cache` has entries with an age, `proc` the
requests that redirect, `writer` those that write. A write is the statement, with any
row and a target its handler accepts, and then what `CachingLinkRepo` does to the
cache if the handler runs here (`Invalidate`); a statement without that second step is
one of another replica. `Tick` is time: an entry is dropped `Ttl` ticks after it was put
in, looked up or not, and no request takes longer than `Lag`. Each copy of a
row carries, for the properties only, how long the table has disagreed with it (`stale`).
A target is a sequence of atoms (scheme, pieces of a host, separator, action, and something `url.Parse`
refuses), which is all that `CheckTemplateTargetDomain` and `CheckAdvancedLinkDomain` look at; what a template
expands to is chosen from `Values`, URL or not.

**Visit** — the server as a function from a request and its cookies to an answer (`AnswerTo`,
in the order of `buildRouter`), and a browser with tabs and one jar of cookies per
host. `Send` takes the cookies of the moment, `Receive` applies those of the answer, and the other
tabs do what they like in between; `Lapse` ends a session or a state. Two conversions matter and are
modelled by what they do: `http.SetCookie` drops `;`, `"` and `\` from the state with the address to return to
(`CookieValue`: a link asked for as `/x?a;b`, the path `odd`), and the redirect to the canonical address is
built from the decoded path (`Decoded`: `/x/a%3Bb` becomes `/x/a;b`, the paths `escaped` and `odd`). The details page
carries three forms, one of each shape of handler (`details` makes a page and shows
it, `share` makes one and redirects, `unshare` makes none). `fresh`, `due` and `alone`
are history: they say whether something happened that excuses a failure. The proxy in
front of the server, the provider and the browser's rules for cookies and redirects are external.

**MC_LinkService, MC_Access, MC_Redirect, MC_Visit** — the sets of requests, statements,
configurations and addresses the configurations of TLC use.

How they compose: `Lifecycle` extends `UseCounter`; `UseCounter` implements
`StatLedger`; `LinkService` and `Redirect` extend `LinkTable`, the one with handlers that
decide and no time, the other with time and no decisions; `Login` implements `Sessions`,
which `Access` extends; `Visit` has a coarser login (a state and no verifier) inside the redirects around it.

## Runs

Run one with `tlc -workers 2 -config X.cfg M`. All but `Found_alias_loop.cfg` must end
without an error; that one must find its property violated.

| run | configuration | what it asks | distinct states |
|---|---|---|---|
| counter | `UseCounter.cfg` | loss, duplication, wake-ups, shutdown; refinement of `StatLedger` | 20 801 |
| lifecycle | `Lifecycle.cfg` | the shutdown order, and that a signalled process exits | 15 787 |
| races | `Service_races.cfg` | two requests at a time: is what is written what was authorised? | 956 217 |
| serial | `Service_serial.cfg` | every handler, one request at a time: cache, field mask, one hop | 1 242 189 |
| limit | `Service_limit.cfg` | racing aliases: how far past the limit | 317 064 |
| answers | `Service_answers.cfg` | a loop of aliases: is every request answered? | 111 125 |
| export | `Export.cfg` | skips, repeats, order, shares, the end once creations stop | 1 625 167 |
| login | `Login.cfg` | two tabs: verifiers, refinement of `Sessions` | 368 920 |
| access | `Access.cfg` | keys, sessions and headers at once | 931 397 |
| redirect | `Redirect.cfg` | how stale, how often counted, and is what was accepted followed? | 959 048 |
| visit | `Visit.cfg` | does every visit end, and where? Which logins and forms fail? | 502 016 |
| alias_loop | `Found_alias_loop.cfg` | a statement of the repository which the code does not keep | first violation |

### Bounds, and why they are enough

- *counter*: two links, two callers, two uses of each link. One use can wait in
  the map while another is in the batch, and both callers can be between unlock
  and nudge around a close. *lifecycle*: one link but three uses, so that a use
  exists before, during and after the drain. `MaxUses` is in the guard of
  `Increment` and nowhere else.
- *races*: two names, two ids, two goroutines and fourteen requests by two owners and
  an administrator. The interesting schedule needs one goroutine to hold a
  snapshot while the other deletes the link and creates it again: that uses both
  ids. A third goroutine would only combine such pairs. `Procs` is symmetric.
- *serial*: three names and three ids, the least at which a conversion reparents
  an alias that already exists and an alias can point at an alias. One goroutine,
  because `CacheCoherent` and `AliasesStayOneHop` are promises of that case: with
  two, a cache miss can put back what it read before another's write.
- *limit*: a limit of one, one canonical link, three names that may become
  aliases by three different handlers, a deletion that makes room again, and two
  goroutines that may be cut off anywhere. Two goroutines overshoot by one; a
  check that lets one more through shows as three aliases, so four names are needed.
- *answers*: two names, a limit of two, so that two conversions at a time do make a
  loop, and requests that look up, follow and create aliases while there is one (the second conversion
  reparents the first, so the loop is a link that is an alias of itself).
- *export*: three names, five ids, pages of two: a deletion can move a row over
  the boundary of the page, a name can be taken again by another id, and a full
  last page forces an empty one after it. `MaxId` and `MaxReshares` bound
  what the other requests do.
- *login*: two tabs, four states (one in a cookie, one in flight and one in each
  tab), the state's cookie living one tick, the verifier's two, the session two:
  each can expire before the others. `Lag` is one tick: a group can be left between the exchange and
  the signature, and a session is then seen to outlive `SessionAge` by that tick and no more.
- *access*: two goroutines, two keys, sessions of one tick, headers that name an
  administrator, a `Lag` of one as in *login*. `Cardinality(Raws) >= MaxKeys` is assumed: random keys do not
  repeat.

- *redirect*: two names, so that an alias and its link exist at once, and two ids, so that a name
  can pass from one link to another. One goroutine redirects, one writes here, and any number write at
  other replicas, since those leave nothing behind but the row. `Ttl` and `Lag` of one tick are
  enough to tell the two terms of the bound apart: an entry filled late has `stale` one more than
  its age. Two configurations turn every switch both ways; a plain target, a template inside a static
  host and one that goes on after the host are the three cases of the domain rule, and expansions are a URL with
  another end, with another host, and one that does not parse.
- *visit*: two tabs, six configurations, among them the one whose redirects circle, and four ways to begin:
  over http at the short address a private link, one with an escaped `;` and the details page, over https at the
  canonical one a link that does not exist. The other paths are met on the way: the link with a plain `;` after the
  canonical redirect. `MaxTokens` and `MaxStates` are the number of places that can hold a token or a
  state, and one more: a new one is one that nobody holds, so larger bounds add only
  names. `MaxLapses` of one lets a session or a state end at any point of the visits.

Deadlock is checked in *races*, *serial*, *limit*, *answers*, *login*, *access*, *redirect* and *visit*, where
some request can always be made. A counter that was shut down, a process
that exited and an export that was answered really stop, and their
configurations say so.

### What each property would notice

| property | breaks when |
|---|---|
| `Conservation`, `LedgerSpec` | the swap forgets the reset, or a write is not the batched delta |
| `NoLostWakeup`, `CountsAreTaken` | the channel has no buffer: a nudge between the swap and the next select is dropped |
| `ShutdownFlushes`, `GracefulExitKeepsUses` | `Shutdown` returns before the runner is done |
| `NoPanicInTime` | the counter is closed before the server is drained |
| `SignalExits` | the counter's shutdown ignores its context |
| `CloseStopsRunner` | the last flush goes back to the select |
| `IdsDenoteNames`, `FreshIdsUnshared` | ids are used again after a deletion |
| `OnlySeenIncarnation` | an update writes by name |
| `OwnerChangesOnlyByTransfer` | an update writes the whole row that was read |
| `CacheCoherent` | a write that touches several rows removes one entry |
| `OmittedFieldsUnchanged` | a field is taken from the request whether or not it is in it |
| `AliasesStayOneHop` | a conversion does not reparent |
| `LimitSlack` | the limit is tested with `>` for `>=` |
| `RequestsAnswered` | aliases are followed as far as they go |
| `SkipsBounded`, `RepeatsBounded`, `OrderedWithoutCreations`, `ExportEnds`, `SharesOfTheLink` | the last page, the limit, the overlap, the progress or the key of the share look-up is off |
| `VerifierFits` | the state's cookie outlives the verifier's |
| `ImplementsSessions` | a session counts from its arrival and not from its signature |
| `ReadOnlyKeysOnlyRead`, `RevokedAdminIsOut` | the chain runs in another order, or adds rights up |
| `DeletesTheListedKey` | ids are used again |
| `LastUsedIsHonest` | the last use is recorded with an upsert |
| `Redirect!TypeOK` | an entry is kept a tick too long |
| `StalenessBounded` | a hit starts the entry's life again, as an LRU with refresh on read does |
| `OneUsePerRedirect` | the count is decided on the row resolved and not on the one named, or ids are used again |
| `AcceptedIsFollowed` | the static domain need not be followed by a separator |
| `VisitEnds` | behind a proxy that is trusted, the scheme is taken from the connection, whatever a trusted proxy says |
| `LandsWhereAsked` | the login forgets where it was to return |
| `LoginFailsOnlyIfOvertaken` | the login is asked for before the canonical address |
| `FormsCarriedOut` | the CSRF cookie is set with the first page only |

## Fairness

Only what the scheduler and the code give is assumed.

- *UseCounter*: a goroutine that can run is run (weak fairness on the runner's
  steps, on each caller inside `Increment`, on the return of `Shutdown`). A select
  picks at random among ready cases, so a channel that is ready at every visit
  is eventually picked even if the ticker is always ready too: strong fairness on
  `RecvNudge` and `RecvClosed`. Nobody has to call `Increment` or `Shutdown`, and
  the ticker need not fire: `CountsAreTaken` rests on the nudge alone.
- *Lifecycle*: the shutdown goroutine runs and its timer fires. Nothing is assumed of
  handlers, runner or database, so `SignalExits` holds although all of them hang.
- *LinkService*: a handler that is not waiting goes on (weak fairness on `Step(p)`). No
  step waits for another request.
- *Export*: `handleExport` goes on, and no statement is obliged to fail (weak fairness on the
  steps that succeed). Nothing keeps other requests from creating links ahead of the reader for ever, and then the loop at
  `server/export.go:93-96` need not end. `ExportEnds` therefore asks for the end only once creations have stopped
  (`<>[][created' = created]_vars`), while deletions and shares go on; `MaxId` bounds the run, not the claim.
- *Visit*: browsers, server and provider go on (weak fairness on `Travel(t)`, which is the
  sending of a request by a tab that was redirected, or the arrival of an answer). Users need not visit or submit anything and
  nothing has to expire, so `VisitEnds` is about the redirects alone. It supposes `SchemeSeen`: a canonical address
  that is https, behind a proxy that is not trusted, is redirected to itself for ever (see below), which the run includes as
  a configuration and the property excludes.
- *Redirect*, *Login* and *Access* have no liveness: a user may stop anywhere.

## Proofs

`tlapm M_proofs.tla` checks them. The constants are arbitrary within the named
assumptions: any sets of links, callers, names, users, requests, goroutines,
tabs; any bounds.

**Lifecycle_proofs**, of the counter: `TypeCorrect`, `UsesConserved`, `WakeupNotLost`,
`ShutdownFlushed`, and `ImplementsLedger`: every step of the counter is a step of
`StatLedger` or a stutter. `Conservation` is inductive only together with
`BatchOwned`: outside `writing` the batch is empty, or `Swap` would overwrite one.
`ShutdownFlushed` needs where the runner is: once it has stopped, the last flush,
after the close and with an empty buffer, found the map empty except for callers that
came later.

Of the process around it: it takes only steps of the counter (`UsesCounter`), so
what is proved of the counter holds of it. `NoPanic` and `GracefulExit` follow from
`LInv`: the channel is closed exactly from `stopping` on; unless the context
expired, no handler is busy then; and a caller inside `Increment` is busy.

**LinkTable_proofs.** Lemmas on the statements: each keeps a table a table, keeps
ids where they are, and says which rows it leaves alone.

**LinkService_proofs.** `TypeCorrect`, `IdsStayWithNames`, `NewLinksUnshared`,
`WritesOnlySeen`, `OwnersChangeByTransfer`. `TypeOK` is not inductive: whether a
handler's snapshot is a row depends on its stage. `StagesOK` says what a handler may
rely on in each stage, and `KnownIds` that every id seen anywhere, in the table,
the cache or a handler, is one already handed out. `IInv` is the three together;
`IdsDenoteNames` is inductive relative to it, because an insertion uses an id that
nobody can have seen, and the two action properties follow from it: a write by id
reaches the name that the id was seen under.

`CacheStaysCoherent`, `OmittedFieldsStay` and `OneHopStays` are about one request at a
time, none cut off (`Procs = {h}` and `~Faults`): with two, the cache may keep what a fill read before
a write, and docs/api.md's omitted fields are written back as they were read, so
without the hypothesis they are false, and `StalenessBounded` is what is left. The requests themselves, how many
they are and the evictions between are arbitrary. `SerialInv` says, stage by stage, that
what the handler holds is what the table holds (`LocalsOK`) and that the cache is coherent, in the stage
`cache` not as it is but as `CacheAfterWrite` will leave it (`CacheOK`): that is what an
incomplete invalidation would break. `OneHopStays` goes through the statements row by row (`UpdateRowRows`,
`SetAliasRows`, `OwnerRows` in LinkTable_proofs): a creation points at what was
resolved, `SetAlias` takes along the aliases of what it converts.

`LimitNearlyKept` is about any finite number of requests and any failures, and assumes
that none is an import, which does not count. `LimitInv` adds to the aliases a link
has those that passed the count for it and are about to be inserted (`Adding`): the sum never exceeds the limit by
more than the others in flight, whereas the bound on the aliases alone is not
inductive, since each insertion raises it.

**Access_proofs.** `TypeCorrect`, `ReadOnlyKeysRead`, `LastUseHonest`,
`RevokedAdminsAreOut`, `DeletesWhatWasListed`, for every setting of the chain. `AccessInv` adds to the
properties what a request carries until it is handled: its cookie, which ages with the browser's and
grants no longer than that (`CookiesInTime`); for a delete, that the id is still
the key that was listed or nobody's (`ListedOK`), which rests on ids being handed out once (`FreshIds`); and for
the goroutines left behind, that the key they will mark was presented (`TouchesOK`).

**Export_proofs.** `TypeCorrect`, `SkipsAlwaysBounded`, `RepeatsAlwaysBounded`,
`AlwaysInOrder`, `SharesAlwaysOfTheLink`, for any finite set of names and any page size. A
bound on what is missed at the end is not inductive. `SkipsOK` counts, all along, the links that are
missed already (`Missed`: behind the place in the table where the reader stands); a deletion shifts at most one over
that place. `RepeatsOK` counts those that will be met again (`Ahead`), of which a creation makes at most one more.
`OrderOK` says that no more rows than were read lie in front of any name that was read,
so the next page starts after all of them. They rest on lemmas about places in a finite set of
numbers: how a name's place changes when a member comes or goes, and that only one has a given place. `BoundsAssumption` has
enough ids for the names of the table the export starts with.

**Login_proofs.** `TypeCorrect`, `VerifierAlwaysFits` and `Implements`. The invariant
`LoginInv` pairs cookies: wherever a state is (in the jar, in an answer on its
way, in a callback sent), the verifier that goes with it is there too and lives at least
as long, provided `StateAge <= VerifierAge`, which the code's 300 s and 600 s
satisfy and `AgesAssumption` states. Rights in the jar and in answers end in time
(`RightsOK`), those of a callback still verifying included, for as long as it may yet
wait; this is the whole of the refinement of `Sessions`.

**Redirect_proofs.** `TypeCorrect`, `StalenessAlwaysBounded`, `RedirectsCountOnce` and
`AcceptedAlwaysFollowed`. The invariant `RInv` says of every copy of a row, in
the cache, in a redirect and in a writer, that it bears the name it was asked for and
that its id, if a row has it still, is that row's (`RowsOK`, `EntryOK`, `CopiesOK`,
`WriterOK`); how old each may be in each stage (`AgesOK`), which adds up to
`StalenessBounded`; and what has been counted at each stage (`CountOK`, `CountedOK`).
`AcceptedAlwaysFollowed` needs no invariant but one about texts, by the least-number principle: up to the first
separator an expansion has the host that the check compared (`BeforeAppend`,
`AcceptedExpands`), provided the action stands behind that separator, which is what the check asks. An
expansion that is no URL (`https://good/100%`, from a suffix `100%25`) is refused with the same
message and excepted (`links/advanced_domains.go:107`). It assumes
that stored targets are http URLs (`BodyAssumption`), as `ValidateTarget` ensures.

**Visit_proofs.** `ArrivesWhereAsked`, `LoginsFailOnlyOvertaken`, `FreshFormsCarriedOut`, for
any tabs and addresses and any configurations that `validate` accepts. All three speak of tabs at rest, and `VisitInv`
follows a request there. `LandsOK`: a request on its way is headed for what was asked (`Goal`:
the path, the login's destination, or the one inside the state), and a login is at the canonical address.
`AloneOK`: while nobody takes the state cookie away, the state a login travels with is the browser's, as far as
a cookie holds it (`CookieValue`), so the callback finds it. `FormOK`: a page with a form was served at the canonical address to somebody
identified, so its form is neither redirected nor sent to the login, and while nothing replaces the cookie the form's
token is the cookie's. `Answers` proves of every answer of the server what these need. That random values
differ is nowhere used: equal values are only ever taken for the same, and the properties hold all the same if two are.

Only model-checked, not proved:

- liveness (`CountsAreTaken`, `CloseStopsRunner`, `SignalExits`, `RequestsAnswered`,
  `ExportEnds`, `VisitEnds`): out of this prover's reach;
- that two conversions at a time break `NoAliasLoop`: a counterexample, which is TLC's to find.

## Where the code and the text disagree

One run refutes a sentence of the repository; `PROJECT.json` quotes it.

| run | says | does |
|---|---|---|
| alias_loop | `server/api.go:236`: "Resolve to canonical, preventing loops." | of two conversions at a time, of a to b and of b to a, the second reparents the alias just made (`db/link_repo.go:177`) and leaves a link that is an alias of itself (`server/api.go:237`) |

Smaller ones, read off the code while modelling, with no run of their own:

- `docs/security.md:184` says that stored target URLs are validated on write; a PATCH of `link_type` alone
  makes an alias a simple link with an empty target (`server/api.go:260`), which redirects to the directory of
  its own path, the root for a short name (`server/redirect.go:114`). An alias whose canonical link became an alias does the same without a suffix.
- `docs/api.md:178` says that omitted fields are unchanged; they are written back as they were
  read (`server/api.go:275`), so a concurrent change of them is undone. `OmittedFieldsUnchanged` holds
  of one request at a time only.
- `docs/deployment.md:446` gives a link changed at another replica at most one cache TTL; a fill or an `Add` that
  comes late adds the time of its request, on the local replica too (`StalenessBounded`).
- `docs/configuration.md:156` lets an empty `cache_ttl` disable expiry; `config/config.go:306`
  makes it a minute, and only "0" disables it.
- `docs/configuration.md:21` offers `http://go` as a canonical address; all cookies are
  Secure (`server/csrf.go:31`, `auth/oidc.go`), so over plain http neither a login nor a form can succeed.
  `LoginFailsOnlyIfOvertaken` and `FormsCarriedOut` except that case by name.
- `docs/deployment.md:36-44` asks for an https canonical address and no `trusted_proxy`; behind a proxy that ends TLS
  (`:94`) `server/middleware/domain.go:31` then takes every request for http and redirects it to its own URL for
  ever. `SchemeSeen`, the precondition of `VisitEnds`, is the opposite.
- `docs/links.md:173` describes the domain check as one of a dry-run's result; the code compares the static part before
  the first action (`redirect/advanced.go:154`), and `ValidateTemplate` (`:134`) is called by tests only.
- `docs/links.md:203` lets a link be shared with groups; the form demands an `@` (`server/ui.go:544`) and
  only e-mail addresses are compared (`:991`).
- An import stores templates without the domain check (`server/import.go:57`), and redirects refuse them later;
  `AcceptedIsFollowed` speaks of the other handlers.
- A redirect decides access on the alias's own row (`server/redirect.go:32`), and counts the alias although its
  canonical link may fail to resolve (`:85`).
- A refused form has replaced the CSRF cookie all the same, if its handler made a page
  first (`server/ui.go:134`), and so has invalidated every other form.
- A form that meets the login returns as a GET of its path; share and unshare have none and end as a
  link "details" that does not exist.
- `db/link_repo.go:26` speaks of the aliases there would be *after* `SetAlias`; an alias saved again
  with the same target is counted twice (`:173`) and, at the limit, refused.
- `db/usecounter_test.go:65` says that nothing is flushed before a tick; the nudge flushes at once.
- A creation through the API and an import store the `alias_target` they are sent for links that are no
  aliases too (`server/api.go:143`, `server/import.go:97`; `db/models.go:35` says the field is for aliases), and
  `CountAliases` and `SetAlias` look at no type. The form stores its URL there, which is no link's name.
- `http.SetCookie` drops `;`, `"` and `\` from the state cookie, which holds the address to return to
  (`auth/oidc.go:78-92`), and the callback compares it with the parameter, which has them (`:125`): a login for
  an address like `/x?a;b` is always refused, though the comment at `:75` says that the destination
  "survives the round-trip". `LoginFailsOnlyIfOvertaken` excepts it by name.
- The redirect to the canonical address decodes the path (`server/middleware/domain.go:46`) and so keeps the
  page but not the escapes in it; `LandsWhereAsked` allows for that.
- The session's 24 hours count from its signature (`auth/oidc.go:262`), not from when the
  groups were learned (`:153`): `SessionAge + Lag`.
- An import creates aliases without counting them (`server/import.go:97`;
  `config.template.toml:121` speaks of every link).
- After a deletion an alias may come to point at an alias (`server/api.go:363`,
  `link_actions.go:47` look one link further and no more); `AliasesStayOneHop` names
  deletions and imports as the only ways.
- A cache miss may add what it read before another request's write (`db/cache.go:39`),
  and the entry stays until it expires.
- An API key that is not in the table does not refuse the request: whoever else the chain found goes on
  (`server/apikey.go:36`).
- A session overrides the identity of Tailscale or the proxy, which ran before it, although
  `server/server.go:114` calls the order one of priority.
- An export by pages can miss a link when another is deleted meanwhile (`server/export.go:56`
  against the "full link database" of its comment); `SkipsBounded` says how many.
- A failed `GetShares` exports the link as shared with nobody.

## Not modelled, and the plan

Not modelled, and why:

- Opening and migration of the database, pages, logging and headers: no state that changes, or no decision.
- Configuration: read once. Its values are constants, and what `validate` asks of those that
  matter to a visit is `Valid` in Visit; parsing and defaults are not modelled.
- The text of names, of search expressions and of what a template's functions return: the modules
  take sets of what is accepted (`Names`, `Urls`, `Values`). ParseRequest (`redirect/parse.go`) has no caller but its tests.
- PostgreSQL under concurrent transactions: a step is one statement on a
  serial store, as SQLite's single connection gives it. `SetAlias` under READ COMMITTED
  could interleave with another; its limit test then is no better than the one of
  `addAlias`.
- A `cache_ttl` of zero, which never expires: nothing bounds how stale another replica is then.
- Users: an upsert per request of a display name that decides nothing. Listings: read-only, and their total is only
  displayed. The forwarded client address: only logged.

Order of the work: the counter and its shutdown; the table and the handlers; the
export; the login; access and keys; redirects over an expiring cache; visits; then, what is left:

1. **Proofs** — every safety property that a run checks is a theorem. Left: the redirects of Redirect as a
   refinement of an abstract, uncached redirect with a bounded delay, and how long a chain of a visit's
   redirects can be, as a safety property in the place of `VisitEnds`.
2. **Users** — the upserts that overtake each other, if the display name should ever decide anything.
