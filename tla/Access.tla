---------------------------------- MODULE Access ----------------------------------
(***************************************************************************)
(* Who a request acts as and what it may do: the authentication chain of   *)
(* buildRouter (internal/server/server.go), the guards of its routes, and  *)
(* the API keys that authenticate requests and are themselves managed by   *)
(* requests.  Several requests run concurrently with logins and logouts,   *)
(* the passing of time and the goroutines that record the use of a key.    *)
(*                                                                         *)
(* The routes fall into five classes: reading links (read), changing them  *)
(* (write), the export, and creating and deleting keys, over the API or    *)
(* the pages.  What read, write and export do is in other modules.         *)
(***************************************************************************)
EXTENDS Sessions, FiniteSets

CONSTANTS
  Procs,       (* request goroutines                                       *)
  Raws,        (* raw API keys, random and never made twice                *)
  MaxKeys,     (* bound: api_keys ids                                      *)
  Requests,    (* the requests that may be made                            *)
  HeaderAuth,  (* Tailscale or proxy authentication is enabled             *)
  HeaderAdmin, (* the user it names is in cfg.AdminEmails                  *)
  Anonymous    (* cfg.Anonymous: "off", "user" or "admin"                  *)

ASSUME ConfigAssumption ==
  /\ HeaderAuth \in BOOLEAN /\ HeaderAdmin \in BOOLEAN
  /\ Anonymous \in {"off", "user", "admin"}
ASSUME KeysAssumption ==
  /\ "" \notin Raws /\ IsFiniteSet(Raws)
  /\ MaxKeys \in Nat /\ MaxKeys <= Cardinality(Raws)

VARIABLES
  keys,     (* the api_keys table: the row under each id, or NoKey         *)
  nextKey,  (* AUTOINCREMENT                                               *)
  touches,  (* ids that goroutines will pass to UpdateLastUsed             *)
  req,      (* each request goroutine                                      *)
  issued,   (* history: the raw keys made so far                           *)
  shown     (* history: the raw keys that authenticated a request          *)

keyVars == <<keys, nextKey, touches, issued, shown>>
vars == <<sessionVars, keyVars, req>>

KeyIds == 1 .. MaxKeys
NoKey == [raw |-> "", readOnly |-> FALSE, used |-> FALSE]
Present(i) == keys[i] # NoKey

Ops == {"read", "write", "export", "createKey", "deleteKey"}
AdminOps == {"export", "createKey", "deleteKey"}
WriteOps == {"write", "createKey", "deleteKey"}

(* ui: over the pages and not the API; peer: from a trusted proxy, with    *)
(* identity headers; key: the raw API key presented; id: the key to        *)
(* delete; readOnly: of the key to create.                                 *)
Message == [op : Ops, ui : BOOLEAN, peer : BOOLEAN, key : Raws \cup {""},
            id : KeyIds \cup {0}, readOnly : BOOLEAN]

Nobody == [kind |-> "none", admin |-> FALSE, readOnly |-> FALSE]

ASSUME RequestsAssumption == Requests \subseteq Message

(* row: the row of the key presented.  For the properties: seen, the raw   *)
(* key under msg.id when the request was made.                             *)
NoMessage == [op |-> "read", ui |-> TRUE, peer |-> FALSE, key |-> "", id |-> 0,
              readOnly |-> FALSE]
IdleReq == [pc |-> "idle", msg |-> NoMessage, session |-> NoCookie,
            who |-> Nobody, row |-> NoKey, seen |-> ""]

Init ==
  /\ SessionsInit
  /\ keys = [i \in KeyIds |-> NoKey]
  /\ nextKey = 1 /\ touches = {}
  /\ req = [p \in Procs |-> IdleReq]
  /\ issued = {} /\ shown = {}

-----------------------------------------------------------------------------
(* A request is made, with the session cookie the browser has now, or by a *)
(* client without one.  A page's form names a key that the page listed.    *)

(* A page's form carries no API key, and a client has only keys that were  *)
(* made.                                                                   *)
Sendable(m) ==
  /\ m.ui => m.key = "" /\ m.op # "export"
  /\ m.key \in issued \cup {""}
  /\ m.op = "deleteKey" => m.id \in KeyIds /\ Present(m.id)

Send(p) ==
  /\ req[p].pc = "idle"
  /\ \E m \in Requests, cookie \in {session, NoCookie} :
       /\ Sendable(m)
       /\ req' = [req EXCEPT ![p] =
                    [IdleReq EXCEPT !.pc = "sent", !.msg = m, !.session = cookie,
                       !.seen = IF m.op = "deleteKey" THEN keys[m.id].raw ELSE ""]]
  /\ UNCHANGED <<sessionVars, keyVars>>

-----------------------------------------------------------------------------
(* The authentication chain, in the order of buildRouter.                  *)

Identity(kind, admin, readOnly) == [kind |-> kind, admin |-> admin, readOnly |-> readOnly]

(* TailscaleMiddleware and ProxyAuthMiddleware.                            *)
ByHeader(m) == IF HeaderAuth /\ m.peer THEN Identity("header", HeaderAdmin, FALSE) ELSE Nobody

(* A session that adds to the rights the headers gave.                     *)
BySessionKeepingRights(who, cookie) ==
  IF cookie # NoCookie
    THEN Identity("session", who.admin \/ cookie.val = "admin", FALSE) ELSE who

(* OIDCMiddleware: a valid session replaces whoever the headers named.     *)
BySession(who, cookie) ==
  IF cookie # NoCookie THEN Identity("session", cookie.val = "admin", FALSE) ELSE who

(* AnonymousMiddleware: only when nobody else was found.                   *)
ByFallback(who) ==
  IF who = Nobody /\ Anonymous # "off"
    THEN Identity("anonymous", Anonymous = "admin", FALSE) ELSE who

Row(raw) ==
  IF raw # "" /\ \E i \in KeyIds : keys[i].raw = raw
    THEN keys[CHOOSE i \in KeyIds : keys[i].raw = raw] ELSE NoKey

(* A key that only counts when nobody is logged in.                        *)
ByKeyLast(who, row) ==
  IF row # NoKey /\ who = Nobody THEN Identity("key", TRUE, row.readOnly) ELSE who

(* APIKeyMiddleware: a known key replaces everybody, an unknown one nobody.*)
ByKey(who, row) ==
  IF row # NoKey THEN Identity("key", TRUE, row.readOnly) ELSE who

Who(p) ==
  LET m == req[p].msg
      found == ByFallback(BySession(ByHeader(m), req[p].session))
  IN  IF m.ui THEN found ELSE ByKey(found, Row(m.key))

(* RequireAuth, RequireAdmin and RequireWriteScope as the routes use them. *)
Allowed(who, op) ==
  /\ who # Nobody
  /\ op \in AdminOps => who.admin
  /\ op \in WriteOps => ~who.readOnly

(* The chain runs: the key is looked up in the database, and a goroutine   *)
(* is left behind to record its use.                                       *)
Admit(p) ==
  /\ req[p].pc = "sent"
  /\ LET row == IF req[p].msg.ui THEN NoKey ELSE Row(req[p].msg.key) IN
       /\ touches' = touches \cup {i \in KeyIds : row # NoKey /\ keys[i] = row}
       /\ shown' = shown \cup ({row.raw} \ {""})
       /\ req' = [req EXCEPT ![p] =
                    IF Allowed(Who(p), req[p].msg.op)
                      THEN [req[p] EXCEPT !.pc = "handle", !.who = Who(p), !.row = row]
                      ELSE IdleReq]
  /\ UNCHANGED <<sessionVars, keys, nextKey, issued>>

-----------------------------------------------------------------------------
(* The handlers.                                                           *)

Handling(p, op) == req[p].pc = "handle" /\ req[p].msg.op = op
Answered(p) == req' = [req EXCEPT ![p] = IdleReq]

ServeOther(p) ==
  /\ \E op \in {"read", "write", "export"} : Handling(p, op)
  /\ Answered(p)
  /\ UNCHANGED <<sessionVars, keyVars>>

NewKeyRow(p, raw) == [raw |-> raw, readOnly |-> req[p].msg.readOnly, used |-> FALSE]

(* An INTEGER PRIMARY KEY without AUTOINCREMENT.                           *)
CreateKeyReusingIds(p) ==
  /\ Handling(p, "createKey")
  /\ \E i \in KeyIds, raw \in Raws \ issued :
       /\ ~Present(i) /\ \A j \in KeyIds : Present(j) => j < i
       /\ \A j \in KeyIds : j < i => Present(j)
       /\ keys' = [keys EXCEPT ![i] = NewKeyRow(p, raw)]
       /\ issued' = issued \cup {raw}
  /\ Answered(p)
  /\ UNCHANGED <<sessionVars, nextKey, touches, shown>>

CreateKey(p) ==
  /\ Handling(p, "createKey")
  /\ nextKey <= MaxKeys
  /\ \E raw \in Raws \ issued :
       /\ keys' = [keys EXCEPT ![nextKey] = NewKeyRow(p, raw)]
       /\ issued' = issued \cup {raw}
  /\ nextKey' = nextKey + 1
  /\ Answered(p)
  /\ UNCHANGED <<sessionVars, touches, shown>>

(* Deleting a key that is gone is answered with 404.                       *)
DeleteKey(p) ==
  /\ Handling(p, "deleteKey")
  /\ keys' = [keys EXCEPT ![req[p].msg.id] = NoKey]
  /\ Answered(p)
  /\ UNCHANGED <<sessionVars, nextKey, touches, issued, shown>>

(* The database fails, or the request is cancelled.                        *)
Fail(p) ==
  /\ req[p].pc \in {"sent", "handle"}
  /\ Answered(p)
  /\ UNCHANGED <<sessionVars, keyVars>>

(* UPDATE api_keys SET last_used_at, in a goroutine; or its failure.       *)
UpdateLastUsed(i) ==
  /\ i \in touches
  /\ touches' = touches \ {i}
  /\ keys' \in {keys, IF Present(i) THEN [keys EXCEPT ![i].used = TRUE] ELSE keys}
  /\ UNCHANGED <<sessionVars, nextKey, issued, shown, req>>

Browse == (NewSession \/ ChangeGroups) /\ UNCHANGED <<keyVars, req>>

(* Time passes.  A JWT is judged when the middleware sees it.              *)
Wait ==
  /\ Pass
  /\ req' = [p \in Procs |->
               IF req[p].pc = "sent" THEN [req[p] EXCEPT !.session = Older(@)] ELSE req[p]]
  /\ UNCHANGED keyVars

Next ==
  \/ \E p \in Procs :
       Send(p) \/ Admit(p) \/ ServeOther(p) \/ CreateKey(p) \/ DeleteKey(p) \/ Fail(p)
  \/ \E i \in KeyIds : UpdateLastUsed(i)
  \/ Browse \/ Wait

Spec == Init /\ [][Next]_vars

-----------------------------------------------------------------------------
(* Properties.                                                             *)

(* docs/api.md: read-only keys read and export.  A request that presents   *)
(* one changes nothing, even when it also carries an administrator's       *)
(* session or comes through a proxy that names one.                        *)
ReadOnlyKeysOnlyRead ==
  \A p \in Procs :
    req[p].pc = "handle" /\ req[p].row # NoKey /\ req[p].row.readOnly
      => req[p].msg.op \notin WriteOps

(* Rights that come from a group end with it: a session admits nobody to   *)
(* the administration SessionAge + Lag after the user left the group or    *)
(* later, whenever the login was answered and the request sent.            *)
RevokedAdminIsOut ==
  [][\A p \in Procs :
       /\ req[p].pc = "sent" /\ req'[p].pc = "handle"
       /\ req'[p].who.kind = "session" /\ req[p].msg.op \in AdminOps
       => member \/ lost < SessionAge + Lag]_vars

(* A delete decided on an old listing removes the key that was listed or   *)
(* nothing, never a key created since under the same id.                   *)
DeletesTheListedKey ==
  [][\A p \in Procs, i \in KeyIds :
       Handling(p, "deleteKey") /\ Present(i) /\ keys'[i] = NoKey /\ req'[p] # req[p]
       => keys[i].raw = req[p].seen]_vars

(* A key is recorded as used only if it was: the goroutine that records    *)
(* the use may run when the key is gone and others have been created.      *)
LastUsedIsHonest ==
  \A i \in KeyIds : keys[i].used => keys[i].raw \in shown
=============================================================================
