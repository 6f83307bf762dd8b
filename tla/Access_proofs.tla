----------------------------- MODULE Access_proofs -----------------------------
(***************************************************************************)
(* Proofs about Access, for any goroutines, keys, requests, configuration  *)
(* of the authentication chain and age of sessions.                        *)
(***************************************************************************)
EXTENDS Access, TLAPS

-----------------------------------------------------------------------------
(* The invariant.                                                          *)

KeyRow == [raw : Raws, readOnly : BOOLEAN, used : BOOLEAN]
AnyRow == KeyRow \cup {NoKey}

Identities == [kind : {"none", "header", "session", "anonymous", "key"},
               admin : BOOLEAN, readOnly : BOOLEAN]

ReqState == [pc : {"idle", "sent", "handle"}, msg : Message, session : SessionCookie,
             who : Identities, row : AnyRow, seen : Raws \cup {""}]

AccessTypeOK ==
  /\ session \in SessionCookie
  /\ member \in BOOLEAN /\ lost \in 0 .. Long
  /\ keys \in [KeyIds -> AnyRow]
  /\ nextKey \in 1 .. MaxKeys + 1
  /\ touches \subseteq KeyIds
  /\ req \in [Procs -> ReqState]

(* The cookie of the browser, and the one that each request was sent with, *)
(* grant no rights of a group for longer than that group's end allows.     *)
CookiesInTime ==
  /\ InTime(session)
  /\ \A p \in Procs : req[p].pc = "sent" => InTime(req[p].session)

(* An id that was not handed out is nobody's.                              *)
FreshIds == \A i \in KeyIds : i >= nextKey => ~Present(i)

(* What a delete will remove is still the key that was listed, or is gone. *)
ListedOK(r) ==
  r.pc # "idle" /\ r.msg.op = "deleteKey" =>
    /\ r.msg.id \in KeyIds /\ r.msg.id < nextKey
    /\ Present(r.msg.id) => keys[r.msg.id].raw = r.seen

(* What a goroutine will mark as used was presented, or is gone.           *)
TouchesOK ==
  \A i \in touches : i < nextKey /\ (Present(i) => keys[i].raw \in shown)

AccessInv ==
  /\ AccessTypeOK
  /\ CookiesInTime
  /\ FreshIds
  /\ \A p \in Procs : ListedOK(req[p])
  /\ TouchesOK
  /\ LastUsedIsHonest
  /\ ReadOnlyKeysOnlyRead

-----------------------------------------------------------------------------
(* Cookies.                                                                *)

LEMMA NoCookieIs == NoCookie.val = "" /\ NoCookie.left = 0 /\ NoCookie.left <= 1
<1>1. NoCookie.val = ""
  BY DEF NoCookie
<1>2. NoCookie.left = 0
  BY DEF NoCookie
<1>3. NoCookie.left <= 1
  BY <1>2
<1> QED
  BY <1>1, <1>2, <1>3

LEMMA SessionCookies ==
  ASSUME NEW c \in SessionCookie
  PROVE  c = NoCookie \/ (c.val \in {"admin", "user"} /\ c.left \in 1 .. SessionAge)
BY DEF SessionCookie, CookieOf

LEMMA OlderCookies ==
  ASSUME NEW c \in SessionCookie
  PROVE  /\ Older(c) \in SessionCookie
         /\ Older(c) = NoCookie \/ (Older(c).val = c.val /\ Older(c).left = c.left - 1)
<1>1. NoCookie \in SessionCookie
  BY DEF SessionCookie, CookieOf
<1>2. CASE c.left <= 1
  BY <1>1, <1>2 DEF Older
<1>3. CASE ~(c.left <= 1)
  <2>1. c # NoCookie
    BY <1>3, NoCookieIs
  <2>2. c \in [val : {"admin", "user"}, left : 1 .. SessionAge]
    BY <2>1 DEF SessionCookie, CookieOf
  <2>3. c.left - 1 \in 1 .. SessionAge
    BY <1>3, <2>2, SessionAgeAssumption
  <2>4. Older(c) = [val |-> c.val, left |-> c.left - 1]
    BY <1>3, <2>2 DEF Older
  <2>5. Older(c) \in [val : {"admin", "user"}, left : 1 .. SessionAge]
    BY <2>2, <2>3, <2>4
  <2> QED
    BY <2>4, <2>5 DEF SessionCookie, CookieOf
<1> QED
  BY <1>2, <1>3

(* A cookie that grants rights in time still does when both it and the     *)
(* loss of the rights are a tick older.                                    *)
LEMMA InTimeAges ==
  ASSUME member \in BOOLEAN, lost \in 0 .. Long, Pass,
         NEW c \in SessionCookie, InTime(c)
  PROVE  Older(c).val = "admin" => (IF member' THEN 0 ELSE lost') + Older(c).left <= SessionAge + Lag
<1> SUFFICES ASSUME Older(c).val = "admin"
             PROVE  (IF member' THEN 0 ELSE lost') + Older(c).left <= SessionAge + Lag
  OBVIOUS
<1>1. c.val = "admin" /\ Older(c).left = c.left - 1 /\ c.left \in 1 .. SessionAge
  <2>1. Older(c) # NoCookie
    BY NoCookieIs
  <2>2. c.val = "admin" /\ Older(c).left = c.left - 1
    BY <2>1, OlderCookies
  <2>3. c # NoCookie
    BY <2>2, NoCookieIs
  <2> QED
    BY <2>2, <2>3, SessionCookies
<1>2. (IF member THEN 0 ELSE lost) + c.left <= SessionAge + Lag
  BY <1>1 DEF InTime
<1>3. member' = member /\ lost' = IF member \/ lost = Long THEN lost ELSE lost + 1
  BY DEF Pass
<1> QED
  BY <1>1, <1>2, <1>3, SessionAgeAssumption DEF Long

(* Whoever leaves the group now has not lost its rights for long.          *)
LEMMA InTimeChanges ==
  ASSUME NEW c \in SessionCookie, ChangeGroups
  PROVE  c.val = "admin" => (IF member' THEN 0 ELSE lost') + c.left <= SessionAge + Lag
<1>1. lost' = 0 /\ (IF member' THEN 0 ELSE lost') = 0
  BY DEF ChangeGroups
<1>2. c.val = "admin" => c.left \in 1 .. SessionAge
  <2>1. CASE c = NoCookie
    BY <2>1, NoCookieIs
  <2> QED
    BY <2>1, SessionCookies
<1> QED
  BY <1>1, <1>2, SessionAgeAssumption

-----------------------------------------------------------------------------
(* Identities and keys.                                                    *)

LEMMA RowKinds ==
  /\ \A row \in KeyRow : row # NoKey /\ row.raw # ""
  /\ NoKey.raw = "" /\ ~NoKey.used /\ ~NoKey.readOnly
<1>1. NoKey.raw = "" /\ ~NoKey.used /\ ~NoKey.readOnly
  BY DEF NoKey
<1>2. \A row \in KeyRow : row.raw # ""
  BY KeysAssumption DEF KeyRow
<1> QED
  BY <1>1, <1>2

LEMMA RowFound ==
  ASSUME AccessTypeOK, NEW raw
  PROVE  /\ Row(raw) \in AnyRow
         /\ Row(raw) # NoKey => Row(raw) \in KeyRow /\ \E i \in KeyIds : keys[i] = Row(raw)
<1>1. CASE raw # "" /\ \E i \in KeyIds : keys[i].raw = raw
  <2> DEFINE i == CHOOSE j \in KeyIds : keys[j].raw = raw
  <2>1. i \in KeyIds /\ Row(raw) = keys[i]
    BY <1>1 DEF Row
  <2> QED
    BY <2>1 DEF AccessTypeOK, AnyRow
<1>2. CASE ~(raw # "" /\ \E i \in KeyIds : keys[i].raw = raw)
  BY <1>2 DEF Row, AnyRow
<1> QED
  BY <1>1, <1>2

(* What the chain makes of a request that was sent.                        *)
LEMMA WhoIs ==
  ASSUME AccessTypeOK, NEW p \in Procs
  PROVE  LET m == req[p].msg
             row == IF m.ui THEN NoKey ELSE Row(m.key)
         IN  /\ Who(p) \in Identities
             /\ row # NoKey => Who(p) = Identity("key", TRUE, row.readOnly)
             /\ Who(p).kind = "session" =>
                  req[p].session # NoCookie /\ (Who(p).admin => req[p].session.val = "admin")
<1> DEFINE m == req[p].msg
           cookie == req[p].session
           found == ByFallback(BySession(ByHeader(m), cookie))
           row == Row(m.key)
<1>1. req[p] \in ReqState
  BY DEF AccessTypeOK
<1>2. row \in AnyRow
  BY RowFound
<1>3. ByHeader(m) \in Identities /\ ByHeader(m).kind # "session"
  BY ConfigAssumption DEF ByHeader, Identity, Identities, Nobody
<1>4. /\ BySession(ByHeader(m), cookie) \in Identities
      /\ BySession(ByHeader(m), cookie).kind = "session" =>
           /\ cookie # NoCookie
           /\ BySession(ByHeader(m), cookie).admin => cookie.val = "admin"
  BY <1>3 DEF BySession, Identity, Identities
<1>5. /\ found \in Identities
      /\ found.kind = "session" =>
           cookie # NoCookie /\ (found.admin => cookie.val = "admin")
  <2> DEFINE who == BySession(ByHeader(m), cookie)
  <2>1. CASE found = who
    BY <1>4, <2>1
  <2>2. CASE found = Identity("anonymous", Anonymous = "admin", FALSE)
    <3> HIDE DEF found
    <3> QED
      BY <2>2 DEF Identity, Identities
  <2> QED
    BY <2>1, <2>2 DEF ByFallback
<1>6. Who(p) = IF m.ui THEN found ELSE ByKey(found, row)
  BY DEF Who
<1> HIDE DEF found, row
<1>7. CASE m.ui \/ row = NoKey
  BY <1>5, <1>6, <1>7 DEF ByKey, row
<1>8. CASE ~m.ui /\ row # NoKey
  <2>1. Who(p) = Identity("key", TRUE, row.readOnly) /\ row.readOnly \in BOOLEAN
    BY <1>2, <1>6, <1>8 DEF ByKey, AnyRow, KeyRow
  <2> QED
    BY <1>8, <2>1 DEF Identity, Identities, row
<1> QED
  BY <1>7, <1>8

LEMMA IdleTyped == IdleReq \in ReqState /\ IdleReq.pc = "idle"
<1>1. NoMessage \in Message
  BY DEF NoMessage, Message, Ops
<1>2. NoCookie \in SessionCookie
  BY DEF SessionCookie, CookieOf
<1> QED
  BY <1>1, <1>2 DEF IdleReq, ReqState, Nobody, Identities, AnyRow

-----------------------------------------------------------------------------
(* Types.                                                                  *)

(* One request changes to a typed state.                                   *)
LEMMA OneRequest ==
  ASSUME AccessTypeOK, NEW p \in Procs, NEW s \in ReqState, req' = [req EXCEPT ![p] = s]
  PROVE  /\ req' \in [Procs -> ReqState]
         /\ req'[p] = s
         /\ \A q \in Procs \ {p} : req'[q] = req[q]
BY DEF AccessTypeOK

LEMMA OneAnswered ==
  ASSUME AccessTypeOK, NEW p \in Procs, Answered(p)
  PROVE  /\ req' \in [Procs -> ReqState]
         /\ req'[p] = IdleReq
         /\ \A q \in Procs \ {p} : req'[q] = req[q]
BY IdleTyped, OneRequest DEF Answered

(* What a request is when it was sent.                                     *)
LEMMA Sent ==
  ASSUME AccessTypeOK, NEW p \in Procs, Send(p)
  PROVE  \E s \in ReqState :
           /\ req' = [req EXCEPT ![p] = s]
           /\ s.pc = "sent" /\ s.session \in {session, NoCookie}
           /\ s.row = NoKey
           /\ s.msg.op = "deleteKey" =>
                s.msg.id \in KeyIds /\ Present(s.msg.id) /\ s.seen = keys[s.msg.id].raw
<1>1. PICK m \in Requests, cookie \in {session, NoCookie} :
        /\ Sendable(m)
        /\ req' = [req EXCEPT ![p] =
             [IdleReq EXCEPT !.pc = "sent", !.msg = m, !.session = cookie,
                !.seen = IF m.op = "deleteKey" THEN keys[m.id].raw ELSE ""]]
  BY DEF Send
<1> DEFINE seen == IF m.op = "deleteKey" THEN keys[m.id].raw ELSE ""
           s == [IdleReq EXCEPT !.pc = "sent", !.msg = m, !.session = cookie, !.seen = seen]
<1>2. m \in Message
  BY RequestsAssumption
<1>3. cookie \in SessionCookie
  BY DEF AccessTypeOK, SessionCookie, CookieOf
<1>4. m.op = "deleteKey" => m.id \in KeyIds /\ Present(m.id)
  BY <1>1 DEF Sendable
<1>5. seen \in Raws \cup {""}
  <2>1. CASE m.op = "deleteKey"
    <3>1. keys[m.id] \in AnyRow
      BY <1>4, <2>1 DEF AccessTypeOK
    <3> QED
      BY <2>1, <3>1, RowKinds DEF AnyRow, KeyRow
  <2> QED
    BY <2>1
<1> HIDE DEF seen
<1>6. /\ s \in ReqState
      /\ s.pc = "sent" /\ s.session = cookie /\ s.msg = m /\ s.seen = seen
      /\ s.row = IdleReq.row
  BY <1>2, <1>3, <1>5, IdleTyped DEF ReqState
<1>7. IdleReq.row = NoKey
  BY DEF IdleReq
<1>8. req' = [req EXCEPT ![p] = s]
  BY <1>1 DEF seen
<1>9. m.op = "deleteKey" => seen = keys[m.id].raw
  BY DEF seen
<1> HIDE DEF s
<1> QED
  BY <1>4, <1>6, <1>7, <1>8, <1>9

(* What an admitted request is: allowed to do what it asks for.            *)
LEMMA Admitted ==
  ASSUME AccessTypeOK, NEW p \in Procs, Admit(p)
  PROVE  \E s \in ReqState :
           /\ req' = [req EXCEPT ![p] = s]
           /\ \/ s = IdleReq
              \/ /\ s.pc = "handle" /\ Allowed(s.who, s.msg.op)
                 /\ s.msg = req[p].msg /\ s.seen = req[p].seen
                 /\ s.who = Who(p)
                 /\ s.row = IF s.msg.ui THEN NoKey ELSE Row(s.msg.key)
<1> DEFINE row == IF req[p].msg.ui THEN NoKey ELSE Row(req[p].msg.key)
           s == [req[p] EXCEPT !.pc = "handle", !.who = Who(p), !.row = row]
<1>1. req' = [req EXCEPT ![p] = IF Allowed(Who(p), req[p].msg.op) THEN s ELSE IdleReq]
  BY DEF Admit
<1>2. req[p] \in ReqState
  BY DEF AccessTypeOK
<1>3. row \in AnyRow
  BY RowFound DEF AnyRow
<1>4. Who(p) \in Identities
  BY WhoIs
<1> HIDE DEF row
<1>5. /\ s \in ReqState /\ s.pc = "handle" /\ s.msg = req[p].msg /\ s.seen = req[p].seen
      /\ s.who = Who(p) /\ s.row = row
  BY <1>2, <1>3, <1>4 DEF ReqState
<1> HIDE DEF s
<1>6. row = IF s.msg.ui THEN NoKey ELSE Row(s.msg.key)
  BY <1>5 DEF row
<1>7. CASE Allowed(Who(p), req[p].msg.op)
  BY <1>1, <1>5, <1>6, <1>7
<1>8. CASE ~Allowed(Who(p), req[p].msg.op)
  BY <1>1, <1>8, IdleTyped
<1> QED
  BY <1>7, <1>8

(* Time in a request that is still to be admitted.                         *)
LEMMA Waited ==
  ASSUME AccessTypeOK, Wait, NEW p \in Procs
  PROVE  /\ req'[p] \in ReqState
         /\ req'[p].pc = req[p].pc /\ req'[p].msg = req[p].msg
         /\ req'[p].who = req[p].who /\ req'[p].row = req[p].row
         /\ req'[p].seen = req[p].seen
         /\ req[p].pc = "sent" => req'[p].session = Older(req[p].session)
<1>1. req[p] \in ReqState
  BY DEF AccessTypeOK
<1>2. Older(req[p].session) \in SessionCookie
  BY <1>1, OlderCookies DEF ReqState
<1>3. req'[p] = IF req[p].pc = "sent"
                  THEN [req[p] EXCEPT !.session = Older(req[p].session)] ELSE req[p]
  BY DEF Wait
<1> QED
  BY <1>1, <1>2, <1>3 DEF ReqState

LEMMA NewKeyRows ==
  ASSUME AccessTypeOK, NEW p \in Procs, NEW raw \in Raws
  PROVE  NewKeyRow(p, raw) \in KeyRow /\ NewKeyRow(p, raw).raw = raw /\ ~NewKeyRow(p, raw).used
<1>1. req[p].msg.readOnly \in BOOLEAN
  BY DEF AccessTypeOK, ReqState, Message
<1> QED
  BY <1>1 DEF NewKeyRow, KeyRow

LEMMA KeyIdsAre == KeyIds \subseteq Nat /\ MaxKeys \in Nat /\ KeyIds = 1 .. MaxKeys
<1>1. MaxKeys \in Nat
  BY KeysAssumption
<1> QED
  BY <1>1 DEF KeyIds

(* Recording a use changes one row, or none, and no raw key.               *)
LEMMA Recorded ==
  ASSUME AccessTypeOK, NEW i \in KeyIds, UpdateLastUsed(i)
  PROVE  /\ keys' \in [KeyIds -> AnyRow]
         /\ \A j \in KeyIds : /\ keys'[j].raw = keys[j].raw
                              /\ Present(j)' <=> Present(j)
                              /\ keys'[j] # keys[j] => j = i /\ Present(i)
<1>1. CASE keys' = keys
  BY <1>1 DEF AccessTypeOK, Present
<1>2. CASE Present(i) /\ keys' = [keys EXCEPT ![i].used = TRUE]
  <2> DEFINE row == [keys[i] EXCEPT !.used = TRUE]
  <2>1. keys[i] \in KeyRow
    BY <1>2 DEF AccessTypeOK, AnyRow, Present
  <2>2. row \in KeyRow /\ row.raw = keys[i].raw
    BY <2>1 DEF KeyRow
  <2>3. keys' = [keys EXCEPT ![i] = row]
    BY <1>2 DEF AccessTypeOK
  <2> HIDE DEF row
  <2>4. /\ keys' \in [KeyIds -> AnyRow] /\ keys'[i] = row
        /\ \A j \in KeyIds \ {i} : keys'[j] = keys[j]
    BY <2>2, <2>3 DEF AccessTypeOK, AnyRow
  <2>5. row # NoKey
    BY <2>2, RowKinds
  <2> QED
    BY <1>2, <2>2, <2>4, <2>5 DEF Present
<1> QED
  BY <1>1, <1>2 DEF UpdateLastUsed

LEMMA TypeStep == AccessTypeOK /\ [Next]_vars => AccessTypeOK'
<1> SUFFICES ASSUME AccessTypeOK, [Next]_vars
             PROVE  AccessTypeOK'
  OBVIOUS
<1>1. ASSUME NEW p \in Procs, Send(p) PROVE AccessTypeOK'
  <2>1. req' \in [Procs -> ReqState]
    BY <1>1, Sent, OneRequest
  <2> QED
    BY <1>1, <2>1 DEF Send, AccessTypeOK, sessionVars, keyVars
<1>2. ASSUME NEW p \in Procs, Admit(p) PROVE AccessTypeOK'
  <2>1. req' \in [Procs -> ReqState]
    BY <1>2, Admitted, OneRequest
  <2> QED
    BY <1>2, <2>1 DEF Admit, AccessTypeOK, sessionVars
<1>3. ASSUME NEW p \in Procs, ServeOther(p) \/ Fail(p) PROVE AccessTypeOK'
  BY <1>3, OneAnswered DEF ServeOther, Fail, AccessTypeOK, sessionVars, keyVars
<1>4. ASSUME NEW p \in Procs, CreateKey(p) PROVE AccessTypeOK'
  <2>1. PICK raw \in Raws \ issued : keys' = [keys EXCEPT ![nextKey] = NewKeyRow(p, raw)]
    BY <1>4 DEF CreateKey
  <2>2. keys' \in [KeyIds -> AnyRow]
    BY <2>1, NewKeyRows DEF AccessTypeOK, AnyRow
  <2>3. nextKey' \in 1 .. MaxKeys + 1
    BY <1>4, KeyIdsAre DEF CreateKey, AccessTypeOK
  <2> QED
    BY <1>4, <2>2, <2>3, OneAnswered DEF CreateKey, AccessTypeOK, sessionVars
<1>5. ASSUME NEW p \in Procs, DeleteKey(p) PROVE AccessTypeOK'
  <2>1. keys' \in [KeyIds -> AnyRow]
    BY <1>5 DEF DeleteKey, AccessTypeOK, AnyRow
  <2> QED
    BY <1>5, <2>1, OneAnswered DEF DeleteKey, AccessTypeOK, sessionVars
<1>6. ASSUME NEW i \in KeyIds, UpdateLastUsed(i) PROVE AccessTypeOK'
  BY <1>6, Recorded DEF UpdateLastUsed, AccessTypeOK, sessionVars
<1>7. CASE Browse
  <2>1. CASE NewSession
    BY <1>7, <2>1 DEF Browse, NewSession, AccessTypeOK, keyVars
  <2>2. CASE ChangeGroups
    <3>1. 0 \in 0 .. Long
      BY SessionAgeAssumption DEF Long
    <3> QED
      BY <1>7, <2>2, <3>1 DEF Browse, ChangeGroups, AccessTypeOK, keyVars
  <2> QED
    BY <1>7, <2>1, <2>2 DEF Browse
<1>8. CASE Wait
  <2>1. session' \in SessionCookie
    BY <1>8, OlderCookies DEF Wait, Pass, AccessTypeOK
  <2>2. member' \in BOOLEAN /\ lost' \in 0 .. Long
    BY <1>8, SessionAgeAssumption DEF Wait, Pass, AccessTypeOK, Long
  <2>3. req' \in [Procs -> ReqState]
    BY <1>8, Waited DEF Wait
  <2> QED
    BY <1>8, <2>1, <2>2, <2>3 DEF Wait, AccessTypeOK, keyVars
<1>9. CASE UNCHANGED vars
  BY <1>9 DEF vars, sessionVars, keyVars, AccessTypeOK
<1> QED
  BY <1>1, <1>2, <1>3, <1>4, <1>5, <1>6, <1>7, <1>8, <1>9 DEF Next

-----------------------------------------------------------------------------
(* Sessions.                                                               *)

LEMMA NoCookieInTime == InTime(NoCookie)
<1>1. NoCookie.val # "admin"
  BY NoCookieIs
<1> QED
  BY <1>1 DEF InTime

LEMMA CookiesStep == AccessTypeOK /\ CookiesInTime /\ [Next]_vars => CookiesInTime'
<1> SUFFICES ASSUME AccessTypeOK, CookiesInTime, [Next]_vars
             PROVE  CookiesInTime'
  OBVIOUS
<1>1. ASSUME UNCHANGED sessionVars,
             \A p \in Procs : req'[p] = req[p] \/ req'[p].pc # "sent"
                                \/ req'[p].session \in {session, NoCookie}
      PROVE  CookiesInTime'
  <2>1. \A c : InTime(c)' <=> InTime(c)
    BY <1>1 DEF sessionVars, InTime
  <2> QED
    BY <1>1, <2>1, NoCookieInTime DEF CookiesInTime, sessionVars
<1>2. ASSUME NEW p \in Procs, Answered(p), UNCHANGED sessionVars PROVE CookiesInTime'
  BY <1>1, <1>2, OneAnswered, IdleTyped
<1>3. ASSUME NEW p \in Procs, Send(p) PROVE CookiesInTime'
  <2>1. PICK s \in ReqState : /\ req' = [req EXCEPT ![p] = s]
                              /\ s.session \in {session, NoCookie}
    BY <1>3, Sent
  <2>2. req'[p].session \in {session, NoCookie} /\ \A q \in Procs \ {p} : req'[q] = req[q]
    BY <2>1, OneRequest
  <2>3. UNCHANGED sessionVars
    BY <1>3 DEF Send
  <2> QED
    BY <1>1, <2>2, <2>3
<1>4. ASSUME NEW p \in Procs, Admit(p) PROVE CookiesInTime'
  <2>1. PICK s \in ReqState : req' = [req EXCEPT ![p] = s] /\ s.pc # "sent"
    BY <1>4, Admitted, IdleTyped
  <2>2. req'[p].pc # "sent" /\ \A q \in Procs \ {p} : req'[q] = req[q]
    BY <2>1, OneRequest
  <2>3. UNCHANGED sessionVars
    BY <1>4 DEF Admit
  <2> QED
    BY <1>1, <2>2, <2>3
<1>5. ASSUME NEW p \in Procs, ServeOther(p) \/ CreateKey(p) \/ DeleteKey(p) \/ Fail(p)
      PROVE  CookiesInTime'
  BY <1>2, <1>5 DEF ServeOther, CreateKey, DeleteKey, Fail
<1>6. ASSUME NEW i \in KeyIds, UpdateLastUsed(i) PROVE CookiesInTime'
  BY <1>1, <1>6 DEF UpdateLastUsed
<1>7. CASE Browse /\ NewSession
  <2>1. \A c : InTime(c)' <=> InTime(c)
    BY <1>7 DEF NewSession, InTime
  <2> QED
    BY <1>7, <2>1 DEF Browse, NewSession, CookiesInTime, InTime
<1>8. CASE Browse /\ ChangeGroups
  <2>1. \A c \in SessionCookie : InTime(c)'
    BY <1>8, InTimeChanges DEF InTime
  <2>2. session' \in SessionCookie /\ \A p \in Procs : req'[p].session \in SessionCookie
    BY <1>8 DEF Browse, ChangeGroups, AccessTypeOK, ReqState
  <2> QED
    BY <2>1, <2>2 DEF CookiesInTime, InTime
<1>9. CASE Wait
  <2>1. \A c \in SessionCookie : InTime(c) =>
          (Older(c).val = "admin"
             => (IF member' THEN 0 ELSE lost') + Older(c).left <= SessionAge + Lag)
    BY <1>9, InTimeAges DEF Wait, AccessTypeOK
  <2>2. session' = Older(session) /\ session \in SessionCookie
    BY <1>9 DEF Wait, Pass, AccessTypeOK
  <2>3. ASSUME NEW p \in Procs, req'[p].pc = "sent"
        PROVE  InTime(req[p].session) /\ req[p].session \in SessionCookie
                 /\ req'[p].session = Older(req[p].session)
    <3>1. req[p].pc = "sent"
      BY <1>9, <2>3, Waited
    <3> QED
      BY <1>9, <3>1, Waited DEF CookiesInTime, AccessTypeOK, ReqState
  <2> QED
    BY <2>1, <2>2, <2>3 DEF CookiesInTime, InTime
<1>10. CASE UNCHANGED vars
  BY <1>1, <1>10 DEF vars
<1> QED
  BY <1>3, <1>4, <1>5, <1>6, <1>7, <1>8, <1>9, <1>10 DEF Next, Browse

-----------------------------------------------------------------------------
(* Read-only keys.                                                         *)

LEMMA ReadOnlyStep ==
  AccessTypeOK /\ ReadOnlyKeysOnlyRead /\ [Next]_vars => ReadOnlyKeysOnlyRead'
<1> SUFFICES ASSUME AccessTypeOK, ReadOnlyKeysOnlyRead, [Next]_vars
             PROVE  ReadOnlyKeysOnlyRead'
  OBVIOUS
<1>1. ASSUME \A p \in Procs : \/ req'[p].pc # "handle"
                              \/ /\ req'[p].pc = req[p].pc /\ req'[p].row = req[p].row
                                 /\ req'[p].msg = req[p].msg
      PROVE  ReadOnlyKeysOnlyRead'
  BY <1>1 DEF ReadOnlyKeysOnlyRead
<1>2. ASSUME NEW p \in Procs, Answered(p) PROVE ReadOnlyKeysOnlyRead'
  BY <1>1, <1>2, OneAnswered, IdleTyped
<1>3. ASSUME NEW p \in Procs, Send(p) PROVE ReadOnlyKeysOnlyRead'
  BY <1>1, <1>3, Sent, OneRequest
<1>4. ASSUME NEW p \in Procs, Admit(p) PROVE ReadOnlyKeysOnlyRead'
  <2>1. PICK s \in ReqState :
          /\ req' = [req EXCEPT ![p] = s]
          /\ \/ s = IdleReq
             \/ /\ s.pc = "handle" /\ Allowed(s.who, s.msg.op)
                /\ s.msg = req[p].msg /\ s.seen = req[p].seen
                /\ s.who = Who(p)
                /\ s.row = IF s.msg.ui THEN NoKey ELSE Row(s.msg.key)
    BY <1>4, Admitted
  <2>2. req'[p] = s /\ \A q \in Procs \ {p} : req'[q] = req[q]
    BY <2>1, OneRequest
  <2>3. ASSUME s.pc = "handle", s.row # NoKey, s.row.readOnly
        PROVE  s.msg.op \notin WriteOps
    <3>1. s # IdleReq
      BY <2>3, IdleTyped
    <3>2. s.who = Identity("key", TRUE, s.row.readOnly)
      BY <2>1, <2>3, <3>1, WhoIs
    <3>3. s.who.readOnly = s.row.readOnly
      BY <3>2 DEF Identity
    <3> QED
      BY <2>1, <2>3, <3>1, <3>3 DEF Allowed
  <2> QED
    BY <2>2, <2>3 DEF ReadOnlyKeysOnlyRead
<1>5. ASSUME NEW p \in Procs, ServeOther(p) \/ CreateKey(p) \/ DeleteKey(p) \/ Fail(p)
      PROVE  ReadOnlyKeysOnlyRead'
  BY <1>2, <1>5 DEF ServeOther, CreateKey, DeleteKey, Fail
<1>6. ASSUME NEW i \in KeyIds, UpdateLastUsed(i) PROVE ReadOnlyKeysOnlyRead'
  BY <1>1, <1>6 DEF UpdateLastUsed
<1>7. CASE Browse
  BY <1>1, <1>7 DEF Browse
<1>8. CASE Wait
  BY <1>1, <1>8, Waited
<1>9. CASE UNCHANGED vars
  BY <1>1, <1>9 DEF vars
<1> QED
  BY <1>3, <1>4, <1>5, <1>6, <1>7, <1>8, <1>9 DEF Next

-----------------------------------------------------------------------------
(* Keys.                                                                   *)

KeysOK ==
  /\ FreshIds
  /\ \A p \in Procs : ListedOK(req[p])
  /\ TouchesOK
  /\ LastUsedIsHonest

(* The requests change and the keys do not.                                *)
LEMMA ListedChange ==
  ASSUME KeysOK, nextKey \in Nat, UNCHANGED <<keys, nextKey>>,
         \A p \in Procs : \/ req'[p].pc = "idle"
                          \/ /\ req[p].pc # "idle"
                             /\ req'[p].msg = req[p].msg /\ req'[p].seen = req[p].seen
                          \/ req'[p].msg.op = "deleteKey" =>
                               /\ req'[p].msg.id \in KeyIds
                               /\ Present(req'[p].msg.id)
                               /\ req'[p].seen = keys[req'[p].msg.id].raw
  PROVE  \A p \in Procs : ListedOK(req[p])'
<1> SUFFICES ASSUME NEW p \in Procs, req'[p].pc # "idle", req'[p].msg.op = "deleteKey"
             PROVE  /\ req'[p].msg.id \in KeyIds /\ req'[p].msg.id < nextKey
                    /\ Present(req'[p].msg.id) => keys[req'[p].msg.id].raw = req'[p].seen
  BY DEF ListedOK, Present
<1>1. CASE req[p].pc # "idle" /\ req'[p].msg = req[p].msg /\ req'[p].seen = req[p].seen
  BY <1>1 DEF KeysOK, ListedOK
<1>2. CASE /\ req'[p].msg.id \in KeyIds /\ Present(req'[p].msg.id)
           /\ req'[p].seen = keys[req'[p].msg.id].raw
  BY <1>2, KeyIdsAre DEF KeysOK, FreshIds
<1> QED
  BY <1>1, <1>2

LEMMA KeysStep == AccessTypeOK /\ KeysOK /\ [Next]_vars => KeysOK'
<1> SUFFICES ASSUME AccessTypeOK, KeysOK, [Next]_vars
             PROVE  KeysOK'
  OBVIOUS
<1>0. nextKey \in Nat /\ nextKey \in 1 .. MaxKeys + 1
  BY KeyIdsAre DEF AccessTypeOK
<1>1. ASSUME UNCHANGED <<keys, nextKey, touches, shown>>, \A p \in Procs : ListedOK(req[p])'
      PROVE  KeysOK'
  BY <1>1 DEF KeysOK, FreshIds, TouchesOK, LastUsedIsHonest, Present
<1>2. ASSUME UNCHANGED <<keys, nextKey, touches, shown>>, NEW p \in Procs, Answered(p)
      PROVE  KeysOK'
  <2>1. \A q \in Procs : ListedOK(req[q])'
    BY <1>0, <1>2, OneAnswered, IdleTyped, ListedChange
  <2> QED
    BY <1>1, <1>2, <2>1
<1>3. ASSUME NEW p \in Procs, Send(p) PROVE KeysOK'
  <2>1. PICK s \in ReqState :
          /\ req' = [req EXCEPT ![p] = s]
          /\ s.msg.op = "deleteKey" =>
               s.msg.id \in KeyIds /\ Present(s.msg.id) /\ s.seen = keys[s.msg.id].raw
    BY <1>3, Sent
  <2>2. req'[p] = s /\ \A q \in Procs \ {p} : req'[q] = req[q]
    BY <2>1, OneRequest
  <2>3. UNCHANGED <<keys, nextKey, touches, shown>>
    BY <1>3 DEF Send, keyVars
  <2>4. \A q \in Procs : ListedOK(req[q])'
    BY <1>0, <2>1, <2>2, <2>3, ListedChange
  <2> QED
    BY <1>1, <2>3, <2>4
<1>4. ASSUME NEW p \in Procs, Admit(p) PROVE KeysOK'
  <2>1. PICK s \in ReqState :
          /\ req' = [req EXCEPT ![p] = s]
          /\ s = IdleReq \/ (s.msg = req[p].msg /\ s.seen = req[p].seen)
    BY <1>4, Admitted
  <2>2. req'[p] = s /\ \A q \in Procs \ {p} : req'[q] = req[q]
    BY <2>1, OneRequest
  <2>3. UNCHANGED <<keys, nextKey>> /\ req[p].pc # "idle"
    BY <1>4 DEF Admit
  <2>4. \A q \in Procs : ListedOK(req[q])'
    BY <1>0, <2>1, <2>2, <2>3, IdleTyped, ListedChange
  <2> DEFINE row == IF req[p].msg.ui THEN NoKey ELSE Row(req[p].msg.key)
  <2>5. /\ touches' = touches \cup {i \in KeyIds : row # NoKey /\ keys[i] = row}
        /\ shown' = shown \cup ({row.raw} \ {""})
    BY <1>4 DEF Admit
  <2>6. row \in AnyRow
    BY RowFound DEF AnyRow
  <2> HIDE DEF row
  <2>7. row # NoKey => row.raw \in shown'
    BY <2>5, <2>6, RowKinds DEF AnyRow
  <2>8. TouchesOK'
    <3> SUFFICES ASSUME NEW i \in touches'
                 PROVE  i < nextKey /\ (Present(i) => keys[i].raw \in shown')
      BY <2>3 DEF TouchesOK, Present
    <3>1. CASE i \in touches
      BY <2>5, <3>1 DEF KeysOK, TouchesOK
    <3>2. CASE i \in KeyIds /\ row # NoKey /\ keys[i] = row
      BY <1>0, <2>7, <3>2, KeyIdsAre DEF KeysOK, FreshIds, Present
    <3> QED
      BY <2>5, <3>1, <3>2
  <2> QED
    BY <2>3, <2>4, <2>5, <2>8 DEF KeysOK, FreshIds, LastUsedIsHonest, Present
<1>5. ASSUME NEW p \in Procs, ServeOther(p) \/ Fail(p) PROVE KeysOK'
  BY <1>2, <1>5 DEF ServeOther, Fail, keyVars
<1>6. ASSUME NEW p \in Procs, CreateKey(p) PROVE KeysOK'
  <2>1. PICK raw \in Raws \ issued : keys' = [keys EXCEPT ![nextKey] = NewKeyRow(p, raw)]
    BY <1>6 DEF CreateKey
  <2>2. nextKey \in KeyIds /\ nextKey' = nextKey + 1
    BY <1>0, <1>6, KeyIdsAre DEF CreateKey
  <2>3. keys'[nextKey] = NewKeyRow(p, raw) /\ \A i \in KeyIds \ {nextKey} : keys'[i] = keys[i]
    BY <2>1, <2>2 DEF AccessTypeOK
  <2>4. UNCHANGED <<touches, shown>>
    BY <1>6 DEF CreateKey
  <2>5. \A i \in KeyIds : i < nextKey => keys'[i] = keys[i] /\ i < nextKey'
    BY <1>0, <2>2, <2>3, KeyIdsAre
  <2>6. FreshIds'
    <3> SUFFICES ASSUME NEW i \in KeyIds, i >= nextKey'
                 PROVE  keys'[i] = NoKey
      BY DEF FreshIds, Present
    <3>1. i # nextKey /\ i >= nextKey
      BY <1>0, <2>2, KeyIdsAre
    <3> QED
      BY <2>3, <3>1 DEF KeysOK, FreshIds, Present
  <2>7. ASSUME NEW q \in Procs PROVE ListedOK(req[q])'
    <3>1. req'[q] = IdleReq \/ req'[q] = req[q]
      BY <1>6, OneAnswered DEF CreateKey
    <3>2. CASE req'[q] = IdleReq
      BY <3>2, IdleTyped DEF ListedOK
    <3>3. CASE req'[q] = req[q]
      BY <2>5, <3>3 DEF KeysOK, ListedOK, Present
    <3> QED
      BY <3>1, <3>2, <3>3
  <2>8. TouchesOK'
    BY <2>4, <2>5 DEF KeysOK, TouchesOK, Present, AccessTypeOK
  <2>9. LastUsedIsHonest'
    BY <2>3, <2>4, NewKeyRows DEF KeysOK, LastUsedIsHonest
  <2> QED
    BY <2>6, <2>7, <2>8, <2>9 DEF KeysOK
<1>7. ASSUME NEW p \in Procs, DeleteKey(p) PROVE KeysOK'
  <2>1. UNCHANGED <<nextKey, touches, shown>>
    BY <1>7 DEF DeleteKey
  <2>2. \A i \in KeyIds : keys'[i] \in {keys[i], NoKey}
    BY <1>7 DEF DeleteKey, AccessTypeOK
  <2>3. ASSUME NEW q \in Procs PROVE ListedOK(req[q])'
    <3>1. req'[q] = IdleReq \/ req'[q] = req[q]
      BY <1>7, OneAnswered DEF DeleteKey
    <3>2. CASE req'[q] = IdleReq
      BY <3>2, IdleTyped DEF ListedOK
    <3>3. CASE req'[q] = req[q]
      BY <2>1, <2>2, <3>3 DEF KeysOK, ListedOK, Present
    <3> QED
      BY <3>1, <3>2, <3>3
  <2>4. TouchesOK'
    BY <2>1, <2>2 DEF KeysOK, TouchesOK, Present, AccessTypeOK
  <2>5. LastUsedIsHonest'
    BY <2>1, <2>2, RowKinds DEF KeysOK, LastUsedIsHonest
  <2>6. FreshIds'
    BY <2>1, <2>2 DEF KeysOK, FreshIds, Present
  <2> QED
    BY <2>3, <2>4, <2>5, <2>6 DEF KeysOK
<1>8. ASSUME NEW i \in KeyIds, UpdateLastUsed(i) PROVE KeysOK'
  <2>1. /\ UNCHANGED <<nextKey, shown, req>>
        /\ i \in touches /\ touches' \subseteq touches
    BY <1>8 DEF UpdateLastUsed
  <2>2. \A j \in KeyIds : /\ keys'[j].raw = keys[j].raw
                          /\ Present(j)' <=> Present(j)
                          /\ keys'[j] # keys[j] => j = i /\ Present(i)
    BY <1>8, Recorded
  <2>3. \A q \in Procs : ListedOK(req[q])'
    BY <2>1, <2>2 DEF KeysOK, ListedOK
  <2>4. TouchesOK'
    <3> SUFFICES ASSUME NEW j \in touches'
                 PROVE  j < nextKey' /\ (Present(j)' => keys'[j].raw \in shown')
      BY DEF TouchesOK
    <3>1. j \in touches /\ j \in KeyIds
      BY <2>1 DEF AccessTypeOK
    <3> QED
      BY <2>1, <2>2, <3>1 DEF KeysOK, TouchesOK
  <2>5. LastUsedIsHonest'
    BY <2>1, <2>2 DEF KeysOK, TouchesOK, LastUsedIsHonest
  <2>6. FreshIds'
    BY <2>1, <2>2 DEF KeysOK, FreshIds
  <2> QED
    BY <2>3, <2>4, <2>5, <2>6 DEF KeysOK
<1>9. CASE Browse
  <2>1. UNCHANGED <<keys, nextKey, touches, shown, req>>
    BY <1>9 DEF Browse, keyVars
  <2>2. \A q \in Procs : ListedOK(req[q])'
    BY <2>1 DEF KeysOK, ListedOK, Present
  <2> QED
    BY <1>1, <2>1, <2>2
<1>10. CASE Wait
  <2>1. UNCHANGED <<keys, nextKey, touches, shown>>
    BY <1>10 DEF Wait, keyVars
  <2>2. \A q \in Procs : ListedOK(req[q])'
    BY <1>10, <2>1, Waited DEF KeysOK, ListedOK, Present
  <2> QED
    BY <1>1, <2>1, <2>2
<1>11. CASE UNCHANGED vars
  <2>1. UNCHANGED <<keys, nextKey, touches, shown, req>>
    BY <1>11 DEF vars, keyVars
  <2>2. \A q \in Procs : ListedOK(req[q])'
    BY <2>1 DEF KeysOK, ListedOK, Present
  <2> QED
    BY <1>1, <2>1, <2>2
<1> QED
  BY <1>3, <1>4, <1>5, <1>6, <1>7, <1>8, <1>9, <1>10, <1>11 DEF Next

-----------------------------------------------------------------------------
(* The invariant is inductive.                                             *)

LEMMA InitInv == Init => AccessInv
<1> SUFFICES ASSUME Init
             PROVE  AccessInv
  OBVIOUS
<1>1. \A i \in KeyIds : keys[i] = NoKey
  BY DEF Init
<1>2. \A p \in Procs : req[p] = IdleReq
  BY DEF Init
<1>3. AccessTypeOK
  <2>1. session \in SessionCookie /\ member \in BOOLEAN
    BY DEF Init, SessionsInit, SessionCookie, CookieOf
  <2>2. lost \in 0 .. Long
    BY SessionAgeAssumption DEF Init, SessionsInit, Long
  <2>3. nextKey \in 1 .. MaxKeys + 1
    BY KeyIdsAre DEF Init
  <2> QED
    BY <2>1, <2>2, <2>3, IdleTyped DEF Init, AccessTypeOK, AnyRow
<1>4. CookiesInTime
  BY <1>2, NoCookieInTime, IdleTyped DEF Init, SessionsInit, CookiesInTime
<1>5. KeysOK
  <2>1. \A p \in Procs : ListedOK(req[p])
    BY <1>2, IdleTyped DEF ListedOK
  <2>2. LastUsedIsHonest
    BY <1>1, RowKinds DEF LastUsedIsHonest
  <2>3. FreshIds
    BY <1>1 DEF FreshIds, Present
  <2> QED
    BY <2>1, <2>2, <2>3 DEF KeysOK, TouchesOK, Init
<1>6. ReadOnlyKeysOnlyRead
  BY <1>2, IdleTyped DEF ReadOnlyKeysOnlyRead
<1> QED
  BY <1>3, <1>4, <1>5, <1>6 DEF AccessInv, KeysOK

LEMMA Invariance == Spec => []AccessInv
<1>1. AccessInv /\ [Next]_vars => AccessInv'
  BY TypeStep, CookiesStep, KeysStep, ReadOnlyStep DEF AccessInv, KeysOK
<1> QED
  BY <1>1, InitInv, PTL DEF Spec

(* Every cookie, key, request and identity keeps its type, and no id of    *)
(* api_keys is in use that was not handed out (db/apikey_repo.go).         *)
THEOREM TypeCorrect == Spec => [](AccessTypeOK /\ FreshIds)
<1>1. AccessInv => AccessTypeOK /\ FreshIds
  BY DEF AccessInv
<1> QED
  BY <1>1, Invariance, PTL

(* A request that presents a read-only key changes nothing, whatever       *)
(* session or header it comes with (auth/apikey.go, the order of           *)
(* buildRouter in server/server.go).                                       *)
THEOREM ReadOnlyKeysRead == Spec => []ReadOnlyKeysOnlyRead
<1>1. AccessInv => ReadOnlyKeysOnlyRead
  BY DEF AccessInv
<1> QED
  BY <1>1, Invariance, PTL

(* A key marked as used was presented: the goroutine that marks it may run *)
(* late, and then finds this key or none (db/apikey_repo.go).              *)
THEOREM LastUseHonest == Spec => []LastUsedIsHonest
<1>1. AccessInv => LastUsedIsHonest
  BY DEF AccessInv
<1> QED
  BY <1>1, Invariance, PTL

(* Nobody is admitted to the administration by a session whose user left   *)
(* the group SessionAge + Lag ago or longer (auth/oidc.go,                 *)
(* auth/middleware.go).                                                    *)
THEOREM RevokedAdminsAreOut == Spec => RevokedAdminIsOut
<1> DEFINE A == \A p \in Procs :
                  /\ req[p].pc = "sent" /\ req'[p].pc = "handle"
                  /\ req'[p].who.kind = "session" /\ req[p].msg.op \in AdminOps
                  => member \/ lost < SessionAge + Lag
<1>1. AccessInv /\ [Next]_vars => [A]_vars
  <2> SUFFICES ASSUME AccessInv, Next, NEW p \in Procs,
                      req[p].pc = "sent", req'[p].pc = "handle",
                      req'[p].who.kind = "session", req[p].msg.op \in AdminOps
               PROVE  member \/ lost < SessionAge + Lag
    OBVIOUS
  <2>1. AccessTypeOK
    BY DEF AccessInv
  <2>2. Admit(p)
    <3>1. ASSUME NEW q \in Procs, Answered(q) PROVE FALSE
      BY <2>1, <3>1, OneAnswered, IdleTyped
    <3>2. ASSUME NEW q \in Procs, Send(q) PROVE FALSE
      BY <2>1, <3>2, Sent, OneRequest
    <3>3. ASSUME NEW q \in Procs \ {p}, Admit(q) PROVE FALSE
      BY <2>1, <3>3, Admitted, OneRequest
    <3>4. ASSUME NEW q \in Procs, ServeOther(q) \/ CreateKey(q) \/ DeleteKey(q) \/ Fail(q)
          PROVE  FALSE
      BY <3>1, <3>4 DEF ServeOther, CreateKey, DeleteKey, Fail
    <3>5. ~Wait
      BY <2>1, Waited
    <3>6. ~Browse /\ \A i \in KeyIds : ~UpdateLastUsed(i)
      BY DEF Browse, UpdateLastUsed
    <3> QED
      BY <3>2, <3>3, <3>4, <3>5, <3>6 DEF Next
  <2>3. PICK s \in ReqState :
          /\ req' = [req EXCEPT ![p] = s]
          /\ s = IdleReq \/ (/\ Allowed(s.who, s.msg.op) /\ s.msg = req[p].msg
                             /\ s.who = Who(p))
    BY <2>1, <2>2, Admitted
  <2>4. req'[p] = s
    BY <2>1, <2>3, OneRequest
  <2>5. /\ Allowed(Who(p), req[p].msg.op) /\ Who(p).kind = "session"
    BY <2>3, <2>4, IdleTyped
  <2>6. req[p].session # NoCookie /\ req[p].session.val = "admin"
    BY <2>1, <2>5, WhoIs DEF Allowed
  <2>7. (IF member THEN 0 ELSE lost) + req[p].session.left <= SessionAge + Lag
    BY <2>6 DEF AccessInv, CookiesInTime, InTime
  <2>8. req[p].session.left \in 1 .. SessionAge
    BY <2>1, <2>6, SessionCookies DEF AccessTypeOK, ReqState
  <2> QED
    BY <2>1, <2>7, <2>8, SessionAgeAssumption DEF AccessTypeOK, Long
<1> QED
  BY <1>1, Invariance, PTL DEF Spec, RevokedAdminIsOut

(* A delete removes the key that was listed or nothing                     *)
(* (server/apikeys_ui.go, server/apikey.go).                               *)
THEOREM DeletesWhatWasListed == Spec => DeletesTheListedKey
<1> DEFINE A == \A p \in Procs, i \in KeyIds :
                  Handling(p, "deleteKey") /\ Present(i) /\ keys'[i] = NoKey
                    /\ req'[p] # req[p]
                  => keys[i].raw = req[p].seen
<1>1. AccessInv /\ [Next]_vars => [A]_vars
  <2> SUFFICES ASSUME AccessInv, Next, NEW p \in Procs, NEW i \in KeyIds,
                      Handling(p, "deleteKey"), Present(i), keys'[i] = NoKey,
                      req'[p] # req[p]
               PROVE  keys[i].raw = req[p].seen
    OBVIOUS
  <2>1. AccessTypeOK /\ ListedOK(req[p])
    BY DEF AccessInv
  <2>2. keys' # keys
    BY DEF Present
  <2>3. DeleteKey(p)
    <3>1. \A q \in Procs : Answered(q) => q = p
      BY <2>1, OneAnswered
    <3>2. \A q \in Procs : ~CreateKey(q)
      BY <3>1 DEF CreateKey, Handling
    <3>3. \A q \in Procs : DeleteKey(q) => q = p
      BY <3>1 DEF DeleteKey
    <3> QED
      BY <2>2, <3>2, <3>3 DEF Next, Send, Admit, ServeOther, Fail, UpdateLastUsed, Browse,
                             Wait, keyVars
  <2>4. i = req[p].msg.id
    BY <2>1, <2>3 DEF DeleteKey, AccessTypeOK, Present
  <2> QED
    BY <2>1, <2>4 DEF ListedOK, Handling
<1> QED
  BY <1>1, Invariance, PTL DEF Spec, DeletesTheListedKey
=============================================================================
