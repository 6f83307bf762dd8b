------------------------------- MODULE Login_proofs -------------------------------
(* Proofs about Login, for any tabs, states and ages.                      *)
EXTENDS Login, TLAPS

(* A state cookie never outlives the verifier set with it.                 *)
Fits(state, verifier) ==
  state = NoCookie \/ (verifier.val = state.val /\ state.left <= verifier.left)

PairOK(state, verifier) ==
  UsePKCE => \/ state = Unset /\ verifier = Unset
             \/ state # Unset /\ verifier # Unset /\ Fits(state, verifier)

TabOK(t) ==
  /\ PairOK(tab[t].answer["state"], tab[t].answer["verifier"])
  /\ tab[t].pc \in {"provider", "callback"} => tab[t].state \in States
  /\ tab[t].pc = "answered" /\ tab[t].next = "provider" => tab[t].state \in States
  /\ UsePKCE /\ tab[t].pc = "callback" =>
       tab[t].sent.state = "" \/ tab[t].sent.verifier = tab[t].sent.state

(* S!InTime, for a member of the group or one who left it l ticks ago.     *)
Timely(cookie, m, l) ==
  cookie.val = "admin" => (IF m THEN 0 ELSE l) + cookie.left <= SessionAge + Lag

(* A tab that waits for the verification of the ID token heard of the      *)
(* group when the user was still in it.                                    *)
HeardOK(s, m, l) ==
  s.pc = "verifying" /\ s.groups = "admin" => m \/ l <= s.waited

RightsOK ==
  /\ Timely(jar["session"], member, lost)
  /\ \A t \in Tabs : \/ tab[t].answer["session"] = Unset
                     \/ Timely(tab[t].answer["session"], member, lost)
  /\ \A t \in Tabs : HeardOK(tab[t], member, lost)

PairsOK ==
  /\ UsePKCE => Fits(jar["state"], jar["verifier"])
  /\ \A t \in Tabs : TabOK(t)

(* The ends of the ranges that count ticks.                                *)
LEMMA Ranges ==
  /\ 0 \in 0 .. Lag /\ 0 \in 0 .. Long /\ Long \in 0 .. Long
  /\ \A l \in 0 .. Long : l # Long => l + 1 \in 0 .. Long
  /\ \A w \in 0 .. Lag : w < Lag => w + 1 \in 0 .. Lag
BY AgesAssumption DEF Long

(* A cookie that is there has a value, and ticks left.                     *)
LEMMA CookieKinds ==
  /\ \A c \in Cookie["state"] :
       c = NoCookie \/ (c.val \in States /\ c.left \in 1 .. StateAge)
  /\ \A c \in Cookie["verifier"] :
       c = NoCookie \/ (c.val \in States /\ c.left \in 1 .. VerifierAge)
  /\ \A c \in Cookie["session"] :
       c = NoCookie \/ (c.val \in {"admin", "user"} /\ c.left \in 1 .. SessionAge)
BY DEF Cookie, CookieOf

(* Unset is no cookie.                                                     *)
LEMMA UnsetIsNoCookie == Unset \notin AnyCookie /\ Unset # NoCookie
<1>1. Unset.val = "unset" /\ NoCookie.val = "" /\ Unset.left = 0
      BY DEF Unset, NoCookie
<1>2. Unset # NoCookie
      BY <1>1
<1>3. \A c \in AnyCookie : c = NoCookie \/ c.left # 0
      BY CookieKinds, AgesAssumption DEF AnyCookie
<1>4. Unset \notin AnyCookie
  <2> SUFFICES ASSUME Unset \in AnyCookie PROVE FALSE
      OBVIOUS
  <2>1. Unset.left # 0
        BY <1>2, <1>3
  <2> QED BY <1>1, <2>1
<1> QED BY <1>2, <1>4

(* No cookie stays no cookie.                                              *)
LEMMA OlderNoCookie == Older(NoCookie) = NoCookie
<1>1. NoCookie.left = 0
      BY DEF NoCookie
<1>2. NoCookie.left <= 1
      BY <1>1
<1> QED BY <1>2 DEF Older

(* A cookie stays of its kind when it ages.                                *)
LEMMA OlderTyped ==
  \A n \in CookieNames : \A c \in Cookie[n] : Older(c) \in Cookie[n]
<1> SUFFICES ASSUME NEW n \in CookieNames, NEW c \in Cookie[n]
             PROVE  Older(c) \in Cookie[n]
    OBVIOUS
<1>1. PICK vals, age : Cookie[n] = CookieOf(vals, age) /\ age \in Nat
      BY AgesAssumption DEF Cookie, CookieNames
<1>2. CASE c = NoCookie
      BY <1>1, <1>2, OlderNoCookie DEF CookieOf
<1>3. CASE c \in [val : vals, left : 1 .. age]
  <2>1. CASE c.left <= 1
        BY <1>1, <2>1 DEF Older, CookieOf
  <2>2. CASE ~(c.left <= 1)
    <3>1. c.left \in 1 .. age /\ c.left - 1 \in 1 .. age
          BY <1>1, <1>3, <2>2
    <3>2. Older(c) = [c EXCEPT !.left = c.left - 1]
          BY <2>2 DEF Older
    <3>3. Older(c) \in [val : vals, left : 1 .. age]
          BY <1>3, <3>1, <3>2
    <3> QED BY <1>1, <3>3 DEF CookieOf
  <2> QED BY <2>1, <2>2
<1> QED BY <1>1, <1>2, <1>3 DEF CookieOf

(* Every cookie of the browser and of an answer is of its kind.            *)
AnswerTyped(answer) ==
  /\ answer \in [CookieNames -> AnyCookie \cup {Unset}]
  /\ \A c \in CookieNames : answer[c] \in Cookie[c] \cup {Unset}

(* AnyCookie holds every kind.                                             *)
LEMMA CookiesAreAny == \A c \in CookieNames : Cookie[c] \subseteq AnyCookie
BY DEF Cookie, AnyCookie, CookieNames

(* The Set-Cookie headers of each handler are typed.                       *)
LEMMA AnswersTyped ==
  /\ AnswerTyped(NoAnswer)
  /\ \A s \in States : AnswerTyped(LoginCookies(s))
  /\ AnswerTyped(Cleared)
  /\ \A g \in {"admin", "user"} : AnswerTyped(WithSession(g))
  /\ AnswerTyped([NoAnswer EXCEPT !["session"] = NoCookie])
<1>1. \A c \in CookieNames : NoCookie \in Cookie[c]
      BY DEF CookieNames, Cookie, CookieOf
<1>2. AnswerTyped(NoAnswer)
      BY DEF AnswerTyped, NoAnswer
<1>3. ASSUME NEW s \in States PROVE AnswerTyped(LoginCookies(s))
  <2>1. [val |-> s, left |-> StateAge] \in Cookie["state"]
        BY AgesAssumption DEF Cookie, CookieOf
  <2>2. PKCECookie(s, VerifierAge) \in Cookie["verifier"] \cup {Unset}
        BY AgesAssumption DEF Cookie, CookieOf, PKCECookie
  <2> QED BY <2>1, <2>2, CookiesAreAny DEF AnswerTyped, LoginCookies, NoAnswer, CookieNames
<1>4. AnswerTyped(Cleared)
      BY <1>1, CookiesAreAny DEF AnswerTyped, Cleared, NoAnswer, CookieNames
<1>5. ASSUME NEW g \in {"admin", "user"} PROVE AnswerTyped(WithSession(g))
  <2>1. [val |-> g, left |-> SessionAge] \in Cookie["session"]
        BY AgesAssumption DEF Cookie, CookieOf
  <2> QED BY <1>4, <2>1, CookiesAreAny DEF AnswerTyped, WithSession, CookieNames
<1>6. AnswerTyped([NoAnswer EXCEPT !["session"] = NoCookie])
      BY <1>1, <1>2, CookiesAreAny DEF AnswerTyped, CookieNames
<1> QED BY <1>2, <1>3, <1>4, <1>5, <1>6

TabTyped(s) ==
  s \in TabState /\ AnswerTyped(s.answer) /\ (s.pc = "verifying" => s.groups # "")

(* LoginTypeOK, tab by tab.                                                *)
LEMMA TypeByTab ==
  LoginTypeOK <=>
    /\ jar \in [CookieNames -> AnyCookie]
    /\ \A c \in CookieNames : jar[c] \in Cookie[c]
    /\ tab \in [Tabs -> TabState]
    /\ \A t \in Tabs : TabTyped(tab[t])
    /\ member \in BOOLEAN /\ lost \in 0 .. Long
BY DEF LoginTypeOK, Verifying, TabTyped, AnswerTyped, TabState

(* One tab changes to a typed state, and nothing else does.                *)
LEMMA TabChange ==
  ASSUME LoginTypeOK, NEW t \in Tabs, NEW s, TabTyped(s),
         tab' = [tab EXCEPT ![t] = s], UNCHANGED <<jar, member, lost>>
  PROVE  LoginTypeOK'
<1>1. tab' \in [Tabs -> TabState] /\ \A u \in Tabs : TabTyped(tab'[u])
      BY TypeByTab DEF TabTyped
<1> QED BY <1>1, TypeByTab DEF LoginTypeOK, Verifying, TabTyped, AnswerTyped

(* What an answer does to the tab it is for.                               *)
LEMMA AnswerEffect ==
  ASSUME LoginTypeOK, NEW t \in Tabs, NEW cookies, Answer(t, cookies, "idle")
  PROVE  /\ tab'[t].answer = cookies /\ tab'[t].pc = "answered" /\ tab'[t].next = "idle"
         /\ \A u \in Tabs \ {t} : tab'[u] = tab[u]
<1>1. tab \in [Tabs -> TabState] /\ tab[t] \in TabState
      BY TypeByTab
<1>2. tab'[t] = [tab[t] EXCEPT !.pc = "answered", !.groups = "", !.waited = 0,
                               !.answer = cookies, !.next = "idle"]
      BY <1>1 DEF Answer
<1>3. \A u \in Tabs \ {t} : tab'[u] = tab[u]
      BY <1>1 DEF Answer
<1> QED BY <1>1, <1>2, <1>3 DEF TabState

(* Every variable keeps its type.                                          *)
LEMMA TypeStep == LoginTypeOK /\ [LoginNext]_loginVars => LoginTypeOK'
<1> SUFFICES ASSUME LoginTypeOK, [LoginNext]_loginVars PROVE LoginTypeOK'
    OBVIOUS
<1> USE TypeByTab
<1>1. TabTyped(IdleTab)
      BY AnswersTyped, Ranges DEF IdleTab, TabTyped, TabState, AnswerTyped
<1>2. ASSUME NEW t \in Tabs, NEW cookies, AnswerTyped(cookies),
             Answer(t, cookies, "idle"), UNCHANGED <<jar, member, lost>>
      PROVE  LoginTypeOK'
  <2> DEFINE s == [tab[t] EXCEPT !.pc = "answered", !.groups = "", !.waited = 0,
                                 !.answer = cookies, !.next = "idle"]
  <2>1. TabTyped(s)
    <3>1. tab[t] \in TabState
          OBVIOUS
    <3>2. cookies \in [CookieNames -> AnyCookie \cup {Unset}] /\ 0 \in 0 .. Lag
          BY <1>2, Ranges DEF AnswerTyped
    <3>3. s \in TabState /\ s.answer = cookies /\ s.pc = "answered"
          BY <3>1, <3>2 DEF TabState
    <3> HIDE DEF s
    <3> QED BY <1>2, <3>3 DEF TabTyped
  <2>2. tab' = [tab EXCEPT ![t] = s]
        BY <1>2 DEF Answer, TabState
  <2> HIDE DEF s
  <2> QED BY <1>2, <2>1, <2>2, TabChange
<1>3. ASSUME NEW t \in Tabs, HandleLogin(t) PROVE LoginTypeOK'
  <2>1. PICK s \in States : tab' = [tab EXCEPT ![t] =
          [IdleTab EXCEPT !.pc = "answered", !.state = s, !.answer = LoginCookies(s),
                          !.next = "provider"]]
        BY <1>3 DEF HandleLogin
  <2>2. TabTyped([IdleTab EXCEPT !.pc = "answered", !.state = s,
                    !.answer = LoginCookies(s), !.next = "provider"])
        BY <1>1, AnswersTyped DEF TabTyped, TabState, AnswerTyped
  <2> QED BY <1>3, <2>1, <2>2, TabChange DEF HandleLogin
<1>4. ASSUME NEW t \in Tabs, SendCallback(t) PROVE LoginTypeOK'
  <2> DEFINE sent == [state |-> jar["state"].val, verifier |-> jar["verifier"].val]
             s == [tab[t] EXCEPT !.pc = "callback", !.sent = sent]
  <2>1. sent \in [state : States \cup {""}, verifier : States \cup {""}]
    <3>1. NoCookie.val = ""
          BY DEF NoCookie
    <3>2. jar["state"] \in Cookie["state"] /\ jar["verifier"] \in Cookie["verifier"]
          BY DEF CookieNames
    <3>3. jar["state"].val \in States \cup {""}
          BY <3>1, <3>2, CookieKinds
    <3>4. jar["verifier"].val \in States \cup {""}
          BY <3>1, <3>2, CookieKinds
    <3> QED BY <3>3, <3>4
  <2> HIDE DEF sent
  <2>2. TabTyped(s)
    <3>1. tab[t] \in TabState /\ AnswerTyped(tab[t].answer)
          BY DEF TabTyped
    <3>2. s \in TabState /\ s.answer = tab[t].answer /\ s.pc = "callback"
          BY <2>1, <3>1 DEF TabState
    <3> HIDE DEF s
    <3> QED BY <3>1, <3>2 DEF TabTyped
  <2>3. tab' = [tab EXCEPT ![t] = s]
        BY <1>4 DEF SendCallback, TabState, sent
  <2> HIDE DEF s
  <2> QED BY <1>4, <2>2, <2>3, TabChange DEF SendCallback
<1>5. ASSUME NEW t \in Tabs, Abandon(t) PROVE LoginTypeOK'
      BY <1>1, <1>5, TabChange DEF Abandon
<1>6. ASSUME NEW t \in Tabs, RefuseState(t) \/ RefuseLogin(t) \/ IssueSession(t)
                             \/ HandleLogout(t)
      PROVE  LoginTypeOK'
  <2>1. CASE RefuseState(t) \/ RefuseLogin(t) \/ HandleLogout(t)
        BY <1>2, <2>1, AnswersTyped DEF RefuseState, RefuseLogin, HandleLogout
  <2>2. CASE IssueSession(t)
    <3>1. tab[t].groups \in {"admin", "user"}
          BY <2>2 DEF IssueSession, TabTyped, TabState
    <3> QED BY <1>2, <2>2, <3>1, AnswersTyped DEF IssueSession
  <2> QED BY <1>6, <2>1, <2>2
<1>11. ASSUME NEW t \in Tabs, Exchange(t) PROVE LoginTypeOK'
  <2> DEFINE s == [tab[t] EXCEPT !.pc = "verifying",
                                 !.groups = IF member THEN "admin" ELSE "user"]
  <2>1. TabTyped(s)
    <3>1. tab[t] \in TabState /\ AnswerTyped(tab[t].answer)
          BY DEF TabTyped
    <3>2. /\ s \in TabState /\ s.answer = tab[t].answer
          /\ s.groups = IF member THEN "admin" ELSE "user"
          BY <3>1 DEF TabState
    <3> HIDE DEF s
    <3> QED BY <3>1, <3>2 DEF TabTyped
  <2>2. tab' = [tab EXCEPT ![t] = s]
        BY <1>11 DEF Exchange, TabState
  <2> HIDE DEF s
  <2> QED BY <1>11, <2>1, <2>2, TabChange DEF Exchange
<1>7. ASSUME NEW t \in Tabs, Receive(t) PROVE LoginTypeOK'
  <2> DEFINE s == [IdleTab EXCEPT !.pc = tab[t].next,
                     !.state = IF tab[t].next = "provider" THEN tab[t].state ELSE ""]
  <2>1. TabTyped(s)
        BY <1>1 DEF TabTyped, TabState, AnswerTyped
  <2>2. tab' = [tab EXCEPT ![t] = s]
        BY <1>7 DEF Receive
  <2> HIDE DEF s
  <2>3. tab' \in [Tabs -> TabState] /\ \A u \in Tabs : TabTyped(tab'[u])
        BY <2>1, <2>2 DEF TabTyped
  <2>4. \A c \in CookieNames : jar'[c] \in Cookie[c]
        BY <1>7 DEF Receive, TabTyped, AnswerTyped
  <2>5. jar' \in [CookieNames -> AnyCookie]
        BY <1>7, <2>4, CookiesAreAny DEF Receive
  <2> QED BY <1>7, <2>3, <2>4, <2>5 DEF Receive, LoginTypeOK, Verifying, TabTyped, AnswerTyped
<1>8. ASSUME ChangeGroups PROVE LoginTypeOK'
      BY <1>8, Ranges DEF ChangeGroups, LoginTypeOK, Verifying
<1>9. ASSUME Tick PROVE LoginTypeOK'
  <2>1. \A c \in CookieNames : jar'[c] \in Cookie[c]
        BY <1>9, OlderTyped DEF Tick
  <2>2. jar' \in [CookieNames -> AnyCookie]
        BY <1>9, <2>1, CookiesAreAny DEF Tick
  <2>3. ASSUME NEW u \in Tabs PROVE TabTyped(tab'[u])
    <3> DEFINE a == OlderAnswer(tab[u].answer)
               w == IF Verifying(u) THEN tab[u].waited + 1 ELSE tab[u].waited
    <3>1. AnswerTyped(tab[u].answer)
          BY DEF TabTyped
    <3>2. AnswerTyped(a)
          BY <3>1, OlderTyped, CookiesAreAny DEF AnswerTyped, OlderAnswer, CookieNames
    <3>3. w \in 0 .. Lag
          BY <1>9, Ranges DEF Tick, TabTyped, TabState
    <3> HIDE DEF a, w
    <3>4. tab'[u] = [tab[u] EXCEPT !.answer = a, !.waited = w]
          BY <1>9 DEF Tick, a, w
    <3> QED BY <3>2, <3>3, <3>4 DEF TabTyped, TabState, AnswerTyped
  <2>4. tab' \in [Tabs -> TabState]
        BY <1>9, <2>3 DEF Tick, TabTyped
  <2>5. member' \in BOOLEAN /\ lost' \in 0 .. Long
        BY <1>9, Ranges DEF Tick
  <2> QED BY <2>1, <2>2, <2>3, <2>4, <2>5 DEF LoginTypeOK, Verifying, TabTyped, AnswerTyped
<1>10. CASE UNCHANGED loginVars
       BY <1>10 DEF loginVars, LoginTypeOK, Verifying
<1> QED BY <1>3, <1>4, <1>5, <1>6, <1>7, <1>8, <1>9, <1>10, <1>11
        DEF LoginNext, LoginStep

(* PairsOK, tab by tab: what the tab that acts needs.                      *)
LEMMA PairsChange ==
  ASSUME LoginTypeOK, PairsOK, NEW t \in Tabs, UNCHANGED jar,
         \A u \in Tabs \ {t} : tab'[u] = tab[u], TabOK(t)'
  PROVE  PairsOK'
BY DEF PairsOK, TabOK

(* The pairs of cookies that the handlers set or clear fit.                *)
LEMMA AnswersPaired ==
  /\ PairOK(Unset, Unset)
  /\ PairOK(NoAnswer["state"], NoAnswer["verifier"])
  /\ PairOK(Cleared["state"], Cleared["verifier"])
  /\ \A g : PairOK(WithSession(g)["state"], WithSession(g)["verifier"])
  /\ \A s \in States : PairOK(LoginCookies(s)["state"], LoginCookies(s)["verifier"])
<1>1. NoCookie # Unset
      BY UnsetIsNoCookie
<1>2. PairOK(NoCookie, NoCookie)
      BY <1>1 DEF PairOK, Fits
<1>3. ASSUME NEW s \in States
      PROVE  PairOK(LoginCookies(s)["state"], LoginCookies(s)["verifier"])
  <2> DEFINE c == [val |-> s, left |-> StateAge]
             v == [val |-> s, left |-> VerifierAge]
  <2>1. LoginCookies(s)["state"] = c
        BY DEF LoginCookies, NoAnswer, CookieNames
  <2>2. UsePKCE => LoginCookies(s)["verifier"] = v
        BY DEF LoginCookies, NoAnswer, CookieNames, PKCECookie
  <2>3. c # Unset /\ v # Unset
        BY AgesAssumption DEF Unset
  <2>4. Fits(c, v)
        BY AgesAssumption DEF Fits
  <2> HIDE DEF c, v
  <2> QED BY <2>1, <2>2, <2>3, <2>4 DEF PairOK
<1> QED BY <1>1, <1>2, <1>3 DEF PairOK, NoAnswer, Cleared, WithSession, CookieNames

(* A pair that fits still fits when both cookies age.                      *)
LEMMA FitsAge ==
  ASSUME NEW c \in Cookie["state"], NEW v \in Cookie["verifier"], Fits(c, v)
  PROVE  Fits(Older(c), Older(v))
<1>1. NoCookie.left = 0 /\ NoCookie.val = ""
      BY DEF NoCookie
<1>2. CASE c = NoCookie \/ c.left <= 1
  <2>1. Older(c) = NoCookie
    <3>1. CASE c.left <= 1
          BY <3>1 DEF Older
    <3>2. CASE c = NoCookie
          BY <3>2, OlderNoCookie
    <3> QED BY <1>2, <3>1, <3>2
  <2> QED BY <2>1 DEF Fits
<1>3. CASE c # NoCookie /\ ~(c.left <= 1)
  <2>1. c \in [val : States, left : 1 .. StateAge]
        BY <1>3 DEF Cookie, CookieOf
  <2>2. v \in [val : States, left : 1 .. VerifierAge] \/ v = NoCookie
        BY DEF Cookie, CookieOf
  <2>3. c.val = v.val /\ c.left <= v.left
        BY <1>3 DEF Fits
  <2>4. v # NoCookie
    <3>1. c.val \in States
          BY <2>1
    <3>2. c.val # ""
          BY <3>1, StatesAssumption
    <3> QED BY <1>1, <2>3, <3>2
  <2>5. ~(v.left <= 1)
        BY <1>3, <2>1, <2>2, <2>3, <2>4
  <2>6. Older(c).val = c.val /\ Older(c).left = c.left - 1
        BY <1>3, <2>1 DEF Older
  <2>7. Older(v).val = v.val /\ Older(v).left = v.left - 1
        BY <2>2, <2>4, <2>5 DEF Older
  <2>8. c.left - 1 <= v.left - 1
        BY <2>1, <2>2, <2>3, <2>4
  <2> QED BY <2>3, <2>6, <2>7, <2>8 DEF Fits
<1> QED BY <1>2, <1>3

(* The cookies that are set, on their way and sent always fit in pairs.    *)
LEMMA PairsStep == LoginTypeOK /\ PairsOK /\ [LoginNext]_loginVars => PairsOK'
<1> SUFFICES ASSUME LoginTypeOK, PairsOK, [LoginNext]_loginVars PROVE PairsOK'
    OBVIOUS
<1> USE TypeByTab, AnswersPaired
<1>1. ASSUME NEW t \in Tabs, NEW cookies, NEW g, cookies \in {NoAnswer, Cleared,
               WithSession(g), [NoAnswer EXCEPT !["session"] = NoCookie]},
             Answer(t, cookies, "idle"), UNCHANGED jar
      PROVE  PairsOK'
  <2>1. tab'[t].answer = cookies /\ tab'[t].pc = "answered" /\ tab'[t].next = "idle"
        BY <1>1, AnswerEffect
  <2>2. PairOK(cookies["state"], cookies["verifier"])
        BY <1>1 DEF NoAnswer, CookieNames
  <2>3. TabOK(t)'
        BY <2>1, <2>2 DEF TabOK
  <2> QED BY <1>1, <2>3, PairsChange, AnswerEffect
<1>2. ASSUME NEW t \in Tabs, HandleLogin(t) PROVE PairsOK'
  <2>1. PICK s \in States : tab' = [tab EXCEPT ![t] =
          [IdleTab EXCEPT !.pc = "answered", !.state = s, !.answer = LoginCookies(s),
                          !.next = "provider"]]
        BY <1>2 DEF HandleLogin
  <2>2. tab'[t].pc = "answered" /\ tab'[t].state = s /\ tab'[t].answer = LoginCookies(s)
        BY <2>1 DEF IdleTab
  <2>3. TabOK(t)'
        BY <2>2 DEF TabOK
  <2> QED BY <1>2, <2>1, <2>3, PairsChange DEF HandleLogin
<1>3. ASSUME NEW t \in Tabs, SendCallback(t) PROVE PairsOK'
  <2>1. /\ tab'[t].pc = "callback" /\ tab'[t].state = tab[t].state
        /\ tab'[t].answer = tab[t].answer
        /\ tab'[t].sent = [state |-> jar["state"].val, verifier |-> jar["verifier"].val]
        BY <1>3 DEF SendCallback, TabState
  <2>2. UsePKCE => jar["state"].val = "" \/ jar["verifier"].val = jar["state"].val
    <3>1. NoCookie.val = ""
          BY DEF NoCookie
    <3>2. UsePKCE => Fits(jar["state"], jar["verifier"])
          BY DEF PairsOK
    <3> QED BY <3>1, <3>2 DEF Fits
  <2>3. TabOK(t)'
    <3>1. tab[t].pc = "provider" /\ TabOK(t)
          BY <1>3 DEF SendCallback, PairsOK
    <3>2. /\ PairOK(tab'[t].answer["state"], tab'[t].answer["verifier"])
          /\ tab'[t].state \in States
          BY <2>1, <3>1 DEF TabOK
    <3>3. tab'[t].sent.state = jar["state"].val /\ tab'[t].sent.verifier = jar["verifier"].val
          BY <2>1
    <3> QED BY <2>1, <2>2, <3>2, <3>3 DEF TabOK
  <2> QED BY <1>3, <2>3, PairsChange DEF SendCallback
<1>4. ASSUME NEW t \in Tabs, Abandon(t) PROVE PairsOK'
  <2>1. tab'[t] = IdleTab
        BY <1>4 DEF Abandon
  <2>2. TabOK(t)'
    <3>1. tab'[t].answer = NoAnswer /\ tab'[t].pc = "idle"
      <4>1. IdleTab.answer = NoAnswer /\ IdleTab.pc = "idle"
            BY DEF IdleTab
      <4> QED BY <2>1, <4>1
    <3> QED BY <3>1 DEF TabOK
  <2> QED BY <1>4, <2>2, PairsChange DEF Abandon
<1>5. ASSUME NEW t \in Tabs, RefuseState(t) \/ RefuseLogin(t) \/ IssueSession(t)
                             \/ HandleLogout(t)
      PROVE  PairsOK'
      BY <1>1, <1>5 DEF RefuseState, RefuseLogin, IssueSession, HandleLogout
<1>10. ASSUME NEW t \in Tabs, Exchange(t) PROVE PairsOK'
  <2>1. tab'[t].pc = "verifying" /\ tab'[t].answer = tab[t].answer
        BY <1>10 DEF Exchange, TabState
  <2>2. TabOK(t)'
        BY <2>1 DEF TabOK, PairsOK
  <2> QED BY <1>10, <2>2, PairsChange DEF Exchange
<1>6. ASSUME NEW t \in Tabs, Receive(t) PROVE PairsOK'
  <2>1. PairOK(tab[t].answer["state"], tab[t].answer["verifier"])
        BY DEF PairsOK, TabOK
  <2>2. UsePKCE => Fits(jar'["state"], jar'["verifier"])
        BY <1>6, <2>1 DEF Receive, PairOK, PairsOK, CookieNames
  <2> DEFINE s == [IdleTab EXCEPT !.pc = tab[t].next,
                     !.state = IF tab[t].next = "provider" THEN tab[t].state ELSE ""]
  <2>3. /\ s.pc = tab[t].next /\ s.answer = NoAnswer
        /\ s.state = IF tab[t].next = "provider" THEN tab[t].state ELSE ""
        BY DEF IdleTab
  <2>4. tab' = [tab EXCEPT ![t] = s]
        BY <1>6 DEF Receive
  <2> HIDE DEF s
  <2>5. tab'[t] = s /\ \A u \in Tabs \ {t} : tab'[u] = tab[u]
        BY <2>4
  <2>6. tab[t].next \in {"idle", "provider"} /\ tab[t].pc = "answered"
        BY <1>6 DEF Receive, TabState
  <2>7. s.pc = "provider" => s.state \in States
        BY <2>3, <2>6 DEF PairsOK, TabOK
  <2>8. TabOK(t)'
        BY <2>3, <2>5, <2>6, <2>7 DEF TabOK
  <2> QED BY <2>2, <2>5, <2>8 DEF PairsOK, TabOK
<1>7. ASSUME ChangeGroups PROVE PairsOK'
      BY <1>7 DEF ChangeGroups, PairsOK, TabOK
<1>8. ASSUME Tick PROVE PairsOK'
  <2>1. UsePKCE => Fits(jar'["state"], jar'["verifier"])
        BY <1>8, FitsAge DEF Tick, PairsOK, CookieNames
  <2>2. ASSUME NEW u \in Tabs PROVE TabOK(u)'
    <3> DEFINE a == OlderAnswer(tab[u].answer)
    <3>1. a["state"] = tab[u].answer["state"] /\ a["verifier"] = tab[u].answer["verifier"]
          BY DEF OlderAnswer, TabState, CookieNames
    <3> HIDE DEF a
    <3>2. tab'[u] = [tab[u] EXCEPT !.answer = a, !.waited =
                       IF Verifying(u) THEN tab[u].waited + 1 ELSE tab[u].waited]
          BY <1>8 DEF Tick, a
    <3>3. /\ tab'[u].answer = a /\ tab'[u].pc = tab[u].pc /\ tab'[u].next = tab[u].next
          /\ tab'[u].state = tab[u].state /\ tab'[u].sent = tab[u].sent
      <4>1. tab[u] \in TabState
            OBVIOUS
      <4> QED BY <3>2, <4>1 DEF TabState
    <3> QED BY <3>1, <3>3 DEF PairsOK, TabOK
  <2> QED BY <2>1, <2>2 DEF PairsOK
<1>9. CASE UNCHANGED loginVars
      BY <1>9 DEF loginVars, PairsOK, TabOK
<1> QED BY <1>2, <1>3, <1>4, <1>5, <1>6, <1>7, <1>8, <1>9, <1>10
        DEF LoginNext, LoginStep

(* A session that grants rights in time still does when a tick passes.     *)
LEMMA TimelyAge ==
  ASSUME NEW c \in Cookie["session"], NEW m \in BOOLEAN, NEW l \in 0 .. Long,
         Timely(c, m, l)
  PROVE  Timely(Older(c), m, IF m \/ l = Long THEN l ELSE l + 1)
<1>1. NoCookie.val = ""
      BY DEF NoCookie
<1>2. CASE Older(c) = NoCookie
      BY <1>1, <1>2 DEF Timely
<1>3. CASE Older(c) # NoCookie
  <2>1. ~(c.left <= 1) /\ Older(c) = [c EXCEPT !.left = @ - 1]
        BY <1>3 DEF Older
  <2>2. c \in [val : {"admin", "user"}, left : 1 .. SessionAge]
    <3>1. NoCookie.left = 0
          BY DEF NoCookie
    <3>2. c # NoCookie
          BY <2>1, <3>1
    <3> QED BY <3>2 DEF Cookie, CookieOf
  <2>3. Older(c).val = c.val /\ Older(c).left = c.left - 1
        BY <2>1, <2>2
  <2>4. SessionAge \in Nat /\ Lag \in Nat /\ c.left \in 1 .. SessionAge
        BY <2>2, AgesAssumption
  <2>5. CASE c.val = "admin"
    <3>1. (IF m THEN 0 ELSE l) + c.left <= SessionAge + Lag
          BY <2>5 DEF Timely
    <3>2. (IF m THEN 0 ELSE IF m \/ l = Long THEN l ELSE l + 1) + (c.left - 1)
            <= SessionAge + Lag
          BY <2>4, <3>1
    <3> QED BY <2>3, <3>2 DEF Timely
  <2>6. CASE c.val # "admin"
        BY <2>3, <2>6 DEF Timely
  <2> QED BY <2>5, <2>6
<1> QED BY <1>2, <1>3

(* No session, at the browser or on its way, grants rights too long.       *)
LEMMA RightsStep == LoginTypeOK /\ RightsOK /\ [LoginNext]_loginVars => RightsOK'
<1> SUFFICES ASSUME LoginTypeOK, RightsOK, [LoginNext]_loginVars PROVE RightsOK'
    OBVIOUS
<1> USE TypeByTab
<1>1. ASSUME NEW t \in Tabs, NEW a, a = Unset \/ Timely(a, member, lost), UNCHANGED <<jar, member, lost>>,
             \A u \in Tabs \ {t} : tab'[u] = tab[u], tab'[t].answer["session"] = a,
             HeardOK(tab'[t], member, lost)
      PROVE  RightsOK'
      BY <1>1 DEF RightsOK, Timely, HeardOK
<1>2. NoAnswer["session"] = Unset /\ Cleared["session"] = Unset
      /\ \A s \in States : LoginCookies(s)["session"] = Unset
      BY DEF NoAnswer, Cleared, LoginCookies, CookieNames
<1>3. \A g : WithSession(g)["session"] = [val |-> g, left |-> SessionAge]
      BY DEF WithSession, Cleared, NoAnswer, CookieNames
<1>4. ASSUME NEW t \in Tabs, IssueSession(t)
      PROVE  Timely(WithSession(tab[t].groups)["session"], member, lost)
  <2>1. tab[t].groups = "admin" => member \/ lost <= tab[t].waited
        BY <1>4 DEF IssueSession, RightsOK, HeardOK
  <2>2. tab[t].waited \in 0 .. Lag /\ lost \in 0 .. Long
        BY DEF TabTyped, TabState
  <2>3. /\ lost \in Nat /\ SessionAge \in Nat /\ Lag \in Nat
        /\ tab[t].waited \in Nat /\ tab[t].waited <= Lag
        BY <2>2, AgesAssumption DEF Long
  <2>4. tab[t].groups = "admin" => (IF member THEN 0 ELSE lost) + SessionAge <= SessionAge + Lag
        BY <2>1, <2>2, <2>3
  <2> DEFINE c == WithSession(tab[t].groups)["session"]
  <2>5. c = [val |-> tab[t].groups, left |-> SessionAge]
        BY <1>3
  <2> HIDE DEF c
  <2>6. Timely(c, member, lost)
        BY <2>4, <2>5 DEF Timely
  <2> QED BY <2>6 DEF c
<1>5. Timely(NoCookie, member, lost)
      BY DEF Timely, NoCookie
<1>6. [NoAnswer EXCEPT !["session"] = NoCookie]["session"] = NoCookie
      BY DEF NoAnswer, CookieNames
<1>7. IdleTab.answer = NoAnswer /\ IdleTab.pc = "idle"
      BY DEF IdleTab
<1>8. ASSUME NEW t \in Tabs, HandleLogin(t) PROVE RightsOK'
  <2>1. PICK s \in States : tab' = [tab EXCEPT ![t] =
          [IdleTab EXCEPT !.pc = "answered", !.state = s, !.answer = LoginCookies(s),
                          !.next = "provider"]]
        BY <1>8 DEF HandleLogin
  <2>2. tab'[t].answer = LoginCookies(s) /\ tab'[t].pc = "answered"
        BY <2>1 DEF IdleTab
  <2> QED BY <1>1, <1>2, <1>8, <2>1, <2>2 DEF HandleLogin, HeardOK
<1>9. ASSUME NEW t \in Tabs, SendCallback(t) PROVE RightsOK'
  <2>1. tab'[t].answer = tab[t].answer /\ tab'[t].pc = "callback"
        BY <1>9 DEF SendCallback, TabState
  <2> QED BY <1>1, <1>9, <2>1 DEF SendCallback, RightsOK, HeardOK
<1>17. ASSUME NEW t \in Tabs, Exchange(t) PROVE RightsOK'
  <2>1. /\ tab'[t].answer = tab[t].answer
        /\ tab'[t].groups = IF member THEN "admin" ELSE "user"
        BY <1>17 DEF Exchange, TabState
  <2> QED BY <1>1, <1>17, <2>1 DEF Exchange, RightsOK, HeardOK
<1>10. ASSUME NEW t \in Tabs, Abandon(t) PROVE RightsOK'
       BY <1>1, <1>2, <1>7, <1>10 DEF Abandon, HeardOK
<1>11. ASSUME NEW t \in Tabs, NEW cookies, Answer(t, cookies, "idle"),
              cookies["session"] = Unset \/ Timely(cookies["session"], member, lost),
              UNCHANGED <<jar, member, lost>>
       PROVE  RightsOK'
  <2>1. /\ tab'[t].answer = cookies /\ tab'[t].pc = "answered"
        /\ \A u \in Tabs \ {t} : tab'[u] = tab[u]
        BY <1>11, AnswerEffect
  <2> QED BY <1>1, <1>11, <2>1 DEF HeardOK
<1>12. ASSUME NEW t \in Tabs, RefuseState(t) \/ RefuseLogin(t) \/ IssueSession(t)
                              \/ HandleLogout(t)
       PROVE  RightsOK'
       BY <1>2, <1>3, <1>4, <1>5, <1>6, <1>11, <1>12
          DEF RefuseState, RefuseLogin, IssueSession, HandleLogout
<1>13. ASSUME NEW t \in Tabs, Receive(t) PROVE RightsOK'
  <2>1. jar'["session"] \in {jar["session"], tab[t].answer["session"]}
        /\ (tab[t].answer["session"] = Unset => jar'["session"] = jar["session"])
        BY <1>13 DEF Receive, CookieNames
  <2>2. Timely(jar'["session"], member, lost)
        BY <2>1 DEF RightsOK
  <2>3. Timely(jar'["session"], member', lost')
        BY <1>13, <2>2 DEF Receive, Timely
  <2>4. tab'[t].answer = NoAnswer /\ tab'[t].pc # "verifying"
        /\ \A u \in Tabs \ {t} : tab'[u] = tab[u]
    <3> DEFINE s == [IdleTab EXCEPT !.pc = tab[t].next,
                       !.state = IF tab[t].next = "provider" THEN tab[t].state ELSE ""]
    <3>1. s.answer = NoAnswer /\ s.pc # "verifying"
          BY <1>13 DEF IdleTab, TabTyped, TabState
    <3>2. tab' = [tab EXCEPT ![t] = s]
          BY <1>13 DEF Receive
    <3> HIDE DEF s
    <3> QED BY <3>1, <3>2
  <2> QED BY <1>2, <1>13, <2>3, <2>4 DEF Receive, RightsOK, Timely, HeardOK
<1>14. ASSUME ChangeGroups PROVE RightsOK'
  <2>1. ASSUME NEW c \in Cookie["session"] PROVE Timely(c, member', lost')
    <3>1. c.val = "admin" => c.left \in 1 .. SessionAge
      <4>1. NoCookie.val = ""
            BY DEF NoCookie
      <4> QED BY <4>1, CookieKinds
    <3>2. (IF member' THEN 0 ELSE lost') = 0
          BY <1>14 DEF ChangeGroups
    <3> QED BY <3>1, <3>2, AgesAssumption DEF Timely
  <2>2. \A t \in Tabs : tab[t].answer["session"] \in Cookie["session"] \cup {Unset}
        BY DEF TabTyped, AnswerTyped, CookieNames
  <2>3. jar["session"] \in Cookie["session"]
        BY DEF CookieNames
  <2>4. ASSUME NEW t \in Tabs PROVE tab'[t].waited >= 0
    <3>1. tab[t].waited \in 0 .. Lag /\ tab'[t] = tab[t]
          BY <1>14 DEF ChangeGroups, TabTyped, TabState
    <3> QED BY <3>1, AgesAssumption
  <2> QED BY <1>14, <2>1, <2>2, <2>3, <2>4 DEF ChangeGroups, RightsOK, Timely, HeardOK
<1>15. ASSUME Tick PROVE RightsOK'
  <2>1. Timely(Older(jar["session"]), member', lost')
        BY <1>15, TimelyAge DEF Tick, RightsOK, CookieNames
  <2>2. jar'["session"] = Older(jar["session"])
        BY <1>15 DEF Tick, CookieNames
  <2>3. ASSUME NEW u \in Tabs
        PROVE  \/ tab'[u].answer["session"] = Unset
               \/ Timely(tab'[u].answer["session"], member', lost')
    <3> DEFINE a == OlderAnswer(tab[u].answer)
    <3>1. tab[u].answer["session"] \in Cookie["session"] \cup {Unset}
          BY DEF TabTyped, AnswerTyped, CookieNames
    <3>2. a["session"] = IF tab[u].answer["session"] = Unset THEN Unset
                         ELSE Older(tab[u].answer["session"])
          BY DEF OlderAnswer, TabState, CookieNames
    <3>3. tab'[u].answer = a
          BY <1>15 DEF Tick, TabState
    <3> HIDE DEF a
    <3>4. CASE tab[u].answer["session"] = Unset
          BY <3>2, <3>3, <3>4
    <3>5. CASE tab[u].answer["session"] # Unset
      <4>1. Timely(Older(tab[u].answer["session"]), member', lost')
            BY <1>15, <3>1, <3>5, TimelyAge DEF Tick, RightsOK
      <4> QED BY <3>2, <3>3, <3>5, <4>1 DEF Timely
    <3> QED BY <3>4, <3>5
  <2>4. ASSUME NEW u \in Tabs PROVE HeardOK(tab'[u], member', lost')
    <3> SUFFICES ASSUME tab'[u].pc = "verifying", tab'[u].groups = "admin", ~member'
                 PROVE  lost' <= tab'[u].waited
        BY DEF HeardOK
    <3> DEFINE w == IF Verifying(u) THEN tab[u].waited + 1 ELSE tab[u].waited
               a == OlderAnswer(tab[u].answer)
    <3>1. tab'[u] = [tab[u] EXCEPT !.answer = a, !.waited = w]
          BY <1>15 DEF Tick
    <3>2. tab[u] \in TabState /\ tab[u].waited \in 0 .. Lag
          BY DEF TabState
    <3> HIDE DEF a
    <3>3. Verifying(u) /\ tab[u].groups = "admin" /\ tab'[u].waited = tab[u].waited + 1
      <4> HIDE DEF w
      <4>1. tab[u].pc = "verifying" /\ tab[u].groups = "admin" /\ tab'[u].waited = w
            BY <3>1, <3>2 DEF TabState
      <4> QED BY <4>1 DEF Verifying, w
    <3>4. lost <= tab[u].waited
          BY <1>15, <3>3 DEF Tick, RightsOK, HeardOK, Verifying
    <3>5. lost \in Nat /\ lost' \in Nat /\ lost' <= lost + 1
      <4>1. lost \in 0 .. Long /\ lost' \in {lost, lost + 1}
            BY <1>15 DEF Tick
      <4> QED BY <4>1, AgesAssumption DEF Long
    <3>6. tab[u].waited \in Nat
          BY <3>2, AgesAssumption
    <3> HIDE DEF w
    <3> QED BY <3>3, <3>4, <3>5, <3>6
  <2> QED BY <2>1, <2>2, <2>3, <2>4 DEF RightsOK, Timely, HeardOK
<1>16. CASE UNCHANGED loginVars
       BY <1>16 DEF loginVars, RightsOK, Timely, HeardOK
<1> QED BY <1>8, <1>9, <1>10, <1>12, <1>13, <1>14, <1>15, <1>16, <1>17
        DEF LoginNext, LoginStep

-----------------------------------------------------------------------------
LoginInv == LoginTypeOK /\ PairsOK /\ RightsOK

(* At the start there is no cookie.                                        *)
LEMMA InitInv == LoginInit => LoginInv
<1> SUFFICES ASSUME LoginInit PROVE LoginInv
    OBVIOUS
<1> USE TypeByTab, AnswersPaired DEF LoginInit
<1>1. IdleTab.answer = NoAnswer /\ IdleTab.pc = "idle"
      BY DEF IdleTab
<1>2. NoCookie.val = ""
      BY DEF NoCookie
<1>3. LoginTypeOK
  <2>1. TabTyped(IdleTab)
        BY AnswersTyped, Ranges DEF IdleTab, TabTyped, TabState, AnswerTyped
  <2>2. tab \in [Tabs -> TabState] /\ \A t \in Tabs : TabTyped(tab[t])
        BY <2>1 DEF TabTyped
  <2>3. \A c \in CookieNames : jar[c] \in Cookie[c]
        BY DEF Cookie, CookieOf, CookieNames
  <2>4. jar \in [CookieNames -> AnyCookie]
        BY <2>3, CookiesAreAny
  <2>5. member \in BOOLEAN /\ lost \in 0 .. Long
        BY AgesAssumption DEF Long
  <2> QED BY <2>2, <2>3, <2>4, <2>5
<1>4. PairsOK
      BY <1>1 DEF PairsOK, TabOK, Fits, CookieNames
<1>5. RightsOK
  <2>1. NoAnswer["session"] = Unset
        BY DEF NoAnswer, CookieNames
  <2> QED BY <1>1, <1>2, <2>1 DEF RightsOK, Timely, HeardOK, CookieNames
<1> QED BY <1>3, <1>4, <1>5 DEF LoginInv

(* The invariant all the theorems rest on.                                 *)
LEMMA Invariant == LoginSpec => []LoginInv
<1>1. LoginInv /\ [LoginNext]_loginVars => LoginInv'
      BY TypeStep, PairsStep, RightsStep DEF LoginInv
<1> QED BY <1>1, InitInv, PTL DEF LoginSpec

(* Cookies, tabs and answers keep their types.                             *)
THEOREM TypeCorrect == LoginSpec => []LoginTypeOK
<1>1. LoginInv => LoginTypeOK
      BY DEF LoginInv
<1> QED BY <1>1, Invariant, PTL

(* Whatever the tabs do, an accepted state comes with its own verifier.    *)
THEOREM VerifierAlwaysFits == LoginSpec => []VerifierFits
<1>1. LoginInv => VerifierFits
  <2> SUFFICES ASSUME LoginInv, UsePKCE, NEW t \in Tabs, tab[t].pc = "callback",
                      StateMatches(t)
               PROVE  tab[t].sent.verifier = tab[t].state
      BY DEF VerifierFits
  <2>1. TabOK(t) /\ tab[t].state \in States
        BY DEF LoginInv, PairsOK, TabOK
  <2>2. tab[t].sent.state # ""
        BY <2>1, StatesAssumption DEF StateMatches
  <2> QED BY <2>1, <2>2 DEF TabOK, StateMatches
<1> QED BY <1>1, Invariant, PTL

(* The login implements Sessions: no session that reaches the browser      *)
(* grants the rights of a group longer than SessionAge + Lag after its     *)
(* user left it.                                                           *)
THEOREM Implements == LoginSpec => ImplementsSessions
<1> USE DEF S!sessionVars, S!Long, Long
<1>1. LoginInit => S!SessionsInit
      BY DEF LoginInit, S!SessionsInit, CookieNames, S!NoCookie, NoCookie
<1>2. LoginInv /\ LoginInv' /\ [LoginNext]_loginVars => [S!SessionsNext]_(S!sessionVars)
  <2> SUFFICES ASSUME LoginInv, LoginInv', [LoginNext]_loginVars
               PROVE  [S!SessionsNext]_(S!sessionVars)
      OBVIOUS
  <2>1. ASSUME NEW t \in Tabs,
               HandleLogin(t) \/ SendCallback(t) \/ Abandon(t) \/ RefuseState(t)
               \/ Exchange(t) \/ RefuseLogin(t) \/ IssueSession(t) \/ HandleLogout(t)
        PROVE  UNCHANGED <<jar["session"], member, lost>>
        BY <2>1 DEF HandleLogin, SendCallback, Abandon, RefuseState, Exchange,
                    RefuseLogin, IssueSession, HandleLogout
  <2>2. ASSUME NEW t \in Tabs, Receive(t) PROVE S!NewSession
    <3>1. jar'["session"] \in S!SessionCookie
          BY DEF LoginInv, LoginTypeOK, CookieNames, Cookie, CookieOf, NoCookie,
                 S!SessionCookie, S!CookieOf, S!NoCookie
    <3>2. S!InTime(jar["session"])'
          BY DEF LoginInv, RightsOK, Timely, S!InTime
    <3> QED BY <2>2, <3>1, <3>2 DEF Receive, S!NewSession, S!InTime
  <2>3. ASSUME ChangeGroups PROVE S!ChangeGroups
        BY <2>3 DEF ChangeGroups, S!ChangeGroups
  <2>4. ASSUME Tick PROVE S!Pass
        BY <2>4 DEF Tick, S!Pass, CookieNames, Older, S!Older, NoCookie, S!NoCookie
  <2>5. ASSUME UNCHANGED loginVars PROVE UNCHANGED <<jar["session"], member, lost>>
        BY <2>5 DEF loginVars
  <2> QED BY <2>1, <2>2, <2>3, <2>4, <2>5 DEF LoginNext, LoginStep, S!SessionsNext
<1> QED BY <1>1, <1>2, Invariant, PTL DEF LoginSpec, ImplementsSessions, S!SessionsSpec
=============================================================================
