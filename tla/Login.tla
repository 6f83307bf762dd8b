---------------------------------- MODULE Login ----------------------------------
(***************************************************************************)
(* The OpenID Connect login of internal/auth/oidc.go, in one browser with  *)
(* several tabs.  The server keeps nothing between HandleLogin and         *)
(* HandleCallback: the random state, the PKCE verifier and the session are *)
(* cookies, which the tabs share.  Requests carry the cookies there are    *)
(* when they are sent, and answers change them when they arrive, in any    *)
(* order.                                                                  *)
(*                                                                         *)
(* The provider and the browser are external; the verifier and the         *)
(* challenge that HandleLogin makes together with a state are identified   *)
(* with it.  Ages count ticks.                                             *)
(***************************************************************************)
EXTENDS Cookies

CONSTANTS
  Tabs,
  States,       (* random states, more than can be in use at a time        *)
  UsePKCE,      (* cfg.OIDC.UsePKCE                                        *)
  StateAge,     (* MaxAge of the state cookie, 300 s                       *)
  VerifierAge,  (* oidcCookieMaxAge, 600 s                                 *)
  SessionAge,   (* sessionDuration, 24 h                                   *)
  Lag           (* ticks a callback may take once it has exchanged the     *)
                (* code: the server's WriteTimeout, after which no answer  *)
                (* leaves                                                  *)

ASSUME AgesAssumption ==
  /\ StateAge \in Nat \ {0} /\ VerifierAge \in Nat \ {0} /\ SessionAge \in Nat \ {0}
  /\ StateAge <= VerifierAge /\ Lag \in Nat
ASSUME PKCEAssumption == UsePKCE \in BOOLEAN
ASSUME StatesAssumption == {"", "unset", "admin", "user"} \cap States = {}

VARIABLES
  jar,     (* the browser's cookies                                        *)
  tab,     (* each tab: the login it is in, and the answer on its way      *)
  member,  (* the user is in an admin group at the provider                *)
  lost     (* history: ticks since the user last was, Long at most         *)

Long == SessionAge + Lag + 1

CookieNames == {"state", "verifier", "session"}
Unset == [val |-> "unset", left |-> 0]
NoAnswer == [c \in CookieNames |-> Unset]

(* sent: the state and verifier cookies of a callback request; groups and  *)
(* waited: what the exchange said of the user, and the ticks since;        *)
(* answer: the Set-Cookie headers of the response, Unset where it has      *)
(* none; next: where the answer leads.                                     *)
IdleTab == [pc |-> "idle", state |-> "", sent |-> [state |-> "", verifier |-> ""],
            groups |-> "", waited |-> 0, answer |-> NoAnswer, next |-> "idle"]

loginVars == <<jar, tab, member, lost>>

LoginInit ==
  /\ jar = [c \in CookieNames |-> NoCookie]
  /\ tab = [t \in Tabs |-> IdleTab]
  /\ member \in BOOLEAN
  /\ lost = IF member THEN 0 ELSE Long

Answer(t, cookies, next) ==
  tab' = [tab EXCEPT ![t].pc = "answered", ![t].groups = "", ![t].waited = 0,
                     ![t].answer = cookies, ![t].next = next]

InUse(s) ==
  \/ \E c \in CookieNames : jar[c].val = s
  \/ \E t \in Tabs : tab[t].state = s \/ tab[t].sent.state = s \/ tab[t].sent.verifier = s

-----------------------------------------------------------------------------
PKCECookie(s, age) == IF UsePKCE THEN [val |-> s, left |-> age] ELSE Unset

(* The state's cookie outliving the verifier's.                            *)
LoginCookiesSwapped(s) ==
  [NoAnswer EXCEPT !["state"] = [val |-> s, left |-> VerifierAge + 1],
                   !["verifier"] = PKCECookie(s, StateAge)]

(* The Set-Cookie headers of HandleLogin.                                  *)
LoginCookies(s) ==
  [NoAnswer EXCEPT !["state"] = [val |-> s, left |-> StateAge],
                   !["verifier"] = PKCECookie(s, VerifierAge)]

HandleLogin(t) ==
  /\ tab[t].pc = "idle"
  /\ \E s \in States :
       /\ ~InUse(s)
       /\ tab' = [tab EXCEPT ![t] = [IdleTab EXCEPT !.pc = "answered", !.state = s,
                                       !.answer = LoginCookies(s), !.next = "provider"]]
  /\ UNCHANGED <<jar, member, lost>>

(* The provider authenticates the user and the browser calls back.         *)
SendCallback(t) ==
  /\ tab[t].pc = "provider"
  /\ tab' = [tab EXCEPT ![t].pc = "callback",
               ![t].sent = [state |-> jar["state"].val, verifier |-> jar["verifier"].val]]
  /\ UNCHANGED <<jar, member, lost>>

Abandon(t) ==
  /\ tab[t].pc = "provider"
  /\ tab' = [tab EXCEPT ![t] = IdleTab]
  /\ UNCHANGED <<jar, member, lost>>

Cleared == [NoAnswer EXCEPT !["state"] = NoCookie, !["verifier"] = NoCookie]

WithSession(groups) ==
  [Cleared EXCEPT !["session"] = [val |-> groups, left |-> SessionAge]]

StateMatches(t) == tab[t].sent.state = tab[t].state

(* The provider refuses a verifier that does not fit the code's challenge. *)
Exchanges(t) == UsePKCE => tab[t].sent.verifier = tab[t].state

RefuseState(t) ==
  /\ tab[t].pc = "callback" /\ ~StateMatches(t)
  /\ Answer(t, NoAnswer, "idle")
  /\ UNCHANGED <<jar, member, lost>>

(* The provider answers with an ID token, which names the user's groups.   *)
Exchange(t) ==
  /\ tab[t].pc = "callback" /\ StateMatches(t) /\ Exchanges(t)
  /\ tab' = [tab EXCEPT ![t].pc = "verifying",
               ![t].groups = IF member THEN "admin" ELSE "user"]
  /\ UNCHANGED <<jar, member, lost>>

(* The verifier is missing, the exchange or the verification of the ID     *)
(* token fails, or the e-mail address is not verified.                     *)
RefuseLogin(t) ==
  /\ \/ tab[t].pc = "callback" /\ StateMatches(t)
     \/ tab[t].pc = "verifying"
  /\ Answer(t, Cleared, "idle")
  /\ UNCHANGED <<jar, member, lost>>

(* The ID token is verified, for which the provider's keys may have to be  *)
(* fetched.  The JWT holds the token's groups, and its own expiry.         *)
IssueSession(t) ==
  /\ tab[t].pc = "verifying"
  /\ Answer(t, WithSession(tab[t].groups), "idle")
  /\ UNCHANGED <<jar, member, lost>>

HandleLogout(t) ==
  /\ tab[t].pc = "idle"
  /\ Answer(t, [NoAnswer EXCEPT !["session"] = NoCookie], "idle")
  /\ UNCHANGED <<jar, member, lost>>

(* The answer arrives.                                                     *)
Receive(t) ==
  /\ tab[t].pc = "answered"
  /\ jar' = [c \in CookieNames |->
               IF tab[t].answer[c] = Unset THEN jar[c] ELSE tab[t].answer[c]]
  /\ tab' = [tab EXCEPT ![t] = [IdleTab EXCEPT !.pc = tab[t].next,
               !.state = IF tab[t].next = "provider" THEN tab[t].state ELSE ""]]
  /\ UNCHANGED <<member, lost>>

-----------------------------------------------------------------------------
ChangeGroups ==
  /\ member' = ~member
  /\ lost' = 0
  /\ UNCHANGED <<jar, tab>>

(* A session that expires some time after the browser received it.         *)
OlderOnceReceived(answer) == answer

(* MaxAge runs from the arrival of a cookie; the session's exp claim from  *)
(* the moment the server signed it.                                        *)
OlderAnswer(answer) ==
  IF answer["session"] = Unset THEN answer
  ELSE [answer EXCEPT !["session"] = Older(@)]

Verifying(t) == tab[t].pc = "verifying"

Tick ==
  /\ \A t \in Tabs : Verifying(t) => tab[t].waited < Lag
  /\ jar' = [c \in CookieNames |-> Older(jar[c])]
  /\ tab' = [t \in Tabs |-> [tab[t] EXCEPT !.answer = OlderAnswer(@),
                               !.waited = IF Verifying(t) THEN @ + 1 ELSE @]]
  /\ lost' = IF member \/ lost = Long THEN lost ELSE lost + 1
  /\ UNCHANGED member

LoginStep ==
  \/ \E t \in Tabs :
       \/ HandleLogin(t) \/ SendCallback(t) \/ Abandon(t) \/ RefuseState(t)
       \/ Exchange(t) \/ RefuseLogin(t) \/ IssueSession(t) \/ HandleLogout(t)
       \/ Receive(t)
  \/ ChangeGroups

LoginNext == LoginStep \/ Tick

LoginSpec == LoginInit /\ [][LoginNext]_loginVars

-----------------------------------------------------------------------------
(* Properties.                                                             *)

Cookie == [state |-> CookieOf(States, StateAge),
           verifier |-> CookieOf(States, VerifierAge),
           session |-> CookieOf({"admin", "user"}, SessionAge)]
AnyCookie == Cookie["state"] \cup Cookie["verifier"] \cup Cookie["session"]

TabState == [pc : {"idle", "answered", "provider", "callback", "verifying"},
             state : States \cup {""},
             sent : [state : States \cup {""}, verifier : States \cup {""}],
             groups : {"", "admin", "user"}, waited : 0 .. Lag,
             answer : [CookieNames -> AnyCookie \cup {Unset}],
             next : {"idle", "provider"}]

LoginTypeOK ==
  /\ jar \in [CookieNames -> AnyCookie]
  /\ tab \in [Tabs -> TabState]
  /\ \A c \in CookieNames :
       /\ jar[c] \in Cookie[c]
       /\ \A t \in Tabs : tab[t].answer[c] \in Cookie[c] \cup {Unset}
  /\ \A t \in Tabs : Verifying(t) => tab[t].groups # ""
  /\ member \in BOOLEAN /\ lost \in 0 .. Long

(* A callback whose state is accepted brings the verifier of the same      *)
(* login: two tabs overwriting and clearing each other's cookies, answers  *)
(* that arrive late and cookies that expire never leave one login's state  *)
(* with another's verifier or none, so an accepted state is never wasted   *)
(* on an exchange that must fail.                                          *)
VerifierFits ==
  UsePKCE => \A t \in Tabs :
    tab[t].pc = "callback" /\ StateMatches(t) => tab[t].sent.verifier = tab[t].state

(* The login keeps the promise the rest of the server is checked against:  *)
(* however late a callback is answered, whichever tab logs in or out, no   *)
(* session that reaches the browser grants the rights of a group for       *)
(* longer than SessionAge + Lag after its user left it.  The Lag is needed:*)
(* the groups are those of the exchange, the expiry is counted from the    *)
(* signing, and the verification of the ID token lies between.             *)
S == INSTANCE Sessions WITH session <- jar["session"]

ImplementsSessions == S!SessionsSpec
=============================================================================
