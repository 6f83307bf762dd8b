---------------------------------- MODULE Visit ----------------------------------
(***************************************************************************)
(* Visits: what a browser with several tabs goes through until it comes to *)
(* rest, over the redirects to the canonical address                       *)
(* (server/middleware/domain.go), the page access check (ui_access.go),    *)
(* the redirects of the login (auth/middleware.go, auth/oidc.go) and the   *)
(* forms with their CSRF tokens (server/csrf.go, server/ui.go).            *)
(*                                                                         *)
(* The server keeps no state of a visit: an answer depends on the request, *)
(* with the cookies there were when it was sent, and its cookies count     *)
(* once it arrives.  In between the other tabs do the same.  The database  *)
(* and the provider work and the details page's link stays.  TLS ends at a *)
(* proxy in front of the server.  All cookies are Secure: the browser      *)
(* keeps and sends them over https only, and for the host that set them.   *)
(***************************************************************************)
EXTENDS Naturals, FiniteSetsExt

CONSTANTS
  Tabs,        (* the tabs of the browser                                  *)
  Configs,     (* the configurations to choose from                        *)
  Starts,      (* the addresses the user's visits begin with               *)
  MaxTokens,   (* as many CSRF tokens as can be in use, and one more       *)
  MaxStates,   (* as many login states                                     *)
  MaxLapses    (* bound: how often sessions and login states expire        *)

Schemes == {"http", "https"}
Hosts == {"canonical", "short"}

(* Links that ask for a login, one asked for as it is, one with a ; in what*)
(* follows its name, and one with the ; written %3B; and one there is not. *)
(* A public link leaves from any address.                                  *)
PrivatePaths == {"private", "odd", "escaped"}
LinkPaths == PrivatePaths \cup {"missing"}
FormPaths == {"details", "share", "unshare"}
Paths == LinkPaths \cup FormPaths \cup {"index", "login", "provider", "callback"}

(* canonical: the scheme of canonical_address, or none; trusted: the proxy *)
(* is in trusted_proxy; oidc: enabled; header: another provider identifies *)
(* every request.                                                          *)
Config == [canonical : Schemes \cup {"none"}, trusted : BOOLEAN,
           oidc : BOOLEAN, header : BOOLEAN]
Address == [scheme : Schemes, host : Hosts, path : LinkPaths \cup {"details"}]

(* What config.validate asks of it.                                        *)
Valid(c) == (c.oidc => c.canonical # "none") /\ (c.oidc \/ c.header)

ASSUME ConfigsAssumption == \A c \in Configs : c \in Config /\ Valid(c)
ASSUME VisitsAssumption == Starts \subseteq Address
ASSUME BoundsAssumption == MaxTokens \in Nat /\ MaxStates \in Nat /\ MaxLapses \in Nat

VARIABLES
  config,  (* the configuration of the server                              *)
  jar,     (* the browser's cookies for each host                          *)
  tabs,    (* what each tab is doing                                       *)
  lapses   (* how often a cookie has expired                               *)

vars == <<config, jar, tabs, lapses>>

(* A state is a random number and the path to return to; 0 is none.        *)
NoState == [id |-> 0, rd |-> "index"]
NoCookies == [session |-> FALSE, state |-> NoState, csrf |-> 0]

(* A request; post, a form with its token; state, the state parameter; rd, *)
(* the parameter of the login.                                             *)
NoRequest == [scheme |-> "https", host |-> "canonical", path |-> "index",
              post |-> FALSE, token |-> 0, state |-> NoState, rd |-> "index"]

(* An answer; to, where it redirects; csrf, the token of the cookie it     *)
(* sets; state, the state cookie it sets, also to nothing; saved, a form   *)
(* was carried out.                                                        *)
NoAnswer == [kind |-> "none", to |-> NoRequest, csrf |-> 0, state |-> {},
             session |-> FALSE, saved |-> FALSE]

(* A tab; kind, of the answer it shows; asked, the path it is to arrive    *)
(* at; token, of the form it shows.  For the properties only: fresh, since *)
(* the page was made no other answer replaced its cookie and the session   *)
(* is there; due, a form was submitted fresh, and still is, but is not     *)
(* carried out; alone, the state cookie is still that of the tab's login.  *)
NewTab == [pc |-> "rest", request |-> NoRequest, answer |-> NoAnswer,
           kind |-> "none", asked |-> "index", token |-> 0,
           fresh |-> FALSE, due |-> FALSE, alone |-> FALSE]

Init ==
  /\ config \in Configs
  /\ jar = [h \in Hosts |-> NoCookies]
  /\ tabs = [t \in Tabs |-> NewTab]
  /\ lapses = 0

-----------------------------------------------------------------------------
(* Random values: one that nobody has.                                     *)

TokensInUse ==
  {jar[h].csrf : h \in Hosts} \cup {tabs[t].token : t \in Tabs}
  \cup {tabs[t].request.token : t \in Tabs} \cup {tabs[t].answer.csrf : t \in Tabs}

StatesInUse ==
  {jar[h].state.id : h \in Hosts}
  \cup {tabs[t].request.state.id : t \in Tabs}
  \cup {tabs[t].answer.to.state.id : t \in Tabs}

Unused(most, used) == Min((1 .. most) \ used)

NewToken == Unused(MaxTokens, TokensInUse)

-----------------------------------------------------------------------------
(* The server's answers, to request r with cookies c.                      *)

RedirectTo(to) == [NoAnswer EXCEPT !.kind = "redirect", !.to = to]

(* newBaseData: every page that is rendered comes with a new token.        *)
Page(kind) == [NoAnswer EXCEPT !.kind = kind, !.csrf = NewToken]

Plain(kind) == [NoAnswer EXCEPT !.kind = kind]

(* The scheme a server sees that trusts no header.                         *)
PeerScheme(r) == "http"

(* r.TLS is nil; X-Forwarded-Proto counts if the proxy is trusted.         *)
RequestScheme(r) == IF config.trusted THEN r.scheme ELSE "http"

AtCanonical(r) ==
  \/ config.canonical = "none"
  \/ RequestScheme(r) = config.canonical /\ r.host = "canonical"

(* A browser follows a redirect of a POST with a GET of the same path.     *)
Get(r, path) == [r EXCEPT !.path = path, !.post = FALSE, !.token = 0]

(* r.URL.Path, written out again: without its escapes.                     *)
Decoded(path) == IF path = "escaped" THEN "odd" ELSE path

(* RedirectToCanonical, with the query it was asked for.                   *)
ToCanonical(r) ==
  RedirectTo([Get(r, Decoded(r.path)) EXCEPT !.scheme = config.canonical,
                                             !.host = "canonical"])

Identified(c) == config.header \/ (config.oidc /\ c.session)

LoginRedirect(r) == RedirectTo([Get(r, "login") EXCEPT !.rd = r.path])

(* Without an identity: to the login if there is one.                      *)
AskToLogin(r) == IF config.oidc THEN LoginRedirect(r) ELSE Page("unauthorized")

(* The login asked for wherever the request came in.                       *)
PrivateLinkAnywhere(r, c) ==
  CASE ~Identified(c) -> AskToLogin(r)
    [] Identified(c) /\ ~AtCanonical(r) -> ToCanonical(r)
    [] OTHER -> Plain("left")

(* handleRedirect for a link that requires authentication ...              *)
PrivateLink(r, c) ==
  CASE ~AtCanonical(r) -> ToCanonical(r)
    [] AtCanonical(r) /\ ~Identified(c) -> AskToLogin(r)
    [] OTHER -> Plain("left")

(* ... and renderNotFound.                                                 *)
MissingLink(r) == IF AtCanonical(r) THEN Page("notFound") ELSE ToCanonical(r)

ValidCSRF(r, c) == c.csrf # 0 /\ r.token = c.csrf

(* POST handlers: save and share make their page, with a new cookie, before*)
(* they look at the token; unshare, delete and alias never make one.  A    *)
(* save shows the page again; the others redirect to it.                   *)
Form(r, c) ==
  LET cookie == IF r.path = "unshare" THEN 0 ELSE NewToken
      done == IF r.path = "details" THEN Page("page") ELSE RedirectTo(Get(r, "details"))
  IN  IF ValidCSRF(r, c) THEN [done EXCEPT !.csrf = cookie, !.saved = TRUE]
      ELSE [Plain("badToken") EXCEPT !.csrf = cookie]

(* The pages behind DomainRedirect and RequireUIAccess.                    *)
UIPage(r, c) ==
  CASE ~AtCanonical(r) -> ToCanonical(r)
    [] AtCanonical(r) /\ ~Identified(c) -> AskToLogin(r)
    [] OTHER -> IF r.post THEN Form(r, c) ELSE Page("page")

(* The value http.SetCookie sets for a state: it drops every ; " and \.    *)
CookieValue(state) == IF state.rd = "odd" THEN [state EXCEPT !.rd = "cut"] ELSE state

ToProvider(r, state) ==
  [RedirectTo([r EXCEPT !.path = "provider", !.rd = "index", !.state = state])
     EXCEPT !.state = {CookieValue(state)}]

(* HandleLogin on a server that remembers no destination.                  *)
HandleLoginForgetful(r) ==
  ToProvider(r, [id |-> Unused(MaxStates, StatesInUse), rd |-> "index"])

(* rd is the RequestURI, escapes and all.                                  *)
HandleLogin(r) ==
  ToProvider(r, [id |-> Unused(MaxStates, StatesInUse), rd |-> r.rd])

(* The provider returns to the canonical address.                          *)
Provider(r) ==
  RedirectTo([r EXCEPT !.path = "callback", !.host = "canonical",
                       !.scheme = config.canonical])

HandleCallback(r, c) ==
  IF c.state # r.state THEN Plain("badState")
  ELSE [RedirectTo([Get(r, c.state.rd) EXCEPT !.state = NoState]) EXCEPT
          !.state = {NoState}, !.session = TRUE]

(* buildRouter.  Share and unshare have no GET: it falls through to the    *)
(* redirect of a link called "details", which there never is.              *)
AnswerTo(r, c) ==
  CASE r.path \in {"share", "unshare"} /\ ~r.post -> MissingLink(r)
    [] r.path \in PrivatePaths -> PrivateLink(r, c)
    [] r.path = "missing" -> MissingLink(r)
    [] r.path = "login" -> HandleLogin(r)
    [] r.path = "provider" -> Provider(r)
    [] r.path = "callback" -> HandleCallback(r, c)
    [] OTHER -> UIPage(r, c)

-----------------------------------------------------------------------------
(* The browser.                                                            *)

Start(t, r, asked, due) ==
  tabs' = [tabs EXCEPT ![t] = [NewTab EXCEPT !.pc = "going", !.request = r,
                                             !.asked = asked, !.due = due]]

Visit(t, url) ==
  /\ tabs[t].pc = "rest"
  /\ Start(t, [NoRequest EXCEPT !.scheme = url.scheme, !.host = url.host, !.path = url.path],
           url.path, FALSE)
  /\ UNCHANGED <<config, jar, lapses>>

(* The user submits the form on the details page, or one next to it.       *)
Submit(t, path) ==
  /\ tabs[t].pc = "rest" /\ tabs[t].token # 0
  /\ Start(t, [tabs[t].request EXCEPT !.path = path, !.post = TRUE, !.token = tabs[t].token],
           "details", tabs[t].fresh)
  /\ UNCHANGED <<config, jar, lapses>>

(* A request is sent with the cookies of the moment and answered.          *)
Send(t) ==
  LET r == tabs[t].request
      c == IF r.scheme = "https" THEN jar[r.host] ELSE NoCookies
      a == AnswerTo(r, c)
  IN  /\ tabs[t].pc = "going"
      /\ tabs' = [tabs EXCEPT ![t] = [tabs[t] EXCEPT !.pc = "waiting", !.answer = a,
                     !.fresh = a.kind = "page", !.due = tabs[t].due /\ ~a.saved]]
      /\ UNCHANGED <<config, jar, lapses>>

(* One CSRF cookie for the browser, set with its first page.               *)
CookiesSetOnce(c, a) ==
  [session |-> c.session \/ a.session,
   state |-> IF a.state = {} THEN c.state ELSE CHOOSE s \in a.state : TRUE,
   csrf |-> IF c.csrf = 0 THEN a.csrf ELSE c.csrf]

CookiesAfter(c, a) ==
  [session |-> c.session \/ a.session,
   state |-> IF a.state = {} THEN c.state ELSE CHOOSE s \in a.state : TRUE,
   csrf |-> IF a.csrf = 0 THEN c.csrf ELSE a.csrf]

(* What an answer means for the tab waiting for it ...                     *)
After(tab) ==
  LET a == tab.answer
      next == [tab EXCEPT !.answer = NoAnswer]
  IN  IF a.kind = "redirect"
      THEN [next EXCEPT !.pc = "going", !.request = a.to,
                        !.alone = tab.request.path = "login"
                                    \/ (@ /\ tab.request.path = "provider")]
      ELSE [next EXCEPT !.pc = "rest", !.kind = a.kind,
                        !.token = IF a.kind = "page" THEN a.csrf ELSE 0,
                        !.alone = @ /\ a.kind = "badState",
                        !.request = [@ EXCEPT !.post = FALSE, !.token = 0, !.state.id = 0]]

(* ... and its cookies for a tab whose request is not answered yet.        *)
Decided(tab) == tab.pc = "rest" \/ (tab.pc = "waiting" /\ tab.request.path # "provider")

Beside(tab, a) ==
  [tab EXCEPT !.fresh = @ /\ (tab.pc = "waiting" \/ a.csrf = 0),
              !.due = @ /\ (tab.pc = "waiting" \/ a.csrf = 0),
              !.alone = @ /\ (Decided(tab) \/ a.state = {})]

Receive(t) ==
  LET r == tabs[t].request
      a == tabs[t].answer
  IN  /\ tabs[t].pc = "waiting"
      /\ jar' = IF r.scheme = "https"
                THEN [jar EXCEPT ![r.host] = CookiesAfter(@, a)] ELSE jar
      /\ tabs' = [u \in Tabs |->
                    IF u = t THEN After(tabs[u])
                    ELSE IF r.scheme = "https" /\ tabs[u].request.host = r.host
                    THEN Beside(tabs[u], a)
                    ELSE tabs[u]]
      /\ UNCHANGED <<config, lapses>>

(* The session ends, by age or by a logout, or a state is left for too     *)
(* long.                                                                   *)
Lapse(h) ==
  /\ lapses < MaxLapses
  /\ lapses' = lapses + 1
  /\ \/ /\ jar[h].session
        /\ jar' = [jar EXCEPT ![h].session = FALSE]
        /\ tabs' = [t \in Tabs |->
                      [tabs[t] EXCEPT !.fresh = FALSE,
                                      !.due = @ /\ tabs[t].pc # "going"]]
     \/ /\ jar[h].state # NoState
        /\ jar' = [jar EXCEPT ![h].state = NoState]
        /\ tabs' = [t \in Tabs |->
                      [tabs[t] EXCEPT !.alone = @ /\ Decided(tabs[t])]]
  /\ UNCHANGED config

Travel(t) == Send(t) \/ Receive(t)

Next ==
  \/ \E t \in Tabs :
       \/ Travel(t)
       \/ \E url \in Starts : Visit(t, url)
       \/ \E path \in FormPaths : Submit(t, path)
  \/ \E h \in Hosts : Lapse(h)

Spec == Init /\ [][Next]_vars

(* Browsers, server and provider go on; users and time do as they like.    *)
FairSpec == Spec /\ \A t \in Tabs : WF_vars(Travel(t))

-----------------------------------------------------------------------------
(* Properties.                                                             *)

(* The server sees the scheme of the canonical address if it is asked for  *)
(* by it.  Only a trusted proxy can tell it of https.                      *)
SchemeSeen == config.canonical = "https" => config.trusted

(* Where the scheme of the canonical address is seen, every visit comes to *)
(* rest: no chain of redirects between addresses, login and provider closes*)
(* into a circle.  Behind a proxy it does not trust, a server whose address*)
(* is https redirects every page to its own URL, for ever.                 *)
VisitEnds ==
  \A t \in Tabs : (tabs[t].pc # "rest" /\ SchemeSeen) ~> (tabs[t].pc = "rest")

(* A tab comes to rest on what it asked for, also when it was sent to      *)
(* another address and through a login on the way, and although another    *)
(* tab may have been through a login of its own at the same time.  Only a  *)
(* form other than details that met the login comes back as a GET to       *)
(* nothing, and the redirect to the canonical address, which is built from *)
(* the decoded path, loses the escapes of the one asked for.               *)
LandsWhereAsked ==
  \A t \in Tabs :
    tabs[t].pc = "rest" /\ tabs[t].kind \in {"left", "page", "notFound", "unauthorized"}
      => \/ tabs[t].request.path = tabs[t].asked
         \/ tabs[t].request.path = Decoded(tabs[t].asked)
         \/ tabs[t].kind = "notFound" /\ tabs[t].request.path \in {"share", "unshare"}

(* A login that began is refused for its state only if meanwhile another   *)
(* tab's login or callback, or time, has taken the state away from it, or  *)
(* if the canonical address is http, where no Secure cookie is ever kept,  *)
(* or if it is to return to an address with a character that no cookie     *)
(* holds: the state in the cookie is then another than the one sent along. *)
LoginFailsOnlyIfOvertaken ==
  \A t \in Tabs :
    tabs[t].pc = "rest" /\ tabs[t].kind = "badState" /\ tabs[t].alone
      => config.canonical = "http" \/ tabs[t].request.state.rd = "odd"

(* A form is carried out unless since its page was made another answer     *)
(* replaced the CSRF cookie, or the session ended, or the page was not     *)
(* served over https.                                                      *)
FormsCarriedOut ==
  \A t \in Tabs :
    tabs[t].pc = "rest" /\ tabs[t].due => tabs[t].request.scheme = "http"
=============================================================================
