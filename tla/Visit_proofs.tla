------------------------------ MODULE Visit_proofs ------------------------------
(***************************************************************************)
(* Proofs about Visit: where a tab comes to rest, when a login fails and   *)
(* when a form is refused, for any tabs, configurations and addresses.     *)
(*                                                                         *)
(* The properties speak of tabs at rest.  The invariants follow a request  *)
(* there, over the redirects: where it is headed (Goal), whose login state *)
(* the browser keeps (AloneOK), and what a submitted form relies on        *)
(* (FormOK).  None of it needs tokens or states to be distinct: only equal *)
(* values are ever taken for the same.                                     *)
(***************************************************************************)
EXTENDS Visit, TLAPS

-----------------------------------------------------------------------------
(* The values there are.                                                   *)

Tokens == {0} \cup {Min(S) : S \in SUBSET (1 .. MaxTokens)}
StateIds == {0} \cup {Min(S) : S \in SUBSET (1 .. MaxStates)}

(* Where a login may lead back to.                                         *)
Destinations == LinkPaths \cup FormPaths \cup {"index"}

StateSet == [id : StateIds, rd : Destinations]

(* What becomes of a state in its cookie.                                  *)
KeptSet == [id : StateIds, rd : Destinations \cup {"cut"}]

CookieSet == [session : BOOLEAN, state : KeptSet, csrf : Tokens]

RequestSet == [scheme : Schemes, host : Hosts, path : Paths, post : BOOLEAN,
               token : Tokens, state : StateSet, rd : Destinations]

Kinds == {"none", "redirect", "page", "notFound", "unauthorized", "left",
          "badToken", "badState"}

AnswerSet == [kind : Kinds, to : RequestSet, csrf : Tokens,
              state : SUBSET KeptSet, session : BOOLEAN, saved : BOOLEAN]

Asked == LinkPaths \cup {"details", "index"}

TabSet == [pc : {"rest", "going", "waiting"}, request : RequestSet,
           answer : AnswerSet, kind : Kinds, asked : Asked, token : Tokens,
           fresh : BOOLEAN, due : BOOLEAN, alone : BOOLEAN]

TypeOK ==
  /\ config \in Configs
  /\ jar \in [Hosts -> CookieSet]
  /\ tabs \in [Tabs -> TabSet]

-----------------------------------------------------------------------------
(* Where a request is headed.                                              *)

(* The path a request will end at, if nothing goes wrong.                  *)
Goal(r) ==
  CASE r.path = "login" -> r.rd
    [] r.path \in {"provider", "callback"} -> r.state.rd
    [] OTHER -> r.path

HeadedFor(r, asked) ==
  \/ Goal(r) = asked \/ Goal(r) = Decoded(asked)
  \/ asked = "details" /\ Goal(r) \in {"share", "unshare"}

(* A login starts at the canonical address and stays there.                *)
LoginPlace(r) ==
  r.path \in {"login", "provider", "callback"} =>
    /\ config.canonical # "none"
    /\ config.canonical = "https" => r.scheme = "https" /\ r.host = "canonical"

(* Only forms are posted.                                                  *)
Sensible(r) == r.post => r.path \in FormPaths

Landed(path, kind, asked) ==
  kind \in {"left", "page", "notFound", "unauthorized"} =>
    \/ path = asked \/ path = Decoded(asked)
    \/ kind = "notFound" /\ path \in {"share", "unshare"}

LandsOK(tab) ==
  /\ tab.pc \in {"going", "waiting"} =>
       /\ LoginPlace(tab.request) /\ Sensible(tab.request)
       /\ HeadedFor(tab.request, tab.asked)
  /\ tab.pc = "waiting" /\ tab.answer.kind = "redirect" =>
       /\ LoginPlace(tab.answer.to) /\ ~tab.answer.to.post
       /\ HeadedFor(tab.answer.to, tab.asked)
  /\ tab.pc = "waiting" => Landed(tab.request.path, tab.answer.kind, tab.asked)
  /\ tab.pc = "rest" => Landed(tab.request.path, tab.kind, tab.asked)

-----------------------------------------------------------------------------
(* Whose login state the browser keeps.                                    *)

LoginAnswered(a) ==
  a.kind = "redirect" /\ a.to.path = "provider" /\ a.state = {CookieValue(a.to.state)}

AloneOK(tab) ==
  /\ tab.pc = "waiting" /\ tab.request.path = "login" => LoginAnswered(tab.answer)
  /\ tab.alone /\ config.canonical # "http" /\ tab.pc = "rest" =>
       tab.request.state.rd = "odd"
  /\ tab.alone /\ config.canonical # "http" /\ tab.pc # "rest" =>
       /\ tab.request.path \in {"provider", "callback"}
       /\ tab.pc = "going" \/ tab.request.path = "provider" =>
            jar["canonical"].state = CookieValue(tab.request.state)
       /\ tab.pc = "waiting" /\ tab.request.path = "provider" =>
            /\ tab.answer.kind = "redirect"
            /\ tab.answer.to.path = "callback"
            /\ tab.answer.to.state = tab.request.state
            /\ tab.answer.state = {}
       /\ tab.pc = "waiting" /\ tab.request.path = "callback" =>
            tab.answer.kind # "badState" \/ tab.request.state.rd = "odd"

-----------------------------------------------------------------------------
(* What a form relies on.                                                  *)

(* A page with a form is served at the canonical address only, and over    *)
(* http only to whom another provider identifies.                          *)
Serves(r) == AtCanonical(r) /\ (r.scheme = "http" => config.header)

(* The cookies for the address of r answer for token.                      *)
Vouches(r, token) ==
  r.scheme = "https" => jar[r.host].csrf = token /\ Identified(jar[r.host])

FormOK(tab) ==
  /\ tab.pc = "rest" /\ tab.token # 0 =>
       Serves(tab.request) /\ (tab.fresh => Vouches(tab.request, tab.token))
  /\ tab.pc = "waiting" /\ tab.answer.kind = "page" => Serves(tab.request)
  /\ tab.pc = "waiting" /\ tab.fresh /\ tab.request.scheme = "https" =>
       Identified(jar[tab.request.host])
  /\ tab.due /\ tab.pc = "going" =>
       /\ tab.request.post /\ tab.request.path \in FormPaths
       /\ tab.request.token # 0 /\ Serves(tab.request)
       /\ Vouches(tab.request, tab.request.token)
  /\ tab.due /\ tab.pc = "waiting" =>
       tab.request.scheme = "http" /\ tab.answer.kind = "badToken"
  /\ tab.due /\ tab.pc = "rest" => tab.request.scheme = "http"

TabOK(tab) == LandsOK(tab) /\ AloneOK(tab) /\ FormOK(tab)

VisitInv == TypeOK /\ \A t \in Tabs : TabOK(tabs[t])

-----------------------------------------------------------------------------
(* The server's answers.                                                   *)

LEMMA Configured ==
  ASSUME config \in Configs
  PROVE  config \in Config /\ (config.oidc => config.canonical # "none")
         /\ (config.oidc \/ config.header)
BY ConfigsAssumption DEF Valid

LEMMA Constants ==
  /\ 0 \in Tokens /\ NewToken \in Tokens
  /\ NoState \in StateSet /\ NoState \in KeptSet /\ NoCookies \in CookieSet
  /\ \A rd \in Destinations : [id |-> Unused(MaxStates, StatesInUse), rd |-> rd] \in StateSet
<1>1. 0 \in Tokens /\ 0 \in StateIds
  BY DEF Tokens, StateIds
<1>2. NewToken \in Tokens
  BY DEF NewToken, Unused, Tokens
<1>3. Unused(MaxStates, StatesInUse) \in StateIds
  BY DEF Unused, StateIds
<1>4. NoState \in StateSet /\ NoState \in KeptSet
  BY <1>1 DEF NoState, StateSet, KeptSet, Destinations
<1>5. NoCookies \in CookieSet
  BY <1>1, <1>4 DEF NoCookies, CookieSet
<1> QED
  BY <1>1, <1>2, <1>3, <1>4, <1>5 DEF StateSet

(* Only a state with a character that no cookie holds is cut.              *)
LEMMA CookieValueFields ==
  ASSUME NEW state \in StateSet
  PROVE  /\ CookieValue(state) \in KeptSet
         /\ state.rd # "odd" => CookieValue(state) = state
<1>1. PICK cut : cut = [state EXCEPT !.rd = "cut"]
  OBVIOUS
<1>2. cut \in KeptSet
  BY <1>1 DEF StateSet, KeptSet
<1>3. state \in KeptSet
  BY DEF StateSet, KeptSet
<1> QED
  BY <1>1, <1>2, <1>3 DEF CookieValue

LEMMA DecodedPath ==
  ASSUME NEW path \in Destinations
  PROVE  /\ Decoded(path) \in Destinations /\ Decoded(path) \in Paths
         /\ Decoded(path) \notin {"login", "provider", "callback"}
         /\ Decoded(Decoded(path)) = Decoded(path)
         /\ path \notin {"private", "odd", "escaped"} => Decoded(path) = path
BY DEF Decoded, Destinations, Paths, LinkPaths, PrivatePaths, FormPaths

LEMMA NoRequestType ==
  /\ NoRequest \in RequestSet /\ NoRequest.path = "index"
  /\ ~NoRequest.post /\ NoRequest.token = 0
<1>1. NoRequest \in RequestSet
  BY Constants DEF NoRequest, RequestSet, Schemes, Hosts, Paths, Destinations
<1> QED
  BY <1>1 DEF NoRequest

LEMMA NoAnswerType ==
  /\ NoAnswer \in AnswerSet /\ NoAnswer.kind = "none" /\ NoAnswer.csrf = 0
  /\ NoAnswer.state = {} /\ ~NoAnswer.session /\ ~NoAnswer.saved
<1>1. NoAnswer \in AnswerSet
  BY Constants, NoRequestType DEF NoAnswer, AnswerSet, Kinds
<1> QED
  BY <1>1 DEF NoAnswer

LEMMA RedirectFields ==
  ASSUME NEW to \in RequestSet
  PROVE  LET a == RedirectTo(to)
         IN  /\ a \in AnswerSet /\ a.kind = "redirect" /\ a.to = to
             /\ a.csrf = 0 /\ a.state = {} /\ ~a.session /\ ~a.saved
<1> DEFINE a == RedirectTo(to)
<1>1. a = [NoAnswer EXCEPT !.kind = "redirect", !.to = to]
  BY DEF RedirectTo
<1> HIDE DEF a
<1>2. /\ a \in AnswerSet /\ a.kind = "redirect" /\ a.to = to
      /\ a.csrf = 0 /\ a.state = {} /\ ~a.session /\ ~a.saved
  BY <1>1, NoAnswerType DEF AnswerSet, Kinds
<1> QED
  BY <1>2 DEF a

LEMMA PageFields ==
  ASSUME NEW kind \in Kinds
  PROVE  /\ Page(kind) \in AnswerSet /\ Page(kind).kind = kind
         /\ Page(kind).csrf = NewToken /\ Page(kind).state = {}
         /\ ~Page(kind).session /\ ~Page(kind).saved
         /\ Plain(kind) \in AnswerSet /\ Plain(kind).kind = kind
         /\ Plain(kind).csrf = 0 /\ Plain(kind).state = {}
         /\ ~Plain(kind).session /\ ~Plain(kind).saved
<1>1. NewToken \in Tokens
  BY Constants
<1>2. /\ Page(kind) = [NoAnswer EXCEPT !.kind = kind, !.csrf = NewToken]
      /\ Plain(kind) = [NoAnswer EXCEPT !.kind = kind]
  BY DEF Page, Plain
<1> QED
  BY <1>1, <1>2, NoAnswerType DEF AnswerSet

LEMMA GetFields ==
  ASSUME NEW r \in RequestSet, NEW path \in Paths
  PROVE  /\ Get(r, path) \in RequestSet /\ Get(r, path).path = path
         /\ Get(r, path).scheme = r.scheme /\ Get(r, path).host = r.host
         /\ Get(r, path).state = r.state /\ Get(r, path).rd = r.rd
         /\ Get(r, path).post = FALSE /\ Get(r, path).token = 0
<1> DEFINE get == Get(r, path)
<1>1. get = [r EXCEPT !.path = path, !.post = FALSE, !.token = 0]
  BY DEF Get
<1>2. 0 \in Tokens
  BY Constants
<1> HIDE DEF get
<1>3. /\ get \in RequestSet /\ get.path = path /\ get.scheme = r.scheme
      /\ get.host = r.host /\ get.state = r.state /\ get.rd = r.rd
      /\ get.post = FALSE /\ get.token = 0
  BY <1>1, <1>2 DEF RequestSet
<1> QED
  BY <1>3 DEF get

(* A request at the canonical address is one for it.                       *)
LEMMA CanonicalPlace ==
  ASSUME config \in Configs, NEW r \in RequestSet, AtCanonical(r), config.canonical = "https"
  PROVE  r.scheme = "https" /\ r.host = "canonical"
BY DEF AtCanonical, RequestScheme, RequestSet, Schemes

(* The redirect to the canonical address keeps what was asked for, but for *)
(* its escapes.                                                            *)
LEMMA ToCanonicalFields ==
  ASSUME config \in Configs, NEW r \in RequestSet, ~AtCanonical(r), r.path \in Destinations
  PROVE  LET a == ToCanonical(r)
         IN  /\ a \in AnswerSet /\ a.kind = "redirect" /\ a.saved = FALSE
             /\ LoginPlace(a.to) /\ Goal(a.to) = Decoded(r.path) /\ Goal(r) = r.path
             /\ ~a.to.post
<1> DEFINE path == Decoded(r.path)
           get == Get(r, path)
           to == [get EXCEPT !.scheme = config.canonical, !.host = "canonical"]
<1>1. path \in Paths /\ path \notin {"login", "provider", "callback"}
  BY DecodedPath
<1> HIDE DEF path
<1>2. get \in RequestSet /\ get.path = path /\ ~get.post
  BY <1>1, GetFields
<1> HIDE DEF get
<1>3. config.canonical \in Schemes
  BY Configured DEF AtCanonical, Config
<1>4. to \in RequestSet /\ to.path = path /\ ~to.post
  BY <1>2, <1>3 DEF RequestSet, Hosts
<1> HIDE DEF to
<1>5. ToCanonical(r) = RedirectTo(to)
  BY DEF ToCanonical, to, get, path
<1>6. LoginPlace(to) /\ Goal(to) = path
  BY <1>1, <1>4 DEF LoginPlace, Goal
<1>7. Goal(r) = r.path
  BY DEF Goal, Destinations, LinkPaths, PrivatePaths, FormPaths
<1> QED
  BY <1>4, <1>5, <1>6, <1>7, RedirectFields DEF path

(* Without an identity every request at the canonical address goes to the  *)
(* login: where there is none, another provider identifies it.             *)
LEMMA AskToLoginFields ==
  ASSUME config \in Configs, NEW r \in RequestSet, NEW c \in CookieSet,
         AtCanonical(r), ~Identified(c), r.path \in Destinations
  PROVE  LET a == AskToLogin(r)
         IN  /\ a \in AnswerSet /\ a.kind = "redirect" /\ a.saved = FALSE
             /\ LoginPlace(a.to) /\ Goal(a.to) = Goal(r) /\ ~a.to.post
<1> DEFINE get == Get(r, "login")
           to == [get EXCEPT !.rd = r.path]
<1>1. config.oidc /\ config.canonical # "none"
  BY Configured DEF Identified
<1>2. /\ get \in RequestSet /\ get.path = "login" /\ get.scheme = r.scheme
      /\ get.host = r.host /\ ~get.post
  BY GetFields DEF Paths
<1> HIDE DEF get
<1>3. /\ to \in RequestSet /\ to.path = "login" /\ to.scheme = r.scheme
      /\ to.host = r.host /\ to.rd = r.path /\ ~to.post
  BY <1>2 DEF RequestSet
<1> HIDE DEF to
<1>4. AskToLogin(r) = RedirectTo(to)
  BY <1>1 DEF AskToLogin, LoginRedirect, to, get
<1>5. LoginPlace(to)
  BY <1>1, <1>3, CanonicalPlace DEF LoginPlace
<1>6. Goal(to) = Goal(r)
  BY <1>3 DEF Goal, Destinations, LinkPaths, PrivatePaths, FormPaths
<1> QED
  BY <1>3, <1>4, <1>5, <1>6, RedirectFields

(* What the invariant needs to know of an answer a to r with cookies c.    *)
AnswerOK(r, c, a) ==
  /\ a \in AnswerSet
  /\ a.kind = "redirect" =>
       /\ LoginPlace(a.to) /\ ~a.to.post
       /\ \/ Goal(a.to) = Goal(r)
          \/ Goal(a.to) = Decoded(r.path) /\ Goal(r) = r.path /\ r.path \in Destinations
          \/ r.path \in {"share", "unshare"} /\ Goal(a.to) = "details"
  /\ a.kind \in {"left", "page", "notFound", "unauthorized"} =>
       /\ r.path \in Destinations
       /\ a.kind = "notFound" \/ r.path \notin {"share", "unshare"}
  /\ a.kind = "page" => AtCanonical(r) /\ Identified(c)
  /\ r.path = "login" => LoginAnswered(a)
  /\ r.path = "provider" =>
       /\ a.kind = "redirect" /\ a.to.path = "callback"
       /\ a.to.state = r.state /\ a.state = {}
  /\ r.path = "callback" /\ c.state = r.state => a.kind # "badState"
  /\ r.post /\ r.path \in FormPaths /\ AtCanonical(r) /\ Identified(c) =>
       a.saved \/ (~ValidCSRF(r, c) /\ a.kind = "badToken")

LEMMA PrivateLinkAnswers ==
  ASSUME config \in Configs, NEW r \in RequestSet, NEW c \in CookieSet,
         LoginPlace(r), r.path \in PrivatePaths
  PROVE  AnswerOK(r, c, PrivateLink(r, c))
<1> DEFINE a == PrivateLink(r, c)
<1>1. /\ r.path \in Destinations /\ r.path \notin FormPaths
      /\ r.path \notin {"login", "provider", "callback"}
  BY DEF Destinations, LinkPaths, PrivatePaths, FormPaths
<1>2. CASE ~AtCanonical(r)
  <2>1. a = ToCanonical(r)
    BY <1>2 DEF PrivateLink
  <2> QED
    BY <1>1, <1>2, <2>1, ToCanonicalFields DEF AnswerOK
<1>3. CASE AtCanonical(r) /\ ~Identified(c)
  <2>1. a = AskToLogin(r)
    BY <1>3 DEF PrivateLink
  <2> QED
    BY <1>1, <1>3, <2>1, AskToLoginFields DEF AnswerOK
<1>4. CASE AtCanonical(r) /\ Identified(c)
  <2>1. a = Plain("left")
    BY <1>4 DEF PrivateLink
  <2>2. a \in AnswerSet /\ a.kind = "left"
    BY <2>1, PageFields DEF Kinds
  <2> QED
    BY <1>1, <2>2 DEF AnswerOK, FormPaths
<1> QED
  BY <1>2, <1>3, <1>4

(* Also for a GET of share or unshare.                                     *)
LEMMA MissingLinkAnswers ==
  ASSUME config \in Configs, NEW r \in RequestSet, NEW c \in CookieSet,
         LoginPlace(r),
         r.path = "missing" \/ (r.path \in {"share", "unshare"} /\ ~r.post)
  PROVE  AnswerOK(r, c, MissingLink(r))
<1> DEFINE a == MissingLink(r)
<1>1. r.path \in Destinations /\ ~(r.post /\ r.path \in FormPaths)
  BY DEF Destinations, LinkPaths, PrivatePaths, FormPaths
<1>2. CASE ~AtCanonical(r)
  <2>1. a = ToCanonical(r)
    BY <1>2 DEF MissingLink
  <2> QED
    BY <1>1, <1>2, <2>1, ToCanonicalFields DEF AnswerOK
<1>3. CASE AtCanonical(r)
  <2>1. a = Page("notFound")
    BY <1>3 DEF MissingLink
  <2>2. a \in AnswerSet /\ a.kind = "notFound"
    BY <2>1, PageFields DEF Kinds
  <2> QED
    BY <1>1, <2>2 DEF AnswerOK
<1> QED
  BY <1>2, <1>3

LEMMA LoginAnswers ==
  ASSUME config \in Configs, NEW r \in RequestSet, NEW c \in CookieSet,
         LoginPlace(r), ~r.post, r.path = "login"
  PROVE  AnswerOK(r, c, HandleLogin(r))
<1> DEFINE state == [id |-> Unused(MaxStates, StatesInUse), rd |-> r.rd]
           to == [r EXCEPT !.path = "provider", !.rd = "index", !.state = state]
           red == RedirectTo(to)
           a == [red EXCEPT !.state = {CookieValue(state)}]
<1>1. state \in StateSet /\ state.rd = r.rd
  BY Constants DEF RequestSet
<1> HIDE DEF state
<1>2. /\ to \in RequestSet /\ to.path = "provider" /\ to.state = state
      /\ to.scheme = r.scheme /\ to.host = r.host /\ ~to.post
  BY <1>1 DEF RequestSet, Paths, Destinations
<1> HIDE DEF to
<1>3. red \in AnswerSet /\ red.kind = "redirect" /\ red.to = to
  BY <1>2, RedirectFields
<1> HIDE DEF red
<1>4. CookieValue(state) \in KeptSet
  BY <1>1, CookieValueFields
<1>5. a \in AnswerSet /\ a.kind = "redirect" /\ a.to = to /\ a.state = {CookieValue(state)}
  BY <1>3, <1>4 DEF AnswerSet
<1>6. a = HandleLogin(r)
  BY DEF HandleLogin, ToProvider, a, red, to, state
<1> HIDE DEF a
<1>7. LoginPlace(to)
  BY <1>2 DEF LoginPlace
<1>8. Goal(to) = Goal(r)
  BY <1>1, <1>2 DEF Goal
<1>9. LoginAnswered(a)
  BY <1>2, <1>5 DEF LoginAnswered
<1> QED
  BY <1>2, <1>5, <1>6, <1>7, <1>8, <1>9 DEF AnswerOK, FormPaths

LEMMA ProviderAnswers ==
  ASSUME config \in Configs, NEW r \in RequestSet, NEW c \in CookieSet,
         LoginPlace(r), ~r.post, r.path = "provider"
  PROVE  AnswerOK(r, c, Provider(r))
<1> DEFINE to == [r EXCEPT !.path = "callback", !.host = "canonical",
                           !.scheme = config.canonical]
           a == RedirectTo(to)
<1>1. config.canonical \in Schemes
  BY Configured DEF LoginPlace, Config
<1>2. /\ to \in RequestSet /\ to.path = "callback" /\ to.state = r.state
      /\ to.scheme = config.canonical /\ to.host = "canonical" /\ ~to.post
  BY <1>1 DEF RequestSet, Paths, Hosts
<1>3. a = Provider(r)
  BY DEF Provider
<1> HIDE DEF to, a
<1>4. a \in AnswerSet /\ a.kind = "redirect" /\ a.to = to /\ a.state = {}
  BY <1>2, RedirectFields DEF a
<1>5. LoginPlace(to)
  BY <1>1, <1>2 DEF LoginPlace, Schemes
<1>6. Goal(to) = Goal(r)
  BY <1>2 DEF Goal
<1> QED
  BY <1>2, <1>3, <1>4, <1>5, <1>6 DEF AnswerOK, FormPaths

LEMMA CallbackAnswers ==
  ASSUME config \in Configs, NEW r \in RequestSet, NEW c \in CookieSet,
         LoginPlace(r), r.path = "callback"
  PROVE  AnswerOK(r, c, HandleCallback(r, c))
<1> DEFINE a == HandleCallback(r, c)
<1>1. CASE c.state # r.state
  <2>1. a = Plain("badState")
    BY <1>1 DEF HandleCallback
  <2>2. a \in AnswerSet /\ a.kind = "badState"
    BY <2>1, PageFields DEF Kinds
  <2> QED
    BY <1>1, <2>2 DEF AnswerOK, FormPaths
<1>2. CASE c.state = r.state
  <2> DEFINE get == Get(r, c.state.rd)
             to == [get EXCEPT !.state = NoState]
             red == RedirectTo(to)
             b == [red EXCEPT !.state = {NoState}, !.session = TRUE]
  <2>1. c.state.rd \in Destinations /\ c.state.rd \in Paths
    BY <1>2 DEF RequestSet, StateSet, Destinations, Paths
  <2>2. get \in RequestSet /\ get.path = c.state.rd /\ ~get.post
    BY <2>1, GetFields
  <2> HIDE DEF get
  <2>3. to \in RequestSet /\ to.path = c.state.rd /\ ~to.post
    BY <2>2, Constants DEF RequestSet
  <2> HIDE DEF to
  <2>4. red \in AnswerSet /\ red.kind = "redirect" /\ red.to = to
    BY <2>3, RedirectFields
  <2> HIDE DEF red
  <2>5. b \in AnswerSet /\ b.kind = "redirect" /\ b.to = to
    BY <2>4, Constants DEF AnswerSet
  <2>6. a = b
    BY <1>2 DEF HandleCallback, red, to, get
  <2> HIDE DEF a, b
  <2>7. LoginPlace(to) /\ Goal(to) = Goal(r)
    BY <1>2, <2>1, <2>3 DEF LoginPlace, Goal, Destinations, LinkPaths, PrivatePaths, FormPaths
  <2>8. AnswerOK(r, c, a)
    BY <2>3, <2>5, <2>6, <2>7 DEF AnswerOK, FormPaths
  <2> QED
    BY <2>8 DEF a
<1> QED
  BY <1>1, <1>2

LEMMA FormAnswers ==
  ASSUME config \in Configs, NEW r \in RequestSet, NEW c \in CookieSet,
         r.post, AtCanonical(r), Identified(c), r.path \in FormPaths
  PROVE  AnswerOK(r, c, Form(r, c))
<1> DEFINE cookie == IF r.path = "unshare" THEN 0 ELSE NewToken
           get == Get(r, "details")
           done == IF r.path = "details" THEN Page("page") ELSE RedirectTo(get)
           saved == [done EXCEPT !.csrf = cookie, !.saved = TRUE]
           bad == Plain("badToken")
           refused == [bad EXCEPT !.csrf = cookie]
           a == Form(r, c)
<1>1. cookie \in Tokens
  BY Constants
<1>2. get \in RequestSet /\ get.path = "details" /\ ~get.post
  BY GetFields DEF Paths, FormPaths
<1>3. a = IF ValidCSRF(r, c) THEN saved ELSE refused
  BY DEF Form
<1> HIDE DEF a, cookie, get
<1>4. /\ done \in AnswerSet
      /\ \/ r.path = "details" /\ done.kind = "page"
         \/ r.path # "details" /\ done.kind = "redirect" /\ done.to = get
  BY <1>2, PageFields, RedirectFields DEF Kinds
<1>5. bad \in AnswerSet /\ bad.kind = "badToken"
  BY PageFields DEF Kinds
<1> HIDE DEF done, bad
<1>6. /\ saved \in AnswerSet /\ saved.saved
      /\ saved.kind = done.kind /\ saved.to = done.to
  BY <1>1, <1>4 DEF AnswerSet
<1>7. refused \in AnswerSet /\ refused.kind = "badToken"
  BY <1>1, <1>5 DEF AnswerSet
<1> HIDE DEF saved, refused
<1>8. r.path \in Destinations /\ r.path \notin {"login", "provider", "callback"}
  BY DEF Destinations, FormPaths
<1>9. CASE ValidCSRF(r, c)
  <2> SUFFICES AnswerOK(r, c, a)
    BY DEF a
  <2>1. a = saved
    BY <1>3, <1>9
  <2>2. CASE r.path = "details"
    BY <1>4, <1>6, <1>8, <2>1, <2>2 DEF AnswerOK
  <2>3. CASE r.path # "details"
    <3>1. r.path \in {"share", "unshare"}
      BY <2>3 DEF FormPaths
    <3>2. LoginPlace(get) /\ Goal(get) = "details"
      BY <1>2 DEF LoginPlace, Goal
    <3>3. a \in AnswerSet /\ a.kind = "redirect" /\ a.to = get /\ a.saved
      BY <1>4, <1>6, <2>1, <2>3
    <3> QED
      BY <1>2, <1>8, <3>1, <3>2, <3>3 DEF AnswerOK
  <2> QED
    BY <2>2, <2>3
<1>10. CASE ~ValidCSRF(r, c)
  <2>1. a = refused
    BY <1>3, <1>10
  <2>2. AnswerOK(r, c, a)
    BY <1>7, <1>8, <1>10, <2>1 DEF AnswerOK
  <2> QED
    BY <2>2 DEF a
<1> QED
  BY <1>9, <1>10

LEMMA UIPageAnswers ==
  ASSUME config \in Configs, NEW r \in RequestSet, NEW c \in CookieSet,
         LoginPlace(r), r.path \in FormPaths \cup {"index"},
         r.path \in {"share", "unshare"} => r.post, r.post => r.path \in FormPaths
  PROVE  AnswerOK(r, c, UIPage(r, c))
<1> DEFINE a == UIPage(r, c)
<1>1. r.path \in Destinations /\ r.path \notin {"login", "provider", "callback"}
  BY DEF Destinations, FormPaths
<1>2. CASE ~AtCanonical(r)
  <2>1. a = ToCanonical(r)
    BY <1>2 DEF UIPage
  <2> QED
    BY <1>1, <1>2, <2>1, ToCanonicalFields DEF AnswerOK
<1>3. CASE AtCanonical(r) /\ ~Identified(c)
  <2>1. a = AskToLogin(r)
    BY <1>3 DEF UIPage
  <2> QED
    BY <1>1, <1>3, <2>1, AskToLoginFields DEF AnswerOK
<1>4. CASE AtCanonical(r) /\ Identified(c) /\ r.post
  <2>1. a = Form(r, c)
    BY <1>4 DEF UIPage
  <2> QED
    BY <1>4, <2>1, FormAnswers
<1>5. CASE AtCanonical(r) /\ Identified(c) /\ ~r.post
  <2>1. a = Page("page")
    BY <1>5 DEF UIPage
  <2>2. a \in AnswerSet /\ a.kind = "page"
    BY <2>1, PageFields DEF Kinds
  <2> QED
    BY <1>1, <1>5, <2>2 DEF AnswerOK
<1>6. r.post \in BOOLEAN
  BY DEF RequestSet
<1> QED
  BY <1>2, <1>3, <1>4, <1>5, <1>6

LEMMA Answers ==
  ASSUME config \in Configs, NEW r \in RequestSet, NEW c \in CookieSet,
         LoginPlace(r), Sensible(r)
  PROVE  AnswerOK(r, c, AnswerTo(r, c))
<1>1. r.path \in Paths
  BY DEF RequestSet
<1>2. CASE r.path \in {"share", "unshare"} /\ ~r.post
  <2>1. AnswerTo(r, c) = MissingLink(r)
    BY <1>2 DEF AnswerTo, PrivatePaths
  <2> QED
    BY <1>2, <2>1, MissingLinkAnswers
<1>3. CASE r.path \in PrivatePaths
  <2>1. r.path \notin {"share", "unshare", "missing", "login", "provider", "callback"}
    BY <1>3 DEF PrivatePaths
  <2>2. AnswerTo(r, c) = PrivateLink(r, c)
    BY <1>3, <2>1 DEF AnswerTo
  <2> QED
    BY <1>3, <2>2, PrivateLinkAnswers
<1>4. CASE r.path = "missing"
  BY <1>4, MissingLinkAnswers DEF AnswerTo, PrivatePaths
<1>5. CASE r.path = "login"
  BY <1>5, LoginAnswers DEF AnswerTo, Sensible, FormPaths, PrivatePaths
<1>6. CASE r.path = "provider"
  BY <1>6, ProviderAnswers DEF AnswerTo, Sensible, FormPaths, PrivatePaths
<1>7. CASE r.path = "callback"
  BY <1>7, CallbackAnswers DEF AnswerTo, PrivatePaths
<1>8. CASE r.path \in FormPaths \cup {"index"} /\ ~(r.path \in {"share", "unshare"} /\ ~r.post)
  <2>1. AnswerTo(r, c) = UIPage(r, c)
    BY <1>8 DEF AnswerTo, FormPaths, PrivatePaths
  <2>2. r.path \in {"share", "unshare"} => r.post
    BY <1>8
  <2> QED
    BY <1>8, <2>1, <2>2, UIPageAnswers DEF Sensible
<1> QED
  BY <1>1, <1>2, <1>3, <1>4, <1>5, <1>6, <1>7, <1>8 DEF Paths, LinkPaths
-----------------------------------------------------------------------------
(* The steps.                                                              *)

LEMMA TabTypes ==
  ASSUME TypeOK, NEW t \in Tabs
  PROVE  /\ tabs[t] \in TabSet /\ tabs[t].request \in RequestSet
         /\ tabs[t].answer \in AnswerSet /\ tabs[t].answer.to \in RequestSet
         /\ \A h \in Hosts : jar[h] \in CookieSet
BY DEF TypeOK, TabSet, AnswerSet

LEMMA Initially == Init => VisitInv
<1> SUFFICES ASSUME Init PROVE VisitInv
  OBVIOUS
<1>1. NewTab \in TabSet
  BY Constants, NoRequestType, NoAnswerType DEF NewTab, TabSet, Kinds, Asked
<1>2. /\ NewTab.pc = "rest" /\ NewTab.kind = "none" /\ NewTab.token = 0
      /\ ~NewTab.due /\ ~NewTab.alone
  BY DEF NewTab
<1>3. TypeOK
  BY <1>1, Constants DEF Init, TypeOK
<1>4. TabOK(NewTab)
  BY <1>2 DEF TabOK, LandsOK, Landed, AloneOK, FormOK
<1> QED
  BY <1>3, <1>4 DEF Init, VisitInv

(* A tab sets out with a request of its own.                               *)
LEMMA Beginning ==
  ASSUME VisitInv, NEW t \in Tabs, NEW r \in RequestSet, NEW asked \in Asked,
         NEW due \in BOOLEAN, Start(t, r, asked, due), UNCHANGED <<config, jar, lapses>>,
         r.path \in Destinations, Sensible(r), HeadedFor(r, asked),
         due => /\ r.post /\ r.path \in FormPaths /\ r.token # 0
                /\ Serves(r) /\ Vouches(r, r.token)
  PROVE  VisitInv'
<1> DEFINE tab == [NewTab EXCEPT !.pc = "going", !.request = r, !.asked = asked, !.due = due]
<1>1. NewTab \in TabSet /\ ~NewTab.alone
  BY Constants, NoRequestType, NoAnswerType DEF NewTab, TabSet, Kinds, Asked
<1>2. /\ tab \in TabSet /\ tab.pc = "going" /\ tab.request = r /\ tab.asked = asked
      /\ tab.due = due /\ ~tab.alone
  BY <1>1 DEF TabSet
<1>3. tabs' = [tabs EXCEPT ![t] = tab]
  BY DEF Start
<1> HIDE DEF tab
<1>4. TypeOK'
  BY <1>2, <1>3 DEF VisitInv, TypeOK
<1>5. LoginPlace(r)
  BY DEF LoginPlace, Destinations, LinkPaths, PrivatePaths, FormPaths
<1>6. TabOK(tab)
  <2>1. LandsOK(tab)
    BY <1>2, <1>5 DEF LandsOK
  <2>2. AloneOK(tab) /\ FormOK(tab)
    BY <1>2 DEF AloneOK, FormOK
  <2> QED
    BY <2>1, <2>2 DEF TabOK
<1>7. ASSUME NEW u \in Tabs PROVE TabOK(tabs'[u])
  BY <1>3, <1>6 DEF VisitInv, TypeOK
<1>8. ASSUME NEW u \in Tabs, TabOK(tabs'[u]) PROVE TabOK(tabs[u])'
  BY <1>8 DEF TabOK, LandsOK, LoginPlace, AloneOK, FormOK, Serves, AtCanonical, RequestScheme,
     Vouches, Identified
<1> QED
  BY <1>4, <1>7, <1>8 DEF VisitInv
LEMMA Visiting ==
  ASSUME VisitInv, NEW t \in Tabs, NEW url \in Starts, Visit(t, url)
  PROVE  VisitInv'
<1> DEFINE path == url.path
           r == [NoRequest EXCEPT !.scheme = url.scheme, !.host = url.host, !.path = path]
<1>1. url.scheme \in Schemes /\ url.host \in Hosts /\ path \in LinkPaths \cup {"details"}
  BY VisitsAssumption DEF Address
<1>2. Start(t, r, path, FALSE) /\ UNCHANGED <<config, jar, lapses>>
  BY DEF Visit
<1> HIDE DEF path
<1>3. /\ path \in Paths /\ path \in Destinations /\ path \in Asked
      /\ path \notin {"login", "provider", "callback"}
  BY <1>1 DEF Paths, Destinations, Asked, LinkPaths, PrivatePaths, FormPaths
<1>4. r \in RequestSet /\ r.path = path /\ ~r.post
  BY <1>1, <1>3, NoRequestType DEF RequestSet
<1> HIDE DEF r
<1>5. Sensible(r) /\ HeadedFor(r, path)
  BY <1>3, <1>4 DEF Sensible, HeadedFor, Goal
<1> QED
  BY <1>2, <1>3, <1>4, <1>5, Beginning

LEMMA Submitting ==
  ASSUME VisitInv, NEW t \in Tabs, NEW path \in FormPaths, Submit(t, path)
  PROVE  VisitInv'
<1> DEFINE old == tabs[t].request
           token == tabs[t].token
           r == [old EXCEPT !.path = path, !.post = TRUE, !.token = token]
           due == tabs[t].fresh
<1>1. /\ old \in RequestSet /\ token \in Tokens /\ due \in BOOLEAN
      /\ tabs[t].pc = "rest" /\ token # 0
  BY TabTypes DEF VisitInv, TabSet, Submit
<1>2. Start(t, r, "details", due) /\ UNCHANGED <<config, jar, lapses>>
  BY DEF Submit
<1>3. Serves(old) /\ (due => Vouches(old, token))
  BY <1>1 DEF VisitInv, TabOK, FormOK
<1> HIDE DEF old, token, due
<1>4. /\ path \in Paths /\ path \in Destinations
      /\ path \notin {"login", "provider", "callback"}
  BY DEF Paths, Destinations, FormPaths
<1>5. /\ r \in RequestSet /\ r.path = path /\ r.post /\ r.token = token
      /\ r.scheme = old.scheme /\ r.host = old.host
  BY <1>1, <1>4 DEF RequestSet
<1> HIDE DEF r
<1>6. Sensible(r) /\ HeadedFor(r, "details")
  BY <1>4, <1>5 DEF Sensible, HeadedFor, Goal, FormPaths
<1>7. Serves(r) /\ (due => Vouches(r, r.token))
  BY <1>3, <1>5 DEF Serves, AtCanonical, RequestScheme, Vouches
<1>8. "details" \in Asked
  BY DEF Asked
<1> QED
  BY <1>1, <1>2, <1>4, <1>5, <1>6, <1>7, <1>8, Beginning

(* A request is answered with the cookies of the moment; a login's tab is  *)
(* answered with the state it sends along, a fresh form is carried out.    *)
LEMMA Sending ==
  ASSUME VisitInv, NEW t \in Tabs, Send(t)
  PROVE  VisitInv'
<1> DEFINE tab == tabs[t]
           r == tab.request
           c == IF r.scheme = "https" THEN jar[r.host] ELSE NoCookies
           a == AnswerTo(r, c)
           new == [tab EXCEPT !.pc = "waiting", !.answer = a,
                     !.fresh = a.kind = "page", !.due = tab.due /\ ~a.saved]
<1>1. /\ tab \in TabSet /\ r \in RequestSet /\ tab.pc = "going"
      /\ TabOK(tab) /\ config \in Configs
  BY TabTypes DEF VisitInv, TypeOK, Send
<1>2. c \in CookieSet
  BY <1>1, TabTypes, Constants DEF VisitInv, RequestSet
<1>3. tabs' = [tabs EXCEPT ![t] = new] /\ config' = config /\ jar' = jar
  BY DEF Send
<1>4. LoginPlace(r) /\ Sensible(r) /\ HeadedFor(r, tab.asked)
  BY <1>1 DEF TabOK, LandsOK
<1>5. AnswerOK(r, c, a)
  BY <1>1, <1>2, <1>4, Answers
<1>6. a \in AnswerSet /\ a.saved \in BOOLEAN /\ (a.kind = "page") \in BOOLEAN
  BY <1>5 DEF AnswerOK, AnswerSet
<1>7. /\ r.scheme = "https" => c = jar[r.host]
      /\ r.scheme # "https" => c = NoCookies
  OBVIOUS
<1>8. r.scheme \in Schemes
  BY <1>1 DEF RequestSet
<1>9. tab = tabs[t] /\ r = tab.request
  OBVIOUS
<1> HIDE DEF tab, c, a
<1>10. /\ new \in TabSet /\ new.pc = "waiting" /\ new.answer = a
       /\ new.fresh = (a.kind = "page") /\ new.due = (tab.due /\ ~a.saved)
       /\ new.request = r /\ new.asked = tab.asked /\ new.alone = tab.alone
  BY <1>1, <1>6 DEF TabSet
<1> HIDE DEF new, r
<1>11. TypeOK'
  BY <1>3, <1>10 DEF VisitInv, TypeOK
<1>12. LandsOK(new)
  <2>1. tab.asked \in Asked
    BY <1>1 DEF TabSet
  <2>2. a.kind = "redirect" =>
          LoginPlace(a.to) /\ ~a.to.post /\ HeadedFor(a.to, tab.asked)
    BY <1>4, <1>5, <2>1 DEF AnswerOK, HeadedFor, Asked, Goal, Decoded, LinkPaths, PrivatePaths
  <2>3. Landed(r.path, a.kind, tab.asked)
    BY <1>4, <1>5 DEF AnswerOK, HeadedFor, Landed, Goal, Destinations, LinkPaths, PrivatePaths, FormPaths
  <2> QED
    BY <1>4, <1>10, <2>2, <2>3 DEF LandsOK
<1>13. AloneOK(new)
  <2>1. r.path = "login" => LoginAnswered(a)
    BY <1>5 DEF AnswerOK
  <2>2. ASSUME tab.alone, config.canonical # "http"
        PROVE  /\ r.path \in {"provider", "callback"}
               /\ jar["canonical"].state = CookieValue(r.state)
    BY <1>1, <1>9, <2>2 DEF TabOK, AloneOK
  <2>3. ASSUME tab.alone, config.canonical # "http"
        PROVE  c = jar["canonical"]
    <3>1. config.canonical = "https"
      BY <1>1, <1>4, <2>2, <2>3, Configured DEF LoginPlace, Config, Schemes
    <3> QED
      BY <1>4, <1>7, <2>2, <2>3, <3>1 DEF LoginPlace
  <2>4. r.state.rd # "odd" => CookieValue(r.state) = r.state
    BY <1>1, CookieValueFields DEF RequestSet
  <2> QED
    BY <1>5, <1>10, <2>1, <2>2, <2>3, <2>4 DEF AloneOK, AnswerOK
<1>14. FormOK(new)
  <2>1. Identified(c) => (r.scheme = "http" => config.header)
    BY <1>7 DEF Identified, NoCookies
  <2>2. a.kind = "page" => Serves(r) /\ (r.scheme = "https" => Identified(jar[r.host]))
    BY <1>5, <1>7, <2>1 DEF AnswerOK, Serves
  <2>3. ASSUME tab.due, ~a.saved
        PROVE  r.scheme = "http" /\ a.kind = "badToken"
    <3>1. /\ r.post /\ r.path \in FormPaths /\ r.token # 0
          /\ Serves(r) /\ Vouches(r, r.token)
      BY <1>1, <1>9, <2>3 DEF TabOK, FormOK
    <3>2. Identified(c)
      BY <1>7, <1>8, <3>1 DEF Serves, Vouches, Identified, Schemes
    <3>3. ~ValidCSRF(r, c) /\ a.kind = "badToken"
      BY <1>5, <2>3, <3>1, <3>2 DEF AnswerOK, Serves
    <3>4. r.scheme # "https"
      BY <1>7, <3>1, <3>3 DEF Vouches, ValidCSRF
    <3> QED
      BY <1>8, <3>3, <3>4 DEF Schemes
  <2>4. ~(tab.due /\ ~a.saved) \/ (r.scheme = "http" /\ a.kind = "badToken")
    BY <2>3
  <2> QED
    BY <1>10, <2>2, <2>4 DEF FormOK
<1>15. TabOK(new)
  BY <1>12, <1>13, <1>14 DEF TabOK
<1>16. ASSUME NEW u \in Tabs PROVE TabOK(tabs'[u])
  BY <1>3, <1>15 DEF VisitInv, TypeOK
<1>17. ASSUME NEW u \in Tabs, TabOK(tabs'[u]) PROVE TabOK(tabs[u])'
  BY <1>3, <1>17 DEF TabOK, LandsOK, LoginPlace, AloneOK, FormOK, Serves, AtCanonical,
     RequestScheme, Vouches, Identified
<1> QED
  BY <1>11, <1>16, <1>17 DEF VisitInv
(* The cookies the browser has afterwards.                                 *)
LEMMA CookieFields ==
  ASSUME NEW c \in CookieSet, NEW a \in AnswerSet
  PROVE  LET new == CookiesAfter(c, a)
         IN  /\ new \in CookieSet
             /\ c.session => new.session
             /\ a.csrf = 0 => new.csrf = c.csrf
             /\ a.csrf # 0 => new.csrf = a.csrf
             /\ a.state = {} => new.state = c.state
             /\ \A s : a.state = {s} => new.state = s
<1> DEFINE new == CookiesAfter(c, a)
           state == IF a.state = {} THEN c.state ELSE CHOOSE s \in a.state : TRUE
           csrf == IF a.csrf = 0 THEN c.csrf ELSE a.csrf
<1>1. /\ c.session \in BOOLEAN /\ c.state \in KeptSet /\ c.csrf \in Tokens
      /\ a.session \in BOOLEAN /\ a.state \subseteq KeptSet /\ a.csrf \in Tokens
  BY DEF CookieSet, AnswerSet
<1>2. a.state # {} => (CHOOSE s \in a.state : TRUE) \in a.state
  OBVIOUS
<1>3. state \in KeptSet /\ csrf \in Tokens
  BY <1>1, <1>2
<1>4. a.state = {} => state = c.state
  OBVIOUS
<1>5. \A s : a.state = {s} => state = s
  BY <1>2
<1>6. new = [session |-> c.session \/ a.session, state |-> state, csrf |-> csrf]
  BY DEF CookiesAfter
<1>7. csrf = IF a.csrf = 0 THEN c.csrf ELSE a.csrf
  OBVIOUS
<1> HIDE DEF new, state, csrf
<1>8. new \in CookieSet
  BY <1>1, <1>3, <1>6 DEF CookieSet
<1>9. /\ new.session = (c.session \/ a.session)
      /\ new.state = state /\ new.csrf = csrf
  BY <1>6
<1> QED
  BY <1>4, <1>5, <1>7, <1>8, <1>9 DEF new
LEMMA BesideFields ==
  ASSUME NEW tab \in TabSet, NEW a
  PROVE  LET new == Beside(tab, a)
         IN  /\ new \in TabSet /\ new.pc = tab.pc /\ new.request = tab.request
             /\ new.answer = tab.answer /\ new.kind = tab.kind
             /\ new.asked = tab.asked /\ new.token = tab.token
             /\ new.fresh => tab.fresh /\ (tab.pc = "waiting" \/ a.csrf = 0)
             /\ new.due => tab.due /\ (tab.pc = "waiting" \/ a.csrf = 0)
             /\ new.alone => tab.alone /\ (Decided(tab) \/ a.state = {})
<1> DEFINE fresh == tab.fresh /\ (tab.pc = "waiting" \/ a.csrf = 0)
           due == tab.due /\ (tab.pc = "waiting" \/ a.csrf = 0)
           alone == tab.alone /\ (Decided(tab) \/ a.state = {})
           new == [tab EXCEPT !.fresh = fresh, !.due = due, !.alone = alone]
<1>1. /\ fresh \in BOOLEAN /\ due \in BOOLEAN
      /\ fresh => tab.fresh /\ (tab.pc = "waiting" \/ a.csrf = 0)
      /\ due => tab.due /\ (tab.pc = "waiting" \/ a.csrf = 0)
  OBVIOUS
<1>2. alone \in BOOLEAN /\ (alone => tab.alone /\ (Decided(tab) \/ a.state = {}))
  BY DEF Decided
<1>3. Beside(tab, a) = new
  BY DEF Beside
<1> HIDE DEF fresh, due, alone
<1>4. /\ new \in TabSet /\ new.pc = tab.pc /\ new.request = tab.request
      /\ new.answer = tab.answer /\ new.kind = tab.kind
      /\ new.asked = tab.asked /\ new.token = tab.token
      /\ new.fresh = fresh /\ new.due = due /\ new.alone = alone
  BY <1>1, <1>2 DEF TabSet
<1> HIDE DEF new
<1> QED
  BY <1>1, <1>2, <1>3, <1>4

(* The tab whose answer arrives: it follows a redirect, ...                *)
LEMMA Following ==
  ASSUME NEW tab \in TabSet, tab.answer.kind = "redirect"
  PROVE  LET new == After(tab)
         IN  /\ new \in TabSet /\ new.pc = "going" /\ new.request = tab.answer.to
             /\ new.asked = tab.asked /\ new.due = tab.due
             /\ new.alone => \/ tab.request.path = "login"
                             \/ tab.alone /\ tab.request.path = "provider"
<1> DEFINE next == [tab EXCEPT !.answer = NoAnswer]
           alone == tab.request.path = "login" \/ (tab.alone /\ tab.request.path = "provider")
           new == [next EXCEPT !.pc = "going", !.request = tab.answer.to, !.alone = alone]
<1>1. alone \in BOOLEAN /\ (alone => \/ tab.request.path = "login"
                                     \/ tab.alone /\ tab.request.path = "provider")
  OBVIOUS
<1>2. /\ next \in TabSet /\ next.asked = tab.asked /\ next.due = tab.due
      /\ next.alone = tab.alone
  BY NoAnswerType DEF TabSet
<1>3. tab.answer.to \in RequestSet
  BY DEF TabSet, AnswerSet
<1>4. After(tab) = [next EXCEPT !.pc = "going", !.request = tab.answer.to,
                      !.alone = tab.request.path = "login"
                                  \/ (next.alone /\ tab.request.path = "provider")]
  BY DEF After
<1> HIDE DEF next
<1>5. After(tab) = new
  BY <1>2, <1>4
<1> HIDE DEF alone
<1>6. /\ new \in TabSet /\ new.pc = "going" /\ new.request = tab.answer.to
      /\ new.asked = tab.asked /\ new.due = tab.due /\ new.alone = alone
  BY <1>1, <1>2, <1>3 DEF TabSet
<1> HIDE DEF new
<1> QED
  BY <1>1, <1>5, <1>6

(* ... or comes to rest.                                                   *)
LEMMA Resting ==
  ASSUME NEW tab \in TabSet, tab.answer.kind # "redirect"
  PROVE  LET new == After(tab)
         IN  /\ new \in TabSet /\ new.pc = "rest" /\ new.kind = tab.answer.kind
             /\ new.request.path = tab.request.path
             /\ new.request.scheme = tab.request.scheme
             /\ new.request.host = tab.request.host
             /\ new.request.state.rd = tab.request.state.rd
             /\ new.asked = tab.asked /\ new.due = tab.due /\ new.fresh = tab.fresh
             /\ new.token # 0 => tab.answer.kind = "page" /\ new.token = tab.answer.csrf
             /\ new.alone => tab.alone /\ tab.answer.kind = "badState"
<1> DEFINE a == tab.answer
           next == [tab EXCEPT !.answer = NoAnswer]
           token == IF a.kind = "page" THEN a.csrf ELSE 0
           request == [tab.request EXCEPT !.post = FALSE, !.token = 0, !.state.id = 0]
           alone == tab.alone /\ a.kind = "badState"
           new == [next EXCEPT !.pc = "rest", !.kind = a.kind, !.token = token,
                               !.alone = alone, !.request = request]
<1>1. /\ next \in TabSet /\ next.asked = tab.asked /\ next.due = tab.due
      /\ next.alone = tab.alone /\ next.fresh = tab.fresh /\ next.request = tab.request
  BY NoAnswerType DEF TabSet
<1>2. a.kind \in Kinds /\ a.csrf \in Tokens
  BY DEF TabSet, AnswerSet
<1>3. token \in Tokens /\ (token # 0 => a.kind = "page" /\ token = a.csrf)
  BY <1>2, Constants
<1>4. /\ request \in RequestSet /\ request.path = tab.request.path
      /\ request.scheme = tab.request.scheme /\ request.host = tab.request.host
      /\ request.state.rd = tab.request.state.rd
  <2>0. PICK old \in RequestSet : old = tab.request
    BY DEF TabSet
  <2>1. PICK state \in StateSet : state = old.state
    BY DEF RequestSet
  <2>2. PICK cleared : cleared = [state EXCEPT !.id = 0]
    OBVIOUS
  <2>3. 0 \in Tokens /\ 0 \in StateIds
    BY Constants DEF StateIds
  <2>4. cleared \in StateSet /\ cleared.rd = state.rd
    BY <2>2, <2>3 DEF StateSet
  <2>5. request = [old EXCEPT !.post = FALSE, !.token = 0, !.state = cleared]
    BY <2>0, <2>1, <2>2
  <2> HIDE DEF request
  <2> QED
    BY <2>0, <2>1, <2>3, <2>4, <2>5 DEF RequestSet
<1>5. alone \in BOOLEAN /\ (alone => tab.alone /\ a.kind = "badState")
  OBVIOUS
<1>6. After(tab) = [next EXCEPT !.pc = "rest", !.kind = a.kind, !.token = token,
                      !.alone = next.alone /\ a.kind = "badState",
                      !.request = [next.request EXCEPT !.post = FALSE, !.token = 0,
                                                       !.state.id = 0]]
  BY DEF After
<1> HIDE DEF next
<1>7. After(tab) = new
  BY <1>1, <1>6
<1> HIDE DEF token, request, alone
<1>8. /\ new \in TabSet /\ new.pc = "rest" /\ new.kind = a.kind
      /\ new.request = request /\ new.asked = tab.asked /\ new.due = tab.due
      /\ new.fresh = tab.fresh /\ new.token = token /\ new.alone = alone
  BY <1>1, <1>2, <1>3, <1>4, <1>5 DEF TabSet
<1> HIDE DEF new
<1> QED
  BY <1>3, <1>4, <1>5, <1>7, <1>8
(* A tab beside what happens, or that time passes: it keeps what it has,   *)
(* and what counts on the cookies counts on those that stay.               *)
LEMMA Onlooking ==
  ASSUME VisitInv, config' = config, NEW u \in Tabs, NEW new \in TabSet,
         new.pc = tabs[u].pc, new.request = tabs[u].request,
         new.answer = tabs[u].answer, new.kind = tabs[u].kind,
         new.asked = tabs[u].asked, new.token = tabs[u].token,
         new.fresh => tabs[u].fresh, new.due => tabs[u].due, new.alone => tabs[u].alone,
         LET h == new.request.host
         IN  new.request.scheme = "https" =>
               /\ new.fresh \/ (new.due /\ new.pc = "going") =>
                    (Identified(jar[h]) => Identified(jar[h])')
               /\ (new.fresh /\ new.pc = "rest") \/ (new.due /\ new.pc = "going") =>
                    jar'[h].csrf = jar[h].csrf,
         new.alone /\ ~Decided(tabs[u]) /\ new.request.scheme = "https"
         /\ new.request.host = "canonical" =>
           jar'["canonical"].state = jar["canonical"].state
  PROVE  TabOK(new)'
<1>1. /\ TabOK(tabs[u]) /\ tabs[u] \in TabSet /\ config \in Configs
      /\ new.request \in RequestSet
  BY TabTypes DEF VisitInv, TypeOK, TabSet
<1>2. LandsOK(new)'
  BY <1>1 DEF TabOK, LandsOK, LoginPlace
<1>3. AloneOK(new)'
  <2>1. new.pc = "waiting" /\ new.request.path = "login" => LoginAnswered(new.answer)
    BY <1>1 DEF TabOK, AloneOK
  <2>2. ASSUME new.alone, config.canonical # "http"
        PROVE  /\ new.pc = "rest" => new.request.state.rd = "odd"
               /\ new.pc # "rest" =>
                    /\ new.request.path \in {"provider", "callback"}
                    /\ new.pc = "going" \/ new.request.path = "provider" =>
                         jar["canonical"].state = CookieValue(new.request.state)
                    /\ new.pc = "waiting" /\ new.request.path = "provider" =>
                         /\ new.answer.kind = "redirect"
                         /\ new.answer.to.path = "callback"
                         /\ new.answer.to.state = new.request.state
                         /\ new.answer.state = {}
                    /\ new.pc = "waiting" /\ new.request.path = "callback" =>
                         new.answer.kind # "badState" \/ new.request.state.rd = "odd"
    BY <1>1, <2>2 DEF TabOK, AloneOK
  <2>3. ASSUME new.alone, config.canonical # "http", new.pc # "rest",
               new.pc = "going" \/ new.request.path = "provider"
        PROVE  jar'["canonical"].state = CookieValue(new.request.state)
    <3>0. new.pc \in {"going", "waiting"}
      BY <2>3 DEF TabSet
    <3>1. LoginPlace(new.request)
      BY <1>1, <2>2, <2>3, <3>0 DEF TabOK, LandsOK
    <3>2. config.canonical = "https"
      BY <1>1, <2>2, <2>3, <3>1, Configured DEF LoginPlace, Config, Schemes
    <3>3. new.request.scheme = "https" /\ new.request.host = "canonical"
      BY <2>2, <2>3, <3>1, <3>2 DEF LoginPlace
    <3>4. ~Decided(tabs[u])
      BY <2>2, <2>3, <3>0 DEF Decided
    <3> QED
      BY <2>2, <2>3, <3>3, <3>4
  <2>4. ASSUME new.alone, config'.canonical # "http", new.pc # "rest"
        PROVE  /\ new.request.path \in {"provider", "callback"}
               /\ new.pc = "going" \/ new.request.path = "provider" =>
                    jar'["canonical"].state = CookieValue(new.request.state)
               /\ new.pc = "waiting" /\ new.request.path = "provider" =>
                    /\ new.answer.kind = "redirect"
                    /\ new.answer.to.path = "callback"
                    /\ new.answer.to.state = new.request.state
                    /\ new.answer.state = {}
               /\ new.pc = "waiting" /\ new.request.path = "callback" =>
                    new.answer.kind # "badState" \/ new.request.state.rd = "odd"
    BY <2>2, <2>3, <2>4
  <2>5. new.alone /\ config'.canonical # "http" /\ new.pc = "rest" =>
          new.request.state.rd = "odd"
    BY <2>2
  <2> QED
    BY <2>1, <2>4, <2>5 DEF AloneOK
<1>4. FormOK(new)'
  <2>1. Serves(new.request) => Serves(new.request)'
    BY DEF Serves, AtCanonical, RequestScheme
  <2>2. /\ new.pc = "rest" /\ new.token # 0 =>
             Serves(new.request) /\ (new.fresh => Vouches(new.request, new.token))
        /\ new.pc = "waiting" /\ new.answer.kind = "page" => Serves(new.request)
        /\ new.pc = "waiting" /\ new.fresh /\ new.request.scheme = "https" =>
             Identified(jar[new.request.host])
        /\ new.due /\ new.pc = "going" =>
             /\ new.request.post /\ new.request.path \in FormPaths
             /\ new.request.token # 0 /\ Serves(new.request)
             /\ Vouches(new.request, new.request.token)
        /\ new.due /\ new.pc = "waiting" =>
             new.request.scheme = "http" /\ new.answer.kind = "badToken"
        /\ new.due /\ new.pc = "rest" => new.request.scheme = "http"
    BY <1>1 DEF TabOK, FormOK
  <2>3. /\ new.fresh /\ new.pc = "rest" /\ Vouches(new.request, new.token) =>
             Vouches(new.request, new.token)'
        /\ new.due /\ new.pc = "going" /\ Vouches(new.request, new.request.token) =>
             Vouches(new.request, new.request.token)'
    BY DEF Vouches
  <2>4. /\ new.fresh /\ new.request.scheme = "https" /\ Identified(jar[new.request.host]) =>
             Identified(jar[new.request.host])'
    OBVIOUS
  <2> QED
    BY <2>1, <2>2, <2>3, <2>4 DEF FormOK
<1> QED
  BY <1>2, <1>3, <1>4 DEF TabOK

LEMMA Receiving ==
  ASSUME VisitInv, NEW t \in Tabs, Receive(t)
  PROVE  VisitInv'
<1>0. PICK tab, r, a : tab = tabs[t] /\ r = tab.request /\ a = tab.answer
  OBVIOUS
<1> DEFINE touched(u) == r.scheme = "https" /\ tabs[u].request.host = r.host
<1>1. /\ tab \in TabSet /\ r \in RequestSet /\ a \in AnswerSet /\ a.to \in RequestSet
      /\ tab.pc = "waiting" /\ TabOK(tab) /\ config \in Configs
      /\ \A h \in Hosts : jar[h] \in CookieSet
      /\ tab = tabs[t] /\ r = tab.request /\ a = tab.answer
  BY <1>0, TabTypes DEF VisitInv, TypeOK, Receive
<1>2. /\ r.host \in Hosts /\ r.scheme \in Schemes /\ "canonical" \in Hosts
  BY <1>1 DEF RequestSet, Hosts
<1>3. /\ config' = config /\ config'.canonical = config.canonical
      /\ jar' = IF r.scheme = "https"
                THEN [jar EXCEPT ![r.host] = CookiesAfter(jar[r.host], a)] ELSE jar
      /\ tabs' = [u \in Tabs |->
                    IF u = t THEN After(tabs[u])
                    ELSE IF touched(u) THEN Beside(tabs[u], a) ELSE tabs[u]]
  BY <1>0 DEF Receive
<1>4. /\ tabs'[t] = After(tab)
      /\ \A u \in Tabs : u # t /\ touched(u) => tabs'[u] = Beside(tabs[u], a)
      /\ \A u \in Tabs : u # t /\ ~touched(u) => tabs'[u] = tabs[u]
  BY <1>0, <1>3
<1>5. /\ jar' \in [Hosts -> CookieSet]
      /\ r.scheme = "https" => jar'[r.host] = CookiesAfter(jar[r.host], a)
      /\ \A h \in Hosts : r.scheme # "https" \/ h # r.host => jar'[h] = jar[h]
  <2>1. CookiesAfter(jar[r.host], a) \in CookieSet
    BY <1>1, <1>2, CookieFields
  <2> QED
    BY <1>1, <1>2, <1>3, <2>1 DEF VisitInv, TypeOK
<1>6. /\ r.scheme = "https" =>
           /\ a.csrf = 0 => jar'[r.host].csrf = jar[r.host].csrf
           /\ a.csrf # 0 => jar'[r.host].csrf = a.csrf
           /\ a.state = {} => jar'[r.host].state = jar[r.host].state
           /\ \A s : a.state = {s} => jar'[r.host].state = s
      /\ \A h \in Hosts : jar[h].session => jar'[h].session
  <2>0. PICK c \in CookieSet : c = jar[r.host]
    BY <1>1, <1>2
  <2> DEFINE new == CookiesAfter(c, a)
  <2>1. /\ c.session => new.session
        /\ a.csrf = 0 => new.csrf = c.csrf
        /\ a.csrf # 0 => new.csrf = a.csrf
        /\ a.state = {} => new.state = c.state
        /\ \A s : a.state = {s} => new.state = s
    BY <1>1, CookieFields, Zenon
  <2> HIDE DEF new
  <2>2. r.scheme = "https" => jar'[r.host] = new
    BY <1>5, <2>0 DEF new
  <2>3. ASSUME NEW h \in Hosts, jar[h].session PROVE jar'[h].session
    <3>1. CASE r.scheme = "https" /\ h = r.host
      BY <2>0, <2>1, <2>2, <2>3, <3>1
    <3>2. CASE r.scheme # "https" \/ h # r.host
      <4>1. jar'[h] = jar[h]
        BY <1>5, <3>2
      <4> QED
        BY <2>3, <4>1
    <3> QED
      BY <3>1, <3>2
  <2>4. r.scheme = "https" =>
           /\ a.csrf = 0 => jar'[r.host].csrf = jar[r.host].csrf
           /\ a.csrf # 0 => jar'[r.host].csrf = a.csrf
           /\ a.state = {} => jar'[r.host].state = jar[r.host].state
           /\ \A s : a.state = {s} => jar'[r.host].state = s
    BY <2>0, <2>1, <2>2
  <2> QED
    BY <2>3, <2>4
<1>7. TypeOK'
  <2>1. After(tab) \in TabSet
    BY <1>1, Following, Resting
  <2>2. ASSUME NEW u \in Tabs PROVE Beside(tabs[u], a) \in TabSet /\ tabs[u] \in TabSet
    BY TabTypes, BesideFields DEF VisitInv
  <2>3. tabs' \in [Tabs -> TabSet]
    BY <1>0, <1>3, <2>1, <2>2
  <2> QED
    BY <1>1, <1>3, <1>5, <2>3 DEF TypeOK
<1>8. /\ LoginPlace(r) /\ Sensible(r) /\ HeadedFor(r, tab.asked)
      /\ a.kind = "redirect" =>
           LoginPlace(a.to) /\ ~a.to.post /\ HeadedFor(a.to, tab.asked)
      /\ Landed(r.path, a.kind, tab.asked)
  BY <1>1 DEF TabOK, LandsOK
<1>9. \A h \in Hosts : Identified(jar[h]) => Identified(jar[h])'
  BY <1>3, <1>6 DEF Identified
<1> HIDE DEF touched
<1>10. ASSUME a.kind = "redirect"
       PROVE  TabOK(tabs[t])'
  <2>0. PICK new : new = tabs'[t]
    OBVIOUS
  <2>1. /\ new.pc = "going" /\ new.request = a.to
        /\ new.asked = tab.asked /\ new.due = tab.due
        /\ new.alone => \/ r.path = "login"
                        \/ tab.alone /\ r.path = "provider"
    BY <1>1, <1>4, <1>10, <2>0, Following
  <2>2. ~new.due
    BY <1>1, <1>10, <2>1 DEF TabOK, FormOK
  <2>3. LoginPlace(a.to)' /\ Sensible(a.to) /\ HeadedFor(a.to, new.asked)
    BY <1>3, <1>8, <1>10, <2>1 DEF LoginPlace, Sensible
  <2>4. LandsOK(new)'
    BY <2>1, <2>3 DEF LandsOK
  <2>5. ASSUME new.alone, config.canonical # "http"
        PROVE  /\ a.to.path \in {"provider", "callback"}
               /\ jar'["canonical"].state = CookieValue(a.to.state)
    <3>1. r.path \in {"login", "provider"}
      BY <2>1, <2>5
    <3>2. config.canonical = "https"
      BY <1>1, <1>8, <2>5, <3>1, Configured DEF LoginPlace, Config, Schemes
    <3>3. r.scheme = "https" /\ r.host = "canonical"
      BY <1>8, <3>1, <3>2 DEF LoginPlace
    <3>4. CASE r.path = "login"
      <4>1. a.to.path = "provider" /\ a.state = {CookieValue(a.to.state)}
        BY <1>1, <3>4 DEF TabOK, AloneOK, LoginAnswered
      <4> QED
        BY <1>6, <3>3, <4>1
    <3>5. CASE tab.alone /\ r.path = "provider"
      <4>1. /\ a.to.path = "callback" /\ a.to.state = r.state /\ a.state = {}
            /\ jar["canonical"].state = CookieValue(r.state)
        BY <1>1, <2>5, <3>5 DEF TabOK, AloneOK
      <4> QED
        BY <1>6, <3>3, <4>1
    <3> QED
      BY <2>1, <2>5, <3>4, <3>5
  <2>6. AloneOK(new)'
    BY <1>3, <2>1, <2>5 DEF AloneOK
  <2>7. FormOK(new)'
    BY <2>1, <2>2 DEF FormOK
  <2> QED
    BY <2>0, <2>4, <2>6, <2>7 DEF TabOK
<1>11. ASSUME a.kind # "redirect"
       PROVE  TabOK(tabs[t])'
  <2>0. PICK new : new = tabs'[t]
    OBVIOUS
  <2>1. /\ new.pc = "rest" /\ new.kind = a.kind
        /\ new.request.path = r.path /\ new.request.scheme = r.scheme
        /\ new.request.host = r.host /\ new.request.state.rd = r.state.rd
        /\ new.asked = tab.asked /\ new.due = tab.due /\ new.fresh = tab.fresh
        /\ new.token # 0 => a.kind = "page" /\ new.token = a.csrf
        /\ new.alone => tab.alone /\ a.kind = "badState"
    BY <1>1, <1>4, <1>11, <2>0, Resting
  <2>2. LandsOK(new)'
    BY <1>8, <2>1 DEF LandsOK
  <2>3. new.alone => config.canonical = "http" \/ new.request.state.rd = "odd"
    <3>1. tab.alone /\ a.kind = "badState" /\ config.canonical # "http" =>
            r.path = "callback" /\ r.state.rd = "odd"
      BY <1>1 DEF TabOK, AloneOK
    <3> QED
      BY <2>1, <3>1
  <2>4. AloneOK(new)'
    BY <1>3, <2>1, <2>3 DEF AloneOK
  <2>5. ASSUME new.token # 0
        PROVE  Serves(new.request)' /\ (new.fresh => Vouches(new.request, new.token)')
    <3>1. Serves(r)
      BY <1>1, <2>1, <2>5 DEF TabOK, FormOK
    <3>2. Serves(new.request)'
      BY <1>3, <2>1, <3>1 DEF Serves, AtCanonical, RequestScheme
    <3>3. ASSUME new.fresh, r.scheme = "https"
          PROVE  jar'[r.host].csrf = new.token /\ Identified(jar[r.host])'
      <4>1. Identified(jar[r.host])
        BY <1>1, <2>1, <3>3 DEF TabOK, FormOK
      <4>2. Identified(jar[r.host])'
        BY <1>2, <1>3, <1>6, <4>1 DEF Identified
      <4> QED
        BY <1>6, <2>1, <2>5, <3>3, <4>2
    <3>4. new.fresh => Vouches(new.request, new.token)'
      BY <2>1, <3>3 DEF Vouches
    <3> QED
      BY <3>2, <3>4
  <2>6. new.due => new.request.scheme = "http"
    BY <1>1, <2>1 DEF TabOK, FormOK
  <2>7. FormOK(new)'
    BY <2>1, <2>5, <2>6 DEF FormOK
  <2> QED
    BY <2>0, <2>2, <2>4, <2>7 DEF TabOK
<1>12. ASSUME NEW u \in Tabs, u # t
       PROVE  TabOK(tabs[u])'
  <2>0. PICK new : new = tabs'[u]
    OBVIOUS
  <2>1. tabs[u] \in TabSet /\ tabs[u].request.host \in Hosts
    BY TabTypes DEF VisitInv, RequestSet
  <2>2. /\ new \in TabSet /\ new.pc = tabs[u].pc /\ new.request = tabs[u].request
        /\ new.answer = tabs[u].answer /\ new.kind = tabs[u].kind
        /\ new.asked = tabs[u].asked /\ new.token = tabs[u].token
        /\ new.fresh => tabs[u].fresh
        /\ new.due => tabs[u].due
        /\ new.alone => tabs[u].alone
        /\ touched(u) =>
             /\ new.fresh \/ new.due => new.pc = "waiting" \/ a.csrf = 0
             /\ new.alone => Decided(tabs[u]) \/ a.state = {}
    <3> DEFINE side == Beside(tabs[u], a)
    <3>1. /\ side \in TabSet /\ side.pc = tabs[u].pc /\ side.request = tabs[u].request
          /\ side.answer = tabs[u].answer /\ side.kind = tabs[u].kind
          /\ side.asked = tabs[u].asked /\ side.token = tabs[u].token
          /\ side.fresh => tabs[u].fresh /\ (tabs[u].pc = "waiting" \/ a.csrf = 0)
          /\ side.due => tabs[u].due /\ (tabs[u].pc = "waiting" \/ a.csrf = 0)
          /\ side.alone => tabs[u].alone /\ (Decided(tabs[u]) \/ a.state = {})
      BY <2>1, BesideFields
    <3> HIDE DEF side
    <3>2. CASE touched(u)
      <4>1. new = side
        BY <1>4, <1>12, <2>0, <3>2 DEF side
      <4> QED
        BY <3>1, <4>1
    <3>3. CASE ~touched(u)
      <4>1. new = tabs[u]
        BY <1>4, <1>12, <2>0, <3>3
      <4> QED
        BY <2>1, <3>3, <4>1
    <3> QED
      BY <3>2, <3>3
  <2>3. new.request.host \in Hosts
    BY <2>1, <2>2
  <2>4. ~touched(u) /\ new.request.scheme = "https" =>
          jar'[new.request.host] = jar[new.request.host]
    BY <1>5, <2>2, <2>3 DEF touched
  <2>5. new.request.scheme = "https" =>
          /\ Identified(jar[new.request.host]) => Identified(jar[new.request.host])'
          /\ (new.fresh /\ new.pc = "rest") \/ (new.due /\ new.pc = "going") =>
               jar'[new.request.host].csrf = jar[new.request.host].csrf
    <3>1. Identified(jar[new.request.host]) => Identified(jar[new.request.host])'
      BY <1>3, <1>6, <2>3 DEF Identified
    <3>2. touched(u) /\ a.csrf = 0 =>
            jar'[new.request.host].csrf = jar[new.request.host].csrf
      BY <1>6, <2>2 DEF touched
    <3> QED
      BY <2>2, <2>4, <3>1, <3>2
  <2>6. new.alone /\ ~Decided(tabs[u]) /\ new.request.scheme = "https"
        /\ new.request.host = "canonical" =>
          jar'["canonical"].state = jar["canonical"].state
    <3>1. touched(u) /\ a.state = {} =>
            jar'[new.request.host].state = jar[new.request.host].state
      BY <1>6, <2>2 DEF touched
    <3> QED
      BY <2>2, <2>4, <3>1
  <2>7. TabOK(new)'
    BY <1>3, <2>2, <2>5, <2>6, Onlooking
  <2> QED
    BY <2>0, <2>7
<1> QED
  BY <1>7, <1>10, <1>11, <1>12 DEF VisitInv
(* Time passes: what counted on a session or a state no longer does.       *)
LEMMA Lapsing ==
  ASSUME VisitInv, NEW h \in Hosts, Lapse(h)
  PROVE  VisitInv'
<1>1. /\ config' = config /\ config' \in Configs
      /\ jar \in [Hosts -> CookieSet] /\ jar[h] \in CookieSet
      /\ \A t \in Tabs : tabs[t] \in TabSet
  BY DEF VisitInv, TypeOK, Lapse
<1>2. CASE /\ jar' = [jar EXCEPT ![h].session = FALSE]
           /\ tabs' = [t \in Tabs |->
                         [tabs[t] EXCEPT !.fresh = FALSE,
                                         !.due = tabs[t].due /\ tabs[t].pc # "going"]]
  <2>1. [jar[h] EXCEPT !.session = FALSE] \in CookieSet
        /\ [jar[h] EXCEPT !.session = FALSE].state = jar[h].state
    BY <1>1 DEF CookieSet
  <2>2. /\ jar' \in [Hosts -> CookieSet]
        /\ \A g \in Hosts : jar'[g].state = jar[g].state
    BY <1>1, <1>2, <2>1
  <2>3. ASSUME NEW t \in Tabs
        PROVE  tabs'[t] \in TabSet /\ TabOK(tabs[t])'
    <3>1. PICK old \in TabSet : old = tabs[t]
      BY <1>1
    <3>2. PICK due \in BOOLEAN : due = (old.due /\ old.pc # "going")
      OBVIOUS
    <3>3. PICK new : new = [old EXCEPT !.fresh = FALSE, !.due = due]
      OBVIOUS
    <3>4. new = tabs'[t]
      BY <1>2, <3>1, <3>2, <3>3
    <3>5. /\ new \in TabSet /\ new.pc = old.pc /\ new.request = old.request
          /\ new.answer = old.answer /\ new.kind = old.kind
          /\ new.asked = old.asked /\ new.token = old.token
          /\ ~new.fresh /\ new.due = due /\ new.alone = old.alone
      BY <3>1, <3>3 DEF TabSet
    <3>6. "canonical" \in Hosts
      BY DEF Hosts
    <3>7. TabOK(new)'
      BY <1>1, <2>2, <3>1, <3>2, <3>5, <3>6, Onlooking
    <3> QED
      BY <3>4, <3>5, <3>7
  <2> QED
    BY <1>1, <1>2, <2>2, <2>3 DEF VisitInv, TypeOK
<1>3. CASE /\ jar' = [jar EXCEPT ![h].state = NoState]
           /\ tabs' = [t \in Tabs |->
                         [tabs[t] EXCEPT !.alone = tabs[t].alone /\ Decided(tabs[t])]]
  <2>1. /\ [jar[h] EXCEPT !.state = NoState] \in CookieSet
        /\ [jar[h] EXCEPT !.state = NoState].session = jar[h].session
        /\ [jar[h] EXCEPT !.state = NoState].csrf = jar[h].csrf
    BY <1>1, Constants DEF CookieSet
  <2>2. /\ jar' \in [Hosts -> CookieSet]
        /\ \A g \in Hosts : jar'[g].session = jar[g].session /\ jar'[g].csrf = jar[g].csrf
    BY <1>1, <1>3, <2>1
  <2>3. ASSUME NEW t \in Tabs
        PROVE  tabs'[t] \in TabSet /\ TabOK(tabs[t])'
    <3>1. PICK old \in TabSet : old = tabs[t]
      BY <1>1
    <3>2. PICK alone \in BOOLEAN : alone = (old.alone /\ Decided(old))
      BY DEF Decided
    <3>3. PICK new : new = [old EXCEPT !.alone = alone]
      OBVIOUS
    <3>4. new = tabs'[t]
      BY <1>3, <3>1, <3>2, <3>3
    <3>5. /\ new \in TabSet /\ new.pc = old.pc /\ new.request = old.request
          /\ new.answer = old.answer /\ new.kind = old.kind
          /\ new.asked = old.asked /\ new.token = old.token
          /\ new.fresh = old.fresh /\ new.due = old.due /\ new.alone = alone
      BY <3>1, <3>3 DEF TabSet
    <3>6. new.request.host \in Hosts
      BY <3>5 DEF TabSet, RequestSet
    <3>7. Identified(jar[new.request.host]) => Identified(jar[new.request.host])'
      BY <1>1, <2>2, <3>6 DEF Identified
    <3>8. TabOK(new)'
      BY <1>1, <2>2, <3>1, <3>2, <3>5, <3>6, <3>7, Onlooking
    <3> QED
      BY <3>4, <3>5, <3>8
  <2> QED
    BY <1>1, <1>3, <2>2, <2>3 DEF VisitInv, TypeOK
<1> QED
  BY <1>2, <1>3 DEF Lapse

(* Where every visit is headed, which logins still have their state and    *)
(* what submitted forms rely on, after any steps of tabs, user and time.   *)
THEOREM VisitInvariance == Spec => []VisitInv
<1>1. VisitInv /\ [Next]_vars => VisitInv'
  <2> SUFFICES ASSUME VisitInv, [Next]_vars PROVE VisitInv'
    OBVIOUS
  <2>1. ASSUME NEW t \in Tabs, Travel(t) PROVE VisitInv'
    BY <2>1, Sending, Receiving DEF Travel
  <2>2. ASSUME NEW t \in Tabs, NEW url \in Starts, Visit(t, url) PROVE VisitInv'
    BY <2>2, Visiting
  <2>3. ASSUME NEW t \in Tabs, NEW path \in FormPaths, Submit(t, path) PROVE VisitInv'
    BY <2>3, Submitting
  <2>4. ASSUME NEW h \in Hosts, Lapse(h) PROVE VisitInv'
    BY <2>4, Lapsing
  <2>5. CASE UNCHANGED vars
    BY <2>5 DEF vars, VisitInv, TypeOK, TabOK, LandsOK, LoginPlace, AloneOK, FormOK, Serves,
       AtCanonical, RequestScheme, Vouches, Identified
  <2> QED
    BY <2>1, <2>2, <2>3, <2>4, <2>5 DEF Next
<1> QED
  BY <1>1, Initially, PTL DEF Spec

(* A tab comes to rest on what it asked for (or, with a form other than    *)
(* details that met the login, on a page not found; or on the same path    *)
(* without its escapes), whatever redirects to the canonical address       *)
(* (RedirectToCanonical) and through the login (HandleLogin's state carries*)
(* the path, HandleCallback returns there) lie between, and whatever the   *)
(* other tabs do to the state cookie.                                      *)
THEOREM ArrivesWhereAsked == Spec => []LandsWhereAsked
<1>1. VisitInv => LandsWhereAsked
  BY DEF VisitInv, TabOK, LandsOK, Landed, LandsWhereAsked
<1> QED
  BY <1>1, VisitInvariance, PTL

(* HandleCallback refuses a state only if another answer of HandleLogin or *)
(* HandleCallback, or its age, took the cookie since, or if the canonical  *)
(* address is http and the cookie was never kept, or if the login was for  *)
(* an address with a character that http.SetCookie drops from the cookie:  *)
(* in any configuration that config.validate accepts.                      *)
THEOREM LoginsFailOnlyOvertaken == Spec => []LoginFailsOnlyIfOvertaken
<1>1. VisitInv => LoginFailsOnlyIfOvertaken
  BY DEF VisitInv, TabOK, AloneOK, LoginFailsOnlyIfOvertaken
<1> QED
  BY <1>1, VisitInvariance, PTL

(* A form of a page whose CSRF cookie is still there (validateCSRF)   *)
(* and whose user is still identified is carried out, unless the page came *)
(* over http: every page is served at the canonical address, so the form   *)
(* is not redirected, and with the cookie of the host the form goes to.    *)
THEOREM FreshFormsCarriedOut == Spec => []FormsCarriedOut
<1>1. VisitInv => FormsCarriedOut
  BY DEF VisitInv, TabOK, FormOK, FormsCarriedOut
<1> QED
  BY <1>1, VisitInvariance, PTL
================================================================================
