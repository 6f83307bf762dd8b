---------------------------- MODULE Redirect_proofs ----------------------------
(***************************************************************************)
(* Invariance proofs for Redirect, for any names, targets, configurations, *)
(* goroutines, Ttl and Lag.                                                *)
(***************************************************************************)
EXTENDS Redirect, LinkTable_proofs, WellFoundedInduction

-----------------------------------------------------------------------------
(* Texts.                                                                  *)

(* A set of naturals that is not empty has a least element.                *)
LEMMA LeastNat ==
  ASSUME NEW T \in SUBSET Nat, T # {}
  PROVE  \E i \in T : \A j \in T : i <= j
<1> DEFINE R == {ss \in Nat \X Nat : ss[1] < ss[2]}
<1>1. IsWellFoundedOn(R, Nat)
  BY NatLessThanWellFounded DEF OpToRel
<1>2. \E x \in T : \A y \in T : ~ (<<y, x>> \in R)
  <2> HIDE DEF R
  <2> QED
    BY <1>1, WFMin
<1>3. PICK x \in T : \A y \in T : ~ (<<y, x>> \in R)
  BY <1>2
<1>4. ASSUME NEW y \in T
      PROVE  x <= y
  <2>1. x \in Nat /\ y \in Nat /\ <<y, x>> \in Nat \X Nat
    OBVIOUS
  <2>2. ~(y < x)
    BY <2>1, <1>3
  <2> QED
    BY <2>1, <2>2
<1> QED
  BY <1>4

(* What stands before an atom, by the place where it first occurs.         *)
LEMMA BeforeFirst ==
  ASSUME NEW text \in Seq(STRING), NEW atom, Has(text, atom)
  PROVE  \E k \in 1 .. Len(text) :
           /\ text[k] = atom
           /\ \A j \in 1 .. k - 1 : text[j] # atom
           /\ Before(text, atom) = SubSeq(text, 1, k - 1)
<1> DEFINE ends == {i \in DOMAIN text : text[i] = atom}
           k == CHOOSE i \in ends : \A j \in ends : i <= j
<1>1. DOMAIN text = 1 .. Len(text) /\ Len(text) \in Nat
  OBVIOUS
<1>2. ends # {} /\ ends \in SUBSET Nat
  BY <1>1 DEF Has
<1>3. k \in ends /\ \A j \in ends : k <= j
  <2>1. \E i \in ends : \A j \in ends : i <= j
    <3> HIDE DEF ends
    <3> QED
      BY <1>2, LeastNat
  <2> HIDE DEF ends
  <2> QED
    BY <2>1
<1>4. Before(text, atom) = SubSeq(text, 1, k - 1)
  BY <1>2 DEF Before
<1>5. k \in 1 .. Len(text) /\ text[k] = atom
  <2> HIDE DEF k
  <2> QED
    BY <1>1, <1>3
<1>6. ASSUME NEW j \in 1 .. k - 1
      PROVE  text[j] # atom
  <2> HIDE DEF k
  <2>1. j \in DOMAIN text /\ j < k /\ j \in Int /\ k \in Int
    BY <1>1, <1>5
  <2>2. text[j] = atom => j \in ends
    BY <2>1
  <2> QED
    BY <1>3, <2>1, <2>2
<1> HIDE DEF k
<1> QED
  BY <1>4, <1>5, <1>6

(* It is a text itself.                                                    *)
LEMMA BeforeType ==
  ASSUME NEW text \in Seq(STRING), NEW atom
  PROVE  Before(text, atom) \in Seq(STRING)
<1>1. CASE Has(text, atom)
  <2>1. PICK k \in 1 .. Len(text) : Before(text, atom) = SubSeq(text, 1, k - 1)
    BY <1>1, BeforeFirst
  <2>2. SubSeq(text, 1, k - 1) \in Seq(STRING)
    OBVIOUS
  <2> QED
    BY <2>1, <2>2
<1>2. CASE ~Has(text, atom)
  BY <1>2 DEF Has, Before
<1> QED
  BY <1>1, <1>2

(* Where an atom first occurs does not depend on what follows.             *)
LEMMA BeforeAppend ==
  ASSUME NEW text \in Seq(STRING), NEW value \in Seq(STRING), NEW atom,
         Has(text, atom)
  PROVE  Before(text \o value, atom) = Before(text, atom)
<1> DEFINE long == text \o value
<1>1. /\ long \in Seq(STRING)
      /\ Len(long) = Len(text) + Len(value)
      /\ Len(text) \in Nat /\ Len(value) \in Nat
      /\ \A i \in 1 .. Len(text) : long[i] = text[i]
  OBVIOUS
<1>2. PICK k \in 1 .. Len(text) :
        /\ text[k] = atom
        /\ \A j \in 1 .. k - 1 : text[j] # atom
        /\ Before(text, atom) = SubSeq(text, 1, k - 1)
  BY BeforeFirst
<1>3. Has(long, atom)
  <2>1. k \in DOMAIN long /\ long[k] = atom
    BY <1>1, <1>2
  <2> HIDE DEF long
  <2> QED
    BY <2>1 DEF Has
<1> HIDE DEF long
<1>4. PICK m \in 1 .. Len(long) :
        /\ long[m] = atom
        /\ \A j \in 1 .. m - 1 : long[j] # atom
        /\ Before(long, atom) = SubSeq(long, 1, m - 1)
  BY <1>1, <1>3, BeforeFirst
<1>5. m = k
  <2>1. ~(k < m)
    <3>1. k < m => k \in 1 .. m - 1
      BY <1>1
    <3>2. long[k] = atom
      BY <1>1, <1>2
    <3> QED
      BY <1>4, <3>1, <3>2
  <2>2. ~(m < k)
    <3>1. m < k => m \in 1 .. k - 1 /\ m \in 1 .. Len(text)
      BY <1>1
    <3> QED
      BY <1>1, <1>2, <1>4, <3>1
  <2> QED
    BY <1>1, <2>1, <2>2
<1>6. SubSeq(long, 1, k - 1) = SubSeq(text, 1, k - 1)
  BY <1>1 DEF long
<1> QED
  BY <1>2, <1>4, <1>5, <1>6 DEF long

(* The host of a text that goes on after it.                               *)
LEMMA HostOfAppend ==
  ASSUME NEW text \in Seq(STRING), NEW value \in Seq(STRING),
         HostOf(text) # <<>>, Has(text, Separator)
  PROVE  HostOf(text \o value) = HostOf(text)
<1>1. /\ text # <<>> /\ text[1] = Scheme
      /\ HostOf(text) = Before(Tail(text), Separator)
  BY DEF HostOf
<1>2. /\ text \o value # <<>> /\ (text \o value)[1] = Scheme
      /\ Tail(text \o value) = Tail(text) \o value
      /\ Tail(text) \in Seq(STRING)
  BY <1>1
<1>3. Has(Tail(text), Separator)
  <2>1. PICK i \in DOMAIN text : text[i] = Separator
    BY DEF Has
  <2>2. i # 1
    BY <1>1, <2>1 DEF Scheme, Separator
  <2>3. i - 1 \in DOMAIN Tail(text) /\ Tail(text)[i - 1] = text[i]
    BY <1>1, <2>2
  <2> QED
    BY <2>1, <2>3 DEF Has
<1>4. Before(Tail(text) \o value, Separator) = Before(Tail(text), Separator)
  BY <1>2, <1>3, BeforeAppend
<1> QED
  BY <1>1, <1>2, <1>4 DEF HostOf

(* A template whose domain was accepted expands to a URL of that domain,   *)
(* if to a URL at all.                                                     *)
LEMMA AcceptedExpands ==
  ASSUME NEW text \in Seq(STRING), NEW value \in Seq(STRING), NEW patterns,
         CheckTemplateTargetDomain(text, patterns), Parses(Execute(text, value))
  PROVE  CheckAdvancedLinkDomain(Execute(text, value), patterns)
<1> DEFINE static == Before(text, Action)
<1>1. CASE patterns = {}
  BY <1>1 DEF CheckAdvancedLinkDomain
<1>2. CASE patterns # {} /\ ~Has(text, Action)
  <2>1. static = text
    BY <1>2 DEF Before, Has
  <2>2. Execute(text, value) = text
    BY <1>2 DEF Execute
  <2> QED
    BY <1>2, <2>1, <2>2 DEF CheckTemplateTargetDomain
<1>3. CASE patterns # {} /\ Has(text, Action)
  <2>1. /\ HostOf(static) # <<>> /\ Has(static, Separator)
        /\ CheckAdvancedLinkDomain(static, patterns)
    BY <1>3 DEF CheckTemplateTargetDomain
  <2>2. Execute(text, value) = static \o value
    BY <1>3 DEF Execute
  <2>3. static \in Seq(STRING)
    BY BeforeType
  <2> HIDE DEF static
  <2>4. HostOf(static \o value) = HostOf(static)
    BY <2>1, <2>3, HostOfAppend
  <2> QED
    BY <2>1, <2>2, <2>4 DEF CheckAdvancedLinkDomain
<1> QED
  BY <1>1, <1>2, <1>3

-----------------------------------------------------------------------------
(* The inductive invariant.  It is stated over a table t and its next id,  *)
(* so that what a copy was before a write can be compared with what it is  *)
(* afterwards.                                                             *)

(* Id i was handed out, and to no link of another name than n that is      *)
(* still there.                                                            *)
IdOf(t, next, i, n) == i < next /\ \A m \in Names : t[m].id = i => m = n

OfName(t, next, copy, n) == Present(copy.row) => IdOf(t, next, copy.row.id, n)

RowsOK(t, next) == \A n \in Names : OfName(t, next, Fresh(t[n]), n)

Entry == [copy : Copy, age : 0 .. Ttl]

EntryOK(t, next, e, n) ==
  /\ OfName(t, next, e.copy, n)
  /\ e.copy.stale <= e.age + Lag

WriterOK(t, next, w) ==
  /\ OfName(t, next, w.got, w.name)
  /\ w.got.stale <= w.waited

(* What a redirect holds in each stage: the copies, how old they are, and  *)
(* what it has counted so far.                                             *)
CopiesOK(t, next, s) ==
  /\ OfName(t, next, s.link, s.name)
  /\ s.filling => /\ s.pc \in {"find", "resolve"}
                  /\ Present(s.got.row) /\ Key(s) \in Names
                  /\ OfName(t, next, s.got, Key(s))

AgesOK(s) ==
  /\ s.got.stale <= s.waited
  /\ s.link.stale <= Ttl + Lag + s.waited
  /\ s.dest.stale <= Ttl + Lag + s.waited

CountOK(s) ==
  /\ s.pc = "find" => s.counted = <<>> /\ ~s.viaAlias
  /\ s.pc = "resolve" => s.counted = <<>> /\ s.viaAlias /\ Present(s.link.row)
  /\ s.pc = "answer" => /\ Present(s.link.row)
                        /\ s.viaAlias => Len(s.counted) = 1
                        /\ ~s.viaAlias => s.counted = <<>>
  /\ s.pc = "target" => Len(s.counted) = 1
  /\ s.pc \in Outcomes \ {"target", "home"} /\ s.counted # <<>> =>
       s.viaAlias /\ Len(s.counted) = 1

CountedOK(t, next, s) ==
  \A i \in 1 .. Len(s.counted) : IdOf(t, next, s.counted[i], s.name)

ProcOK(t, next, s) ==
  CopiesOK(t, next, s) /\ AgesOK(s) /\ CountOK(s) /\ CountedOK(t, next, s)

RInv ==
  /\ TypeOK
  /\ RowsOK(links, nextId)
  /\ \A n \in Names : EntryOK(links, nextId, cache[n], n)
  /\ \A p \in Procs : ProcOK(links, nextId, proc[p])
  /\ \A w \in Writers : WriterOK(links, nextId, writer[w])

-----------------------------------------------------------------------------
(* Copies.                                                                 *)

LEMMA Times == Ttl \in Nat /\ Lag \in Nat /\ Ttl > 0
BY TimeAssumption

(* No row is no copy of a row.                                             *)
LEMMA NothingOK ==
  /\ Nothing \in Copy /\ ~Present(Nothing.row) /\ Nothing.stale = 0
  /\ NoEntry \in Entry /\ NoEntry.copy = Nothing /\ NoEntry.age = 0
<1>1. Nothing \in Copy /\ Nothing.row = NoLink /\ Nothing.stale = 0
  BY DEF Nothing, Copy
<1>2. ~Present(Nothing.row)
  BY <1>1, NoLinkId DEF Present
<1>3. NoEntry = [copy |-> Nothing, age |-> 0] /\ 0 \in 0 .. Ttl
  BY Times DEF NoEntry
<1>4. NoEntry \in Entry /\ NoEntry.copy = Nothing /\ NoEntry.age = 0
  BY <1>1, <1>3 DEF Entry
<1> QED
  BY <1>1, <1>2, <1>4

(* A row just read.                                                        *)
LEMMA FreshOK ==
  ASSUME NEW row \in Row \cup {NoLink}
  PROVE  Fresh(row) \in Copy /\ Fresh(row).row = row /\ Fresh(row).stale = 0
BY DEF Fresh, Copy

(* A tick makes a copy at most one tick staler.                            *)
LEMMA LaterOK ==
  ASSUME NEW copy \in Copy, NEW text
  PROVE  /\ Later(copy, text) \in Copy
         /\ Later(copy, text).row = copy.row
         /\ Later(copy, text).stale <= copy.stale + 1
BY DEF Later, Copy

(* A table whose rows have the ids they had, or none, or the next one.     *)
Evolves(t, next, u, unext) ==
  /\ t \in Table /\ u \in Table
  /\ next \in Nat /\ unext \in Nat /\ next <= unext
  /\ \A m \in Names : u[m].id \in {t[m].id, 0, next}

(* An id that was handed out stays with its name.                          *)
LEMMA IdOfEvolves ==
  ASSUME NEW t, NEW next, NEW u, NEW unext, Evolves(t, next, u, unext),
         NEW n, NEW i \in Ids, IdOf(t, next, i, n)
  PROVE  IdOf(u, unext, i, n)
<1>1. i \in Nat /\ i # 0 /\ i < next /\ i < unext
  BY MaxIdAssumption DEF Ids, IdOf, Evolves
<1>2. ASSUME NEW m \in Names, u[m].id = i
      PROVE  m = n
  <2>1. t[m].id = i
    BY <1>1, <1>2 DEF Evolves
  <2> QED
    BY <2>1 DEF IdOf
<1> QED
  BY <1>1, <1>2 DEF IdOf

(* And so do copies ...                                                    *)
LEMMA OfNameEvolves ==
  ASSUME NEW t, NEW next, NEW u, NEW unext, Evolves(t, next, u, unext),
         NEW n, NEW copy \in Copy, OfName(t, next, copy, n)
  PROVE  OfName(u, unext, copy, n)
<1>1. Present(copy.row) => copy.row.id \in Ids
  BY RowIds DEF Present, Copy
<1> QED
  BY <1>1, IdOfEvolves DEF OfName

(* ... entries, writers and redirects.                                     *)
LEMMA EntryEvolves ==
  ASSUME NEW t, NEW next, NEW u, NEW unext, Evolves(t, next, u, unext),
         NEW n, NEW e \in Entry, EntryOK(t, next, e, n)
  PROVE  EntryOK(u, unext, e, n)
<1>1. e.copy \in Copy
  BY DEF Entry
<1> QED
  BY <1>1, OfNameEvolves DEF EntryOK

LEMMA WriterEvolves ==
  ASSUME NEW t, NEW next, NEW u, NEW unext, Evolves(t, next, u, unext),
         NEW w \in WriterState, WriterOK(t, next, w)
  PROVE  WriterOK(u, unext, w)
<1>1. w.got \in Copy
  BY DEF WriterState
<1> QED
  BY <1>1, OfNameEvolves DEF WriterOK

LEMMA ProcEvolves ==
  ASSUME NEW t, NEW next, NEW u, NEW unext, Evolves(t, next, u, unext),
         NEW s \in ProcState, ProcOK(t, next, s)
  PROVE  ProcOK(u, unext, s)
<1>1. s.link \in Copy /\ s.got \in Copy /\ s.counted \in Seq(Ids)
  BY DEF ProcState
<1>2. CopiesOK(u, unext, s)
  BY <1>1, OfNameEvolves DEF ProcOK, CopiesOK
<1>3. CountedOK(u, unext, s)
  <2>1. ASSUME NEW i \in 1 .. Len(s.counted)
        PROVE  IdOf(u, unext, s.counted[i], s.name)
    <3>1. s.counted[i] \in Ids
      BY <1>1
    <3>2. IdOf(t, next, s.counted[i], s.name)
      BY DEF ProcOK, CountedOK
    <3> QED
      BY <3>1, <3>2, IdOfEvolves
  <2> QED
    BY <2>1 DEF CountedOK
<1> QED
  BY <1>2, <1>3 DEF ProcOK

-----------------------------------------------------------------------------
(* The computations of a redirect.                                         *)

(* A request that is answered holds no copy, only what it counted.         *)
LEMMA FinishedOK ==
  ASSUME NEW t, NEW next, NEW s \in ProcState, NEW outcome \in Outcomes,
         NEW counted \in Seq(Ids),
         \A i \in 1 .. Len(counted) : IdOf(t, next, counted[i], s.name),
         outcome = "target" => Len(counted) = 1,
         outcome \notin {"target", "home"} /\ counted # <<>> =>
           s.viaAlias /\ Len(counted) = 1
  PROVE  /\ Finished(s, outcome, counted) \in ProcState
         /\ ProcOK(t, next, Finished(s, outcome, counted))
<1> DEFINE a == Finished(s, outcome, counted)
           name == IF counted = <<>> THEN "" ELSE s.name
<1>1. a = [pc |-> outcome, name |-> name, caller |-> NobodyYet, link |-> Nothing,
           dest |-> Nothing, got |-> Nothing, filling |-> FALSE,
           viaAlias |-> s.viaAlias, counted |-> counted, waited |-> 0]
  BY DEF Finished
<1>2. s.name \in Names \cup {""} /\ s.viaAlias \in BOOLEAN
  BY DEF ProcState
<1>z. 0 \in 0 .. Lag
  BY Times
<1>3. NobodyYet \in Caller
  BY DEF NobodyYet, Caller
<1>4. name \in Names \cup {""} /\ (counted # <<>> => name = s.name)
  BY <1>2
<1> HIDE DEF a, name
<1>5. a \in ProcState
  BY <1>1, <1>2, <1>z, <1>3, <1>4, NothingOK DEF ProcState
<1>6. CopiesOK(t, next, a)
  BY <1>1, NothingOK DEF CopiesOK, OfName
<1>7. AgesOK(a)
  <2>1. a.got = Nothing /\ a.link = Nothing /\ a.dest = Nothing /\ a.waited = 0
    BY <1>1
  <2> QED
    BY <2>1, NothingOK, Times DEF AgesOK
<1>8. CountOK(a)
  <2>1. outcome \notin {"find", "resolve", "answer"}
    BY DEF Outcomes
  <2>2. a.pc = outcome /\ a.counted = counted /\ a.viaAlias = s.viaAlias
    BY <1>1
  <2> HIDE DEF a
  <2> QED
    BY <2>1, <2>2 DEF CountOK
<1>9. CountedOK(t, next, a)
  <2>1. a.counted = counted /\ a.name = name
    BY <1>1
  <2>2. \A i \in 1 .. Len(counted) : counted # <<>>
    OBVIOUS
  <2> QED
    BY <1>4, <2>1, <2>2 DEF CountedOK
<1> QED
  BY <1>5, <1>6, <1>7, <1>8, <1>9 DEF ProcOK, a

(* In particular what an alias counted before.                             *)
LEMMA AnsweredOK ==
  ASSUME NEW t, NEW next, NEW s \in ProcState, ProcOK(t, next, s),
         s.pc \in {"find", "resolve", "answer"},
         NEW outcome \in Outcomes \ {"target", "home"}
  PROVE  /\ Answered(s, outcome) \in ProcState
         /\ ProcOK(t, next, Answered(s, outcome))
<1>1. s.counted \in Seq(Ids) /\ s.viaAlias \in BOOLEAN
  BY DEF ProcState
<1>2. s.counted # <<>> => s.viaAlias /\ Len(s.counted) = 1
  BY <1>1 DEF ProcOK, CountOK
<1>3. \A i \in 1 .. Len(s.counted) : IdOf(t, next, s.counted[i], s.name)
  BY DEF ProcOK, CountedOK
<1> QED
  BY <1>1, <1>2, <1>3, FinishedOK DEF Answered

(* What asks for the access may answer at once, but never with a target.   *)
LEMMA AccessOutcomes ==
  ASSUME NEW s, NEW row, AccessOutcome(s, row) # "go"
  PROVE  AccessOutcome(s, row) \in Outcomes \ {"target", "home"}
BY DEF AccessOutcome, Outcomes

(* The fields of a redirect that found its link ...                        *)
LEMMA FoundFields ==
  ASSUME NEW s \in ProcState, NEW copy, NEW found,
         found = [s EXCEPT !.link = copy, !.dest = copy, !.got = Nothing, !.filling = FALSE]
  PROVE  found = [pc |-> s.pc, name |-> s.name, caller |-> s.caller, link |-> copy,
                  dest |-> copy, got |-> Nothing, filling |-> FALSE,
                  viaAlias |-> s.viaAlias, counted |-> s.counted, waited |-> s.waited]
BY DEF ProcState

(* ... and goes on with it, or with the link it is an alias of.            *)
LEMMA AnswerFields ==
  ASSUME NEW s \in ProcState, NEW after, after = [s EXCEPT !.pc = "answer"]
  PROVE  after = [pc |-> "answer", name |-> s.name, caller |-> s.caller, link |-> s.link,
                  dest |-> s.dest, got |-> s.got, filling |-> s.filling,
                  viaAlias |-> s.viaAlias, counted |-> s.counted, waited |-> s.waited]
BY DEF ProcState

LEMMA ResolveFields ==
  ASSUME NEW s \in ProcState, NEW after,
         after = [s EXCEPT !.pc = "resolve", !.viaAlias = TRUE]
  PROVE  after = [pc |-> "resolve", name |-> s.name, caller |-> s.caller, link |-> s.link,
                  dest |-> s.dest, got |-> s.got, filling |-> s.filling,
                  viaAlias |-> TRUE, counted |-> s.counted, waited |-> s.waited]
BY DEF ProcState

(* The row found under the name, or the canonical link of an alias.        *)
LEMMA FoundOK ==
  ASSUME NEW t, NEW next, NEW s \in ProcState, ProcOK(t, next, s),
         s.pc \in {"find", "resolve"},
         NEW copy \in Copy, Present(copy.row), OfName(t, next, copy, Key(s)),
         copy.stale <= Ttl + Lag + s.waited
  PROVE  Found(s, copy) \in ProcState /\ ProcOK(t, next, Found(s, copy))
<1>a. /\ s.name \in Names \cup {""} /\ s.viaAlias \in BOOLEAN /\ s.caller \in Caller
      /\ s.counted \in Seq(Ids) /\ s.waited \in 0 .. Lag /\ s.link \in Copy
  BY DEF ProcState
<1>b. copy.stale \in Nat
  BY DEF Copy
<1>c. s.waited \in Nat
  <2>1. s.waited \in 0 .. Lag
    BY <1>a
  <2> QED
    BY <2>1, Times
<1>0. /\ s.name \in Names \cup {""} /\ s.viaAlias \in BOOLEAN /\ s.caller \in Caller
      /\ s.counted \in Seq(Ids) /\ s.waited \in 0 .. Lag /\ s.link \in Copy
      /\ copy.stale \in Nat /\ s.waited \in Nat
  BY <1>a, <1>b, <1>c
<1>1. CASE s.pc = "find"
  <2> DEFINE found == [s EXCEPT !.link = copy, !.dest = copy, !.got = Nothing,
                                !.filling = FALSE]
             outcome == AccessOutcome(s, copy.row)
  <2>0. s.counted = <<>> /\ s.viaAlias = FALSE /\ Key(s) = s.name
    BY <1>0, <1>1 DEF ProcOK, CountOK, Key
  <2>1. found = [pc |-> "find", name |-> s.name, caller |-> s.caller, link |-> copy,
                 dest |-> copy, got |-> Nothing, filling |-> FALSE,
                 viaAlias |-> FALSE, counted |-> <<>>, waited |-> s.waited]
    <3>1. found = [pc |-> s.pc, name |-> s.name, caller |-> s.caller, link |-> copy,
                   dest |-> copy, got |-> Nothing, filling |-> FALSE,
                   viaAlias |-> s.viaAlias, counted |-> s.counted, waited |-> s.waited]
      BY FoundFields
    <3> HIDE DEF found
    <3> QED
      BY <1>1, <2>0, <3>1
  <2>2. ASSUME NEW pc \in {"find", "resolve", "answer"}, NEW via \in BOOLEAN,
               pc = "find" => ~via, pc = "resolve" => via, pc = "answer" => ~via,
               NEW after,
               after = [pc |-> pc, name |-> s.name, caller |-> s.caller, link |-> copy,
                        dest |-> copy, got |-> Nothing, filling |-> FALSE,
                        viaAlias |-> via, counted |-> <<>>, waited |-> s.waited]
        PROVE  after \in ProcState /\ ProcOK(t, next, after)
    <3>1. /\ after.pc = pc /\ after.name = s.name /\ after.link = copy
          /\ after.dest = copy /\ after.got = Nothing /\ after.filling = FALSE
          /\ after.viaAlias = via /\ after.counted = <<>> /\ after.waited = s.waited
      BY <2>2
    <3>2. after \in ProcState
      <4>1. <<>> \in Seq(Ids)
        OBVIOUS
      <4> QED
        BY <1>0, <2>2, <4>1, NothingOK DEF ProcState
    <3>3. CopiesOK(t, next, after)
      BY <2>0, <3>1 DEF CopiesOK
    <3>4. AgesOK(after)
      <4>1. copy.stale <= Ttl + Lag + s.waited /\ Nothing.stale <= s.waited
        <5>1. Nothing.stale <= s.waited
          BY <1>c, NothingOK
        <5> QED
          BY <5>1
      <4> QED
        BY <3>1, <4>1 DEF AgesOK
    <3>5. CountOK(after)
      <4>1. pc \notin Outcomes
        BY DEF Outcomes
      <4> QED
        BY <2>2, <3>1, <4>1 DEF CountOK, Outcomes
    <3>6. CountedOK(t, next, after)
      BY <3>1 DEF CountedOK
    <3> QED
      BY <3>2, <3>3, <3>4, <3>5, <3>6 DEF ProcOK
  <2>3. found \in ProcState /\ ProcOK(t, next, found)
    <3> HIDE DEF found
    <3> QED
      BY <2>1, <2>2
  <2>4. CASE outcome # "go"
    <3>1. Found(s, copy) = Answered(found, outcome)
      BY <1>1, <2>4 DEF Found, FoundLink
    <3>2. outcome \in Outcomes \ {"target", "home"}
      BY <2>4, AccessOutcomes
    <3>3. found.pc = "find"
      BY <2>1
    <3> HIDE DEF found, outcome
    <3> QED
      BY <2>3, <3>1, <3>2, <3>3, AnsweredOK
  <2>5. CASE outcome = "go" /\ copy.row.type = "alias"
    <3>1. Found(s, copy) = [found EXCEPT !.pc = "resolve", !.viaAlias = TRUE]
      BY <1>1, <2>5 DEF Found, FoundLink
    <3> HIDE DEF found, outcome
    <3>2. Found(s, copy) =
            [pc |-> "resolve", name |-> s.name, caller |-> s.caller, link |-> copy,
             dest |-> copy, got |-> Nothing, filling |-> FALSE,
             viaAlias |-> TRUE, counted |-> <<>>, waited |-> s.waited]
      <4>1. Found(s, copy) =
              [pc |-> "resolve", name |-> found.name, caller |-> found.caller,
               link |-> found.link, dest |-> found.dest, got |-> found.got,
               filling |-> found.filling, viaAlias |-> TRUE,
               counted |-> found.counted, waited |-> found.waited]
        BY <2>3, <3>1, ResolveFields
      <4> QED
        BY <2>1, <4>1
    <3> QED
      BY <2>2, <3>2
  <2>6. CASE outcome = "go" /\ copy.row.type # "alias"
    <3>1. Found(s, copy) = [found EXCEPT !.pc = "answer"]
      BY <1>1, <2>6 DEF Found, FoundLink
    <3> HIDE DEF found, outcome
    <3>2. Found(s, copy) =
            [pc |-> "answer", name |-> s.name, caller |-> s.caller, link |-> copy,
             dest |-> copy, got |-> Nothing, filling |-> FALSE,
             viaAlias |-> FALSE, counted |-> <<>>, waited |-> s.waited]
      <4>1. Found(s, copy) =
              [pc |-> "answer", name |-> found.name, caller |-> found.caller,
               link |-> found.link, dest |-> found.dest, got |-> found.got,
               filling |-> found.filling, viaAlias |-> found.viaAlias,
               counted |-> found.counted, waited |-> found.waited]
        BY <2>3, <3>1, AnswerFields
      <4> QED
        BY <2>1, <4>1
    <3> QED
      BY <2>2, <3>2
  <2> QED
    BY <2>4, <2>5, <2>6
<1>2. CASE s.pc = "resolve"
  <2> DEFINE id == s.link.row.id
             after == Found(s, copy)
  <2>1. s.counted = <<>> /\ s.viaAlias = TRUE /\ Present(s.link.row)
    BY <1>0, <1>2 DEF ProcOK, CountOK
  <2>2. id \in Ids /\ IdOf(t, next, id, s.name)
    BY <1>0, <2>1, RowIds DEF ProcOK, CopiesOK, OfName, Present, Copy
  <2>3. after = [pc |-> "answer", name |-> s.name, caller |-> s.caller, link |-> s.link,
                 dest |-> copy, got |-> Nothing, filling |-> FALSE,
                 viaAlias |-> TRUE, counted |-> <<id>>, waited |-> s.waited]
    <3>1. Append(s.counted, id) = <<id>>
      BY <2>1
    <3>2. Found(s, copy) = FoundCanonical(s, copy)
      BY <1>2 DEF Found
    <3> QED
      BY <2>1, <3>1, <3>2 DEF FoundCanonical, ProcState
  <2>4. <<id>> \in Seq(Ids) /\ Len(<<id>>) = 1 /\ <<id>>[1] = id
    BY <2>2
  <2> HIDE DEF id, after
  <2>5. after \in ProcState
    BY <1>0, <2>3, <2>4, NothingOK DEF ProcState
  <2>6. CopiesOK(t, next, after)
    BY <2>3 DEF CopiesOK, ProcOK
  <2>7. AgesOK(after)
    <3>1. after.got = Nothing /\ after.link = s.link /\ after.dest = copy
          /\ after.waited = s.waited
      BY <2>3
    <3>2. s.link.stale <= Ttl + Lag + s.waited
      BY DEF ProcOK, AgesOK
    <3>3. copy.stale <= Ttl + Lag + s.waited /\ Nothing.stale <= s.waited
      <4>1. Nothing.stale <= s.waited
        BY <1>c, NothingOK
      <4> QED
        BY <4>1
    <3> QED
      BY <3>1, <3>2, <3>3 DEF AgesOK
  <2>8. CountOK(after)
    BY <2>1, <2>3, <2>4 DEF CountOK, Outcomes
  <2>9. CountedOK(t, next, after)
    <3>1. \A i \in 1 .. Len(after.counted) : i = 1
      BY <2>3, <2>4
    <3> QED
      BY <2>2, <2>3, <2>4, <3>1 DEF CountedOK
  <2> QED
    BY <2>5, <2>6, <2>7, <2>8, <2>9 DEF ProcOK, after
<1> QED
  BY <1>1, <1>2

(* Every way to resolve a row has an outcome.                              *)
LEMMA ResolvedOutcomes ==
  ASSUME NEW s, NEW suffix, NEW value
  PROVE  ResolvedOutcome(s, suffix, value) \in Outcomes
<1>1. SimpleOutcome(s.dest.row, suffix) \in Outcomes
  BY DEF SimpleOutcome, Outcomes
<1>2. RefusedOutcome(s) \in Outcomes
  BY DEF RefusedOutcome, Outcomes
<1>3. ASSUME NEW text
      PROVE  AdvancedOutcome(s, text) \in Outcomes
  <2>1. CASE ~config.advanced
    BY <1>2, <2>1 DEF AdvancedOutcome
  <2>2. CASE config.advanced /\ ~IsHttp(text)
    BY <2>2 DEF AdvancedOutcome, Outcomes
  <2>3. CASE config.advanced /\ IsHttp(text)
    BY <1>2, <2>3 DEF AdvancedOutcome, Outcomes
  <2> QED
    BY <2>1, <2>2, <2>3
<1> QED
  BY <1>1, <1>3 DEF ResolvedOutcome

(* The answer of doRedirect: at most one use is added, if none was.        *)
LEMMA FinalOK ==
  ASSUME NEW t, NEW next, NEW s \in ProcState, ProcOK(t, next, s), s.pc = "answer",
         NEW outcome \in Outcomes, NEW counted, counted = CountUnlessAlias(s, outcome)
  PROVE  /\ Finished(s, outcome, counted) \in ProcState
         /\ ProcOK(t, next, Finished(s, outcome, counted))
<1>0. s.viaAlias \in BOOLEAN /\ s.counted \in Seq(Ids) /\ s.link \in Copy
  BY DEF ProcState
<1>1. /\ Present(s.link.row)
      /\ s.viaAlias => Len(s.counted) = 1
      /\ ~s.viaAlias => s.counted = <<>>
  BY DEF ProcOK, CountOK
<1>2. PICK id \in Ids : id = s.link.row.id /\ IdOf(t, next, id, s.name)
  BY <1>0, <1>1, RowIds DEF ProcOK, CopiesOK, OfName, Present, Copy
<1>3. CASE outcome \in {"target", "home"} /\ ~s.viaAlias
  <2>1. counted = <<id>>
    <3>1. counted = Append(s.counted, id) /\ s.counted = <<>>
      BY <1>1, <1>2, <1>3 DEF CountUnlessAlias
    <3>2. Append(<<>>, id) = <<id>>
      OBVIOUS
    <3> QED
      BY <3>1, <3>2
  <2>2. counted \in Seq(Ids) /\ Len(counted) = 1 /\ counted[1] = id
    BY <2>1
  <2>3. \A i \in 1 .. Len(counted) : IdOf(t, next, counted[i], s.name)
    BY <1>2, <2>2
  <2> QED
    BY <1>3, <2>2, <2>3, FinishedOK
<1>4. CASE ~(outcome \in {"target", "home"} /\ ~s.viaAlias)
  <2>1. counted = s.counted
    BY <1>4 DEF CountUnlessAlias
  <2>2. \A i \in 1 .. Len(counted) : IdOf(t, next, counted[i], s.name)
    BY <2>1 DEF ProcOK, CountedOK
  <2>3. outcome = "target" => Len(counted) = 1
    BY <1>0, <1>1, <1>4, <2>1
  <2>4. outcome \notin {"target", "home"} /\ counted # <<>> =>
          s.viaAlias /\ Len(counted) = 1
    BY <1>0, <1>1, <2>1
  <2> QED
    BY <1>0, <2>1, <2>2, <2>3, <2>4, FinishedOK
<1> QED
  BY <1>3, <1>4

-----------------------------------------------------------------------------
(* How one step preserves the invariant.                                   *)

(* A step of one redirect, and perhaps of the cache.                       *)
LEMMA Moves ==
  ASSUME RInv, NEW p \in Procs, NEW s \in ProcState, ProcOK(links, nextId, s),
         Become(p, s), UNCHANGED <<config, links, nextId, writer>>,
         cache' \in [Names -> Entry],
         \A n \in Names : EntryOK(links, nextId, cache'[n], n)
  PROVE  RInv'
<1>1. proc \in [Procs -> ProcState] /\ proc' = [proc EXCEPT ![p] = s]
  BY DEF RInv, TypeOK, Become
<1>2. TypeOK'
  BY <1>1 DEF RInv, TypeOK, Entry
<1>3. ASSUME NEW q \in Procs
      PROVE  ProcOK(links', nextId', proc'[q])
  <2>1. CASE q = p
    BY <1>1, <2>1
  <2>2. CASE q # p
    BY <1>1, <2>2 DEF RInv
  <2> QED
    BY <2>1, <2>2
<1> QED
  BY <1>2, <1>3 DEF RInv

(* A step of the cache alone, or of the cache and a writer.                *)
LEMMA Invalidates ==
  ASSUME RInv, UNCHANGED <<config, links, nextId, proc>>,
         cache' \in [Names -> Entry],
         \A n \in Names : EntryOK(links, nextId, cache'[n], n),
         writer' \in [Writers -> WriterState],
         \A w \in Writers : WriterOK(links, nextId, writer'[w])
  PROVE  RInv'
BY DEF RInv, TypeOK, Entry

(* A statement, and the writer whose it was.                               *)
LEMMA Statement ==
  ASSUME RInv, Evolves(links, nextId, links', nextId'), nextId' \in 1 .. MaxId + 1,
         RowsOK(links', nextId'), UNCHANGED <<config, cache, proc>>,
         NEW w \in Writers, NEW op \in WriteOps, NEW n \in Names, NEW copy \in Copy,
         OfName(links', nextId', copy, n), copy.stale = 0,
         Wrote(w, op, n, copy)
  PROVE  RInv'
<1>0. /\ cache \in [Names -> Entry] /\ proc \in [Procs -> ProcState]
      /\ writer \in [Writers -> WriterState]
  BY DEF RInv, TypeOK, Entry
<1>1. \A m \in Names : EntryOK(links', nextId', cache'[m], m)
  BY <1>0, EntryEvolves DEF RInv
<1>2. \A p \in Procs : ProcOK(links', nextId', proc'[p])
  BY <1>0, ProcEvolves DEF RInv
<1>3. /\ writer' \in [Writers -> WriterState]
      /\ \A v \in Writers : WriterOK(links', nextId', writer'[v])
  <2>0. \A v \in Writers : WriterOK(links', nextId', writer[v])
    BY <1>0, WriterEvolves DEF RInv
  <2>1. CASE writer' = writer
    BY <1>0, <2>0, <2>1
  <2>2. CASE writer' # writer
    <3> DEFINE after == [pc |-> "cache", op |-> op, name |-> n, got |-> copy, waited |-> 0]
    <3>1. writer' = [writer EXCEPT ![w] = after]
      BY <2>2 DEF Wrote
    <3>2. after \in WriterState
      <4>1. 0 \in 0 .. Lag
        BY Times
      <4> QED
        BY <4>1 DEF WriterState
    <3>3. WriterOK(links', nextId', after)
      BY DEF WriterOK
    <3> HIDE DEF after
    <3> QED
      BY <1>0, <2>0, <3>1, <3>2, <3>3
  <2> QED
    BY <2>1, <2>2
<1>4. TypeOK'
  BY <1>3 DEF RInv, TypeOK, Evolves
<1> QED
  BY <1>1, <1>2, <1>3, <1>4 DEF RInv

(* A statement that hands out no id.                                       *)
LEMMA SameIds ==
  ASSUME RInv, UNCHANGED nextId, links' \in Table,
         \A m \in Names : links'[m].id \in {links[m].id, 0}
  PROVE  /\ Evolves(links, nextId, links', nextId') /\ RowsOK(links', nextId')
         /\ nextId' \in 1 .. MaxId + 1
<1>1. nextId \in 1 .. MaxId + 1 /\ nextId \in Nat /\ links \in Table
  BY MaxIdAssumption DEF RInv, TypeOK
<1>2. Evolves(links, nextId, links', nextId')
  BY <1>1 DEF Evolves
<1>3. ASSUME NEW n \in Names
      PROVE  OfName(links', nextId', Fresh(links'[n]), n)
  <2>0. links'[n] \in Row \cup {NoLink} /\ links[n] \in Row \cup {NoLink}
    BY <1>1 DEF Table
  <2>1. SUFFICES ASSUME links'[n].id # 0
                 PROVE  IdOf(links', nextId', links'[n].id, n)
    BY DEF OfName, Fresh, Present
  <2>2. links'[n].id = links[n].id /\ links[n].id \in Ids
    BY <2>0, <2>1, RowIds
  <2>3. IdOf(links, nextId, links[n].id, n)
    <3>1. OfName(links, nextId, Fresh(links[n]), n)
      BY DEF RInv, RowsOK
    <3>2. links[n].id # 0
      BY <2>1, <2>2
    <3> QED
      BY <3>1, <3>2 DEF OfName, Fresh, Present
  <2> QED
    BY <1>2, <2>2, <2>3, IdOfEvolves
<1> QED
  BY <1>1, <1>2, <1>3 DEF RowsOK

-----------------------------------------------------------------------------
(* Redirects.                                                              *)

(* What RInv says of one redirect and of one entry.                        *)
LEMMA ProcInv ==
  ASSUME RInv, NEW p \in Procs
  PROVE  /\ proc[p] \in ProcState /\ ProcOK(links, nextId, proc[p])
         /\ cache \in [Names -> Entry]
         /\ \A n \in Names : EntryOK(links, nextId, cache[n], n)
BY DEF RInv, TypeOK, Entry

(* An entry that is served.                                                *)
LEMMA ServedOK ==
  ASSUME RInv, NEW text, Present(EntryOf(text).copy.row)
  PROVE  /\ text \in Names /\ EntryOf(text) = cache[text]
         /\ cache[text].copy \in Copy
         /\ OfName(links, nextId, cache[text].copy, text)
         /\ cache[text].copy.stale <= Ttl + Lag
<1>1. text \in Names /\ EntryOf(text) = cache[text]
  BY NothingOK DEF EntryOf
<1>2. cache[text] \in Entry /\ EntryOK(links, nextId, cache[text], text)
  BY <1>1 DEF RInv, TypeOK, Entry
<1>3. cache[text].copy \in Copy /\ cache[text].age \in 0 .. Ttl
  BY <1>2 DEF Entry
<1>4. cache[text].copy.stale \in Nat
  BY <1>3 DEF Copy
<1>5. cache[text].copy.stale <= cache[text].age + Lag
  BY <1>2 DEF EntryOK
<1>6. cache[text].copy.stale <= Ttl + Lag
  BY <1>3, <1>4, <1>5, Times
<1> QED
  BY <1>1, <1>2, <1>3, <1>6 DEF EntryOK

(* The fields of a redirect that begins.                                   *)
LEMMA BeginFields ==
  ASSUME NEW idle \in ProcState, NEW n, NEW c, NEW s,
         s = [idle EXCEPT !.pc = "find", !.name = n, !.caller = c]
  PROVE  s = [pc |-> "find", name |-> n, caller |-> c, link |-> idle.link,
              dest |-> idle.dest, got |-> idle.got, filling |-> idle.filling,
              viaAlias |-> idle.viaAlias, counted |-> idle.counted,
              waited |-> idle.waited]
BY DEF ProcState

LEMMA IdleType == IdleProc \in ProcState
<1>1. NobodyYet \in Caller
  BY DEF NobodyYet, Caller
<1>2. 0 \in 0 .. Lag /\ <<>> \in Seq(Ids)
  BY Times
<1> QED
  BY <1>1, <1>2, NothingOK DEF IdleProc, ProcState

LEMMA BeginStep ==
  ASSUME RInv, NEW p \in Procs, NEW n \in Names, NEW c \in Callers, Begin(p, n, c)
  PROVE  RInv'
<1> DEFINE s == [IdleProc EXCEPT !.pc = "find", !.name = n, !.caller = c]
<1>1. s = [pc |-> "find", name |-> n, caller |-> c, link |-> Nothing, dest |-> Nothing,
           got |-> Nothing, filling |-> FALSE, viaAlias |-> FALSE,
           counted |-> <<>>, waited |-> 0]
  <2>1. s = [pc |-> "find", name |-> n, caller |-> c, link |-> IdleProc.link,
             dest |-> IdleProc.dest, got |-> IdleProc.got, filling |-> IdleProc.filling,
             viaAlias |-> IdleProc.viaAlias, counted |-> IdleProc.counted,
             waited |-> IdleProc.waited]
    BY IdleType, BeginFields
  <2>2. /\ IdleProc.link = Nothing /\ IdleProc.dest = Nothing /\ IdleProc.got = Nothing
        /\ IdleProc.filling = FALSE /\ IdleProc.viaAlias = FALSE
        /\ IdleProc.counted = <<>> /\ IdleProc.waited = 0
    BY DEF IdleProc
  <2> HIDE DEF s
  <2> QED
    BY <2>1, <2>2
<1>2. s \in ProcState
  <2>1. c \in Caller /\ 0 \in 0 .. Lag /\ <<>> \in Seq(Ids)
    BY CallersAssumption, Times
  <2> HIDE DEF s
  <2> QED
    BY <1>1, <2>1, NothingOK DEF ProcState
<1>3. ProcOK(links, nextId, s)
  <2>1. /\ s.pc = "find" /\ s.link = Nothing /\ s.dest = Nothing /\ s.got = Nothing
        /\ s.filling = FALSE /\ s.viaAlias = FALSE /\ s.counted = <<>> /\ s.waited = 0
    BY <1>1
  <2> HIDE DEF s
  <2>2. CopiesOK(links, nextId, s)
    BY <2>1, NothingOK DEF CopiesOK, OfName
  <2>3. AgesOK(s)
    BY <2>1, NothingOK, Times DEF AgesOK
  <2>4. CountOK(s)
    BY <2>1 DEF CountOK, Outcomes
  <2>5. CountedOK(links, nextId, s)
    BY <2>1 DEF CountedOK
  <2> QED
    BY <2>2, <2>3, <2>4, <2>5 DEF ProcOK
<1>4. Become(p, s) /\ UNCHANGED <<config, links, nextId, cache, writer>>
  BY DEF Begin
<1> HIDE DEF s
<1> QED
  BY <1>2, <1>3, <1>4, ProcInv, Moves

LEMMA HitStep ==
  ASSUME RInv, NEW p \in Procs, Hit(p)
  PROVE  RInv'
<1> DEFINE key == Key(proc[p])
           copy == cache[key].copy
<1>1. /\ Looking(proc[p]) /\ Present(EntryOf(key).copy.row)
      /\ Become(p, Found(proc[p], EntryOf(key).copy))
      /\ UNCHANGED <<config, links, nextId, cache, writer>>
  BY DEF Hit, Cached
<1>2. /\ EntryOf(key) = cache[key] /\ copy \in Copy /\ Present(copy.row)
      /\ OfName(links, nextId, copy, key) /\ copy.stale <= Ttl + Lag
  BY <1>1, ServedOK
<1>3. proc[p].pc \in {"find", "resolve"} /\ proc[p].waited \in Nat /\ copy.stale \in Nat
  <2>1. proc[p].waited \in 0 .. Lag
    BY ProcInv DEF ProcState
  <2>2. copy.stale \in Nat
    BY <1>2 DEF Copy
  <2> QED
    BY <1>1, <2>1, <2>2, Times DEF Looking
<1> HIDE DEF copy
<1>4. copy.stale <= Ttl + Lag + proc[p].waited
  BY <1>2, <1>3, Times
<1>5. Found(proc[p], copy) \in ProcState /\ ProcOK(links, nextId, Found(proc[p], copy))
  BY <1>2, <1>3, <1>4, ProcInv, FoundOK
<1>6. Become(p, Found(proc[p], copy))
  BY <1>1, <1>2 DEF copy
<1> QED
  BY <1>1, <1>5, <1>6, ProcInv, Moves

(* The fields of a redirect that has read its row.                         *)
LEMMA ReadFields ==
  ASSUME NEW s \in ProcState, NEW copy, NEW after,
         after = [s EXCEPT !.got = copy, !.filling = TRUE]
  PROVE  after = [pc |-> s.pc, name |-> s.name, caller |-> s.caller, link |-> s.link,
                  dest |-> s.dest, got |-> copy, filling |-> TRUE,
                  viaAlias |-> s.viaAlias, counted |-> s.counted, waited |-> s.waited]
BY DEF ProcState

LEMMA ReadStep ==
  ASSUME RInv, NEW p \in Procs, Read(p)
  PROVE  RInv'
<1> DEFINE s == proc[p]
           key == Key(s)
           copy == Fresh(RowOf(links, key))
           after == [s EXCEPT !.got = copy, !.filling = TRUE]
<1>0. s \in ProcState /\ ProcOK(links, nextId, s) /\ links \in Table
  BY ProcInv DEF RInv, TypeOK
<1>1. /\ Looking(s) /\ Present(RowOf(links, key))
      /\ Become(p, after)
      /\ UNCHANGED <<config, links, nextId, cache, writer>>
  BY DEF Read
<1>2. key \in Names /\ RowOf(links, key) = links[key] /\ links[key] \in Row \cup {NoLink}
  BY <1>0, <1>1, RowOfType DEF Table
<1>3. copy \in Copy /\ copy.row = links[key] /\ copy.stale = 0
  BY <1>2, FreshOK
<1>4. OfName(links, nextId, copy, key)
  BY <1>2 DEF RInv, RowsOK
<1>5. after = [pc |-> s.pc, name |-> s.name, caller |-> s.caller, link |-> s.link,
               dest |-> s.dest, got |-> copy, filling |-> TRUE,
               viaAlias |-> s.viaAlias, counted |-> s.counted, waited |-> s.waited]
  <2> HIDE DEF s, copy
  <2> QED
    BY <1>0, ReadFields
<1>6. s.pc \in {"find", "resolve"} /\ Present(copy.row)
  BY <1>1, <1>2, <1>3 DEF Looking
<1> HIDE DEF s, key, copy, after
<1>7. after \in ProcState
  <2>1. /\ s.name \in Names \cup {""} /\ s.viaAlias \in BOOLEAN /\ s.caller \in Caller
        /\ s.counted \in Seq(Ids) /\ s.waited \in 0 .. Lag
        /\ s.link \in Copy /\ s.dest \in Copy
    BY <1>0 DEF ProcState
  <2> QED
    BY <1>3, <1>5, <1>6, <2>1 DEF ProcState
<1>8. ProcOK(links, nextId, after)
  <2>1. /\ after.pc = s.pc /\ after.name = s.name /\ after.link = s.link
        /\ after.dest = s.dest /\ after.got = copy /\ after.filling = TRUE
        /\ after.viaAlias = s.viaAlias /\ after.counted = s.counted
        /\ after.waited = s.waited
    BY <1>5
  <2>2. Key(after) = key
    BY <2>1 DEF Key, key
  <2>3. CopiesOK(links, nextId, after)
    BY <1>0, <1>2, <1>4, <1>6, <2>1, <2>2 DEF ProcOK, CopiesOK
  <2>4. AgesOK(after)
    <3>1. s.waited \in 0 .. Lag
      BY <1>0 DEF ProcState
    <3>2. 0 <= s.waited
      BY <3>1, Times
    <3> QED
      BY <1>0, <1>3, <2>1, <3>2 DEF ProcOK, AgesOK
  <2>5. CountOK(after)
    BY <1>0, <2>1 DEF ProcOK, CountOK
  <2>6. CountedOK(links, nextId, after)
    BY <1>0, <2>1 DEF ProcOK, CountedOK
  <2> QED
    BY <2>3, <2>4, <2>5, <2>6 DEF ProcOK
<1>9. Become(p, after) /\ UNCHANGED <<config, links, nextId, cache, writer>>
  BY <1>1
<1> QED
  BY <1>7, <1>8, <1>9, ProcInv, Moves

LEMMA FillStep ==
  ASSUME RInv, NEW p \in Procs, Fill(p)
  PROVE  RInv'
<1> DEFINE s == proc[p]
           key == Key(s)
           entry == [copy |-> s.got, age |-> 0]
<1>0. s \in ProcState /\ ProcOK(links, nextId, s) /\ cache \in [Names -> Entry]
  BY ProcInv
<1>1. /\ s.filling /\ Become(p, Found(s, s.got))
      /\ cache' = [cache EXCEPT ![key] = entry]
      /\ UNCHANGED <<config, links, nextId, writer>>
  BY DEF Fill, WithEntry
<1>2. /\ s.pc \in {"find", "resolve"} /\ Present(s.got.row) /\ key \in Names
      /\ OfName(links, nextId, s.got, key) /\ s.got.stale <= s.waited
  BY <1>0, <1>1 DEF ProcOK, CopiesOK, AgesOK
<1>3. s.got \in Copy /\ s.waited \in 0 .. Lag
  BY <1>0 DEF ProcState
<1>4. s.got.stale \in Nat
  BY <1>3 DEF Copy
<1> HIDE DEF s, key
<1>5. s.got.stale <= Lag /\ s.got.stale <= Ttl + Lag + s.waited
  BY <1>2, <1>3, <1>4, Times
<1>6. Found(s, s.got) \in ProcState /\ ProcOK(links, nextId, Found(s, s.got))
  BY <1>0, <1>2, <1>3, <1>5, FoundOK DEF key
<1>7. entry \in Entry /\ EntryOK(links, nextId, entry, key)
  <2>1. entry \in Entry
    BY <1>3, Times DEF Entry
  <2>2. entry.copy = s.got /\ entry.age = 0
    OBVIOUS
  <2>3. s.got.stale <= 0 + Lag
    BY <1>4, <1>5, Times
  <2> HIDE DEF entry
  <2> QED
    BY <1>2, <2>1, <2>2, <2>3 DEF EntryOK
<1> HIDE DEF entry
<1>8. cache' \in [Names -> Entry] /\ \A n \in Names : EntryOK(links, nextId, cache'[n], n)
  BY <1>0, <1>1, <1>7, ProcInv
<1> QED
  BY <1>1, <1>6, <1>8, Moves

LEMMA MissStep ==
  ASSUME RInv, NEW p \in Procs, Missing(p) \/ ReadFails(p)
  PROVE  RInv'
<1>1. PICK outcome \in Outcomes \ {"target", "home"} :
        /\ proc[p].pc \in {"find", "resolve"}
        /\ Become(p, Answered(proc[p], outcome))
        /\ UNCHANGED <<config, links, nextId, cache, writer>>
  <2>1. CASE Missing(p)
    <3>1. NotFoundOutcome(proc[p]) \in Outcomes \ {"target", "home"}
      BY DEF NotFoundOutcome, Outcomes
    <3> QED
      BY <2>1, <3>1 DEF Missing, Looking
  <2>2. CASE ReadFails(p)
    <3>1. "failed" \in Outcomes \ {"target", "home"}
      BY DEF Outcomes
    <3> QED
      BY <2>2, <3>1 DEF ReadFails, Looking
  <2> QED
    BY <2>1, <2>2
<1>2. /\ Answered(proc[p], outcome) \in ProcState
      /\ ProcOK(links, nextId, Answered(proc[p], outcome))
  BY <1>1, ProcInv, AnsweredOK
<1> QED
  BY <1>1, <1>2, ProcInv, Moves

LEMMA AnswerStep ==
  ASSUME RInv, NEW p \in Procs, NEW suffix \in BOOLEAN, NEW value \in Values,
         Answer(p, suffix, value)
  PROVE  RInv'
<1>1. PICK outcome \in Outcomes :
        /\ proc[p].pc = "answer"
        /\ Become(p, Finished(proc[p], outcome, CountUnlessAlias(proc[p], outcome)))
        /\ UNCHANGED <<config, links, nextId, cache, writer>>
  BY ResolvedOutcomes DEF Answer
<1> DEFINE after == Finished(proc[p], outcome, CountUnlessAlias(proc[p], outcome))
<1>2. after \in ProcState /\ ProcOK(links, nextId, after)
  BY <1>1, ProcInv, FinalOK
<1> QED
  BY <1>1, <1>2, ProcInv, Moves

LEMMA ExecuteFailsStep ==
  ASSUME RInv, NEW p \in Procs, ExecuteFails(p)
  PROVE  RInv'
<1>1. "badTarget" \in Outcomes \ {"target", "home"}
  BY DEF Outcomes
<1>2. /\ proc[p].pc = "answer" /\ Become(p, Answered(proc[p], "badTarget"))
      /\ UNCHANGED <<config, links, nextId, cache, writer>>
  BY DEF ExecuteFails
<1>3. /\ Answered(proc[p], "badTarget") \in ProcState
      /\ ProcOK(links, nextId, Answered(proc[p], "badTarget"))
  BY <1>1, <1>2, ProcInv, AnsweredOK
<1> QED
  BY <1>2, <1>3, ProcInv, Moves

-----------------------------------------------------------------------------
(* Writes.                                                                 *)

(* A statement of the set has the types of its columns.                    *)
LEMMA WriteFields ==
  ASSUME NEW c \in Writes
  PROVE  /\ c.op \in WriteOps /\ c.name \in Names /\ c.type \in Types
         /\ c.target \in Text /\ c.alias \in Text /\ c.auth \in BOOLEAN
         /\ c.owner \in Users
<1>1. c \in Write
  BY WritesAssumption
<1> QED
  BY <1>1 DEF Write, Text

(* A row that is there has an id that was handed out.                      *)
LEMMA PresentRow ==
  ASSUME RInv, NEW n \in Names, Present(links[n])
  PROVE  links[n].id \in Ids
<1>1. links[n] \in Row \cup {NoLink}
  BY DEF RInv, TypeOK, Table
<1> QED
  BY <1>1, RowIds DEF Present

LEMMA InsertStep ==
  ASSUME RInv, NEW w \in Writers, NEW c \in Writes, Insert(w, c)
  PROVE  RInv'
<1> DEFINE row == RowFor(c)
<1>0. /\ links \in Table /\ nextId \in 1 .. MaxId + 1 /\ nextId \in Nat
      /\ MaxId \in Nat /\ c.name \in Names
  BY MaxIdAssumption, WriteFields DEF RInv, TypeOK
<1>1. /\ ~Present(links[c.name]) /\ nextId <= MaxId
      /\ links' = [links EXCEPT ![c.name] = row] /\ nextId' = nextId + 1
      /\ Wrote(w, "create", c.name, Fresh(row))
      /\ UNCHANGED <<config, cache, proc>>
  BY DEF Insert
<1>2. row \in Row /\ row.id = nextId
  <2>1. nextId \in Ids
    BY <1>0, <1>1 DEF Ids
  <2> QED
    BY <2>1, WriteFields DEF RowFor, Row
<1>3. Fresh(row) \in Copy /\ Fresh(row).row = row /\ Fresh(row).stale = 0
  BY <1>2, FreshOK
<1> HIDE DEF row
<1>4. /\ links' \in Table /\ nextId' \in 1 .. MaxId + 1
      /\ \A m \in Names : links'[m] = IF m = c.name THEN row ELSE links[m]
  BY <1>0, <1>1, <1>2 DEF Table
<1>5. ASSUME NEW m \in Names
      PROVE  links[m].id < nextId
  <2>1. links[m] \in Row \cup {NoLink} /\ OfName(links, nextId, Fresh(links[m]), m)
    BY <1>0 DEF RInv, RowsOK, Table
  <2>2. CASE links[m].id = 0
    BY <1>0, <2>2
  <2>3. CASE links[m].id # 0
    BY <2>1, <2>3 DEF OfName, Fresh, Present, IdOf
  <2> QED
    BY <2>2, <2>3
<1>6. \A m \in Names : links'[m].id \in {links[m].id, 0, nextId}
  BY <1>2, <1>4
<1>7. Evolves(links, nextId, links', nextId')
  BY <1>0, <1>1, <1>4, <1>6 DEF Evolves
<1>8. IdOf(links', nextId', nextId, c.name)
  <2>1. ASSUME NEW m \in Names, links'[m].id = nextId
        PROVE  m = c.name
    BY <1>0, <1>4, <1>5, <2>1
  <2>2. nextId < nextId'
    BY <1>0, <1>1
  <2> QED
    BY <2>1, <2>2 DEF IdOf
<1>9. OfName(links', nextId', Fresh(row), c.name)
  BY <1>2, <1>3, <1>8 DEF OfName
<1>10. ASSUME NEW n \in Names
       PROVE  OfName(links', nextId', Fresh(links'[n]), n)
  <2>1. CASE n = c.name
    BY <1>4, <1>9, <2>1
  <2>2. CASE n # c.name
    <3>1. links'[n] = links[n] /\ links[n] \in Row \cup {NoLink}
      BY <1>0, <1>4, <2>2 DEF Table
    <3>2. Fresh(links[n]) \in Copy /\ OfName(links, nextId, Fresh(links[n]), n)
      BY <3>1, FreshOK DEF RInv, RowsOK
    <3> QED
      BY <1>7, <3>1, <3>2, OfNameEvolves
  <2> QED
    BY <2>1, <2>2
<1>11. "create" \in WriteOps
  BY DEF WriteOps
<1> QED
  BY <1>0, <1>1, <1>3, <1>4, <1>7, <1>9, <1>10, <1>11, Statement DEF RowsOK

(* Updates, conversions and deletions leave ids where they are.            *)
LEMMA ChangeStep ==
  ASSUME RInv, NEW w \in Writers, NEW c \in Writes,
         Update(w, c) \/ MakeAlias(w, c) \/ Delete(w, c)
  PROVE  RInv'
<1>0. links \in Table /\ c.name \in Names
  BY WriteFields DEF RInv, TypeOK
<1>1. PICK op \in WriteOps :
        /\ UNCHANGED nextId /\ links' \in Table
        /\ \A m \in Names : links'[m].id \in {links[m].id, 0}
        /\ Wrote(w, op, c.name, Nothing)
        /\ UNCHANGED <<config, cache, proc>>
  <2>1. CASE Update(w, c)
    <3>1. links[c.name].id \in Ids
      BY <1>0, <2>1, PresentRow DEF Update
    <3>2. /\ links' \in Table
          /\ \A m \in Names : links'[m].id = links[m].id
      BY <1>0, <2>1, <3>1, UpdateRowType, WriteFields DEF Update
    <3>3. "update" \in WriteOps
      BY DEF WriteOps
    <3> QED
      BY <2>1, <3>2, <3>3 DEF Update
  <2>2. CASE MakeAlias(w, c)
    <3>1. links[c.name].id \in Ids
      BY <1>0, <2>2, PresentRow DEF MakeAlias
    <3>2. /\ links' \in Table
          /\ \A m \in Names : links'[m].id = links[m].id
      BY <1>0, <2>2, <3>1, SetAliasType, WriteFields DEF MakeAlias
    <3>3. "alias" \in WriteOps
      BY DEF WriteOps
    <3> QED
      BY <2>2, <3>2, <3>3 DEF MakeAlias
  <2>3. CASE Delete(w, c)
    <3>1. links[c.name].id \in Ids
      BY <1>0, <2>3, PresentRow DEF Delete
    <3>2. /\ links' \in Table
          /\ \A m \in Names : links'[m] # links[m] => links'[m] = NoLink
      BY <1>0, <2>3, <3>1, DeleteRowType DEF Delete
    <3>3. \A m \in Names : links'[m].id \in {links[m].id, 0}
      BY <3>2, NoLinkId
    <3>4. "delete" \in WriteOps
      BY DEF WriteOps
    <3> QED
      BY <2>3, <3>2, <3>3, <3>4 DEF Delete
  <2> QED
    BY <2>1, <2>2, <2>3
<1>2. /\ Evolves(links, nextId, links', nextId') /\ RowsOK(links', nextId')
      /\ nextId' \in 1 .. MaxId + 1
  BY <1>1, SameIds
<1>3. OfName(links', nextId', Nothing, c.name) /\ Nothing \in Copy /\ Nothing.stale = 0
  BY NothingOK DEF OfName
<1> QED
  BY <1>0, <1>1, <1>2, <1>3, Statement

(* An empty entry agrees with everything.                                  *)
LEMMA NoEntryOK ==
  ASSUME NEW t, NEW next, NEW n
  PROVE  NoEntry \in Entry /\ EntryOK(t, next, NoEntry, n)
<1>1. Nothing.stale <= 0 + Lag
  BY NothingOK, Times
<1> QED
  BY <1>1, NothingOK DEF EntryOK, OfName

LEMMA InvalidateStep ==
  ASSUME RInv, NEW w \in Writers, Invalidate(w)
  PROVE  RInv'
<1> DEFINE s == writer[w]
           entry == [copy |-> s.got, age |-> 0]
<1>0. /\ cache \in [Names -> Entry] /\ writer \in [Writers -> WriterState]
      /\ \A n \in Names : EntryOK(links, nextId, cache[n], n)
      /\ \A v \in Writers : WriterOK(links, nextId, writer[v])
  BY DEF RInv, TypeOK, Entry
<1>1. /\ cache' = CacheAfter(s) /\ writer' = [writer EXCEPT ![w] = IdleWriter]
      /\ UNCHANGED <<config, links, nextId, proc>>
  BY DEF Invalidate
<1>2. IdleWriter \in WriterState /\ WriterOK(links, nextId, IdleWriter)
  <2>1. "delete" \in WriteOps /\ 0 \in 0 .. Lag
    BY Times DEF WriteOps
  <2>2. IdleWriter \in WriterState
    BY <2>1, NothingOK DEF IdleWriter, WriterState
  <2>3. IdleWriter.got = Nothing /\ IdleWriter.waited = 0
    BY DEF IdleWriter
  <2> QED
    BY <2>2, <2>3, NothingOK DEF WriterOK, OfName
<1>3. /\ writer' \in [Writers -> WriterState]
      /\ \A v \in Writers : WriterOK(links, nextId, writer'[v])
  BY <1>0, <1>1, <1>2
<1>4. /\ cache' \in [Names -> Entry]
      /\ \A n \in Names : EntryOK(links, nextId, cache'[n], n)
  <2>1. CASE s.op = "create"
    <3>1. cache' = [cache EXCEPT ![s.name] = entry]
      BY <1>1, <2>1 DEF CacheAfter, WithEntry
    <3>2. s.got \in Copy /\ s.waited \in 0 .. Lag /\ WriterOK(links, nextId, s)
      BY <1>0 DEF WriterState
    <3>3. s.got.stale \in Nat
      BY <3>2 DEF Copy
    <3>4. s.got.stale <= 0 + Lag
      BY <3>2, <3>3, Times DEF WriterOK
    <3>5. entry \in Entry
      BY <3>2, Times DEF Entry
    <3>6. entry.copy = s.got /\ entry.age = 0
      OBVIOUS
    <3> HIDE DEF entry, s
    <3>7. EntryOK(links, nextId, entry, s.name)
      BY <3>2, <3>4, <3>6 DEF EntryOK, WriterOK
    <3> QED
      BY <1>0, <3>1, <3>5, <3>7
  <2>2. CASE s.op = "update"
    <3>1. cache' = [cache EXCEPT ![s.name] = NoEntry]
      BY <1>1, <2>2 DEF CacheAfter
    <3> HIDE DEF s
    <3> QED
      BY <1>0, <3>1, NoEntryOK
  <2>3. CASE s.op # "create" /\ s.op # "update"
    <3>1. cache' = [n \in Names |-> NoEntry]
      BY <1>1, <2>3 DEF CacheAfter
    <3> QED
      BY <3>1, NoEntryOK
  <2> QED
    BY <2>1, <2>2, <2>3
<1> QED
  BY <1>1, <1>3, <1>4, Invalidates

LEMMA EvictStep ==
  ASSUME RInv, NEW n \in Names, Evict(n)
  PROVE  RInv'
<1>1. /\ cache' = [cache EXCEPT ![n] = NoEntry]
      /\ UNCHANGED <<config, links, nextId, proc, writer>>
  BY DEF Evict
<1>2. /\ cache \in [Names -> Entry] /\ writer \in [Writers -> WriterState]
      /\ \A m \in Names : EntryOK(links, nextId, cache[m], m)
      /\ \A v \in Writers : WriterOK(links, nextId, writer[v])
  BY DEF RInv, TypeOK, Entry
<1>3. /\ cache' \in [Names -> Entry]
      /\ \A m \in Names : EntryOK(links, nextId, cache'[m], m)
  BY <1>1, <1>2, NoEntryOK
<1> QED
  BY <1>1, <1>2, <1>3, Invalidates

-----------------------------------------------------------------------------
(* Time.                                                                   *)

(* A tick makes an entry as much older as it may make it staler.           *)
LEMMA OlderEntryOK ==
  ASSUME NEW t, NEW next, NEW n, NEW e \in Entry, EntryOK(t, next, e, n)
  PROVE  OlderEntry(n, e) \in Entry /\ EntryOK(t, next, OlderEntry(n, e), n)
<1>0. e.copy \in Copy /\ e.age \in 0 .. Ttl /\ e.copy.stale <= e.age + Lag
  BY DEF Entry, EntryOK
<1>1. CASE OlderEntry(n, e) = NoEntry
  BY <1>1, NoEntryOK
<1>2. CASE OlderEntry(n, e) # NoEntry
  <2> DEFINE copy == Later(e.copy, n)
             after == [copy |-> copy, age |-> e.age + 1]
  <2>1. OlderEntry(n, e) = after /\ ~(e.age >= Ttl)
    BY <1>2 DEF OlderEntry
  <2>2. /\ copy \in Copy /\ copy.row = e.copy.row /\ copy.stale <= e.copy.stale + 1
    BY <1>0, LaterOK
  <2>3. copy.stale \in Nat /\ e.copy.stale \in Nat
    BY <1>0, <2>2 DEF Copy
  <2> HIDE DEF copy
  <2>4. copy.stale <= (e.age + 1) + Lag /\ e.age + 1 \in 0 .. Ttl
    BY <1>0, <2>1, <2>2, <2>3, Times
  <2>5. after \in Entry
    BY <2>2, <2>4 DEF Entry
  <2>6. after.copy = copy /\ after.age = e.age + 1
    OBVIOUS
  <2> HIDE DEF after
  <2>7. EntryOK(t, next, after, n)
    BY <2>2, <2>4, <2>6 DEF EntryOK, OfName
  <2> QED
    BY <2>1, <2>5, <2>7
<1> QED
  BY <1>1, <1>2

(* And so it does with the copies of a redirect ...                        *)
LEMMA OlderProcOK ==
  ASSUME NEW t, NEW next, NEW s \in ProcState, ProcOK(t, next, s), s.waited < Lag
  PROVE  OlderProc(s) \in ProcState /\ ProcOK(t, next, OlderProc(s))
<1> DEFINE after == OlderProc(s)
           via == IF s.link.row.type = "alias" THEN s.link.row.aliasTarget ELSE s.name
           link == Later(s.link, s.name)
           got == Later(s.got, Key(s))
           dest == Later(s.dest, via)
           waited == s.waited + 1
<1>1. after = [pc |-> s.pc, name |-> s.name, caller |-> s.caller, link |-> link,
               dest |-> dest, got |-> got, filling |-> s.filling,
               viaAlias |-> s.viaAlias, counted |-> s.counted, waited |-> waited]
  <2>1. after = [s EXCEPT !.link = link, !.got = got, !.dest = dest, !.waited = waited]
    BY DEF OlderProc
  <2> HIDE DEF after, link, got, dest, waited
  <2> QED
    BY <2>1 DEF ProcState
<1>2. /\ s.pc \in {"idle", "find", "resolve", "answer"} \cup Outcomes
      /\ s.name \in Names \cup {""} /\ s.caller \in Caller
      /\ s.viaAlias \in BOOLEAN /\ s.filling \in BOOLEAN
      /\ s.link \in Copy /\ s.dest \in Copy /\ s.got \in Copy
      /\ s.counted \in Seq(Ids) /\ s.waited \in 0 .. Lag
  BY DEF ProcState
<1>3. /\ link \in Copy /\ link.row = s.link.row /\ link.stale <= s.link.stale + 1
      /\ dest \in Copy /\ dest.stale <= s.dest.stale + 1
      /\ got \in Copy /\ got.row = s.got.row /\ got.stale <= s.got.stale + 1
  BY <1>2, LaterOK
<1>4. waited = s.waited + 1 /\ waited \in 0 .. Lag /\ s.waited \in Nat
  <2>1. s.waited \in 0 .. Lag
    BY <1>2
  <2> QED
    BY <2>1, Times
<1> HIDE DEF after, link, got, dest, waited
<1>5. after \in ProcState
  BY <1>1, <1>2, <1>3, <1>4 DEF ProcState
<1>6. /\ after.pc = s.pc /\ after.name = s.name /\ after.link = link
      /\ after.dest = dest /\ after.got = got /\ after.filling = s.filling
      /\ after.viaAlias = s.viaAlias /\ after.counted = s.counted
      /\ after.waited = waited
  BY <1>1
<1>7. CopiesOK(t, next, after)
  <2>1. Key(after) = Key(s)
    BY <1>3, <1>6 DEF Key
  <2> QED
    BY <1>3, <1>6, <2>1 DEF ProcOK, CopiesOK, OfName
<1>8. AgesOK(after)
  <2>1. /\ link.stale \in Nat /\ dest.stale \in Nat /\ got.stale \in Nat
        /\ s.link.stale \in Nat /\ s.dest.stale \in Nat /\ s.got.stale \in Nat
    BY <1>2, <1>3 DEF Copy
  <2>2. /\ s.got.stale <= s.waited
        /\ s.link.stale <= Ttl + Lag + s.waited
        /\ s.dest.stale <= Ttl + Lag + s.waited
    BY DEF ProcOK, AgesOK
  <2>3. /\ got.stale <= waited
        /\ link.stale <= Ttl + Lag + waited
        /\ dest.stale <= Ttl + Lag + waited
    BY <1>3, <1>4, <2>1, <2>2, Times
  <2> QED
    BY <1>6, <2>3 DEF AgesOK
<1>9. CountOK(after)
  BY <1>3, <1>6 DEF ProcOK, CountOK
<1>10. CountedOK(t, next, after)
  BY <1>6 DEF ProcOK, CountedOK
<1> QED
  BY <1>5, <1>7, <1>8, <1>9, <1>10 DEF ProcOK, after

(* ... and with that of a writer.                                          *)
LEMMA OlderWriterOK ==
  ASSUME NEW t, NEW next, NEW w \in WriterState, WriterOK(t, next, w), w.waited < Lag
  PROVE  OlderWriter(w) \in WriterState /\ WriterOK(t, next, OlderWriter(w))
<1> DEFINE after == OlderWriter(w)
           got == Later(w.got, w.name)
           waited == w.waited + 1
<1>1. after = [pc |-> w.pc, op |-> w.op, name |-> w.name, got |-> got, waited |-> waited]
  <2>1. after = [w EXCEPT !.got = got, !.waited = waited]
    BY DEF OlderWriter
  <2> HIDE DEF after, got, waited
  <2> QED
    BY <2>1 DEF WriterState
<1>2. /\ w.pc \in {"idle", "cache"} /\ w.op \in WriteOps /\ w.name \in Names \cup {""}
      /\ w.got \in Copy /\ w.waited \in 0 .. Lag
  BY DEF WriterState
<1>3. got \in Copy /\ got.row = w.got.row /\ got.stale <= w.got.stale + 1
  BY <1>2, LaterOK
<1>4. waited = w.waited + 1 /\ waited \in 0 .. Lag /\ w.waited \in Nat
  <2>1. w.waited \in 0 .. Lag
    BY <1>2
  <2> QED
    BY <2>1, Times
<1> HIDE DEF after, got, waited
<1>5. after \in WriterState
  BY <1>1, <1>2, <1>3, <1>4 DEF WriterState
<1>6. after.got = got /\ after.name = w.name /\ after.waited = waited
  BY <1>1
<1>7. got.stale <= waited
  <2>1. got.stale \in Nat /\ w.got.stale \in Nat
    BY <1>2, <1>3 DEF Copy
  <2> QED
    BY <1>3, <1>4, <2>1 DEF WriterOK
<1>8. WriterOK(t, next, after)
  BY <1>3, <1>6, <1>7 DEF WriterOK, OfName
<1> QED
  BY <1>5, <1>8 DEF after

LEMMA TickStep ==
  ASSUME RInv, Tick
  PROVE  RInv'
<1>0. /\ cache \in [Names -> Entry] /\ proc \in [Procs -> ProcState]
      /\ writer \in [Writers -> WriterState] /\ UNCHANGED <<config, links, nextId>>
  BY DEF RInv, TypeOK, Entry, Tick
<1>1. ASSUME NEW n \in Names
      PROVE  cache'[n] \in Entry /\ EntryOK(links, nextId, cache'[n], n)
  <2>1. cache'[n] = OlderEntry(n, cache[n])
    BY <1>0 DEF Tick
  <2> QED
    BY <1>0, <2>1, OlderEntryOK DEF RInv
<1>2. ASSUME NEW p \in Procs
      PROVE  proc'[p] \in ProcState /\ ProcOK(links, nextId, proc'[p])
  <2>1. proc[p] \in ProcState /\ ProcOK(links, nextId, proc[p])
    BY <1>0 DEF RInv
  <2>2. CASE Busy(p)
    <3>1. proc'[p] = OlderProc(proc[p]) /\ proc[p].waited < Lag
      BY <1>0, <2>2 DEF Tick
    <3> QED
      BY <2>1, <3>1, OlderProcOK
  <2>3. CASE ~Busy(p)
    BY <1>0, <2>1, <2>3 DEF Tick
  <2> QED
    BY <2>2, <2>3
<1>3. ASSUME NEW w \in Writers
      PROVE  writer'[w] \in WriterState /\ WriterOK(links, nextId, writer'[w])
  <2>1. writer[w] \in WriterState /\ WriterOK(links, nextId, writer[w])
    BY <1>0 DEF RInv
  <2>2. CASE writer[w].pc = "idle"
    BY <1>0, <2>1, <2>2 DEF Tick
  <2>3. CASE writer[w].pc # "idle"
    <3>1. writer[w].pc = "cache"
      BY <2>1, <2>3 DEF WriterState
    <3>2. writer'[w] = OlderWriter(writer[w]) /\ writer[w].waited < Lag
      BY <1>0, <2>3, <3>1 DEF Tick
    <3> QED
      BY <2>1, <3>2, OlderWriterOK
  <2> QED
    BY <2>2, <2>3
<1>4. /\ cache' \in [Names -> Entry] /\ proc' \in [Procs -> ProcState]
      /\ writer' \in [Writers -> WriterState]
  <2>1. /\ cache' = [n \in Names |-> cache'[n]] /\ proc' = [p \in Procs |-> proc'[p]]
        /\ writer' = [w \in Writers |-> writer'[w]]
    BY <1>0 DEF Tick
  <2> QED
    BY <1>1, <1>2, <1>3, <2>1
<1>5. TypeOK'
  BY <1>0, <1>4 DEF RInv, TypeOK, Entry
<1> QED
  BY <1>0, <1>1, <1>2, <1>3, <1>5 DEF RInv

-----------------------------------------------------------------------------
(* The invariant and what follows from it.                                 *)

LEMMA InitInv == Init => RInv
<1> SUFFICES ASSUME Init
             PROVE  RInv
  OBVIOUS
<1>1. /\ links = EmptyTable /\ nextId = 1 /\ cache = [n \in Names |-> NoEntry]
      /\ proc = [p \in Procs |-> IdleProc] /\ writer = [w \in Writers |-> IdleWriter]
      /\ config \in Configs
  BY DEF Init
<1>2. nextId \in 1 .. MaxId + 1
  BY <1>1, MaxIdAssumption
<1>3. IdleWriter \in WriterState /\ WriterOK(links, nextId, IdleWriter)
  <2>1. "delete" \in WriteOps /\ 0 \in 0 .. Lag
    BY Times DEF WriteOps
  <2>2. IdleWriter \in WriterState
    BY <2>1, NothingOK DEF IdleWriter, WriterState
  <2>3. IdleWriter.got = Nothing /\ IdleWriter.waited = 0
    BY DEF IdleWriter
  <2> QED
    BY <2>2, <2>3, NothingOK DEF WriterOK, OfName
<1>4. ProcOK(links, nextId, IdleProc)
  <2>1. /\ IdleProc.pc = "idle" /\ IdleProc.link = Nothing /\ IdleProc.dest = Nothing
        /\ IdleProc.got = Nothing /\ IdleProc.filling = FALSE
        /\ IdleProc.counted = <<>> /\ IdleProc.waited = 0
    BY DEF IdleProc
  <2>2. CopiesOK(links, nextId, IdleProc)
    BY <2>1, NothingOK DEF CopiesOK, OfName
  <2>3. AgesOK(IdleProc)
    BY <2>1, NothingOK, Times DEF AgesOK
  <2>4. CountOK(IdleProc)
    BY <2>1 DEF CountOK
  <2>5. CountedOK(links, nextId, IdleProc)
    BY <2>1 DEF CountedOK
  <2> QED
    BY <2>2, <2>3, <2>4, <2>5 DEF ProcOK
<1>5. RowsOK(links, nextId)
  <2>1. \A n \in Names : ~Present(Fresh(links[n]).row)
    BY <1>1, NoLinkId DEF EmptyTable, Fresh, Present
  <2> QED
    BY <2>1 DEF RowsOK, OfName
<1>6. TypeOK
  BY <1>1, <1>2, <1>3, IdleType, NothingOK, EmptyTableType DEF TypeOK, Entry
<1> QED
  BY <1>1, <1>3, <1>4, <1>5, <1>6, NoEntryOK DEF RInv

LEMMA NextInv == RInv /\ [Next]_vars => RInv'
<1> SUFFICES ASSUME RInv, [Next]_vars
             PROVE  RInv'
  OBVIOUS
<1>1. ASSUME NEW p \in Procs, Redirecting(p)
      PROVE  RInv'
  BY <1>1, BeginStep, HitStep, ReadStep, FillStep, MissStep, AnswerStep,
     ExecuteFailsStep DEF Redirecting
<1>2. ASSUME NEW w \in Writers, Writing(w)
      PROVE  RInv'
  BY <1>2, InsertStep, ChangeStep, InvalidateStep DEF Writing
<1>3. CASE \E n \in Names : Evict(n)
  BY <1>3, EvictStep
<1>4. CASE Tick
  BY <1>4, TickStep
<1>5. CASE UNCHANGED vars
  BY <1>5 DEF vars, RInv, TypeOK
<1> QED
  BY <1>1, <1>2, <1>3, <1>4, <1>5 DEF Next

LEMMA Invariance == Spec => []RInv
BY InitInv, NextInv, PTL DEF Spec

(* Every variable keeps its type; in particular no entry of the cache      *)
(* (db/cache.go) is older than its Ttl.                                    *)
THEOREM TypeCorrect == Spec => []TypeOK
<1>1. RInv => TypeOK
  BY DEF RInv
<1> QED
  BY <1>1, Invariance, PTL

(* Whatever is written where and however fills, additions and              *)
(* invalidations are ordered, what a redirect works with was in the table  *)
(* a bounded time ago (db/cache.go, server/redirect.go).                   *)
THEOREM StalenessAlwaysBounded == Spec => []StalenessBounded
<1>1. RInv => StalenessBounded
  <2> SUFFICES ASSUME RInv
               PROVE  StalenessBounded
    OBVIOUS
  <2>1. EntriesFollowTable
    BY DEF RInv, EntryOK, EntriesFollowTable
  <2>2. RedirectsFollowTable
    BY DEF RInv, ProcOK, AgesOK, RedirectsFollowTable
  <2> QED
    BY <2>1, <2>2 DEF StalenessBounded
<1> QED
  BY <1>1, Invariance, PTL

(* A redirect is one use of the link that was named, and never of another  *)
(* that took its id or its place (server/redirect.go).                     *)
THEOREM RedirectsCountOnce == Spec => []OneUsePerRedirect
<1>1. RInv => OneUsePerRedirect
  <2> SUFFICES ASSUME RInv, NEW p \in Procs
               PROVE  LET s == proc[p] IN
                      /\ s.pc = "target" => Len(s.counted) = 1
                      /\ s.pc \in Outcomes \ {"target", "home"} /\ s.counted # <<>> =>
                           s.viaAlias /\ Len(s.counted) = 1
                      /\ \A i \in 1 .. Len(s.counted), n \in Names :
                           links[n].id = s.counted[i] => n = s.name
    BY DEF OneUsePerRedirect
  <2>1. ProcOK(links, nextId, proc[p])
    BY ProcInv
  <2>2. \A i \in 1 .. Len(proc[p].counted), n \in Names :
          links[n].id = proc[p].counted[i] => n = proc[p].name
    BY <2>1 DEF ProcOK, CountedOK, IdOf
  <2> QED
    BY <2>1, <2>2 DEF ProcOK, CountOK
<1> QED
  BY <1>1, Invariance, PTL

(* A template whose domain create or edit accepted is never refused for    *)
(* its domain when it is followed (redirect/advanced.go,                   *)
(* links/advanced_domains.go), whatever URL it expands to.                 *)
THEOREM AcceptedAlwaysFollowed == Spec => []AcceptedIsFollowed
<1>1. AcceptedIsFollowed
  <2> SUFFICES ASSUME NEW p \in Procs, NEW value \in Values,
                      CheckTemplateTargetDomain(TextOf(proc[p].dest.row.target),
                                                config.patterns),
                      Parses(Execute(TextOf(proc[p].dest.row.target), value))
               PROVE  CheckAdvancedLinkDomain(
                        Execute(TextOf(proc[p].dest.row.target), value), config.patterns)
    BY DEF AcceptedIsFollowed
  <2>1. TextOf(proc[p].dest.row.target) \in Seq(STRING)
    <3>1. <<>> \in Seq(STRING)
      OBVIOUS
    <3> QED
      BY <3>1, BodyAssumption DEF TextOf
  <2>2. value \in Seq(STRING)
    BY BodyAssumption
  <2> QED
    BY <2>1, <2>2, AcceptedExpands
<1> QED
  BY <1>1, PTL
=============================================================================
