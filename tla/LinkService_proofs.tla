--------------------------- MODULE LinkService_proofs ---------------------------
(***************************************************************************)
(* Invariance proofs for LinkService, for any set of names, users,         *)
(* requests and request goroutines.                                        *)
(*                                                                         *)
(* TypeOK is not inductive: which locals of a handler are meaningful       *)
(* depends on its stage, which StageOK states, and that no id is seen      *)
(* before the table hands it out is KnownIds.                              *)
(*                                                                         *)
(* The theorems about coherence, omitted fields and one hop are about one  *)
(* request at a time, none cut off: what a handler has read is then still  *)
(* so when it writes (SerialInv).  The one about the alias limit is about  *)
(* any number of requests, and counts the aliases on their way (LimitInv). *)
(***************************************************************************)
EXTENDS LinkService, LinkTable_proofs, FiniteSetTheorems

(* What a handler may rely on in each of its stages.                       *)
StageOK(s) ==
  /\ s.pc # "idle" => s.req \in Request /\ Acceptable(s.req)
  /\ s.filling => /\ s.pc \in {"find", "resolve", "canon"}
                  /\ Present(s.got)
                  /\ Key(s) \in Names
  /\ s.pc = "find" => s.req.op \notin {"create", "reassign"}
  /\ s.pc \in {"resolve", "canon"} => s.req.op \in {"create", "update"}
  /\ s.pc \in {"resolve", "canon"} /\ s.req.op = "update" => Present(s.snap)
  /\ s.pc = "access" => Present(s.snap) /\ s.req.op \in EditOps
  /\ s.pc = "count" => s.req.op \in {"create", "addAlias"}
  /\ s.pc = "write" /\ s.req.op \in EditOps => Present(s.snap)
  /\ s.pc = "write" => s.req.op # "read"
  /\ s.pc \in {"cache", "share"} /\ Inserts(s) => Present(s.got)
  /\ s.pc = "share" => s.req.op = "import" /\ Inserts(s) /\ s.req.to # ""

StagesOK == \A p \in Procs : StageOK(proc[p])

(* Ids are handed out in increasing order and seen only afterwards.        *)
Known(s) == s.snap.id < nextId /\ s.got.id < nextId

KnownIds ==
  /\ \A n \in Names : links[n].id < nextId /\ cache[n].id < nextId
  /\ \A p \in Procs : Known(proc[p])

IInv == TypeOK /\ StagesOK /\ KnownIds

-----------------------------------------------------------------------------
(* The local computations of a handler.                                    *)

(* A handler at rest relies on nothing and holds nothing.                  *)
LEMMA IdleOK ==
  /\ Idle \in ProcState
  /\ StageOK(Idle)
  /\ ~Looking(Idle) /\ ~Idle.filling
  /\ \A n \in Names, i \in Ids : ~Holds(Idle, n, i)
<1>1. 0 \notin Ids
  BY MaxIdAssumption DEF Ids
<1>2. Idle \in ProcState
  BY DEF Idle, ProcState, Stages, Text
<1>3. StageOK(Idle) /\ ~Looking(Idle) /\ ~Idle.filling
  BY DEF Idle, StageOK, Looking
<1>4. \A n \in Names, i \in Ids : ~Holds(Idle, n, i)
  BY <1>1 DEF Idle, Holds, NoLink
<1> QED
  BY <1>2, <1>3, <1>4

(* What a lookup leads to: the handler holds nothing it did not hold, but  *)
(* for the row it found, under the name it looked up.                      *)
LEMMA FoundOK ==
  ASSUME NEW s \in ProcState, StageOK(s), s.pc \in {"find", "resolve", "canon"},
         NEW row \in Row, Present(row)
  PROVE  /\ Found(s, row) \in ProcState
         /\ StageOK(Found(s, row))
         /\ Found(s, row).snap \in {s.snap, row, NoLink}
         /\ Found(s, row).got = NoLink
         /\ \A n \in Names, i \in Ids :
              Holds(Found(s, row), n, i) =>
                Holds(s, n, i) \/ (n = Key(s) /\ i = row.id)
<1>0. 0 \notin Ids
  BY MaxIdAssumption DEF Ids
<1>1. CASE Found(s, row) = Idle
  <2>0. Idle.snap = NoLink /\ Idle.got = NoLink
    BY DEF Idle
  <2>1. Found(s, row).snap = NoLink /\ Found(s, row).got = NoLink
    BY <1>1, <2>0
  <2>2. Found(s, row) \in ProcState /\ StageOK(Found(s, row))
    BY <1>1, IdleOK
  <2>3. \A n \in Names, i \in Ids : ~Holds(Found(s, row), n, i)
    BY <1>1, IdleOK
  <2> QED
    BY <2>1, <2>2, <2>3
<1> DEFINE after == [s EXCEPT !.filling = FALSE, !.got = NoLink]
<1>a. /\ s.req \in Request /\ s.goal \in Text /\ Acceptable(s.req)
      /\ s.snap \in Row \cup {NoLink}
  BY DEF ProcState, StageOK
<1>2. CASE /\ s.pc = "find"
           /\ \E pc \in {"count", "write", "access"} :
                /\ Found(s, row) = [after EXCEPT !.snap = row, !.pc = pc]
                /\ pc = "count" => s.req.op = "addAlias"
                /\ pc = "write" => s.req.op = "import"
                /\ pc = "access" => s.req.op \in EditOps
  <2>1. PICK pc \in {"count", "write", "access"} :
                /\ Found(s, row) = [after EXCEPT !.snap = row, !.pc = pc]
                /\ pc = "count" => s.req.op = "addAlias"
                /\ pc = "write" => s.req.op = "import"
                /\ pc = "access" => s.req.op \in EditOps
    BY <1>2
  <2>2. Found(s, row) = [pc |-> pc, req |-> s.req, snap |-> row, got |-> NoLink,
                         goal |-> s.goal, filling |-> FALSE]
    BY <2>1 DEF ProcState
  <2>3. Found(s, row) \in ProcState
    BY <1>a, <2>2 DEF ProcState, Stages
  <2>4. StageOK(Found(s, row))
    BY <1>a, <2>1, <2>2 DEF StageOK, EditOps
  <2>5. \A n \in Names, i \in Ids :
          Holds(Found(s, row), n, i) => n = Key(s) /\ i = row.id
    BY <1>0, <1>2, <2>2 DEF Holds, Key
  <2>6. Found(s, row).snap = row /\ Found(s, row).got = NoLink
    BY <2>2
  <2> QED
    BY <2>3, <2>4, <2>5, <2>6
<1>3. CASE \E pc \in {"count", "write", "canon"}, goal \in Text :
             /\ s.pc \in {"resolve", "canon"}
             /\ Found(s, row) = [after EXCEPT !.goal = goal, !.pc = pc]
             /\ pc = "count" => s.req.op = "create"
  <2>1. PICK pc \in {"count", "write", "canon"}, goal \in Text :
             /\ s.pc \in {"resolve", "canon"}
             /\ Found(s, row) = [after EXCEPT !.goal = goal, !.pc = pc]
             /\ pc = "count" => s.req.op = "create"
    BY <1>3
  <2>2. Found(s, row) = [pc |-> pc, req |-> s.req, snap |-> s.snap, got |-> NoLink,
                         goal |-> goal, filling |-> FALSE]
    BY <2>1 DEF ProcState
  <2>3. Found(s, row) \in ProcState
    BY <1>a, <2>2 DEF ProcState, Stages
  <2>4. StageOK(Found(s, row))
    BY <1>a, <2>1, <2>2 DEF StageOK, EditOps
  <2>5. \A n \in Names, i \in Ids :
          Holds(Found(s, row), n, i) => Holds(s, n, i)
    BY <1>0, <2>1, <2>2 DEF Holds, NoLink
  <2>6. Found(s, row).snap = s.snap /\ Found(s, row).got = NoLink
    BY <2>2
  <2> QED
    BY <2>3, <2>4, <2>5, <2>6
<1>4. CASE s.pc = "find"
  <2>1. s.req.op \notin {"create", "reassign"} /\ s.req.op \in Ops
    BY <1>4, <1>a DEF StageOK, Request
  <2>2. CASE s.req.op = "read"
    BY <1>1, <1>4, <2>2 DEF Found, FoundLink, EditOps
  <2>3. CASE s.req.op = "addAlias"
    <3>1. \/ Found(s, row) = Idle
          \/ Found(s, row) = [after EXCEPT !.snap = row, !.pc = "count"]
      BY <1>4, <2>3 DEF Found, FoundLink, EditOps
    <3> QED
      BY <1>1, <1>2, <1>4, <2>3, <3>1
  <2>4. CASE s.req.op = "import"
    <3>1. Found(s, row) = [after EXCEPT !.snap = row, !.pc = "write"]
      BY <1>4, <2>4 DEF Found, FoundLink, EditOps
    <3> QED
      BY <1>2, <1>4, <2>4, <3>1
  <2>5. CASE s.req.op \in EditOps
    <3>1. Found(s, row) = [after EXCEPT !.snap = row, !.pc = "access"]
      BY <1>4, <2>5 DEF Found, FoundLink, EditOps
    <3> QED
      BY <1>2, <1>4, <2>5, <3>1
  <2> QED
    BY <2>1, <2>2, <2>3, <2>4, <2>5 DEF Ops, EditOps
<1>5. CASE s.pc # "find"
  <2>1. row.aliasTarget \in Text
    BY DEF Row
  <2>2. after = [after EXCEPT !.goal = s.goal]
    BY DEF ProcState
  <2>3. CASE Found(s, row) = [after EXCEPT !.goal = row.aliasTarget, !.pc = "canon"]
    BY <1>3, <1>5, <2>1, <2>3
  <2>4. CASE Found(s, row) = [after EXCEPT !.pc = IF s.req.op = "create" THEN "count"
                                                                    ELSE "write"]
    <3> DEFINE pc == IF s.req.op = "create" THEN "count" ELSE "write"
    <3>1. Found(s, row) = [after EXCEPT !.goal = s.goal, !.pc = pc]
      BY <2>4 DEF ProcState
    <3> QED
      BY <1>3, <1>5, <1>a, <3>1
  <2> QED
    BY <1>1, <1>5, <2>3, <2>4 DEF Found, FoundTarget
<1> QED
  BY <1>4, <1>5

(* The decision taken after the access check.                              *)
LEMMA AfterAccessOK ==
  ASSUME NEW s \in ProcState, StageOK(s), s.pc = "access"
  PROVE  /\ AfterAccess(s) \in ProcState
         /\ StageOK(AfterAccess(s))
         /\ AfterAccess(s).snap \in {s.snap, NoLink}
         /\ AfterAccess(s).got \in {s.got, NoLink}
         /\ \A n \in Names, i \in Ids :
              Holds(AfterAccess(s), n, i) => Holds(s, n, i)
<1>a. /\ s.req \in Request /\ s.goal \in Text /\ Acceptable(s.req)
      /\ s.snap \in Row \cup {NoLink} /\ Present(s.snap)
      /\ s.req.op \in EditOps /\ ~s.filling /\ s.got \in Row \cup {NoLink}
  BY DEF ProcState, StageOK
<1>1. CASE AfterAccess(s) = Idle
  <2>0. Idle.snap = NoLink /\ Idle.got = NoLink
    BY DEF Idle
  <2>1. AfterAccess(s).snap = NoLink /\ AfterAccess(s).got = NoLink
    BY <1>1, <2>0
  <2>2. AfterAccess(s) \in ProcState /\ StageOK(AfterAccess(s))
    BY <1>1, IdleOK
  <2>3. \A n \in Names, i \in Ids : ~Holds(AfterAccess(s), n, i)
    BY <1>1, IdleOK
  <2> QED
    BY <2>1, <2>2, <2>3
<1>2. CASE AfterAccess(s) = [s EXCEPT !.pc = "write"]
  <2>1. AfterAccess(s) = [pc |-> "write", req |-> s.req, snap |-> s.snap,
                          got |-> s.got, goal |-> s.goal, filling |-> s.filling]
    BY <1>2 DEF ProcState
  <2>2. AfterAccess(s) \in ProcState
    BY <1>a, <2>1 DEF ProcState, Stages
  <2>3. StageOK(AfterAccess(s))
    BY <1>a, <2>1 DEF StageOK, EditOps
  <2>4. \A n \in Names, i \in Ids : Holds(AfterAccess(s), n, i) => Holds(s, n, i)
    BY <1>a, <2>1 DEF Holds
  <2> QED
    BY <2>1, <2>2, <2>3, <2>4
<1>3. CASE /\ AfterAccess(s) = [s EXCEPT !.goal = NewAlias(s), !.pc = "resolve"]
           /\ s.req.op = "update"
  <2>0. NewAlias(s) \in Text
    BY <1>a, RowIds DEF NewAlias, Request, Row, Present
  <2>1. AfterAccess(s) = [pc |-> "resolve", req |-> s.req, snap |-> s.snap,
                          got |-> s.got, goal |-> NewAlias(s), filling |-> s.filling]
    BY <1>3 DEF ProcState
  <2>2. AfterAccess(s) \in ProcState
    BY <1>a, <2>0, <2>1 DEF ProcState, Stages
  <2>3. StageOK(AfterAccess(s))
    BY <1>3, <1>a, <2>1 DEF StageOK, EditOps
  <2>4. \A n \in Names, i \in Ids : Holds(AfterAccess(s), n, i) => Holds(s, n, i)
    BY <1>a, <2>1 DEF Holds
  <2> QED
    BY <2>1, <2>2, <2>3, <2>4
<1>4. CASE ~MayProceed(s)
  BY <1>1, <1>4 DEF AfterAccess
<1>5. CASE MayProceed(s) /\ s.req.op = "update" /\ NewType(s) = "alias"
  <2>1. \/ AfterAccess(s) = Idle
        \/ AfterAccess(s) = [s EXCEPT !.goal = NewAlias(s), !.pc = "resolve"]
    BY <1>5 DEF AfterAccess
  <2> QED
    BY <1>1, <1>3, <1>5, <2>1
<1>6. CASE MayProceed(s) /\ ~(s.req.op = "update" /\ NewType(s) = "alias")
  <2>1. \/ AfterAccess(s) = Idle
        \/ AfterAccess(s) = [s EXCEPT !.pc = "write"]
    BY <1>6 DEF AfterAccess
  <2> QED
    BY <1>1, <1>2, <2>1
<1> QED
  BY <1>4, <1>5, <1>6

-----------------------------------------------------------------------------
(* How one step of one handler preserves the invariant.                    *)

Shares == [Ids -> SUBSET Users]

NoNewSight == \A n \in Names, i \in Ids : Seen(n, i)' => Seen(n, i)

(* Id 0, which stands for no row, is below every id to come.               *)
LEMMA NextIdPositive == IInv => nextId \in Nat /\ 0 < nextId
BY MaxIdAssumption DEF IInv, TypeOK

(* Whatever is seen was handed out.                                        *)
LEMMA SeenKnown ==
  ASSUME IInv, NEW n \in Names, NEW i \in Ids, Seen(n, i)
  PROVE  i < nextId
<1>1. CASE links[n].id = i \/ cache[n].id = i
  BY <1>1 DEF IInv, KnownIds
<1>2. CASE \E p \in Procs : Holds(proc[p], n, i)
  <2>1. PICK p \in Procs : Holds(proc[p], n, i)
    BY <1>2
  <2>2. proc[p].snap.id = i \/ proc[p].got.id = i
    BY <2>1 DEF Holds
  <2> QED
    BY <2>2 DEF IInv, KnownIds, Known
<1> QED
  BY <1>1, <1>2 DEF Seen

(* A step that hands out no id and shows none where it was not seen.       *)
LEMMA Moves ==
  ASSUME IInv, NEW p \in Procs, NEW s \in ProcState, StageOK(s),
         proc' = [proc EXCEPT ![p] = s],
         nextId' = nextId, s.snap.id < nextId, s.got.id < nextId,
         links' \in Table, cache' \in Table, shares' \in Shares,
         \A n \in Names, i \in Ids :
           links'[n].id = i \/ cache'[n].id = i \/ Holds(s, n, i) => Seen(n, i)
  PROVE  IInv' /\ NoNewSight
<1>1. proc \in [Procs -> ProcState] /\ nextId \in 1 .. MaxId + 1
  BY DEF IInv, TypeOK
<1>2. TypeOK'
  BY <1>1 DEF TypeOK, Shares
<1>3. StagesOK'
  <2>1. ASSUME NEW q \in Procs
        PROVE  StageOK(proc'[q])
    <3>1. CASE q = p
      BY <1>1, <3>1
    <3>2. CASE q # p
      BY <1>1, <3>2 DEF IInv, StagesOK
    <3> QED
      BY <3>1, <3>2
  <2> QED
    BY <2>1 DEF StagesOK
<1>4. ASSUME NEW n \in Names
      PROVE  links'[n].id < nextId' /\ cache'[n].id < nextId'
  <2>1. links'[n] \in Row \cup {NoLink} /\ cache'[n] \in Row \cup {NoLink}
    BY DEF Table
  <2>4. links'[n].id \in Ids \/ links'[n].id = 0
    BY <2>1, RowIds
  <2>5. cache'[n].id \in Ids \/ cache'[n].id = 0
    BY <2>1, RowIds
  <2>6. links'[n].id < nextId
    BY <1>1, <2>4, SeenKnown, MaxIdAssumption
  <2>7. cache'[n].id < nextId
    BY <1>1, <2>5, SeenKnown, MaxIdAssumption
  <2> QED
    BY <2>6, <2>7
<1>5. ASSUME NEW q \in Procs
      PROVE  proc'[q].snap.id < nextId' /\ proc'[q].got.id < nextId'
  <2>1. CASE q = p
    BY <1>1, <2>1
  <2>2. CASE q # p
    BY <1>1, <2>2 DEF IInv, KnownIds, Known
  <2> QED
    BY <2>1, <2>2
<1>6. KnownIds'
  BY <1>4, <1>5 DEF KnownIds, Known
<1>7. NoNewSight
  <2>1. ASSUME NEW n \in Names, NEW i \in Ids, NEW q \in Procs, Holds(proc'[q], n, i)
        PROVE  Seen(n, i)
    <3>1. CASE q = p
      BY <1>1, <2>1, <3>1
    <3>2. CASE q # p
      BY <1>1, <2>1, <3>2 DEF Seen
    <3> QED
      BY <3>1, <3>2
  <2>2. ASSUME NEW n \in Names, NEW i \in Ids, Seen(n, i)'
        PROVE  Seen(n, i)
    <3>1. \/ links'[n].id = i
          \/ cache'[n].id = i
          \/ \E q \in Procs : Holds(proc'[q], n, i)
      BY <2>2 DEF Seen
    <3> QED
      BY <2>1, <3>1
  <2> QED
    BY <2>2 DEF NoNewSight
<1> QED
  BY <1>2, <1>3, <1>6, <1>7 DEF IInv

-----------------------------------------------------------------------------
(* The steps, one by one.                                                  *)

LEMMA BeginStep ==
  ASSUME IInv, NEW p \in Procs, NEW r \in Requests, Begin(p, r)
  PROVE  IInv' /\ NoNewSight
<1> DEFINE s == Started(r)
<1>0. r \in Request
  BY RequestsAssumption
<1>1. /\ s.pc = FirstStage(r) /\ s.req = r /\ s.snap = NoLink
      /\ s.got = NoLink /\ s.filling = FALSE
  BY DEF Started
<1>3. FirstStage(r) \in {"resolve", "write", "find"}
  BY DEF FirstStage
<1>4. s \in ProcState
  <2>1. (IF r.op = "addAlias" THEN r.name ELSE r.alias) \in Text
    BY <1>0 DEF Request, Text
  <2> QED
    BY <1>0, <1>3, <2>1 DEF Started, ProcState, Stages
<1> HIDE DEF s
<1>5. StageOK(s)
  <2>1. Acceptable(r)
    BY DEF Begin
  <2>2. FirstStage(r) = "find" => r.op \notin {"create", "reassign"}
    BY DEF FirstStage
  <2>3. FirstStage(r) = "resolve" => r.op = "create"
    BY DEF FirstStage
  <2>4. FirstStage(r) = "write" => r.op \in {"create", "reassign"}
    BY DEF FirstStage
  <2> QED
    BY <1>0, <1>1, <1>3, <2>1, <2>2, <2>3, <2>4 DEF StageOK, EditOps
<1>6. \A n \in Names, i \in Ids : ~Holds(s, n, i)
  BY <1>1, <1>3, NoLinkId DEF Holds
<1>7. s.snap.id < nextId /\ s.got.id < nextId
  <2>1. s.snap.id = 0 /\ s.got.id = 0
    BY <1>1, NoLinkId
  <2> QED
    BY <2>1, NextIdPositive
<1>8. proc' = [proc EXCEPT ![p] = s] /\ UNCHANGED <<links, shares, nextId, cache>>
  BY DEF Begin, Become, s
<1>9. links \in Table /\ cache \in Table /\ shares \in Shares
  BY DEF IInv, TypeOK, Shares
<1> QED
  BY <1>4, <1>5, <1>6, <1>7, <1>8, <1>9, Moves DEF Seen

(* The handler of p ends, leaving the tables as they are or with fewer     *)
(* rows seen.                                                              *)
LEMMA FinishStep ==
  ASSUME IInv, NEW p \in Procs, Finish(p), nextId' = nextId,
         links' \in Table, cache' \in Table, shares' \in Shares,
         \A n \in Names, i \in Ids :
           links'[n].id = i \/ cache'[n].id = i => Seen(n, i)
  PROVE  IInv' /\ NoNewSight
<1>1. Idle.snap.id < nextId /\ Idle.got.id < nextId
  <2>1. Idle.snap.id = 0 /\ Idle.got.id = 0
    BY DEF Idle, NoLink
  <2> QED
    BY <2>1, NextIdPositive
<1>2. proc' = [proc EXCEPT ![p] = Idle]
  BY DEF Finish, Become
<1> QED
  BY <1>1, <1>2, IdleOK, Moves

(* The handler of p goes on to stage pc with the locals it has.            *)
LEMMA GoToStep ==
  ASSUME IInv, NEW p \in Procs, NEW pc \in Stages, GoTo(p, pc), nextId' = nextId,
         StageOK([proc[p] EXCEPT !.pc = pc]),
         \A n \in Names, i \in Ids :
           Holds([proc[p] EXCEPT !.pc = pc], n, i) => Holds(proc[p], n, i),
         links' \in Table, cache' \in Table, shares' \in Shares,
         \A n \in Names, i \in Ids :
           links'[n].id = i \/ cache'[n].id = i => Seen(n, i)
  PROVE  IInv' /\ NoNewSight
<1> DEFINE s == [proc[p] EXCEPT !.pc = pc]
<1>1. proc[p] \in ProcState /\ Known(proc[p])
  BY DEF IInv, TypeOK, KnownIds
<1>2. s \in ProcState
  BY <1>1 DEF ProcState
<1>3. s.snap.id < nextId /\ s.got.id < nextId
  BY <1>1 DEF ProcState, Known
<1>4. proc' = [proc EXCEPT ![p] = s]
  BY DEF GoTo, Become
<1>5. StageOK(s)
  OBVIOUS
<1>6. \A n \in Names, i \in Ids : Holds(s, n, i) => Seen(n, i)
  BY DEF Seen
<1> HIDE DEF s
<1> QED
  BY <1>2, <1>3, <1>4, <1>5, <1>6, Moves

(* What IInv says of the process taking a step and of the tables.          *)
LEMMA Unpack ==
  ASSUME IInv, NEW p \in Procs
  PROVE  /\ links \in Table /\ cache \in Table /\ shares \in Shares
         /\ proc[p] \in ProcState /\ StageOK(proc[p])
         /\ proc[p].snap.id < nextId /\ proc[p].got.id < nextId
         /\ \A n \in Names, i \in Ids :
              links[n].id = i \/ cache[n].id = i \/ Holds(proc[p], n, i) => Seen(n, i)
BY DEF IInv, TypeOK, StagesOK, KnownIds, Known, Shares, Seen

(* A lookup that found row under the name looked up.                       *)
LEMMA FoundStep ==
  ASSUME IInv, NEW p \in Procs, NEW row \in Row, Present(row),
         Key(proc[p]) \in Names, row.id < nextId, row.id \in Ids,
         Seen(Key(proc[p]), row.id),
         proc[p].pc \in {"find", "resolve", "canon"},
         Become(p, Found(proc[p], row)), UNCHANGED <<links, shares, nextId>>,
         cache' \in Table,
         \A n \in Names, i \in Ids : cache'[n].id = i => Seen(n, i)
  PROVE  IInv' /\ NoNewSight
<1> DEFINE s == Found(proc[p], row)
<1>1. /\ s \in ProcState /\ StageOK(s) /\ s.snap \in {proc[p].snap, row, NoLink}
      /\ s.got = NoLink
  BY Unpack, FoundOK
<1>2. \A n \in Names, i \in Ids :
        Holds(s, n, i) => Holds(proc[p], n, i) \/ (n = Key(proc[p]) /\ i = row.id)
  BY Unpack, FoundOK
<1> HIDE DEF s
<1>3. s.snap.id < nextId /\ s.got.id < nextId
  BY <1>1, Unpack, NoLinkId, NextIdPositive
<1>4. \A n \in Names, i \in Ids : Holds(s, n, i) => Seen(n, i)
  BY <1>2, Unpack
<1>5. \A n \in Names, i \in Ids : links'[n].id = i => Seen(n, i)
  BY Unpack
<1>6. links' \in Table /\ shares' \in Shares
  BY Unpack
<1>7. proc' = [proc EXCEPT ![p] = s]
  BY DEF Become, s
<1> QED
  BY <1>1, <1>3, <1>4, <1>5, <1>6, <1>7, Moves

LEMMA LookupHitStep ==
  ASSUME IInv, NEW p \in Procs, LookupHit(p)
  PROVE  IInv' /\ NoNewSight
<1> DEFINE key == Key(proc[p])
           row == RowOf(cache, key)
<1>1. cache \in Table /\ Present(row)
  BY Unpack DEF LookupHit
<1>2. key \in Names /\ row = cache[key] /\ row \in Row /\ row.id \in Ids
  <2>1. key \in Names /\ row = cache[key] /\ row \in Row \cup {NoLink}
    BY <1>1, RowOfType
  <2> QED
    BY <1>1, <2>1, RowIds DEF Present
<1>3. row.id < nextId /\ Seen(key, row.id)
  BY <1>2 DEF IInv, KnownIds, Seen
<1>4. /\ proc[p].pc \in {"find", "resolve", "canon"}
      /\ Become(p, Found(proc[p], row))
      /\ UNCHANGED <<links, shares, nextId>> /\ cache' = cache
  BY DEF LookupHit, Looking
<1> HIDE DEF key, row
<1>5. \A n \in Names, i \in Ids : cache'[n].id = i => Seen(n, i)
  BY <1>4, Unpack
<1> QED
  BY <1>1, <1>2, <1>3, <1>4, <1>5, FoundStep DEF key

LEMMA LookupReadStep ==
  ASSUME IInv, NEW p \in Procs, LookupRead(p)
  PROVE  IInv' /\ NoNewSight
<1> DEFINE key == Key(proc[p])
           row == RowOf(links, key)
           s == [proc[p] EXCEPT !.got = row, !.filling = TRUE]
<1>0. /\ Present(row) /\ proc' = [proc EXCEPT ![p] = s]
      /\ UNCHANGED <<links, shares, nextId, cache>>
      /\ proc[p].pc \in {"find", "resolve", "canon"} /\ ~proc[p].filling
  BY DEF LookupRead, Become, Looking
<1>1. links \in Table /\ cache \in Table /\ shares \in Shares
  BY Unpack
<1>2. key \in Names /\ row = links[key] /\ row \in Row /\ row.id \in Ids
  <2>1. key \in Names /\ row = links[key] /\ row \in Row \cup {NoLink}
    BY <1>0, <1>1, RowOfType
  <2> QED
    BY <1>0, <2>1, RowIds DEF Present
<1>3. row.id < nextId /\ Seen(key, row.id)
  BY <1>2 DEF IInv, KnownIds, Seen
<1> HIDE DEF key, row
<1>4. proc[p] \in ProcState /\ StageOK(proc[p])
  BY Unpack
<1>5. /\ s.pc = proc[p].pc /\ s.req = proc[p].req /\ s.snap = proc[p].snap
      /\ s.got = row /\ s.goal = proc[p].goal /\ s.filling = TRUE
  BY <1>4 DEF ProcState
<1>6. s \in ProcState
  BY <1>2, <1>4 DEF ProcState
<1> HIDE DEF s
<1>7. Key(s) = key
  BY <1>5 DEF Key, key
<1>8. StageOK(s)
  BY <1>0, <1>2, <1>4, <1>5, <1>7 DEF StageOK
<1>9. \A n \in Names, i \in Ids :
        Holds(s, n, i) => Holds(proc[p], n, i) \/ (n = key /\ i = row.id)
  BY <1>0, <1>5, <1>7 DEF Holds
<1>10. \A n \in Names, i \in Ids : Holds(s, n, i) => Seen(n, i)
  BY <1>3, <1>9, Unpack
<1>11. s.snap.id < nextId /\ s.got.id < nextId
  BY <1>3, <1>5, Unpack
<1> QED
  BY <1>0, <1>1, <1>6, <1>8, <1>10, <1>11, Moves, Unpack

LEMMA LookupFillStep ==
  ASSUME IInv, NEW p \in Procs, LookupFill(p)
  PROVE  IInv' /\ NoNewSight
<1> DEFINE key == Key(proc[p])
           row == proc[p].got
<1>0. /\ proc[p].filling /\ cache' = [cache EXCEPT ![key] = row]
      /\ Become(p, Found(proc[p], row)) /\ UNCHANGED <<links, shares, nextId>>
  BY DEF LookupFill
<1>1. /\ proc[p] \in ProcState /\ StageOK(proc[p]) /\ cache \in Table
      /\ row.id < nextId
  BY Unpack
<1>2. /\ key \in Names /\ Present(row) /\ proc[p].pc \in {"find", "resolve", "canon"}
      /\ row \in Row \cup {NoLink}
  BY <1>0, <1>1 DEF StageOK, ProcState
<1>3. row \in Row /\ row.id \in Ids
  BY <1>2, RowIds DEF Present
<1>4. Seen(key, row.id)
  <2>1. Holds(proc[p], key, row.id)
    BY <1>0 DEF Holds
  <2> QED
    BY <1>2, <1>3, <2>1, Unpack
<1> HIDE DEF key, row
<1>5. cache' \in Table
  BY <1>0, <1>1, <1>3 DEF Table
<1>6. \A n \in Names, i \in Ids : cache'[n].id = i => Seen(n, i)
  <2>1. \A n \in Names : cache'[n] = IF n = key THEN row ELSE cache[n]
    BY <1>0, <1>1 DEF Table
  <2> QED
    BY <1>4, <2>1, Unpack
<1> QED
  BY <1>0, <1>1, <1>2, <1>3, <1>4, <1>5, <1>6, FoundStep DEF key

(* Going on to the write, without having touched the tables.               *)
LEMMA GoToWrite ==
  ASSUME IInv, NEW p \in Procs, GoTo(p, "write"),
         UNCHANGED <<links, shares, nextId, cache>>,
         proc[p].pc # "idle", ~proc[p].filling,
         proc[p].req.op \in {"create", "addAlias", "import"}
  PROVE  IInv' /\ NoNewSight
<1> DEFINE s == [proc[p] EXCEPT !.pc = "write"]
<1>1. proc[p] \in ProcState /\ StageOK(proc[p])
  BY Unpack
<1>2. /\ s.pc = "write" /\ s.req = proc[p].req /\ s.snap = proc[p].snap
      /\ s.got = proc[p].got /\ s.filling = proc[p].filling
  BY <1>1 DEF ProcState
<1> HIDE DEF s
<1>3. StageOK(s)
  BY <1>1, <1>2 DEF StageOK, EditOps
<1>4. \A n \in Names, i \in Ids : Holds(s, n, i) => Holds(proc[p], n, i)
  BY <1>2 DEF Holds
<1>5. "write" \in Stages
  BY DEF Stages
<1> QED
  BY <1>3, <1>4, <1>5, GoToStep, Unpack DEF s

(* Going on from the write to the invalidation of the cache.               *)
LEMMA GoToCache ==
  ASSUME IInv, NEW p \in Procs, proc[p].pc = "write", GoTo(p, "cache"),
         ~Inserts(proc[p]), nextId' = nextId, cache' = cache,
         links' \in Table, shares' \in Shares,
         \A n \in Names, i \in Ids : links'[n].id = i => Seen(n, i)
  PROVE  IInv' /\ NoNewSight
<1> DEFINE s == [proc[p] EXCEPT !.pc = "cache"]
<1>1. proc[p] \in ProcState /\ StageOK(proc[p])
  BY Unpack
<1>2. /\ s.pc = "cache" /\ s.req = proc[p].req /\ s.snap = proc[p].snap
      /\ s.got = proc[p].got /\ s.filling = proc[p].filling
  BY <1>1 DEF ProcState
<1> HIDE DEF s
<1>3. ~Inserts(s)
  BY <1>2 DEF Inserts
<1>4. ~proc[p].filling
  BY <1>1 DEF StageOK
<1>5. StageOK(s)
  BY <1>1, <1>2, <1>3, <1>4 DEF StageOK
<1>6. \A n \in Names, i \in Ids : Holds(s, n, i) => Holds(proc[p], n, i)
  BY <1>2, <1>3, <1>4 DEF Holds
<1>7. "cache" \in Stages
  BY DEF Stages
<1> QED
  BY <1>5, <1>6, <1>7, GoToStep, Unpack DEF s

LEMMA LookupMissingStep ==
  ASSUME IInv, NEW p \in Procs, LookupMissing(p)
  PROVE  IInv' /\ NoNewSight
<1>0. UNCHANGED <<links, shares, nextId, cache>> /\ Looking(proc[p])
  BY DEF LookupMissing
<1>1. CASE Req(p).op = "import"
  <2>1. GoTo(p, "write")
    BY <1>1 DEF LookupMissing
  <2> QED
    BY <1>0, <1>1, <2>1, GoToWrite DEF Looking, Req
<1>2. CASE Req(p).op # "import"
  <2>1. Finish(p)
    BY <1>2 DEF LookupMissing
  <2> QED
    BY <1>0, <2>1, FinishStep, Unpack
<1> QED
  BY <1>1, <1>2

LEMMA AbortStep ==
  ASSUME IInv, NEW p \in Procs, Abort(p)
  PROVE  IInv' /\ NoNewSight
BY FinishStep, Unpack DEF Abort

LEMMA CheckLimitStep ==
  ASSUME IInv, NEW p \in Procs, CheckLimit(p)
  PROVE  IInv' /\ NoNewSight
<1>0. UNCHANGED <<links, shares, nextId, cache>> /\ proc[p].pc = "count"
  BY DEF CheckLimit, Stage
<1>1. proc[p].req.op \in {"create", "addAlias"} /\ ~proc[p].filling
  BY <1>0, Unpack DEF StageOK
<1>2. CASE GoTo(p, "write")
  BY <1>0, <1>1, <1>2, GoToWrite
<1>3. CASE Finish(p)
  BY <1>0, <1>3, FinishStep, Unpack
<1> QED
  BY <1>2, <1>3 DEF CheckLimit

LEMMA RowGoneStep ==
  ASSUME IInv, NEW p \in Procs, RowGone(p)
  PROVE  IInv' /\ NoNewSight
BY FinishStep, Unpack DEF RowGone

LEMMA AccessStep ==
  ASSUME IInv, NEW p \in Procs, Access(p)
  PROVE  IInv' /\ NoNewSight
<1> DEFINE s == AfterAccess(proc[p])
<1>1. /\ proc' = [proc EXCEPT ![p] = s] /\ proc[p].pc = "access"
      /\ UNCHANGED <<links, shares, nextId, cache>>
  BY DEF Access, Become, Stage
<1>2. /\ s \in ProcState /\ StageOK(s)
      /\ s.snap \in {proc[p].snap, NoLink} /\ s.got \in {proc[p].got, NoLink}
  BY <1>1, AfterAccessOK, Unpack
<1>3. \A n \in Names, i \in Ids : Holds(s, n, i) => Holds(proc[p], n, i)
  BY <1>1, AfterAccessOK, Unpack
<1> HIDE DEF s
<1>4. s.snap.id < nextId /\ s.got.id < nextId
  BY <1>2, Unpack, NoLinkId, NextIdPositive
<1>5. \A n \in Names, i \in Ids : Holds(s, n, i) => Seen(n, i)
  BY <1>3, Unpack
<1> QED
  BY <1>1, <1>2, <1>4, <1>5, Moves, Unpack

(* The user a request names, where its handler goes on to use it.          *)
LEMMA NamedUsers ==
  ASSUME IInv, NEW p \in Procs, proc[p].pc \in {"write", "share"}
  PROVE  /\ proc[p].req \in Request
         /\ proc[p].req.op \in {"transfer", "share", "reassign"} => proc[p].req.to \in Users
         /\ proc[p].pc = "share" => proc[p].req.to \in Users
<1>1. proc[p].req \in Request /\ Acceptable(proc[p].req)
  BY Unpack DEF StageOK
<1>2. proc[p].req.op = "transfer" => proc[p].req.to # ""
  BY <1>1 DEF Acceptable
<1>3. proc[p].req.op = "share" => proc[p].req.to # ""
  BY <1>1 DEF Acceptable
<1>4. proc[p].req.op = "reassign" => proc[p].req.to # ""
  BY <1>1 DEF Acceptable
<1>5. proc[p].pc = "share" => proc[p].req.to # ""
  BY Unpack DEF StageOK
<1>6. proc[p].req.to \in Users \cup {""}
  BY <1>1 DEF Request
<1> QED
  BY <1>1, <1>2, <1>3, <1>4, <1>5, <1>6

(* A handler that edits has found a link and inserts none.                 *)
LEMMA Editing ==
  ASSUME IInv, NEW p \in Procs, proc[p].pc = "write",
         proc[p].req.op \in EditOps \/ Rewrites(proc[p])
  PROVE  /\ Present(proc[p].snap) /\ proc[p].snap \in Row /\ proc[p].snap.id \in Ids
         /\ ~Inserts(proc[p])
<1>1. proc[p].snap \in Row \cup {NoLink} /\ StageOK(proc[p])
  BY Unpack DEF ProcState
<1>2. Present(proc[p].snap)
  BY <1>1 DEF StageOK, Rewrites, EditOps
<1> QED
  BY <1>1, <1>2, RowIds DEF Present, Inserts, Rewrites, EditOps

LEMMA TransferStep ==
  ASSUME IInv, NEW p \in Procs, Transfer(p)
  PROVE  IInv' /\ NoNewSight
<1>0. /\ proc[p].pc = "write" /\ proc[p].req.op = "transfer" /\ GoTo(p, "cache")
      /\ links' = TransferOwnership(links, proc[p].snap.id, proc[p].req.to)
      /\ UNCHANGED <<shares, nextId, cache>>
  BY DEF Transfer, Stage, Req, Snap
<1>1. proc[p].snap.id \in Ids /\ ~Inserts(proc[p]) /\ proc[p].req.to \in Users
  BY <1>0, Editing, NamedUsers DEF EditOps
<1>2. links' \in Table /\ \A n \in Names : links'[n].id = links[n].id
  BY <1>0, <1>1, TransferType, Unpack
<1> QED
  BY <1>0, <1>1, <1>2, GoToCache, Unpack

LEMMA ReassignStep ==
  ASSUME IInv, NEW p \in Procs, Reassign(p)
  PROVE  IInv' /\ NoNewSight
<1>0. /\ proc[p].pc = "write" /\ proc[p].req.op = "reassign" /\ GoTo(p, "cache")
      /\ links' = ReassignLinks(links, proc[p].req.from, proc[p].req.to)
      /\ UNCHANGED <<shares, nextId, cache>>
  BY DEF Reassign, Stage, Req
<1>1. ~Inserts(proc[p]) /\ proc[p].req.to \in Users
  BY <1>0, NamedUsers DEF Inserts
<1>2. links' \in Table /\ \A n \in Names : links'[n].id = links[n].id
  BY <1>0, <1>1, ReassignType, Unpack
<1> QED
  BY <1>0, <1>1, <1>2, GoToCache, Unpack

LEMMA DeleteStep ==
  ASSUME IInv, NEW p \in Procs, Delete(p)
  PROVE  IInv' /\ NoNewSight
<1>0. /\ proc[p].pc = "write" /\ proc[p].req.op \in {"delete", "uiDelete"}
      /\ GoTo(p, "cache") /\ links' = DeleteRow(links, proc[p].snap.id)
      /\ UNCHANGED <<nextId, cache>>
      /\ shares' = IF Cascade THEN [shares EXCEPT ![proc[p].snap.id] = {}] ELSE shares
  BY DEF Delete, Stage, Req, Snap
<1>1. proc[p].snap.id \in Ids /\ ~Inserts(proc[p])
  BY <1>0, Editing DEF EditOps
<1>2. /\ links' \in Table
      /\ \A n \in Names : links'[n] # links[n] => links'[n] = NoLink
  BY <1>0, <1>1, DeleteRowType, Unpack
<1>3. \A n \in Names, i \in Ids : links'[n].id = i => Seen(n, i)
  BY <1>2, NoLinkId, Unpack
<1>4. shares' \in Shares
  <2>1. shares \in Shares
    BY Unpack
  <2> QED
    BY <1>0, <2>1 DEF Shares
<1> QED
  BY <1>0, <1>1, <1>2, <1>3, <1>4, GoToCache

(* The columns an update writes.                                           *)
LEMMA NewColumns ==
  ASSUME NEW s \in ProcState, s.req \in Request, s.snap \in Row
  PROVE  NewTarget(s) \in Text /\ NewType(s) \in Types /\ NewAuth(s) \in BOOLEAN
<1>1. s.req.target \in Text /\ s.req.type \in Types /\ s.req.auth \in BOOLEAN
  BY DEF Request
<1>2. s.snap.target \in Text /\ s.snap.type \in Types /\ s.snap.requireAuth \in BOOLEAN
  BY DEF Row
<1> QED
  BY <1>1, <1>2 DEF NewTarget, NewType, NewAuth

LEMMA UpdateStep ==
  ASSUME IInv, NEW p \in Procs, Update(p)
  PROVE  IInv' /\ NoNewSight
<1> DEFINE s == proc[p]
<1>0. /\ s.pc = "write" /\ Rewrites(s) /\ GoTo(p, "cache")
      /\ links' = UpdateRow(links, s.snap.id, NewTarget(s), NewType(s), NewAuth(s))
      /\ UNCHANGED <<shares, nextId, cache>>
  BY DEF Update, Stage, Req, Snap
<1>1. /\ s.snap.id \in Ids /\ s.snap \in Row /\ ~Inserts(s) /\ s.req \in Request
      /\ s \in ProcState
  BY <1>0, Editing, NamedUsers, Unpack
<1>2. NewTarget(s) \in Text /\ NewType(s) \in Types /\ NewAuth(s) \in BOOLEAN
  BY <1>1, NewColumns
<1>3. links' \in Table /\ \A n \in Names : links'[n].id = links[n].id
  BY <1>0, <1>1, <1>2, UpdateRowType, Unpack
<1> QED
  BY <1>0, <1>1, <1>3, GoToCache, Unpack

LEMMA MakeAliasStep ==
  ASSUME IInv, NEW p \in Procs, MakeAlias(p)
  PROVE  IInv' /\ NoNewSight
<1> DEFINE s == proc[p]
<1>0. /\ s.pc = "write" /\ Rewrites(s) /\ UNCHANGED <<shares, nextId, cache>>
  BY DEF MakeAlias, Stage
<1>1. /\ s.snap.id \in Ids /\ s.snap \in Row /\ ~Inserts(s) /\ s.req \in Request
      /\ s \in ProcState
  BY <1>0, Editing, NamedUsers, Unpack
<1>2. NewAuth(s) \in BOOLEAN /\ s.goal \in Text
  BY <1>1, NewColumns DEF ProcState
<1>3. CASE Finish(p) /\ UNCHANGED links
  BY <1>0, <1>3, FinishStep, Unpack
<1>4. CASE /\ GoTo(p, "cache")
           /\ links' = SetAlias(links, s.snap.id, s.goal, NewAuth(s))
  <2>1. links' \in Table /\ \A n \in Names : links'[n].id = links[n].id
    BY <1>1, <1>2, <1>4, SetAliasType, Unpack
  <2> QED
    BY <1>0, <1>1, <1>4, <2>1, GoToCache, Unpack
<1> QED
  BY <1>3, <1>4 DEF MakeAlias, Snap

(* A share is added to, at most, the shares of one link.                   *)
LEMMA WithShareType ==
  ASSUME IInv, NEW i, NEW user \in Users
  PROVE  /\ WithShare(i, user) \in Shares
         /\ \A j \in Ids : WithShare(i, user)[j] # shares[j] => j = i
<1>1. shares \in Shares
  BY DEF IInv, TypeOK, Shares
<1> QED
  BY <1>1 DEF WithShare, Shares

LEMMA ChangeShareStep ==
  ASSUME IInv, NEW p \in Procs, ChangeShare(p)
  PROVE  IInv' /\ NoNewSight
<1>0. /\ proc[p].pc = "write" /\ UNCHANGED <<links, nextId, cache>> /\ Finish(p)
  BY DEF ChangeShare, Stage
<1>1. shares' \in Shares
  <2>1. shares \in Shares
    BY Unpack
  <2>2. CASE /\ Req(p).op = "share"
             /\ shares' = WithShare(Snap(p).id, Req(p).to)
    BY <1>0, <2>2, NamedUsers, WithShareType DEF Req
  <2>3. CASE shares' = [shares EXCEPT ![Snap(p).id] = @ \ {Req(p).to}]
    BY <2>1, <2>3 DEF Shares
  <2> QED
    BY <2>2, <2>3 DEF ChangeShare
<1> QED
  BY <1>0, <1>1, FinishStep, Unpack

LEMMA ImportShareStep ==
  ASSUME IInv, NEW p \in Procs, ImportShare(p)
  PROVE  IInv' /\ NoNewSight
<1>0. /\ proc[p].pc = "share" /\ UNCHANGED <<links, nextId, cache>> /\ Finish(p)
      /\ shares' = WithShare(proc[p].got.id, proc[p].req.to)
  BY DEF ImportShare, Stage, Req
<1>1. shares' \in Shares
  BY <1>0, NamedUsers, WithShareType
<1> QED
  BY <1>0, <1>1, FinishStep, Unpack

(* The name of the link a handler inserts.                                 *)
LEMMA NewNameType ==
  ASSUME IInv, NEW p \in Procs, proc[p].pc # "idle"
  PROVE  proc[p].req \in Request /\ NewName(proc[p]) \in Names
<1>1. proc[p].req \in Request /\ Acceptable(proc[p].req)
  BY Unpack DEF StageOK
<1>2. proc[p].req.op = "addAlias" => proc[p].req.alias \in Names
  BY <1>1 DEF Acceptable
<1> QED
  BY <1>1, <1>2 DEF NewName, Request

LEMMA UpdateCacheStep ==
  ASSUME IInv, NEW p \in Procs, UpdateCache(p)
  PROVE  IInv' /\ NoNewSight
<1> DEFINE s == proc[p]
           t == [proc[p] EXCEPT !.pc = "share"]
<1>0. /\ s.pc = "cache" /\ UNCHANGED <<links, shares, nextId>>
      /\ cache' = CacheAfterWrite(s)
  BY DEF UpdateCache, Stage
<1>1. s \in ProcState /\ StageOK(s) /\ cache \in Table
  BY Unpack
<1>2. s.req \in Request /\ NewName(s) \in Names /\ s.req.name \in Names
  BY <1>0, NewNameType DEF Request
<1>3. /\ cache' \in Table
      /\ \A n \in Names, i \in Ids : cache'[n].id = i => Seen(n, i)
  <2>1. CASE Inserts(s)
    <3>1. cache' = [cache EXCEPT ![NewName(s)] = s.got]
      BY <1>0, <2>1 DEF CacheAfterWrite, Inserts, Rewrites
    <3>2. s.got \in Row \cup {NoLink}
      BY <1>1 DEF ProcState
    <3>3. \A n \in Names : cache'[n] = IF n = NewName(s) THEN s.got ELSE cache[n]
      BY <1>1, <3>1 DEF Table
    <3>4. \A i \in Ids : s.got.id = i => Seen(NewName(s), i)
      <4>1. ASSUME NEW i \in Ids, s.got.id = i
            PROVE  Holds(s, NewName(s), i)
        BY <1>0, <2>1, <4>1 DEF Holds
      <4> QED
        BY <1>2, <4>1, Unpack
    <3>5. cache' \in Table
      BY <1>1, <3>1, <3>2 DEF Table
    <3> QED
      BY <3>3, <3>4, <3>5, Unpack
  <2>2. CASE cache' = [cache EXCEPT ![s.req.name] = NoLink]
    BY <1>1, <2>2, NoLinkId, Unpack DEF Table
  <2>3. CASE cache' = EmptyTable
    BY <2>3, NoLinkId, EmptyTableType DEF EmptyTable
  <2> QED
    BY <1>0, <2>1, <2>2, <2>3 DEF CacheAfterWrite
<1>4. CASE Finish(p)
  BY <1>0, <1>3, <1>4, FinishStep, Unpack
<1>5. CASE /\ GoTo(p, "share")
           /\ Inserts(s) /\ Req(p).op = "import" /\ Req(p).to # ""
  <2>2. /\ t.pc = "share" /\ t.req = s.req /\ t.snap = s.snap
        /\ t.got = s.got /\ t.filling = s.filling
    BY <1>1 DEF ProcState
  <2> HIDE DEF t
  <2>3. Inserts(t) /\ NewName(t) = NewName(s)
    BY <1>5, <2>2 DEF Inserts, NewName
  <2>4. StageOK(t)
    BY <1>0, <1>1, <1>5, <2>2, <2>3 DEF StageOK, Req
  <2>5. \A n \in Names, i \in Ids : Holds(t, n, i) => Holds(s, n, i)
    <3>1. ~s.filling
      BY <1>0, <1>1 DEF StageOK
    <3> QED
      BY <1>0, <1>5, <2>2, <2>3, <3>1 DEF Holds
  <2>6. "share" \in Stages
    BY DEF Stages
  <2> QED
    BY <1>0, <1>3, <1>5, <2>4, <2>5, <2>6, GoToStep, Unpack DEF t
<1> QED
  BY <1>4, <1>5 DEF UpdateCache

(* What is seen under two names after a step was seen under both before.   *)
SightsAgree ==
  \A m, n \in Names, i \in Ids :
    Seen(m, i)' /\ Seen(n, i)' => m = n \/ (Seen(m, i) /\ Seen(n, i))

(* The row a handler inserts.                                              *)
LEMMA NewRowType ==
  ASSUME IInv, NEW p \in Procs, proc[p].pc = "write", nextId \in Ids
  PROVE  NewRow(proc[p]) \in Row /\ NewRow(proc[p]).id = nextId
<1> DEFINE s == proc[p]
<1>1. /\ s.req \in Request /\ s.goal \in Text
  BY Unpack, NamedUsers DEF ProcState
<1>2. /\ s.req.target \in Text /\ s.req.user \in Users /\ s.req.type \in Types
      /\ s.req.auth \in BOOLEAN /\ s.req.from \in Users \cup {""}
  BY <1>1 DEF Request
<1>3. "" \in Text /\ "alias" \in Types
  BY DEF Text, Types
<1> HIDE DEF s
<1> DEFINE row == [id |-> nextId, target |-> s.req.target, owner |-> s.req.user,
                   type |-> s.req.type, aliasTarget |-> s.goal,
                   requireAuth |-> s.req.auth]
<1>4. row \in Row /\ row.id = nextId
  BY <1>1, <1>2 DEF Row
<1>5. CASE s.req.op = "addAlias"
  <2>1. NewRow(s) = [row EXCEPT !.target = "", !.type = "alias", !.requireAuth = FALSE]
    BY <1>5 DEF NewRow
  <2> HIDE DEF row
  <2> QED
    BY <1>3, <1>4, <2>1 DEF Row, s
<1>6. CASE s.req.op = "import" /\ s.req.from # ""
  <2>1. NewRow(s) = [row EXCEPT !.owner = s.req.from]
    BY <1>6 DEF NewRow
  <2> HIDE DEF row
  <2> QED
    BY <1>2, <1>4, <1>6, <2>1 DEF Row, s
<1>7. CASE s.req.op # "addAlias" /\ ~(s.req.op = "import" /\ s.req.from # "")
  <2>1. NewRow(s) = row
    BY <1>7 DEF NewRow
  <2> HIDE DEF row
  <2> QED
    BY <1>4, <2>1 DEF s
<1> QED
  BY <1>5, <1>6, <1>7

LEMMA InsertStep ==
  ASSUME IInv, NEW p \in Procs, Insert(p)
  PROVE  IInv' /\ SightsAgree
<1> DEFINE s == proc[p]
           name == NewName(proc[p])
           row == NewRow(proc[p])
           t == [proc[p] EXCEPT !.pc = "cache", !.got = row]
<1>0. s.pc = "write" /\ Inserts(s) /\ UNCHANGED <<shares, cache>>
  BY DEF Insert, Stage
<1>1. CASE Finish(p) /\ UNCHANGED <<links, nextId>>
  <2>1. IInv' /\ NoNewSight
    BY <1>0, <1>1, FinishStep, Unpack
  <2> QED
    BY <2>1 DEF NoNewSight, SightsAgree
<1>2. CASE /\ ~InsertFails(s) /\ links' = [links EXCEPT ![name] = row]
           /\ nextId' = nextId + 1 /\ Become(p, t)
  <2>1. /\ s \in ProcState /\ StageOK(s) /\ links \in Table /\ cache \in Table
        /\ proc \in [Procs -> ProcState] /\ nextId \in 1 .. MaxId + 1
        /\ shares \in Shares
    BY Unpack DEF IInv, TypeOK
  <2>2. name \in Names /\ nextId \in Ids /\ nextId + 1 \in 1 .. MaxId + 1
    BY <1>0, <1>2, <2>1, NewNameType, MaxIdAssumption DEF InsertFails, Ids
  <2>3. row \in Row /\ row.id = nextId
    BY <1>0, <2>2, NewRowType
  <2>4. proc' = [proc EXCEPT ![p] = t]
    BY <1>2 DEF Become
  <2> HIDE DEF name, row
  <2>5. /\ t.pc = "cache" /\ t.req = s.req /\ t.snap = s.snap /\ t.got = row
        /\ t.filling = s.filling
    BY <2>1 DEF ProcState
  <2>6. t \in ProcState
    BY <2>1, <2>3 DEF ProcState, Stages
  <2> HIDE DEF t
  <2>7. ~s.filling
    BY <1>0, <2>1 DEF StageOK
  <2>8. NewName(t) = name /\ (Inserts(t) <=> Inserts(s))
    BY <2>5 DEF NewName, Inserts, name
  <2>9. StageOK(t)
    <3>1. Present(row)
      BY <2>2, <2>3, NoLinkId DEF Present
    <3> QED
      BY <1>0, <2>1, <2>5, <2>7, <3>1 DEF StageOK
  <2>10. \A n \in Names, i \in Ids :
           Holds(t, n, i) => Seen(n, i) \/ (n = name /\ i = nextId)
    <3>1. \A n \in Names, i \in Ids :
            Holds(t, n, i) => Holds(s, n, i) \/ (n = name /\ i = nextId)
      BY <2>3, <2>5, <2>7, <2>8 DEF Holds
    <3> QED
      BY <3>1, Unpack
  <2>11. \A n \in Names : links'[n] = IF n = name THEN row ELSE links[n]
    BY <1>2, <2>1 DEF Table
  <2>12. links' \in Table
    BY <1>2, <2>1, <2>3 DEF Table
  <2>13. TypeOK'
    BY <1>0, <1>2, <2>1, <2>2, <2>4, <2>6, <2>12 DEF TypeOK, Shares
  <2>14. StagesOK'
    <3>1. ASSUME NEW q \in Procs
          PROVE  StageOK(proc'[q])
      <4>1. CASE q = p
        BY <2>1, <2>4, <2>9, <4>1
      <4>2. CASE q # p
        BY <2>1, <2>4, <4>2 DEF IInv, StagesOK
      <4> QED
        BY <4>1, <4>2
    <3> QED
      BY <3>1 DEF StagesOK
  <2>15. KnownIds'
    <3>1. ASSUME NEW n \in Names
          PROVE  links'[n].id < nextId' /\ cache'[n].id < nextId'
      <4>1. links[n].id < nextId /\ cache[n].id < nextId
        BY DEF IInv, KnownIds
      <4>2. links[n].id \in Nat /\ cache[n].id \in Nat
        BY <2>1, RowIds DEF Table
      <4>3. links'[n].id \in {links[n].id, nextId}
        BY <2>3, <2>11
      <4> QED
        BY <1>0, <1>2, <2>1, <4>1, <4>2, <4>3, NextIdPositive
    <3>2. ASSUME NEW q \in Procs
          PROVE  proc'[q].snap.id < nextId' /\ proc'[q].got.id < nextId'
      <4>1. proc[q].snap.id < nextId /\ proc[q].got.id < nextId
        BY Unpack
      <4>2. proc[q].snap.id \in Nat /\ proc[q].got.id \in Nat
        BY <2>1, RowIds DEF ProcState
      <4>3. /\ proc'[q].snap.id = proc[q].snap.id
            /\ proc'[q].got.id \in {proc[q].got.id, nextId}
        BY <2>1, <2>3, <2>4, <2>5
      <4> QED
        BY <1>2, <4>1, <4>2, <4>3, NextIdPositive
    <3> QED
      BY <3>1, <3>2 DEF KnownIds, Known
  <2>16. ASSUME NEW n \in Names, NEW i \in Ids, Seen(n, i)'
         PROVE  Seen(n, i) \/ (n = name /\ i = nextId)
    <3>1. CASE links'[n].id = i \/ cache'[n].id = i
      BY <1>0, <2>3, <2>11, <3>1, Unpack
    <3>2. CASE \E q \in Procs : Holds(proc'[q], n, i)
      <4>1. PICK q \in Procs : Holds(proc'[q], n, i)
        BY <3>2
      <4>2. CASE q = p
        BY <2>1, <2>4, <2>10, <4>1, <4>2
      <4>3. CASE q # p
        BY <2>1, <2>4, <4>1, <4>3 DEF Seen
      <4> QED
        BY <4>2, <4>3
    <3> QED
      BY <2>16, <3>1, <3>2 DEF Seen
  <2>17. ASSUME NEW n \in Names, NEW i \in Ids, Seen(n, i)
         PROVE  i # nextId
    BY <2>17, <2>2, SeenKnown, MaxIdAssumption DEF Ids
  <2>18. SightsAgree
    BY <2>16, <2>17 DEF SightsAgree
  <2> QED
    BY <2>13, <2>14, <2>15, <2>18 DEF IInv
<1> QED
  BY <1>1, <1>2 DEF Insert

LEMMA EvictStep ==
  ASSUME IInv, NEW n \in Names, Evict(n)
  PROVE  IInv' /\ NoNewSight
<1>1. /\ UNCHANGED <<links, shares, nextId, proc>>
      /\ cache' = [cache EXCEPT ![n] = NoLink]
  BY DEF Evict
<1>2. cache \in Table /\ nextId \in Nat /\ 0 < nextId
  BY NextIdPositive DEF IInv, TypeOK
<1>3. \A m \in Names : cache'[m] = IF m = n THEN NoLink ELSE cache[m]
  BY <1>1, <1>2 DEF Table
<1>4. TypeOK'
  <2>1. cache' \in Table
    BY <1>1, <1>2 DEF Table
  <2> QED
    BY <1>1, <2>1 DEF IInv, TypeOK
<1>5. StagesOK'
  BY <1>1 DEF IInv, StagesOK
<1>6. KnownIds'
  BY <1>1, <1>2, <1>3, NoLinkId DEF IInv, KnownIds, Known
<1>7. NoNewSight
  BY <1>1, <1>3, NoLinkId DEF NoNewSight, Seen
<1> QED
  BY <1>4, <1>5, <1>6, <1>7 DEF IInv

-----------------------------------------------------------------------------
(* The theorems.                                                           *)

LEMMA NextStep ==
  ASSUME IInv, [Next]_vars
  PROVE  IInv' /\ SightsAgree
<1>1. CASE UNCHANGED vars
  <2>1. UNCHANGED <<links, shares, nextId, cache, proc>>
    BY <1>1 DEF vars
  <2> QED
    BY <2>1 DEF IInv, TypeOK, StagesOK, KnownIds, Known, SightsAgree, Seen
<1>2. ASSUME IInv' /\ NoNewSight
      PROVE  IInv' /\ SightsAgree
  BY <1>2 DEF NoNewSight, SightsAgree
<1>3. ASSUME NEW p \in Procs, Step(p)
      PROVE  IInv' /\ SightsAgree
  <2>1. CASE Insert(p)
    BY <2>1, InsertStep
  <2>2. CASE LookupHit(p) \/ LookupRead(p) \/ LookupFill(p) \/ LookupMissing(p)
    BY <1>2, <2>2, LookupHitStep, LookupReadStep, LookupFillStep, LookupMissingStep
  <2>3. CASE Access(p) \/ CheckLimit(p) \/ RowGone(p) \/ UpdateCache(p)
    BY <1>2, <2>3, AccessStep, CheckLimitStep, RowGoneStep, UpdateCacheStep
  <2>4. CASE Update(p) \/ MakeAlias(p) \/ Delete(p) \/ Transfer(p) \/ Reassign(p)
    BY <1>2, <2>4, UpdateStep, MakeAliasStep, DeleteStep, TransferStep, ReassignStep
  <2>5. CASE ChangeShare(p) \/ ImportShare(p)
    BY <1>2, <2>5, ChangeShareStep, ImportShareStep
  <2> QED
    BY <1>3, <2>1, <2>2, <2>3, <2>4, <2>5 DEF Step
<1>4. ASSUME NEW p \in Procs, Abort(p)
      PROVE  IInv' /\ SightsAgree
  BY <1>2, <1>4, AbortStep
<1>5. ASSUME NEW p \in Procs, NEW r \in Requests, Begin(p, r)
      PROVE  IInv' /\ SightsAgree
  BY <1>2, <1>5, BeginStep
<1>6. ASSUME NEW n \in Names, Evict(n)
      PROVE  IInv' /\ SightsAgree
  BY <1>2, <1>6, EvictStep
<1> QED
  BY <1>1, <1>3, <1>4, <1>5, <1>6 DEF Next

LEMMA InitIInv == Init => IInv
<1> SUFFICES ASSUME Init PROVE IInv
  OBVIOUS
<1>1. proc = [p \in Procs |-> Idle]
  BY DEF Init
<1>2. TypeOK
  <2>1. nextId \in 1 .. MaxId + 1
    BY MaxIdAssumption DEF Init
  <2>2. proc \in [Procs -> ProcState]
    BY <1>1, IdleOK
  <2> QED
    BY <2>1, <2>2, EmptyTableType DEF Init, TypeOK
<1>3. StagesOK
  BY <1>1, IdleOK DEF StagesOK
<1>4. KnownIds
  <2>1. Idle.snap.id = 0 /\ Idle.got.id = 0
    BY NoLinkId DEF Idle
  <2>2. \A n \in Names : EmptyTable[n].id = 0
    BY NoLinkId DEF EmptyTable
  <2>3. links = EmptyTable /\ cache = EmptyTable /\ nextId = 1
    BY DEF Init
  <2> QED
    BY <1>1, <2>1, <2>2, <2>3 DEF KnownIds, Known
<1> QED
  BY <1>2, <1>3, <1>4 DEF IInv

LEMMA Invariance == Spec => []IInv
<1>1. IInv /\ [Next]_vars => IInv'
  BY NextStep
<1> QED
  BY <1>1, InitIInv, PTL DEF Spec

(* Type correctness of the service, for any requests in flight.            *)
THEOREM TypeCorrect == Spec => []TypeOK
<1>1. IInv => TypeOK
  BY DEF IInv
<1> QED
  BY <1>1, Invariance, PTL

(* No id ever denotes two names, whatever is deleted, re-created, cached   *)
(* and held by handlers in flight: invalidation by name reaches the entry  *)
(* of the row that was written by id.                                      *)
THEOREM IdsStayWithNames == Spec => []IdsDenoteNames
<1>1. Init => IdsDenoteNames
  <2> SUFFICES ASSUME Init, NEW n \in Names, NEW i \in Ids, Seen(n, i)
               PROVE  FALSE
    BY DEF IdsDenoteNames
  <2>1. links = EmptyTable /\ cache = EmptyTable /\ proc = [p \in Procs |-> Idle]
    BY DEF Init
  <2>2. EmptyTable[n].id = 0
    BY NoLinkId DEF EmptyTable
  <2> QED
    BY <2>1, <2>2, NoLinkId, IdleOK DEF Seen
<1>2. IInv /\ IdsDenoteNames /\ [Next]_vars => IdsDenoteNames'
  <2> SUFFICES ASSUME IInv, IdsDenoteNames, [Next]_vars
               PROVE  IdsDenoteNames'
    OBVIOUS
  <2>1. SightsAgree
    BY NextStep
  <2> QED
    BY <2>1 DEF IdsDenoteNames, SightsAgree
<1> QED
  BY <1>1, <1>2, Invariance, PTL DEF Spec

(* A link created later is shared with nobody, although shares written     *)
(* late to a deleted link stay in the table where it has no foreign key.   *)
THEOREM NewLinksUnshared == Spec => []FreshIdsUnshared
<1>1. Init => FreshIdsUnshared
  BY DEF Init, FreshIdsUnshared
<1>2. ASSUME IInv, FreshIdsUnshared, [Next]_vars
      PROVE  FreshIdsUnshared'
  <2>1. ASSUME nextId' = nextId \/ nextId' = nextId + 1,
               \A i \in Ids : shares'[i] # shares[i] => shares'[i] = {} \/ i < nextId
        PROVE  FreshIdsUnshared'
    BY <1>2, <2>1, NextIdPositive, MaxIdAssumption DEF FreshIdsUnshared, Ids
  <2>2. ASSUME NEW p \in Procs, ChangeShare(p)
        PROVE  FreshIdsUnshared'
    <3>0. /\ proc[p].pc = "write" /\ nextId' = nextId /\ proc[p].snap.id < nextId
          /\ shares \in Shares
      BY <1>2, <2>2, Unpack DEF ChangeShare, Stage
    <3>1. CASE /\ Req(p).op = "share"
               /\ shares' = WithShare(Snap(p).id, Req(p).to)
      <4>1. \A i \in Ids : shares'[i] # shares[i] => i = proc[p].snap.id
        BY <1>2, <3>0, <3>1, NamedUsers, WithShareType DEF Req, Snap
      <4> QED
        BY <2>1, <3>0, <4>1
    <3>2. CASE shares' = [shares EXCEPT ![Snap(p).id] = @ \ {Req(p).to}]
      <4>1. \A i \in Ids : shares'[i] # shares[i] => i = proc[p].snap.id
        BY <3>0, <3>2 DEF Shares, Snap
      <4> QED
        BY <2>1, <3>0, <4>1
    <3> QED
      BY <2>2, <3>1, <3>2 DEF ChangeShare
  <2>3. ASSUME NEW p \in Procs, ImportShare(p)
        PROVE  FreshIdsUnshared'
    <3>0. /\ proc[p].pc = "share" /\ nextId' = nextId /\ proc[p].got.id < nextId
          /\ shares' = WithShare(proc[p].got.id, proc[p].req.to)
      BY <1>2, <2>3, Unpack DEF ImportShare, Stage, Req
    <3>1. \A i \in Ids : shares'[i] # shares[i] => i = proc[p].got.id
      BY <1>2, <3>0, NamedUsers, WithShareType
    <3> QED
      BY <2>1, <3>0, <3>1
  <2>4. ASSUME NEW p \in Procs, Delete(p)
        PROVE  FreshIdsUnshared'
    <3>1. shares \in Shares /\ nextId' = nextId
      BY <1>2, <2>4, Unpack DEF Delete
    <3>2. \A i \in Ids : shares'[i] # shares[i] => shares'[i] = {}
      BY <2>4, <3>1 DEF Delete, Shares
    <3> QED
      BY <2>1, <3>1, <3>2
  <2>5. ASSUME NEW p \in Procs, Insert(p)
        PROVE  FreshIdsUnshared'
    <3>1. shares' = shares /\ (nextId' = nextId \/ nextId' = nextId + 1)
      BY <2>5 DEF Insert
    <3> QED
      BY <2>1, <3>1
  <2>6. CASE UNCHANGED <<shares, nextId>>
    BY <1>2, <2>6 DEF FreshIdsUnshared
  <2>7. ASSUME NEW p \in Procs, Step(p)
        PROVE  \/ UNCHANGED <<shares, nextId>>
               \/ ChangeShare(p) \/ ImportShare(p) \/ Delete(p) \/ Insert(p)
    BY <2>7 DEF Step, LookupHit, LookupRead, LookupFill, LookupMissing, Access,
                CheckLimit, RowGone, Update, MakeAlias, Transfer, Reassign, UpdateCache
  <2>8. \/ UNCHANGED <<shares, nextId>>
        \/ \E p \in Procs : Step(p)
    BY <1>2 DEF Next, vars, Abort, Begin, Evict
  <2> QED
    BY <2>2, <2>3, <2>4, <2>5, <2>6, <2>7, <2>8
<1> QED
  BY <1>1, <1>2, Invariance, PTL DEF Spec

(* A step that changes links is one of five statements of one handler.     *)
LEMMA LinksChangeBy ==
  ASSUME [Next]_vars, links' # links
  PROVE  \E p \in Procs :
           Insert(p) \/ Update(p) \/ MakeAlias(p) \/ Delete(p) \/ Transfer(p)
           \/ Reassign(p)
<1>1. \E p \in Procs : Step(p)
  BY DEF Next, vars, Abort, Begin, Evict
<1>2. ASSUME NEW p \in Procs, Step(p)
      PROVE  Insert(p) \/ Update(p) \/ MakeAlias(p) \/ Delete(p) \/ Transfer(p)
             \/ Reassign(p)
  BY <1>2 DEF Step, LookupHit, LookupRead, LookupFill, LookupMissing, Access,
              CheckLimit, RowGone, ChangeShare, ImportShare, UpdateCache
<1> QED
  BY <1>1, <1>2

(* What a statement of handler p may do to a row that is there: nothing,   *)
(* or something to the row the handler found, or to an alias of it when    *)
(* the link becomes an alias, or to a link of a reassigned owner.          *)
LEMMA RowChanges ==
  ASSUME IInv, IdsDenoteNames, NEW p \in Procs,
         Insert(p) \/ Update(p) \/ MakeAlias(p) \/ Delete(p) \/ Transfer(p)
           \/ Reassign(p),
         NEW n \in Names, Present(links[n]), links'[n] # links[n]
  PROVE  /\ proc[p].pc = "write"
         /\ \/ links[n].id = proc[p].snap.id
            \/ /\ Rewrites(proc[p]) /\ NewType(proc[p]) = "alias"
               /\ links[n].aliasTarget = proc[p].req.name
               /\ links'[n] = [links[n] EXCEPT !.aliasTarget = proc[p].goal]
            \/ /\ proc[p].req.op = "reassign"
               /\ links[n].owner = proc[p].req.from
         /\ \/ links'[n].id # links[n].id
            \/ links'[n].owner = links[n].owner
            \/ /\ proc[p].req.op \in {"transfer", "reassign"}
               /\ links'[n].owner = proc[p].req.to
<1> DEFINE s == proc[p]
<1>1. proc[p].pc = "write"
  BY DEF Insert, Update, MakeAlias, Delete, Transfer, Reassign, Stage
<1>2. links \in Table /\ s \in ProcState /\ s.req \in Request
  BY <1>1, Unpack, NamedUsers
<1>3. CASE Insert(p)
  <2>1. /\ ~Present(links[NewName(s)])
        /\ links' = [links EXCEPT ![NewName(s)] = NewRow(s)]
    BY <1>3 DEF Insert, InsertFails
  <2>2. n # NewName(s)
    BY <2>1
  <2> QED
    BY <1>2, <2>1, <2>2 DEF Table
<1>4. CASE Update(p)
  <2>1. /\ Rewrites(s)
        /\ links' = UpdateRow(links, s.snap.id, NewTarget(s), NewType(s), NewAuth(s))
    BY <1>4 DEF Update, Snap
  <2>2. s.snap.id \in Ids /\ s.snap \in Row
    BY <1>1, <2>1, Editing
  <2>3. NewTarget(s) \in Text /\ NewType(s) \in Types /\ NewAuth(s) \in BOOLEAN
    BY <1>2, <2>2, NewColumns
  <2> QED
    BY <1>1, <1>2, <2>1, <2>2, <2>3, UpdateRowType
<1>5. CASE MakeAlias(p)
  <2>1. /\ Rewrites(s) /\ NewType(s) = "alias" /\ HasId(links, s.snap.id)
        /\ links' = SetAlias(links, s.snap.id, s.goal, NewAuth(s))
    BY <1>5 DEF MakeAlias, Snap
  <2>2. s.snap.id \in Ids /\ s.snap \in Row /\ s.goal \in Text
    BY <1>1, <1>2, <2>1, Editing DEF ProcState
  <2>3. NewAuth(s) \in BOOLEAN
    BY <1>2, <2>2, NewColumns
  <2>4. NameOf(links, s.snap.id) = s.req.name
    <3>1. NameOf(links, s.snap.id) \in Names /\ links[NameOf(links, s.snap.id)].id = s.snap.id
      BY <1>2, <2>1, NameOfId
    <3>2. s.req.name \in Names
      BY <1>2 DEF Request
    <3>3. Seen(NameOf(links, s.snap.id), s.snap.id)
      BY <3>1 DEF Seen
    <3>4. Seen(s.req.name, s.snap.id)
      BY DEF Seen, Holds
    <3> QED
      BY <2>2, <3>1, <3>2, <3>3, <3>4 DEF IdsDenoteNames
  <2>5. /\ links'[n].owner = links[n].owner
        /\ \/ links[n].id = s.snap.id
           \/ /\ links[n].aliasTarget = s.req.name
              /\ links'[n] = [links[n] EXCEPT !.aliasTarget = s.goal]
    BY <1>2, <2>1, <2>2, <2>3, <2>4, SetAliasType
  <2> QED
    BY <1>1, <2>1, <2>5
<1>6. CASE Delete(p)
  <2>1. s.req.op \in {"delete", "uiDelete"} /\ links' = DeleteRow(links, s.snap.id)
    BY <1>6 DEF Delete, Snap, Req
  <2>2. s.snap.id \in Ids
    BY <1>1, <2>1, Editing DEF EditOps
  <2>3. links[n].id = s.snap.id /\ links'[n] = NoLink
    BY <1>2, <2>1, <2>2, DeleteRowType
  <2> QED
    BY <1>1, <2>2, <2>3, NoLinkId
<1>7. CASE Transfer(p)
  <2>1. /\ s.req.op = "transfer"
        /\ links' = TransferOwnership(links, s.snap.id, s.req.to)
    BY <1>7 DEF Transfer, Snap, Req
  <2>2. s.snap.id \in Ids /\ s.req.to \in Users
    BY <1>1, <2>1, Editing, NamedUsers DEF EditOps
  <2>3. links[n].id = s.snap.id /\ links'[n].owner = s.req.to
    BY <1>2, <2>1, <2>2, TransferType
  <2> QED
    BY <1>1, <2>1, <2>3
<1>8. CASE Reassign(p)
  <2>1. /\ s.req.op = "reassign"
        /\ links' = ReassignLinks(links, s.req.from, s.req.to)
    BY <1>8 DEF Reassign, Req
  <2>2. s.req.to \in Users
    BY <1>1, <2>1, NamedUsers
  <2>3. links[n].owner = s.req.from /\ links'[n].owner = s.req.to
    BY <1>2, <2>1, <2>2, ReassignType
  <2> QED
    BY <1>1, <2>1, <2>3
<1> QED
  BY <1>3, <1>4, <1>5, <1>6, <1>7, <1>8

(* A handler writes to no incarnation of a link but the one it looked up.  *)
THEOREM WritesOnlySeen == Spec => OnlySeenIncarnation
<1> DEFINE Only ==
      \A p \in Procs, n \in Names :
        /\ Stage(p) = "write" /\ proc'[p] # proc[p]
        /\ Present(links[n]) /\ links'[n] # links[n]
        => \/ links[n].id = Snap(p).id
           \/ Rewrites(proc[p]) /\ NewType(proc[p]) = "alias"
              /\ links[n].aliasTarget = Req(p).name
              /\ links'[n] = [links[n] EXCEPT !.aliasTarget = proc[p].goal]
           \/ Req(p).op = "reassign" /\ links[n].owner = Req(p).from
<1>1. ASSUME IInv, IdsDenoteNames, [Next]_vars
      PROVE  [Only]_vars
  <2> SUFFICES ASSUME NEW p \in Procs, NEW n \in Names,
                      Stage(p) = "write", proc'[p] # proc[p],
                      Present(links[n]), links'[n] # links[n]
               PROVE  \/ links[n].id = Snap(p).id
                      \/ /\ Rewrites(proc[p]) /\ NewType(proc[p]) = "alias"
                         /\ links[n].aliasTarget = Req(p).name
                         /\ links'[n] = [links[n] EXCEPT !.aliasTarget = proc[p].goal]
                      \/ Req(p).op = "reassign" /\ links[n].owner = Req(p).from
    OBVIOUS
  <2>1. PICK q \in Procs :
          Insert(q) \/ Update(q) \/ MakeAlias(q) \/ Delete(q) \/ Transfer(q) \/ Reassign(q)
    BY <1>1, LinksChangeBy
  <2>2. q = p
    <3>1. \E state : proc' = [proc EXCEPT ![q] = state]
      BY <2>1 DEF Insert, Update, MakeAlias, Delete, Transfer, Reassign,
                  Finish, GoTo, Become
    <3>2. proc \in [Procs -> ProcState]
      BY <1>1 DEF IInv, TypeOK
    <3> QED
      BY <3>1, <3>2
  <2> QED
    BY <1>1, <2>1, <2>2, RowChanges DEF Snap, Req
<1> QED
  BY <1>1, Invariance, IdsStayWithNames, PTL DEF Spec, OnlySeenIncarnation

(* Nothing but a transfer or a reassignment changes the owner of a link.   *)
THEOREM OwnersChangeByTransfer == Spec => OwnerChangesOnlyByTransfer
<1> DEFINE ByTransfer ==
      \A n \in Names :
        /\ Present(links[n]) /\ links'[n].id = links[n].id
        /\ links'[n].owner # links[n].owner
        => \E p \in Procs : /\ Stage(p) = "write"
                            /\ Req(p).op \in {"transfer", "reassign"}
                            /\ Req(p).to = links'[n].owner
<1>1. ASSUME IInv, IdsDenoteNames, [Next]_vars
      PROVE  [ByTransfer]_vars
  <2> SUFFICES ASSUME NEW n \in Names, Present(links[n]),
                      links'[n].id = links[n].id, links'[n].owner # links[n].owner
               PROVE  \E p \in Procs : /\ Stage(p) = "write"
                                       /\ Req(p).op \in {"transfer", "reassign"}
                                       /\ Req(p).to = links'[n].owner
    OBVIOUS
  <2>1. PICK p \in Procs :
          Insert(p) \/ Update(p) \/ MakeAlias(p) \/ Delete(p) \/ Transfer(p) \/ Reassign(p)
    BY <1>1, LinksChangeBy
  <2>2. /\ proc[p].pc = "write"
        /\ \/ links'[n].id # links[n].id
           \/ links'[n].owner = links[n].owner
           \/ /\ proc[p].req.op \in {"transfer", "reassign"}
              /\ links'[n].owner = proc[p].req.to
    BY <1>1, <2>1, RowChanges
  <2> QED
    BY <2>2 DEF Stage, Req
<1> QED
  BY <1>1, Invariance, IdsStayWithNames, PTL DEF Spec, OwnerChangesOnlyByTransfer

-----------------------------------------------------------------------------
(* One request at a time.                                                  *)

Coherent(t) == \A n \in Names : Present(t[n]) => t[n] = links[n]

PointedAt(text) == \E n \in Names : links[n].type = "alias" /\ links[n].aliasTarget = text

Converting(s) == s.req.op = "update" /\ NewType(s) = "alias"

(* The text resolved is there, and an alias only where an alias points to  *)
(* an alias already.                                                       *)
Resolved(text) ==
  /\ Present(RowOf(links, text))
  /\ RowOf(links, text).type = "alias" => PointedAt(text)

(* What a handler has read is still so.  A handler that has written and    *)
(* not yet invalidated is about to make the cache coherent.                *)
CacheOK(s) == Coherent(IF s.pc = "cache" THEN CacheAfterWrite(s) ELSE cache)

LocalsOK(s) ==
  /\ s.filling => s.got = links[Key(s)]
  /\ s.pc = "find" => ~Present(s.snap)
  /\ s.pc \in {"resolve", "canon", "access", "count", "write"} /\ Present(s.snap) =>
       links[s.req.name] = s.snap
  /\ s.pc = "canon" => PointedAt(s.goal)
  /\ s.pc \in {"resolve", "canon", "write"} /\ Converting(s) => s.goal # s.req.name
  /\ s.pc \in {"count", "write"} =>
       /\ Converting(s) => Resolved(s.goal)
       /\ s.req.op = "create" /\ s.req.type = "alias" => Resolved(s.goal)
       /\ s.req.op = "addAlias" => Present(s.snap) /\ s.snap.type # "alias"
  /\ s.req.op = "addAlias" => s.goal = s.req.name

SerialOK(s) == CacheOK(s) /\ LocalsOK(s)

SerialInv == \A p \in Procs : SerialOK(proc[p])

LEMMA IdleSerial == LocalsOK(Idle) /\ Idle.pc = "idle"
BY DEF LocalsOK, Idle, NoRequest

LEMMA LinksUnique ==
  ASSUME IInv, IdsDenoteNames, NEW m \in Names, NEW n \in Names,
         links[m].id = links[n].id, Present(links[m])
  PROVE  m = n
<1>1. links[m].id \in Ids
  <2>1. links[m] \in Row \cup {NoLink}
    BY DEF IInv, TypeOK, Table
  <2> QED
    BY <2>1, RowIds DEF Present
<1> QED
  BY <1>1 DEF IdsDenoteNames, Seen

(* A handler at the write that found a link: it is there under its name    *)
(* and nowhere else.                                                       *)
LEMMA FoundIsThere ==
  ASSUME IInv, IdsDenoteNames, NEW p \in Procs, LocalsOK(proc[p]), proc[p].pc = "write",
         proc[p].req.op \in EditOps \/ Rewrites(proc[p])
  PROVE  /\ proc[p].req.name \in Names /\ links[proc[p].req.name] = proc[p].snap
         /\ proc[p].snap \in Row /\ proc[p].snap.id \in Ids /\ Present(proc[p].snap)
         /\ proc[p].req \in Request /\ ~Inserts(proc[p])
         /\ \A n \in Names : links[n].id = proc[p].snap.id => n = proc[p].req.name
<1>1. /\ Present(proc[p].snap) /\ proc[p].snap \in Row /\ proc[p].snap.id \in Ids
      /\ ~Inserts(proc[p])
  BY Editing
<1>2. proc[p].req \in Request /\ proc[p].req.name \in Names
  BY NamedUsers DEF Request
<1>3. links[proc[p].req.name] = proc[p].snap
  BY <1>1 DEF LocalsOK
<1>4. \A n \in Names : links[n].id = proc[p].snap.id => n = proc[p].req.name
  BY <1>1, <1>2, <1>3, LinksUnique
<1> QED
  BY <1>1, <1>2, <1>3, <1>4

(* What a lookup that returned the row of the table leads to.              *)
LEMMA FoundLocals ==
  ASSUME NEW s \in ProcState, StageOK(s), LocalsOK(s), s.pc \in {"find", "resolve", "canon"},
         NEW row \in Row, Present(row), Key(s) \in Names, row = links[Key(s)]
  PROVE  LocalsOK(Found(s, row)) /\ Found(s, row).pc # "cache"
<1> DEFINE after == [s EXCEPT !.filling = FALSE, !.got = NoLink]
<1>0. s.req \in Request /\ s.req.op \in Ops
  BY DEF StageOK, Request
<1>1. CASE Found(s, row) = Idle
  BY <1>1, IdleSerial
<1>2. CASE s.pc = "find" /\ Found(s, row) # Idle
  <2>1. Key(s) = s.req.name
    BY <1>2 DEF Key
  <2>2. PICK pc \in {"count", "write", "access"} :
          /\ Found(s, row) = [after EXCEPT !.snap = row, !.pc = pc]
          /\ pc = "count" => s.req.op = "addAlias" /\ row.type # "alias"
          /\ pc = "write" => s.req.op = "import"
    BY <1>0, <1>2 DEF Found, FoundLink, StageOK, Ops, EditOps
  <2> DEFINE u == Found(s, row)
  <2>3. /\ u.pc = pc /\ u.req = s.req /\ u.snap = row /\ u.goal = s.goal
        /\ u.filling = FALSE
    BY <2>2 DEF ProcState
  <2> HIDE DEF u
  <2>4. pc \in {"count", "write"} => ~Converting(u) /\ u.req.op # "create"
    BY <2>2, <2>3 DEF Converting
  <2>5. LocalsOK(u) /\ u.pc # "cache"
    BY <2>1, <2>2, <2>3, <2>4 DEF LocalsOK
  <2> QED
    BY <2>5 DEF u
<1>3. CASE s.pc # "find" /\ Found(s, row) # Idle
  <2>1. Key(s) = s.goal /\ RowOf(links, s.goal) = row /\ s.req.op \in {"create", "update"}
    BY <1>3 DEF Key, RowOf, StageOK
  <2>2. CASE s.pc = "resolve" /\ row.type = "alias"
    <3>1. /\ Found(s, row) = [after EXCEPT !.goal = row.aliasTarget, !.pc = "canon"]
          /\ s.req.op = "update" => row.aliasTarget # s.req.name
      BY <1>3, <2>2 DEF Found, FoundTarget
    <3> DEFINE u == Found(s, row)
    <3>2. /\ u.pc = "canon" /\ u.req = s.req /\ u.snap = s.snap
          /\ u.goal = row.aliasTarget /\ u.filling = FALSE
      BY <3>1 DEF ProcState
    <3> HIDE DEF u
    <3>3. PointedAt(row.aliasTarget)
      BY <2>2 DEF PointedAt
    <3>4. Converting(u) => s.req.op = "update"
      BY <3>2 DEF Converting
    <3>5. Present(u.snap) => links[u.req.name] = u.snap
      BY <2>2, <3>2 DEF LocalsOK
    <3>6. LocalsOK(u) /\ u.pc # "cache"
      BY <2>1, <3>1, <3>2, <3>3, <3>4, <3>5 DEF LocalsOK
    <3> QED
      BY <3>6 DEF u
  <2>3. CASE ~(s.pc = "resolve" /\ row.type = "alias")
    <3> DEFINE pc == IF s.req.op = "create" THEN "count" ELSE "write"
    <3>1. Found(s, row) = [after EXCEPT !.pc = pc]
      BY <1>3, <2>3 DEF Found, FoundTarget
    <3> DEFINE u == Found(s, row)
    <3>2. /\ u.pc = pc /\ u.req = s.req /\ u.snap = s.snap
          /\ u.goal = s.goal /\ u.filling = FALSE
      BY <3>1 DEF ProcState
    <3> HIDE DEF u
    <3>3. Resolved(s.goal)
      BY <1>3, <2>1, <2>3 DEF Resolved, LocalsOK
    <3>4. Converting(u) <=> Converting(s)
      BY <3>2 DEF Converting, NewType, In
    <3>5. Present(u.snap) => links[u.req.name] = u.snap
      BY <1>3, <3>2 DEF LocalsOK
    <3>6. Converting(u) => u.goal # u.req.name
      BY <1>3, <3>2, <3>4 DEF LocalsOK
    <3>7. LocalsOK(u) /\ u.pc # "cache"
      BY <2>1, <3>2, <3>3, <3>5, <3>6 DEF LocalsOK
    <3> QED
      BY <3>7 DEF u
  <2> QED
    BY <2>2, <2>3
<1> QED
  BY <1>1, <1>2, <1>3

LEMMA AfterAccessLocals ==
  ASSUME NEW s \in ProcState, StageOK(s), LocalsOK(s), s.pc = "access"
  PROVE  LocalsOK(AfterAccess(s)) /\ AfterAccess(s).pc # "cache"
<1>0. /\ s.req.op \in EditOps /\ Present(s.snap) /\ ~s.filling
      /\ links[s.req.name] = s.snap
  BY DEF StageOK, LocalsOK
<1>1. CASE AfterAccess(s) = Idle
  BY <1>1, IdleSerial
<1>2. CASE AfterAccess(s) = [s EXCEPT !.pc = "write"] /\ ~Converting(s)
  <2> DEFINE u == AfterAccess(s)
  <2>1. /\ u.pc = "write" /\ u.req = s.req /\ u.snap = s.snap
        /\ u.goal = s.goal /\ u.filling = s.filling
    BY <1>2 DEF ProcState
  <2> HIDE DEF u
  <2>2. ~Converting(u)
    BY <1>2, <2>1 DEF Converting, NewType, In
  <2>3. LocalsOK(u) /\ u.pc # "cache"
    BY <1>0, <2>1, <2>2 DEF LocalsOK, EditOps
  <2> QED
    BY <2>3 DEF u
<1>3. CASE /\ AfterAccess(s) = [s EXCEPT !.goal = NewAlias(s), !.pc = "resolve"]
           /\ NewAlias(s) # s.req.name
  <2> DEFINE u == AfterAccess(s)
  <2>1. /\ u.pc = "resolve" /\ u.req = s.req /\ u.snap = s.snap
        /\ u.goal = NewAlias(s) /\ u.filling = s.filling
    BY <1>3 DEF ProcState
  <2> HIDE DEF u
  <2>3. LocalsOK(u) /\ u.pc # "cache"
    BY <1>0, <1>3, <2>1 DEF LocalsOK, EditOps
  <2> QED
    BY <2>3 DEF u
<1>4. CASE Converting(s)
  BY <1>1, <1>3, <1>4 DEF AfterAccess, Converting
<1>5. CASE ~Converting(s)
  BY <1>1, <1>2, <1>5 DEF AfterAccess, Converting
<1> QED
  BY <1>4, <1>5

(* A step of the only handler, with the tables as they are.                *)
LEMMA SerialMoves ==
  ASSUME IInv, NEW p \in Procs, NEW s, proc' = [proc EXCEPT ![p] = s],
         links' = links, Coherent(cache'), LocalsOK(s), s.pc # "cache"
  PROVE  SerialOK(proc[p])'
<1>1. proc'[p] = s
  BY DEF IInv, TypeOK
<1>2. CacheOK(proc[p])'
  BY <1>1 DEF CacheOK, Coherent
<1>3. LocalsOK(proc[p])'
  <2>1. \A text : RowOf(links, text)' = RowOf(links, text)
                  /\ (PointedAt(text)' <=> PointedAt(text))
                  /\ (Resolved(text)' <=> Resolved(text))
    BY DEF RowOf, PointedAt, Resolved
  <2>2. /\ Key(proc[p])' = Key(s) /\ (Converting(proc[p])' <=> Converting(s))
        /\ Key(proc'[p]) = Key(s) /\ (Converting(proc'[p]) <=> Converting(s))
    BY <1>1
  <2> QED
    BY <1>1, <2>1, <2>2 DEF LocalsOK
<1> QED
  BY <1>2, <1>3 DEF SerialOK

(* A step at a stage that reads: the cache is coherent before it.          *)
LEMMA CoherentNow ==
  ASSUME NEW p \in Procs, SerialOK(proc[p]), proc[p].pc # "cache"
  PROVE  Coherent(cache) /\ LocalsOK(proc[p])
BY DEF SerialOK, CacheOK

LEMMA FinishSerial ==
  ASSUME IInv, NEW p \in Procs, Finish(p), links' = links, Coherent(cache')
  PROVE  SerialOK(proc[p])'
<1>1. proc' = [proc EXCEPT ![p] = Idle]
  BY DEF Finish, Become
<1> QED
  BY <1>1, IdleSerial, SerialMoves

LEMMA BeginSerial ==
  ASSUME IInv, NEW p \in Procs, SerialOK(proc[p]), NEW r \in Requests, Begin(p, r)
  PROVE  SerialOK(proc[p])'
<1> DEFINE s == Started(r)
<1>1. /\ proc' = [proc EXCEPT ![p] = s] /\ links' = links /\ cache' = cache
      /\ proc[p].pc = "idle"
  BY DEF Begin, Become, Stage
<1>2. /\ s.pc = FirstStage(r) /\ s.req = r /\ s.snap = NoLink /\ s.filling = FALSE
      /\ s.goal = IF r.op = "addAlias" THEN r.name ELSE r.alias
  BY DEF Started
<1> HIDE DEF s
<1>3. /\ FirstStage(r) \in {"resolve", "write", "find"}
      /\ FirstStage(r) = "resolve" => r.op = "create"
      /\ FirstStage(r) = "write" =>
           r.op = "reassign" \/ (r.op = "create" /\ r.type # "alias")
  BY DEF FirstStage
<1>4. LocalsOK(s)
  BY <1>2, <1>3, NoLinkId DEF LocalsOK, Present, Converting
<1> QED
  BY <1>1, <1>2, <1>3, <1>4, CoherentNow, SerialMoves

LEMMA LookupSerial ==
  ASSUME IInv, NEW p \in Procs, SerialOK(proc[p]),
         LookupHit(p) \/ LookupRead(p) \/ LookupFill(p) \/ LookupMissing(p)
  PROVE  SerialOK(proc[p])'
<1> DEFINE s == proc[p]
           key == Key(proc[p])
<1>1. s \in ProcState /\ StageOK(s) /\ links \in Table /\ cache \in Table
  BY Unpack
<1>2. s.pc \in {"find", "resolve", "canon"} /\ links' = links
  BY <1>1 DEF LookupHit, LookupRead, LookupFill, LookupMissing, Looking, StageOK
<1>3. Coherent(cache) /\ LocalsOK(s)
  BY <1>2, CoherentNow
<1>4. ASSUME NEW row, row \in Row, Present(row), key \in Names, row = links[key],
             Become(p, Found(s, row)), Coherent(cache')
      PROVE  SerialOK(proc[p])'
  <2>1. LocalsOK(Found(s, row)) /\ Found(s, row).pc # "cache"
    BY <1>1, <1>2, <1>3, <1>4, FoundLocals
  <2> QED
    BY <1>2, <1>4, <2>1, SerialMoves DEF Become
<1>5. CASE LookupHit(p)
  <2> DEFINE row == RowOf(cache, key)
  <2>1. Present(row) /\ Become(p, Found(s, row)) /\ cache' = cache
    BY <1>5 DEF LookupHit
  <2>2. key \in Names /\ row = cache[key] /\ row \in Row
    <3>1. key \in Names /\ row = cache[key] /\ row \in Row \cup {NoLink}
      BY <1>1, <2>1, RowOfType
    <3> QED
      BY <2>1, <3>1, RowIds DEF Present
  <2>3. row = links[key] /\ Coherent(cache')
    BY <1>3, <2>1, <2>2 DEF Coherent
  <2> HIDE DEF row, key
  <2> QED
    BY <1>4, <2>1, <2>2, <2>3
<1>6. CASE LookupRead(p)
  <2> DEFINE row == RowOf(links, key)
             u == [s EXCEPT !.got = row, !.filling = TRUE]
  <2>1. /\ Present(row) /\ proc' = [proc EXCEPT ![p] = u] /\ cache' = cache
    BY <1>6 DEF LookupRead, Become
  <2>2. row = links[key]
    BY <1>1, <2>1, RowOfType
  <2> HIDE DEF row
  <2>3. /\ u.pc = s.pc /\ u.req = s.req /\ u.snap = s.snap /\ u.got = row
        /\ u.goal = s.goal
    BY <1>1 DEF ProcState
  <2> HIDE DEF u
  <2>4. Key(u) = key /\ (Converting(u) <=> Converting(s))
    BY <2>3 DEF Key, Converting, NewType, In
  <2>5. LocalsOK(u)
    BY <1>2, <1>3, <2>2, <2>3, <2>4 DEF LocalsOK
  <2> QED
    BY <1>2, <1>3, <2>1, <2>3, <2>5, SerialMoves
<1>7. CASE LookupFill(p)
  <2> DEFINE row == s.got
  <2>1. /\ s.filling /\ cache' = [cache EXCEPT ![key] = row] /\ Become(p, Found(s, row))
    BY <1>7 DEF LookupFill
  <2>2. /\ key \in Names /\ Present(row) /\ row \in Row \cup {NoLink}
        /\ row = links[key]
    BY <1>1, <1>3, <2>1 DEF StageOK, ProcState, LocalsOK
  <2>3. row \in Row
    BY <2>2, RowIds DEF Present
  <2> HIDE DEF row, key
  <2>4. Coherent(cache')
    BY <1>1, <1>3, <2>1, <2>2 DEF Coherent, Table
  <2> QED
    BY <1>4, <2>1, <2>2, <2>3, <2>4
<1>8. CASE LookupMissing(p)
  <2>1. cache' = cache
    BY <1>8 DEF LookupMissing
  <2>2. CASE Finish(p)
    BY <1>2, <1>3, <2>1, <2>2, FinishSerial
  <2>3. CASE s.req.op = "import" /\ GoTo(p, "write")
    <3> DEFINE u == [s EXCEPT !.pc = "write"]
    <3>1. proc' = [proc EXCEPT ![p] = u]
      BY <2>3 DEF GoTo, Become
    <3>2. /\ u.pc = "write" /\ u.req = s.req /\ u.snap = s.snap /\ u.goal = s.goal
          /\ u.filling = s.filling
      BY <1>1 DEF ProcState
    <3> HIDE DEF u
    <3>3. s.pc = "find" /\ ~s.filling
      BY <1>1, <1>2, <1>8, <2>3 DEF StageOK, LookupMissing, Looking
    <3>4. LocalsOK(u)
      BY <1>3, <2>3, <3>2, <3>3 DEF LocalsOK, Converting
    <3> QED
      BY <1>2, <1>3, <2>1, <3>1, <3>2, <3>4, SerialMoves
  <2> QED
    BY <1>8, <2>2, <2>3 DEF LookupMissing, Req
<1> QED
  BY <1>5, <1>6, <1>7, <1>8

LEMMA DecideSerial ==
  ASSUME IInv, NEW p \in Procs, SerialOK(proc[p]),
         Access(p) \/ CheckLimit(p) \/ RowGone(p) \/ ChangeShare(p) \/ ImportShare(p)
  PROVE  SerialOK(proc[p])'
<1> DEFINE s == proc[p]
<1>1. s \in ProcState /\ StageOK(s)
  BY Unpack
<1>2. s.pc \in {"access", "count", "write", "share"} /\ links' = links /\ cache' = cache
  BY DEF Access, CheckLimit, RowGone, ChangeShare, ImportShare, Stage
<1>3. Coherent(cache) /\ LocalsOK(s)
  BY <1>2, CoherentNow
<1>4. CASE Finish(p)
  BY <1>2, <1>3, <1>4, FinishSerial
<1>5. CASE Access(p)
  <2>1. Become(p, AfterAccess(s)) /\ s.pc = "access"
    BY <1>5 DEF Access, Stage
  <2>2. LocalsOK(AfterAccess(s)) /\ AfterAccess(s).pc # "cache"
    BY <1>1, <1>3, <2>1, AfterAccessLocals
  <2> QED
    BY <1>2, <1>3, <2>1, <2>2, SerialMoves DEF Become
<1>6. CASE s.pc = "count" /\ GoTo(p, "write")
  <2> DEFINE u == [s EXCEPT !.pc = "write"]
  <2>1. proc' = [proc EXCEPT ![p] = u]
    BY <1>6 DEF GoTo, Become
  <2>2. /\ u.pc = "write" /\ u.req = s.req /\ u.snap = s.snap /\ u.goal = s.goal
        /\ u.filling = s.filling
    BY <1>1 DEF ProcState
  <2> HIDE DEF u
  <2>3. s.req.op \in {"create", "addAlias"} /\ ~s.filling
    BY <1>1, <1>6 DEF StageOK
  <2>4. LocalsOK(u)
    BY <1>3, <1>6, <2>2, <2>3 DEF LocalsOK, Converting
  <2> QED
    BY <1>2, <1>3, <2>1, <2>2, <2>4, SerialMoves
<1> QED
  BY <1>4, <1>5, <1>6 DEF CheckLimit, RowGone, ChangeShare, ImportShare, Stage

(* A write that is followed by the invalidation it needs.                  *)
LEMMA WriteSerial ==
  ASSUME IInv, NEW p \in Procs, SerialOK(proc[p]), proc[p].pc = "write",
         NEW got, proc' = [proc EXCEPT ![p] = [proc[p] EXCEPT !.pc = "cache", !.got = got]],
         cache' = cache,
         Inserts(proc[p]) =>
           \A n \in Names : links'[n] = IF n = NewName(proc[p]) THEN got ELSE links[n],
         /\ ~Inserts(proc[p])
         /\ proc[p].req.op = "transfer" \/ (Rewrites(proc[p]) /\ NewType(proc[p]) # "alias")
         => \A n \in Names : n # proc[p].req.name => links'[n] = links[n]
  PROVE  SerialOK(proc[p])'
<1> DEFINE s == proc[p]
           u == [proc[p] EXCEPT !.pc = "cache", !.got = got]
<1>1. s \in ProcState /\ StageOK(s) /\ cache \in Table /\ proc \in [Procs -> ProcState]
  BY Unpack DEF IInv, TypeOK
<1>2. Coherent(cache) /\ LocalsOK(s)
  BY CoherentNow
<1>3. /\ u.pc = "cache" /\ u.req = s.req /\ u.snap = s.snap /\ u.goal = s.goal
      /\ u.filling = s.filling /\ u.got = got /\ proc'[p] = u
  BY <1>1 DEF ProcState
<1>4. ~s.filling /\ s.req.op \in Ops /\ s.req.name \in Names /\ NewName(s) \in Names
  BY <1>1, NewNameType DEF StageOK, Request
<1> HIDE DEF u
<1>5. /\ Inserts(u) <=> Inserts(s)
      /\ Rewrites(u) <=> Rewrites(s)
      /\ NewType(u) = NewType(s) /\ NewName(u) = NewName(s)
  BY <1>3 DEF Inserts, Rewrites, NewType, In, NewName
<1>6. LocalsOK(proc[p])'
  BY <1>2, <1>3, <1>4 DEF LocalsOK
<1> DEFINE after == CacheAfterWrite(u)
<1>7. after = CacheAfterWrite(proc[p])'
  BY <1>3 DEF CacheAfterWrite
<1>8. ASSUME NEW n \in Names, Present(after[n])
      PROVE  after[n] = links'[n]
  <2>1. CASE Inserts(s)
    <3>1. after = [cache EXCEPT ![NewName(s)] = got]
      BY <1>3, <1>5, <2>1 DEF CacheAfterWrite, Inserts, Rewrites
    <3>2. after[n] = IF n = NewName(s) THEN got ELSE cache[n]
      BY <1>1, <3>1 DEF Table
    <3> HIDE DEF after
    <3> QED
      BY <1>2, <1>8, <2>1, <3>2 DEF Coherent
  <2>2. CASE ~Inserts(s) /\ (s.req.op = "transfer" \/ (Rewrites(s) /\ NewType(s) # "alias"))
    <3>1. after = [cache EXCEPT ![s.req.name] = NoLink]
      BY <1>3, <1>5, <2>2 DEF CacheAfterWrite
    <3>2. after[n] = IF n = s.req.name THEN NoLink ELSE cache[n]
      BY <1>1, <3>1 DEF Table
    <3> HIDE DEF after
    <3>3. n # s.req.name /\ after[n] = cache[n]
      BY <1>8, <3>2, NoLinkId DEF Present
    <3>4. links'[n] = links[n]
      BY <2>2, <3>3
    <3> QED
      BY <1>2, <1>8, <3>3, <3>4 DEF Coherent
  <2>3. CASE ~Inserts(s) /\ ~(s.req.op = "transfer" \/ (Rewrites(s) /\ NewType(s) # "alias"))
    <3>1. after = EmptyTable
      BY <1>3, <1>5, <2>3 DEF CacheAfterWrite
    <3> QED
      BY <1>8, <3>1, NoLinkId DEF EmptyTable, Present
  <2> QED
    BY <2>1, <2>2, <2>3
<1> HIDE DEF after
<1>9. CacheOK(proc[p])'
  BY <1>3, <1>7, <1>8 DEF CacheOK, Coherent
<1> QED
  BY <1>6, <1>9 DEF SerialOK

LEMMA InsertSerial ==
  ASSUME IInv, NEW p \in Procs, SerialOK(proc[p]), Insert(p)
  PROVE  SerialOK(proc[p])'
<1> DEFINE s == proc[p]
           row == NewRow(s)
<1>1. s.pc = "write" /\ Inserts(s) /\ cache' = cache
  BY DEF Insert, Stage
<1>2. CASE Finish(p) /\ UNCHANGED links
  BY <1>1, <1>2, CoherentNow, FinishSerial
<1>3. CASE /\ links' = [links EXCEPT ![NewName(s)] = row]
           /\ Become(p, [s EXCEPT !.pc = "cache", !.got = row])
  <2>1. links \in Table
    BY Unpack
  <2> HIDE DEF row
  <2>2. \A n \in Names : links'[n] = IF n = NewName(s) THEN row ELSE links[n]
    BY <1>3, <2>1 DEF Table
  <2> QED
    BY <1>1, <1>3, <2>2, WriteSerial DEF Become
<1> QED
  BY <1>2, <1>3 DEF Insert

LEMMA EditSerial ==
  ASSUME IInv, IdsDenoteNames, NEW p \in Procs, SerialOK(proc[p]),
         Update(p) \/ MakeAlias(p) \/ Delete(p) \/ Transfer(p) \/ Reassign(p)
  PROVE  SerialOK(proc[p])'
<1> DEFINE s == proc[p]
<1>1. s.pc = "write" /\ cache' = cache /\ s \in ProcState
  BY Unpack DEF Update, MakeAlias, Delete, Transfer, Reassign, Stage
<1>2. LocalsOK(s) /\ links \in Table
  BY <1>1, CoherentNow, Unpack
<1>3. CASE MakeAlias(p) /\ Finish(p) /\ UNCHANGED links
  BY <1>1, <1>3, CoherentNow, FinishSerial
<1>4. ASSUME GoTo(p, "cache"), ~Inserts(s),
             s.req.op = "transfer" \/ (Rewrites(s) /\ NewType(s) # "alias") =>
               \A n \in Names : n # s.req.name => links'[n] = links[n]
      PROVE  SerialOK(proc[p])'
  <2>1. proc' = [proc EXCEPT ![p] = [s EXCEPT !.pc = "cache", !.got = s.got]]
    <3>1. [s EXCEPT !.pc = "cache", !.got = s.got] = [s EXCEPT !.pc = "cache"]
      BY <1>1 DEF ProcState
    <3> QED
      BY <1>4, <3>1 DEF GoTo, Become
  <2> QED
    BY <1>1, <1>4, <2>1, WriteSerial
<1>5. CASE Update(p)
  <2>1. /\ Rewrites(s) /\ GoTo(p, "cache")
        /\ links' = UpdateRow(links, s.snap.id, NewTarget(s), NewType(s), NewAuth(s))
    BY <1>5 DEF Update, Snap
  <2>2. /\ s.snap.id \in Ids /\ s.snap \in Row /\ ~Inserts(s) /\ s.req \in Request
        /\ \A n \in Names : links[n].id = s.snap.id => n = s.req.name
    BY <1>1, <1>2, <2>1, FoundIsThere
  <2>3. NewTarget(s) \in Text /\ NewType(s) \in Types /\ NewAuth(s) \in BOOLEAN
    BY <1>1, <2>2, NewColumns
  <2>4. \A n \in Names : links'[n] # links[n] => links[n].id = s.snap.id
    BY <1>2, <2>1, <2>2, <2>3, UpdateRowType
  <2> QED
    BY <1>4, <2>1, <2>2, <2>4
<1>6. CASE MakeAlias(p) /\ GoTo(p, "cache")
  <2>1. Rewrites(s) /\ NewType(s) = "alias"
    BY <1>6 DEF MakeAlias
  <2>2. ~Inserts(s) /\ s.req.op # "transfer"
    BY <1>1, <2>1, Editing DEF Rewrites
  <2> QED
    BY <1>4, <1>6, <2>1, <2>2
<1>7. CASE Delete(p) \/ Reassign(p)
  <2>1. GoTo(p, "cache") /\ s.req.op \in {"delete", "uiDelete", "reassign"}
    BY <1>7 DEF Delete, Reassign, Req
  <2>2. ~Inserts(s) /\ ~Rewrites(s)
    BY <2>1 DEF Inserts, Rewrites
  <2> QED
    BY <1>4, <2>1, <2>2
<1>8. CASE Transfer(p)
  <2>1. /\ GoTo(p, "cache") /\ s.req.op = "transfer"
        /\ links' = TransferOwnership(links, s.snap.id, s.req.to)
    BY <1>8 DEF Transfer, Req, Snap
  <2>2. /\ s.snap.id \in Ids /\ ~Inserts(s) /\ s.req.to \in Users
        /\ \A n \in Names : links[n].id = s.snap.id => n = s.req.name
    BY <1>1, <1>2, <2>1, FoundIsThere, NamedUsers DEF EditOps
  <2>3. \A n \in Names : links'[n] # links[n] => links[n].id = s.snap.id
    BY <1>2, <2>1, <2>2, TransferType
  <2> QED
    BY <1>4, <2>1, <2>2, <2>3
<1> QED
  BY <1>3, <1>5, <1>6, <1>7, <1>8 DEF MakeAlias

LEMMA UpdateCacheSerial ==
  ASSUME IInv, NEW p \in Procs, SerialOK(proc[p]), UpdateCache(p)
  PROVE  SerialOK(proc[p])'
<1> DEFINE s == proc[p]
<1>1. /\ s \in ProcState /\ StageOK(s) /\ s.pc = "cache" /\ links' = links
      /\ cache' = CacheAfterWrite(s)
  BY Unpack DEF UpdateCache, Stage
<1>2. Coherent(cache') /\ LocalsOK(s)
  BY <1>1 DEF SerialOK, CacheOK
<1>3. CASE Finish(p)
  BY <1>1, <1>2, <1>3, FinishSerial
<1>4. CASE GoTo(p, "share") /\ s.req.op = "import"
  <2> DEFINE u == [s EXCEPT !.pc = "share"]
  <2>1. proc' = [proc EXCEPT ![p] = u]
    BY <1>4 DEF GoTo, Become
  <2>2. u.pc = "share" /\ u.req = s.req /\ u.filling = s.filling
    BY <1>1 DEF ProcState
  <2> HIDE DEF u
  <2>3. ~s.filling
    BY <1>1 DEF StageOK
  <2>4. LocalsOK(u)
    BY <1>4, <2>2, <2>3 DEF LocalsOK
  <2> QED
    BY <1>1, <1>2, <2>1, <2>2, <2>4, SerialMoves
<1> QED
  BY <1>3, <1>4 DEF UpdateCache, Req

LEMMA EvictSerial ==
  ASSUME IInv, NEW p \in Procs, SerialOK(proc[p]), NEW n \in Names, Evict(n)
  PROVE  SerialOK(proc[p])'
<1> DEFINE s == proc[p]
<1>1. /\ links' = links /\ proc' = proc /\ cache' = [cache EXCEPT ![n] = NoLink]
      /\ cache \in Table
  BY Unpack DEF Evict
<1>2. \A m \in Names : cache'[m] = IF m = n THEN NoLink ELSE cache[m]
  BY <1>1 DEF Table
<1>3. LocalsOK(s)'
  BY <1>1 DEF SerialOK, LocalsOK, Converting, Resolved, PointedAt, RowOf
<1>4. CASE s.pc # "cache"
  <2>1. Coherent(cache)
    BY <1>4, CoherentNow
  <2>2. Coherent(cache)'
    BY <1>1, <1>2, <2>1, NoLinkId DEF Coherent, Present
  <2> QED
    BY <1>1, <1>3, <1>4, <2>2 DEF SerialOK, CacheOK, Coherent
<1>5. CASE s.pc = "cache"
  <2>1. Coherent(CacheAfterWrite(s))
    BY <1>5 DEF SerialOK, CacheOK
  <2>2. ASSUME NEW m \in Names, Present(CacheAfterWrite(s)'[m])
        PROVE  CacheAfterWrite(s)'[m] = links[m]
    <3>1. CASE Inserts(s)
      <4>1. /\ CacheAfterWrite(s) = [cache EXCEPT ![NewName(s)] = s.got]
            /\ CacheAfterWrite(s)' = [cache' EXCEPT ![NewName(s)] = s.got]
        BY <1>1, <3>1 DEF CacheAfterWrite, Inserts, Rewrites, NewName
      <4>2. /\ CacheAfterWrite(s)[m] = IF m = NewName(s) THEN s.got ELSE cache[m]
            /\ CacheAfterWrite(s)'[m] = IF m = NewName(s) THEN s.got ELSE cache'[m]
        BY <1>1, <4>1 DEF Table
      <4> QED
        BY <1>2, <2>1, <2>2, <4>2, NoLinkId DEF Coherent, Present
    <3>2. CASE ~Inserts(s) /\ (s.req.op = "transfer" \/ (Rewrites(s) /\ NewType(s) # "alias"))
      <4>1. /\ CacheAfterWrite(s) = [cache EXCEPT ![s.req.name] = NoLink]
            /\ CacheAfterWrite(s)' = [cache' EXCEPT ![s.req.name] = NoLink]
        BY <1>1, <3>2 DEF CacheAfterWrite, Inserts, Rewrites, NewType, In
      <4>2. /\ CacheAfterWrite(s)[m] = IF m = s.req.name THEN NoLink ELSE cache[m]
            /\ CacheAfterWrite(s)'[m] = IF m = s.req.name THEN NoLink ELSE cache'[m]
        BY <1>1, <4>1 DEF Table
      <4> QED
        BY <1>2, <2>1, <2>2, <4>2, NoLinkId DEF Coherent, Present
    <3>3. CASE ~Inserts(s) /\ ~(s.req.op = "transfer" \/ (Rewrites(s) /\ NewType(s) # "alias"))
      <4>1. CacheAfterWrite(s)' = EmptyTable
        BY <1>1, <3>3 DEF CacheAfterWrite, Inserts, Rewrites, NewType, In
      <4> QED
        BY <2>2, <4>1, NoLinkId DEF EmptyTable, Present
    <3> QED
      BY <3>1, <3>2, <3>3
  <2> QED
    BY <1>1, <1>3, <1>5, <2>2 DEF SerialOK, CacheOK, Coherent
<1> QED
  BY <1>4, <1>5

(* With one request at a time and none cut off.                            *)
LEMMA SerialStep ==
  ASSUME NEW p, Procs = {p}, ~Faults, IInv, IdsDenoteNames, SerialInv, [Next]_vars
  PROVE  SerialInv'
<1>0. p \in Procs /\ SerialOK(proc[p])
  BY DEF SerialInv
<1>1. CASE Step(p)
  BY <1>0, <1>1, LookupSerial, DecideSerial, InsertSerial, EditSerial, UpdateCacheSerial
     DEF Step, SerialInv
<1>2. ASSUME NEW r \in Requests, Begin(p, r) PROVE SerialInv'
  BY <1>0, <1>2, BeginSerial DEF SerialInv
<1>3. ASSUME NEW n \in Names, Evict(n) PROVE SerialInv'
  BY <1>0, <1>3, EvictSerial DEF SerialInv
<1>4. CASE UNCHANGED vars
  BY <1>4 DEF vars, SerialInv, SerialOK, CacheOK, LocalsOK, Coherent, CacheAfterWrite,
              Converting, Resolved, PointedAt, RowOf
<1> QED
  BY <1>1, <1>2, <1>3, <1>4 DEF Next, Abort

LEMMA SerialInvariance ==
  ASSUME NEW p, Procs = {p}, ~Faults
  PROVE  Spec => []SerialInv
<1>1. Init => SerialInv
  <2> SUFFICES ASSUME Init PROVE SerialOK(proc[p])
    BY DEF SerialInv
  <2>1. proc[p] = Idle /\ cache = EmptyTable
    BY DEF Init
  <2>2. Coherent(cache)
    BY <2>1, NoLinkId DEF Coherent, EmptyTable, Present
  <2> QED
    BY <2>1, <2>2, IdleSerial DEF SerialOK, CacheOK
<1>2. IInv /\ IdsDenoteNames /\ SerialInv /\ [Next]_vars => SerialInv'
  BY SerialStep
<1> QED
  BY <1>1, <1>2, Invariance, IdsStayWithNames, PTL DEF Spec

(* One request at a time, and none cut off: the invalidations of           *)
(* CachingLinkRepo (internal/db/cache.go) reach every entry a statement of *)
(* the handlers made stale, whatever the links, requests and evictions.    *)
THEOREM CacheStaysCoherent ==
  ASSUME NEW p, Procs = {p}, ~Faults
  PROVE  Spec => []CacheCoherent
<1>1. SerialInv => CacheCoherent
  BY DEF SerialInv, SerialOK, CacheOK, Coherent, CacheCoherent, Stage
<1> QED
  BY <1>1, SerialInvariance, PTL

(* What a PATCH does to the row it found: a field the mask leaves out      *)
(* keeps the value the handler read.                                       *)
LEMMA MaskedColumns ==
  ASSUME IInv, IdsDenoteNames, NEW p \in Procs, LocalsOK(proc[p]), proc[p].pc = "write",
         proc[p].req.op = "update", Update(p) \/ MakeAlias(p),
         NEW n \in Names, links'[n] # links[n], links[n].id = proc[p].snap.id
  PROVE  /\ In(proc[p], "auth") \/ links'[n].requireAuth = links[n].requireAuth
         /\ In(proc[p], "type") \/ links'[n].type = links[n].type
         /\ \/ In(proc[p], "target") \/ links'[n].type = "alias"
            \/ links'[n].target = links[n].target
<1> DEFINE s == proc[p]
<1>1. s \in ProcState /\ links \in Table /\ s.req \in Request
  BY Unpack, NamedUsers
<1>2. s.snap \in Row /\ s.snap.id \in Ids /\ links[n] = s.snap
  BY FoundIsThere DEF Rewrites
<1>3. NewTarget(s) \in Text /\ NewType(s) \in Types /\ NewAuth(s) \in BOOLEAN
  BY <1>1, <1>2, NewColumns
<1>4. /\ In(s, "auth") \/ NewAuth(s) = links[n].requireAuth
      /\ In(s, "type") \/ NewType(s) = links[n].type
      /\ In(s, "target") \/ NewTarget(s) = links[n].target
  BY <1>2 DEF NewAuth, NewType, NewTarget
<1>5. CASE Update(p)
  <2>1. links' = UpdateRow(links, s.snap.id, NewTarget(s), NewType(s), NewAuth(s))
    BY <1>5 DEF Update, Snap
  <2>2. /\ links'[n].target = NewTarget(s) /\ links'[n].type = NewType(s)
        /\ links'[n].requireAuth = NewAuth(s)
    BY <1>1, <1>2, <1>3, <2>1, UpdateRowRows
  <2> QED
    BY <1>4, <2>2
<1>6. CASE MakeAlias(p)
  <2>1. /\ NewType(s) = "alias"
        /\ links' = SetAlias(links, s.snap.id, s.goal, NewAuth(s))
    BY <1>6 DEF MakeAlias, Snap
  <2>2. /\ links'[n].type = "alias" /\ links'[n].requireAuth = NewAuth(s)
    <3>1. s.goal \in Text
      BY <1>1 DEF ProcState
    <3> QED
      BY <1>1, <1>2, <1>3, <2>1, <3>1, SetAliasRows
  <2> QED
    BY <1>4, <2>1, <2>2
<1> QED
  BY <1>5, <1>6

(* One request at a time: a PATCH (handleAPIUpdateLink) writes back, for   *)
(* the fields it omits, the values the row still has, whatever edits came  *)
(* before it.                                                              *)
THEOREM OmittedFieldsStay ==
  ASSUME NEW h, Procs = {h}, ~Faults
  PROVE  Spec => OmittedFieldsUnchanged
<1> DEFINE Masked ==
      \A p \in Procs, n \in Names :
        /\ Stage(p) = "write" /\ Req(p).op = "update"
        /\ links'[n] # links[n] /\ links[n].id = Snap(p).id
        => /\ In(proc[p], "auth") \/ links'[n].requireAuth = links[n].requireAuth
           /\ In(proc[p], "type") \/ links'[n].type = links[n].type
           /\ \/ In(proc[p], "target") \/ links'[n].type = "alias"
              \/ links'[n].target = links[n].target
<1>1. ASSUME IInv, IdsDenoteNames, SerialInv, [Next]_vars
      PROVE  [Masked]_vars
  <2> SUFFICES ASSUME NEW n \in Names, proc[h].pc = "write", proc[h].req.op = "update",
                      links'[n] # links[n], links[n].id = proc[h].snap.id
               PROVE  /\ In(proc[h], "auth") \/ links'[n].requireAuth = links[n].requireAuth
                      /\ In(proc[h], "type") \/ links'[n].type = links[n].type
                      /\ \/ In(proc[h], "target") \/ links'[n].type = "alias"
                         \/ links'[n].target = links[n].target
    BY DEF Stage, Req, Snap
  <2>1. PICK q \in Procs :
          Insert(q) \/ Update(q) \/ MakeAlias(q) \/ Delete(q) \/ Transfer(q) \/ Reassign(q)
    BY <1>1, LinksChangeBy
  <2>2. h \in Procs /\ q = h
    BY <2>1
  <2>3. Update(h) \/ MakeAlias(h)
    BY <2>1, <2>2 DEF Insert, Inserts, Delete, Transfer, Reassign, Req
  <2>4. LocalsOK(proc[h])
    BY <1>1, <2>2 DEF SerialInv, SerialOK
  <2> QED
    BY <1>1, <2>2, <2>3, <2>4, MaskedColumns
<1>2. Spec => []SerialInv
  BY SerialInvariance
<1> QED
  BY <1>1, <1>2, Invariance, IdsStayWithNames, PTL DEF Spec, OmittedFieldsUnchanged

-----------------------------------------------------------------------------
(* One hop, with one request at a time.                                    *)

Canonical(t, text) == Present(RowOf(t, text)) /\ RowOf(t, text).type # "alias"

AllOneHop == \A n \in Names : OneHop(n)

LEMMA OneHopIs ==
  /\ AllOneHop <=> \A n \in Names : links[n].type = "alias" =>
                                      Canonical(links, links[n].aliasTarget)
  /\ AllOneHop' <=> \A n \in Names : links'[n].type = "alias" =>
                                       Canonical(links', links'[n].aliasTarget)
BY DEF AllOneHop, OneHop, Canonical

(* Where every alias takes one hop, what was resolved is no alias.         *)
LEMMA ResolvedIsCanonical ==
  ASSUME AllOneHop, NEW text, Resolved(text)
  PROVE  Canonical(links, text)
BY DEF AllOneHop, OneHop, Resolved, PointedAt, Canonical

(* A statement that leaves every row where it is.                          *)
KeepsRows == \A n \in Names : Present(links[n]) => Present(links'[n])

(* A statement after which every alias was an alias of the same link.      *)
KeepsAliases ==
  \A n \in Names :
    links'[n].type = "alias" =>
      links[n].type = "alias" /\ links'[n].aliasTarget = links[n].aliasTarget

LEMMA KeepsOneHop ==
  ASSUME AllOneHop, KeepsRows, KeepsAliases
  PROVE  AllOneHop'
<1> USE DEF KeepsRows, KeepsAliases
<1>1. ASSUME NEW text, Canonical(links, text) PROVE Canonical(links', text)
  <2>1. text \in Names /\ Present(links[text]) /\ links[text].type # "alias"
    BY <1>1, NoLinkId DEF Canonical, RowOf, Present
  <2> QED
    BY <2>1 DEF Canonical, RowOf
<1> QED
  BY <1>1, OneHopIs

LEMMA InsertOneHop ==
  ASSUME IInv, NEW p \in Procs, LocalsOK(proc[p]), Insert(p), links' # links,
         proc[p].req.op # "import", AllOneHop
  PROVE  AllOneHop'
<1> DEFINE s == proc[p]
           name == NewName(s)
           row == NewRow(s)
<1>1. /\ s.pc = "write" /\ Inserts(s) /\ links' = [links EXCEPT ![name] = row]
      /\ ~Present(links[name])
  BY DEF Insert, InsertFails, Stage
<1>2. s \in ProcState /\ links \in Table /\ s.req \in Request /\ name \in Names
  BY <1>1, Unpack, NamedUsers, NewNameType
<1>3. s.req.op \in {"create", "addAlias"}
  BY <1>1 DEF Inserts
<1>4. row.type = "alias" => row.aliasTarget = s.goal /\ Canonical(links, s.goal)
  <2>1. CASE s.req.op = "create"
    <3>1. row.type = s.req.type /\ row.aliasTarget = s.goal
      BY <2>1 DEF NewRow
    <3> HIDE DEF row
    <3>2. s.req.type = "alias" => Resolved(s.goal)
      BY <1>1, <2>1 DEF LocalsOK
    <3> QED
      BY <3>1, <3>2, ResolvedIsCanonical
  <2>2. CASE s.req.op = "addAlias"
    <3>1. row.aliasTarget = s.goal
      BY <2>2 DEF NewRow
    <3> HIDE DEF row
    <3>2. /\ s.goal = s.req.name /\ s.req.name \in Names
          /\ Present(s.snap) /\ s.snap.type # "alias" /\ links[s.req.name] = s.snap
      BY <1>1, <1>2, <2>2 DEF LocalsOK, Request
    <3> QED
      BY <3>1, <3>2 DEF Canonical, RowOf
  <2> QED
    BY <1>3, <2>1, <2>2
<1> HIDE DEF row, name
<1>5. \A n \in Names : links'[n] = IF n = name THEN row ELSE links[n]
  BY <1>1, <1>2 DEF Table
<1>6. ASSUME NEW text, Canonical(links, text) PROVE Canonical(links', text)
  <2>1. text \in Names /\ Present(links[text]) /\ links[text].type # "alias"
    BY <1>6, NoLinkId DEF Canonical, RowOf, Present
  <2> QED
    BY <1>1, <1>5, <2>1 DEF Canonical, RowOf
<1> QED
  BY <1>4, <1>5, <1>6, OneHopIs

LEMMA UpdateKeeps ==
  ASSUME IInv, NEW p \in Procs, Update(p)
  PROVE  KeepsRows /\ KeepsAliases
<1> DEFINE s == proc[p]
<1>1. /\ s.pc = "write" /\ Rewrites(s) /\ NewType(s) # "alias"
      /\ links' = UpdateRow(links, s.snap.id, NewTarget(s), NewType(s), NewAuth(s))
  BY DEF Update, Snap, Stage
<1>2. s \in ProcState /\ links \in Table /\ s.req \in Request
  BY <1>1, Unpack, NamedUsers
<1>3. s.snap \in Row /\ s.snap.id \in Ids
  BY <1>1, Editing
<1>4. NewTarget(s) \in Text /\ NewType(s) \in Types /\ NewAuth(s) \in BOOLEAN
  BY <1>2, <1>3, NewColumns
<1>5. ASSUME NEW n \in Names
      PROVE  /\ Present(links[n]) => Present(links'[n])
             /\ links'[n].type = "alias" =>
                  links[n].type = "alias" /\ links'[n].aliasTarget = links[n].aliasTarget
  <2>1. links'[n].id = links[n].id
    BY <1>1, <1>2, <1>3, <1>4, UpdateRowType
  <2>2. /\ links[n].id = s.snap.id => links'[n].type = NewType(s)
        /\ links[n].id # s.snap.id => links'[n] = links[n]
    BY <1>1, <1>2, <1>3, <1>4, UpdateRowRows
  <2> QED
    BY <1>1, <2>1, <2>2 DEF Present
<1> QED
  BY <1>5 DEF KeepsRows, KeepsAliases

LEMMA OwnersKeep ==
  ASSUME IInv, NEW p \in Procs, Transfer(p) \/ Reassign(p)
  PROVE  KeepsRows /\ KeepsAliases
<1> DEFINE s == proc[p]
<1>1. links \in Table /\ s.pc = "write"
  BY Unpack DEF Transfer, Reassign, Stage
<1>2. \A n \in Names : /\ links'[n].id = links[n].id /\ links'[n].type = links[n].type
                       /\ links'[n].aliasTarget = links[n].aliasTarget
  <2>1. CASE Transfer(p)
    <3>1. /\ s.req.op = "transfer"
          /\ links' = TransferOwnership(links, s.snap.id, s.req.to)
      BY <2>1 DEF Transfer, Snap, Req
    <3>2. s.snap.id \in Ids /\ s.req.to \in Users
      BY <1>1, <3>1, Editing, NamedUsers DEF EditOps
    <3> QED
      BY <1>1, <3>1, <3>2, TransferType, OwnerRows
  <2>2. CASE Reassign(p)
    <3>1. /\ s.req.op = "reassign"
          /\ links' = ReassignLinks(links, s.req.from, s.req.to)
      BY <2>2 DEF Reassign, Req
    <3>2. s.req.to \in Users
      BY <1>1, <3>1, NamedUsers
    <3>3. \A n \in Names : links'[n].id = links[n].id
      BY <1>1, <3>1, <3>2, ReassignType
    <3>4. \A i \in Ids, n \in Names :
            /\ links'[n].type = links[n].type
            /\ links'[n].aliasTarget = links[n].aliasTarget
      BY <1>1, <3>1, <3>2, OwnerRows
    <3>5. ASSUME NEW n \in Names
          PROVE  links'[n].type = links[n].type /\ links'[n].aliasTarget = links[n].aliasTarget
      <4>1. CASE Present(links[n])
        <5>1. links[n] \in Row \cup {NoLink}
          BY <1>1 DEF Table
        <5>2. links[n].id \in Ids
          BY <4>1, <5>1, RowIds DEF Present
        <5> QED
          BY <3>4, <5>2
      <4>2. CASE ~Present(links[n])
        BY <3>1, <4>2 DEF ReassignLinks
      <4> QED
        BY <4>1, <4>2
    <3> QED
      BY <3>3, <3>5
  <2> QED
    BY <2>1, <2>2
<1> QED
  BY <1>2 DEF KeepsRows, KeepsAliases, Present

LEMMA MakeAliasOneHop ==
  ASSUME IInv, IdsDenoteNames, NEW p \in Procs, LocalsOK(proc[p]), MakeAlias(p),
         links' # links, proc[p].req.op # "import", AllOneHop
  PROVE  AllOneHop'
<1> DEFINE s == proc[p]
           own == s.req.name
<1>1. /\ s.pc = "write" /\ Rewrites(s) /\ NewType(s) = "alias" /\ HasId(links, s.snap.id)
      /\ links' = SetAlias(links, s.snap.id, s.goal, NewAuth(s))
  BY DEF MakeAlias, Snap, Stage
<1>2. /\ s \in ProcState /\ links \in Table /\ s.req \in Request /\ s.goal \in Text
      /\ own \in Names
  BY <1>1, Unpack, NamedUsers DEF ProcState, Request
<1>3. /\ s.snap \in Row /\ s.snap.id \in Ids
      /\ \A n \in Names : links[n].id = s.snap.id => n = own
  BY <1>1, FoundIsThere
<1>4. NewAuth(s) \in BOOLEAN
  BY <1>2, <1>3, NewColumns
<1>5. NameOf(links, s.snap.id) = own
  BY <1>1, <1>2, <1>3, NameOfId
<1>6. Converting(s) /\ s.goal # own /\ Canonical(links, s.goal)
  <2>1. Converting(s)
    BY <1>1 DEF Converting, Rewrites
  <2> QED
    BY <1>1, <2>1, ResolvedIsCanonical DEF LocalsOK
<1>7. ASSUME NEW n \in Names
      PROVE  /\ links'[n].id = links[n].id
             /\ n = own /\ links'[n].type = "alias" => links'[n].aliasTarget = s.goal
             /\ n # own => /\ links'[n].type = links[n].type
                           /\ \/ links'[n].aliasTarget = s.goal
                              \/ /\ links'[n].aliasTarget = links[n].aliasTarget
                                 /\ Present(links[n]) => links[n].aliasTarget # own
  <2>1. links'[n].id = links[n].id
    BY <1>1, <1>2, <1>3, <1>4, SetAliasType
  <2>2. /\ links[n].id = s.snap.id => links'[n].aliasTarget = s.goal
        /\ links[n].id # s.snap.id =>
             /\ links'[n].type = links[n].type
             /\ links'[n].aliasTarget =
                  IF Present(links[n]) /\ links[n].aliasTarget = own
                    THEN s.goal ELSE links[n].aliasTarget
    BY <1>1, <1>2, <1>3, <1>4, <1>5, SetAliasRows
  <2>3. links[n].id = s.snap.id <=> n = own
    BY <1>1, <1>3, <1>5, <1>2, NameOfId
  <2> QED
    BY <2>1, <2>2, <2>3
<1>8. ASSUME NEW text, Canonical(links, text), text # own PROVE Canonical(links', text)
  <2>1. text \in Names /\ Present(links[text]) /\ links[text].type # "alias"
    BY <1>8, NoLinkId DEF Canonical, RowOf, Present
  <2> QED
    BY <1>7, <1>8, <2>1 DEF Canonical, RowOf, Present
<1>9. ASSUME NEW n \in Names, links[n].type = "alias" PROVE Present(links[n])
  <2>1. links[n] \in Row \cup {NoLink}
    BY <1>2 DEF Table
  <2>2. NoLink.type # "alias"
    BY DEF NoLink
  <2> QED
    BY <1>9, <2>1, <2>2, RowIds DEF Present
<1>10. ASSUME NEW n \in Names, links'[n].type = "alias"
       PROVE  Canonical(links', links'[n].aliasTarget)
  <2>1. CASE links'[n].aliasTarget = s.goal
    BY <1>6, <1>8, <2>1
  <2>2. CASE links'[n].aliasTarget # s.goal
    <3>1. /\ n # own /\ links[n].type = "alias"
          /\ links'[n].aliasTarget = links[n].aliasTarget /\ links[n].aliasTarget # own
      BY <1>7, <1>9, <1>10, <2>2
    <3>2. Canonical(links, links[n].aliasTarget)
      BY <3>1, OneHopIs
    <3> QED
      BY <1>8, <3>1, <3>2
  <2> QED
    BY <2>1, <2>2
<1> QED
  BY <1>10, OneHopIs

(* One request at a time, the limit of one hop (resolveAliasTarget in      *)
(* internal/server/link_actions.go) survives every statement but deletions *)
(* and imports: an alias is created at what was resolved, and SetAlias     *)
(* (internal/db/link_repo.go) takes the aliases of what it converts along. *)
THEOREM OneHopStays ==
  ASSUME NEW h, Procs = {h}, ~Faults
  PROVE  Spec => AliasesStayOneHop
<1> DEFINE Kept ==
      (\A n \in Names : OneHop(n)) =>
         \/ (\A n \in Names : OneHop(n))'
         \/ \E p \in Procs : Stage(p) = "write"
                             /\ Req(p).op \in {"delete", "uiDelete", "import"}
<1>1. ASSUME IInv, IdsDenoteNames, SerialInv, [Next]_vars
      PROVE  [Kept]_vars
  <2> SUFFICES ASSUME AllOneHop,
                      ~(proc[h].pc = "write"
                        /\ proc[h].req.op \in {"delete", "uiDelete", "import"})
               PROVE  AllOneHop'
    BY DEF Stage, Req, AllOneHop
  <2>1. CASE links' = links
    BY <2>1 DEF AllOneHop, OneHop, RowOf
  <2>2. CASE links' # links
    <3>1. PICK p \in Procs :
            Insert(p) \/ Update(p) \/ MakeAlias(p) \/ Delete(p) \/ Transfer(p) \/ Reassign(p)
      BY <1>1, <2>2, LinksChangeBy
    <3>2. h \in Procs /\ p = h
      BY <3>1
    <3>3. LocalsOK(proc[h])
      BY <1>1, <3>2 DEF SerialInv, SerialOK
    <3>4. CASE Insert(h) \/ MakeAlias(h)
      <4>1. proc[h].req.op # "import"
        BY <3>4 DEF Insert, MakeAlias, Stage
      <4> QED
        BY <1>1, <2>2, <3>2, <3>3, <3>4, <4>1, InsertOneHop, MakeAliasOneHop
    <3>5. CASE Update(h) \/ Transfer(h) \/ Reassign(h)
      BY <1>1, <3>2, <3>5, UpdateKeeps, OwnersKeep, KeepsOneHop
    <3>6. ~Delete(h)
      BY DEF Delete, Stage, Req
    <3> QED
      BY <3>1, <3>2, <3>4, <3>5, <3>6
  <2> QED
    BY <2>1, <2>2
<1>2. Spec => []SerialInv
  BY SerialInvariance
<1> QED
  BY <1>1, <1>2, Invariance, IdsStayWithNames, PTL DEF Spec, AliasesStayOneHop

-----------------------------------------------------------------------------
(* The alias limit, with any number of requests at a time.                 *)

(* A finite union is no larger than its parts together.                    *)
LEMMA UnionBound ==
  ASSUME NEW S, NEW T, IsFiniteSet(S), IsFiniteSet(T)
  PROVE  /\ IsFiniteSet(S \cup T)
         /\ Cardinality(S \cup T) <= Cardinality(S) + Cardinality(T)
<1>1. /\ IsFiniteSet(S \cup T) /\ IsFiniteSet(S \cap T)
      /\ Cardinality(S \cup T) = Cardinality(S) + Cardinality(T) - Cardinality(S \cap T)
  BY FS_Union, FS_Intersection
<1>2. Cardinality(S) \in Nat /\ Cardinality(T) \in Nat /\ Cardinality(S \cap T) \in Nat
  BY <1>1, FS_CardinalityType
<1> QED
  BY <1>1, <1>2

LEMMA OneMore ==
  ASSUME NEW S, NEW x, IsFiniteSet(S)
  PROVE  /\ IsFiniteSet(S \cup {x})
         /\ Cardinality(S \cup {x}) <= Cardinality(S) + 1
<1>1. /\ IsFiniteSet(S \cup {x})
      /\ Cardinality(S \cup {x}) = IF x \in S THEN Cardinality(S) ELSE Cardinality(S) + 1
  BY FS_AddElement
<1>2. Cardinality(S) \in Nat
  BY FS_CardinalityType
<1> QED
  BY <1>1, <1>2

(* A table whose ids name one row each has finitely many rows.             *)
LEMMA FiniteRows ==
  ASSUME NEW t \in Table,
         \A m, n \in Names : Present(t[m]) /\ t[m].id = t[n].id => m = n
  PROVE  IsFiniteSet({n \in Names : Present(t[n])})
<1> DEFINE Rows == {n \in Names : Present(t[n])}
           id == [n \in Rows |-> t[n].id]
<1>1. IsFiniteSet(Ids)
  BY FS_Interval, MaxIdAssumption DEF Ids
<1>2. \A n \in Rows : t[n].id \in Ids
  BY RowIds DEF Table, Present
<1>3. id \in Injection(Rows, Ids)
  <2>1. id \in [Rows -> Ids]
    BY <1>2
  <2>2. \A m, n \in Rows : id[m] = id[n] => m = n
    OBVIOUS
  <2> QED
    BY <2>1, <2>2 DEF Injection, IsInjective
<1> HIDE DEF Rows, id
<1>4. IsFiniteSet(Rows)
  BY <1>1, <1>3, FS_Injection
<1> QED
  BY <1>4 DEF Rows

(* The rows that point at a text, aliases or not, and the aliases of it.   *)
Pointing(text) == {n \in Names : Present(links[n]) /\ links[n].aliasTarget = text}

LEMMA PointingFinite ==
  ASSUME IInv, IdsDenoteNames, NEW text
  PROVE  /\ IsFiniteSet(Pointing(text)) /\ AliasesOf(text) \subseteq Pointing(text)
         /\ IsFiniteSet(AliasesOf(text))
         /\ Cardinality(AliasesOf(text)) <= Cardinality(Pointing(text))
         /\ Cardinality(AliasesOf(text)) \in Nat /\ Cardinality(Pointing(text)) \in Nat
         /\ CountAliases(links, text) = Cardinality(Pointing(text))
<1>1. links \in Table
  BY DEF IInv, TypeOK
<1>2. IsFiniteSet({n \in Names : Present(links[n])})
  BY <1>1, LinksUnique, FiniteRows
<1>3. IsFiniteSet(Pointing(text))
  BY <1>2, FS_Subset DEF Pointing
<1>4. AliasesOf(text) \subseteq Pointing(text)
  <2>1. ASSUME NEW n \in Names, links[n].type = "alias" PROVE Present(links[n])
    <3>1. links[n] \in Row \cup {NoLink}
      BY <1>1 DEF Table
    <3>2. NoLink.type # "alias"
      BY DEF NoLink
    <3> QED
      BY <2>1, <3>1, <3>2, RowIds DEF Present
  <2> QED
    BY <2>1 DEF AliasesOf, Pointing
<1>5. IsFiniteSet(AliasesOf(text)) /\ Cardinality(AliasesOf(text)) <= Cardinality(Pointing(text))
  BY <1>3, <1>4, FS_Subset
<1>6. Cardinality(AliasesOf(text)) \in Nat /\ Cardinality(Pointing(text)) \in Nat
  BY <1>3, <1>5, FS_CardinalityType
<1>7. CountAliases(links, text) = Cardinality(Pointing(text))
  BY DEF CountAliases, Pointing
<1> QED
  BY <1>3, <1>4, <1>5, <1>6, <1>7

(* A handler that has passed the limit and is about to insert an alias.    *)
Adds(s) ==
  /\ s.pc = "write"
  /\ s.req.op = "addAlias" \/ (s.req.op = "create" /\ s.req.type = "alias")

Adding(text) == {p \in Procs : Adds(proc[p]) /\ proc[p].goal = text}

NoImports == \A p \in Procs : proc[p].req.op # "import"

(* LimitSlack is not inductive: it has to count the aliases on their way.  *)
LimitInv ==
  /\ NoImports
  /\ \A text \in Names :
       Cardinality(AliasesOf(text)) + Cardinality(Adding(text))
         <= MaxAliases + Cardinality(Procs) - 1

LEMMA AddingFinite ==
  ASSUME IsFiniteSet(Procs), NEW text
  PROVE  /\ IsFiniteSet(Adding(text)) /\ Cardinality(Adding(text)) \in Nat
         /\ Cardinality(Adding(text)) <= Cardinality(Procs)
         /\ Cardinality(Procs) \in Nat
<1>1. IsFiniteSet(Adding(text)) /\ Cardinality(Adding(text)) <= Cardinality(Procs)
  BY FS_Subset DEF Adding
<1> QED
  BY <1>1, FS_CardinalityType

(* A step of one handler.                                                  *)
LEMMA AddingAfter ==
  ASSUME IInv, NEW p \in Procs, NEW s, proc' = [proc EXCEPT ![p] = s], NEW text
  PROVE  /\ \A q \in Procs : q \in Adding(text)' <=>
              IF q = p THEN Adds(s) /\ s.goal = text ELSE q \in Adding(text)
         /\ Adding(text)' \subseteq Procs
         /\ NoImports /\ s.req.op # "import" => NoImports'
<1>1. proc \in [Procs -> ProcState]
  BY DEF IInv, TypeOK
<1>2. \A q \in Procs : proc'[q] = IF q = p THEN s ELSE proc[q]
  BY <1>1
<1>3. Adding(text)' = {q \in Procs : Adds(proc'[q]) /\ proc'[q].goal = text}
  BY DEF Adding, Adds
<1> QED
  BY <1>2, <1>3 DEF Adding, NoImports

(* A step that adds no alias and sends none on its way.                    *)
LEMMA LimitMoves ==
  ASSUME IsFiniteSet(Procs), IInv, IdsDenoteNames, LimitInv,
         NEW p \in Procs, NEW s, proc' = [proc EXCEPT ![p] = s],
         s.req.op # "import", ~Adds(s),
         \A text \in Names : AliasesOf(text)' \subseteq AliasesOf(text)
  PROVE  LimitInv'
<1>1. NoImports'
  BY AddingAfter DEF LimitInv
<1>2. ASSUME NEW text \in Names
      PROVE  Cardinality(AliasesOf(text)') + Cardinality(Adding(text)')
               <= MaxAliases + Cardinality(Procs) - 1
  <2>1. Adding(text)' \subseteq Adding(text)
    BY AddingAfter
  <2>2. /\ IsFiniteSet(Adding(text)')
        /\ Cardinality(Adding(text)') <= Cardinality(Adding(text))
    BY <2>1, AddingFinite, FS_Subset
  <2>3. /\ IsFiniteSet(AliasesOf(text)')
        /\ Cardinality(AliasesOf(text)') <= Cardinality(AliasesOf(text))
    BY PointingFinite, FS_Subset
  <2>4. Cardinality(Adding(text)') \in Nat /\ Cardinality(AliasesOf(text)') \in Nat
    BY <2>2, <2>3, FS_CardinalityType
  <2>5. Cardinality(AliasesOf(text)) + Cardinality(Adding(text))
          <= MaxAliases + Cardinality(Procs) - 1
    BY DEF LimitInv
  <2> QED
    BY <2>2, <2>3, <2>4, <2>5, AddingFinite, PointingFinite, ConfigAssumption
<1> QED
  BY <1>1, <1>2 DEF LimitInv

LEMMA KeepsAliasesOf ==
  ASSUME KeepsAliases
  PROVE  \A text : AliasesOf(text)' \subseteq AliasesOf(text)
BY DEF KeepsAliases, AliasesOf

(* What a lookup or the access check leads to inserts nothing: only an     *)
(* import goes from its lookup to an insertion.                            *)
LEMMA DecisionsAddNothing ==
  ASSUME NEW s \in ProcState, StageOK(s), s.req.op # "import"
  PROVE  /\ \A row : s.pc \in {"find", "resolve", "canon"} =>
              Found(s, row).req.op # "import" /\ ~Adds(Found(s, row))
         /\ s.pc = "access" =>
              AfterAccess(s).req.op # "import" /\ ~Adds(AfterAccess(s))
         /\ Idle.req.op # "import" /\ ~Adds(Idle)
<1>0. Idle.req.op # "import" /\ ~Adds(Idle)
  BY DEF Idle, NoRequest, Adds
<1> DEFINE after == [s EXCEPT !.filling = FALSE, !.got = NoLink]
<1>1. ASSUME NEW row, s.pc \in {"find", "resolve", "canon"}
      PROVE  Found(s, row).req.op # "import" /\ ~Adds(Found(s, row))
  <2>1. s.req.op \in Ops
    BY <1>1 DEF StageOK, Request
  <2>2. CASE Found(s, row) = Idle
    BY <1>0, <2>2
  <2>3. CASE s.pc = "find" /\ Found(s, row) # Idle
    <3>1. \E pc \in {"count", "access"} : Found(s, row) = [after EXCEPT !.snap = row, !.pc = pc]
      BY <2>1, <2>3 DEF Found, FoundLink, StageOK, Ops, EditOps
    <3>2. PICK pc \in {"count", "access"} : Found(s, row) = [after EXCEPT !.snap = row, !.pc = pc]
      BY <3>1
    <3>3. Found(s, row).pc = pc /\ Found(s, row).req = s.req
      BY <3>2 DEF ProcState
    <3> QED
      BY <3>3 DEF Adds
  <2>4. CASE s.pc # "find" /\ Found(s, row) # Idle
    <3>1. PICK pc \in {"count", "write", "canon"} :
            \E goal : /\ Found(s, row) = [after EXCEPT !.goal = goal, !.pc = pc]
                      /\ pc = "write" => s.req.op # "create"
      <4>1. after = [after EXCEPT !.goal = s.goal]
        BY DEF ProcState
      <4> QED
        BY <2>4, <4>1 DEF Found, FoundTarget
    <3>2. Found(s, row).pc = pc /\ Found(s, row).req = s.req
      BY <3>1 DEF ProcState
    <3>3. s.req.op \in {"create", "update"}
      BY <1>1, <2>4 DEF StageOK
    <3> QED
      BY <3>1, <3>2, <3>3 DEF Adds
  <2> QED
    BY <2>2, <2>3, <2>4
<1>2. ASSUME s.pc = "access"
      PROVE  AfterAccess(s).req.op # "import" /\ ~Adds(AfterAccess(s))
  <2>1. s.req.op \in EditOps
    BY <1>2 DEF StageOK
  <2>2. CASE AfterAccess(s) = Idle
    BY <1>0, <2>2
  <2>3. CASE AfterAccess(s) # Idle
    <3>1. \/ AfterAccess(s) = [s EXCEPT !.pc = "write"]
          \/ AfterAccess(s) = [s EXCEPT !.goal = NewAlias(s), !.pc = "resolve"]
      BY <2>3 DEF AfterAccess
    <3>2. AfterAccess(s).req = s.req
      BY <3>1 DEF ProcState
    <3> QED
      BY <2>1, <3>2 DEF Adds, EditOps
  <2> QED
    BY <2>2, <2>3
<1> QED
  BY <1>0, <1>1, <1>2

LEMMA QuietLimit ==
  ASSUME IsFiniteSet(Procs), IInv, IdsDenoteNames, LimitInv, NEW p \in Procs,
         \/ LookupHit(p) \/ LookupRead(p) \/ LookupFill(p) \/ LookupMissing(p)
         \/ Access(p) \/ RowGone(p) \/ ChangeShare(p) \/ UpdateCache(p) \/ ImportShare(p)
         \/ Abort(p)
  PROVE  LimitInv'
<1> DEFINE s == proc[p]
<1>1. /\ links' = links /\ s \in ProcState /\ StageOK(s) /\ s.req.op # "import"
  BY Unpack DEF LookupHit, LookupRead, LookupFill, LookupMissing, Access, RowGone,
                ChangeShare, UpdateCache, ImportShare, Abort, LimitInv, NoImports
<1>2. KeepsAliases
  BY <1>1 DEF KeepsAliases
<1>3. \A text \in Names : AliasesOf(text)' \subseteq AliasesOf(text)
  BY <1>2, KeepsAliasesOf
<1>4. ASSUME NEW u, Become(p, u), u.req.op # "import", ~Adds(u) PROVE LimitInv'
  BY <1>3, <1>4, LimitMoves DEF Become
<1>5. CASE Finish(p)
  BY <1>1, <1>4, <1>5, DecisionsAddNothing DEF Finish
<1>6. CASE LookupHit(p) \/ LookupFill(p)
  <2>1. PICK row : Become(p, Found(s, row))
    BY <1>6 DEF LookupHit, LookupFill
  <2>2. s.pc \in {"find", "resolve", "canon"}
    BY <1>1, <1>6 DEF LookupHit, LookupFill, Looking, StageOK
  <2> QED
    BY <1>1, <1>4, <2>1, <2>2, DecisionsAddNothing
<1>7. CASE LookupRead(p)
  <2> DEFINE u == [s EXCEPT !.got = RowOf(links, Key(s)), !.filling = TRUE]
  <2>1. Become(p, u) /\ s.pc \in {"find", "resolve", "canon"}
    BY <1>7 DEF LookupRead, Looking
  <2>2. u.pc = s.pc /\ u.req = s.req
    BY <1>1 DEF ProcState
  <2> HIDE DEF u
  <2> QED
    BY <1>1, <1>4, <2>1, <2>2 DEF Adds
<1>8. CASE Access(p)
  <2>1. Become(p, AfterAccess(s)) /\ s.pc = "access"
    BY <1>8 DEF Access, Stage
  <2> QED
    BY <1>1, <1>4, <2>1, DecisionsAddNothing
<1>9. CASE GoTo(p, "share")
  <2> DEFINE u == [s EXCEPT !.pc = "share"]
  <2>1. Become(p, u)
    BY <1>9 DEF GoTo
  <2>2. u.pc = "share" /\ u.req = s.req
    BY <1>1 DEF ProcState
  <2> HIDE DEF u
  <2> QED
    BY <1>1, <1>4, <2>1, <2>2 DEF Adds
<1>10. LookupMissing(p) => Finish(p)
  BY <1>1 DEF LookupMissing, Req
<1> QED
  BY <1>5, <1>6, <1>7, <1>8, <1>9, <1>10 DEF RowGone, ChangeShare, UpdateCache, ImportShare, Abort

LEMMA BeginLimit ==
  ASSUME IsFiniteSet(Procs), IInv, IdsDenoteNames, LimitInv, NEW p \in Procs,
         NEW r \in Requests, r.op # "import", Begin(p, r)
  PROVE  LimitInv'
<1> DEFINE u == Started(r)
<1>1. Become(p, u) /\ links' = links
  BY DEF Begin
<1>2. u.pc = FirstStage(r) /\ u.req = r
  BY DEF Started
<1> HIDE DEF u
<1>3. ~Adds(u)
  BY <1>2 DEF Adds, FirstStage
<1>4. KeepsAliases
  BY <1>1 DEF KeepsAliases
<1> QED
  BY <1>1, <1>2, <1>3, <1>4, KeepsAliasesOf, LimitMoves DEF Become

(* The check lets a handler through below the limit only: even if all the  *)
(* others are on their way as well, they are one less than all requests.   *)
LEMMA CheckLimitLimit ==
  ASSUME IsFiniteSet(Procs), IInv, IdsDenoteNames, LimitInv, NEW p \in Procs, CheckLimit(p)
  PROVE  LimitInv'
<1> DEFINE s == proc[p]
<1>1. /\ links' = links /\ s \in ProcState /\ StageOK(s) /\ s.req.op # "import"
  BY Unpack DEF CheckLimit, LimitInv, NoImports
<1>2. KeepsAliases
  BY <1>1 DEF KeepsAliases
<1>3. \A text \in Names : AliasesOf(text)' \subseteq AliasesOf(text)
  BY <1>2, KeepsAliasesOf
<1>4. CASE Finish(p)
  BY <1>1, <1>3, <1>4, DecisionsAddNothing, LimitMoves DEF Finish, Become
<1>5. CASE ~(CountAliases(links, s.goal) >= MaxAliases) /\ GoTo(p, "write")
  <2> DEFINE u == [s EXCEPT !.pc = "write"]
  <2>1. proc' = [proc EXCEPT ![p] = u]
    BY <1>5 DEF GoTo, Become
  <2>2. u.req = s.req /\ u.goal = s.goal
    BY <1>1 DEF ProcState
  <2> HIDE DEF u
  <2>3. NoImports'
    BY <1>1, <2>1, <2>2, AddingAfter DEF LimitInv
  <2>4. ASSUME NEW text \in Names
        PROVE  Cardinality(AliasesOf(text)') + Cardinality(Adding(text)')
                 <= MaxAliases + Cardinality(Procs) - 1
    <3>1. AliasesOf(text)' = AliasesOf(text)
      BY <1>1 DEF AliasesOf
    <3>2. CASE text = s.goal
      <4>1. Cardinality(AliasesOf(text)) < MaxAliases
        BY <1>5, <3>2, PointingFinite, ConfigAssumption
      <4>2. Adding(text)' \subseteq Procs
        BY <2>1, AddingAfter
      <4>3. /\ Cardinality(Adding(text)') <= Cardinality(Procs)
            /\ IsFiniteSet(Adding(text)')
        BY <4>2, FS_Subset
      <4>4. Cardinality(Adding(text)') \in Nat
        BY <4>3, FS_CardinalityType
      <4> QED
        BY <3>1, <4>1, <4>3, <4>4, AddingFinite, PointingFinite, ConfigAssumption
    <3>3. CASE text # s.goal
      <4>1. Adding(text)' \subseteq Adding(text)
        BY <2>1, <2>2, <3>3, AddingAfter
      <4>2. /\ IsFiniteSet(Adding(text)')
            /\ Cardinality(Adding(text)') <= Cardinality(Adding(text))
        BY <4>1, AddingFinite, FS_Subset
      <4>3. Cardinality(Adding(text)') \in Nat
        BY <4>2, FS_CardinalityType
      <4>4. Cardinality(AliasesOf(text)) + Cardinality(Adding(text))
              <= MaxAliases + Cardinality(Procs) - 1
        BY DEF LimitInv
      <4> QED
        BY <3>1, <4>2, <4>3, <4>4, AddingFinite, PointingFinite, ConfigAssumption
    <3> QED
      BY <3>2, <3>3
  <2> QED
    BY <2>3, <2>4 DEF LimitInv
<1> QED
  BY <1>4, <1>5 DEF CheckLimit

LEMMA InsertLimit ==
  ASSUME IsFiniteSet(Procs), IInv, IdsDenoteNames, LimitInv, NEW p \in Procs, Insert(p)
  PROVE  LimitInv'
<1> DEFINE s == proc[p]
           name == NewName(s)
           row == NewRow(s)
           u == [s EXCEPT !.pc = "cache", !.got = row]
<1>1. /\ s \in ProcState /\ StageOK(s) /\ s.req.op # "import" /\ s.pc = "write"
      /\ links \in Table /\ Inserts(s) /\ s.req \in Request
  BY Unpack, NamedUsers DEF Insert, LimitInv, NoImports, Stage
<1>2. CASE Finish(p) /\ UNCHANGED links
  <2>1. KeepsAliases
    BY <1>2 DEF KeepsAliases
  <2>2. \A text \in Names : AliasesOf(text)' \subseteq AliasesOf(text)
    BY <2>1, KeepsAliasesOf
  <2> QED
    BY <1>1, <1>2, <2>2, DecisionsAddNothing, LimitMoves DEF Finish, Become
<1>3. CASE /\ ~InsertFails(s) /\ links' = [links EXCEPT ![name] = row] /\ Become(p, u)
  <2>1. row.aliasTarget = s.goal /\ (row.type = "alias" => Adds(s))
    BY <1>1 DEF NewRow, Inserts, Adds
  <2>2. name \in Names
    BY <1>1, NewNameType
  <2>3. proc' = [proc EXCEPT ![p] = u]
    BY <1>3 DEF Become
  <2>4. u.pc = "cache" /\ u.req = s.req
    BY <1>1 DEF ProcState
  <2> HIDE DEF name, row, u
  <2>5. \A n \in Names : links'[n] = IF n = name THEN row ELSE links[n]
    BY <1>1, <1>3 DEF Table
  <2>6. NoImports'
    BY <1>1, <2>3, <2>4, AddingAfter DEF LimitInv
  <2>7. ASSUME NEW text \in Names
        PROVE  Cardinality(AliasesOf(text)') + Cardinality(Adding(text)')
                 <= MaxAliases + Cardinality(Procs) - 1
    <3>0. Cardinality(AliasesOf(text)) + Cardinality(Adding(text))
            <= MaxAliases + Cardinality(Procs) - 1
      BY DEF LimitInv
    <3>1. ~Adds(u)
      BY <2>4 DEF Adds
    <3>2. CASE row.type = "alias" /\ text = s.goal
      <4>1. AliasesOf(text)' \subseteq AliasesOf(text) \cup {name}
        BY <2>5 DEF AliasesOf
      <4>2. /\ IsFiniteSet(AliasesOf(text) \cup {name})
            /\ Cardinality(AliasesOf(text) \cup {name}) <= Cardinality(AliasesOf(text)) + 1
        BY PointingFinite, OneMore
      <4>3. /\ IsFiniteSet(AliasesOf(text)')
            /\ Cardinality(AliasesOf(text)') <= Cardinality(AliasesOf(text) \cup {name})
        BY <4>1, <4>2, FS_Subset
      <4>4. p \in Adding(text)
        BY <2>1, <3>2 DEF Adding
      <4>5. /\ IsFiniteSet(Adding(text) \ {p})
            /\ Cardinality(Adding(text) \ {p}) = Cardinality(Adding(text)) - 1
        BY <4>4, AddingFinite, FS_RemoveElement
      <4>6. /\ IsFiniteSet(Adding(text)')
            /\ Cardinality(Adding(text)') <= Cardinality(Adding(text) \ {p})
        <5>1. Adding(text)' \subseteq Adding(text) \ {p}
          BY <2>3, <3>1, AddingAfter
        <5> QED
          BY <4>5, <5>1, FS_Subset
      <4>7. /\ Cardinality(AliasesOf(text)') \in Nat /\ Cardinality(Adding(text)') \in Nat
            /\ Cardinality(AliasesOf(text) \cup {name}) \in Nat
        BY <4>2, <4>3, <4>6, FS_CardinalityType
      <4> QED
        BY <3>0, <4>2, <4>3, <4>5, <4>6, <4>7, AddingFinite, PointingFinite, ConfigAssumption
    <3>3. CASE ~(row.type = "alias" /\ text = s.goal)
      <4>1. AliasesOf(text)' \subseteq AliasesOf(text)
        BY <2>1, <2>5, <3>3 DEF AliasesOf
      <4>2. Adding(text)' \subseteq Adding(text)
        BY <2>3, <3>1, AddingAfter
      <4>3. /\ IsFiniteSet(AliasesOf(text)')
            /\ Cardinality(AliasesOf(text)') <= Cardinality(AliasesOf(text))
        BY <4>1, PointingFinite, FS_Subset
      <4>4. /\ IsFiniteSet(Adding(text)')
            /\ Cardinality(Adding(text)') <= Cardinality(Adding(text))
        BY <4>2, AddingFinite, FS_Subset
      <4>5. Cardinality(AliasesOf(text)') \in Nat /\ Cardinality(Adding(text)') \in Nat
        BY <4>3, <4>4, FS_CardinalityType
      <4> QED
        BY <3>0, <4>3, <4>4, <4>5, AddingFinite, PointingFinite, ConfigAssumption
    <3> QED
      BY <3>2, <3>3
  <2> QED
    BY <2>6, <2>7 DEF LimitInv
<1> QED
  BY <1>2, <1>3 DEF Insert

LEMMA EditLimit ==
  ASSUME IsFiniteSet(Procs), IInv, IdsDenoteNames, LimitInv, NEW p \in Procs,
         Update(p) \/ Delete(p) \/ Transfer(p) \/ Reassign(p)
  PROVE  LimitInv'
<1> DEFINE s == proc[p]
           u == [s EXCEPT !.pc = "cache"]
<1>1. /\ s \in ProcState /\ s.req.op # "import" /\ links \in Table
      /\ s.pc = "write" /\ proc' = [proc EXCEPT ![p] = u]
  BY Unpack DEF Update, Delete, Transfer, Reassign, LimitInv, NoImports, Stage, GoTo, Become
<1>2. u.pc = "cache" /\ u.req = s.req
  BY <1>1 DEF ProcState
<1> HIDE DEF u
<1>3. KeepsAliases
  <2>1. CASE Delete(p)
    <3>1. links' = DeleteRow(links, s.snap.id) /\ s.req.op \in {"delete", "uiDelete"}
      BY <2>1 DEF Delete, Snap, Req
    <3>2. \A n \in Names : links'[n] # links[n] => links'[n] = NoLink
      BY <3>1 DEF DeleteRow
    <3>3. NoLink.type # "alias"
      BY DEF NoLink
    <3> QED
      BY <3>2, <3>3 DEF KeepsAliases
  <2> QED
    BY <2>1, UpdateKeeps, OwnersKeep
<1>4. \A text \in Names : AliasesOf(text)' \subseteq AliasesOf(text)
  BY <1>3, KeepsAliasesOf
<1>5. ~Adds(u)
  BY <1>2 DEF Adds
<1> QED
  BY <1>1, <1>2, <1>4, <1>5, LimitMoves

(* SetAlias counts the rows that will point at the goal, all of them, in   *)
(* the transaction that makes them; the converting handler itself is not   *)
(* one of those on their way.                                              *)
LEMMA MakeAliasLimit ==
  ASSUME IsFiniteSet(Procs), IInv, IdsDenoteNames, LimitInv, NEW p \in Procs, MakeAlias(p)
  PROVE  LimitInv'
<1> DEFINE s == proc[p]
           own == NameOf(links, s.snap.id)
           u == [s EXCEPT !.pc = "cache"]
<1>1. /\ s \in ProcState /\ StageOK(s) /\ s.req.op # "import" /\ s.pc = "write"
      /\ links \in Table /\ Rewrites(s) /\ s.req \in Request /\ HasId(links, s.snap.id)
  BY Unpack, NamedUsers DEF MakeAlias, LimitInv, NoImports, Stage, Snap
<1>2. CASE Finish(p) /\ UNCHANGED links
  <2>1. KeepsAliases
    BY <1>2 DEF KeepsAliases
  <2>2. \A text \in Names : AliasesOf(text)' \subseteq AliasesOf(text)
    BY <2>1, KeepsAliasesOf
  <2> QED
    BY <1>1, <1>2, <2>2, DecisionsAddNothing, LimitMoves DEF Finish, Become
<1>3. CASE /\ ~AliasLimitExceeded(links, s.snap.id, s.goal, MaxAliases)
           /\ links' = SetAlias(links, s.snap.id, s.goal, NewAuth(s)) /\ GoTo(p, "cache")
  <2>1. s.snap \in Row /\ s.snap.id \in Ids /\ s.goal \in Text
    BY <1>1, Editing DEF ProcState
  <2>2. NewAuth(s) \in BOOLEAN
    BY <1>1, <2>1, NewColumns
  <2>3. own \in Names /\ links[own].id = s.snap.id
    BY <1>1, NameOfId
  <2>4. \A n \in Names : links[n].id = s.snap.id => n = own
    <3>1. Present(links[own])
      BY <2>1, <2>3, MaxIdAssumption DEF Present, Ids
    <3> QED
      BY <2>3, <3>1, LinksUnique
  <2>5. ASSUME NEW n \in Names, n # own
        PROVE  /\ links'[n].type = links[n].type
               /\ links'[n].aliasTarget =
                    IF Present(links[n]) /\ links[n].aliasTarget = own
                      THEN s.goal ELSE links[n].aliasTarget
    BY <1>1, <1>3, <2>1, <2>2, <2>4, <2>5, SetAliasRows
  <2>6. links'[own].aliasTarget = s.goal
    BY <1>1, <1>3, <2>1, <2>2, <2>3, SetAliasRows
  <2>7. proc' = [proc EXCEPT ![p] = u]
    BY <1>3 DEF GoTo, Become
  <2>8. u.pc = "cache" /\ u.req = s.req
    BY <1>1 DEF ProcState
  <2>9. /\ CountAliases(links, s.goal) = Cardinality(Pointing(s.goal))
        /\ CountAliases(links, own) = Cardinality(Pointing(own))
    BY PointingFinite
  <2>10. ~(Cardinality(Pointing(s.goal)) + Cardinality(Pointing(own)) + 1 > MaxAliases)
    BY <1>3, <2>9 DEF AliasLimitExceeded
  <2> HIDE DEF own, u
  <2>11. ~Adds(u)
    BY <2>8 DEF Adds
  <2>12. NoImports'
    BY <1>1, <2>7, <2>8, AddingAfter DEF LimitInv
  <2>13. ASSUME NEW n \in Names, links[n].type = "alias" PROVE Present(links[n])
    <3>1. links[n] \in Row \cup {NoLink}
      BY <1>1 DEF Table
    <3>2. NoLink.type # "alias"
      BY DEF NoLink
    <3> QED
      BY <2>13, <3>1, <3>2, RowIds DEF Present
  <2>14. ASSUME NEW text \in Names
         PROVE  Cardinality(AliasesOf(text)') + Cardinality(Adding(text)')
                  <= MaxAliases + Cardinality(Procs) - 1
    <3>1. CASE text = s.goal
      <4> DEFINE Both == Pointing(s.goal) \cup Pointing(own)
      <4>1. AliasesOf(text)' \subseteq Both \cup {own}
        BY <2>5, <2>13, <3>1 DEF AliasesOf, Pointing
      <4>2. /\ IsFiniteSet(Both)
            /\ Cardinality(Both) <= Cardinality(Pointing(s.goal)) + Cardinality(Pointing(own))
        BY PointingFinite, UnionBound
      <4> HIDE DEF Both
      <4>3. /\ IsFiniteSet(Both \cup {own})
            /\ Cardinality(Both \cup {own}) <= Cardinality(Both) + 1
        BY <4>2, OneMore
      <4>4. /\ IsFiniteSet(AliasesOf(text)')
            /\ Cardinality(AliasesOf(text)') <= Cardinality(Both \cup {own})
        BY <4>1, <4>3, FS_Subset
      <4>5. /\ Cardinality(AliasesOf(text)') \in Nat /\ Cardinality(Both) \in Nat
            /\ Cardinality(Both \cup {own}) \in Nat
        BY <4>2, <4>3, <4>4, FS_CardinalityType
      <4>6. /\ Cardinality(Pointing(s.goal)) \in Nat /\ Cardinality(Pointing(own)) \in Nat
        BY PointingFinite
      <4>7. Cardinality(AliasesOf(text)') <= MaxAliases
        BY <2>10, <4>2, <4>3, <4>4, <4>5, <4>6, ConfigAssumption
      <4>8. Adding(text)' \subseteq Procs \ {p}
        BY <2>7, <2>11, AddingAfter
      <4>9. /\ IsFiniteSet(Procs \ {p})
            /\ Cardinality(Procs \ {p}) = Cardinality(Procs) - 1
        BY FS_RemoveElement
      <4>10. /\ IsFiniteSet(Adding(text)')
             /\ Cardinality(Adding(text)') <= Cardinality(Procs \ {p})
        BY <4>8, <4>9, FS_Subset
      <4>11. Cardinality(Adding(text)') \in Nat
        BY <4>10, FS_CardinalityType
      <4> QED
        BY <4>5, <4>7, <4>9, <4>10, <4>11, AddingFinite, ConfigAssumption
    <3>2. CASE text # s.goal
      <4>1. AliasesOf(text)' \subseteq AliasesOf(text)
        BY <2>5, <2>6, <3>2 DEF AliasesOf
      <4>2. Adding(text)' \subseteq Adding(text)
        BY <2>7, <2>11, AddingAfter
      <4>3. /\ IsFiniteSet(AliasesOf(text)')
            /\ Cardinality(AliasesOf(text)') <= Cardinality(AliasesOf(text))
        BY <4>1, PointingFinite, FS_Subset
      <4>4. /\ IsFiniteSet(Adding(text)')
            /\ Cardinality(Adding(text)') <= Cardinality(Adding(text))
        BY <4>2, AddingFinite, FS_Subset
      <4>5. Cardinality(AliasesOf(text)') \in Nat /\ Cardinality(Adding(text)') \in Nat
        BY <4>3, <4>4, FS_CardinalityType
      <4>6. Cardinality(AliasesOf(text)) + Cardinality(Adding(text))
              <= MaxAliases + Cardinality(Procs) - 1
        BY DEF LimitInv
      <4> QED
        BY <4>3, <4>4, <4>5, <4>6, AddingFinite, PointingFinite, ConfigAssumption
    <3> QED
      BY <3>1, <3>2
  <2> QED
    BY <2>12, <2>14 DEF LimitInv
<1> QED
  BY <1>2, <1>3 DEF MakeAlias, Snap

LEMMA LimitStep ==
  ASSUME IsFiniteSet(Procs), \A r \in Requests : r.op # "import",
         IInv, IdsDenoteNames, LimitInv, [Next]_vars
  PROVE  LimitInv'
<1>1. ASSUME NEW p \in Procs, Step(p) \/ Abort(p) PROVE LimitInv'
  BY <1>1, QuietLimit, CheckLimitLimit, InsertLimit, EditLimit, MakeAliasLimit DEF Step
<1>2. ASSUME NEW p \in Procs, NEW r \in Requests, Begin(p, r) PROVE LimitInv'
  BY <1>2, BeginLimit
<1>3. CASE links' = links /\ proc' = proc
  BY <1>3 DEF LimitInv, NoImports, AliasesOf, Adding
<1> QED
  BY <1>1, <1>2, <1>3 DEF Next, Evict, vars

(* The alias limit (CountAliases read in one statement, the insertion made *)
(* by another) is overrun by no more than the other requests in flight,    *)
(* however many requests come and whichever of them are cut off.           *)
THEOREM LimitNearlyKept ==
  ASSUME IsFiniteSet(Procs), Procs # {}, \A r \in Requests : r.op # "import"
  PROVE  Spec => []LimitSlack
<1>1. ASSUME Init PROVE LimitInv
  <2>1. proc = [p \in Procs |-> Idle] /\ links = EmptyTable
    BY <1>1 DEF Init
  <2>2. NoImports /\ \A text : Adding(text) = {}
    BY <2>1 DEF Idle, NoRequest, NoImports, Adding, Adds
  <2>3. \A n \in Names : links[n].type # "alias"
    BY <2>1 DEF EmptyTable, NoLink
  <2>4. \A text : AliasesOf(text) = {}
    BY <2>3 DEF AliasesOf
  <2>5. Cardinality({}) = 0 /\ Cardinality(Procs) \in Nat /\ Cardinality(Procs) # 0
    BY FS_EmptySet, FS_CardinalityType
  <2>6. \A text : Cardinality(AliasesOf(text)) = 0 /\ Cardinality(Adding(text)) = 0
    BY <2>2, <2>4, <2>5
  <2> QED
    BY <2>2, <2>5, <2>6, ConfigAssumption DEF LimitInv
<1>2. IInv /\ IdsDenoteNames /\ LimitInv /\ [Next]_vars => LimitInv'
  BY LimitStep
<1>3. IInv /\ IdsDenoteNames /\ LimitInv => LimitSlack
  <2> SUFFICES ASSUME IInv, IdsDenoteNames, LimitInv, NEW text \in Names
               PROVE  Cardinality(AliasesOf(text)) <= MaxAliases + Cardinality(Procs) - 1
    BY DEF LimitSlack
  <2>1. Cardinality(AliasesOf(text)) + Cardinality(Adding(text))
          <= MaxAliases + Cardinality(Procs) - 1
    BY DEF LimitInv
  <2> QED
    BY <2>1, AddingFinite, PointingFinite, ConfigAssumption
<1> QED
  BY <1>1, <1>2, <1>3, Invariance, IdsStayWithNames, PTL DEF Spec
=============================================================================
