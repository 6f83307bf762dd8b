---------------------------- MODULE MC_LinkService ----------------------------
(* Request sets for model checking LinkService.                            *)
EXTENDS LinkService, TLC

CONSTANTS a, b, c, d, u, v, ann, bob, root

Blank == [op |-> "read", user |-> ann, name |-> a, type |-> "simple",
          target |-> u, alias |-> "", auth |-> FALSE, to |-> "", from |-> "",
          mask |-> Fields]

Sym == Permutations(Procs)

(* Create, edit, delete, share and give away one link, by two owners, and  *)
(* create and delete a second one.                                         *)
RaceRequests ==
  {[Blank EXCEPT !.op = "create"],
   [Blank EXCEPT !.op = "create", !.user = bob],
   [Blank EXCEPT !.op = "create", !.name = b],
   [Blank EXCEPT !.op = "addAlias", !.alias = b],
   [Blank EXCEPT !.op = "delete"],
   [Blank EXCEPT !.op = "delete", !.name = b],
   [Blank EXCEPT !.name = b],
   [Blank EXCEPT !.op = "update", !.user = bob, !.target = v],
   [Blank EXCEPT !.op = "uiDelete", !.user = bob],
   [Blank EXCEPT !.op = "share", !.to = bob],
   [Blank EXCEPT !.op = "unshare", !.to = bob],
   [Blank EXCEPT !.op = "transfer", !.to = bob],
   [Blank EXCEPT !.op = "transfer"],
   [Blank EXCEPT !.op = "reassign", !.user = root, !.from = bob, !.to = ann]}

Simple(n) == [Blank EXCEPT !.op = "create", !.name = n]
AliasOf(n, m) == [Blank EXCEPT !.op = "create", !.name = n, !.type = "alias",
                    !.target = "", !.alias = m]
AddAlias(n, m) == [Blank EXCEPT !.op = "addAlias", !.name = n, !.alias = m]
Convert(n, m) == [Blank EXCEPT !.op = "update", !.name = n, !.type = "alias",
                    !.target = "", !.alias = m]
Patch(n, fields) == [Blank EXCEPT !.op = "update", !.name = n, !.target = v,
                       !.auth = TRUE, !.mask = fields]

(* Every handler, over three links.                                        *)
AllRequests ==
  {Simple(n) : n \in {a, b}}
  \cup {[Simple(b) EXCEPT !.type = "advanced", !.auth = TRUE],
        AliasOf(c, a), AddAlias(b, c), Convert(a, b), Convert(b, a),
        Patch(a, {"target"}), Patch(b, {"auth"}), Patch(c, {"type"})}
  \cup {[Blank EXCEPT !.op = "read", !.name = c],
        [Blank EXCEPT !.op = "delete", !.name = b],
        [Blank EXCEPT !.op = "uiDelete", !.name = c, !.user = bob],
        [Blank EXCEPT !.op = "transfer", !.to = bob],
        [Blank EXCEPT !.op = "share", !.to = bob],
        [Blank EXCEPT !.op = "unshare", !.to = bob],
        [Blank EXCEPT !.op = "reassign", !.user = root, !.from = bob, !.to = ann],
        [Blank EXCEPT !.op = "import", !.user = root, !.name = c,
                      !.from = bob, !.to = ann],
        [Blank EXCEPT !.op = "import", !.user = root, !.type = "alias",
                      !.target = "", !.alias = c, !.auth = TRUE]}

(* Everything that can add an alias to a link, racing, and a deletion.     *)
LimitRequests ==
  {Simple(a), Simple(d), AddAlias(a, b), AddAlias(a, c), AliasOf(b, a), Convert(d, a),
   [Blank EXCEPT !.op = "delete", !.name = b]}

(* Two links, either of which is converted into an alias of the other.     *)
LoopRequests == {Simple(a), Simple(b), Convert(a, b), Convert(b, a)}

(* What looks at aliases while a link may be an alias of itself.           *)
AnswerRequests == LoopRequests \cup {AliasOf(b, a), [Blank EXCEPT !.name = b]}

====
