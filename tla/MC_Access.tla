-------------------------------- MODULE MC_Access --------------------------------
(* Requests for model checking Access.                                     *)
EXTENDS Access, TLC

CONSTANTS r1, r2

Page(op) == [op |-> op, ui |-> TRUE, peer |-> FALSE, key |-> "", id |-> 0,
             readOnly |-> FALSE]
Api(op, raw) == [Page(op) EXCEPT !.ui = FALSE, !.key = raw]

(* Keys of both kinds are made on a page or with a key, used to read, to   *)
(* write and to export, also by an administrator behind the proxy, and     *)
(* deleted.                                                                *)
KeyRequests ==
  {[Page("createKey") EXCEPT !.readOnly = TRUE], Api("createKey", r1),
   [Page("deleteKey") EXCEPT !.id = 1],
   [Api("deleteKey", r2) EXCEPT !.id = 2, !.peer = TRUE],
   Api("read", r1), Api("write", r2), [Api("write", r1) EXCEPT !.peer = TRUE],
   [Api("export", "") EXCEPT !.peer = TRUE]}

Sym == Permutations(Procs)
=============================================================================
