-------------------------------- MODULE MC_Visit --------------------------------
(* Configurations and addresses for checking Visit.                        *)
EXTENDS Visit

C(canonical, trusted, oidc, header) ==
  [canonical |-> canonical, trusted |-> trusted, oidc |-> oidc, header |-> header]

(* The canonical address is https behind a trusted proxy, or behind one    *)
(* that is not trusted, or it is http, or there is none.                   *)
Configurations ==
  {C("https", TRUE, TRUE, FALSE), C("https", TRUE, FALSE, TRUE),
   C("https", FALSE, TRUE, FALSE),
   C("http", FALSE, FALSE, TRUE), C("http", FALSE, TRUE, FALSE),
   C("none", FALSE, FALSE, TRUE)}

U(scheme, host, path) == [scheme |-> scheme, host |-> host, path |-> path]

(* Under go/ and under https://go.example.com/.                            *)
Addresses ==
  {U("http", "short", path) : path \in {"private", "escaped", "details"}}
  \cup {U("https", "canonical", "missing")}
====
