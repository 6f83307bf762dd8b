------------------------------ MODULE MC_Redirect ------------------------------
(* Targets, templates, configurations and writes for checking Redirect.    *)
EXTENDS Redirect

CONSTANTS a, b, ann, plain, inside, joined

good == <<"good">>

(* A plain URL, a template that goes below a static host and one that      *)
(* grows its host.                                                         *)
Bodies == [u \in {plain, inside, joined} |->
             CASE u = plain -> <<Scheme, "good", Separator>>
               [] u = inside -> <<Scheme, "good", Separator, Action>>
               [] u = joined -> <<Scheme, "good", Action>>]

Expansions == {<<>>, <<Separator>>, <<".", "bad", Separator>>, <<Broken>>}

Alone == [globalAuth |-> FALSE, oidc |-> TRUE, canonical |-> TRUE, advanced |-> TRUE,
          patterns |-> {[wildcard |-> FALSE, host |-> good]}]
Strict == [globalAuth |-> TRUE, oidc |-> FALSE, canonical |-> FALSE, advanced |-> FALSE,
           patterns |-> {}]

Configurations == {Alone, Strict}

Visitors == {[identified |-> TRUE, canonical |-> TRUE],
             [identified |-> FALSE, canonical |-> FALSE]}

W(op, n, type, target, alias, auth) ==
  [op |-> op, name |-> n, type |-> type, target |-> target, alias |-> alias,
   auth |-> auth, owner |-> ann]

Statements ==
  {W("create", a, "simple", plain, "", FALSE),
   W("importUpdate", a, "advanced", joined, "", FALSE),
   W("update", a, "advanced", inside, "", FALSE),
   W("create", b, "alias", "", a, TRUE),
   W("alias", b, "alias", "", a, TRUE),
   W("update", b, "simple", "", "", FALSE),
   W("delete", a, "simple", "", "", FALSE)}
====
