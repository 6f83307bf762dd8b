------------------------------ MODULE StatLedger ------------------------------
(***************************************************************************)
(* What a best-effort statistics counter promises, without saying how:     *)
(* uses are accepted one at a time; accepted uses are later settled in     *)
(* batches, a batch either reaching the durable count or being dropped;    *)
(* and nothing is ever settled that was not accepted, or settled twice.    *)
(***************************************************************************)
EXTENDS Naturals

CONSTANT Links

VARIABLES
  accepted,  (* uses reported per link                                     *)
  durable,   (* uses that reached the durable count                        *)
  dropped    (* uses given up                                              *)

ledger == <<accepted, durable, dropped>>

Init ==
  /\ accepted = [l \in Links |-> 0]
  /\ durable = [l \in Links |-> 0]
  /\ dropped = [l \in Links |-> 0]

Accept(l) ==
  /\ accepted' = [accepted EXCEPT ![l] = @ + 1]
  /\ UNCHANGED <<durable, dropped>>

Persist(l) ==
  /\ \E k \in 1 .. accepted[l] - (durable[l] + dropped[l]) :
       durable' = [durable EXCEPT ![l] = @ + k]
  /\ UNCHANGED <<accepted, dropped>>

Drop(l) ==
  /\ \E k \in 1 .. accepted[l] - (durable[l] + dropped[l]) :
       dropped' = [dropped EXCEPT ![l] = @ + k]
  /\ UNCHANGED <<accepted, durable>>

Next == \E l \in Links : Accept(l) \/ Persist(l) \/ Drop(l)

Spec == Init /\ [][Next]_ledger
=============================================================================
