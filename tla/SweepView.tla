----------------------------- MODULE SweepView ------------------------------
(***************************************************************************)
(* What a campaign (sweep/engine.py) is to who reads its files, however    *)
(* often it stops and is run again: a repository has no result and then    *)
(* one, which stays; and the report is, each time it is written, what the  *)
(* result files say at that moment, if all of them can be parsed.          *)
(***************************************************************************)
CONSTANTS Repo,
          Result,     \* what a result file may hold
          None,       \* there is none
          Torn        \* a file that was cut short

VARIABLES results, report

campaignVars == <<results, report>>

Init == results = [r \in Repo |-> None] /\ report = None

Settle == \E r \in Repo, res \in Result :
  /\ results[r] = None /\ results' = [results EXCEPT ![r] = res]
  /\ UNCHANGED report

Tell ==
  /\ \A r \in Repo : results[r] # Torn
  /\ report' \in {[is |-> "whole", says |-> results], Torn}
  /\ UNCHANGED results

Next == Settle \/ Tell

Spec == Init /\ [][Next]_campaignVars
=============================================================================
