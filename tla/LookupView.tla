----------------------------- MODULE LookupView -----------------------------
(***************************************************************************)
(* What a caller of query_batch (osv/client.py) is promised, whatever is   *)
(* batched, paged, tried again or asked again under another casing: each   *)
(* query is settled once, by an answer or by a failure, a failure is       *)
(* counted when it settles its query and not before, nothing that is       *)
(* settled changes, and the call returns when every query is.              *)
(***************************************************************************)
EXTENDS Integers, FiniteSets

CONSTANT Query

VARIABLES said,       \* of each query: open, or what settled it
          counted,    \* failures
          returned

lookupVars == <<said, counted, returned>>

Said == {"open", "failed", "empty", "some"}
Open == {q \in Query : said[q] = "open"}

Init == said = [q \in Query |-> "open"] /\ counted = 0 /\ returned = FALSE

\* Some of the open queries are settled; none of the others is touched.
Settle ==
  /\ ~returned /\ said' \in [Query -> Said]
  /\ \A q \in Query \ Open : said'[q] = said[q]
  /\ counted' = counted + Cardinality({q \in Open : said'[q] = "failed"})
  /\ UNCHANGED returned

Return == Open = {} /\ ~returned /\ returned' = TRUE /\ UNCHANGED <<said, counted>>

Next == Settle \/ Return

Spec == Init /\ [][Next]_lookupVars
=============================================================================
