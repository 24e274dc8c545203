----------------------------- MODULE OsvClient -----------------------------
(***************************************************************************)
(* Looking up many package versions at OSV (osv/client.py, query_batch):   *)
(* the queries go out in batches; an answer that has more pages is         *)
(* followed page by page; a NuGet lookup that came back empty is asked     *)
(* once more under the id's published casing.  A request is tried a few    *)
(* times, and one that still fails is counted under the status of its last *)
(* failure.                                                                *)
(*                                                                         *)
(* Queries are 1..Queries.  An answer is abstracted to whether it has any  *)
(* advisory.  The API, and nuget.org, which may not know an id or not      *)
(* answer, are nondeterministic.                                           *)
(***************************************************************************)
EXTENDS Integers, FiniteSets

CONSTANTS Queries,     \* how many
          Nuget,       \* those of the NuGet ecosystem
          BatchSize,
          Retries      \* times a request is tried

ASSUME ClientAssumption ==
  Queries \in Nat /\ Nuget \subseteq 1..Queries /\ {BatchSize, Retries} \subseteq Nat \ {0}

VARIABLES todo,      \* queries of this pass that no request has asked yet
          chunk,     \* queries the request in flight asks
          pages,     \* answered queries whose further pages are to be fetched
          tries,     \* times the request in flight failed
          answer,    \* for each query: what the caller will get
          issues,    \* the counted failures, by status
          pass,      \* the first pass, the one under other casing, or the end
          failed     \* history: queries whose last lookup was given up

clientVars == <<todo, chunk, pages, tries, answer, issues, pass, failed>>

Query     == 1..Queries
Transient == {"quota-deferred", "unreachable"}
Status    == Transient \cup {"error"}

ClientInit ==
  /\ todo = Query /\ chunk = {} /\ pages = {} /\ tries = 0
  /\ answer = [q \in Query |-> "none"] /\ issues = [s \in Status |-> 0]
  /\ pass = "first" /\ failed = {}

-----------------------------------------------------------------------------

InFlight == chunk # {} \/ pages # {}
Count(status, n) == issues' = [issues EXCEPT ![status] = @ + n]

\* The first n of them, in the order of the list.
First(n, queries) == {q \in queries : Cardinality({p \in queries : p < q}) < n}

SendBatch ==
  /\ ~InFlight /\ todo # {}
  /\ chunk' = First(BatchSize, todo) /\ todo' = todo \ First(BatchSize, todo)
  /\ tries' = 0
  /\ UNCHANGED <<pages, answer, issues, pass, failed>>

TryAgainOnce == \* Mutation: one try too many
  /\ InFlight /\ tries < Retries /\ tries' = tries + 1
  /\ UNCHANGED <<todo, chunk, pages, answer, issues, pass, failed>>

\* _request: a 429, a 5xx or a network failure, and it is tried again.
TryAgain ==
  /\ InFlight /\ tries + 1 < Retries /\ tries' = tries + 1
  /\ UNCHANGED <<todo, chunk, pages, answer, issues, pass, failed>>

GiveUp(status) == status = "error" \/ tries + 1 = Retries

\* No request of the batch is answered.
BatchFails(status) ==
  /\ chunk # {} /\ GiveUp(status)
  /\ Count(status, Cardinality(chunk)) /\ failed' = failed \cup chunk /\ chunk' = {}
  /\ UNCHANGED <<todo, pages, tries, answer, pass>>

\* A result in an answered batch: no advisory, some, a first page of several, or what is no
\* object, or has no entry with an id.  That is read as if there were none.
Result == {"empty", "some", "more", "unreadable"}
ReadAs(result) == IF result = "unreadable" THEN "empty" ELSE result

\* Every query of it is.
BatchAnswered ==
  /\ chunk # {} /\ chunk' = {} /\ tries' = 0 /\ failed' = failed \ chunk
  /\ \E got \in [chunk -> Result] :
       /\ answer' = [q \in Query |->
            IF q \in chunk /\ got[q] # "more" THEN ReadAs(got[q]) ELSE answer[q]]
       /\ pages' = {q \in chunk : got[q] = "more"}
  /\ UNCHANGED <<todo, issues, pass>>

\* _follow_pages: the last page came, or there is another; of its entries, too, those without
\* an id do not count.
PageAnswered ==
  /\ pages # {} /\ tries' = 0
  /\ \/ UNCHANGED <<pages, answer>>
     \/ \E q \in First(1, pages), got \in {"empty", "some"} :
          pages' = pages \ {q} /\ answer' = [answer EXCEPT ![q] = got]
  /\ UNCHANGED <<todo, chunk, issues, pass, failed>>

PageFailsKeeps(status) == \* Mutation: the pages that did come are the answer
  /\ GiveUp(status) /\ Count(status, 1) /\ tries' = 0
  /\ \E q \in First(1, pages) :
       /\ failed' = failed \cup {q} /\ pages' = pages \ {q}
       /\ answer' = [answer EXCEPT ![q] = "some"]
  /\ UNCHANGED <<todo, chunk, pass>>

\* "a partly paged answer is not an answer"
PageFails(status) ==
  /\ GiveUp(status) /\ Count(status, 1) /\ tries' = 0
  /\ \E q \in First(1, pages) : failed' = failed \cup {q} /\ pages' = pages \ {q}
  /\ UNCHANGED <<todo, chunk, answer, pass>>

\* query_batch: the empty NuGet answers whose published id is another; what the second pass
\* answers, or fails to, takes the place of the first pass's.
Recase ==
  /\ pass = "first" /\ ~InFlight /\ todo = {} /\ pass' = "again"
  /\ \E retry \in SUBSET {q \in Nuget : answer[q] = "empty"} :
       /\ todo' = retry
       /\ answer' = [q \in Query |-> IF q \in retry THEN "none" ELSE answer[q]]
  /\ UNCHANGED <<chunk, pages, tries, issues, failed>>

Return ==
  /\ pass = "again" /\ ~InFlight /\ todo = {} /\ pass' = "returned"
  /\ UNCHANGED <<todo, chunk, pages, tries, answer, issues, failed>>

ClientNext ==
  \/ SendBatch \/ TryAgain \/ BatchAnswered \/ PageAnswered \/ Recase \/ Return
  \/ \E status \in Status : BatchFails(status) \/ PageFails(status)

ClientSpec == ClientInit /\ [][ClientNext]_clientVars

-----------------------------------------------------------------------------
(* Properties                                                              *)

\* Every variable stays in its type.
ClientTypeOK ==
  /\ {todo, chunk, pages, failed} \subseteq SUBSET Query
  /\ tries \in 0..Retries - 1 /\ answer \in [Query -> {"none", "empty", "some"}]
  /\ issues \in [Status -> Nat] /\ pass \in {"first", "again", "returned"}

Issues == issues["quota-deferred"] + issues["unreachable"] + issues["error"]

\* "A failed lookup is never an empty result", where the failure is a request's: a query has no
\* answer exactly if its last lookup was given up, in whichever pass and on whichever page, and
\* the issues count the queries without an answer, each once.  A result that cannot be read
\* fails no request: it is an answer, an empty one.
FailedIsCountedNone == pass = "returned" =>
  /\ {q \in Query : answer[q] = "none"} = failed
  /\ Issues = Cardinality(failed)

\* Of each query, what is settled of it: an empty answer to a NuGet id in the first pass is not,
\* since it may be asked again.
SettledAs == [q \in Query |->
  IF q \in todo \cup chunk \cup pages \/ (pass = "first" /\ q \in Nuget /\ answer[q] = "empty")
  THEN "open" ELSE IF q \in failed THEN "failed" ELSE answer[q]]

Lookup == INSTANCE LookupView WITH said <- SettledAs, counted <- Issues, returned <- pass = "returned"

\* Whatever is batched, paged, tried again and recased, each query is settled once, a failure
\* is counted as it settles one, and no call returns before all are.
SettlesEachOnce == Lookup!Spec

=============================================================================
