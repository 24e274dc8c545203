---------------------------- MODULE SweepEngine ----------------------------
(***************************************************************************)
(* The class-generalisation sweep (sweep/engine.py): four stages that hand *)
(* each other files.  collect writes collect.json, draft a rule skeleton   *)
(* for a person to author, sweep one result file per repository, emit one  *)
(* report over the result files.  Each stage skips what has its file, and  *)
(* a sweep that was cut short is run again.                                *)
(*                                                                         *)
(* One class, so one rule; the repositories are 1..Repos in the order of   *)
(* the list.  What a person wrote as the rule is a version of it; it is    *)
(* authored when it has an id and no TODO, which is all that the engine    *)
(* looks at.  A file is written in place: a write that stops half way      *)
(* leaves it torn.  A sweep clones into a directory of its own, or into a  *)
(* work directory that was given and that keeps its trees from call to     *)
(* call.                                                                   *)
(***************************************************************************)
EXTENDS Integers

CONSTANTS Sweeper,    \* processes that run do_sweep
          Repos,      \* how many repositories the list has
          Authored,   \* what a person may write as the rule
          MaxStarts,  \* bound: calls of do_sweep
          MaxUndone   \* bound: times a person undoes the rule

ASSUME SweepAssumption ==
  /\ Repos \in Nat /\ MaxStarts \in Nat /\ MaxUndone \in Nat
  /\ Authored \cap {"none", "dir", "todo"} = {}

VARIABLES collected,   \* collect.json
          rule,        \* the draft's rule.skeleton.yaml
          trees,       \* the clones in the given work directory
          results,     \* <sweeps>/<rule>/repos/<slug>.json
          report,      \* sweep-candidates.json: what it says of each repository
          sweep,       \* what each process is doing
          starts,      \* calls of do_sweep so far
          undone,      \* times a person undid the rule so far
          met,         \* history: two processes were at one repository
          left         \* history: a clone into the given directory was cut short

stages    == <<collected, rule>>
sweepHistory == <<starts, undone, met, left>>
sweepVars == <<stages, trees, results, report, sweep, sweepHistory>>

Repo     == 1..Repos
Rule     == {"none", "dir", "todo"} \cup Authored
Tree     == {"none", "partial", "whole"}
None     == [is |-> "none"]
TornFile == [is |-> "torn"]
Failed   == [is |-> "error"]
\* Whether a person undid the rule in the call is history.
Facts    == [is : {"ok"}, tree : Tree, by : Rule, given : BOOLEAN, unruled : BOOLEAN]
Result   == {None, TornFile, Failed} \cup Facts
NoReport == [is |-> "none"]
Report   == {NoReport, TornFile} \cup [is : {"whole"}, says : [Repo -> Result]]
NoSweep  == [at |-> "idle"]
Sweep    == [at : {"idle"}]
              \cup [at : {"next", "clone", "scan"}, repo : Repo, given : BOOLEAN, unruled : BOOLEAN]
              \cup [at : {"write"}, repo : Repo, given : BOOLEAN, unruled : BOOLEAN, res : Result]

SweepInit ==
  /\ collected = "none" /\ rule = "none"
  /\ trees = [r \in Repo |-> "none"] /\ results = [r \in Repo |-> None] /\ report = NoReport
  /\ sweep = [s \in Sweeper |-> NoSweep]
  /\ starts = 0 /\ undone = 0 /\ met = FALSE /\ left = FALSE

-----------------------------------------------------------------------------
(* The stages before and after the sweep                                   *)

\* do_collect; force writes again what exists.
Collect ==
  /\ \E force \in BOOLEAN : collected = "none" \/ force
  /\ collected' \in {"whole", "torn"}
  /\ UNCHANGED <<rule, trees, results, report, sweep, sweepHistory>>

DraftAgain == \* Mutation: a draft that exists is staged again
  /\ collected = "whole" /\ rule' \in {"dir", "todo"}
  /\ UNCHANGED <<collected, trees, results, report, sweep, sweepHistory>>

\* do_draft: skips a class whose directory exists, also one that it died in ("dir": there is
\* no skeleton in it, or an empty one).
Draft ==
  /\ collected = "whole" /\ rule = "none" /\ rule' \in {"dir", "todo"}
  /\ UNCHANGED <<collected, trees, results, report, sweep, sweepHistory>>

\* A person authors the skeleton, changes what was authored, saves it half way or with a TODO
\* again, or removes it, at any time.
Author ==
  /\ \/ rule' \in Authored /\ undone' = undone
     \/ rule' \in Rule \ Authored /\ undone < MaxUndone /\ undone' = undone + 1
  /\ sweep' = [s \in Sweeper |-> IF rule' \in Authored \/ sweep[s].at = "idle" THEN sweep[s]
                                 ELSE [sweep[s] EXCEPT !.unruled = TRUE]]
  /\ UNCHANGED <<collected, trees, results, report, starts, met, left>>

\* do_emit: skips an existing report unless forced, raises on a result it cannot parse.
Emit ==
  /\ rule \in Authored \cup {"todo"} /\ starts > 0
  /\ \E force \in BOOLEAN : report = NoReport \/ force
  /\ \A r \in Repo : results[r] # TornFile
  /\ report' \in {[is |-> "whole", says |-> results], TornFile}
  /\ UNCHANGED <<stages, trees, results, sweep, sweepHistory>>

-----------------------------------------------------------------------------
(* do_sweep                                                                *)

SweepAt(s, point) == sweep[s].at = point
GoTo(s, state)    == sweep' = [sweep EXCEPT ![s] = state]
On(s, point)      == [at |-> point, repo |-> sweep[s].repo, given |-> sweep[s].given,
                      unruled |-> sweep[s].unruled]
ToWrite(s, res)   == [at |-> "write", repo |-> sweep[s].repo, given |-> sweep[s].given,
                      unruled |-> sweep[s].unruled, res |-> res]
OnToNext(s)       == [at |-> "next", repo |-> sweep[s].repo + 1, given |-> sweep[s].given,
                      unruled |-> sweep[s].unruled]
AfterLast(s) == OnToNext(s) \* Mutation: one repository too many
After(s)     == IF sweep[s].repo = Repos THEN NoSweep ELSE OnToNext(s)

\* Refuses a skeleton that is not authored.
StartSweep(s) ==
  /\ SweepAt(s, "idle") /\ rule \in Authored /\ Repos > 0
  /\ starts < MaxStarts /\ starts' = starts + 1
  /\ \E g \in BOOLEAN : GoTo(s, [at |-> "next", repo |-> 1, given |-> g, unruled |-> FALSE])
  /\ UNCHANGED <<stages, trees, results, report, undone, met, left>>

HasErrorToo(r) == results[r] \notin {None, Failed} \* Mutation: an error is tried again
HasResult(r)   == results[r] # None

Skip(s) ==
  /\ SweepAt(s, "next") /\ HasResult(sweep[s].repo) /\ GoTo(s, After(s))
  /\ UNCHANGED <<stages, trees, results, report, sweepHistory>>

\* sweep_one_repo: a tree that the work directory has is scanned as it is.
Begin(s) ==
  LET r == sweep[s].repo
      clone == ~sweep[s].given \/ trees[r] = "none"
  IN /\ SweepAt(s, "next") /\ ~HasResult(r)
     /\ GoTo(s, On(s, IF clone THEN "clone" ELSE "scan"))
     /\ trees' = IF clone /\ sweep[s].given THEN [trees EXCEPT ![r] = "partial"] ELSE trees
     /\ met' = (met \/ \E t \in Sweeper \ {s} :
                                 sweep[t].at \in {"clone", "scan", "write"} /\ sweep[t].repo = r)
     /\ UNCHANGED <<stages, results, report, starts, undone, left>>

Cloned(s) ==
  /\ SweepAt(s, "clone") /\ GoTo(s, On(s, "scan"))
  /\ trees' = IF sweep[s].given THEN [trees EXCEPT ![sweep[s].repo] = "whole"] ELSE trees
  /\ UNCHANGED <<stages, results, report, sweepHistory>>

FailureIgnored(s) == \* Mutation: the return code of git is not looked at
  /\ SweepAt(s, "clone") /\ GoTo(s, On(s, "scan"))
  /\ UNCHANGED <<stages, trees, results, report, sweepHistory>>

\* git fails, and removes what it made; a git that a signal killed leaves it.
CloneFails(s) ==
  /\ SweepAt(s, "clone") /\ GoTo(s, ToWrite(s, Failed))
  /\ \E tree \in {"none", "partial"} :
       /\ trees' = IF sweep[s].given THEN [trees EXCEPT ![sweep[s].repo] = tree] ELSE trees
       /\ left' = (left \/ (sweep[s].given /\ tree = "partial"))
  /\ UNCHANGED <<stages, results, report, starts, undone, met>>

\* The rule is what its file says by now; a timeout, or output that is not JSON, is an error.
Scan(s) ==
  /\ SweepAt(s, "scan")
  /\ \E res \in {Failed, [is |-> "ok", by |-> rule, given |-> sweep[s].given,
                          unruled |-> sweep[s].unruled,
                          tree |-> IF sweep[s].given THEN trees[sweep[s].repo] ELSE "whole"]} :
       GoTo(s, ToWrite(s, res))
  /\ UNCHANGED <<stages, trees, results, report, sweepHistory>>

WriteResult(s) ==
  /\ SweepAt(s, "write") /\ GoTo(s, After(s))
  /\ results' = [results EXCEPT ![sweep[s].repo] = sweep[s].res]
  /\ UNCHANGED <<stages, trees, report, sweepHistory>>

\* The call ends early: a clone timed out, which nothing catches, or the process was killed,
\* perhaps while it wrote.
Stop(s) ==
  /\ ~SweepAt(s, "idle") /\ GoTo(s, NoSweep)
  /\ left' = (left \/ (SweepAt(s, "clone") /\ sweep[s].given))
  /\ \/ results' = results
     \/ SweepAt(s, "write") /\ results' = [results EXCEPT ![sweep[s].repo] = TornFile]
  /\ UNCHANGED <<stages, trees, report, starts, undone, met>>

SweepNext == Collect \/ Draft \/ Author \/ Emit \/ \E s \in Sweeper :
  \/ StartSweep(s) \/ Skip(s) \/ Begin(s) \/ Cloned(s) \/ CloneFails(s)
  \/ Scan(s) \/ WriteResult(s) \/ Stop(s)

SweepSpec == SweepInit /\ [][SweepNext]_sweepVars

-----------------------------------------------------------------------------
(* Properties                                                              *)

\* Every variable stays in its type.
SweepTypeOK ==
  /\ collected \in {"none", "torn", "whole"} /\ rule \in Rule
  /\ trees \in [Repo -> Tree] /\ results \in [Repo -> Result] /\ report \in Report
  /\ sweep \in [Sweeper -> Sweep] /\ starts \in 0..MaxStarts /\ undone \in 0..MaxUndone
  /\ met \in BOOLEAN /\ left \in BOOLEAN

\* A result that says a repository was scanned stands on the whole of it: always when the
\* sweep cloned into its own directory, and in a given one as long as no clone into it was cut
\* short (sweep_one_repo takes any tree it finds) and no two sweeps were at one repository.
ResultsAreWhole == \A r \in Repo :
  results[r].is = "ok" /\ (results[r].given => ~met /\ ~left) => results[r].tree = "whole"

\* "the engine refuses to sweep an unauthored skeleton": it looks once, at the start, and each
\* scan reads the file again.  Whatever draft does and a person writes at any time, a scan was
\* by an authored rule, unless a person undid the rule in the very call that scanned.
SweptByAnAuthoredRule == \A r \in Repo :
  results[r].is = "ok" /\ ~results[r].unruled => results[r].by \in Authored

\* A report that parses never says of a repository what its result file does not say now,
\* however often sweeps are cut short and run again, unless two of them were at one
\* repository: a result file is written once.
ReportStaysTrue ==
  ~met /\ report.is = "whole" =>
    \A r \in Repo : report.says[r] \in {None, results[r]}

Campaign == INSTANCE SweepView WITH Torn <- TornFile

\* Of one sweep after the other: whatever is cut short and run again, a result that is there is
\* not made again, and a report is what the results were when it was written.
ResumesWhatIsLeft == Campaign!Spec

=============================================================================
