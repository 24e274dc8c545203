------------------------- MODULE SweepEngineProofs -------------------------
(***************************************************************************)
(* Theorems of SweepEngine, for any number of sweeps, repositories and     *)
(* versions of the rule.                                                   *)
(***************************************************************************)
EXTENDS SweepEngine, TLAPS

-----------------------------------------------------------------------------
(* The invariant                                                           *)

Works(s, r) == sweep[s].at \in {"clone", "scan", "write"} /\ sweep[s].repo = r

\* As long as no two sweeps were at one repository: the one that is has nobody beside it, and
\* the repository has no result yet; so what a report said of it, it said before there was one.
Apart == \A s, t \in Sweeper, r \in Repo : Works(s, r) /\ Works(t, r) => s = t
Fresh == \A s \in Sweeper, r \in Repo : Works(s, r) => results[r] = None
Reported == report.is = "whole" => \A r \in Repo : report.says[r] \in {None, results[r]}
OneAtEach == ~met => Apart /\ Fresh /\ Reported

\* ... and no clone into the work directory was cut short: a tree in it that is not whole is
\* one that somebody clones, and a scan has a whole one.
Undisturbed == ~met /\ ~left
PartialIsCloned == \A r \in Repo : trees[r] = "partial" =>
  \E s \in Sweeper : sweep[s].at = "clone" /\ sweep[s].given /\ sweep[s].repo = r
ScansWhole == \A s \in Sweeper :
  sweep[s].at = "scan" /\ sweep[s].given => trees[sweep[s].repo] = "whole"
GivenTrees == Undisturbed => PartialIsCloned /\ ScansWhole

Whole(res) == res.is = "ok" /\ (res.given => Undisturbed) => res.tree = "whole"
AllWhole == /\ \A r \in Repo : Whole(results[r])
            /\ \A s \in Sweeper : sweep[s].at = "write" => Whole(sweep[s].res)

\* A sweep that runs found an authored rule, which stays so until a person undoes it.
ByAuthored(res) == res.is = "ok" /\ ~res.unruled => res.by \in Authored
RuleIsAuthored ==
  /\ \A s \in Sweeper : sweep[s].at # "idle" /\ ~sweep[s].unruled => rule \in Authored
  /\ \A s \in Sweeper : sweep[s].at = "write" => ByAuthored(sweep[s].res)
  /\ \A r \in Repo : ByAuthored(results[r])

SInv == SweepTypeOK /\ OneAtEach /\ GivenTrees /\ AllWhole /\ RuleIsAuthored

-----------------------------------------------------------------------------
(* Types                                                                   *)

LEMMA RunningType ==
  ASSUME SweepTypeOK, NEW s \in Sweeper, sweep[s].at # "idle"
  PROVE  /\ sweep[s].repo \in Repo /\ sweep[s].given \in BOOLEAN /\ sweep[s].unruled \in BOOLEAN
         /\ sweep[s].at \in {"next", "clone", "scan", "write"}
         /\ sweep[s].at = "write" => sweep[s].res \in Result
BY DEF SweepTypeOK, Sweep

LEMMA OnType ==
  ASSUME SweepTypeOK, NEW s \in Sweeper, sweep[s].at # "idle", NEW p \in {"next", "clone", "scan"}
  PROVE  /\ On(s, p) \in Sweep /\ On(s, p).at = p
         /\ On(s, p).repo = sweep[s].repo /\ On(s, p).given = sweep[s].given
         /\ On(s, p).unruled = sweep[s].unruled
BY RunningType DEF On, Sweep

LEMMA ToWriteType ==
  ASSUME SweepTypeOK, NEW s \in Sweeper, sweep[s].at # "idle", NEW res \in Result
  PROVE  /\ ToWrite(s, res) \in Sweep /\ ToWrite(s, res).at = "write"
         /\ ToWrite(s, res).repo = sweep[s].repo /\ ToWrite(s, res).res = res
         /\ ToWrite(s, res).unruled = sweep[s].unruled
BY RunningType DEF ToWrite, Sweep

LEMMA AfterType ==
  ASSUME SweepTypeOK, NEW s \in Sweeper, sweep[s].at # "idle"
  PROVE  /\ After(s) \in Sweep /\ After(s).at \in {"idle", "next"}
         /\ After(s).at = "next" => After(s).unruled = sweep[s].unruled
<1>1. sweep[s].repo \in 1..Repos /\ sweep[s].given \in BOOLEAN /\ sweep[s].unruled \in BOOLEAN
  BY RunningType DEF Repo
<1>2. NoSweep \in Sweep /\ NoSweep.at = "idle"
  BY DEF NoSweep, Sweep
<1>3. CASE sweep[s].repo = Repos
  BY <1>2, <1>3 DEF After
<1>4. CASE sweep[s].repo # Repos
  <2>1. sweep[s].repo + 1 \in Repo
    BY <1>1, <1>4, SweepAssumption DEF Repo
  <2>2. After(s) = [at |-> "next", repo |-> sweep[s].repo + 1, given |-> sweep[s].given,
                    unruled |-> sweep[s].unruled]
    BY <1>4 DEF After, OnToNext
  <2> QED
    BY <1>1, <2>1, <2>2 DEF Sweep
<1> QED
  BY <1>3, <1>4

\* One process moves, the others stay.
LEMMA GoToType ==
  ASSUME SweepTypeOK, NEW s \in Sweeper, NEW state \in Sweep, GoTo(s, state)
  PROVE  /\ sweep' \in [Sweeper -> Sweep] /\ sweep'[s] = state
         /\ \A t \in Sweeper \ {s} : sweep'[t] = sweep[t]
BY DEF GoTo, SweepTypeOK

LEMMA ResultTypes ==
  ASSUME SweepTypeOK, NEW s \in Sweeper, Scan(s)
  PROVE  \E res \in Result :
           /\ GoTo(s, ToWrite(s, res))
           /\ \/ res = Failed
              \/ /\ res.is = "ok" /\ res.by = rule /\ res.given = sweep[s].given
                 /\ res.unruled = sweep[s].unruled
                 /\ res.tree = IF sweep[s].given THEN trees[sweep[s].repo] ELSE "whole"
<1>1. sweep[s].repo \in Repo /\ sweep[s].given \in BOOLEAN /\ sweep[s].unruled \in BOOLEAN
  BY RunningType DEF Scan, SweepAt
<1> DEFINE tree == IF sweep[s].given THEN trees[sweep[s].repo] ELSE "whole"
           scanned == [is |-> "ok", by |-> rule, given |-> sweep[s].given,
                       unruled |-> sweep[s].unruled, tree |-> tree]
<1>2. tree \in Tree
  BY <1>1 DEF SweepTypeOK, Tree
<1>3. scanned \in Result /\ Failed \in Result
  BY <1>1, <1>2 DEF SweepTypeOK, Result, Facts
<1>4. PICK res \in {Failed, scanned} : GoTo(s, ToWrite(s, res))
  BY DEF Scan
<1>5. res \in Result
  BY <1>3, <1>4
<1>6. \/ res = Failed
      \/ /\ res.is = "ok" /\ res.by = rule /\ res.given = sweep[s].given
         /\ res.unruled = sweep[s].unruled /\ res.tree = tree
  BY <1>4
<1> QED
  BY <1>4, <1>5, <1>6

LEMMA TypesInitially == SweepInit => SweepTypeOK
<1> SUFFICES ASSUME SweepInit PROVE SweepTypeOK
  OBVIOUS
<1>1. collected \in {"none", "torn", "whole"} /\ rule \in Rule /\ met \in BOOLEAN /\ left \in BOOLEAN
  BY DEF SweepInit, Rule
<1>2. trees \in [Repo -> Tree] /\ results \in [Repo -> Result] /\ report \in Report
  BY DEF SweepInit, Tree, Result, Report
<1>3. sweep \in [Sweeper -> Sweep]
  BY DEF SweepInit, NoSweep, Sweep
<1>4. starts \in 0..MaxStarts /\ undone \in 0..MaxUndone
  BY SweepAssumption DEF SweepInit
<1> QED
  BY <1>1, <1>2, <1>3, <1>4 DEF SweepTypeOK

\* What a person does to the rule, the processes do not see before they read it again.
LEMMA AuthorMoves ==
  ASSUME SweepTypeOK, Author
  PROVE  /\ sweep' \in [Sweeper -> Sweep]
         /\ \A s \in Sweeper :
              /\ sweep'[s].at = sweep[s].at
              /\ sweep[s].at # "idle" =>
                   /\ sweep'[s].repo = sweep[s].repo /\ sweep'[s].given = sweep[s].given
                   /\ ~sweep'[s].unruled => rule' \in Authored /\ ~sweep[s].unruled
              /\ sweep[s].at = "write" => sweep'[s].res = sweep[s].res
         /\ UNCHANGED <<collected, trees, results, report, starts, met, left>>
         /\ rule' \in Rule
<1>1. ASSUME NEW w \in Sweep, w.at # "idle"
      PROVE  LET u == [w EXCEPT !.unruled = TRUE] IN
               /\ u \in Sweep /\ u.at = w.at /\ u.repo = w.repo /\ u.given = w.given /\ u.unruled
               /\ w.at = "write" => u.res = w.res
  <2>1. ASSUME NEW v \in [at : {"next", "clone", "scan"}, repo : Repo, given : BOOLEAN,
                          unruled : BOOLEAN]
        PROVE  LET u == [v EXCEPT !.unruled = TRUE] IN
                 /\ u \in Sweep /\ u.at = v.at /\ u.repo = v.repo /\ u.given = v.given /\ u.unruled
                 /\ v.at # "write"
    BY DEF Sweep
  <2>2. ASSUME NEW v \in [at : {"write"}, repo : Repo, given : BOOLEAN, unruled : BOOLEAN,
                          res : Result]
        PROVE  LET u == [v EXCEPT !.unruled = TRUE] IN
                 /\ u \in Sweep /\ u.at = v.at /\ u.repo = v.repo /\ u.given = v.given /\ u.unruled
                 /\ u.res = v.res
    BY DEF Sweep
  <2> QED
    BY <1>1, <2>1, <2>2 DEF Sweep
<1>2. \A s \in Sweeper : sweep[s] \in Sweep
  BY DEF SweepTypeOK
<1>3. \A s \in Sweeper : sweep'[s] = IF rule' \in Authored \/ sweep[s].at = "idle" THEN sweep[s]
                                     ELSE [sweep[s] EXCEPT !.unruled = TRUE]
  BY DEF Author
<1>4. \A s \in Sweeper :
        /\ sweep'[s] \in Sweep /\ sweep'[s].at = sweep[s].at
        /\ sweep[s].at # "idle" =>
             /\ sweep'[s].repo = sweep[s].repo /\ sweep'[s].given = sweep[s].given
             /\ ~sweep'[s].unruled => rule' \in Authored /\ ~sweep[s].unruled
        /\ sweep[s].at = "write" => sweep'[s].res = sweep[s].res
  <2> TAKE s \in Sweeper
  <2>1. CASE rule' \in Authored \/ sweep[s].at = "idle"
    BY <1>2, <1>3, <2>1
  <2>2. CASE ~(rule' \in Authored \/ sweep[s].at = "idle")
    BY <1>1, <1>2, <1>3, <2>2
  <2> QED
    BY <2>1, <2>2
<1>5. sweep' \in [Sweeper -> Sweep]
  BY <1>4 DEF Author
<1>6. rule' \in Rule /\ UNCHANGED <<collected, trees, results, report, starts, met, left>>
  BY DEF Author, Rule
<1> QED
  BY <1>4, <1>5, <1>6

LEMMA TypesKept == SweepTypeOK /\ [SweepNext]_sweepVars => SweepTypeOK'
<1> SUFFICES ASSUME SweepTypeOK, [SweepNext]_sweepVars PROVE SweepTypeOK'
  OBVIOUS
<1>1. CASE Collect
  BY <1>1 DEF Collect, SweepTypeOK, sweepHistory
<1>2. CASE Draft
  BY <1>2 DEF Draft, SweepTypeOK, sweepHistory, Rule
<1>3. CASE Author
  <2>1. undone' \in 0..MaxUndone
    BY <1>3, SweepAssumption DEF Author, SweepTypeOK
  <2> QED
    BY <1>3, <2>1, AuthorMoves DEF SweepTypeOK
<1>4. CASE Emit
  <2>1. [is |-> "whole", says |-> results] \in Report /\ TornFile \in Report
    BY DEF SweepTypeOK, Report
  <2>2. report' \in Report
    BY <1>4, <2>1 DEF Emit
  <2> QED
    BY <1>4, <2>2 DEF Emit, SweepTypeOK, sweepHistory, stages
<1>5. ASSUME NEW s \in Sweeper, StartSweep(s) PROVE SweepTypeOK'
  <2>1. PICK g \in BOOLEAN : GoTo(s, [at |-> "next", repo |-> 1, given |-> g, unruled |-> FALSE])
    BY <1>5 DEF StartSweep
  <2>2. 1 \in Repo
    BY <1>5, SweepAssumption DEF StartSweep, Repo
  <2>3. [at |-> "next", repo |-> 1, given |-> g, unruled |-> FALSE] \in Sweep
    BY <2>1, <2>2 DEF Sweep
  <2>4. sweep' \in [Sweeper -> Sweep]
    BY <2>1, <2>3, GoToType
  <2>5. starts' \in 0..MaxStarts
    BY <1>5, SweepAssumption DEF StartSweep, SweepTypeOK
  <2> QED
    BY <1>5, <2>4, <2>5 DEF StartSweep, SweepTypeOK, stages
<1>6. ASSUME NEW s \in Sweeper, Skip(s) PROVE SweepTypeOK'
  BY <1>6, AfterType, GoToType DEF Skip, SweepAt, SweepTypeOK, stages, sweepHistory
<1>7. ASSUME NEW s \in Sweeper, Begin(s) PROVE SweepTypeOK'
  <2>1. sweep' \in [Sweeper -> Sweep]
    BY <1>7, OnType, GoToType DEF Begin, SweepAt
  <2>2. trees' \in [Repo -> Tree] /\ met' \in BOOLEAN
    BY <1>7, RunningType DEF Begin, SweepAt, SweepTypeOK, Tree
  <2> QED
    BY <1>7, <2>1, <2>2 DEF Begin, SweepTypeOK, stages
<1>8. ASSUME NEW s \in Sweeper, Cloned(s) \/ CloneFails(s) PROVE SweepTypeOK'
  <2>1. Failed \in Result
    BY DEF Result
  <2>2. sweep' \in [Sweeper -> Sweep]
    BY <1>8, <2>1, OnType, ToWriteType, GoToType DEF Cloned, CloneFails, SweepAt
  <2>3. trees' \in [Repo -> Tree] /\ left' \in BOOLEAN
    BY <1>8, RunningType DEF Cloned, CloneFails, SweepAt, SweepTypeOK, Tree, sweepHistory
  <2> QED
    BY <1>8, <2>2, <2>3 DEF Cloned, CloneFails, SweepTypeOK, stages, sweepHistory
<1>9. ASSUME NEW s \in Sweeper, Scan(s) PROVE SweepTypeOK'
  <2>1. sweep' \in [Sweeper -> Sweep]
    BY <1>9, ResultTypes, ToWriteType, GoToType DEF Scan, SweepAt
  <2> QED
    BY <1>9, <2>1 DEF Scan, SweepTypeOK, stages, sweepHistory
<1>10. ASSUME NEW s \in Sweeper, WriteResult(s) PROVE SweepTypeOK'
  <2>1. sweep' \in [Sweeper -> Sweep]
    BY <1>10, AfterType, GoToType DEF WriteResult, SweepAt
  <2>2. results' \in [Repo -> Result]
    BY <1>10, RunningType DEF WriteResult, SweepAt, SweepTypeOK
  <2> QED
    BY <1>10, <2>1, <2>2 DEF WriteResult, SweepTypeOK, stages, sweepHistory
<1>11. ASSUME NEW s \in Sweeper, Stop(s) PROVE SweepTypeOK'
  <2>1. sweep' \in [Sweeper -> Sweep]
    <3>1. NoSweep \in Sweep
      BY DEF NoSweep, Sweep
    <3> QED
      BY <1>11, <3>1, GoToType DEF Stop
  <2>2. results' \in [Repo -> Result]
    <3>1. TornFile \in Result
      BY DEF Result
    <3> QED
      BY <1>11, <3>1 DEF Stop, SweepTypeOK
  <2>3. left' \in BOOLEAN
    BY <1>11, RunningType DEF Stop, SweepAt, SweepTypeOK
  <2> QED
    BY <1>11, <2>1, <2>2, <2>3 DEF Stop, SweepTypeOK, stages
<1>12. CASE UNCHANGED sweepVars
  BY <1>12 DEF sweepVars, stages, sweepHistory, SweepTypeOK
<1> QED
  BY <1>1, <1>2, <1>3, <1>4, <1>5, <1>6, <1>7, <1>8, <1>9, <1>10, <1>11, <1>12 DEF SweepNext

-----------------------------------------------------------------------------
(* What a step does to the process that takes it                           *)

LEMMA SweepMoves ==
  ASSUME SweepTypeOK, NEW s \in Sweeper
  PROVE  /\ StartSweep(s) => sweep'[s].at = "next" /\ rule \in Authored
         /\ Skip(s) => sweep'[s].at \in {"idle", "next"} /\ sweep[s].at = "next"
         /\ Skip(s) \/ Begin(s) \/ Cloned(s) \/ CloneFails(s) \/ WriteResult(s) =>
              /\ sweep[s].at # "idle"
              /\ sweep'[s].at # "idle" => sweep'[s].unruled = sweep[s].unruled
         /\ Begin(s) => sweep[s].at = "next" /\ sweep'[s].at \in {"clone", "scan"}
                        /\ sweep'[s].repo = sweep[s].repo /\ sweep'[s].given = sweep[s].given
         /\ Cloned(s) => sweep[s].at = "clone" /\ sweep'[s].at = "scan"
                        /\ sweep'[s].repo = sweep[s].repo /\ sweep'[s].given = sweep[s].given
         /\ CloneFails(s) => sweep[s].at = "clone" /\ sweep'[s].at = "write"
                        /\ sweep'[s].repo = sweep[s].repo /\ sweep'[s].res = Failed
         /\ WriteResult(s) => sweep[s].at = "write" /\ sweep'[s].at \in {"idle", "next"}
         /\ Stop(s) => sweep[s].at # "idle" /\ sweep'[s].at = "idle"
<1>1. ASSUME StartSweep(s) PROVE sweep'[s].at = "next" /\ rule \in Authored
  BY <1>1 DEF StartSweep, GoTo, SweepTypeOK
<1>2. ASSUME Skip(s) PROVE sweep'[s].at \in {"idle", "next"} /\ sweep[s].at = "next"
  BY <1>2, AfterType, GoToType DEF Skip, SweepAt
<1>3. ASSUME Begin(s)
      PROVE  /\ sweep[s].at = "next" /\ sweep'[s].at \in {"clone", "scan"}
             /\ sweep'[s].repo = sweep[s].repo /\ sweep'[s].given = sweep[s].given
  BY <1>3, OnType, GoToType DEF Begin, SweepAt
<1>4. ASSUME Cloned(s)
      PROVE  /\ sweep[s].at = "clone" /\ sweep'[s].at = "scan"
             /\ sweep'[s].repo = sweep[s].repo /\ sweep'[s].given = sweep[s].given
  BY <1>4, OnType, GoToType DEF Cloned, SweepAt
<1>5. ASSUME CloneFails(s)
      PROVE  /\ sweep[s].at = "clone" /\ sweep'[s].at = "write"
             /\ sweep'[s].repo = sweep[s].repo /\ sweep'[s].res = Failed
  <2>1. Failed \in Result
    BY DEF Result
  <2> QED
    BY <1>5, <2>1, ToWriteType, GoToType DEF CloneFails, SweepAt
<1>6. ASSUME WriteResult(s) PROVE sweep[s].at = "write" /\ sweep'[s].at \in {"idle", "next"}
  BY <1>6, AfterType, GoToType DEF WriteResult, SweepAt
<1>7. ASSUME Stop(s) PROVE sweep[s].at # "idle" /\ sweep'[s].at = "idle"
  BY <1>7 DEF Stop, SweepAt, GoTo, NoSweep, SweepTypeOK
<1>8. ASSUME Skip(s) \/ Begin(s) \/ Cloned(s) \/ CloneFails(s) \/ WriteResult(s)
      PROVE  sweep[s].at # "idle" /\ (sweep'[s].at # "idle" => sweep'[s].unruled = sweep[s].unruled)
  <2>1. sweep[s].at # "idle" /\ Failed \in Result
    BY <1>8 DEF Skip, Begin, Cloned, CloneFails, WriteResult, SweepAt, Result
  <2>2. \/ GoTo(s, After(s)) \/ GoTo(s, ToWrite(s, Failed))
        \/ \E p \in {"clone", "scan"} : GoTo(s, On(s, p))
    BY <1>8 DEF Skip, Begin, Cloned, CloneFails, WriteResult
  <2> QED
    BY <2>1, <2>2, AfterType, ToWriteType, OnType, GoToType
<1> QED
  BY <1>1, <1>2, <1>3, <1>4, <1>5, <1>6, <1>7, <1>8

LEMMA OthersStay ==
  ASSUME SweepTypeOK, NEW s \in Sweeper,
         \/ StartSweep(s) \/ Skip(s) \/ Begin(s) \/ Cloned(s) \/ CloneFails(s)
         \/ Scan(s) \/ WriteResult(s) \/ Stop(s)
  PROVE  \A t \in Sweeper \ {s} : sweep'[t] = sweep[t]
BY DEF StartSweep, Skip, Begin, Cloned, CloneFails, Scan, WriteResult, Stop, GoTo, SweepTypeOK

LEMMA ScanMoves ==
  ASSUME SweepTypeOK, NEW s \in Sweeper, Scan(s)
  PROVE  /\ sweep[s].at = "scan" /\ sweep'[s].at = "write" /\ sweep'[s].repo = sweep[s].repo
         /\ sweep'[s].unruled = sweep[s].unruled
         /\ \/ sweep'[s].res = Failed
            \/ /\ sweep'[s].res.is = "ok" /\ sweep'[s].res.by = rule
               /\ sweep'[s].res.given = sweep[s].given
               /\ sweep'[s].res.unruled = sweep[s].unruled
               /\ sweep'[s].res.tree = IF sweep[s].given THEN trees[sweep[s].repo] ELSE "whole"
<1>1. sweep[s].at = "scan"
  BY DEF Scan, SweepAt
<1>2. PICK res \in Result :
        /\ GoTo(s, ToWrite(s, res))
        /\ \/ res = Failed
           \/ /\ res.is = "ok" /\ res.by = rule /\ res.given = sweep[s].given
              /\ res.unruled = sweep[s].unruled
              /\ res.tree = IF sweep[s].given THEN trees[sweep[s].repo] ELSE "whole"
  BY ResultTypes
<1>3. /\ sweep'[s].at = "write" /\ sweep'[s].repo = sweep[s].repo /\ sweep'[s].res = res
      /\ sweep'[s].unruled = sweep[s].unruled
  BY <1>1, <1>2, ToWriteType, GoToType
<1> QED
  BY <1>1, <1>2, <1>3

-----------------------------------------------------------------------------
(* Each part of the invariant, step by step                                *)

StageStep == Collect \/ Draft \/ Author \/ Emit

LEMMA RuleKept == SweepTypeOK /\ RuleIsAuthored /\ [SweepNext]_sweepVars => RuleIsAuthored'
<1> SUFFICES ASSUME SweepTypeOK, RuleIsAuthored, [SweepNext]_sweepVars PROVE RuleIsAuthored'
  OBVIOUS
<1>1. CASE Collect \/ Emit
  BY <1>1 DEF Collect, Emit, RuleIsAuthored, ByAuthored, stages
<1>2. CASE Draft
  <2>1. rule \notin Authored
    BY <1>2, SweepAssumption DEF Draft
  <2> QED
    BY <1>2, <2>1 DEF Draft, RuleIsAuthored, ByAuthored
<1>3. CASE Author
  BY <1>3, AuthorMoves DEF RuleIsAuthored, ByAuthored
<1>4. ASSUME NEW s \in Sweeper, StartSweep(s) \/ Skip(s) \/ Begin(s) \/ Cloned(s) PROVE RuleIsAuthored'
  <2>1. sweep'[s].at # "write" /\ (sweep'[s].at # "idle" /\ ~sweep'[s].unruled => rule \in Authored)
    BY <1>4, SweepMoves DEF RuleIsAuthored
  <2>2. rule' = rule /\ results' = results
    BY <1>4 DEF StartSweep, Skip, Begin, Cloned, stages
  <2>3. \A t \in Sweeper \ {s} : sweep'[t] = sweep[t]
    BY <1>4, OthersStay
  <2> QED
    BY <2>1, <2>2, <2>3 DEF RuleIsAuthored, ByAuthored
<1>5. ASSUME NEW s \in Sweeper, CloneFails(s) PROVE RuleIsAuthored'
  <2>1. sweep'[s].res = Failed /\ (~sweep'[s].unruled => rule \in Authored)
    BY <1>5, SweepMoves DEF RuleIsAuthored
  <2>2. rule' = rule /\ results' = results /\ \A t \in Sweeper \ {s} : sweep'[t] = sweep[t]
    BY <1>5, OthersStay DEF CloneFails, stages
  <2> QED
    BY <2>1, <2>2 DEF RuleIsAuthored, ByAuthored, Failed
<1>6. ASSUME NEW s \in Sweeper, Scan(s) PROVE RuleIsAuthored'
  <2>1. /\ ~sweep'[s].unruled => rule \in Authored
        /\ \/ sweep'[s].res = Failed
           \/ sweep'[s].res.by = rule /\ (~sweep'[s].res.unruled => rule \in Authored)
    BY <1>6, ScanMoves DEF RuleIsAuthored
  <2>2. rule' = rule /\ results' = results /\ \A t \in Sweeper \ {s} : sweep'[t] = sweep[t]
    BY <1>6, OthersStay DEF Scan, stages
  <2>3. ByAuthored(sweep'[s].res)
    BY <2>1 DEF ByAuthored, Failed
  <2> QED
    BY <2>1, <2>2, <2>3 DEF RuleIsAuthored, ByAuthored
<1>7. ASSUME NEW s \in Sweeper, WriteResult(s) PROVE RuleIsAuthored'
  <2>1. /\ sweep[s].at = "write" /\ sweep'[s].at # "write" /\ ByAuthored(sweep[s].res)
        /\ sweep'[s].at # "idle" /\ ~sweep'[s].unruled => rule \in Authored
    BY <1>7, SweepMoves DEF RuleIsAuthored
  <2>2. rule' = rule /\ \A t \in Sweeper \ {s} : sweep'[t] = sweep[t]
    BY <1>7, OthersStay DEF WriteResult, stages
  <2>3. \A r \in Repo : results'[r] = results[r] \/ results'[r] = sweep[s].res
    BY <1>7 DEF WriteResult, SweepTypeOK
  <2> QED
    BY <2>1, <2>2, <2>3 DEF RuleIsAuthored, ByAuthored
<1>8. ASSUME NEW s \in Sweeper, Stop(s) PROVE RuleIsAuthored'
  <2>1. sweep'[s].at = "idle" /\ rule' = rule /\ \A t \in Sweeper \ {s} : sweep'[t] = sweep[t]
    BY <1>8, SweepMoves, OthersStay DEF Stop, stages
  <2>2. \A r \in Repo : results'[r] = results[r] \/ results'[r] = TornFile
    BY <1>8 DEF Stop, SweepTypeOK
  <2> QED
    BY <2>1, <2>2 DEF RuleIsAuthored, ByAuthored, TornFile
<1>9. CASE UNCHANGED sweepVars
  BY <1>9 DEF sweepVars, stages, RuleIsAuthored, ByAuthored
<1> QED
  BY <1>1, <1>2, <1>3, <1>4, <1>5, <1>6, <1>7, <1>8, <1>9 DEF SweepNext

\* What once happened has happened.
LEMMA HistoryStays ==
  ASSUME [SweepNext]_sweepVars
  PROVE  (met => met') /\ (left => left') /\ (Undisturbed' => Undisturbed)
<1> SUFFICES (met => met') /\ (left => left')
  BY DEF Undisturbed
<1>1. CASE StageStep \/ UNCHANGED sweepVars
  BY <1>1 DEF StageStep, Collect, Draft, Author, Emit, sweepVars, sweepHistory
<1>2. ASSUME NEW s \in Sweeper,
             StartSweep(s) \/ Skip(s) \/ Cloned(s) \/ Scan(s) \/ WriteResult(s)
      PROVE  met' = met /\ left' = left
  BY <1>2 DEF StartSweep, Skip, Cloned, Scan, WriteResult, sweepHistory
<1>3. ASSUME NEW s \in Sweeper, Begin(s) PROVE (met => met') /\ left' = left
  BY <1>3 DEF Begin
<1>4. ASSUME NEW s \in Sweeper, CloneFails(s) \/ Stop(s) PROVE met' = met /\ (left => left')
  BY <1>4 DEF CloneFails, Stop
<1> QED
  BY <1>1, <1>2, <1>3, <1>4 DEF SweepNext, StageStep

LEMMA OneAtEachKept == SweepTypeOK /\ OneAtEach /\ [SweepNext]_sweepVars => OneAtEach'
<1> SUFFICES ASSUME SweepTypeOK, OneAtEach, [SweepNext]_sweepVars, ~met' PROVE Apart' /\ Fresh' /\ Reported'
  BY DEF OneAtEach
<1>0. Apart /\ Fresh /\ Reported
  BY HistoryStays DEF OneAtEach
<1>1. CASE Collect \/ Draft \/ Author
  <2>1. results' = results /\ report' = report
    BY <1>1 DEF Collect, Draft, Author
  <2>2. \A s \in Sweeper, r \in Repo : Works(s, r)' <=> Works(s, r)
    BY <1>1, AuthorMoves DEF Collect, Draft, Works
  <2> QED
    BY <1>0, <2>1, <2>2 DEF Apart, Fresh, Reported
<1>2. CASE Emit
  <2>1. report' = [is |-> "whole", says |-> results] \/ report' = TornFile
    BY <1>2 DEF Emit
  <2>2. results' = results /\ sweep' = sweep
    BY <1>2 DEF Emit
  <2> QED
    BY <1>0, <2>1, <2>2 DEF Apart, Fresh, Reported, Works, TornFile
<1>3. ASSUME NEW s \in Sweeper, StartSweep(s) \/ Skip(s) PROVE Apart' /\ Fresh' /\ Reported'
  <2>1. sweep'[s].at \in {"idle", "next"} /\ \A t \in Sweeper \ {s} : sweep'[t] = sweep[t]
    BY <1>3, SweepMoves, OthersStay
  <2>2. results' = results /\ report' = report
    BY <1>3 DEF StartSweep, Skip, stages
  <2> QED
    BY <1>0, <2>1, <2>2 DEF Apart, Fresh, Reported, Works
<1>4. ASSUME NEW s \in Sweeper, Begin(s) PROVE Apart' /\ Fresh' /\ Reported'
  <2>1. /\ sweep[s].at = "next" /\ sweep'[s].repo = sweep[s].repo
        /\ \A t \in Sweeper \ {s} : sweep'[t] = sweep[t]
    BY <1>4, SweepMoves, OthersStay
  <2>2. results' = results /\ report' = report /\ results[sweep[s].repo] = None
    BY <1>4 DEF Begin, HasResult
  <2>3. \A t \in Sweeper \ {s} : ~Works(t, sweep[s].repo)
    BY <1>4 DEF Begin, Works
  <2> QED
    BY <1>0, <2>1, <2>2, <2>3 DEF Apart, Fresh, Reported, Works
<1>5. ASSUME NEW s \in Sweeper, Cloned(s) \/ CloneFails(s) \/ Scan(s) PROVE Apart' /\ Fresh' /\ Reported'
  <2>1. /\ sweep[s].at \in {"clone", "scan"} /\ sweep'[s].repo = sweep[s].repo
        /\ \A t \in Sweeper \ {s} : sweep'[t] = sweep[t]
    BY <1>5, SweepMoves, ScanMoves, OthersStay
  <2>2. results' = results /\ report' = report
    BY <1>5 DEF Cloned, CloneFails, Scan, stages
  <2> QED
    BY <1>0, <2>1, <2>2 DEF Apart, Fresh, Reported, Works
<1>6. ASSUME NEW s \in Sweeper, WriteResult(s) \/ Stop(s) PROVE Apart' /\ Fresh' /\ Reported'
  <2>1. sweep'[s].at \in {"idle", "next"} /\ \A t \in Sweeper \ {s} : sweep'[t] = sweep[t]
    BY <1>6, SweepMoves, OthersStay
  <2>2. \A r \in Repo : results'[r] # results[r] => Works(s, r)
    BY <1>6 DEF WriteResult, Stop, SweepAt, SweepTypeOK, Works
  <2>3. report' = report
    BY <1>6 DEF WriteResult, Stop
  <2>4. Apart' /\ Fresh'
    BY <1>0, <2>1, <2>2 DEF Apart, Fresh, Works
  <2>5. Reported'
    BY <1>0, <2>2, <2>3 DEF Fresh, Reported
  <2> QED
    BY <2>4, <2>5
<1>7. CASE UNCHANGED sweepVars
  BY <1>0, <1>7 DEF sweepVars, Apart, Fresh, Reported, Works
<1> QED
  BY <1>1, <1>2, <1>3, <1>4, <1>5, <1>6, <1>7 DEF SweepNext

LEMMA GivenTreesKept ==
  SweepTypeOK /\ OneAtEach /\ GivenTrees /\ [SweepNext]_sweepVars => GivenTrees'
<1> SUFFICES ASSUME SweepTypeOK, OneAtEach, GivenTrees, [SweepNext]_sweepVars, Undisturbed'
             PROVE  PartialIsCloned' /\ ScansWhole'
  BY DEF GivenTrees
<1>0. Undisturbed /\ Apart /\ PartialIsCloned /\ ScansWhole
  <2>1. Undisturbed
    BY HistoryStays
  <2> QED
    BY <2>1 DEF OneAtEach, GivenTrees, Undisturbed
<1>1. CASE StageStep
  <2>1. trees' = trees
    BY <1>1 DEF StageStep, Collect, Draft, Author, Emit
  <2>2. \A s \in Sweeper :
          /\ sweep'[s].at = sweep[s].at
          /\ sweep[s].at # "idle" => sweep'[s].repo = sweep[s].repo /\ sweep'[s].given = sweep[s].given
    BY <1>1, AuthorMoves DEF StageStep, Collect, Draft, Emit
  <2> QED
    BY <1>0, <2>1, <2>2 DEF PartialIsCloned, ScansWhole
<1>2. ASSUME NEW s \in Sweeper, StartSweep(s) \/ Skip(s) \/ Scan(s) \/ WriteResult(s)
      PROVE  PartialIsCloned' /\ ScansWhole'
  <2>1. /\ sweep[s].at # "clone" /\ sweep'[s].at # "scan"
        /\ \A t \in Sweeper \ {s} : sweep'[t] = sweep[t]
    BY <1>2, SweepMoves, ScanMoves, OthersStay DEF StartSweep, SweepAt
  <2>2. trees' = trees
    BY <1>2 DEF StartSweep, Skip, Scan, WriteResult
  <2> QED
    BY <1>0, <2>1, <2>2 DEF PartialIsCloned, ScansWhole
<1>3. ASSUME NEW s \in Sweeper, Begin(s) PROVE PartialIsCloned' /\ ScansWhole'
  <2> DEFINE r == sweep[s].repo
  <2>1. /\ sweep[s].at = "next" /\ sweep'[s].repo = r /\ sweep'[s].given = sweep[s].given
        /\ \A t \in Sweeper \ {s} : sweep'[t] = sweep[t]
    BY <1>3, SweepMoves, OthersStay
  <2>2. \A t \in Sweeper \ {s} : ~Works(t, r)
    BY <1>3 DEF Begin, Works, Undisturbed
  <2>3. r \in Repo /\ trees[r] \in {"none", "whole"}
    <3>1. r \in Repo
      BY <2>1, RunningType
    <3> QED
      BY <1>0, <2>1, <2>2, <3>1 DEF PartialIsCloned, Works, SweepTypeOK, Tree
  <2>4. CASE sweep[s].given /\ trees[r] = "none"
    <3>1. sweep'[s].at = "clone" /\ trees' = [trees EXCEPT ![r] = "partial"]
      <4>1. GoTo(s, On(s, "clone")) /\ trees' = [trees EXCEPT ![r] = "partial"]
        BY <1>3, <2>4 DEF Begin
      <4>2. On(s, "clone") \in Sweep /\ On(s, "clone").at = "clone"
        BY <2>1, OnType
      <4> QED
        BY <4>1, <4>2, GoToType
    <3>2. PartialIsCloned'
      <4> SUFFICES ASSUME NEW q \in Repo, trees'[q] = "partial"
                   PROVE  \E t \in Sweeper : sweep'[t].at = "clone" /\ sweep'[t].given /\ sweep'[t].repo = q
        BY DEF PartialIsCloned
      <4>1. CASE q = r
        BY <2>1, <2>4, <3>1, <4>1
      <4>2. CASE q # r
        <5>1. trees[q] = "partial"
          BY <3>1, <4>2 DEF SweepTypeOK
        <5>2. PICK t \in Sweeper : sweep[t].at = "clone" /\ sweep[t].given /\ sweep[t].repo = q
          BY <1>0, <5>1 DEF PartialIsCloned
        <5>3. t # s
          BY <2>1, <5>2
        <5> QED
          BY <2>1, <5>2, <5>3
      <4> QED
        BY <4>1, <4>2
    <3>3. ScansWhole'
      BY <1>0, <2>1, <2>2, <3>1 DEF ScansWhole, Works, SweepTypeOK
    <3> QED
      BY <3>2, <3>3
  <2>5. CASE ~(sweep[s].given /\ trees[r] = "none")
    <3>1. trees' = trees
      BY <1>3, <2>5 DEF Begin
    <3>2. sweep'[s].given /\ sweep'[s].at = "scan" => trees[r] = "whole"
      BY <2>1, <2>3, <2>5
    <3> QED
      BY <1>0, <2>1, <3>1, <3>2 DEF PartialIsCloned, ScansWhole
  <2> QED
    BY <2>4, <2>5
<1>4. ASSUME NEW s \in Sweeper, Cloned(s) \/ CloneFails(s) PROVE PartialIsCloned' /\ ScansWhole'
  <2> DEFINE r == sweep[s].repo
  <2>1. /\ sweep[s].at = "clone" /\ r \in Repo /\ sweep'[s].at \in {"scan", "write"} /\ sweep'[s].repo = r
        /\ (sweep'[s].at = "scan" => Cloned(s) /\ sweep'[s].given = sweep[s].given)
        /\ \A t \in Sweeper \ {s} : sweep'[t] = sweep[t]
    BY <1>4, SweepMoves, OthersStay, RunningType
  <2>2. \A q \in Repo : q # r => trees'[q] = trees[q]
    BY <1>4, <2>1 DEF Cloned, CloneFails, SweepTypeOK
  <2>3. sweep[s].given => trees'[r] = IF Cloned(s) THEN "whole" ELSE "none"
    BY <1>4, <2>1, SweepMoves DEF Cloned, CloneFails, SweepTypeOK, Undisturbed
  <2>4. ~sweep[s].given => trees' = trees
    BY <1>4 DEF Cloned, CloneFails
  <2>5. \A t \in Sweeper \ {s} : ~Works(t, r)
    BY <1>0, <2>1 DEF Apart, Works
  <2>6. PartialIsCloned'
    <3> SUFFICES ASSUME NEW q \in Repo, trees'[q] = "partial"
                 PROVE  \E t \in Sweeper : sweep'[t].at = "clone" /\ sweep'[t].given /\ sweep'[t].repo = q
      BY DEF PartialIsCloned
    <3>1. ~sweep[s].given \/ q # r
      BY <2>3
    <3>2. trees[q] = "partial"
      BY <2>2, <2>4, <3>1
    <3>3. PICK t \in Sweeper : sweep[t].at = "clone" /\ sweep[t].given /\ sweep[t].repo = q
      BY <1>0, <3>2 DEF PartialIsCloned
    <3>4. t # s
      BY <3>1, <3>3
    <3> QED
      BY <2>1, <3>3, <3>4
  <2>7. ScansWhole'
    <3> SUFFICES ASSUME NEW t \in Sweeper, sweep'[t].at = "scan", sweep'[t].given
                 PROVE  trees'[sweep'[t].repo] = "whole"
      BY DEF ScansWhole
    <3>1. CASE t = s
      BY <2>1, <2>3, <3>1
    <3>2. CASE t # s
      <4>1. sweep'[t] = sweep[t] /\ sweep[t].repo \in Repo /\ sweep[t].repo # r /\ trees[sweep[t].repo] = "whole"
        BY <1>0, <2>1, <2>5, <3>2, RunningType DEF Works, ScansWhole
      <4> QED
        BY <2>2, <4>1
    <3> QED
      BY <3>1, <3>2
  <2> QED
    BY <2>6, <2>7
<1>5. ASSUME NEW s \in Sweeper, Stop(s) PROVE PartialIsCloned' /\ ScansWhole'
  <2>1. /\ sweep'[s].at = "idle" /\ ~(sweep[s].at = "clone" /\ sweep[s].given)
        /\ \A t \in Sweeper \ {s} : sweep'[t] = sweep[t]
    BY <1>5, SweepMoves, OthersStay DEF Stop, SweepAt, Undisturbed
  <2>2. trees' = trees
    BY <1>5 DEF Stop
  <2> QED
    BY <1>0, <2>1, <2>2 DEF PartialIsCloned, ScansWhole
<1>6. CASE UNCHANGED sweepVars
  BY <1>0, <1>6 DEF sweepVars, PartialIsCloned, ScansWhole
<1> QED
  BY <1>1, <1>2, <1>3, <1>4, <1>5, <1>6 DEF SweepNext, StageStep

LEMMA AllWholeKept ==
  SweepTypeOK /\ OneAtEach /\ GivenTrees /\ AllWhole /\ [SweepNext]_sweepVars => AllWhole'
<1> SUFFICES ASSUME SweepTypeOK, GivenTrees, AllWhole, [SweepNext]_sweepVars PROVE AllWhole'
  OBVIOUS
<1>0. Undisturbed' => Undisturbed
  BY HistoryStays
<1>1. CASE StageStep
  <2>1. results' = results
    BY <1>1 DEF StageStep, Collect, Draft, Author, Emit
  <2>2. \A s \in Sweeper : sweep'[s].at = "write" => sweep[s].at = "write" /\ sweep'[s].res = sweep[s].res
    BY <1>1, AuthorMoves DEF StageStep, Collect, Draft, Emit
  <2> QED
    BY <1>0, <2>1, <2>2 DEF AllWhole, Whole
<1>2. ASSUME NEW s \in Sweeper, StartSweep(s) \/ Skip(s) \/ Begin(s) \/ Cloned(s) PROVE AllWhole'
  <2>1. sweep'[s].at # "write" /\ \A t \in Sweeper \ {s} : sweep'[t] = sweep[t]
    BY <1>2, SweepMoves, OthersStay
  <2>2. results' = results
    BY <1>2 DEF StartSweep, Skip, Begin, Cloned, stages
  <2> QED
    BY <1>0, <2>1, <2>2 DEF AllWhole, Whole
<1>3. ASSUME NEW s \in Sweeper, CloneFails(s) PROVE AllWhole'
  <2>1. sweep'[s].res = Failed /\ results' = results /\ \A t \in Sweeper \ {s} : sweep'[t] = sweep[t]
    BY <1>3, SweepMoves, OthersStay DEF CloneFails
  <2> QED
    BY <1>0, <2>1 DEF AllWhole, Whole, Failed
<1>4. ASSUME NEW s \in Sweeper, Scan(s) PROVE AllWhole'
  <2>1. results' = results /\ \A t \in Sweeper \ {s} : sweep'[t] = sweep[t]
    BY <1>4, OthersStay DEF Scan
  <2>2. CASE sweep'[s].res = Failed
    BY <1>0, <2>1, <2>2 DEF AllWhole, Whole, Failed
  <2>3. CASE sweep'[s].res # Failed
    <3>1. /\ sweep[s].at = "scan" /\ sweep'[s].res.given = sweep[s].given
          /\ sweep'[s].res.tree = IF sweep[s].given THEN trees[sweep[s].repo] ELSE "whole"
      BY <1>4, <2>3, ScanMoves
    <3>2. sweep[s].given /\ Undisturbed' => trees[sweep[s].repo] = "whole"
      BY <1>0, <3>1 DEF GivenTrees, ScansWhole
    <3>3. Whole(sweep[s].res)'
      BY <3>1, <3>2 DEF Whole
    <3> QED
      BY <1>0, <2>1, <3>3 DEF AllWhole, Whole
  <2> QED
    BY <2>2, <2>3
<1>5. ASSUME NEW s \in Sweeper, WriteResult(s) PROVE AllWhole'
  <2>1. sweep[s].at = "write" /\ sweep'[s].at # "write" /\ Whole(sweep[s].res)
    BY <1>5, SweepMoves DEF AllWhole
  <2>2. \A t \in Sweeper \ {s} : sweep'[t] = sweep[t]
    BY <1>5, OthersStay
  <2>3. \A r \in Repo : results'[r] = results[r] \/ results'[r] = sweep[s].res
    BY <1>5 DEF WriteResult, SweepTypeOK
  <2> QED
    BY <1>0, <2>1, <2>2, <2>3 DEF AllWhole, Whole
<1>6. ASSUME NEW s \in Sweeper, Stop(s) PROVE AllWhole'
  <2>1. sweep'[s].at = "idle" /\ \A t \in Sweeper \ {s} : sweep'[t] = sweep[t]
    BY <1>6, SweepMoves, OthersStay
  <2>2. \A r \in Repo : results'[r] = results[r] \/ results'[r] = TornFile
    BY <1>6 DEF Stop, SweepTypeOK
  <2> QED
    BY <1>0, <2>1, <2>2 DEF AllWhole, Whole, TornFile
<1>7. CASE UNCHANGED sweepVars
  BY <1>7 DEF sweepVars, sweepHistory, AllWhole, Whole, Undisturbed
<1> QED
  BY <1>1, <1>2, <1>3, <1>4, <1>5, <1>6, <1>7 DEF SweepNext, StageStep

-----------------------------------------------------------------------------
(* The theorems                                                            *)

LEMMA SweepInitially == SweepInit => SInv
<1> SUFFICES ASSUME SweepInit PROVE SInv
  OBVIOUS
<1>1. SweepTypeOK
  BY TypesInitially
<1>2. OneAtEach /\ GivenTrees /\ AllWhole /\ RuleIsAuthored
  BY DEF SweepInit, OneAtEach, Apart, Fresh, Reported, Works, GivenTrees, PartialIsCloned, ScansWhole,
         AllWhole, Whole, RuleIsAuthored, ByAuthored, NoSweep, None, NoReport
<1> QED
  BY <1>1, <1>2 DEF SInv

LEMMA SweepInvariant == SweepSpec => []SInv
<1>1. SInv /\ [SweepNext]_sweepVars => SInv'
  BY TypesKept, OneAtEachKept, GivenTreesKept, AllWholeKept, RuleKept DEF SInv
<1> QED
  BY <1>1, SweepInitially, PTL DEF SweepSpec

\* Every variable of the sweeps stays in its type.
THEOREM SweepTyped == SweepSpec => []SweepTypeOK
<1>1. SInv => SweepTypeOK
  BY DEF SInv
<1> QED
  BY <1>1, SweepInvariant, PTL

\* However many sweeps run, stop and are run again: a result that says a repository was
\* scanned stands on the whole of it, unless two were at one repository or a clone into the
\* given directory was cut short.
THEOREM ScannedWhole == SweepSpec => []ResultsAreWhole
<1>1. SInv => ResultsAreWhole
  BY DEF SInv, AllWhole, Whole, Undisturbed, ResultsAreWhole
<1> QED
  BY <1>1, SweepInvariant, PTL

\* Whatever draft does and a person writes at any time: no scan is by a rule that is not
\* authored, unless a person undid the rule in the call that scanned.
THEOREM NeverSweptASkeleton == SweepSpec => []SweptByAnAuthoredRule
<1>1. SInv => SweptByAnAuthoredRule
  BY DEF SInv, RuleIsAuthored, ByAuthored, SweptByAnAuthoredRule
<1> QED
  BY <1>1, SweepInvariant, PTL

\* What a report says stays what the result files say, unless two sweeps were at one repository.
THEOREM ReportKeepsItsWord == SweepSpec => []ReportStaysTrue
<1>1. SInv => ReportStaysTrue
  BY DEF SInv, OneAtEach, Reported, ReportStaysTrue
<1> QED
  BY <1>1, SweepInvariant, PTL

-----------------------------------------------------------------------------
(* What a reader of the files is promised                                  *)

LEMMA CampaignInitially == SweepInit => Campaign!Init
BY DEF SweepInit, Campaign!Init, NoReport, None

\* While no two sweeps were at one repository, a step writes a result where there was none, or
\* a report of the results, or neither.
LEMMA CampaignStep ==
  ASSUME SInv, [SweepNext]_sweepVars, ~met'
  PROVE  [Campaign!Next]_(Campaign!campaignVars)
<1>0. SweepTypeOK /\ Fresh
  BY HistoryStays DEF SInv, OneAtEach
<1>1. CASE Emit
  <2>1. /\ \A r \in Repo : results[r] # TornFile
        /\ report' \in {[is |-> "whole", says |-> results], TornFile} /\ results' = results
    BY <1>1 DEF Emit
  <2>2. Campaign!Tell
    BY <2>1 DEF Campaign!Tell
  <2> QED
    BY <2>2 DEF Campaign!Next
<1>2. ASSUME NEW s \in Sweeper, NEW res \in Result, sweep[s].at = "write",
             results' = [results EXCEPT ![sweep[s].repo] = res], report' = report
      PROVE  Campaign!Next
  <2>1. PICK r \in Repo : r = sweep[s].repo
    BY <1>0, <1>2 DEF SweepTypeOK, Sweep
  <2>2. results[r] = None
    BY <1>0, <1>2, <2>1 DEF Fresh, Works
  <2>3. Campaign!Settle
    BY <1>2, <2>1, <2>2 DEF Campaign!Settle
  <2> QED
    BY <2>3 DEF Campaign!Next
<1>3. ASSUME NEW s \in Sweeper, WriteResult(s) PROVE Campaign!Next
  <2>1. sweep[s].at = "write" /\ sweep[s].res \in Result
    BY <1>0, <1>3 DEF WriteResult, SweepAt, SweepTypeOK, Sweep
  <2> QED
    BY <1>2, <1>3, <2>1 DEF WriteResult
<1>4. ASSUME NEW s \in Sweeper, Stop(s) PROVE Campaign!Next \/ UNCHANGED Campaign!campaignVars
  <2>1. report' = report /\ TornFile \in Result
    BY <1>4 DEF Stop, Result
  <2>2. CASE results' = results
    BY <2>1, <2>2 DEF Campaign!campaignVars
  <2>3. CASE sweep[s].at = "write" /\ results' = [results EXCEPT ![sweep[s].repo] = TornFile]
    BY <1>2, <2>1, <2>3
  <2> QED
    BY <1>4, <2>2, <2>3 DEF Stop, SweepAt
<1>5. ASSUME \/ Collect \/ Draft \/ Author \/ UNCHANGED sweepVars
             \/ \E s \in Sweeper : \/ StartSweep(s) \/ Skip(s) \/ Begin(s) \/ Cloned(s)
                                   \/ CloneFails(s) \/ Scan(s)
      PROVE  UNCHANGED Campaign!campaignVars
  BY <1>5 DEF Collect, Draft, Author, StartSweep, Skip, Begin, Cloned, CloneFails, Scan, sweepVars,
              Campaign!campaignVars
<1> QED
  BY <1>1, <1>3, <1>4, <1>5 DEF SweepNext

\* However many sweeps run, stop and are run again: as long as no two of them were at one
\* repository, no result is made again, and each report is what the results were.
THEOREM SettledStays == SweepSpec => [][met' \/ Campaign!Next]_(Campaign!campaignVars)
<1>1. SInv /\ [SweepNext]_sweepVars => [met' \/ Campaign!Next]_(Campaign!campaignVars)
  BY CampaignStep
<1> QED
  BY <1>1, SweepInvariant, PTL DEF SweepSpec

\* A sweep that is run again and again, but not beside itself, implements SweepView, wherever
\* each run of it was cut short.
THEOREM ImplementsCampaign ==
  ASSUME NEW s, Sweeper = {s}
  PROVE  SweepSpec => ResumesWhatIsLeft
<1>1. SweepInit => ~met
  BY DEF SweepInit
<1>2. ~met /\ [SweepNext]_sweepVars => ~met'
  <2> SUFFICES ASSUME ~met, [SweepNext]_sweepVars PROVE ~met'
    OBVIOUS
  <2>1. ASSUME NEW t \in Sweeper, Begin(t) PROVE ~met'
    BY <2>1 DEF Begin
  <2>2. ASSUME NEW t \in Sweeper, \/ StartSweep(t) \/ Skip(t) \/ Cloned(t) \/ CloneFails(t)
                                  \/ Scan(t) \/ WriteResult(t) \/ Stop(t)
        PROVE  ~met'
    BY <2>2 DEF StartSweep, Skip, Cloned, CloneFails, Scan, WriteResult, Stop, sweepHistory
  <2>3. CASE Collect \/ Draft \/ Author \/ Emit \/ UNCHANGED sweepVars
    BY <2>3 DEF Collect, Draft, Author, Emit, sweepVars, sweepHistory
  <2> QED
    BY <2>1, <2>2, <2>3 DEF SweepNext
<1>3. SInv /\ ~met' /\ [SweepNext]_sweepVars => [Campaign!Next]_(Campaign!campaignVars)
  BY CampaignStep
<1> QED
  BY <1>1, <1>2, <1>3, CampaignInitially, SweepInvariant, PTL
  DEF SweepSpec, Campaign!Spec, ResumesWhatIsLeft

=============================================================================
