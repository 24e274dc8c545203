----------------------------- MODULE ImpactScan -----------------------------
(***************************************************************************)
(* One impact analysis of an advisory across the fleet                     *)
(* (impact/analyzer.py, _execute): the graph names the repositories that   *)
(* require the module, each is classified from what the graph says, and    *)
(* the ones it cannot settle are cloned and scanned by a pool of threads   *)
(* whose results are taken in the order in which they come.                *)
(*                                                                         *)
(* Evidence is the record of what the tiers saw, "none" where one did not  *)
(* run.  What a tier sees depends on tools and trees outside the code, so  *)
(* an analyzer is the set of evidence it can leave.  Not kept: evidence    *)
(* that no verdict reads (the level, the witness, the SBOM), and feature   *)
(* patterns, which no analyzer sets.                                       *)
(***************************************************************************)
EXTENDS Integers, Sequences, FiniteSets

CONSTANTS Target,   \* repositories that require the module
          Jobs      \* threads of the pool

ASSUME ImpactAssumption == Jobs \in Nat \ {0}

VARIABLES ecosystem,   \* the advisory's; "surface": actions, docker, helm
          graph,       \* the graph-only pass: evidence and class of each repository
          entry,       \* the same, as repos_result has it by now
          scan,        \* where the scan of each repository is
          found,       \* what a scan that is done returned
          artifact,    \* the *-impact-analysis.json
          phase        \* where _execute is

impactVars == <<ecosystem, graph, entry, scan, found, artifact, phase>>

Ecosystem == {"go", "manifest", "surface"}
Class     == {"affected", "likely_affected", "inconclusive", "not_observed", "version_not_in_range"}
Evidence  == [range    : {"in", "out", "none"},
              imported : {"yes", "no", "none"},
              govuln   : {"none", "symbol", "package", "module"},
              image    : {"none", "present", "absent"},
              manifest : {"none", "no manifests", "in", "out", "not in"},
              source   : {"none", "found", "not found"},
              symbols  : {"none", "used", "not found"},
              linked   : {"none", "linked", "not linked"},
              joern    : {"none", "symbol", "package", "no call"}]
Nothing   == [range |-> "none", imported |-> "none", govuln |-> "none", image |-> "none",
              manifest |-> "none", source |-> "none", symbols |-> "none",
              linked |-> "none", joern |-> "none"]
Entry     == [class : Class, seen : Evidence]
Unscanned == [class |-> "inconclusive", seen |-> Nothing]
Scan      == {"no", "queued", "running", "done", "clone failed", "raised", "taken", "lost", "error"}
NoDoc     == [is |-> "none"]

ImpactInit ==
  /\ ecosystem = "go" /\ phase = "start" /\ artifact = NoDoc
  /\ graph = [t \in Target |-> Unscanned] /\ entry = graph /\ found = graph
  /\ scan = [t \in Target |-> "no"]

-----------------------------------------------------------------------------
(* classify: the first rule that applies                                   *)

Imported(e, eco) == e.source = "found" \/ (eco # "go" /\ e.imported = "yes")

ImportRules(e, eco) == \* Mutation: a missing import demotes in every ecosystem
  <<<<e.imported = "no", "not_observed">>>>
GoImportRules(e, eco) ==
  <<<<eco = "go" /\ e.imported = "no", "not_observed">>>>

ToolRules(e) == <<
  <<e.range = "out",                              "version_not_in_range">>,
  <<e.govuln = "symbol",                          "affected">>,
  <<e.joern = "symbol",                           "affected">>,
  <<e.govuln = "package" \/ e.govuln = "module", "not_observed">>,
  <<e.image = "absent",                           "not_observed">> >>
ManifestRules(e, eco) == <<
  <<e.image = "present" /\ e.imported # "no",          "likely_affected">>,
  <<eco = "go" /\ e.imported = "yes",                  "likely_affected">>,
  <<e.symbols = "used",                                "likely_affected">>,
  <<e.manifest = "out",                                "version_not_in_range">>,
  <<e.manifest = "in",                                 "likely_affected">>,
  <<e.linked = "linked",                               "likely_affected">>,
  <<e.manifest = "not in" /\ ~Imported(e, eco),        "not_observed">>,
  <<e.linked = "not linked" /\ ~Imported(e, eco),      "not_observed">>,
  <<Imported(e, eco),                                  "likely_affected">>,
  <<TRUE,                                              "inconclusive">> >>

Classify(e, eco) ==
  LET rules == ToolRules(e) \o GoImportRules(e, eco) \o ManifestRules(e, eco)
      first == CHOOSE i \in DOMAIN rules : rules[i][1] /\ \A j \in 1..i - 1 : ~rules[j][1]
  IN rules[first][2]

-----------------------------------------------------------------------------
(* The analyzers: the evidence each can leave, given what the graph said   *)

\* govulncheck may be missing, time out or fail; shipped images may be absent.
GoAnalyzer(e) ==
  {[e EXCEPT !.govuln = "symbol"]}
    \cup {[e EXCEPT !.govuln = g, !.image = i] :
            g \in {"none", "package", "module"}, i \in {"none", "present", "absent"}}

\* rg may be missing or time out; the symbol scan needs an advisory that names symbols.
SourceScans(e) == {[e EXCEPT !.source = s, !.symbols = y] :
                     s \in {"none", "found", "not found"}, y \in {"none", "used", "not found"}}
ManifestScans(e) == {[e EXCEPT !.manifest = m] : m \in {"no manifests", "in", "out", "not in"}}
LockfileAnalyzer(e) == UNION {SourceScans(f) : f \in ManifestScans(e)}
SurfaceAnalyzer(e)  == ManifestScans(e)

LibraryScans(e) == {[e EXCEPT !.source = s, !.linked = l] :
                      s \in {"none", "found", "not found"}, l \in {"none", "linked", "not linked"}}
JoernScans(e) == {[e EXCEPT !.joern = j] : j \in {"symbol", "package", "no call"}}
\* joern runs where the library was seen.
CAnalyzer(e) ==
  LET seen == {f \in LibraryScans(e) : f.source = "found" \/ f.linked = "linked"}
  IN LibraryScans(e) \cup UNION {JoernScans(f) : f \in seen}

\* analyze_repo: outside go the ecosystem decides, in it the language that was detected.
Analyze(e, eco) ==
  CASE eco = "surface"  -> SurfaceAnalyzer(e)
    [] eco = "manifest" -> LockfileAnalyzer(e)
    [] eco = "go"       -> {e} \cup GoAnalyzer(e) \cup LockfileAnalyzer(e) \cup CAnalyzer(e)

-----------------------------------------------------------------------------
(* _execute                                                                *)

\* What the graph knows of a repository: whether its version is in range, and, where the graph
\* has imports at all, whether it imports the package.
GraphEvidence(imports) ==
  UNION {{[Nothing EXCEPT !.range = r, !.imported = i] : r \in {"in", "out", "none"}} : i \in imports}

\* Queued are those the graph does not settle, but for some that are not to be scanned whatever
\* it says (no URL, or the caller skips the scan).
Queued(entries, off) == [t \in Target |->
  IF t \notin off /\ entries[t].class \in {"likely_affected", "inconclusive"} THEN "queued" ELSE "no"]

\* The blast radius and the graph-only pass.
QueryGraph ==
  /\ phase = "start" /\ phase' = "scanning"
  /\ \E eco \in Ecosystem, imports \in {{"none"}, {"yes", "no"}}, off \in SUBSET Target :
       \E seen \in [Target -> GraphEvidence(imports)] :
         /\ ecosystem' = eco
         /\ graph' = [t \in Target |-> [class |-> Classify(seen[t], eco), seen |-> seen[t]]]
         /\ entry' = graph' /\ scan' = Queued(graph', off)
  /\ UNCHANGED <<found, artifact>>

ScanIs(t, at) == phase = "scanning" /\ scan[t] = at
Becomes(t, at) == scan' = [scan EXCEPT ![t] = at]

StartScan(t) ==
  /\ ScanIs(t, "queued") /\ Becomes(t, "running")
  /\ Cardinality({u \in Target : scan[u] = "running"}) < Jobs
  /\ UNCHANGED <<ecosystem, graph, entry, found, artifact, phase>>

ScanEnds(t) ==
  /\ ScanIs(t, "running") /\ Becomes(t, "done")
  /\ \E e \in Analyze(graph[t].seen, ecosystem) :
       found' = [found EXCEPT ![t] = [class |-> Classify(e, ecosystem), seen |-> e]]
  /\ UNCHANGED <<ecosystem, graph, entry, artifact, phase>>

\* git returns an error: inconclusive, and no exception.
CloneFailsScan(t) ==
  /\ ScanIs(t, "running") /\ Becomes(t, "clone failed")
  /\ found' = [found EXCEPT ![t] = [class |-> "inconclusive", seen |-> graph[t].seen]]
  /\ UNCHANGED <<ecosystem, graph, entry, artifact, phase>>

\* The clone takes too long, a tool is not there, a tier has a fault.
ScanRaises(t) ==
  /\ ScanIs(t, "running") /\ Becomes(t, "raised")
  /\ UNCHANGED <<ecosystem, graph, entry, found, artifact, phase>>

TakeResultFirst(t) == \* Mutation: the entry the result goes to is not looked for
  /\ ScanIs(t, "done") \/ ScanIs(t, "clone failed")
  /\ Becomes(t, IF scan[t] = "done" THEN "taken" ELSE "lost")
  /\ LET u == CHOOSE u \in Target : scan[u] # "no" IN entry' = [entry EXCEPT ![u] = found[t]]
  /\ UNCHANGED <<ecosystem, graph, found, artifact, phase>>

\* as_completed: the result goes to the entry of its repository.
TakeResult(t) ==
  /\ ScanIs(t, "done") \/ ScanIs(t, "clone failed")
  /\ Becomes(t, IF scan[t] = "done" THEN "taken" ELSE "lost")
  /\ entry' = [entry EXCEPT ![t] = found[t]]
  /\ UNCHANGED <<ecosystem, graph, found, artifact, phase>>

\* ... and an exception is noted, and leaves the entry as the graph made it.
TakeError(t) ==
  /\ ScanIs(t, "raised") /\ Becomes(t, "error")
  /\ UNCHANGED <<ecosystem, graph, entry, found, artifact, phase>>

Scanned == {t \in Target : scan[t] # "no"}

\* Refuses to write when every scan raised.
Finish ==
  /\ phase = "scanning" /\ \A t \in Target : scan[t] \in {"no", "taken", "lost", "error"}
  /\ IF Scanned # {} /\ \A t \in Scanned : scan[t] = "error"
     THEN phase' = "refused" /\ artifact' = artifact
     ELSE phase' = "written" /\ artifact' = [is |-> "whole", repos |-> entry]
  /\ UNCHANGED <<ecosystem, graph, entry, scan, found>>

ImpactNext == QueryGraph \/ Finish \/ \E t \in Target :
  \/ StartScan(t) \/ ScanEnds(t) \/ CloneFailsScan(t) \/ ScanRaises(t)
  \/ TakeResult(t) \/ TakeError(t)

ImpactSpec == ImpactInit /\ [][ImpactNext]_impactVars

-----------------------------------------------------------------------------
(* Properties                                                              *)

\* Every variable stays in its type.
ImpactTypeOK ==
  /\ ecosystem \in Ecosystem /\ phase \in {"start", "scanning", "written", "refused"}
  /\ graph \in [Target -> Entry] /\ entry \in [Target -> Entry] /\ found \in [Target -> Entry]
  /\ scan \in [Target -> Scan]
  /\ artifact \in {NoDoc} \cup [is : {"whole"}, repos : [Target -> Entry]]

Written == artifact.is = "whole"

\* Whatever order the pool's scans end in, the artifact has for every repository what its own
\* scan returned, and what the graph said where there was none or it raised.
EachRepoItsOwn == Written => \A t \in Target :
  artifact.repos[t] = IF scan[t] \in {"taken", "lost"} THEN found[t] ELSE graph[t]

\* Absence alone never demotes: the artifact says of a repository that the module is not
\* observed, or not in a vulnerable version, only where the graph knows a version that is out
\* of range, where a go repository does not import the package, or where a tool ran on the
\* tree or the images and did not see it - never because an import is missing outside go,
\* because joern resolved no call, because the clone failed or because something raised.
DemotedOnEvidence == Written => \A t \in Target :
  LET e == artifact.repos[t].seen
  IN artifact.repos[t].class \in {"not_observed", "version_not_in_range"} =>
       \/ e.range = "out" \/ (ecosystem = "go" /\ e.imported = "no")
       \/ e.govuln \in {"package", "module"} \/ e.image = "absent"
       \/ e.manifest \in {"out", "not in"} \/ e.linked = "not linked"

=============================================================================
