--------------------------- MODULE AnalysisProofs ---------------------------
(***************************************************************************)
(* Theorems of what an impact analysis is made of: the pool of scans and   *)
(* the evidence they leave, the advisory, the programs that are run, the   *)
(* lookups at OSV; of the clock of a finding; and of the composition of    *)
(* the five.  Each holds for any values of its module's constants.         *)
(***************************************************************************)
EXTENDS MCAnalysis, FiniteSetTheorems, SequenceTheorems, WellFoundedInduction, TLAPS

(***************************************************************************)
(* Sets of numbers                                                         *)
(***************************************************************************)

\* A set of naturals has its least.
LEMMA HasLeast ==
  ASSUME NEW S \in SUBSET Nat, S # {}
  PROVE  \E d \in S : \A o \in S : d <= o
<1> DEFINE Upto == {0..d : d \in S}
<1>1. Upto \subseteq FiniteSubsetsOf(Nat) /\ Upto # {}
  <2>1. ASSUME NEW d \in S PROVE 0..d \in FiniteSubsetsOf(Nat)
    <3>1. IsFiniteSet(0..d) /\ 0..d \in SUBSET Nat
      BY FS_Interval
    <3> QED
      BY <3>1 DEF FiniteSubsetsOf
  <2> QED
    BY <2>1
<1>2. PICK u \in Upto : \A v \in Upto : ~(<<v, u>> \in StrictSubsetOrdering(Nat))
  BY <1>1, FS_StrictSubsetOrderingWellFounded, WFMin
<1>3. PICK d \in S : u = 0..d
  OBVIOUS
<1>4. \A o \in S : d <= o
  <2> SUFFICES ASSUME NEW o \in S, o < d PROVE FALSE
    OBVIOUS
  <2>1. 0..o \in Upto /\ 0..o \in SUBSET Nat /\ 0..d \in SUBSET Nat
    OBVIOUS
  <2>2. 0..o \subseteq 0..d /\ 0..o # 0..d
    <3>1. d \in 0..d /\ d \notin 0..o /\ 0..o \subseteq 0..d
      OBVIOUS
    <3> QED
      BY <3>1
  <2>3. <<0..o, 0..d>> \in StrictSubsetOrdering(Nat)
    BY <2>1, <2>2 DEF StrictSubsetOrdering
  <2> QED
    BY <1>2, <1>3, <2>1, <2>3
<1> QED
  BY <1>4

\* Induction, over a set and not a predicate: what holds at m and is handed on holds up to n.
LEMMA Climb ==
  ASSUME NEW m \in Int, NEW n \in Int, NEW S, 0 <= m, m \in S,
         \A i \in m..n - 1 : i \in S => i + 1 \in S
  PROVE  m..n \subseteq S
<1> SUFFICES ASSUME m..n \ S # {} PROVE FALSE
  OBVIOUS
<1>1. PICK d \in m..n \ S : \A o \in m..n \ S : d <= o
  <2>1. m..n \ S \in SUBSET Nat
    OBVIOUS
  <2> QED
    BY <2>1, HasLeast
<1>2. d # m /\ d - 1 \in m..n - 1
  BY <1>1
<1>3. d - 1 \in S
  BY <1>1, <1>2
<1>4. (d - 1) + 1 \in S
  BY <1>2, <1>3
<1> QED
  BY <1>1, <1>4

(***************************************************************************)
(* The pool of scans                                                       *)
(***************************************************************************)

\* An entry is what its own scan returned once that was taken, and what the graph said before
\* and where there is none; once the artifact is written, it is the entries and stays so.
EntryIsOwn == \A t \in Target :
  entry[t] = IF scan[t] \in {"taken", "lost"} THEN found[t] ELSE graph[t]
ArtifactIsEntries == Written => phase = "written" /\ artifact.repos = entry
PerTarget == DOMAIN entry = Target /\ DOMAIN scan = Target /\ DOMAIN found = Target

IInv == PerTarget /\ EntryIsOwn /\ ArtifactIsEntries

LEMMA ImpactInitially == ImpactInit => IInv
BY DEF ImpactInit, IInv, PerTarget, EntryIsOwn, ArtifactIsEntries, Written, NoDoc

\* The graph-only pass makes every entry, and queues some of the scans.
LEMMA QueryMakes ==
  ASSUME QueryGraph
  PROVE  /\ entry' = graph' /\ DOMAIN entry' = Target /\ found' = found /\ artifact' = artifact
         /\ DOMAIN scan' = Target /\ \A t \in Target : scan'[t] \in {"queued", "no"}
         /\ phase = "start"
<1>1. PICK eco \in Ecosystem, imports \in {{"none"}, {"yes", "no"}}, off \in SUBSET Target :
        \E seen \in [Target -> GraphEvidence(imports)] :
          /\ graph' = [t \in Target |-> [class |-> Classify(seen[t], eco), seen |-> seen[t]]]
          /\ entry' = graph' /\ scan' = Queued(graph', off)
  BY DEF QueryGraph
<1>2. DOMAIN graph' = Target /\ entry' = graph'
  BY <1>1
<1>3. DOMAIN scan' = Target /\ \A t \in Target : scan'[t] \in {"queued", "no"}
  BY <1>1 DEF Queued
<1>4. found' = found /\ artifact' = artifact /\ phase = "start"
  BY DEF QueryGraph
<1> QED
  BY <1>2, <1>3, <1>4

LEMMA ImpactStep == IInv /\ [ImpactNext]_impactVars => IInv'
<1> SUFFICES ASSUME IInv, [ImpactNext]_impactVars PROVE IInv'
  OBVIOUS
<1>0. PerTarget /\ EntryIsOwn /\ ArtifactIsEntries
  BY DEF IInv
<1>1. CASE QueryGraph
  <2>1. PerTarget' /\ EntryIsOwn'
    BY <1>0, <1>1, QueryMakes DEF PerTarget, EntryIsOwn
  <2>2. ArtifactIsEntries'
    BY <1>0, <1>1, QueryMakes DEF ArtifactIsEntries, Written
  <2> QED
    BY <2>1, <2>2 DEF IInv
<1>2. CASE Finish
  <2>1. UNCHANGED <<ecosystem, graph, entry, scan, found>>
    BY <1>2 DEF Finish
  <2>2. \/ artifact' = artifact /\ phase = "scanning"
        \/ artifact' = [is |-> "whole", repos |-> entry] /\ phase' = "written"
    BY <1>2 DEF Finish
  <2>3. ArtifactIsEntries'
    BY <1>0, <2>1, <2>2 DEF ArtifactIsEntries, Written
  <2> QED
    BY <1>0, <2>1, <2>3 DEF IInv, PerTarget, EntryIsOwn
<1>3. ASSUME NEW t \in Target,
             \/ StartScan(t) \/ ScanEnds(t) \/ CloneFailsScan(t) \/ ScanRaises(t)
             \/ TakeResult(t) \/ TakeError(t)
      PROVE  IInv'
  <2>1. phase = "scanning" /\ artifact' = artifact /\ phase' = phase /\ graph' = graph
    BY <1>3 DEF StartScan, ScanEnds, CloneFailsScan, ScanRaises, TakeResult, TakeError, ScanIs
  <2>2. ArtifactIsEntries'
    BY <1>0, <2>1 DEF ArtifactIsEntries, Written
  <2>3. CASE StartScan(t) \/ ScanRaises(t) \/ TakeError(t)
    BY <1>0, <2>1, <2>2, <2>3
       DEF StartScan, ScanRaises, TakeError, ScanIs, Becomes, IInv, PerTarget, EntryIsOwn
  <2>4. CASE ScanEnds(t) \/ CloneFailsScan(t)
    <3>1. /\ scan[t] = "running" /\ entry' = entry
          /\ \E at \in {"done", "clone failed"} : scan' = [scan EXCEPT ![t] = at]
          /\ \E res : found' = [found EXCEPT ![t] = res]
      BY <2>4 DEF ScanEnds, CloneFailsScan, ScanIs, Becomes
    <3>2. PerTarget' /\ \A u \in Target \ {t} : scan'[u] = scan[u] /\ found'[u] = found[u]
      BY <1>0, <3>1 DEF PerTarget
    <3>3. scan'[t] \in {"done", "clone failed"}
      BY <1>0, <3>1 DEF PerTarget
    <3>4. EntryIsOwn'
      BY <1>0, <2>1, <3>1, <3>2, <3>3 DEF EntryIsOwn
    <3> QED
      BY <2>2, <3>2, <3>4 DEF IInv
  <2>5. CASE TakeResult(t)
    <3>1. /\ found' = found /\ entry' = [entry EXCEPT ![t] = found[t]]
          /\ \E at \in {"taken", "lost"} : scan' = [scan EXCEPT ![t] = at]
      BY <2>5 DEF TakeResult, Becomes
    <3>2. PerTarget' /\ \A u \in Target \ {t} : scan'[u] = scan[u] /\ entry'[u] = entry[u]
      BY <1>0, <3>1 DEF PerTarget
    <3>3. scan'[t] \in {"taken", "lost"} /\ entry'[t] = found[t]
      BY <1>0, <3>1 DEF PerTarget
    <3>4. EntryIsOwn'
      BY <1>0, <2>1, <3>1, <3>2, <3>3 DEF EntryIsOwn
    <3> QED
      BY <2>2, <3>2, <3>4 DEF IInv
  <2> QED
    BY <1>3, <2>3, <2>4, <2>5
<1>4. CASE UNCHANGED impactVars
  BY <1>0, <1>4 DEF impactVars, IInv, PerTarget, EntryIsOwn, ArtifactIsEntries, Written
<1> QED
  BY <1>1, <1>2, <1>3, <1>4 DEF ImpactNext

\* Whatever order the scans of the pool end in, fail or raise, the artifact has for every
\* repository what its own scan returned, and what the graph said where none was taken.
THEOREM ScansAreNotMixedUp == ImpactSpec => []EachRepoItsOwn
<1>1. IInv => EachRepoItsOwn
  BY DEF IInv, EntryIsOwn, ArtifactIsEntries, EachRepoItsOwn
<1> QED
  BY <1>1, ImpactInitially, ImpactStep, PTL DEF ImpactSpec

(***************************************************************************)
(* classify                                                                *)
(***************************************************************************)

Demoting == {"not_observed", "version_not_in_range"}

Evident(e, eco) ==
  \/ e.range = "out" \/ (eco = "go" /\ e.imported = "no")
  \/ e.govuln \in {"package", "module"} \/ e.image = "absent"
  \/ e.manifest \in {"out", "not in"} \/ e.linked = "not linked"

\* A rule gives a class, and one that demotes asks for evidence.
SoundRules(e, eco) == {r \in BOOLEAN \X Class : r[1] /\ r[2] \in Demoting => Evident(e, eco)}

\* A list that is written out is a sequence of what it lists.
LEMMA SeqOf1 ==
  ASSUME NEW S, NEW a1 \in S
  PROVE  <<a1>> \in Seq(S) /\ Len(<<a1>>) = 1
OBVIOUS

LEMMA SeqOf5 ==
  ASSUME NEW S, NEW a1 \in S, NEW a2 \in S, NEW a3 \in S, NEW a4 \in S, NEW a5 \in S
  PROVE  <<a1, a2, a3, a4, a5>> \in Seq(S) /\ Len(<<a1, a2, a3, a4, a5>>) = 5
OBVIOUS

LEMMA SeqOf10 ==
  ASSUME NEW S, NEW a1 \in S, NEW a2 \in S, NEW a3 \in S, NEW a4 \in S, NEW a5 \in S,
         NEW a6 \in S, NEW a7 \in S, NEW a8 \in S, NEW a9 \in S, NEW a10 \in S
  PROVE  /\ <<a1, a2, a3, a4, a5, a6, a7, a8, a9, a10>> \in Seq(S)
         /\ Len(<<a1, a2, a3, a4, a5, a6, a7, a8, a9, a10>>) = 10
OBVIOUS

\* Each rule of the tools demotes on evidence only.
LEMMA ToolRulesSound ==
  ASSUME NEW e, NEW eco
  PROVE  ToolRules(e) \in Seq(SoundRules(e, eco)) /\ Len(ToolRules(e)) = 5
<1> DEFINE rules == ToolRules(e)
<1>1. rules[1] \in SoundRules(e, eco)
  BY DEF ToolRules, SoundRules, Class, Demoting, Evident, Imported
<1>2. rules[2] \in SoundRules(e, eco)
  BY DEF ToolRules, SoundRules, Class, Demoting, Evident, Imported
<1>3. rules[3] \in SoundRules(e, eco)
  BY DEF ToolRules, SoundRules, Class, Demoting, Evident, Imported
<1>4. rules[4] \in SoundRules(e, eco)
  BY DEF ToolRules, SoundRules, Class, Demoting, Evident, Imported
<1>5. rules[5] \in SoundRules(e, eco)
  BY DEF ToolRules, SoundRules, Class, Demoting, Evident, Imported
<1>6. rules = <<rules[1], rules[2], rules[3], rules[4], rules[5]>>
  BY DEF ToolRules
<1> HIDE DEF rules
<1>7. <<rules[1], rules[2], rules[3], rules[4], rules[5]>> \in Seq(SoundRules(e, eco))
       /\ Len(<<rules[1], rules[2], rules[3], rules[4], rules[5]>>) = 5
  BY <1>1, <1>2, <1>3, <1>4, <1>5, SeqOf5
<1>8. rules \in Seq(SoundRules(e, eco)) /\ Len(rules) = 5
  BY <1>6, <1>7, Zenon
<1> QED
  BY <1>8 DEF rules

\* So does the one of the imports of Go.
LEMMA GoImportRulesSound ==
  ASSUME NEW e, NEW eco
  PROVE  GoImportRules(e, eco) \in Seq(SoundRules(e, eco)) /\ Len(GoImportRules(e, eco)) = 1
<1> DEFINE rules == GoImportRules(e, eco)
<1>1. rules[1] \in SoundRules(e, eco)
  BY DEF GoImportRules, SoundRules, Class, Demoting, Evident, Imported
<1>2. rules = <<rules[1]>>
  BY DEF GoImportRules
<1> HIDE DEF rules
<1>3. <<rules[1]>> \in Seq(SoundRules(e, eco))
       /\ Len(<<rules[1]>>) = 1
  BY <1>1, SeqOf1
<1>4. rules \in Seq(SoundRules(e, eco)) /\ Len(rules) = 1
  BY <1>2, <1>3, Zenon
<1> QED
  BY <1>4 DEF rules

\* And so does each of the manifest, of which the last always applies.
LEMMA ManifestRulesSound ==
  ASSUME NEW e, NEW eco
  PROVE  ManifestRules(e, eco) \in Seq(SoundRules(e, eco)) /\ Len(ManifestRules(e, eco)) = 10 /\ ManifestRules(e, eco)[10][1]
<1> DEFINE rules == ManifestRules(e, eco)
<1>1. rules[1] \in SoundRules(e, eco)
  BY DEF ManifestRules, SoundRules, Class, Demoting, Evident, Imported
<1>2. rules[2] \in SoundRules(e, eco)
  BY DEF ManifestRules, SoundRules, Class, Demoting, Evident, Imported
<1>3. rules[3] \in SoundRules(e, eco)
  BY DEF ManifestRules, SoundRules, Class, Demoting, Evident, Imported
<1>4. rules[4] \in SoundRules(e, eco)
  BY DEF ManifestRules, SoundRules, Class, Demoting, Evident, Imported
<1>5. rules[5] \in SoundRules(e, eco)
  BY DEF ManifestRules, SoundRules, Class, Demoting, Evident, Imported
<1>6. rules[6] \in SoundRules(e, eco)
  BY DEF ManifestRules, SoundRules, Class, Demoting, Evident, Imported
<1>7. rules[7] \in SoundRules(e, eco)
  BY DEF ManifestRules, SoundRules, Class, Demoting, Evident, Imported
<1>8. rules[8] \in SoundRules(e, eco)
  BY DEF ManifestRules, SoundRules, Class, Demoting, Evident, Imported
<1>9. rules[9] \in SoundRules(e, eco)
  BY DEF ManifestRules, SoundRules, Class, Demoting, Evident, Imported
<1>10. rules[10] \in SoundRules(e, eco)
  BY DEF ManifestRules, SoundRules, Class, Demoting, Evident, Imported
<1>11. rules = <<rules[1], rules[2], rules[3], rules[4], rules[5], rules[6], rules[7], rules[8], rules[9], rules[10]>>
  BY DEF ManifestRules
<1>12. rules[10][1]
  BY DEF ManifestRules
<1> HIDE DEF rules
<1>13. <<rules[1], rules[2], rules[3], rules[4], rules[5], rules[6], rules[7], rules[8], rules[9], rules[10]>> \in Seq(SoundRules(e, eco))
       /\ Len(<<rules[1], rules[2], rules[3], rules[4], rules[5], rules[6], rules[7], rules[8], rules[9], rules[10]>>) = 10
  BY <1>1, <1>2, <1>3, <1>4, <1>5, <1>6, <1>7, <1>8, <1>9, <1>10, SeqOf10
<1>14. rules \in Seq(SoundRules(e, eco)) /\ Len(rules) = 10
  BY <1>11, <1>13, Zenon
<1> QED
  BY <1>14, <1>12 DEF rules

\* Three sequences in a row end as the third does.
LEMMA InARow ==
  ASSUME NEW S, NEW s \in Seq(S), NEW t \in Seq(S), NEW u \in Seq(S)
  PROVE  /\ s \o t \o u \in Seq(S) /\ Len(s \o t \o u) = Len(s) + Len(t) + Len(u)
         /\ Len(u) > 0 => (s \o t \o u)[Len(s) + Len(t) + Len(u)] = u[Len(u)]
<1>1. PICK q \in Seq(S) : q = s \o t
  BY ConcatProperties
<1>2. Len(q) = Len(s) + Len(t) /\ Len(s) \in Nat /\ Len(t) \in Nat /\ Len(u) \in Nat
  BY <1>1
<1>3. q \o u \in Seq(S) /\ Len(q \o u) = Len(q) + Len(u)
  BY ConcatProperties
<1>4. ASSUME Len(u) > 0 PROVE (q \o u)[Len(q) + Len(u)] = u[Len(u)]
  BY <1>2, <1>4
<1> QED
  BY <1>1, <1>2, <1>3, <1>4

\* Whatever the evidence, some rule applies, and the first that does asks for it.
LEMMA ClassifySound ==
  ASSUME NEW e, NEW eco
  PROVE  Classify(e, eco) \in Class /\ (Classify(e, eco) \in Demoting => Evident(e, eco))
<1>1. PICK rules : rules = ToolRules(e) \o GoImportRules(e, eco) \o ManifestRules(e, eco)
  OBVIOUS
<1> DEFINE S == SoundRules(e, eco)
           applies == {i \in 1..16 : rules[i][1]}
           first == CHOOSE i \in DOMAIN rules : rules[i][1] /\ \A j \in 1..i - 1 : ~rules[j][1]
<1>2. rules \in Seq(S) /\ Len(rules) = 16 /\ rules[16][1]
  <2>1. PICK s \in Seq(S) : s = ToolRules(e) /\ Len(s) = 5
    BY ToolRulesSound
  <2>2. PICK t \in Seq(S) : t = GoImportRules(e, eco) /\ Len(t) = 1
    BY GoImportRulesSound
  <2>3. PICK u \in Seq(S) : u = ManifestRules(e, eco) /\ Len(u) = 10 /\ u[10][1]
    BY ManifestRulesSound
  <2> HIDE DEF S
  <2>4. rules = s \o t \o u
    BY <1>1, <2>1, <2>2, <2>3
  <2>5. /\ s \o t \o u \in Seq(S) /\ Len(s \o t \o u) = Len(s) + Len(t) + Len(u)
        /\ Len(u) > 0 => (s \o t \o u)[Len(s) + Len(t) + Len(u)] = u[Len(u)]
    BY InARow
  <2>6. rules \in Seq(S) /\ Len(rules) = 16
    BY <2>1, <2>2, <2>3, <2>4, <2>5
  <2>7. rules[16] = u[10]
    BY <2>1, <2>2, <2>3, <2>4, <2>5
  <2> QED
    BY <2>3, <2>6, <2>7
<1>3. DOMAIN rules = 1..16 /\ \A i \in 1..16 : rules[i] \in S
  <2> HIDE DEF S
  <2>1. DOMAIN rules = 1..Len(rules) /\ rules \in [1..Len(rules) -> S]
    BY <1>2, LenProperties, Zenon
  <2> QED
    BY <1>2, <2>1
<1>4. 16 \in applies /\ applies \in SUBSET Nat
  <2>1. 16 \in 1..16 /\ 1..16 \in SUBSET Nat
    OBVIOUS
  <2> QED
    BY <1>2, <2>1, Zenon
<1>5. PICK d \in applies : \A o \in applies : d <= o
  BY <1>4, HasLeast
<1>6. rules[d][1] /\ \A j \in 1..d - 1 : ~rules[j][1]
  BY <1>5
<1>7. first \in 1..16 /\ rules[first][1]
  BY <1>3, <1>5, <1>6
<1>8. Classify(e, eco) = rules[first][2]
  BY <1>1, Zenon DEF Classify
<1>9. rules[first] \in SoundRules(e, eco)
  BY <1>3, <1>7
<1> QED
  BY <1>7, <1>8, <1>9 DEF SoundRules

\* An analyzer leaves evidence.
LEMMA AnalyzeLeaves ==
  ASSUME NEW e \in Evidence, NEW eco \in Ecosystem
  PROVE  Analyze(e, eco) \subseteq Evidence
<1>1. GoAnalyzer(e) \subseteq Evidence
  <2>1. [e EXCEPT !.govuln = "symbol"] \in Evidence
    BY DEF Evidence
  <2>2. \A g \in {"none", "package", "module"}, i \in {"none", "present", "absent"} :
          [e EXCEPT !.govuln = g, !.image = i] \in Evidence
    BY DEF Evidence
  <2> QED
    BY <2>1, <2>2 DEF GoAnalyzer
<1>2. ASSUME NEW f \in Evidence
      PROVE  /\ ManifestScans(f) \subseteq Evidence /\ SourceScans(f) \subseteq Evidence
             /\ JoernScans(f) \subseteq Evidence
  <2>1. \A m \in {"no manifests", "in", "out", "not in"} : [f EXCEPT !.manifest = m] \in Evidence
    BY DEF Evidence
  <2>3. ManifestScans(f) \subseteq Evidence
    BY <2>1, Zenon DEF ManifestScans
  <2>2. \A s \in {"none", "found", "not found"}, y \in {"none", "used", "not found"} :
          [f EXCEPT !.source = s, !.symbols = y] \in Evidence
    BY DEF Evidence
  <2>4. ASSUME NEW g \in SourceScans(f) PROVE g \in Evidence
    <3>1. PICK s \in {"none", "found", "not found"}, y \in {"none", "used", "not found"} :
            g = [f EXCEPT !.source = s, !.symbols = y]
      BY <2>4 DEF SourceScans
    <3> QED
      BY <2>2, <3>1, Zenon
  <2>5. \A j \in {"symbol", "package", "no call"} : [f EXCEPT !.joern = j] \in Evidence
    BY DEF Evidence
  <2>6. JoernScans(f) \subseteq Evidence
    BY <2>5, Zenon DEF JoernScans
  <2> QED
    BY <2>3, <2>4, <2>6
<1>3. LockfileAnalyzer(e) \subseteq Evidence /\ SurfaceAnalyzer(e) \subseteq Evidence
  BY <1>2 DEF LockfileAnalyzer, SurfaceAnalyzer
<1>4. ASSUME NEW g \in CAnalyzer(e) PROVE g \in Evidence
  <2>1. ASSUME NEW f \in LibraryScans(e) PROVE f \in Evidence
    <3>1. PICK s \in {"none", "found", "not found"}, l \in {"none", "linked", "not linked"} :
            f = [e EXCEPT !.source = s, !.linked = l]
      BY <2>1 DEF LibraryScans
    <3>2. [e EXCEPT !.source = s, !.linked = l] \in Evidence
      BY DEF Evidence
    <3> QED
      BY <3>1, <3>2
  <2>2. CASE g \in LibraryScans(e)
    BY <2>1, <2>2
  <2>3. CASE g \notin LibraryScans(e)
    <3>1. PICK f \in LibraryScans(e) : g \in JoernScans(f)
      BY <1>4, <2>3 DEF CAnalyzer
    <3>2. f \in Evidence
      BY <2>1
    <3> QED
      BY <1>2, <3>1, <3>2
  <2> QED
    BY <2>2, <2>3
<1> QED
  BY <1>1, <1>3, <1>4 DEF Analyze, Ecosystem

(***************************************************************************)
(* The pool                                                                *)
(***************************************************************************)

\* A class that demotes has its evidence: in what the graph says, in what the scans returned
\* and in the entries; before the graph is asked no scan has returned anything.
Grounded(f) == \A t \in Target : f[t].class \in Demoting => Evident(f[t].seen, ecosystem)
Just == Grounded(graph) /\ Grounded(entry) /\ Grounded(found)
NotYet == phase = "start" => \A t \in Target : found[t].class = "inconclusive"

EvInv == ImpactTypeOK /\ Just /\ NotYet /\ ArtifactIsEntries

LEMMA EvidenceInitially == ImpactInit => EvInv
<1> SUFFICES ASSUME ImpactInit PROVE EvInv
  OBVIOUS
<1>1. Nothing \in Evidence
  BY DEF Nothing, Evidence
<1>2. Unscanned \in Entry
  BY <1>1 DEF Unscanned, Entry, Class
<1>3. graph = [t \in Target |-> Unscanned] /\ entry = graph /\ found = graph
  BY DEF ImpactInit
<1>4. ImpactTypeOK
  BY <1>2, <1>3 DEF ImpactInit, ImpactTypeOK, Ecosystem, Scan
<1>5. Just /\ NotYet
  BY <1>3 DEF Just, NotYet, Grounded, Unscanned, Demoting
<1>6. ArtifactIsEntries
  BY DEF ArtifactIsEntries, Written, ImpactInit, NoDoc
<1> QED
  BY <1>4, <1>5, <1>6 DEF EvInv

\* So does the graph.
LEMMA GraphLeaves ==
  ASSUME NEW imports \in SUBSET {"yes", "no", "none"}
  PROVE  GraphEvidence(imports) \subseteq Evidence
<1> SUFFICES ASSUME NEW g \in GraphEvidence(imports) PROVE g \in Evidence
  OBVIOUS
<1>0. PICK i \in imports :
        g \in {[Nothing EXCEPT !.range = r, !.imported = i] : r \in {"in", "out", "none"}}
  BY Zenon DEF GraphEvidence
<1>1. PICK r \in {"in", "out", "none"} : g = [Nothing EXCEPT !.range = r, !.imported = i]
  BY <1>0
<1>2. i \in {"yes", "no", "none"}
  OBVIOUS
<1>3. [Nothing EXCEPT !.range = r, !.imported = i] \in Evidence
  BY <1>2 DEF Nothing, Evidence
<1> QED
  BY <1>1, <1>3

\* What the graph-only pass makes of what the graph knows.
LEMMA QueryGrounded ==
  ASSUME EvInv, QueryGraph
  PROVE  EvInv'
<1>0. PICK eco \in Ecosystem, imports \in {{"none"}, {"yes", "no"}}, off \in SUBSET Target :
        \E seen \in [Target -> GraphEvidence(imports)] :
          /\ ecosystem' = eco
          /\ graph' = [t \in Target |-> [class |-> Classify(seen[t], eco), seen |-> seen[t]]]
          /\ entry' = graph' /\ scan' = Queued(graph', off)
  BY DEF QueryGraph
<1>1. PICK seen \in [Target -> GraphEvidence(imports)] :
        /\ ecosystem' = eco
        /\ graph' = [t \in Target |-> [class |-> Classify(seen[t], eco), seen |-> seen[t]]]
        /\ entry' = graph' /\ scan' = Queued(graph', off)
  BY <1>0
<1>2. phase = "start" /\ phase' = "scanning" /\ found' = found /\ artifact' = artifact
  BY DEF QueryGraph
<1>3. GraphEvidence(imports) \subseteq Evidence
  <2>1. imports \subseteq {"yes", "no", "none"}
    OBVIOUS
  <2> QED
    BY <2>1, GraphLeaves
<1>4. graph' \in [Target -> Entry]
  BY <1>1, <1>3, ClassifySound DEF Entry
<1>5. scan' \in [Target -> Scan]
  BY <1>1 DEF Queued, Scan
<1>6. ImpactTypeOK'
  BY <1>1, <1>2, <1>4, <1>5 DEF EvInv, ImpactTypeOK
<1>7. Grounded(graph)'
  BY <1>1, ClassifySound DEF Grounded
<1>8. Grounded(found)'
  BY <1>2 DEF EvInv, NotYet, Grounded, Demoting
<1> QED
  BY <1>1, <1>2, <1>6, <1>7, <1>8 DEF EvInv, Just, Grounded, NotYet, ArtifactIsEntries, Written

\* A scan leaves evidence, and a class that follows from it.
LEMMA ScanGrounded ==
  ASSUME EvInv, NEW t \in Target, ScanEnds(t) \/ CloneFailsScan(t)
  PROVE  EvInv'
<1>1. /\ phase = "scanning" /\ UNCHANGED <<ecosystem, graph, entry, artifact, phase>>
      /\ \E at \in {"done", "clone failed"} : scan' = [scan EXCEPT ![t] = at]
  BY DEF ScanEnds, CloneFailsScan, ScanIs, Becomes
<1>2. graph[t].seen \in Evidence /\ ecosystem \in Ecosystem
  BY DEF EvInv, ImpactTypeOK, Entry
<1>3. PICK r \in Entry :
        found' = [found EXCEPT ![t] = r] /\ (r.class \in Demoting => Evident(r.seen, ecosystem))
  <2>1. CASE ScanEnds(t)
    <3>1. PICK e \in Analyze(graph[t].seen, ecosystem) :
            found' = [found EXCEPT ![t] = [class |-> Classify(e, ecosystem), seen |-> e]]
      BY <2>1 DEF ScanEnds
    <3>2. e \in Evidence
      BY <1>2, AnalyzeLeaves
    <3>3. Classify(e, ecosystem) \in Class
          /\ (Classify(e, ecosystem) \in Demoting => Evident(e, ecosystem))
      BY ClassifySound
    <3>4. [class |-> Classify(e, ecosystem), seen |-> e] \in Entry
      BY <3>2, <3>3 DEF Entry
    <3> QED
      BY <3>1, <3>3, <3>4
  <2>2. CASE CloneFailsScan(t)
    <3>1. [class |-> "inconclusive", seen |-> graph[t].seen] \in Entry
      BY <1>2 DEF Entry, Class
    <3> QED
      BY <2>2, <3>1 DEF CloneFailsScan, Demoting
  <2> QED
    BY <2>1, <2>2
<1>4. ImpactTypeOK'
  BY <1>1, <1>3 DEF EvInv, ImpactTypeOK, Scan
<1>5. Grounded(found)'
  BY <1>1, <1>3 DEF EvInv, ImpactTypeOK, Just, Grounded
<1> QED
  BY <1>1, <1>4, <1>5 DEF EvInv, Just, Grounded, NotYet, ArtifactIsEntries, Written

LEMMA EvidenceStep == EvInv /\ [ImpactNext]_impactVars => EvInv'
<1> SUFFICES ASSUME EvInv, [ImpactNext]_impactVars PROVE EvInv'
  OBVIOUS
<1>1. CASE Finish
  <2>1. UNCHANGED <<ecosystem, graph, entry, scan, found>> /\ phase = "scanning"
    BY <1>1 DEF Finish
  <2>2. \/ phase' = "refused" /\ artifact' = artifact
        \/ phase' = "written" /\ artifact' = [is |-> "whole", repos |-> entry]
    BY <1>1 DEF Finish
  <2>3. ImpactTypeOK'
    BY <2>1, <2>2 DEF EvInv, ImpactTypeOK
  <2> QED
    BY <2>1, <2>2, <2>3 DEF EvInv, Just, Grounded, NotYet, ArtifactIsEntries, Written
<1>2. ASSUME NEW t \in Target, StartScan(t) \/ ScanRaises(t) \/ TakeError(t)
      PROVE  EvInv'
  <2>1. /\ UNCHANGED <<ecosystem, graph, entry, found, artifact, phase>>
        /\ \E at \in Scan : scan' = [scan EXCEPT ![t] = at]
    BY <1>2 DEF StartScan, ScanRaises, TakeError, Becomes, Scan
  <2> QED
    BY <2>1 DEF EvInv, ImpactTypeOK, Just, Grounded, NotYet, ArtifactIsEntries, Written
<1>3. ASSUME NEW t \in Target, TakeResult(t) PROVE EvInv'
  <2>1. /\ UNCHANGED <<ecosystem, graph, found, artifact, phase>> /\ phase = "scanning"
        /\ entry' = [entry EXCEPT ![t] = found[t]]
        /\ \E at \in Scan : scan' = [scan EXCEPT ![t] = at]
    BY <1>3 DEF TakeResult, Becomes, Scan, ScanIs
  <2>2. ImpactTypeOK' /\ Grounded(entry)'
    BY <2>1 DEF EvInv, ImpactTypeOK, Just, Grounded
  <2> QED
    BY <2>1, <2>2 DEF EvInv, Just, Grounded, NotYet, ArtifactIsEntries, Written
<1>4. CASE UNCHANGED impactVars
  BY <1>4 DEF impactVars, EvInv, ImpactTypeOK, Just, Grounded, NotYet, ArtifactIsEntries, Written
<1> QED
  BY <1>1, <1>2, <1>3, <1>4, QueryGrounded, ScanGrounded DEF ImpactNext

\* Each entry of a run rests on evidence, at every step.
LEMMA EvidenceInvariant == ImpactSpec => []EvInv
BY EvidenceInitially, EvidenceStep, PTL DEF ImpactSpec

\* Whatever the fleet, whatever the graph knew, the tiers left and the scans ended in: the
\* artifact demotes a repository only where a tier saw something that says so.
THEOREM DemotionsAreEvident == ImpactSpec => []DemotedOnEvidence
<1>1. EvInv => DemotedOnEvidence
  BY DEF EvInv, ArtifactIsEntries, Just, Grounded, DemotedOnEvidence, Demoting, Evident
<1> QED
  BY <1>1, EvidenceInvariant, PTL

(***************************************************************************)
(* The advisory: what its events say of a version                          *)
(***************************************************************************)

\* A recursive function is what its definition says: it is built up to n, for every n.
LEMMA ReadingIs ==
  ASSUME NEW range, Len(range) \in Nat
  PROVE  /\ Reading(range)[0] = [start |-> Unset, out |-> <<>>]
         /\ \A i \in 1..Len(range) : Reading(range)[i] = ReadEvent(Reading(range)[i - 1], range[i])
<1> DEFINE L == Len(range)
           Step(f, i) == IF i = 0 THEN [start |-> Unset, out |-> <<>>]
                         ELSE ReadEvent(f[i - 1], range[i])
           Upto(n, f) == f = [i \in 0..n |-> Step(f, i)]
           S == {n \in 0..L : \E f : Upto(n, f)}
<1>1. 0 \in S
  <2> DEFINE g == [i \in 0..0 |-> [start |-> Unset, out |-> <<>>]]
  <2>1. g = [i \in 0..0 |-> Step(g, i)]
    OBVIOUS
  <2>2. Upto(0, g)
    BY <2>1
  <2> HIDE DEF g, Upto
  <2>3. 0 \in 0..L
    OBVIOUS
  <2> QED
    BY <2>2, <2>3
<1>2. \A n \in 0..L - 1 : n \in S => n + 1 \in S
  <2> SUFFICES ASSUME NEW n \in 0..L - 1, n \in S PROVE n + 1 \in S
    OBVIOUS
  <2>1. PICK f : Upto(n, f)
    OBVIOUS
  <2> DEFINE g == [i \in 0..n + 1 |-> IF i = n + 1 THEN ReadEvent(f[n], range[n + 1]) ELSE f[i]]
  <2>2. \A i \in 0..n : f[i] = Step(f, i)
    BY <2>1
  <2>3. \A i \in 0..n + 1 : g[i] = Step(g, i)
    <3> SUFFICES ASSUME NEW i \in 0..n + 1 PROVE g[i] = Step(g, i)
      OBVIOUS
    <3>1. CASE i = n + 1
      BY <3>1
    <3>2. CASE i = 0
      BY <2>2, <3>2
    <3>3. CASE i \in 1..n
      <4>1. i - 1 \in 0..n /\ i \in 0..n /\ i # 0 /\ i # n + 1 /\ i - 1 # n + 1 /\ i - 1 \in 0..n + 1
        BY <3>3
      <4>2. f[i] = ReadEvent(f[i - 1], range[i])
        BY <2>2, <4>1
      <4>3. g[i] = f[i] /\ g[i - 1] = f[i - 1]
        BY <4>1
      <4> QED
        BY <4>1, <4>2, <4>3
    <3> QED
      BY <3>1, <3>2, <3>3
  <2>4. g = [i \in 0..n + 1 |-> Step(g, i)]
    <3>1. DOMAIN g = 0..n + 1 /\ g = [i \in 0..n + 1 |-> g[i]]
      OBVIOUS
    <3> HIDE DEF g, Step
    <3> QED
      BY <2>3, <3>1
  <2>5. n + 1 \in 0..L
    OBVIOUS
  <2>6. Upto(n + 1, g)
    <3> HIDE DEF g, Step
    <3> QED
      BY <2>4
  <2> HIDE DEF g, Upto
  <2> QED
    BY <2>5, <2>6
<1>3. L \in S
  <2> HIDE DEF S
  <2>1. 0..L \subseteq S
    BY <1>1, <1>2, Climb
  <2> QED
    BY <2>1
<1>4. \E f : Upto(L, f)
  BY <1>3
<1>5. Reading(range) = CHOOSE f : Upto(L, f)
  BY DEF Reading
<1>6. Upto(L, Reading(range))
  <2> HIDE DEF Upto
  <2> QED
    BY <1>4, <1>5, Zenon
<1> QED
  BY <1>6

\* The same of the other recursive function.
LEMMA JoinedIs ==
  ASSUME NEW record, Len(record) \in Nat
  PROVE  /\ Joined(record)[0] = <<>>
         /\ \A i \in 1..Len(record) : Joined(record)[i] = Joined(record)[i - 1] \o SpansOf(record[i])
<1> DEFINE L == Len(record)
           Step(f, i) == IF i = 0 THEN <<>>
                         ELSE f[i - 1] \o SpansOf(record[i])
           Upto(n, f) == f = [i \in 0..n |-> Step(f, i)]
           S == {n \in 0..L : \E f : Upto(n, f)}
<1>1. 0 \in S
  <2> DEFINE g == [i \in 0..0 |-> <<>>]
  <2>1. g = [i \in 0..0 |-> Step(g, i)]
    OBVIOUS
  <2>2. Upto(0, g)
    BY <2>1
  <2> HIDE DEF g, Upto
  <2>3. 0 \in 0..L
    OBVIOUS
  <2> QED
    BY <2>2, <2>3
<1>2. \A n \in 0..L - 1 : n \in S => n + 1 \in S
  <2> SUFFICES ASSUME NEW n \in 0..L - 1, n \in S PROVE n + 1 \in S
    OBVIOUS
  <2>1. PICK f : Upto(n, f)
    OBVIOUS
  <2> DEFINE g == [i \in 0..n + 1 |-> IF i = n + 1 THEN f[n] \o SpansOf(record[n + 1]) ELSE f[i]]
  <2>2. \A i \in 0..n : f[i] = Step(f, i)
    BY <2>1
  <2>3. \A i \in 0..n + 1 : g[i] = Step(g, i)
    <3> SUFFICES ASSUME NEW i \in 0..n + 1 PROVE g[i] = Step(g, i)
      OBVIOUS
    <3>1. CASE i = n + 1
      BY <3>1
    <3>2. CASE i = 0
      BY <2>2, <3>2
    <3>3. CASE i \in 1..n
      <4>1. i - 1 \in 0..n /\ i \in 0..n /\ i # 0 /\ i # n + 1 /\ i - 1 # n + 1 /\ i - 1 \in 0..n + 1
        BY <3>3
      <4>2. f[i] = f[i - 1] \o SpansOf(record[i])
        BY <2>2, <4>1
      <4>3. g[i] = f[i] /\ g[i - 1] = f[i - 1]
        BY <4>1
      <4> QED
        BY <4>1, <4>2, <4>3
    <3> QED
      BY <3>1, <3>2, <3>3
  <2>4. g = [i \in 0..n + 1 |-> Step(g, i)]
    <3>1. DOMAIN g = 0..n + 1 /\ g = [i \in 0..n + 1 |-> g[i]]
      OBVIOUS
    <3> HIDE DEF g, Step
    <3> QED
      BY <2>3, <3>1
  <2>5. n + 1 \in 0..L
    OBVIOUS
  <2>6. Upto(n + 1, g)
    <3> HIDE DEF g, Step
    <3> QED
      BY <2>4
  <2> HIDE DEF g, Upto
  <2> QED
    BY <2>5, <2>6
<1>3. L \in S
  <2> HIDE DEF S
  <2>1. 0..L \subseteq S
    BY <1>1, <1>2, Climb
  <2> QED
    BY <2>1
<1>4. \E f : Upto(L, f)
  BY <1>3
<1>5. Joined(record) = CHOOSE f : Upto(L, f)
  BY DEF Joined
<1>6. Upto(L, Joined(record))
  <2> HIDE DEF Upto
  <2> QED
    BY <1>4, <1>5, Zenon
<1> QED
  BY <1>6

\* A span and its record's spans, and how far a reading has come.
Span    == [introduced : Version, fixed : Version \cup {Unset}, last : Version \cup {Unset}]
Read    == [start : Version \cup {Unset}, out : Seq(Span)]
EventRange   == Seq(Event(Version))
Records == Seq([named : Seq(EventRange), others : Seq(EventRange)])

\* The span of a reading is open for a version.
Open(acc, v) == acc.start \in 0..MaxVersion /\ Begun(acc.start, v)

\* What is appended is there, and so is what was before.
LEMMA AppendKeeps ==
  ASSUME NEW S, NEW s \in Seq(S), NEW x \in S, NEW v, NEW said
  PROVE  /\ Append(s, x) \in Seq(S)
         /\ Some(s, v, said) => Some(Append(s, x), v, said)
         /\ Within(x, v) = said => Some(Append(s, x), v, said)
<1>1. /\ Append(s, x) \in Seq(S) /\ Len(Append(s, x)) = Len(s) + 1
      /\ \A i \in 1..Len(s) : Append(s, x)[i] = s[i]
      /\ Append(s, x)[Len(s) + 1] = x
  BY AppendProperties
<1>2. DOMAIN s = 1..Len(s) /\ DOMAIN Append(s, x) = 1..Len(s) + 1 /\ Len(s) \in Nat
  BY <1>1, LenProperties
<1>3. ASSUME NEW i \in DOMAIN s, Within(s[i], v) = said PROVE Some(Append(s, x), v, said)
  <2>1. i \in DOMAIN Append(s, x) /\ Append(s, x)[i] = s[i]
    BY <1>1, <1>2
  <2> QED
    BY <1>3, <2>1 DEF Some
<1>4. ASSUME Within(x, v) = said PROVE Some(Append(s, x), v, said)
  <2>1. Len(s) + 1 \in DOMAIN Append(s, x)
    BY <1>2
  <2> QED
    BY <1>1, <1>4, <2>1 DEF Some
<1> QED
  BY <1>1, <1>3, <1>4 DEF Some

\* What one of two lists of spans says, the one behind the other says.
LEMMA ConcatKeeps ==
  ASSUME NEW S, NEW s \in Seq(S), NEW t \in Seq(S), NEW v, NEW said
  PROVE  /\ s \o t \in Seq(S)
         /\ Some(s, v, said) \/ Some(t, v, said) => Some(s \o t, v, said)
<1>1. /\ s \o t \in Seq(S) /\ Len(s \o t) = Len(s) + Len(t)
      /\ \A i \in 1..Len(s) + Len(t) :
           (s \o t)[i] = IF i <= Len(s) THEN s[i] ELSE t[i - Len(s)]
  BY ConcatProperties
<1>2. /\ DOMAIN s = 1..Len(s) /\ DOMAIN t = 1..Len(t) /\ DOMAIN (s \o t) = 1..Len(s) + Len(t)
      /\ Len(s) \in Nat /\ Len(t) \in Nat
  BY <1>1, LenProperties
<1> DEFINE q == s \o t
<1> HIDE DEF q
<1>3. /\ DOMAIN q = 1..Len(s) + Len(t)
      /\ \A i \in 1..Len(s) + Len(t) : q[i] = IF i <= Len(s) THEN s[i] ELSE t[i - Len(s)]
  BY <1>1, <1>2 DEF q
<1>4. ASSUME NEW i \in DOMAIN s, Within(s[i], v) = said PROVE Some(q, v, said)
  <2>1. i \in DOMAIN q /\ q[i] = s[i]
    BY <1>2, <1>3
  <2> QED
    BY <1>4, <2>1 DEF Some
<1>5. ASSUME NEW i \in DOMAIN t, Within(t[i], v) = said PROVE Some(q, v, said)
  <2>1. Len(s) + i \in DOMAIN q /\ q[Len(s) + i] = t[i]
    BY <1>2, <1>3
  <2> QED
    BY <1>5, <2>1 DEF Some
<1> QED
  BY <1>1, <1>4, <1>5 DEF Some, q

\* One event: the reading stays one, and what covers a version covers it after.
LEMMA ReadEventKeeps ==
  ASSUME NEW acc \in Read, NEW e \in Event(Version), NEW v
  PROVE  /\ ReadEvent(acc, e) \in Read
         /\ Some(acc.out, v, "yes") => Some(ReadEvent(acc, e).out, v, "yes")
<1>1. From(acc) \in Version
  BY RangeAssumption DEF From, Read, Version
<1>2. acc.out \in Seq(Span) /\ acc.start \in Version \cup {Unset} /\ e.at \in Version
  BY DEF Read, Event
<1>3. CASE e.kind = "introduced"
  BY <1>2, <1>3 DEF ReadEvent, Read
<1>4. CASE e.kind = "fixed" \/ e.kind = "last_affected"
  <2>1. PICK x \in Span : ReadEvent(acc, e) = [start |-> Unset, out |-> Append(acc.out, x)]
    <3>1. CASE e.kind = "fixed"
      <4>1. [introduced |-> From(acc), fixed |-> e.at, last |-> Unset] \in Span
        BY <1>1, <1>2 DEF Span
      <4> QED
        BY <3>1, <4>1 DEF ReadEvent, End
    <3>2. CASE e.kind = "last_affected"
      <4>1. [introduced |-> From(acc), fixed |-> Unset, last |-> e.at] \in Span
        BY <1>1, <1>2 DEF Span
      <4> QED
        BY <3>2, <4>1 DEF ReadEvent, End
    <3> QED
      BY <1>4, <3>1, <3>2
  <2>2. /\ Append(acc.out, x) \in Seq(Span)
        /\ Some(acc.out, v, "yes") => Some(Append(acc.out, x), v, "yes")
    BY <1>2, AppendKeeps
  <2> QED
    BY <2>1, <2>2 DEF Read
<1> QED
  BY <1>3, <1>4 DEF Event

\* All of a range.
LEMMA ReadingKeeps ==
  ASSUME NEW range \in EventRange
  PROVE  \A i \in 0..Len(range) : Reading(range)[i] \in Read
<1> DEFINE L == Len(range)
           acc == Reading(range)
           S == {i \in 0..L : acc[i] \in Read}
<1>0. L \in Nat /\ \A i \in 1..L : range[i] \in Event(Version)
  BY DEF EventRange
<1>1. acc[0] = [start |-> Unset, out |-> <<>>] /\ \A i \in 1..L : acc[i] = ReadEvent(acc[i - 1], range[i])
  BY <1>0, ReadingIs
<1> HIDE DEF acc, L
<1>2. 0 \in S
  <2>1. [start |-> Unset, out |-> <<>>] \in Read
    BY DEF Read
  <2> QED
    BY <1>0, <1>1, <2>1
<1>3. \A i \in 0..L - 1 : i \in S => i + 1 \in S
  <2> SUFFICES ASSUME NEW i \in 0..L - 1, acc[i] \in Read PROVE i + 1 \in S
    OBVIOUS
  <2>1. i + 1 \in 1..L /\ (i + 1) - 1 = i /\ i + 1 \in 0..L
    BY <1>0
  <2>2. acc[i + 1] = ReadEvent(acc[i], range[i + 1]) /\ range[i + 1] \in Event(Version)
    BY <1>0, <1>1, <2>1
  <2> QED
    BY <2>1, <2>2, ReadEventKeeps
<1>4. 0..L \subseteq S
  <2> HIDE DEF S
  <2> QED
    BY <1>0, <1>2, <1>3, Climb
<1> QED
  BY <1>4 DEF acc, L

\* What is open at the end is a span without one, and what is covered stays so.
LEMMA SpansOfKeeps ==
  ASSUME NEW range \in EventRange, NEW v
  PROVE  LET last == Reading(range)[Len(range)]
         IN /\ SpansOf(range) \in Seq(Span)
            /\ Some(last.out, v, "yes") => Some(SpansOf(range), v, "yes")
            /\ Open(last, v) => Some(SpansOf(range), v, "yes")
<1>1. PICK last \in Read : last = Reading(range)[Len(range)]
  <2>1. Len(range) \in Nat
    BY DEF EventRange
  <2> QED
    BY <2>1, ReadingKeeps
<1>2. last.out \in Seq(Span) /\ last.start \in Version \cup {Unset}
  BY DEF Read
<1>3. SpansOf(range) = IF last.start = Unset THEN last.out ELSE End(last, Unset, Unset).out
  BY <1>1, Zenon DEF SpansOf
<1>4. CASE last.start = Unset
  BY <1>1, <1>2, <1>3, <1>4 DEF Unset, Open
<1>5. CASE last.start # Unset
  <2> DEFINE x == [introduced |-> last.start, fixed |-> Unset, last |-> Unset]
  <2>1. x \in Span /\ SpansOf(range) = Append(last.out, x)
    BY <1>2, <1>3, <1>5 DEF Span, End, From
  <2>2. Open(last, v) => Within(x, v) = "yes"
    BY DEF Open, Within, Unset, Garbled
  <2> HIDE DEF x
  <2>3. /\ Append(last.out, x) \in Seq(Span)
        /\ Some(last.out, v, "yes") => Some(Append(last.out, x), v, "yes")
        /\ Within(x, v) = "yes" => Some(Append(last.out, x), v, "yes")
    BY <1>2, <2>1, AppendKeeps
  <2> QED
    BY <1>1, <2>1, <2>2, <2>3
<1> QED
  BY <1>4, <1>5

\* What an event compares with a version whose key it is told from.
LEMMA ToldMeans ==
  ASSUME NEW range \in EventRange, NEW v \in 0..MaxVersion, InOrder(range), ToldBy(range, v)
  PROVE  \A j \in DOMAIN range :
           /\ range[j].at \in 0..MaxVersion
           /\ range[j].kind = "introduced" => (Begun(range[j].at, v) <=> range[j].at <= v)
           /\ range[j].kind # "introduced" =>
                /\ Key[v] < Key[range[j].at] <=> v < range[j].at
                /\ Key[v] <= Key[range[j].at] <=> v <= range[j].at
<1> SUFFICES ASSUME NEW j \in DOMAIN range
             PROVE  /\ range[j].at \in 0..MaxVersion
                    /\ range[j].kind = "introduced" => (Begun(range[j].at, v) <=> range[j].at <= v)
                    /\ range[j].kind # "introduced" =>
                         /\ Key[v] < Key[range[j].at] <=> v < range[j].at
                         /\ Key[v] <= Key[range[j].at] <=> v <= range[j].at
  OBVIOUS
<1>1. range[j] \in Event(Version) /\ range[j].at # Garbled
  BY DEF EventRange, InOrder
<1>2. PICK e \in Event(Version) : e = range[j]
  BY <1>1
<1>3. e.at \in 0..MaxVersion
  BY <1>1, <1>2 DEF Event, Version
<1>4. Key[e.at] \in Int /\ Key[v] \in Int /\ v \in Int /\ e.at \in Int /\ 0 <= v
  BY <1>3, KeyAssumption, RangeAssumption
<1>5. e = [kind |-> "introduced", at |-> 0] \/ Told(v, e.at)
  BY <1>2 DEF ToldBy
<1>6. CASE e = [kind |-> "introduced", at |-> 0]
  <2>1. e.kind = "introduced" /\ e.at = 0
    BY <1>6
  <2> QED
    BY <1>2, <1>3, <1>4, <2>1 DEF Begun
<1>7. CASE Told(v, e.at)
  <2>1. (v < e.at <=> Key[v] < Key[e.at]) /\ (e.at < v <=> Key[e.at] < Key[v])
    BY <1>7 DEF Told
  <2>2. (Key[v] <= Key[e.at] <=> v <= e.at) /\ (Key[e.at] <= Key[v] <=> e.at <= v)
    BY <1>4, <2>1
  <2> QED
    BY <1>2, <1>3, <1>4, <2>1, <2>2 DEF Begun
<1> QED
  BY <1>5, <1>6, <1>7

\* A version that a range in order affects is in one of its spans, if their keys tell it from
\* the range's events.  From the event that introduces it on, the span that is open is open
\* for the version or it is covered already.
LEMMA AffectedIsCovered ==
  ASSUME NEW range \in EventRange, NEW v \in 0..MaxVersion, InOrder(range), ToldBy(range, v),
         Affects(range, v)
  PROVE  Some(SpansOf(range), v, "yes")
<1> DEFINE L == Len(range)
           acc == Reading(range)
<1>0. /\ L \in Nat /\ DOMAIN range = 1..L
      /\ \A j \in 1..L : range[j] \in Event(Version) /\ range[j].at \in 0..MaxVersion
  <2>1. L \in Nat /\ DOMAIN range = 1..L /\ \A j \in 1..L : range[j] \in Event(Version)
    BY DEF EventRange
  <2> QED
    BY <2>1 DEF InOrder, Event, Version
<1>1. acc[0] = [start |-> Unset, out |-> <<>>] /\ \A j \in 1..L : acc[j] = ReadEvent(acc[j - 1], range[j])
  BY <1>0, ReadingIs
<1>2. \A j \in 0..L : acc[j] \in Read
  BY ReadingKeeps
<1>3. PICK i \in 1..L :
        /\ range[i].kind = "introduced" /\ range[i].at <= v
        /\ \A j \in 1..L : j > i => /\ range[j].kind = "fixed" => range[j].at > v
                                    /\ range[j].kind = "last_affected" => range[j].at >= v
  BY <1>0 DEF Affects
<1>4. \A j \in 1..i : range[j].kind = "introduced" => Begun(range[j].at, v)
  <2>1. \A j \in 1..i : range[j].at <= v
    BY <1>0, <1>3 DEF InOrder
  <2> QED
    BY <1>0, <2>1, ToldMeans
<1> DEFINE Opens(a) == a.start = Unset \/ Open(a, v)
           B == {j \in 0..L : Opens(acc[j])}
           C == {j \in 0..L : Open(acc[j], v) \/ Some(acc[j].out, v, "yes")}
<1> HIDE DEF acc, L
\* Before it, whatever start is open is open for the version.
<1>5. ASSUME NEW j \in 0..i - 1, j \in B PROVE j + 1 \in B
  <2>1. j \in 0..L /\ j + 1 \in 1..i /\ j + 1 \in 1..L /\ (j + 1) - 1 = j /\ j + 1 \in 0..L
    BY <1>0
  <2>2. acc[j + 1] = ReadEvent(acc[j], range[j + 1]) /\ range[j + 1] \in Event(Version)
        /\ range[j + 1].at \in 0..MaxVersion /\ acc[j] \in Read
        /\ (range[j + 1].kind = "introduced" => Begun(range[j + 1].at, v))
    BY <1>0, <1>1, <1>2, <1>4, <2>1
  <2>3. Opens(acc[j])
    BY <1>5
  <2>4. \A a \in Read, e \in Event(Version) :
          Opens(a) /\ e.at \in 0..MaxVersion /\ (e.kind = "introduced" => Begun(e.at, v)) =>
            Opens(ReadEvent(a, e))
    <3> SUFFICES ASSUME NEW a \in Read, NEW e \in Event(Version), Opens(a), e.at \in 0..MaxVersion,
                        e.kind = "introduced" => Begun(e.at, v)
                 PROVE  Opens(ReadEvent(a, e))
      OBVIOUS
    <3>1. CASE e.kind = "introduced" /\ a.start = Unset
      <4>1. ReadEvent(a, e).start = e.at
        BY <3>1 DEF ReadEvent, Read
      <4> QED
        BY <3>1, <4>1 DEF Open
    <3>2. CASE e.kind = "introduced" /\ a.start # Unset
      BY <3>2 DEF ReadEvent
    <3>3. CASE e.kind # "introduced"
      <4>1. ReadEvent(a, e).start = Unset
        BY <3>3 DEF ReadEvent, End, Event
      <4> QED
        BY <4>1
    <3> QED
      BY <3>1, <3>2, <3>3
  <2>5. Opens(acc[j + 1])
    <3> HIDE DEF Opens
    <3> QED
      BY <2>2, <2>3, <2>4, Zenon
  <2> QED
    BY <2>1, <2>5
<1>6. 0..i \subseteq B
  <2>1. 0 \in B
    BY <1>0, <1>1
  <2> HIDE DEF B
  <2> QED
    BY <1>5, <2>1, Climb
\* With it there is one.
<1>7. i \in C
  <2>1. i - 1 \in B /\ i - 1 \in 0..L /\ i \in 0..L
    BY <1>0, <1>6
  <2>2. acc[i] = ReadEvent(acc[i - 1], range[i]) /\ acc[i - 1] \in Read
        /\ range[i].at \in 0..MaxVersion /\ Begun(range[i].at, v) /\ Opens(acc[i - 1])
    BY <1>0, <1>1, <1>2, <1>3, <1>4, <2>1
  <2>3. Open(acc[i], v)
    BY <1>3, <2>1, <2>2 DEF ReadEvent, Read, Open
  <2> QED
    BY <2>1, <2>3
\* After it, an event that ends the span ends it above the version.
<1>8. ASSUME NEW j \in i..L - 1, j \in C PROVE j + 1 \in C
  <2>1. j \in 0..L /\ j + 1 \in 1..L /\ (j + 1) - 1 = j /\ j + 1 \in 0..L /\ j + 1 > i
    BY <1>0
  <2> DEFINE a == acc[j]
             e == range[j + 1]
  <2>2. acc[j + 1] = ReadEvent(a, e) /\ a \in Read /\ e \in Event(Version) /\ e.at \in 0..MaxVersion
        /\ (e.kind = "fixed" => Key[v] < Key[e.at]) /\ (e.kind = "last_affected" => Key[v] <= Key[e.at])
    <3>1. (e.kind = "fixed" => e.at > v) /\ (e.kind = "last_affected" => e.at >= v)
      BY <1>0, <1>3, <2>1
    <3>2. /\ e.kind # "introduced" =>
               /\ Key[v] < Key[e.at] <=> v < e.at
               /\ Key[v] <= Key[e.at] <=> v <= e.at
          /\ e.at \in 0..MaxVersion
      BY <1>0, <2>1, ToldMeans
    <3> QED
      BY <1>0, <1>1, <1>2, <2>1, <3>1, <3>2
  <2>3. Open(a, v) \/ Some(a.out, v, "yes")
    BY <1>8
  <2> HIDE DEF a, e
  <2>4. CASE Some(a.out, v, "yes")
    <3>1. Some(ReadEvent(a, e).out, v, "yes")
      BY <2>2, <2>4, ReadEventKeeps
    <3> QED
      BY <2>1, <2>2, <3>1
  <2>5. CASE Open(a, v) /\ e.kind = "introduced"
    <3>1. Open(ReadEvent(a, e), v)
      BY <2>2, <2>5 DEF ReadEvent, Unset, Open
    <3> QED
      BY <2>1, <2>2, <3>1
  <2>6. CASE Open(a, v) /\ e.kind # "introduced"
    <3> DEFINE x == [introduced |-> a.start,
                     fixed |-> IF e.kind = "fixed" THEN e.at ELSE Unset,
                     last  |-> IF e.kind = "fixed" THEN Unset ELSE e.at]
    <3>1. ReadEvent(a, e).out = Append(a.out, x)
      BY <2>2, <2>6 DEF ReadEvent, End, From, Unset, Event, Open
    <3>2. x \in Span
      <4>1. MaxVersion \in Nat
        BY RangeAssumption
      <4>2. a.start \in 0..MaxVersion /\ e.at \in 0..MaxVersion
        BY <2>2, <2>6, <4>1 DEF Open
      <4>3. a.start \in Version /\ e.at \in Version
        BY <4>2 DEF Version
      <4> QED
        BY <4>3 DEF Span
    <3>3. Within(x, v) = "yes"
      <4>1. Begun(a.start, v) /\ a.start # Garbled /\ e.at >= 0 /\ e.at # Unset /\ e.at # Garbled
        BY <2>2, <2>6 DEF Open, Unset, Garbled
      <4>2. Key[e.at] \in Int /\ Key[v] \in Int
        BY <2>2, KeyAssumption
      <4>3. CASE e.kind = "fixed"
        BY <2>2, <4>1, <4>2, <4>3 DEF Within
      <4>4. CASE e.kind = "last_affected"
        BY <2>2, <4>1, <4>2, <4>4 DEF Within
      <4> QED
        BY <2>2, <2>6, <4>3, <4>4 DEF Event
    <3> HIDE DEF x
    <3>4. a.out \in Seq(Span)
      BY <2>2 DEF Read
    <3>5. Some(Append(a.out, x), v, "yes")
      BY <3>2, <3>3, <3>4, AppendKeeps
    <3> QED
      BY <2>1, <2>2, <3>1, <3>5
  <2> QED
    BY <2>3, <2>4, <2>5, <2>6
<1>9. i..L \subseteq C
  <2>1. i \in Int /\ L \in Int /\ 0 <= i
    BY <1>0
  <2> HIDE DEF C
  <2> QED
    BY <1>7, <1>8, <2>1, Climb
<1>10. Open(acc[L], v) \/ Some(acc[L].out, v, "yes")
  <2>1. L \in i..L
    BY <1>0
  <2> QED
    BY <1>9, <2>1
<1>11. LET last == Reading(range)[Len(range)]
       IN /\ Some(last.out, v, "yes") => Some(SpansOf(range), v, "yes")
          /\ Open(last, v) => Some(SpansOf(range), v, "yes")
  BY SpansOfKeeps
<1> QED
  BY <1>10, <1>11 DEF acc, L

\* A record of several ranges: what one of them covers is covered.
LEMMA RecordCovers ==
  ASSUME NEW record \in Seq(EventRange), NEW v
  PROVE  /\ Spans(record) \in Seq(Span)
         /\ \A k \in DOMAIN record : Some(SpansOf(record[k]), v, "yes") => Some(Spans(record), v, "yes")
<1> DEFINE L == Len(record)
           out == Joined(record)
           T == {j \in 0..L : out[j] \in Seq(Span)}
           Y == {j \in 0..L : Some(out[j], v, "yes")}
<1>0. /\ L \in Nat /\ DOMAIN record = 1..L
      /\ \A j \in 1..L : record[j] \in EventRange /\ SpansOf(record[j]) \in Seq(Span)
  BY SpansOfKeeps
<1>1. out[0] = <<>> /\ \A j \in 1..L : out[j] = out[j - 1] \o SpansOf(record[j])
  BY <1>0, JoinedIs
<1>2. Spans(record) = out[L]
  BY DEF Spans
<1> HIDE DEF out, L
<1>3. ASSUME NEW j \in 0..L - 1, j \in T PROVE j + 1 \in T
  <2>1. j + 1 \in 1..L /\ (j + 1) - 1 = j /\ j + 1 \in 0..L
    BY <1>0
  <2>2. out[j + 1] = out[j] \o SpansOf(record[j + 1]) /\ SpansOf(record[j + 1]) \in Seq(Span)
    BY <1>0, <1>1, <2>1
  <2>3. out[j] \in Seq(Span)
    BY <1>3
  <2> QED
    BY <2>1, <2>2, <2>3, ConcatKeeps
<1>4. 0..L \subseteq T
  <2>1. 0 \in T
    <3>1. <<>> \in Seq(Span) /\ 0 \in 0..L
      BY <1>0
    <3> QED
      BY <1>1, <3>1
  <2>2. 0 \in Int /\ L \in Int /\ 0 <= 0
    BY <1>0
  <2> HIDE DEF T
  <2> QED
    BY <1>3, <2>1, <2>2, Climb
<1>5. ASSUME NEW k \in 1..L, Some(SpansOf(record[k]), v, "yes") PROVE Some(out[L], v, "yes")
  <2>1. k \in Y
    <3>1. k - 1 \in 0..L /\ k \in 0..L
      BY <1>0
    <3>2. out[k - 1] \in Seq(Span)
      BY <1>4, <3>1
    <3>3. out[k] = out[k - 1] \o SpansOf(record[k]) /\ SpansOf(record[k]) \in Seq(Span)
      BY <1>0, <1>1
    <3>4. Some(out[k - 1] \o SpansOf(record[k]), v, "yes")
      BY <1>5, <3>2, <3>3, ConcatKeeps
    <3> QED
      BY <3>1, <3>3, <3>4
  <2>2. ASSUME NEW j \in k..L - 1, j \in Y PROVE j + 1 \in Y
    <3>1. j \in 0..L /\ j + 1 \in 1..L /\ (j + 1) - 1 = j /\ j + 1 \in 0..L
      BY <1>0
    <3>2. out[j] \in Seq(Span) /\ Some(out[j], v, "yes")
      BY <1>4, <2>2, <3>1
    <3>3. out[j + 1] = out[j] \o SpansOf(record[j + 1]) /\ SpansOf(record[j + 1]) \in Seq(Span)
      BY <1>0, <1>1, <3>1
    <3>4. Some(out[j] \o SpansOf(record[j + 1]), v, "yes")
      BY <3>2, <3>3, ConcatKeeps
    <3> QED
      BY <3>1, <3>3, <3>4
  <2>3. k \in Int /\ L \in Int /\ 0 <= k /\ L \in k..L
    BY <1>0
  <2> HIDE DEF Y
  <2>4. k..L \subseteq Y
    BY <2>1, <2>2, <2>3, Climb
  <2>5. L \in Y
    BY <2>3, <2>4
  <2> QED
    BY <2>5 DEF Y
<1>6. out[L] \in Seq(Span)
  BY <1>0, <1>4
<1> QED
  BY <1>0, <1>2, <1>5, <1>6

(***************************************************************************)
(* The advisory: which of its records resolve has                          *)
(***************************************************************************)

\* A record has two sequences of ranges, and there is a first record.
LEMMA CarriersAre == \A c \in Carriers : c \in Records /\ 1 \in DOMAIN c
<1>1. /\ \A r \in Ranges(MaxEvents, Version) : r \in EventRange
      /\ \A r \in Ranges(PairEvents, 0..MaxVersion) : r \in EventRange
      /\ \A r \in Ranges(1, 0..MaxVersion) : r \in EventRange
  <2>1. ASSUME NEW n \in Nat, NEW vs \in SUBSET Version, NEW r \in Ranges(n, vs) PROVE r \in EventRange
    <3>1. PICK k \in 0..n : r \in [1..k -> Event(vs)]
      BY DEF Ranges
    <3>2. k \in Nat /\ Event(vs) \subseteq Event(Version)
      BY DEF Event
    <3>3. r \in [1..k -> Event(Version)]
      BY <3>1, <3>2
    <3> QED
      BY <3>2, <3>3, SeqDef DEF EventRange
  <2> QED
    BY <2>1, RangeAssumption DEF Version
<1>2. \A p \in Pairs : p[1] \in EventRange /\ p[2] \in EventRange /\ p \in Seq(EventRange)
  <2>1. \A r, s \in EventRange : <<r, s>> \in Seq(EventRange) /\ <<r, s>>[1] = r /\ <<r, s>>[2] = s
    OBVIOUS
  <2> SUFFICES ASSUME NEW p \in Pairs
               PROVE  p[1] \in EventRange /\ p[2] \in EventRange /\ p \in Seq(EventRange)
    OBVIOUS
  <2>2. PICK r \in Ranges(PairEvents, 0..MaxVersion), s \in Ranges(1, 0..MaxVersion) :
          p = <<r, s>>
    BY DEF Pairs
  <2> QED
    BY <1>1, <2>1, <2>2
<1>3. \A n, o \in Seq(EventRange) : Record(n, o) \in [named : Seq(EventRange), others : Seq(EventRange)]
  BY DEF Record
<1>4. /\ \A r \in EventRange : <<r>> \in Seq(EventRange)
      /\ <<>> \in Seq(EventRange)
  OBVIOUS
<1>5. \A S : \A c, d \in S : /\ <<c>> \in Seq(S) /\ 1 \in DOMAIN <<c>>
                            /\ <<c, d>> \in Seq(S) /\ 1 \in DOMAIN <<c, d>>
  OBVIOUS
<1> SUFFICES ASSUME NEW c \in Carriers PROVE c \in Records /\ 1 \in DOMAIN c
  OBVIOUS
<1> DEFINE R == [named : Seq(EventRange), others : Seq(EventRange)]
<1> HIDE DEF R
<1>a. Records = Seq(R) /\ \A n, o \in Seq(EventRange) : Record(n, o) \in R
  BY <1>3 DEF Records, R
<1>6. CASE c \in {<<Record(<<r>>, <<>>)>> : r \in Ranges(MaxEvents, Version)}
  <2>1. PICK r \in Ranges(MaxEvents, Version) : c = <<Record(<<r>>, <<>>)>>
    BY <1>6
  <2>2. Record(<<r>>, <<>>) \in R
    BY <1>1, <1>4, <1>a
  <2> QED
    BY <1>5, <1>a, <2>1, <2>2
<1>7. CASE c \in {<<Record(p, <<>>)>> : p \in Pairs}
  <2>1. PICK p \in Pairs : c = <<Record(p, <<>>)>>
    BY <1>7
  <2>2. Record(p, <<>>) \in R
    BY <1>2, <1>4, <1>a
  <2> QED
    BY <1>5, <1>a, <2>1, <2>2
<1>8. CASE c \in {<<Record(<<p[1]>>, <<p[2]>>)>> : p \in Pairs}
  <2>1. PICK p \in Pairs : c = <<Record(<<p[1]>>, <<p[2]>>)>>
    BY <1>8
  <2>2. Record(<<p[1]>>, <<p[2]>>) \in R
    BY <1>2, <1>4, <1>a
  <2> QED
    BY <1>5, <1>a, <2>1, <2>2
<1>9. CASE c \in {<<Record(<<p[1]>>, <<>>), Record(<<p[2]>>, <<>>)>> : p \in Pairs}
  <2>1. PICK p \in Pairs : c = <<Record(<<p[1]>>, <<>>), Record(<<p[2]>>, <<>>)>>
    BY <1>9
  <2>2. Record(<<p[1]>>, <<>>) \in R /\ Record(<<p[2]>>, <<>>) \in R
    BY <1>2, <1>4, <1>a
  <2> QED
    BY <1>5, <1>a, <2>1, <2>2
<1>10. CASE c \in {<<Record(<<>>, <<p[1]>>), Record(<<p[2]>>, <<>>)>> : p \in Pairs}
  <2>1. PICK p \in Pairs : c = <<Record(<<>>, <<p[1]>>), Record(<<p[2]>>, <<>>)>>
    BY <1>10
  <2>2. Record(<<>>, <<p[1]>>) \in R /\ Record(<<p[2]>>, <<>>) \in R
    BY <1>2, <1>4, <1>a
  <2> QED
    BY <1>5, <1>a, <2>1, <2>2
<1> QED
  BY <1>6, <1>7, <1>8, <1>9, <1>10 DEF Carriers

LEMMA RecordIs ==
  ASSUME NEW c \in Records, NEW i \in DOMAIN c
  PROVE  c[i].named \in Seq(EventRange)
<1>1. \A S : c \in Seq(S) => c[i] \in S
  OBVIOUS
<1>2. PICK r \in [named : Seq(EventRange), others : Seq(EventRange)] : r = c[i]
  BY <1>1, Zenon DEF Records
<1> QED
  BY <1>2

\* Once resolve has begun there is a record, and none has been given up before the end; once
\* it is resolved, it has some, and if none was given up all that the advisory consists of.
RInv ==
  /\ AdvisoryTypeOK
  /\ stage = "start" => used = {} /\ missed = {}
  /\ stage # "start" => carriers \in Carriers
  /\ stage = "resolved" => used # {} /\ (missed = {} => Advisory \subseteq used)

LEMMA AdvisoryInitially == AdvisoryInit => RInv
BY DEF AdvisoryInit, RInv, AdvisoryTypeOK

LEMMA AdvisoryStep == RInv /\ [AdvisoryNext]_advisoryVars => RInv'
<1> SUFFICES ASSUME RInv, [AdvisoryNext]_advisoryVars PROVE RInv'
  OBVIOUS
<1>1. CASE GetDirect
  <2>1. 1 \in DOMAIN carriers' /\ carriers' \in Carriers /\ direct' \in BOOLEAN /\ missed' = missed
    BY <1>1, CarriersAre DEF GetDirect
  <2>2. missed = {}
    BY <1>1 DEF GetDirect, RInv
  <2> QED
    BY <1>1, <2>1, <2>2 DEF GetDirect, RInv, AdvisoryTypeOK, Advisory
<1>2. CASE ListModule
  BY <1>2 DEF ListModule, RInv, AdvisoryTypeOK, Advisory
<1>3. CASE GetCarriers
  <2>1. PICK gone \in SUBSET DOMAIN carriers :
          /\ used' = used \cup (DOMAIN carriers \ gone) /\ missed' = DOMAIN carriers \ used'
          /\ stage' = IF HasSpans(RecordsAt(used')) THEN "resolved" ELSE "unavailable"
    BY <1>3 DEF GetCarriers
  <2>2. stage = "fetch" /\ UNCHANGED <<carriers, direct>> /\ carriers \in Carriers /\ 1 \in DOMAIN carriers
    BY <1>3, CarriersAre DEF GetCarriers, RInv
  <2>3. stage' = "resolved" => used' # {}
    BY <2>1 DEF HasSpans, RecordsAt
  <2>4. Advisory' \subseteq DOMAIN carriers
    BY <2>2 DEF Advisory
  <2>5. missed' = {} => Advisory' \subseteq used'
    BY <2>1, <2>4
  <2>6. AdvisoryTypeOK'
    BY <2>1, <2>2 DEF RInv, AdvisoryTypeOK
  <2> QED
    BY <2>1, <2>2, <2>3, <2>5, <2>6 DEF RInv
<1>4. CASE UNCHANGED advisoryVars
  BY <1>4 DEF advisoryVars, RInv, AdvisoryTypeOK, Advisory
<1> QED
  BY <1>1, <1>2, <1>3, <1>4 DEF AdvisoryNext

\* Of a version that cannot be ordered nothing is said.
LEMMA GarbledIsOpen ==
  ASSUME RInv, stage = "resolved"
  PROVE  InRange(Garbled) = "none"
<1>1. \A i \in used : Covers(carriers[i], Garbled) = "none"
  BY DEF Covers
<1>2. used # {}
  BY DEF RInv
<1> QED
  BY <1>1, <1>2 DEF InRange, Verdict

\* A version that a range of the advisory affects is in range, if the range is under the
\* module's name and in order, and the version told from its events.
LEMMA AffectedIsInRange ==
  ASSUME RInv, stage = "resolved", missed = {}, NEW v \in 0..MaxVersion,
         NEW i \in Advisory, NEW k \in DOMAIN carriers[i].named,
         InOrder(carriers[i].named[k]), ToldBy(carriers[i].named[k], v), Affects(carriers[i].named[k], v)
  PROVE  InRange(v) = "yes"
<1>1. i \in used /\ carriers \in Records /\ i \in DOMAIN carriers
  <2>1. i \in used /\ used \subseteq DOMAIN carriers /\ carriers \in Carriers
    BY DEF RInv, AdvisoryTypeOK
  <2> QED
    BY <2>1, CarriersAre
<1>2. PICK ranges \in Seq(EventRange) : ranges = carriers[i].named
  BY <1>1, RecordIs
<1>3. k \in DOMAIN ranges /\ ranges[k] \in EventRange
  BY <1>2
<1>4. Some(SpansOf(ranges[k]), v, "yes")
  BY <1>2, <1>3, AffectedIsCovered
<1>5. Some(Spans(ranges), v, "yes")
  BY <1>3, <1>4, RecordCovers
<1>6. v # Garbled
  BY DEF Garbled
<1>7. Covers(carriers[i], v) = "yes"
  BY <1>2, <1>5, <1>6 DEF Covers, Verdict
<1> QED
  BY <1>1, <1>7 DEF InRange, Verdict

\* However many events and ranges a record has and however many versions there are, whatever
\* their keys and whichever fetch failed: what is said to be out of range was ordered, and no
\* range under the module's name that is in order, and that its key tells it from, affects it.
THEOREM NotInRangeHolds == AdvisorySpec => []NotInRangeIsTrue
<1>1. RInv => NotInRangeIsTrue
  <2> SUFFICES ASSUME RInv, stage = "resolved", missed = {}, NEW v \in Version, InRange(v) = "no"
               PROVE  /\ v # Garbled
                      /\ \A i \in Advisory : \A k \in DOMAIN carriers[i].named :
                           InOrder(carriers[i].named[k]) /\ ToldBy(carriers[i].named[k], v) =>
                             ~Affects(carriers[i].named[k], v)
    BY Zenon DEF NotInRangeIsTrue
  <2>1. v # Garbled
    BY GarbledIsOpen
  <2>2. v \in 0..MaxVersion
    BY <2>1 DEF Version
  <2> QED
    BY <2>1, <2>2, AffectedIsInRange
<1> QED
  BY <1>1, AdvisoryInitially, AdvisoryStep, PTL DEF AdvisorySpec

\* A set of places that is not empty has a first, and one of versions one with the lowest key.
LEMMA ForemostIs ==
  ASSUME NEW S \in SUBSET Nat, S # {}
  PROVE  Foremost(S) \in S
BY HasLeast DEF Foremost

LEMMA LowestIs ==
  ASSUME NEW S \in SUBSET (0..MaxVersion), S # {}
  PROVE  Lowest(S) \in S
<1> DEFINE keys == {Key[w] : w \in S}
<1>1. keys \in SUBSET Nat /\ keys # {}
  BY KeyAssumption
<1>2. PICK k \in keys : \A o \in keys : k <= o
  <2> HIDE DEF keys
  <2> QED
    BY <1>1, HasLeast
<1>3. PICK v \in S : \A w \in S : Key[v] <= Key[w]
  BY <1>2
<1> QED
  BY <1>3, Zenon DEF Lowest

\* fixed_for: what it answers, by what fixes there are.
LEMMA FixedForClears ==
  ASSUME NEW ss \in Seq(Span), NEW v \in 0..MaxVersion,
         \A f \in {ss[k].fixed : k \in DOMAIN ss} \ {Unset, Garbled} : Told(v, f)
  PROVE  LET fixes == {ss[k].fixed : k \in DOMAIN ss} \ {Unset}
             fix   == FixedFor(ss, v)
             clear == {f \in fixes : f > v /\ ~Some(ss, f, "yes")}
         IN IF fix = Garbled THEN fixes = {Garbled}
            ELSE /\ fix # Unset => fix > v
                 /\ clear # {} => fix \in clear
<1> DEFINE fixes == {ss[k].fixed : k \in DOMAIN ss} \ {Unset}
           fix   == FixedFor(ss, v)
           clear == {f \in fixes : f > v /\ ~Some(ss, f, "yes")}
           fixed == {i \in DOMAIN ss : ss[i].fixed # Unset}
           above(is) == {f \in {ss[i].fixed : i \in is} \cap 0..MaxVersion : Key[f] > Key[v]}
           own == above({i \in DOMAIN ss : Within(ss[i], v) = "yes"})
           any == above(DOMAIN ss)
<1>1. /\ fix = CASE fixed = {} -> Unset
                 [] fixed # {} /\ (v = Garbled \/ \A i \in fixed : ss[i].fixed = Garbled) ->
                      ss[Foremost(fixed)].fixed
                 [] OTHER -> IF Clean(ss, own) # {} THEN Lowest(Clean(ss, own))
                             ELSE IF Clean(ss, any) # {} THEN Lowest(Clean(ss, any))
                             ELSE IF own # {} THEN Lowest(own) ELSE Unset
  BY DEF FixedFor
<1>2. /\ DOMAIN ss \in SUBSET Nat /\ v # Garbled /\ v \in Nat
      /\ \A i \in DOMAIN ss : ss[i].fixed \in {Unset, Garbled} \cup 0..MaxVersion
  <2>1. DOMAIN ss \in SUBSET Nat /\ \A i \in DOMAIN ss : ss[i] \in Span
    OBVIOUS
  <2> QED
    BY <2>1 DEF Span, Version, Garbled
<1>3. fixes \subseteq {Garbled} \cup 0..MaxVersion
  BY <1>2
<1>4. \A f \in fixes : f > v <=> f \in 0..MaxVersion /\ Key[f] > Key[v]
  <2> SUFFICES ASSUME NEW f \in fixes PROVE f > v <=> f \in 0..MaxVersion /\ Key[f] > Key[v]
    OBVIOUS
  <2>1. CASE f = Garbled
    BY <1>2, <2>1 DEF Garbled
  <2>2. CASE f \in 0..MaxVersion
    <3>1. Told(v, f)
      BY <2>2 DEF Garbled
    <3>2. f \in Int /\ Key[f] \in Int /\ Key[v] \in Int
      BY <2>2, KeyAssumption, RangeAssumption
    <3> QED
      BY <1>2, <2>2, <3>1, <3>2 DEF Told
  <2> QED
    BY <1>3, <2>1, <2>2
<1>5. /\ own \subseteq {f \in fixes : f > v} /\ any = {f \in fixes : f > v}
      /\ own \in SUBSET (0..MaxVersion) /\ any \in SUBSET (0..MaxVersion)
  <2>1. \A f \in 0..MaxVersion : f # Unset
    BY DEF Unset
  <2> QED
    BY <1>4, <2>1
<1> HIDE DEF fix, own, any
<1>6. Clean(ss, own) \subseteq clear /\ Clean(ss, any) = clear /\ clear \in SUBSET (0..MaxVersion)
      /\ Clean(ss, own) \in SUBSET (0..MaxVersion)
  BY <1>5 DEF Clean
<1>c. \A f \in clear : f > v
  OBVIOUS
<1> HIDE DEF clear, fixes
<1>o. \A f \in own : f > v
  BY <1>5
<1>7. \A f \in clear \cup own : f > v /\ f \in 0..MaxVersion /\ f # Garbled /\ f # Unset
  <2>1. \A f \in 0..MaxVersion : f # Garbled /\ f # Unset
    BY DEF Garbled, Unset
  <2> QED
    BY <1>5, <1>6, <1>c, <1>o, <2>1
<1> USE DEF fixes
<1>8. CASE fixed = {}
  <2>1. fix = Unset /\ fixes = {}
    BY <1>1, <1>8
  <2>2. clear = {}
    BY <2>1 DEF clear
  <2> QED
    BY <2>1, <2>2 DEF fix, clear, Unset, Garbled
<1>9. CASE fixed # {} /\ \A i \in fixed : ss[i].fixed = Garbled
  <2>1. Foremost(fixed) \in fixed
    <3>1. fixed \in SUBSET Nat
      BY <1>2
    <3> QED
      BY <1>9, <3>1, ForemostIs
  <2>2. fix = Garbled
    BY <1>1, <1>9, <2>1
  <2>3. fixes = {Garbled}
    BY <1>9
  <2> QED
    BY <2>2, <2>3 DEF fix
<1>10. CASE fixed # {} /\ ~\A i \in fixed : ss[i].fixed = Garbled
  <2>1. fix = IF Clean(ss, own) # {} THEN Lowest(Clean(ss, own))
              ELSE IF Clean(ss, any) # {} THEN Lowest(Clean(ss, any))
              ELSE IF own # {} THEN Lowest(own) ELSE Unset
    BY <1>1, <1>2, <1>10, Zenon
  <2>2. CASE Clean(ss, own) # {}
    <3>1. fix \in clear
      BY <1>6, <2>1, <2>2, LowestIs
    <3> QED
      BY <1>7, <3>1 DEF fix, clear
  <2>3. CASE Clean(ss, own) = {} /\ clear # {}
    <3>1. fix \in clear
      BY <1>6, <2>1, <2>3, LowestIs
    <3> QED
      BY <1>7, <3>1 DEF fix, clear
  <2>4. CASE Clean(ss, own) = {} /\ clear = {} /\ own # {}
    <3>1. fix \in own
      BY <1>5, <1>6, <2>1, <2>4, LowestIs
    <3> QED
      BY <1>7, <2>4, <3>1 DEF fix, clear
  <2>5. CASE Clean(ss, own) = {} /\ clear = {} /\ own = {}
    <3>1. fix = Unset
      BY <1>6, <2>1, <2>5
    <3> QED
      BY <2>5, <3>1 DEF fix, clear, Garbled, Unset
  <2> QED
    BY <2>2, <2>3, <2>4, <2>5
<1> QED
  BY <1>8, <1>9, <1>10

\* Whatever fixes the records name, in whatever order: if the version's key is told from
\* theirs, the one that is offered is above it, and no span covers it again if there is such
\* a fix at all.
THEOREM FixClearsHolds == AdvisorySpec => []FixClears
<1>1. RInv => FixClears
  <2> SUFFICES ASSUME RInv, stage = "resolved", NEW i \in used, NEW v \in 0..MaxVersion
               PROVE  LET ss    == Spans(carriers[i].named)
                          fixes == {ss[k].fixed : k \in DOMAIN ss} \ {Unset}
                          fix   == FixedFor(ss, v)
                          clear == {f \in fixes : f > v /\ ~Some(ss, f, "yes")}
                      IN (\A f \in fixes \ {Garbled} : Told(v, f)) =>
                           IF fix = Garbled THEN fixes = {Garbled}
                           ELSE /\ fix # Unset => fix > v
                                /\ clear # {} => fix \in clear
    BY Zenon DEF FixClears
  <2>1. carriers \in Records /\ i \in DOMAIN carriers
    BY CarriersAre DEF RInv, AdvisoryTypeOK
  <2>2. carriers[i].named \in Seq(EventRange)
    BY <2>1, RecordIs
  <2>3. PICK ss \in Seq(Span) : ss = Spans(carriers[i].named)
    BY <2>2, RecordCovers
  <2>4. \A S : \A f \in S \ {Unset, Garbled} : f \in (S \ {Unset}) \ {Garbled}
    OBVIOUS
  <2>5. (\A f \in ({ss[k].fixed : k \in DOMAIN ss} \ {Unset}) \ {Garbled} : Told(v, f)) =>
          LET fixes == {ss[k].fixed : k \in DOMAIN ss} \ {Unset}
              fix   == FixedFor(ss, v)
              clear == {f \in fixes : f > v /\ ~Some(ss, f, "yes")}
          IN IF fix = Garbled THEN fixes = {Garbled}
             ELSE /\ fix # Unset => fix > v
                  /\ clear # {} => fix \in clear
    BY <2>4, FixedForClears, Zenon
  <2> QED
    BY <2>3, <2>5, Zenon
<1> QED
  BY <1>1, AdvisoryInitially, AdvisoryStep, PTL DEF AdvisorySpec

(***************************************************************************)
(* The advisory: what is in range is affected                              *)
(***************************************************************************)

\* An event that ends what is open.
Ends(range, j) == range[j].kind \in {"fixed", "last_affected"}

\* A range as the schema means it: its events are in order, each that ends a span has one that
\* introduced it since the last end, and what was last affected is not fixed at the same version.
Paired(range) ==
  /\ InOrder(range)
  /\ \A j \in DOMAIN range : Ends(range, j) => \E i \in DOMAIN range :
       i < j /\ range[i].kind = "introduced" /\ \A k \in i..j - 1 : ~Ends(range, k)
  /\ \A j, k \in DOMAIN range :
       j < k /\ range[j].kind = "last_affected" /\ range[k].kind = "fixed" => range[j].at < range[k].at

\* The reading of the first k events is open since the event i.
OpenSince(range, a, k, i) ==
  /\ i \in 1..k /\ range[i].kind = "introduced" /\ range[i].at = a.start
  /\ \A j \in i + 1..k : ~Ends(range, j)

\* What is appended is all there is but for what was before.
LEMMA AppendAdds ==
  ASSUME NEW S, NEW s \in Seq(S), NEW x \in S, NEW v, NEW said, Some(Append(s, x), v, said)
  PROVE  Some(s, v, said) \/ Within(x, v) = said
<1>1. PICK i \in DOMAIN Append(s, x) : Within(Append(s, x)[i], v) = said
  BY DEF Some
<1>2. /\ Len(Append(s, x)) = Len(s) + 1 /\ Append(s, x) \in Seq(S) /\ Len(s) \in Nat
      /\ \A j \in 1..Len(s) : Append(s, x)[j] = s[j]
      /\ Append(s, x)[Len(s) + 1] = x
  BY AppendProperties, LenProperties
<1>3. DOMAIN s = 1..Len(s) /\ DOMAIN Append(s, x) = 1..Len(s) + 1
  BY <1>2, LenProperties
<1>4. CASE i = Len(s) + 1
  BY <1>1, <1>2, <1>4
<1>5. CASE i \in 1..Len(s)
  BY <1>1, <1>2, <1>3, <1>5 DEF Some
<1> QED
  BY <1>1, <1>2, <1>3, <1>4, <1>5

\* A span that covers a version starts at or below its key, and ends above or includes it.
LEMMA CoverStarts ==
  ASSUME NEW x \in Span, NEW v \in 0..MaxVersion, Within(x, v) = "yes"
  PROVE  /\ x.introduced \in 0..MaxVersion /\ Begun(x.introduced, v)
         /\ x.fixed # Unset => Key[v] < Key[x.fixed]
         /\ x.fixed = Unset /\ x.last # Unset => Key[v] <= Key[x.last]
<1>1. /\ x.introduced \in {Garbled} \cup 0..MaxVersion
      /\ x.fixed \in {Unset, Garbled} \cup 0..MaxVersion
      /\ x.last \in {Unset, Garbled} \cup 0..MaxVersion
  BY DEF Span, Version
<1>2. x.introduced # Garbled /\ Begun(x.introduced, v)
  BY DEF Within
<1>3. Key \in [0..MaxVersion -> Int]
  BY KeyAssumption
<1>4. CASE x.fixed # Unset
  <2>1. CASE x.fixed = Garbled
    BY <1>2, <2>1 DEF Within, Unset, Garbled
  <2>2. CASE x.fixed \in 0..MaxVersion
    <3>1. x.fixed >= 0 /\ x.fixed # Unset /\ x.fixed # Garbled /\ x.fixed \in Int
      BY <2>2 DEF Unset, Garbled
    <3>2. Within(x, v) = IF Key[v] < Key[x.fixed] THEN "yes" ELSE "no"
      BY <1>2, <3>1 DEF Within
    <3> QED
      BY <1>1, <1>2, <3>1, <3>2
  <2> QED
    BY <1>1, <1>2, <1>4, <2>1, <2>2
<1>5. CASE x.fixed = Unset
  <2>1. CASE x.last = Garbled
    BY <1>2, <1>5, <2>1 DEF Within, Unset, Garbled
  <2>2. CASE x.last \in 0..MaxVersion
    <3>1. x.last >= 0 /\ x.last # Unset /\ x.last # Garbled /\ x.last \in Int
      BY <2>2 DEF Unset, Garbled
    <3>2. Within(x, v) = IF Key[v] < Key[x.last] \/ Key[v] = Key[x.last] THEN "yes" ELSE "no"
      BY <1>2, <1>5, <3>1 DEF Within
    <3>3. Key[v] \in Int /\ Key[x.last] \in Int
      BY <1>3, <2>2
    <3> QED
      BY <1>1, <1>2, <1>5, <3>2, <3>3
  <2> QED
    BY <1>1, <1>2, <1>5, <2>1, <2>2
<1> QED
  BY <1>4, <1>5

\* A span that is open since an event that introduced no later version, and that nothing up to
\* the version ended, affects it.
LEMMA OpenAffects ==
  ASSUME NEW range \in EventRange, Paired(range), NEW v \in 0..MaxVersion, NEW k \in 0..Len(range), NEW a \in Read,
         NEW i, OpenSince(range, a, k, i), a.start <= v,
         k < Len(range) => /\ range[k + 1].kind = "fixed" => range[k + 1].at > v
                           /\ range[k + 1].kind = "last_affected" => range[k + 1].at >= v
                           /\ Ends(range, k + 1)
  PROVE  Affects(range, v)
<1> DEFINE L == Len(range)
<1>0. /\ L \in Nat /\ DOMAIN range = 1..L
      /\ \A j \in 1..L : range[j] \in Event(Version) /\ range[j].at \in 0..MaxVersion
  <2>1. L \in Nat /\ DOMAIN range = 1..L /\ \A j \in 1..L : range[j] \in Event(Version)
    BY DEF EventRange
  <2> QED
    BY <2>1 DEF Paired, InOrder, Event, Version
<1> HIDE DEF L
<1>1. i \in 1..L /\ range[i].kind = "introduced" /\ range[i].at <= v /\ k \in 0..L /\ i <= k
  BY <1>0 DEF OpenSince, L
<1>2. ASSUME NEW j \in 1..L, j > i
      PROVE  /\ range[j].kind = "fixed" => range[j].at > v
             /\ range[j].kind = "last_affected" => range[j].at >= v
  <2>1. CASE j <= k
    <3>1. ~Ends(range, j)
      BY <1>0, <1>1, <1>2, <2>1 DEF OpenSince
    <3> QED
      BY <3>1 DEF Ends
  <2>2. CASE j = k + 1
    BY <1>0, <1>1, <2>2 DEF L
  <2>3. CASE j > k + 1
    <3>1. k < L /\ k + 1 \in 1..L /\ k + 1 < j
      BY <1>0, <1>1, <2>3
    <3>2. range[k + 1].at <= range[j].at /\ range[k + 1].at \in Int /\ range[j].at \in Int
      BY <1>0, <3>1 DEF Paired, InOrder
    <3>3. CASE range[k + 1].kind = "fixed"
      BY <3>1, <3>2, <3>3 DEF L
    <3>4. CASE range[k + 1].kind = "last_affected"
      <4>1. range[k + 1].at >= v
        BY <3>1, <3>4 DEF L
      <4>2. range[j].kind = "fixed" => range[k + 1].at < range[j].at
        BY <1>0, <3>1, <3>4 DEF Paired
      <4> QED
        BY <3>2, <4>1, <4>2
    <3> QED
      BY <3>1, <3>3, <3>4 DEF Ends, L
  <2> QED
    BY <1>0, <1>1, <2>1, <2>2, <2>3
<1> QED
  BY <1>0, <1>1, <1>2 DEF Affects

\* Of a range as the schema means it, the spans cover only versions that it affects, of those
\* that keys tell from its events.
LEMMA CoveredIsAffected ==
  ASSUME NEW range \in EventRange, NEW v \in 0..MaxVersion, Paired(range), ToldBy(range, v),
         Some(SpansOf(range), v, "yes")
  PROVE  Affects(range, v)
<1> DEFINE L == Len(range)
           acc == Reading(range)
           Right(k) == /\ acc[k].start # Unset => \E i : OpenSince(range, acc[k], k, i)
                       /\ Some(acc[k].out, v, "yes") => Affects(range, v)
           T == {k \in 0..L : Right(k)}
<1>0. /\ L \in Nat /\ DOMAIN range = 1..L
      /\ \A j \in 1..L : range[j] \in Event(Version) /\ range[j].at \in 0..MaxVersion
  <2>1. L \in Nat /\ DOMAIN range = 1..L /\ \A j \in 1..L : range[j] \in Event(Version)
    BY DEF EventRange
  <2> QED
    BY <2>1 DEF Paired, InOrder, Event, Version
<1>1. acc[0] = [start |-> Unset, out |-> <<>>] /\ \A j \in 1..L : acc[j] = ReadEvent(acc[j - 1], range[j])
  BY <1>0, ReadingIs
<1>2. \A j \in 0..L : acc[j] \in Read
  BY ReadingKeeps
<1> HIDE DEF acc, L
<1>3. 0 \in T
  <2>1. ~Some(<<>>, v, "yes")
    BY DEF Some
  <2> QED
    BY <1>0, <1>1, <2>1
<1>4. ASSUME NEW k \in 0..L - 1, k \in T PROVE k + 1 \in T
  <2>1. k \in 0..L /\ k + 1 \in 1..L /\ (k + 1) - 1 = k /\ k + 1 \in 0..L /\ k < L
    BY <1>0
  <2> DEFINE a == acc[k]
             e == range[k + 1]
  <2>2. acc[k + 1] = ReadEvent(a, e) /\ a \in Read /\ e \in Event(Version) /\ e.at \in 0..MaxVersion
    BY <1>0, <1>1, <1>2, <2>1
  <2>3. /\ a.start # Unset => \E i : OpenSince(range, a, k, i)
        /\ Some(a.out, v, "yes") => Affects(range, v)
    BY <1>4
  <2> HIDE DEF a
  <2>4. CASE e.kind = "introduced"
    <3>1. acc[k + 1].out = a.out
      BY <2>2, <2>4 DEF ReadEvent
    <3>2. CASE a.start = Unset
      <4>1. acc[k + 1].start = e.at
        BY <2>2, <2>4, <3>2 DEF ReadEvent, Read
      <4>2. OpenSince(range, acc[k + 1], k + 1, k + 1)
        BY <2>1, <2>4, <4>1 DEF OpenSince
      <4> QED
        BY <2>1, <2>3, <3>1, <4>2
    <3>3. CASE a.start # Unset
      <4>1. PICK i : OpenSince(range, a, k, i)
        BY <2>3, <3>3
      <4>2. acc[k + 1] = a /\ ~Ends(range, k + 1)
        BY <2>2, <2>4, <3>3 DEF ReadEvent, Ends
      <4>3. OpenSince(range, acc[k + 1], k + 1, i)
        BY <2>1, <4>1, <4>2 DEF OpenSince
      <4> QED
        BY <2>1, <2>3, <3>1, <4>3
    <3> QED
      BY <3>2, <3>3
  <2>5. CASE e.kind # "introduced"
    <3> DEFINE x == [introduced |-> a.start,
                     fixed |-> IF e.kind = "fixed" THEN e.at ELSE Unset,
                     last  |-> IF e.kind = "fixed" THEN Unset ELSE e.at]
    <3>1. Ends(range, k + 1)
      BY <2>2, <2>5 DEF Ends, Event
    <3>2. a.start # Unset
      <4>1. PICK i \in 1..L : i < k + 1 /\ range[i].kind = "introduced" /\ \A j \in i..k : ~Ends(range, j)
        BY <1>0, <2>1, <3>1 DEF Paired
      <4> DEFINE O == {j \in 0..L : acc[j].start # Unset}
      <4>2. i \in O
        <5>1. acc[i] = ReadEvent(acc[i - 1], range[i]) /\ acc[i - 1] \in Read /\ range[i].at \in 0..MaxVersion
              /\ i \in 0..L
          BY <1>0, <1>1, <1>2
        <5>2. acc[i].start # Unset
          BY <4>1, <5>1 DEF ReadEvent, Read, Unset
        <5> QED
          BY <5>1, <5>2
      <4>3. ASSUME NEW j \in i..k - 1, j \in O PROVE j + 1 \in O
        <5>1. j + 1 \in 1..L /\ (j + 1) - 1 = j /\ j \in 0..L /\ j + 1 \in 0..L /\ j + 1 \in i..k
          BY <1>0, <2>1, <4>1
        <5>2. acc[j + 1] = ReadEvent(acc[j], range[j + 1]) /\ acc[j] \in Read /\ range[j + 1] \in Event(Version)
              /\ ~Ends(range, j + 1) /\ acc[j].start # Unset
          BY <1>0, <1>1, <1>2, <4>1, <4>3, <5>1
        <5>3. range[j + 1].kind = "introduced"
          BY <5>2 DEF Ends, Event
        <5>4. acc[j + 1] = acc[j]
          BY <5>2, <5>3 DEF ReadEvent
        <5> QED
          BY <5>1, <5>2, <5>4
      <4>4. i \in Int /\ k \in Int /\ 0 <= i /\ k \in i..k
        BY <1>0, <2>1, <4>1
      <4> HIDE DEF O
      <4>5. i..k \subseteq O
        BY <4>2, <4>3, <4>4, Climb
      <4>6. k \in O
        BY <4>4, <4>5
      <4> QED
        BY <4>6 DEF O, a
    <3>3. PICK i : OpenSince(range, a, k, i)
      BY <2>3, <3>2
    <3>4. acc[k + 1] = [start |-> Unset, out |-> Append(a.out, x)]
      BY <2>2, <2>5, <3>2 DEF ReadEvent, End, From, Event
    <3>5. x \in Span
      <4>1. a.start \in Version /\ e.at \in Version
        BY <2>2, <3>2 DEF Read, Event
      <4> QED
        BY <4>1 DEF Span
    <3>6. ASSUME Within(x, v) = "yes" PROVE Affects(range, v)
      <4>1. a.start <= v
        <5>1. x.introduced = a.start
          OBVIOUS
        <5> HIDE DEF x
        <5>2. Begun(a.start, v)
          BY <3>5, <3>6, <5>1, CoverStarts
        <5>3. i \in 1..L /\ range[i].kind = "introduced" /\ range[i].at = a.start
          BY <1>0, <2>1, <3>3 DEF OpenSince
        <5> QED
          BY <1>0, <5>2, <5>3, ToldMeans DEF Paired
      <4>2. (e.kind = "fixed" => e.at > v) /\ (e.kind = "last_affected" => e.at >= v)
        <5>1. /\ e.kind = "fixed" => x.fixed = e.at
              /\ e.kind = "last_affected" => x.fixed = Unset /\ x.last = e.at
          OBVIOUS
        <5>2. e.at # Unset
          BY <2>2 DEF Unset
        <5> HIDE DEF x
        <5>3. (e.kind = "fixed" => Key[v] < Key[e.at]) /\ (e.kind = "last_affected" => Key[v] <= Key[e.at])
          BY <3>5, <3>6, <5>1, <5>2, CoverStarts
        <5>4. e.kind # "introduced" =>
                /\ Key[v] < Key[e.at] <=> v < e.at
                /\ Key[v] <= Key[e.at] <=> v <= e.at
          BY <1>0, <2>1, ToldMeans DEF Paired
        <5> QED
          BY <2>2, <5>3, <5>4
      <4> QED
        BY <2>1, <2>2, <3>1, <3>3, <4>1, <4>2, OpenAffects DEF L
    <3> HIDE DEF x
    <3>7. a.out \in Seq(Span)
      BY <2>2 DEF Read
    <3>8. acc[k + 1].out = Append(a.out, x)
      BY <3>4
    <3>9. ASSUME Some(acc[k + 1].out, v, "yes") PROVE Affects(range, v)
      <4>1. Some(Append(a.out, x), v, "yes")
        BY <3>8, <3>9, Zenon
      <4>2. Some(a.out, v, "yes") \/ Within(x, v) = "yes"
        BY <3>5, <3>7, <4>1, AppendAdds
      <4> QED
        BY <2>3, <3>6, <4>2
    <3>10. acc[k + 1].start = Unset
      BY <3>4
    <3> QED
      BY <2>1, <3>9, <3>10
  <2> QED
    BY <2>4, <2>5
<1>5. 0..L \subseteq T
  <2>1. 0 \in Int /\ L \in Int /\ 0 <= 0
    BY <1>0
  <2> HIDE DEF T
  <2> QED
    BY <1>3, <1>4, <2>1, Climb
<1>6. PICK last : last = acc[L] /\ last \in Read
  BY <1>0, <1>2
<1>7. /\ last.start # Unset => \E i : OpenSince(range, last, L, i)
      /\ Some(last.out, v, "yes") => Affects(range, v)
  BY <1>0, <1>5, <1>6
<1>8. SpansOf(range) = IF last.start = Unset THEN last.out ELSE End(last, Unset, Unset).out
  BY <1>6, Zenon DEF SpansOf, acc, L
<1>9. CASE last.start = Unset
  BY <1>7, <1>8, <1>9
<1>10. CASE last.start # Unset
  <2> DEFINE x == [introduced |-> last.start, fixed |-> Unset, last |-> Unset]
  <2>1. x \in Span /\ SpansOf(range) = Append(last.out, x) /\ last.out \in Seq(Span)
    BY <1>6, <1>8, <1>10 DEF Span, End, From, Read
  <2>2. ASSUME Within(x, v) = "yes" PROVE Affects(range, v)
    <3>2. PICK i : OpenSince(range, last, L, i)
      BY <1>7, <1>10
    <3>1. last.start <= v
      <4>1. x.introduced = last.start
        OBVIOUS
      <4> HIDE DEF x
      <4>2. Begun(last.start, v)
        BY <2>1, <2>2, <4>1, CoverStarts
      <4>3. i \in 1..L /\ range[i].kind = "introduced" /\ range[i].at = last.start
        BY <3>2 DEF OpenSince
      <4> QED
        BY <1>0, <4>2, <4>3, ToldMeans DEF Paired
    <3> QED
      BY <1>0, <1>6, <3>1, <3>2, OpenAffects DEF L
  <2> HIDE DEF x
  <2> QED
    BY <1>7, <2>1, <2>2, AppendAdds
<1> QED
  BY <1>9, <1>10

\* However many events a range has: where they are as the schema means them, the spans that are
\* read from it cover, of the versions that keys tell from them, those that it affects, and no other.
THEOREM SpansAreExact ==
  ASSUME NEW range \in EventRange, NEW v \in 0..MaxVersion, Paired(range), ToldBy(range, v)
  PROVE  Some(SpansOf(range), v, "yes") <=> Affects(range, v)
BY CoveredIsAffected, AffectedIsCovered DEF Paired

\* What one list of spans says after another was put behind it, one of the two said.
LEMMA ConcatAdds ==
  ASSUME NEW S, NEW s \in Seq(S), NEW t \in Seq(S), NEW v, NEW said, Some(s \o t, v, said)
  PROVE  Some(s, v, said) \/ Some(t, v, said)
<1>1. /\ s \o t \in Seq(S) /\ Len(s \o t) = Len(s) + Len(t)
      /\ \A i \in 1..Len(s) + Len(t) :
           (s \o t)[i] = IF i <= Len(s) THEN s[i] ELSE t[i - Len(s)]
  BY ConcatProperties
<1>2. /\ DOMAIN s = 1..Len(s) /\ DOMAIN t = 1..Len(t) /\ DOMAIN (s \o t) = 1..Len(s) + Len(t)
      /\ Len(s) \in Nat /\ Len(t) \in Nat
  BY <1>1, LenProperties
<1>3. PICK i \in 1..Len(s) + Len(t) : Within((s \o t)[i], v) = said
  BY <1>2 DEF Some
<1>4. CASE i <= Len(s)
  <2>1. i \in DOMAIN s /\ (s \o t)[i] = s[i]
    BY <1>1, <1>2, <1>4
  <2> QED
    BY <1>3, <2>1 DEF Some
<1>5. CASE i > Len(s)
  <2>1. i - Len(s) \in DOMAIN t /\ (s \o t)[i] = t[i - Len(s)]
    BY <1>1, <1>2, <1>5
  <2> QED
    BY <1>3, <2>1 DEF Some
<1> QED
  BY <1>2, <1>4, <1>5

\* What the spans of a record cover, those of one of its ranges do.
LEMMA RecordAdds ==
  ASSUME NEW record \in Seq(EventRange), NEW v, Some(Spans(record), v, "yes")
  PROVE  \E k \in DOMAIN record : Some(SpansOf(record[k]), v, "yes")
<1> DEFINE L == Len(record)
           out == Joined(record)
           one == \E k \in 1..L : Some(SpansOf(record[k]), v, "yes")
           T == {j \in 0..L : out[j] \in Seq(Span) /\ (Some(out[j], v, "yes") => one)}
<1>0. /\ L \in Nat /\ DOMAIN record = 1..L
      /\ \A j \in 1..L : record[j] \in EventRange /\ SpansOf(record[j]) \in Seq(Span)
  BY SpansOfKeeps
<1>1. out[0] = <<>> /\ \A j \in 1..L : out[j] = out[j - 1] \o SpansOf(record[j])
  BY <1>0, JoinedIs
<1>2. Spans(record) = out[L]
  BY DEF Spans
<1> HIDE DEF out, L
<1>3. 0 \in T
  <2>1. <<>> \in Seq(Span) /\ 0 \in 0..L /\ ~Some(<<>>, v, "yes")
    BY <1>0 DEF Some
  <2> QED
    BY <1>1, <2>1
<1>4. ASSUME NEW j \in 0..L - 1, j \in T PROVE j + 1 \in T
  <2>1. j + 1 \in 1..L /\ (j + 1) - 1 = j /\ j + 1 \in 0..L
    BY <1>0
  <2>2. out[j + 1] = out[j] \o SpansOf(record[j + 1]) /\ SpansOf(record[j + 1]) \in Seq(Span)
    BY <1>0, <1>1, <2>1
  <2>3. out[j] \in Seq(Span) /\ (Some(out[j], v, "yes") => one)
    BY <1>4
  <2>4. out[j + 1] \in Seq(Span)
    BY <2>2, <2>3, ConcatKeeps
  <2>5. ASSUME Some(out[j + 1], v, "yes") PROVE one
    <3>1. Some(out[j] \o SpansOf(record[j + 1]), v, "yes")
      BY <2>2, <2>5
    <3>2. Some(out[j], v, "yes") \/ Some(SpansOf(record[j + 1]), v, "yes")
      BY <2>2, <2>3, <3>1, ConcatAdds
    <3> QED
      BY <2>1, <2>3, <3>2
  <2> QED
    BY <2>1, <2>4, <2>5
<1>5. 0..L \subseteq T
  <2>1. 0 \in Int /\ L \in Int /\ 0 <= 0
    BY <1>0
  <2> HIDE DEF T
  <2> QED
    BY <1>3, <1>4, <2>1, Climb
<1>6. L \in T
  BY <1>0, <1>5
<1> QED
  BY <1>0, <1>2, <1>6

\* What is said to be in range, a range of a record that was used affects, if the ranges under
\* the module's name are as the schema means them and their keys tell it from their events.
InRangeIsTrue ==
  stage = "resolved" => \A v \in 0..MaxVersion :
    /\ InRange(v) = "yes"
    /\ \A i \in used : \A k \in DOMAIN carriers[i].named :
         Paired(carriers[i].named[k]) /\ ToldBy(carriers[i].named[k], v)
    => \E i \in used : \E k \in DOMAIN carriers[i].named : Affects(carriers[i].named[k], v)

\* The converse of NotInRangeHolds, whichever of the records resolve ends up with: no version
\* is called in range that none of them affects.
THEOREM InRangeHolds == AdvisorySpec => []InRangeIsTrue
<1>1. RInv => InRangeIsTrue
  <2> SUFFICES ASSUME RInv, stage = "resolved", NEW v \in 0..MaxVersion, InRange(v) = "yes",
                      \A i \in used : \A k \in DOMAIN carriers[i].named :
                        Paired(carriers[i].named[k]) /\ ToldBy(carriers[i].named[k], v)
               PROVE  \E i \in used : \E k \in DOMAIN carriers[i].named : Affects(carriers[i].named[k], v)
    BY DEF InRangeIsTrue
  <2>1. PICK i \in used : Covers(carriers[i], v) = "yes"
    BY DEF InRange, Verdict
  <2>2. Some(Spans(carriers[i].named), v, "yes")
    BY <2>1 DEF Covers, Verdict
  <2>3. carriers \in Records /\ i \in DOMAIN carriers
    BY CarriersAre DEF RInv, AdvisoryTypeOK
  <2>4. PICK ranges \in Seq(EventRange) : ranges = carriers[i].named
    BY <2>3, RecordIs
  <2>5. PICK k \in DOMAIN ranges : Some(SpansOf(ranges[k]), v, "yes")
    BY <2>2, <2>4, RecordAdds
  <2>6. ranges[k] \in EventRange
    BY <2>4, <2>5
  <2>7. Paired(ranges[k]) /\ ToldBy(ranges[k], v)
    BY <2>4, <2>5
  <2>8. Affects(ranges[k], v)
    BY <2>5, <2>6, <2>7, SpansAreExact
  <2> QED
    BY <2>4, <2>5, <2>8
<1> QED
  BY <1>1, AdvisoryInitially, AdvisoryStep, PTL DEF AdvisorySpec

(***************************************************************************)
(* The programs of a pipeline                                              *)
(***************************************************************************)

\* The segments that were started are those before the one that is next, and those that were
\* waited for have ended.
Started ==
  /\ parent = "starting" => \A i \in Segment : i >= turn => proc[i] = "none"
  /\ parent = "called" => proc = [i \in Segment |-> "none"] /\ turn = 1
  /\ parent = "called" => given = 0 /\ fed = 0
  /\ parent = "starting" => fed = 0
  /\ parent = "feeding" => fed < given
  /\ parent = "reaping" =>
       /\ Segments \notin Running /\ turn < Segments
       /\ \A i \in Segment : i < turn => i \notin Running
  /\ parent \in Returned => Running = {}

PInv == PipelineTypeOK /\ Started

LEMMA PipelineInitially == PipelineInit => PInv
BY PipelineAssumption, SMTT(30) DEF PipelineInit, PInv, PipelineTypeOK, Started, Segment, Running, Returned, Ended

LEMMA PipelineStep == PInv /\ [PipelineNext]_pipelineVars => PInv'
<1> SUFFICES ASSUME PInv, [PipelineNext]_pipelineVars PROVE PInv'
  OBVIOUS
<1> USE PipelineAssumption DEF PInv, PipelineTypeOK, Started, Segment, Running, Killed, Kills, Pipe,
      Returned, Ended
<1>1. CASE Call
  BY <1>1, SMTT(30) DEF Call
<1>2. CASE StartSegment
  BY <1>2, SMTT(60) DEF StartSegment
<1>3. CASE StartFails
  BY <1>3, SMTT(30) DEF StartFails
<1>4. CASE FeedBreaks
  BY <1>4, SMTT(30) DEF FeedBreaks
<1>5. CASE Feed
  BY <1>5, SMTT(30) DEF Feed
<1>6. CASE LastEnded
  BY <1>6, SMTT(30) DEF LastEnded
<1>7. CASE OutputRaises
  BY <1>7, SMTT(30) DEF OutputRaises
<1>8. CASE Deadline
  BY <1>8, SMTT(30) DEF Deadline
<1>9. CASE Reap
  BY <1>9, SMTT(60) DEF Reap
<1>10. CASE ReapTimesOut
  BY <1>10, SMTT(30) DEF ReapTimesOut
<1>11. CASE SegmentReads
  BY <1>11, SMTT(30) DEF SegmentReads
<1>12. CASE SegmentEnds
  BY <1>12, SMTT(60) DEF SegmentEnds
<1>13. CASE UNCHANGED pipelineVars
  BY <1>13, SMTT(30) DEF pipelineVars
<1> QED
  BY <1>1, <1>2, <1>3, <1>4, <1>5, <1>6, <1>7, <1>8, <1>9, <1>10, <1>11, <1>12, <1>13, Zenon
  DEF PipelineNext, ParentStep, SegmentStep

LEMMA PipelineInvariant == PipelineSpec => []PInv
BY PipelineInitially, PipelineStep, PTL DEF PipelineSpec

\* Every variable of run_segments stays in its type; in particular a call never waits for a
\* segment that there is not, and never writes more than it was given.
THEOREM PipelineTyped == PipelineSpec => []PipelineTypeOK
<1>1. PInv => PipelineTypeOK
  BY DEF PInv
<1> QED
  BY <1>1, PipelineInvariant, PTL

\* However long the pipeline, and whatever its segments do: when run_segments returns, be it
\* with a result, at its deadline or after a failure to start or feed them, none still runs.
THEOREM NothingLeft == PipelineSpec => []ReturnLeavesNothing
<1>1. PInv => ReturnLeavesNothing
  BY DEF PInv, Started, ReturnLeavesNothing
<1> QED
  BY <1>1, PipelineInvariant, PTL

(***************************************************************************)
(* The lookups at OSV                                                      *)
(***************************************************************************)

Waiting == todo \cup chunk \cup pages

\* A query waits in one place, or its last lookup was given up.
Apart ==
  /\ todo \cap chunk = {} /\ todo \cap pages = {} /\ chunk \cap pages = {}
  /\ failed \cap Waiting = {}
NoneWait == \A q \in Query : answer[q] = "none" <=> q \in Waiting \cup failed
Counted  == Issues = Cardinality(failed)
AllAsked == /\ pass = "returned" => Waiting = {}
            /\ chunk # {} => pages = {}

CInv == ClientTypeOK /\ Apart /\ NoneWait /\ Counted /\ AllAsked

\* Issues are counted under one status at a time.
LEMMA CountAdds ==
  ASSUME issues \in [Status -> Nat], NEW status \in Status, NEW n \in Nat, Count(status, n)
  PROVE  issues' \in [Status -> Nat] /\ Issues' = Issues + n
<1>1. issues' = [issues EXCEPT ![status] = @ + n]
  BY DEF Count
<1>2. issues["quota-deferred"] \in Nat /\ issues["unreachable"] \in Nat /\ issues["error"] \in Nat
  BY DEF Status, Transient
<1>3. issues' \in [Status -> Nat]
  BY <1>1
<1>4. CASE status = "quota-deferred"
  BY <1>1, <1>2, <1>4 DEF Issues, Status, Transient
<1>5. CASE status = "unreachable"
  BY <1>1, <1>2, <1>5 DEF Issues, Status, Transient
<1>6. CASE status = "error"
  BY <1>1, <1>2, <1>6 DEF Issues, Status, Transient
<1> QED
  BY <1>3, <1>4, <1>5, <1>6 DEF Status, Transient

\* The queries of a call can be counted, and so can any of them.
LEMMA QueriesFinite == ASSUME NEW S \in SUBSET Query PROVE IsFiniteSet(S) /\ Cardinality(S) \in Nat
<1>1. IsFiniteSet(Query)
  BY ClientAssumption, FS_Interval DEF Query
<1>2. IsFiniteSet(S)
  BY <1>1, FS_Subset
<1> QED
  BY <1>2, FS_CardinalityType

\* Queries that are apart are counted apart.
LEMMA CardinalityAdds ==
  ASSUME NEW S \in SUBSET Query, NEW T \in SUBSET Query, S \cap T = {}
  PROVE  Cardinality(S \cup T) = Cardinality(S) + Cardinality(T)
<1>1. IsFiniteSet(S) /\ IsFiniteSet(T) /\ Cardinality(S) \in Nat /\ Cardinality(T) \in Nat
  BY QueriesFinite
<1>2. Cardinality(S \cup T) = Cardinality(S) + Cardinality(T) - Cardinality(S \cap T)
  BY <1>1, FS_Union
<1> QED
  BY <1>1, <1>2, FS_EmptySet

LEMMA ClientInitially == ClientInit => CInv
<1> SUFFICES ASSUME ClientInit PROVE CInv
  OBVIOUS
<1>1. Waiting = Query /\ failed = {}
  BY DEF ClientInit, Waiting
<1>2. ClientTypeOK
  BY ClientAssumption DEF ClientInit, ClientTypeOK
<1>3. Apart /\ NoneWait /\ AllAsked
  BY <1>1 DEF ClientInit, Apart, NoneWait, AllAsked
<1>4. Counted
  BY FS_EmptySet DEF ClientInit, Counted, Issues, Status, Transient
<1> QED
  BY <1>2, <1>3, <1>4 DEF CInv

\* As what they are read, the results of a batch are the ones that an honest answer has.
LEMMA ResultsRead == BatchAnswered =>
  \E got \in [chunk -> {"empty", "some", "more"}] :
    /\ answer' = [q \in Query |-> IF q \in chunk /\ got[q] # "more" THEN got[q] ELSE answer[q]]
    /\ pages' = {q \in chunk : got[q] = "more"}
<1> SUFFICES ASSUME BatchAnswered
             PROVE  \E got \in [chunk -> {"empty", "some", "more"}] :
                      /\ answer' = [q \in Query |-> IF q \in chunk /\ got[q] # "more" THEN got[q] ELSE answer[q]]
                      /\ pages' = {q \in chunk : got[q] = "more"}
  OBVIOUS
<1>1. PICK res \in [chunk -> Result] :
        /\ answer' = [q \in Query |-> IF q \in chunk /\ res[q] # "more" THEN ReadAs(res[q]) ELSE answer[q]]
        /\ pages' = {q \in chunk : res[q] = "more"}
  BY DEF BatchAnswered
<1> DEFINE got == [q \in chunk |-> ReadAs(res[q])]
<1>2. got \in [chunk -> {"empty", "some", "more"}] /\ \A q \in chunk : got[q] = "more" <=> res[q] = "more"
  BY DEF Result, ReadAs
<1>3. answer' = [q \in Query |-> IF q \in chunk /\ got[q] # "more" THEN got[q] ELSE answer[q]]
  BY <1>1, <1>2
<1>4. pages' = {q \in chunk : got[q] = "more"}
  BY <1>1, <1>2
<1> QED
  BY <1>2, <1>3, <1>4

LEMMA ClientStep == CInv /\ [ClientNext]_clientVars => CInv'
<1> SUFFICES ASSUME CInv, [ClientNext]_clientVars PROVE CInv'
  OBVIOUS
<1>0. ClientTypeOK /\ Apart /\ NoneWait /\ Counted /\ AllAsked
  BY DEF CInv
<1>t. /\ todo \in SUBSET Query /\ chunk \in SUBSET Query /\ pages \in SUBSET Query
      /\ failed \in SUBSET Query /\ tries \in 0..Retries - 1 /\ Retries \in Nat \ {0}
      /\ answer \in [Query -> {"none", "empty", "some"}] /\ issues \in [Status -> Nat]
      /\ pass \in {"first", "again", "returned"}
  BY <1>0, ClientAssumption DEF ClientTypeOK
<1>f. \A n, S : First(n, S) \subseteq S
  BY DEF First
<1>1. CASE SendBatch
  <2>1. /\ Waiting' = Waiting /\ todo' \subseteq todo /\ chunk' \subseteq todo
        /\ todo' \cap chunk' = {} /\ chunk = {} /\ pages = {} /\ tries' = 0
        /\ UNCHANGED <<pages, answer, issues, pass, failed>>
    BY <1>1, <1>f DEF SendBatch, InFlight, Waiting
  <2>2. ClientTypeOK'
    BY <1>t, <2>1 DEF ClientTypeOK
  <2>3. Apart' /\ NoneWait' /\ AllAsked'
    BY <1>0, <2>1 DEF Apart, NoneWait, AllAsked
  <2> QED
    BY <1>0, <2>1, <2>2, <2>3 DEF CInv, Counted, Issues
<1>2. CASE TryAgain
  BY <1>0, <1>t, <1>2 DEF TryAgain, CInv, ClientTypeOK, Apart, NoneWait, AllAsked, Waiting, Counted,
     Issues
<1>3. CASE BatchAnswered
  <2>1. PICK got \in [chunk -> {"empty", "some", "more"}] :
          /\ answer' = [q \in Query |-> IF q \in chunk /\ got[q] # "more" THEN got[q] ELSE answer[q]]
          /\ pages' = {q \in chunk : got[q] = "more"}
    BY <1>3, ResultsRead
  <2>2. /\ chunk' = {} /\ tries' = 0 /\ failed' = failed \ chunk /\ chunk # {}
        /\ UNCHANGED <<todo, issues, pass>>
    BY <1>3 DEF BatchAnswered
  <2>3. failed' = failed
    BY <1>0, <2>2 DEF Apart, Waiting
  <2>4. answer' \in [Query -> {"none", "empty", "some"}]
    BY <1>t, <2>1
  <2>5. ClientTypeOK'
    BY <1>t, <2>1, <2>2, <2>3, <2>4 DEF ClientTypeOK
  <2>6. pages = {}
    BY <1>0, <2>2 DEF AllAsked
  <2>7. Apart' /\ NoneWait' /\ AllAsked'
    BY <1>0, <1>t, <2>1, <2>2, <2>3, <2>6 DEF Apart, NoneWait, AllAsked, Waiting
  <2> QED
    BY <1>0, <2>2, <2>3, <2>5, <2>7 DEF CInv, Counted, Issues
<1>4. CASE PageAnswered
  <2>1. CASE UNCHANGED <<pages, answer>>
    BY <1>0, <1>t, <1>4, <2>1 DEF PageAnswered, CInv, ClientTypeOK, Apart, NoneWait, AllAsked,
       Waiting, Counted, Issues
  <2>2. CASE ~UNCHANGED <<pages, answer>>
    <3>1. PICK q \in pages, got \in {"empty", "some"} :
            pages' = pages \ {q} /\ answer' = [answer EXCEPT ![q] = got]
      BY <1>4, <1>f, <2>2 DEF PageAnswered
    <3>2. tries' = 0 /\ UNCHANGED <<todo, chunk, issues, pass, failed>>
      BY <1>4 DEF PageAnswered
    <3>3. ClientTypeOK'
      BY <1>t, <3>1, <3>2 DEF ClientTypeOK
    <3>4. Apart' /\ NoneWait' /\ AllAsked'
      BY <1>0, <1>t, <3>1, <3>2 DEF Apart, NoneWait, AllAsked, Waiting
    <3> QED
      BY <1>0, <3>2, <3>3, <3>4 DEF CInv, Counted, Issues
  <2> QED
    BY <2>1, <2>2
<1>5. ASSUME NEW status \in Status, BatchFails(status) PROVE CInv'
  <2>1. /\ Count(status, Cardinality(chunk)) /\ failed' = failed \cup chunk /\ chunk' = {}
        /\ UNCHANGED <<todo, pages, tries, answer, pass>>
    BY <1>5 DEF BatchFails
  <2>2. Cardinality(failed') = Cardinality(failed) + Cardinality(chunk) /\ Cardinality(chunk) \in Nat
    BY <1>0, <1>t, <2>1, CardinalityAdds, QueriesFinite DEF Apart, Waiting
  <2>3. issues' \in [Status -> Nat] /\ Counted'
    BY <1>0, <1>t, <2>1, <2>2, CountAdds DEF Counted
  <2>4. ClientTypeOK'
    BY <1>t, <2>1, <2>3 DEF ClientTypeOK
  <2>5. Apart' /\ NoneWait' /\ AllAsked'
    BY <1>0, <1>t, <2>1 DEF Apart, NoneWait, AllAsked, Waiting
  <2> QED
    BY <2>3, <2>4, <2>5 DEF CInv
<1>6. ASSUME NEW status \in Status, PageFails(status) PROVE CInv'
  <2>1. PICK q \in pages : failed' = failed \cup {q} /\ pages' = pages \ {q}
    BY <1>6, <1>f DEF PageFails
  <2>2. Count(status, 1) /\ tries' = 0 /\ UNCHANGED <<todo, chunk, answer, pass>>
    BY <1>6 DEF PageFails
  <2>3. Cardinality(failed') = Cardinality(failed) + 1
    <3>1. q \notin failed
      BY <1>0, <2>1 DEF Apart, Waiting
    <3> QED
      BY <1>t, <2>1, <3>1, QueriesFinite, FS_AddElement
  <2>4. issues' \in [Status -> Nat] /\ Counted'
    BY <1>0, <1>t, <2>2, <2>3, CountAdds DEF Counted
  <2>5. ClientTypeOK'
    BY <1>t, <2>1, <2>2, <2>4 DEF ClientTypeOK
  <2>6. Apart' /\ NoneWait' /\ AllAsked'
    BY <1>0, <1>t, <2>1, <2>2 DEF Apart, NoneWait, AllAsked, Waiting
  <2> QED
    BY <2>4, <2>5, <2>6 DEF CInv
<1>7. CASE Recase
  <2>1. PICK retry \in SUBSET {q \in Nuget : answer[q] = "empty"} :
          /\ todo' = retry
          /\ answer' = [q \in Query |-> IF q \in retry THEN "none" ELSE answer[q]]
    BY <1>7 DEF Recase
  <2>2. /\ todo = {} /\ chunk = {} /\ pages = {} /\ pass' = "again"
        /\ UNCHANGED <<chunk, pages, tries, issues, failed>>
    BY <1>7 DEF Recase, InFlight
  <2>3. todo' \in SUBSET Query
    BY <2>1, ClientAssumption DEF Query
  <2>4. answer' \in [Query -> {"none", "empty", "some"}]
    BY <1>t, <2>1
  <2>5. ClientTypeOK'
    BY <1>t, <2>2, <2>3, <2>4 DEF ClientTypeOK
  <2>6. \A q \in retry : q \in Query /\ q \notin failed
    BY <1>0, <2>1, <2>3 DEF NoneWait
  <2>7. Apart' /\ NoneWait' /\ AllAsked'
    BY <1>0, <1>t, <2>1, <2>2, <2>6 DEF Apart, NoneWait, AllAsked, Waiting
  <2> QED
    BY <1>0, <2>2, <2>5, <2>7 DEF CInv, Counted, Issues
<1>8. CASE Return
  BY <1>0, <1>t, <1>8 DEF Return, InFlight, CInv, ClientTypeOK, Apart, NoneWait, AllAsked, Waiting,
     Counted, Issues
<1>9. CASE UNCHANGED clientVars
  BY <1>0, <1>9 DEF clientVars, CInv, ClientTypeOK, Apart, NoneWait, AllAsked, Waiting, Counted, Issues
<1> QED
  BY <1>1, <1>2, <1>3, <1>4, <1>5, <1>6, <1>7, <1>8, <1>9 DEF ClientNext

\* However many queries, in batches of whatever size, on whatever page and in whichever pass a
\* request is given up: who has no answer failed, and is counted once.
THEOREM NoneIsFailed == ClientSpec => []FailedIsCountedNone
<1>1. CInv => FailedIsCountedNone
  BY DEF CInv, AllAsked, NoneWait, Counted, ClientTypeOK, FailedIsCountedNone
<1> QED
  BY <1>1, ClientInitially, ClientStep, PTL DEF ClientSpec

-----------------------------------------------------------------------------
(* Each query is settled once                                              *)

\* The queries that no answer and no failure has settled.
Unsettled == {q \in Query : q \in Waiting \/ (pass = "first" /\ q \in Nuget /\ answer[q] = "empty")}

\* What SettledAs says of each query.
SettledRight ==
  /\ SettledAs \in [Query -> {"open", "failed", "empty", "some"}]
  /\ Lookup!Open = Unsettled
  /\ \A q \in Query : q \in Unsettled => SettledAs[q] = "open"
  /\ \A q \in Query : q \notin Unsettled =>
       SettledAs[q] = IF q \in failed THEN "failed" ELSE answer[q]

LEMMA SettledAsIs == CInv => SettledRight
<1> SUFFICES ASSUME CInv PROVE SettledRight
  OBVIOUS
<1>1. /\ answer \in [Query -> {"none", "empty", "some"}] /\ failed \in SUBSET Query
      /\ \A q \in Query : answer[q] = "none" <=> q \in Waiting \cup failed
  BY DEF CInv, ClientTypeOK, NoneWait
<1>2. \A q \in Query : SettledAs[q] = IF q \in Unsettled THEN "open"
                                      ELSE IF q \in failed THEN "failed" ELSE answer[q]
  BY DEF SettledAs, Unsettled, Waiting
<1>3. \A q \in Query : q \notin Unsettled => (q \in failed \/ answer[q] \in {"empty", "some"})
  BY <1>1 DEF Unsettled
<1>4. SettledAs = [q \in Query |-> SettledAs[q]]
  BY DEF SettledAs
<1>5. \A q \in Query : SettledAs[q] \in {"open", "failed", "empty", "some"}
  BY <1>2, <1>3
<1>6. SettledAs \in [Query -> {"open", "failed", "empty", "some"}]
  <2> HIDE DEF SettledAs
  <2> QED
    BY <1>4, <1>5
<1>7. Lookup!Open = {q \in Query : SettledAs[q] = "open"}
  BY DEF Lookup!Open
<1>8. Lookup!Open = Unsettled
  BY <1>1, <1>2, <1>3, <1>7 DEF Unsettled
<1> QED
  BY <1>2, <1>6, <1>8 DEF SettledRight

\* The sets of LookupView are counted as those of OsvClient.
LEMMA CountedAlike == \A S : Lookup!Cardinality(S) = Cardinality(S)
BY Zenon DEF Lookup!Cardinality, Cardinality, Lookup!IsFiniteSet, IsFiniteSet

LEMMA LookupInitially == ClientInit => Lookup!Init
<1> SUFFICES ASSUME ClientInit PROVE Lookup!Init
  OBVIOUS
<1>1. SettledAs = [q \in Query |-> "open"]
  BY DEF ClientInit, SettledAs
<1>2. Issues = 0 /\ pass # "returned"
  BY DEF ClientInit, Issues, Status, Transient
<1> QED
  BY <1>1, <1>2 DEF Lookup!Init

\* A step that leaves what is settled, and counts those it settles by a failure, is one of
\* LookupView.
LEMMA SettlesSome ==
  ASSUME CInv, CInv', pass # "returned", pass' # "returned", Unsettled' \subseteq Unsettled,
         \A q \in Query \ Unsettled : (q \in failed' <=> q \in failed) /\ answer'[q] = answer[q],
         NEW lost \in SUBSET Unsettled, lost \cap Unsettled' = {}, failed' = failed \cup lost,
         Issues' = Issues + Cardinality(lost)
  PROVE  Lookup!Settle
<1>1. /\ SettledAs' \in [Query -> {"open", "failed", "empty", "some"}]
      /\ \A q \in Query : q \in Unsettled' => SettledAs'[q] = "open"
      /\ \A q \in Query : q \notin Unsettled' =>
              SettledAs'[q] = IF q \in failed' THEN "failed" ELSE answer'[q]
      /\ \A q \in Query : q \notin Unsettled =>
              SettledAs[q] = IF q \in failed THEN "failed" ELSE answer[q]
      /\ Lookup!Open = Unsettled
  <2>1. SettledRight /\ SettledRight'
    BY SettledAsIs, PTL
  <2> QED
    BY <2>1 DEF SettledRight
<1>2. \A q \in Query \ Lookup!Open : SettledAs'[q] = SettledAs[q]
  BY <1>1
<1>3. {q \in Lookup!Open : SettledAs'[q] = "failed"} = lost
  <2>1. \A q \in Unsettled : q \in Query /\ q \notin failed /\ answer'[q] # "failed"
    <3>1. Unsettled \subseteq Query
      BY DEF Unsettled
    <3>2. answer' \in [Query -> {"none", "empty", "some"}]
      BY DEF CInv, ClientTypeOK
    <3>3. \A q \in Unsettled : q \notin failed
      BY DEF CInv, Apart, NoneWait, Unsettled
    <3> QED
      BY <3>1, <3>2, <3>3
  <2> QED
    BY <1>1, <2>1
<1>4. ~(pass = "returned") /\ (pass' = "returned") = (pass = "returned")
  OBVIOUS
<1> HIDE DEF SettledAs
<1> QED
  BY <1>1, <1>2, <1>3, <1>4, CountedAlike DEF Lookup!Settle, Lookup!Said

\* Each step settles some of the open queries, those it gives up by a failure, or returns when
\* none is open.
LEMMA LookupStep == CInv /\ [ClientNext]_clientVars => [Lookup!Next]_(Lookup!lookupVars)
<1> SUFFICES ASSUME CInv, [ClientNext]_clientVars PROVE [Lookup!Next]_(Lookup!lookupVars)
  OBVIOUS
<1>0. CInv' /\ CInv
  BY ClientStep
<1>t. /\ todo \in SUBSET Query /\ chunk \in SUBSET Query /\ pages \in SUBSET Query
      /\ failed \in SUBSET Query /\ answer \in [Query -> {"none", "empty", "some"}]
      /\ pass \in {"first", "again", "returned"}
      /\ \A q \in Query : answer[q] = "none" <=> q \in Waiting \cup failed
      /\ pass = "returned" => Waiting = {}
  BY <1>0 DEF CInv, ClientTypeOK, NoneWait, AllAsked
<1>f. \A n, S : First(n, S) \subseteq S
  BY DEF First
<1>e. failed = failed \cup {} /\ Issues = Issues + Cardinality({})
  BY <1>0, FS_EmptySet, QueriesFinite DEF CInv, Counted, ClientTypeOK
<1>s. Unsettled \subseteq Query /\ chunk \subseteq Unsettled /\ pages \subseteq Unsettled
  BY <1>t DEF Unsettled, Waiting
<1>1. CASE SendBatch
  <2>1. Unsettled' = Unsettled /\ UNCHANGED <<answer, issues, pass, failed>>
    BY <1>1, <1>f DEF SendBatch, InFlight, Waiting, Unsettled
  <2>2. todo # {} /\ pass # "returned"
    BY <1>1, <1>t DEF SendBatch, Waiting
  <2>3. Issues' = Issues
    BY <2>1 DEF Issues
  <2> QED
    BY <1>0, <1>e, <2>1, <2>2, <2>3, SettlesSome DEF Lookup!Next
<1>2. CASE TryAgain \/ UNCHANGED clientVars
  <2>1. UNCHANGED <<SettledAs, Issues, pass>>
    BY <1>2 DEF TryAgain, clientVars, SettledAs, Issues
  <2> QED
    BY <2>1 DEF Lookup!lookupVars
<1>3. CASE BatchAnswered
  <2>1. PICK got \in [chunk -> {"empty", "some", "more"}] :
          /\ answer' = [q \in Query |-> IF q \in chunk /\ got[q] # "more" THEN got[q] ELSE answer[q]]
          /\ pages' = {q \in chunk : got[q] = "more"}
    BY <1>3, ResultsRead
  <2>2. /\ chunk' = {} /\ failed' = failed \ chunk /\ chunk # {}
        /\ UNCHANGED <<todo, issues, pass>>
    BY <1>3 DEF BatchAnswered
  <2>3. failed' = failed /\ pages = {}
    BY <1>0, <2>2 DEF CInv, Apart, AllAsked, Waiting
  <2>4. pass # "returned"
    BY <1>t, <2>2 DEF Waiting
  <2>5. Unsettled' \subseteq Unsettled
    BY <1>t, <2>1, <2>2, <2>3 DEF Unsettled, Waiting
  <2>6. \A q \in Query \ Unsettled : answer'[q] = answer[q]
    BY <1>s, <2>1
  <2>7. Issues' = Issues
    BY <2>2 DEF Issues
  <2> QED
    BY <1>0, <1>e, <2>2, <2>3, <2>4, <2>5, <2>6, <2>7, SettlesSome DEF Lookup!Next
<1>4. CASE PageAnswered
  <2>1. UNCHANGED <<todo, chunk, issues, pass, failed>> /\ pages # {} /\ pass # "returned" /\ Issues' = Issues
    BY <1>4, <1>t DEF PageAnswered, Waiting, Issues
  <2>2. CASE UNCHANGED <<pages, answer>>
    <3>1. UNCHANGED <<SettledAs, Issues, pass>>
      BY <2>1, <2>2 DEF SettledAs, Issues
    <3> QED
      BY <3>1 DEF Lookup!lookupVars
  <2>3. CASE ~UNCHANGED <<pages, answer>>
    <3>1. PICK q \in pages, got \in {"empty", "some"} :
            pages' = pages \ {q} /\ answer' = [answer EXCEPT ![q] = got]
      BY <1>4, <1>f, <2>3 DEF PageAnswered
    <3>2. Unsettled' \subseteq Unsettled
      BY <1>t, <2>1, <3>1 DEF Unsettled, Waiting
    <3>3. \A p \in Query \ Unsettled : answer'[p] = answer[p]
      BY <1>t, <1>s, <3>1
    <3> QED
      BY <1>0, <1>e, <2>1, <3>2, <3>3, SettlesSome DEF Lookup!Next
  <2> QED
    BY <2>2, <2>3
<1>5. ASSUME NEW status \in Status, BatchFails(status) PROVE Lookup!Next
  <2>1. /\ Count(status, Cardinality(chunk)) /\ failed' = failed \cup chunk /\ chunk' = {} /\ chunk # {}
        /\ UNCHANGED <<todo, pages, answer, pass>>
    BY <1>5 DEF BatchFails
  <2>2. pass # "returned"
    BY <1>t, <2>1 DEF Waiting
  <2>3. chunk \cap Unsettled' = {}
    BY <1>0, <1>t, <2>1 DEF CInv, Apart, Unsettled, Waiting
  <2>4. Unsettled' \subseteq Unsettled
    BY <2>1 DEF Unsettled, Waiting
  <2>5. Issues' = Issues + Cardinality(chunk)
    <3>1. issues \in [Status -> Nat] /\ Cardinality(chunk) \in Nat
      BY <1>0, <1>t, QueriesFinite DEF CInv, ClientTypeOK
    <3> QED
      BY <2>1, <3>1, CountAdds
  <2>6. \A q \in Query \ Unsettled : (q \in failed' <=> q \in failed) /\ answer'[q] = answer[q]
    BY <1>s, <2>1
  <2> QED
    BY <1>0, <1>s, <2>1, <2>2, <2>3, <2>4, <2>5, <2>6, SettlesSome DEF Lookup!Next
<1>6. ASSUME NEW status \in Status, PageFails(status) PROVE Lookup!Next
  <2>1. PICK q \in pages : failed' = failed \cup {q} /\ pages' = pages \ {q}
    BY <1>6, <1>f DEF PageFails
  <2>2. Count(status, 1) /\ UNCHANGED <<todo, chunk, answer, pass>>
    BY <1>6 DEF PageFails
  <2>3. pass # "returned"
    BY <1>t, <2>1 DEF Waiting
  <2>4. {q} \cap Unsettled' = {}
    BY <1>0, <1>t, <2>1, <2>2 DEF CInv, Apart, Unsettled, Waiting
  <2>5. Unsettled' \subseteq Unsettled
    BY <2>1, <2>2 DEF Unsettled, Waiting
  <2>6. Issues' = Issues + Cardinality({q})
    <3>1. issues \in [Status -> Nat] /\ Cardinality({q}) = 1
      BY <1>0, FS_Singleton DEF CInv, ClientTypeOK
    <3> QED
      BY <2>2, <3>1, CountAdds
  <2>7. \A p \in Query \ Unsettled : (p \in failed' <=> p \in failed) /\ answer'[p] = answer[p]
    BY <1>s, <2>1, <2>2
  <2>8. {q} \in SUBSET Unsettled
    BY <1>s
  <2> QED
    BY <1>0, <2>1, <2>2, <2>3, <2>4, <2>5, <2>6, <2>7, <2>8, SettlesSome DEF Lookup!Next
<1>7. CASE Recase
  <2>1. PICK retry \in SUBSET {q \in Nuget : answer[q] = "empty"} :
          /\ todo' = retry
          /\ answer' = [q \in Query |-> IF q \in retry THEN "none" ELSE answer[q]]
    BY <1>7 DEF Recase
  <2>2. /\ todo = {} /\ chunk = {} /\ pages = {} /\ pass = "first" /\ pass' = "again"
        /\ UNCHANGED <<chunk, pages, issues, failed>>
    BY <1>7 DEF Recase, InFlight
  <2>3. retry \subseteq Unsettled /\ Unsettled' = retry
    BY <2>1, <2>2, ClientAssumption DEF Unsettled, Waiting, Query
  <2>4. \A q \in Query \ Unsettled : answer'[q] = answer[q]
    BY <2>1, <2>3
  <2>5. Issues' = Issues
    BY <2>2 DEF Issues
  <2> QED
    BY <1>0, <1>e, <2>2, <2>3, <2>4, <2>5, SettlesSome DEF Lookup!Next
<1>8. CASE Return
  <2>1. /\ pass = "again" /\ pass' = "returned" /\ Waiting = {}
        /\ UNCHANGED <<todo, chunk, pages, answer, issues, failed>>
    BY <1>8 DEF Return, InFlight, Waiting
  <2>2. SettledAs' = SettledAs /\ Issues' = Issues
    BY <2>1 DEF SettledAs, Issues
  <2>3. Lookup!Open = {}
    <3>1. Lookup!Open = Unsettled
      BY SettledAsIs DEF SettledRight
    <3> QED
      BY <2>1, <3>1 DEF Unsettled
  <2>4. Lookup!Return
    BY <2>1, <2>2, <2>3 DEF Lookup!Return
  <2> QED
    BY <2>4 DEF Lookup!Next
<1> QED
  BY <1>1, <1>2, <1>3, <1>4, <1>5, <1>6, <1>7, <1>8 DEF ClientNext

\* query_batch implements LookupView, for any queries, batches, pages, retries and casings: each
\* query is settled once and for all, each failure is counted as it settles one, and the call
\* returns with none open.
THEOREM ImplementsLookup == ClientSpec => SettlesEachOnce
BY ClientInitially, ClientStep, LookupInitially, LookupStep, PTL
DEF ClientSpec, Lookup!Spec, SettlesEachOnce

(***************************************************************************)
(* The clock of a finding                                                  *)
(***************************************************************************)

\* A set of days has its earliest.
LEMMA EarliestIs ==
  ASSUME NEW S \in SUBSET Nat, S # {}
  PROVE  Earliest(S) \in S /\ \A o \in S : Earliest(S) <= o
BY HasLeast DEF Earliest

\* Another day in a set only ever brings its earliest forward.
LEMMA EarliestFalls ==
  ASSUME NEW S \in SUBSET Nat, NEW T \in SUBSET Nat, S # {}, S \subseteq T
  PROVE  Earliest(S) \in Nat /\ Earliest(T) \in Nat /\ Earliest(T) <= Earliest(S)
BY EarliestIs

LEMMA ClockInitially == ClockInit => ClockTypeOK
<1> SUFFICES ASSUME ClockInit PROVE ClockTypeOK
  OBVIOUS
<1>1. day \in 0..LastDay
  <2>1. day = 0
    BY DEF ClockInit
  <2> QED
    BY <2>1, ClockAssumption
<1>2. audited \in Dates
  BY DEF ClockInit, Dates
<1>3. term \in Terms /\ ladder \in Ladder /\ derived \in Derived
  BY DEF ClockInit, Terms, Ladder, Derived
<1> QED
  BY <1>1, <1>2, <1>3 DEF ClockInit, ClockTypeOK

LEMMA ClockStep == ClockTypeOK /\ [ClockNext]_clockVars => ClockTypeOK'
<1> SUFFICES ASSUME ClockTypeOK, [ClockNext]_clockVars PROVE ClockTypeOK'
  OBVIOUS
<1>1. CASE RecordEvent
  BY <1>1 DEF RecordEvent, ClockTypeOK
<1>2. CASE Reaudit
  <2>1. day \in Dates
    BY ClockAssumption DEF ClockTypeOK, Dates
  <2> QED
    BY <1>2, <2>1 DEF Reaudit, ClockTypeOK, Dates
<1>3. CASE NewTerm
  BY <1>3 DEF NewTerm, ClockTypeOK
<1>4. CASE NextDay
  BY <1>4, ClockAssumption DEF NextDay, ClockTypeOK
<1>5. CASE UNCHANGED clockVars
  BY <1>5 DEF clockVars, ClockTypeOK
<1> QED
  BY <1>1, <1>2, <1>3, <1>4, <1>5 DEF ClockNext

\* Events are only added, the day does not go back, and the report's date is a day.
LEMMA EventsStay ==
  ASSUME ClockTypeOK, ClockTypeOK', [ClockNext]_clockVars
  PROVE  /\ recorded \subseteq recorded' /\ day <= day' /\ day \in Nat /\ day' \in Nat
         /\ Filed \in SUBSET Nat /\ Filed' \in SUBSET Nat /\ Filed \subseteq Filed'
         /\ Dated \in SUBSET Nat /\ Dated' \in SUBSET Nat /\ Dated \subseteq Dated'
<1>1. recorded \subseteq recorded' /\ day <= day'
  BY ClockAssumption DEF ClockNext, clockVars, RecordEvent, Reaudit, NewTerm, NextDay, ClockTypeOK
<1>2. recorded \in SUBSET Entries /\ recorded' \in SUBSET Entries /\ day \in Nat /\ day' \in Nat
  BY ClockAssumption DEF ClockTypeOK
<1>3. \A e \in Entries : e.date # NoDate => e.date \in Nat
  BY ClockAssumption DEF Entries, Dates, NoDate
<1>4. \A S \in SUBSET Entries : DatesOf(S) \in SUBSET Nat
  BY <1>3 DEF DatesOf
<1>5. \A S, T : S \subseteq T => DatesOf(S) \subseteq DatesOf(T)
  BY DEF DatesOf
<1>6. {e \in recorded : e.filing} \in SUBSET Entries /\ {e \in recorded' : e.filing} \in SUBSET Entries
      /\ {e \in recorded : e.filing} \subseteq {e \in recorded' : e.filing}
  BY <1>1, <1>2
<1> QED
  BY <1>1, <1>2, <1>4, <1>5, <1>6 DEF Filed, Dated

\* As long as a clock stays on its rung, and the report it may stand on stays, what happens
\* can only bring its start forward.
LEMMA StartFalls ==
  ASSUME ClockTypeOK, ClockTypeOK', [ClockNext]_clockVars, UNCHANGED ladder,
         Basis # "unclocked", Basis' = Basis, Basis = "audit_date" => audited' = audited
  PROVE  Start \in Nat /\ Start' \in Nat /\ Start' <= Start
<1>1. CASE Basis = "filed"
  <2>1. Filed # {} /\ Start = Earliest(Filed) /\ Start' = Earliest(Filed')
    BY <1>1 DEF Basis, Start
  <2> QED
    BY <2>1, EventsStay, EarliestFalls
<1>2. CASE Basis = "first_event"
  <2>1. Dated # {} /\ Start = Earliest(Dated) /\ Start' = Earliest(Dated')
    BY <1>2 DEF Basis, Start
  <2> QED
    BY <2>1, EventsStay, EarliestFalls
<1>3. CASE Basis = "audit_date"
  <2>1. Start = audited /\ Start' = audited /\ audited # NoDate
    BY <1>3 DEF Basis, Start
  <2> QED
    BY <2>1, ClockAssumption DEF ClockTypeOK, Dates, NoDate
<1> QED
  BY <1>1, <1>2, <1>3 DEF Basis

\* What it takes to be overdue.
LEMMA OverdueMeans ==
  Standing = "open_overdue" <=>
    /\ derived # "dismissed" /\ term.is \notin {"out of scope", "no SLA"} /\ Basis # "unclocked"
    /\ ~IsResolved /\ Start + term.days < day
BY DEF Standing

\* Whatever is recorded about an overdue finding, however late and for whichever day, for any
\* number of days and events and any policy: it is overdue in the next view, or is settled, or
\* stands on another rung or another report.
THEOREM OverdueStays == ClockSpec => OverdueUntilSettled
<1> DEFINE Stays == Standing = "open_overdue" /\ UNCHANGED <<term, ladder>> =>
         \/ Standing' = "open_overdue" \/ derived' = "dismissed" \/ IsResolved'
         \/ Basis' # Basis \/ (Basis = "audit_date" /\ audited' # audited)
<1>1. ClockTypeOK /\ ClockTypeOK' /\ [ClockNext]_clockVars => Stays
  <2> SUFFICES ASSUME ClockTypeOK, ClockTypeOK', [ClockNext]_clockVars,
                      Standing = "open_overdue", UNCHANGED <<term, ladder>>,
                      derived' # "dismissed", ~IsResolved', Basis' = Basis,
                      Basis = "audit_date" => audited' = audited
               PROVE  Standing' = "open_overdue"
    OBVIOUS
  <2>1. term.is \notin {"out of scope", "no SLA"} /\ Basis # "unclocked"
    BY OverdueMeans
  <2>2. Start + term.days < day
    BY OverdueMeans
  <2>3. Start \in Nat /\ Start' \in Nat /\ Start' <= Start /\ day <= day' /\ day \in Nat /\ day' \in Nat
    BY <2>1, StartFalls, EventsStay
  <2>4. term.days \in Nat
    BY <2>1, ClockAssumption DEF ClockTypeOK, Terms
  <2>5. Start + term.days < day'
    BY <2>2, <2>3, <2>4
  <2>6. Start' + term.days < day'
    BY <2>3, <2>4, <2>5
  <2>7. term' = term /\ Basis' # "unclocked"
    BY <2>1
  <2> QED
    BY <2>1, <2>6, <2>7 DEF Standing
<1>2. ClockSpec => []ClockTypeOK
  BY ClockInitially, ClockStep, PTL DEF ClockSpec
<1>3. ClockSpec => [][Stays]_clockVars
  BY <1>1, <1>2, PTL DEF ClockSpec
<1> QED
  BY <1>3 DEF OverdueUntilSettled

(***************************************************************************)
(* Of all five together                                                    *)
(***************************************************************************)

\* A step of the composition is one of a part, and leaves the others alone.
LEMMA PartSteps ==
  [Next]_vars =>
    /\ [ImpactNext]_impactVars /\ [AdvisoryNext]_advisoryVars /\ [ClientNext]_clientVars
    /\ [PipelineNext]_pipelineVars /\ [ClockNext]_clockVars
BY DEF Next, vars, Parent, PipelineNext

\* The composition implements its parts, but for the fairness of the pipeline.
LEMMA PartsBehave ==
  Spec => ImpactSpec /\ AdvisorySpec /\ ClientSpec /\ ClockSpec
          /\ PipelineInit /\ [][PipelineNext]_pipelineVars
<1>1. Init => ImpactInit /\ AdvisoryInit /\ ClientInit /\ PipelineInit /\ ClockInit
  BY DEF Init
<1> QED
  BY <1>1, PartSteps, PTL DEF Spec, ImpactSpec, AdvisorySpec, ClientSpec, ClockSpec

\* In every behaviour of the composition every variable of the five parts stays in its type.
THEOREM AnalysisTyped == Spec => []AnalysisTypeOK
<1>1. EvInv /\ RInv /\ CInv /\ PInv /\ ClockTypeOK => AnalysisTypeOK
  BY DEF EvInv, RInv, CInv, PInv, AnalysisTypeOK
<1> QED
  BY <1>1, PartsBehave, EvidenceInitially, EvidenceStep, AdvisoryInitially, AdvisoryStep,
     ClientInitially, ClientStep, PipelineInitially, PipelineStep, ClockInitially, ClockStep, PTL
  DEF ImpactSpec, AdvisorySpec, ClientSpec, ClockSpec

\* What is proved of each part holds of the composition, as the run of it checks.
THEOREM AnalysisHolds ==
  Spec => /\ [](EachRepoItsOwn /\ DemotedOnEvidence /\ NotInRangeIsTrue /\ FixClears)
          /\ [](FailedIsCountedNone /\ ReturnLeavesNothing) /\ OverdueUntilSettled
<1>1. PInv => ReturnLeavesNothing
  BY DEF PInv, Started, ReturnLeavesNothing
<1> QED
  BY <1>1, PartsBehave, ScansAreNotMixedUp, DemotionsAreEvident, NotInRangeHolds, FixClearsHolds,
     NoneIsFailed, OverdueStays, PipelineInitially, PipelineStep, PTL

=============================================================================
