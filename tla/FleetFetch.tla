----------------------------- MODULE FleetFetch -----------------------------
(***************************************************************************)
(* The dependency sweep of the fleet (portfolio/graph.py,                  *)
(* build_deps_multi): for every repository fetch the git tree, discover    *)
(* the manifests in it, fetch those, and write one set of edges.  Batches  *)
(* of repositories are worked on by a pool of threads; the answers are     *)
(* collected in submission order; a streak of rate-limited results pauses  *)
(* the sweep and probes until the ban is lifted or patience ends.          *)
(*                                                                         *)
(* Trees and manifests are cached on disk, one file each, so that a sweep  *)
(* that was banned, raised or killed is resumed by starting it again.      *)
(*                                                                         *)
(* A manifest's cache file is named for its path with the slashes replaced *)
(* (slug), so that two manifests of a repository may share one and the     *)
(* second is answered with the text of the first.                          *)
(*                                                                         *)
(* A manifest is abstracted to whether something is extracted from it, and *)
(* the sweep to one ecosystem.  A repository does not change while it is   *)
(* modelled.                                                               *)
(***************************************************************************)
EXTENDS Integers, FiniteSets

CONSTANTS RepoCount,      \* repositories, numbered in submission order
          ManifestCount,  \* paths of manifests, the root candidates first, in their order
          RootCount,      \* of them the root candidates
          Slug,           \* the cache file of a manifest, named for one that has it
          Fleet,          \* what the repositories may hold
          Jobs,           \* threads, and repositories of a batch
          Streak,         \* RATE_LIMIT_STREAK_STOP
          MaxWaits,       \* sleeps that RATE_LIMIT_MAX_WAIT leaves room for
          Faults          \* a subset of {"ban", "transient", "hang", "disk", "kill"}

Repo     == 1..RepoCount
Manifest == 1..ManifestCount
Root     == 1..RootCount
Parsed   == {"blank", "deps"}         \* nothing to extract; dependencies
Text     == {"no"} \cup Parsed        \* "no": not there
Contents == [tree : {"absent", "full", "truncated"}, text : [Manifest -> Text]]

ASSUME FleetAssumption ==
  /\ RepoCount \in Nat /\ ManifestCount \in Nat
  /\ RootCount \in 0..ManifestCount
  /\ Slug \in [Manifest -> Manifest]
  /\ \A m, n \in Root : Slug[m] = Slug[n] => m = n   \* they have no slash
  /\ Fleet \subseteq [Repo -> Contents]
  /\ Jobs \in Nat \ {0} /\ Streak \in Nat \ {0} /\ MaxWaits \in Nat \ {0}

VARIABLES content,     \* of the repositories
          banned,      \* the API answers with the secondary rate limit
          treeCache,   \* CACHE/trees, by repository: the status stored
          fileCache,   \* CACHE/manifests, by repository and slug: the status or text stored
          edges,       \* depends_on, <<repository, manifest it came from>>
          pc,          \* of the main thread
          idx,         \* repositories submitted
          fetched,     \* results collected
          consec,      \* consec_rl
          paused,
          waits,       \* sleeps of the current pause
          incomplete,  \* rate_limited_incomplete
          work,        \* what the threads do and have done, by repository
          mute,        \* history: no call of this run was answered, nor did it pause
          report       \* the stats build_deps_multi returns

world  == <<content, banned>>
caches == <<treeCache, fileCache>>
loop   == <<idx, fetched, consec, paused, waits, incomplete>>
vars   == <<world, caches, edges, pc, loop, work, mute, report>>

\* A cache file: none, one whose status is ok or absent, or one cut short; with a manifest
\* that is ok goes its text.
TreeFile == {"none", "ok", "absent", "torn"}
Cached   == {"none", "absent", "torn"} \cup Parsed
\* The status of a repository that is finished with, and of one that is not.
Verdict == {"ok", "absent", "error", "ratelimited", "raised"}
Status  == {"idle", "tree", "files"} \cup Verdict
Got     == {"none", "absent", "error"} \cup Parsed
Work    == [at : Status, todo : SUBSET Manifest, got : [Manifest -> Got]]
Ended   == {"done", "dead"}
Point   == {"idle", "submit", "collect", "pause", "drain"} \cup Ended
Report  == [ok : Nat, absent : Nat, error : Nat, skipped : Int, withManifest : Nat,
            manifestErrors : Nat, extracted : Nat, loud : BOOLEAN, incomplete : BOOLEAN]
NoReport == [ok |-> 0, absent |-> 0, error |-> 0, skipped |-> 0, withManifest |-> 0,
             manifestErrors |-> 0, extracted |-> 0, loud |-> FALSE, incomplete |-> FALSE]

Nothing == [at |-> "idle", todo |-> {}, got |-> [m \in Manifest |-> "none"]]

Init ==
  /\ content \in Fleet /\ banned = FALSE
  /\ treeCache = [r \in Repo |-> "none"]
  /\ fileCache = [r \in Repo |-> [m \in Manifest |-> "none"]]
  /\ edges = {}
  /\ pc = "idle" /\ idx = 0 /\ fetched = 0 /\ consec = 0 /\ paused = FALSE /\ waits = 0
  /\ incomplete = FALSE /\ work = [r \in Repo |-> Nothing]
  /\ mute = TRUE /\ report = NoReport

-----------------------------------------------------------------------------
(* Helpers                                                                 *)

Full(r)       == content[r].tree = "full"
HasFile(r, m) == content[r].text[m] # "no"
TreeTruth(r)  == IF content[r].tree = "absent" THEN "absent" ELSE "ok"
FileTruth(r, m) == IF HasFile(r, m) THEN content[r].text[m] ELSE "absent"

\* The manifests to ask for: those of the tree, or every root candidate of a cut tree.
There(r)      == {m \in (IF Full(r) THEN Manifest ELSE Root) : HasFile(r, m)}
Candidates(r) == IF Full(r) THEN There(r) ELSE Root

\* What comes back of a call: the body asked for, or a failure with the signature of the ban
\* in its text, a 404, both or neither.
Replies(truth) ==
  IF banned THEN {{"signature"}, {"signature", "404"}}
  ELSE {IF truth = "absent" THEN {"404"} ELSE {"body"}}
         \cup IF "transient" \in Faults THEN {{}} ELSE {}

Told404First(reply, truth) == \* Mutation: Not Found is looked for before the ban
  CASE "body" \in reply                                  -> truth
    [] "404" \in reply                                   -> "absent"
    [] "signature" \in reply /\ "404" \notin reply       -> "ratelimited"
    [] reply = {}                                        -> "error"

\* ... and how it is read.
Told(reply, truth) ==
  CASE "body" \in reply                                  -> truth
    [] "signature" \in reply                             -> "ratelimited"
    [] "404" \in reply /\ "signature" \notin reply       -> "absent"
    [] reply = {}                                        -> "error"
Answers(truth) == {Told(reply, truth) : reply \in Replies(truth)}

\* The manifest a thread is at.
First(ms)   == CHOOSE m \in ms : \A n \in ms : m <= n
At(r)       == First(work[r].todo)
FileOf(r)   == fileCache[r][Slug[At(r)]]
OnTree(r)   == pc \in {"collect", "drain"} /\ work[r].at = "tree"
OnFile(r)   == pc \in {"collect", "drain"} /\ work[r].at = "files"
Put(r, w)   == work' = [work EXCEPT ![r] = w]
Finish(r, s) == Put(r, [work[r] EXCEPT !.at = s, !.todo = {}])
Proceed(w, rest) == [w EXCEPT !.todo = rest, !.at = IF rest = {} THEN "ok" ELSE "files"]
Heard(s)    == mute' = (mute /\ s = "ratelimited")

\* Keep ok and absent on disk, nothing else.
StoreTree(r, s) == treeCache' = IF s \in {"ok", "absent"} THEN [treeCache EXCEPT ![r] = s]
                                                         ELSE treeCache
StoreFile(r, m, s) == fileCache' = IF s \in {"absent"} \cup Parsed
                                   THEN [fileCache EXCEPT ![r] = [@ EXCEPT ![Slug[m]] = s]]
                                   ELSE fileCache

\* work() after fetch_tree said s.
AfterTree(r, s) == IF s = "ok" THEN Put(r, Proceed(work[r], Candidates(r))) ELSE Finish(r, s)

AfterFilePartial(r, m, s) == \* Mutation: a ban ends the loop and keeps what was fetched
  IF s = "ratelimited" THEN Finish(r, "ok")
  ELSE LET note == [work[r] EXCEPT !.got = IF Full(r) \/ s \in Parsed THEN [@ EXCEPT ![m] = s] ELSE @]
           rest == IF Full(r) \/ s = "absent" THEN work[r].todo \ {m} ELSE {}
       IN Put(r, Proceed(note, rest))

AfterFileGoesOn(r, m, s) == \* Mutation: a ban is passed over like an absence
  LET note == [work[r] EXCEPT !.got[m] = IF s = "ratelimited" THEN "absent" ELSE s]
      rest == IF Full(r) \/ s = "absent" THEN work[r].todo \ {m} ELSE {}
  IN Put(r, Proceed(note, rest))

\* ... after fetch_manifest said s of m.  A ban bails the repository; a cut tree stops at
\* the first candidate that is there, or that errs, and reports only one that is there.
AfterFile(r, m, s) ==
  IF s = "ratelimited" THEN Finish(r, s)
  ELSE LET note == [work[r] EXCEPT !.got = IF Full(r) \/ s \in Parsed THEN [@ EXCEPT ![m] = s] ELSE @]
           rest == IF Full(r) \/ s = "absent" THEN work[r].todo \ {m} ELSE {}
       IN Put(r, Proceed(note, rest))

-----------------------------------------------------------------------------
(* The threads: work(), fetch_tree, fetch_manifest, _fetch_root_candidates *)

ReadTree(r) ==
  /\ OnTree(r) /\ treeCache[r] \in {"ok", "absent"}
  /\ AfterTree(r, treeCache[r])
  /\ UNCHANGED <<world, caches, edges, pc, loop, mute, report>>

AskTree(r) ==
  /\ OnTree(r) /\ treeCache[r] = "none"
  /\ \E s \in Answers(TreeTruth(r)) : StoreTree(r, s) /\ AfterTree(r, s) /\ Heard(s)
  /\ UNCHANGED <<world, fileCache, edges, pc, loop, report>>

\* Whichever manifest the file was written for.
ReadFile(r) ==
  /\ OnFile(r) /\ FileOf(r) \in {"absent"} \cup Parsed
  /\ AfterFile(r, At(r), FileOf(r))
  /\ UNCHANGED <<world, caches, edges, pc, loop, mute, report>>

AskFile(r) ==
  /\ OnFile(r) /\ FileOf(r) = "none"
  /\ \E s \in Answers(FileTruth(r, At(r))) :
       StoreFile(r, At(r), s) /\ AfterFile(r, At(r), s) /\ Heard(s)
  /\ UNCHANGED <<world, treeCache, edges, pc, loop, report>>

\* json.loads of a cache file that was cut short raises.
ReadTorn(r) ==
  /\ \/ OnTree(r) /\ treeCache[r] = "torn"
     \/ OnFile(r) /\ FileOf(r) = "torn"
  /\ Finish(r, "raised")
  /\ UNCHANGED <<world, caches, edges, pc, loop, mute, report>>

\* subprocess.run gives up on gh: TimeoutExpired, which nobody catches.
Hang(r) ==
  /\ "hang" \in Faults
  /\ \/ OnTree(r) /\ treeCache[r] = "none"
     \/ OnFile(r) /\ FileOf(r) = "none"
  /\ Finish(r, "raised")
  /\ UNCHANGED <<world, caches, edges, pc, loop, mute, report>>

\* write_text empties the file first: a write that stops leaves a torn one.
Tear(r) ==
  /\ ~banned
  /\ \/ /\ OnTree(r) /\ treeCache[r] = "none"
        /\ treeCache' = [treeCache EXCEPT ![r] = "torn"] /\ UNCHANGED fileCache
     \/ /\ OnFile(r) /\ FileOf(r) = "none"
        /\ fileCache' = [fileCache EXCEPT ![r] = [@ EXCEPT ![Slug[At(r)]] = "torn"]]
        /\ UNCHANGED treeCache

WriteFails(r) ==
  /\ "disk" \in Faults
  /\ Tear(r) /\ Finish(r, "raised") /\ mute' = FALSE
  /\ UNCHANGED <<world, edges, pc, loop, report>>

-----------------------------------------------------------------------------
(* The main thread                                                         *)

Fresh ==
  /\ idx' = 0 /\ fetched' = 0 /\ consec' = 0 /\ paused' = FALSE /\ waits' = 0
  /\ incomplete' = FALSE /\ work' = [r \in Repo |-> Nothing]
  /\ mute' = TRUE /\ report' = NoReport

Start ==
  /\ pc \in {"idle"} \cup Ended /\ pc' = "submit" /\ Fresh
  /\ UNCHANGED <<world, caches, edges>>

SubmitPastEnd == \* Mutation: the last batch is counted as a full one
  /\ pc = "submit" /\ idx < RepoCount /\ ~incomplete /\ pc' = "collect"
  /\ idx' = idx + Jobs
  /\ work' = [r \in Repo |-> IF idx < r /\ r <= idx' THEN [Nothing EXCEPT !.at = "tree"]
                                                     ELSE work[r]]
  /\ paused' = FALSE
  /\ UNCHANGED <<world, caches, edges, fetched, consec, waits, incomplete, mute, report>>

Submit ==
  /\ pc = "submit" /\ idx < RepoCount /\ ~incomplete /\ pc' = "collect"
  /\ idx' = IF idx + Jobs < RepoCount THEN idx + Jobs ELSE RepoCount
  /\ work' = [r \in Repo |-> IF idx < r /\ r <= idx' THEN [Nothing EXCEPT !.at = "tree"]
                                                     ELSE work[r]]
  /\ paused' = FALSE
  /\ UNCHANGED <<world, caches, edges, fetched, consec, waits, incomplete, mute, report>>

\* fut.result() of the next repository in submission order.
Collect ==
  /\ pc = "collect" /\ fetched < idx
  /\ LET s == work[fetched + 1].at
     IN /\ s \in Verdict \ {"raised"}
        /\ consec' = IF s = "ratelimited" THEN consec + 1 ELSE 0
        /\ paused' = (paused \/ consec' >= Streak)
  /\ fetched' = fetched + 1
  /\ UNCHANGED <<world, caches, edges, pc, idx, waits, incomplete, work, mute, report>>

CollectRaises ==
  /\ pc = "collect" /\ fetched < idx /\ work[fetched + 1].at = "raised" /\ pc' = "drain"
  /\ UNCHANGED <<world, caches, edges, loop, work, mute, report>>

\* Leaving the with: the pool waits for its threads, then the exception goes on.
Drained ==
  /\ pc = "drain" /\ \A r \in 1..idx : work[r].at \in Verdict
  /\ pc' = "dead" /\ Fresh
  /\ UNCHANGED <<world, caches, edges>>

BatchEnd ==
  /\ pc = "collect" /\ fetched = idx /\ pc' = IF paused THEN "pause" ELSE "submit"
  /\ waits' = 0 /\ mute' = (mute /\ ~paused)
  /\ UNCHANGED <<world, caches, edges, idx, fetched, consec, paused, incomplete, work, report>>

ProbeForgets == \* Mutation: waited is not added up
  /\ pc = "pause" /\ incomplete' = (banned /\ waits >= MaxWaits)
  /\ pc' = IF banned /\ ~incomplete' THEN "pause" ELSE "submit"
  /\ consec' = IF pc' = "submit" THEN 0 ELSE consec
  /\ UNCHANGED <<world, caches, edges, idx, fetched, paused, waits, work, mute, report>>

\* _wait_out_rate_limit: one sleep, one probe.  Only a rate-limited answer goes on waiting.
Probe ==
  /\ pc = "pause"
  /\ LET out == banned /\ waits + 1 >= MaxWaits
     IN /\ waits' = waits + 1
        /\ pc' = IF banned /\ ~out THEN "pause" ELSE "submit"
        /\ consec' = IF pc' = "submit" THEN 0 ELSE consec
        /\ incomplete' = out
  /\ UNCHANGED <<world, caches, edges, idx, fetched, paused, work, mute, report>>

ProbeHangs ==
  /\ pc = "pause" /\ "hang" \in Faults /\ pc' = "dead" /\ Fresh
  /\ UNCHANGED <<world, caches, edges>>

\* What a repository yields, when its result is aggregated.
Results(s)    == {r \in 1..fetched : work[r].at = s}
With(s)      == {x \in Results("ok") \X Manifest : work[x[1]].got[x[2]] = s}
Extracted    == With("deps")
WithManifest == {r \in Results("ok") : \E m \in Manifest : work[r].got[m] # "none"}
SkippedSeen  == Cardinality(Results("ratelimited")) \* Mutation: those never submitted forgotten
Skipped      == Cardinality(Results("ratelimited")) + (RepoCount - idx)

Stats == [ok |-> Cardinality(Results("ok")), absent |-> Cardinality(Results("absent")),
          error |-> Cardinality(Results("error")), skipped |-> Skipped,
          withManifest |-> Cardinality(WithManifest),
          manifestErrors |-> Cardinality(With("error")),
          extracted |-> Cardinality(Extracted),
          loud |-> (WithManifest # {} /\ Extracted = {}), incomplete |-> incomplete]

\* One transaction, committed at the end; edges are upserted, never removed.
Aggregate ==
  /\ pc = "submit" /\ (idx = RepoCount \/ incomplete)
  /\ pc' = "done" /\ edges' = edges \cup Extracted /\ report' = Stats
  /\ UNCHANGED <<world, caches, loop, work, mute>>

-----------------------------------------------------------------------------
(* The environment                                                         *)

Kill ==
  /\ "kill" \in Faults /\ pc \notin {"idle"} \cup Ended /\ pc' = "dead" /\ Fresh
  /\ UNCHANGED <<world, caches, edges>>

KillInWrite(r) ==
  /\ "kill" \in Faults /\ Tear(r) /\ pc' = "dead" /\ Fresh
  /\ UNCHANGED <<world, edges>>

Ban ==
  /\ "ban" \in Faults /\ banned' = ~banned
  /\ UNCHANGED <<content, caches, edges, pc, loop, work, mute, report>>

-----------------------------------------------------------------------------

Thread(r) == ReadTree(r) \/ AskTree(r) \/ ReadFile(r) \/ AskFile(r) \/ ReadTorn(r)
Main      == Submit \/ Collect \/ CollectRaises \/ Drained \/ BatchEnd \/ Probe \/ Aggregate
Process   == Main \/ \E r \in Repo : Thread(r)
Fault     == ProbeHangs \/ Kill \/ Ban \/ \E r \in Repo : Hang(r) \/ WriteFails(r) \/ KillInWrite(r)

Next == Start \/ Process \/ Fault

\* Calls return or raise (they have time-outs), threads and the main loop go on: nothing is
\* assumed of the faults, and nobody has to start another sweep.
Spec == Init /\ [][Next]_vars /\ WF_vars(Process)

-----------------------------------------------------------------------------
(* Properties                                                              *)

\* The manifests that should be found: all of a full tree, the first root candidate that
\* is there for a tree that was cut (build_deps_multi, "truncated"); and those with edges.
Found(r) == IF Full(r) THEN There(r)
            ELSE IF content[r].tree = "truncated" /\ There(r) # {} THEN {First(There(r))}
            ELSE {}
Expected(r) == {m \in Found(r) : content[r].text[m] = "deps"}

\* No other manifest that the sweep asks for shares the cache file of m.
Own(r, m) == \A n \in There(r) : Slug[n] = Slug[m] => n = m

\* Every variable stays in its type.  An Int: skipped is a difference.
TypeOK ==
  /\ content \in Fleet /\ banned \in BOOLEAN
  /\ treeCache \in [Repo -> TreeFile]
  /\ fileCache \in [Repo -> [Manifest -> Cached]]
  /\ edges \subseteq Repo \X Manifest
  /\ pc \in Point /\ idx \in 0..RepoCount /\ fetched \in 0..idx
  /\ consec \in 0..fetched /\ paused \in BOOLEAN /\ waits \in 0..MaxWaits
  /\ incomplete \in BOOLEAN /\ work \in [Repo -> Work]
  /\ mute \in BOOLEAN /\ report \in Report

\* What the caches say is so, whatever interleaving of bans, errors, deaths and resumed
\* runs wrote them: a ban or an error never stays on disk as an absence ("Only ok/absent
\* are cached", fetch_tree and fetch_manifest), and a manifest that shares its file with no
\* other is there with its own text.
CacheIsTrue ==
  \A r \in Repo :
    /\ treeCache[r] \in {"ok", "absent"} => treeCache[r] = TreeTruth(r)
    /\ \A m \in Candidates(r) :
         LET says == fileCache[r][Slug[m]]
         IN /\ says = "absent" => ~HasFile(r, m)
            /\ says \in Parsed => HasFile(r, m) /\ (Own(r, m) => says = FileTruth(r, m))

\* The returned stats account for every repository once, those never submitted included,
\* and a run that gave up says that it skipped a streak at least.
CountersAddUp ==
  pc = "done" =>
    /\ report.ok + report.absent + report.error + report.skipped = RepoCount
    /\ report.incomplete => report.skipped >= Streak

\* No edge cites a manifest that is not to be found or, where that has a cache file of its
\* own, one without dependencies; and a run that reports nothing skipped and no error leaves
\* the edges of every such manifest of every tree that was not cut, however many runs it took
\* and wherever the earlier ones stopped.
GraphIsTrue ==
  /\ \A e \in edges : e[2] \in Found(e[1]) /\ (Own(e[1], e[2]) => e[2] \in Expected(e[1]))
  /\ (pc = "done" /\ report.skipped = 0 /\ report.error = 0 /\ report.manifestErrors = 0)
       => \A r \in Repo : Full(r) =>
            \A m \in Expected(r) : Own(r, m) => <<r, m>> \in edges

\* loud_fail is no false alarm: without a failed manifest it means that the repositories
\* that were reached have nothing to extract, but for manifests that share a cache file, also
\* when a ban cut the run short.
NoFalseAlarm ==
  (pc = "done" /\ report.loud /\ report.manifestErrors = 0)
    => \A r \in WithManifest : \A m \in Expected(r) : ~Own(r, m)

\* A sweep that was started ends, whatever the API and the ban do.
AlwaysEnds == pc \notin {"idle"} \cup Ended ~> pc \in Ended

\* "after RATE_LIMIT_STREAK_STOP consecutive rate-limited responses it STOPS submitting
\* work and PAUSES" (the comment above the constant): while the API has given no other
\* answer, the repositories that met the ban are fewer than a streak and one batch.
StopsAfterStreak ==
  mute => Cardinality({r \in Repo : work[r].at = "ratelimited"}) < Streak + Jobs

\* "Idempotent/resumable via the on-disk tree + manifest caches" (build_deps_multi): where
\* no call hangs and no write fails, no thread raises, whatever was killed before.
Resumes ==
  Faults \cap {"hang", "disk"} = {} => \A r \in Repo : work[r].at # "raised"

=============================================================================
