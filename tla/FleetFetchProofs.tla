-------------------------- MODULE FleetFetchProofs --------------------------
(***************************************************************************)
(* Proofs about FleetFetch: the safety properties of the dependency sweep  *)
(* hold for every fleet, batch size, streak, patience and set of faults.   *)
(*                                                                         *)
(* One invariant, FleetInv, is inductive.  What makes it so is WorkTrue:   *)
(* what a thread has found is so, and what it has still to ask covers the  *)
(* manifests it does not know of; the first candidate of a cut tree that   *)
(* is there is the least, because those before it were absent.  Of two     *)
(* manifests with one cache file it says only what both may say: each is   *)
(* there, and one has the other's text or its own.  LoopTrue ties the      *)
(* streak to the repositories the run has to count as skipped.             *)
(***************************************************************************)
EXTENDS FleetFetch, FiniteSetTheorems, WellFoundedInduction, TLAPS

-----------------------------------------------------------------------------
(* The first of a set of manifests                                         *)

\* The manifests are a finite set of numbers.
LEMMA ManifestsAreFinite == Manifest \subseteq Nat /\ IsFiniteSet(Manifest)
<1>1. ManifestCount \in Nat
  BY FleetAssumption
<1>2. IsFiniteSet(1..ManifestCount)
  BY <1>1, FS_Interval
<1> QED
  BY <1>1, <1>2 DEF Manifest

\* First is the least of a set: a set of numbers up to a number that is minimal for
\* inclusion ends in the least number.
LEMMA FirstIsLeast ==
  ASSUME NEW S \in SUBSET Manifest, S # {}
  PROVE  First(S) \in S /\ \A n \in S : First(S) <= n
<1> DEFINE Upto(m) == {n \in S : n <= m}
           T == {U \in SUBSET S : \E m \in S : U = Upto(m)}
<1>1. S \subseteq Nat /\ IsFiniteSet(S)
  BY ManifestsAreFinite, FS_Subset
<1>2. T \subseteq FiniteSubsetsOf(S) /\ T # {}
  <2>1. \A U \in SUBSET S : IsFiniteSet(U)
    BY <1>1, FS_Subset
  <2>2. PICK m \in S : TRUE
    OBVIOUS
  <2>3. Upto(m) \in T
    BY <2>2
  <2> QED
    BY <2>1, <2>3 DEF FiniteSubsetsOf
<1>3. PICK U \in T : \A V \in T : ~ (<<V, U>> \in StrictSubsetOrdering(S))
  <2> HIDE DEF T
  <2> QED
    BY <1>2, WFMin, FS_StrictSubsetOrderingWellFounded
<1>4. PICK x \in S : U = Upto(x)
  OBVIOUS
<1>5. ASSUME NEW y \in S PROVE x <= y
  <2> SUFFICES ASSUME y < x PROVE FALSE
    BY <1>1
  <2>1. Upto(y) \in T
    OBVIOUS
  <2>2. Upto(y) \subseteq Upto(x) /\ x \in Upto(x) /\ x \notin Upto(y)
    <3>1. x \in Nat /\ y \in Nat /\ \A n \in S : n \in Nat
      BY <1>1
    <3>2. x <= x /\ ~(x <= y) /\ \A n \in S : n <= y => n <= x
      BY <3>1
    <3> QED
      BY <3>2
  <2>3. <<Upto(y), U>> \in StrictSubsetOrdering(S)
    BY <1>4, <2>2 DEF StrictSubsetOrdering
  <2> QED
    BY <1>3, <2>1, <2>3
<1> QED
  BY <1>5 DEF First

\* ... and is known from being the least.
LEMMA FirstIsUnique ==
  ASSUME NEW S \in SUBSET Manifest, NEW m \in S, \A n \in S : m <= n
  PROVE  First(S) = m
<1>1. First(S) \in S /\ First(S) <= m
  BY FirstIsLeast
<1>2. m <= First(S) /\ m \in Nat /\ First(S) \in Nat
  BY <1>1, ManifestsAreFinite
<1> QED
  BY <1>1, <1>2

-----------------------------------------------------------------------------
(* The invariant                                                           *)

\* What a thread knows of its repository is so; what it has still to ask covers what it
\* does not know.
WorkTrue(r) ==
  LET w == work[r]
  IN /\ w.at \in {"idle", "tree"} => w.todo = {} /\ \A m \in Manifest : w.got[m] = "none"
     /\ w.at = "files" =>
          /\ w.todo # {} /\ content[r].tree # "absent"
          /\ Full(r) => /\ w.todo \subseteq There(r)
                        /\ \A m \in There(r) \ w.todo : w.got[m] # "none"
          /\ ~Full(r) => /\ There(r) \subseteq w.todo
                         /\ \A m \in Manifest : w.got[m] = "none"
          /\ w.todo \subseteq Candidates(r)
     /\ w.at = "absent" => content[r].tree = "absent"
     /\ w.at = "ok" /\ Full(r) => \A m \in There(r) : w.got[m] # "none"
     /\ \A m \in Manifest : /\ w.got[m] \in Parsed => m \in Found(r)
                            /\ w.got[m] \in Parsed /\ Own(r, m) => w.got[m] = content[r].text[m]
                            /\ w.got[m] = "absent" => m \notin There(r)
                            /\ ~Full(r) => w.got[m] \in {"none"} \cup Parsed

\* What may be said of a manifest: that of two with one file each is there, no more.
SaysTrue(r, m, s) ==
  /\ s = "absent" => ~HasFile(r, m)
  /\ s \in Parsed => HasFile(r, m) /\ (Own(r, m) => s = FileTruth(r, m))

EdgesTrue == \A e \in edges : e[2] \in Found(e[1]) /\ (Own(e[1], e[2]) => e[2] \in Expected(e[1]))

Limited == Cardinality(Results("ratelimited"))

\* What was collected stays as it is, and the streak is counted over what was collected.
LoopTrue ==
  /\ \A r \in 1..fetched : work[r].at \in Verdict \ {"raised"}
  /\ pc \in {"submit", "pause", "done"} => fetched = idx
  /\ pc = "pause" => waits < MaxWaits /\ paused
  /\ consec <= Limited
  /\ paused \/ incomplete => Streak <= Limited

Reported ==
  pc = "done" => /\ idx = RepoCount \/ incomplete
                 /\ report = Stats /\ Extracted \subseteq edges

FleetInv ==
  /\ TypeOK /\ CacheIsTrue
  /\ \A r \in Repo : WorkTrue(r)
  /\ LoopTrue /\ Reported
  /\ EdgesTrue

-----------------------------------------------------------------------------
(* The threads                                                             *)

\* Put replaces the work of one repository.
LEMMA PutType ==
  ASSUME TypeOK, NEW r \in Repo, NEW w \in Work, Put(r, w)
  PROVE  /\ work' \in [Repo -> Work] /\ work'[r] = w
         /\ \A q \in Repo \ {r} : work'[q] = work[q]
BY DEF TypeOK, Put

\* Proceed goes on with what is left, or is done.
LEMMA ProceedType ==
  ASSUME NEW w \in Work, NEW rest \in SUBSET Manifest
  PROVE  /\ Proceed(w, rest) \in Work
         /\ Proceed(w, rest).todo = rest /\ Proceed(w, rest).got = w.got
         /\ Proceed(w, rest).at = IF rest = {} THEN "ok" ELSE "files"
BY DEF Proceed, Work, Status, Verdict

\* The root candidates are manifests.
LEMMA RootsAreManifests ==
  Fleet \subseteq [Repo -> Contents] /\ Root \subseteq Manifest /\ Slug \in [Manifest -> Manifest]
<1>1. RootCount \in 0..ManifestCount /\ ManifestCount \in Nat
  BY FleetAssumption
<1> QED
  BY <1>1, FleetAssumption DEF Root, Manifest

\* The types of what a repository holds and of its work.
LEMMA ContentType ==
  ASSUME TypeOK, NEW r \in Repo
  PROVE  /\ content[r] \in Contents
         /\ \A m \in Manifest : content[r].text[m] \in Text
         /\ work[r] \in Work /\ There(r) \subseteq Candidates(r) /\ Candidates(r) \subseteq Manifest
BY RootsAreManifests DEF TypeOK, Contents, There, Candidates

\* What is derived from the content is as constant as the content.
LEMMA ContentKept ==
  ASSUME UNCHANGED content, NEW r
  PROVE  There(r)' = There(r) /\ Full(r)' = Full(r) /\ Found(r)' = Found(r)
         /\ Expected(r)' = Expected(r) /\ TreeTruth(r)' = TreeTruth(r)
         /\ \A m : FileTruth(r, m)' = FileTruth(r, m) /\ HasFile(r, m)' = HasFile(r, m)
                  /\ Own(r, m)' = Own(r, m)
         /\ Candidates(r)' = Candidates(r)
<1>1. /\ There(r)' = There(r) /\ Full(r)' = Full(r) /\ TreeTruth(r)' = TreeTruth(r)
      /\ \A m : FileTruth(r, m)' = FileTruth(r, m) /\ HasFile(r, m)' = HasFile(r, m)
  BY DEF There, HasFile, Full, TreeTruth, FileTruth
<1>2. /\ Found(r)' = Found(r) /\ Candidates(r)' = Candidates(r)
      /\ \A m : Own(r, m)' = Own(r, m)
  BY <1>1 DEF Found, Candidates, Own
<1> QED
  BY <1>1, <1>2 DEF Expected

\* What is true of a repository stays true while neither it nor its thread moves.
LEMMA WorkKept ==
  ASSUME UNCHANGED content, NEW r, work'[r] = work[r], WorkTrue(r)
  PROVE  WorkTrue(r)'
<1>1. /\ There(r)' = There(r) /\ Full(r)' = Full(r) /\ Found(r)' = Found(r)
      /\ Candidates(r)' = Candidates(r) /\ content' = content
      /\ \A m : Own(r, m)' = Own(r, m)
  BY ContentKept
<1> QED
  BY <1>1 DEF WorkTrue

\* Edges that are right stay right while the content and they stay.
LEMMA EdgesKept ==
  ASSUME UNCHANGED <<content, edges>>, EdgesTrue
  PROVE  EdgesTrue'
<1>1. \A r : /\ Found(r)' = Found(r) /\ Expected(r)' = Expected(r)
             /\ \A m : Own(r, m)' = Own(r, m)
  BY ContentKept
<1> QED
  BY <1>1 DEF EdgesTrue

\* A cache says what it said while it and the content stay.
LEMMA CacheKept ==
  ASSUME UNCHANGED <<content, treeCache, fileCache>>, CacheIsTrue
  PROVE  CacheIsTrue'
<1>1. \A r : /\ Candidates(r)' = Candidates(r) /\ TreeTruth(r)' = TreeTruth(r)
             /\ \A m : /\ FileTruth(r, m)' = FileTruth(r, m) /\ HasFile(r, m)' = HasFile(r, m)
                       /\ Own(r, m)' = Own(r, m)
  BY ContentKept
<1> QED
  BY <1>1 DEF CacheIsTrue

\* A thread that ends without a result has nothing left that is untrue.
LEMMA FinishTrue ==
  ASSUME TypeOK, NEW r \in Repo, WorkTrue(r), UNCHANGED content,
         NEW s \in Verdict \ {"ok"}, s = "absent" => content[r].tree = "absent",
         Finish(r, s)
  PROVE  /\ work' \in [Repo -> Work] /\ WorkTrue(r)'
         /\ \A q \in Repo \ {r} : work'[q] = work[q]
<1> DEFINE w == [work[r] EXCEPT !.at = s, !.todo = {}]
<1>1. w \in Work /\ w.at = s /\ w.todo = {} /\ w.got = work[r].got
  BY ContentType DEF Work, Status
<1>2. /\ work' \in [Repo -> Work] /\ work'[r] = w
      /\ \A q \in Repo \ {r} : work'[q] = work[q]
  BY <1>1, PutType DEF Finish
<1>3. /\ There(r)' = There(r) /\ Full(r)' = Full(r) /\ Found(r)' = Found(r)
      /\ content' = content /\ \A m : Own(r, m)' = Own(r, m)
  BY ContentKept
<1> HIDE DEF w
<1>4. WorkTrue(r)'
  BY <1>1, <1>2, <1>3 DEF WorkTrue, Verdict
<1> QED
  BY <1>2, <1>4

\* What a thread has to ask after the tree covers all it does not know.
LEMMA AfterTreeTrue ==
  ASSUME TypeOK, NEW r \in Repo, WorkTrue(r), work[r].at = "tree", UNCHANGED content,
         NEW s \in {TreeTruth(r), "error", "ratelimited"}, AfterTree(r, s)
  PROVE  /\ work' \in [Repo -> Work] /\ WorkTrue(r)'
         /\ \A q \in Repo \ {r} : work'[q] = work[q]
<1>1. CASE s = "ok"
  <2> DEFINE w == Proceed(work[r], Candidates(r))
  <2>1. content[r].tree # "absent"
    BY <1>1 DEF TreeTruth
  <2>2. Candidates(r) \in SUBSET Manifest /\ work[r] \in Work
    BY ContentType DEF Candidates
  <2>3. /\ w \in Work /\ w.todo = Candidates(r) /\ w.got = work[r].got
        /\ w.at = IF Candidates(r) = {} THEN "ok" ELSE "files"
    BY <2>2, ProceedType
  <2>4. /\ work' \in [Repo -> Work] /\ work'[r] = w
        /\ \A q \in Repo \ {r} : work'[q] = work[q]
    BY <1>1, <2>3, PutType DEF AfterTree
  <2>5. \A m \in Manifest : w.got[m] = "none"
    BY <2>3 DEF WorkTrue
  <2>6. /\ There(r)' = There(r) /\ Full(r)' = Full(r) /\ There(r) \subseteq Candidates(r)
        /\ Candidates(r)' = Candidates(r) /\ content' = content
    BY ContentType, ContentKept
  <2>8. Full(r) => Candidates(r) = There(r)
    BY DEF Candidates
  <2> HIDE DEF w
  <2>7. WorkTrue(r)'
    BY <2>1, <2>3, <2>4, <2>5, <2>6, <2>8 DEF WorkTrue, Parsed
  <2> QED
    BY <2>4, <2>7
<1>2. CASE s # "ok"
  <2>1. s \in Verdict \ {"ok"} /\ (s = "absent" => content[r].tree = "absent")
    BY <1>2 DEF TreeTruth, Verdict
  <2> QED
    BY <1>2, <2>1, FinishTrue DEF AfterTree
<1> QED
  BY <1>1, <1>2

\* The candidate a cut tree is asked for is there: then it is the first one.
LEMMA AskedIsFound ==
  ASSUME TypeOK, NEW r \in Repo, WorkTrue(r), work[r].at = "files", HasFile(r, At(r))
  PROVE  At(r) \in Found(r)
<1>1. work[r].todo \in SUBSET Manifest /\ work[r].todo # {}
  BY ContentType DEF WorkTrue, Work
<1>2. /\ At(r) \in work[r].todo /\ At(r) \in There(r)
      /\ \A n \in work[r].todo : At(r) <= n
  <2>1. At(r) \in work[r].todo /\ \A n \in work[r].todo : At(r) <= n
    BY <1>1, FirstIsLeast DEF At
  <2>2. work[r].todo \subseteq Candidates(r)
    BY DEF WorkTrue
  <2> QED
    BY <2>1, <2>2 DEF There, Candidates
<1>3. CASE Full(r)
  BY <1>2, <1>3 DEF Found
<1>4. CASE ~Full(r)
  <2>1. \A n \in There(r) : At(r) <= n
    BY <1>2, <1>4 DEF WorkTrue
  <2>2. First(There(r)) = At(r)
    <3>1. There(r) \in SUBSET Manifest
      BY ContentType
    <3> QED
      BY <1>2, <2>1, <3>1, FirstIsUnique
  <2>3. content[r].tree = "truncated"
    BY <1>4, ContentType DEF WorkTrue, Full, Contents
  <2> QED
    BY <1>2, <1>4, <2>2, <2>3 DEF Found
<1> QED
  BY <1>3, <1>4

\* ... and still does after a manifest.
LEMMA AfterFileTrue ==
  ASSUME TypeOK, NEW r \in Repo, WorkTrue(r), work[r].at = "files", UNCHANGED content,
         NEW s \in {"absent", "error", "ratelimited"} \cup Parsed, SaysTrue(r, At(r), s),
         AfterFile(r, At(r), s)
  PROVE  /\ work' \in [Repo -> Work] /\ WorkTrue(r)'
         /\ \A q \in Repo \ {r} : work'[q] = work[q]
<1>1. CASE s = "ratelimited"
  <2>1. s \in Verdict \ {"ok"}
    BY <1>1 DEF Verdict
  <2> QED
    BY <1>1, <2>1, FinishTrue DEF AfterFile
<1>2. CASE s # "ratelimited"
  <2> DEFINE m == At(r)
             note == [work[r] EXCEPT !.got = IF Full(r) \/ s \in Parsed THEN [@ EXCEPT ![m] = s] ELSE @]
             rest == IF Full(r) \/ s = "absent" THEN work[r].todo \ {m} ELSE {}
             w    == Proceed(note, rest)
  <2>1. /\ work[r] \in Work /\ work[r].todo \in SUBSET Manifest
        /\ work[r].got \in [Manifest -> Got]
    BY ContentType DEF Work
  <2>2. m \in work[r].todo /\ m \in Manifest
    BY <2>1, FirstIsLeast DEF At, WorkTrue
  <2>3. s \in Got /\ s # "none" /\ rest \in SUBSET Manifest
    BY <1>2, <2>1 DEF Got, Parsed
  <2>4. [work[r].got EXCEPT ![m] = s] \in [Manifest -> Got]
    BY <2>1, <2>3
  <2>5. /\ note \in Work /\ note.todo = work[r].todo
        /\ note.got = IF Full(r) \/ s \in Parsed THEN [work[r].got EXCEPT ![m] = s] ELSE work[r].got
    BY <2>1, <2>4 DEF Work
  <2>6. /\ w \in Work /\ w.todo = rest /\ w.got = note.got
        /\ w.at = IF rest = {} THEN "ok" ELSE "files"
    <3> HIDE DEF note, rest
    <3> QED
      BY <2>3, <2>5, ProceedType
  <2>7. /\ work' \in [Repo -> Work] /\ work'[r] = w
        /\ \A q \in Repo \ {r} : work'[q] = work[q]
    <3>1. Put(r, w)
      BY <1>2 DEF AfterFile
    <3> HIDE DEF w
    <3> QED
      BY <2>6, <3>1, PutType
  <2> HIDE DEF note, w
  <2>8. /\ There(r)' = There(r) /\ Full(r)' = Full(r) /\ Found(r)' = Found(r)
        /\ Candidates(r)' = Candidates(r) /\ content' = content
        /\ \A n : Own(r, n)' = Own(r, n)
        /\ There(r) \subseteq Manifest
    BY ContentType, ContentKept
  <2>9. /\ s \in Parsed => m \in Found(r)
        /\ s \in Parsed /\ Own(r, m) => s = content[r].text[m]
    BY AskedIsFound DEF SaysTrue, FileTruth
  <2>10. s = "absent" => m \notin There(r)
    BY DEF SaysTrue, There
  <2>11. \A n \in Manifest : /\ w.got[n] \in Parsed => n \in Found(r)
                             /\ w.got[n] \in Parsed /\ Own(r, n) => w.got[n] = content[r].text[n]
                             /\ w.got[n] = "absent" => n \notin There(r)
                             /\ ~Full(r) => w.got[n] \in {"none"} \cup Parsed
    BY <2>1, <2>2, <2>5, <2>6, <2>9, <2>10 DEF WorkTrue
  <2>12. Full(r) => \A n \in There(r) \ rest : w.got[n] # "none"
    BY <2>1, <2>2, <2>3, <2>5, <2>6, <2>8 DEF WorkTrue
  <2>13. ~Full(r) /\ rest # {} => /\ There(r) \subseteq rest
                                 /\ \A n \in Manifest : w.got[n] = "none"
    BY <2>1, <2>5, <2>6, <2>10 DEF WorkTrue, Parsed
  <2>14. /\ Full(r) => rest \subseteq There(r)
         /\ rest \subseteq Candidates(r)
    BY DEF WorkTrue
  <2>15. content[r].tree # "absent"
    BY DEF WorkTrue
  <2> HIDE DEF rest
  <2>16. WorkTrue(r)'
    BY <2>6, <2>7, <2>8, <2>11, <2>12, <2>13, <2>14, <2>15 DEF WorkTrue
  <2> QED
    BY <2>7, <2>16
<1> QED
  BY <1>1, <1>2

\* What is stored is so.
LEMMA StoreTreeTrue ==
  ASSUME TypeOK, CacheIsTrue, NEW r \in Repo, UNCHANGED <<content, fileCache>>,
         NEW s \in {TreeTruth(r), "error", "ratelimited"}, StoreTree(r, s)
  PROVE  treeCache' \in [Repo -> TreeFile] /\ CacheIsTrue'
<1>1. treeCache' \in [Repo -> TreeFile]
  BY DEF TypeOK, StoreTree, TreeFile
<1>2. \A q \in Repo : treeCache'[q] \in {"ok", "absent"} => treeCache'[q] = TreeTruth(q)
  BY DEF TypeOK, CacheIsTrue, StoreTree
<1> QED
  <2>1. \A q : /\ Candidates(q)' = Candidates(q) /\ TreeTruth(q)' = TreeTruth(q)
               /\ \A m : /\ FileTruth(q, m)' = FileTruth(q, m) /\ HasFile(q, m)' = HasFile(q, m)
                         /\ Own(q, m)' = Own(q, m)
    BY ContentKept
  <2> QED
    BY <1>1, <1>2, <2>1 DEF CacheIsTrue

\* The caches are true that say so of every tree and every manifest.
LEMMA CacheSaysTrue ==
  ASSUME UNCHANGED content,
         \A q \in Repo : treeCache'[q] \in {"ok", "absent"} => treeCache'[q] = TreeTruth(q),
         \A q \in Repo : \A n \in Candidates(q) : SaysTrue(q, n, fileCache'[q][Slug[n]])
  PROVE  CacheIsTrue'
<1>1. \A q : /\ Candidates(q)' = Candidates(q) /\ TreeTruth(q)' = TreeTruth(q)
             /\ \A m : /\ FileTruth(q, m)' = FileTruth(q, m) /\ HasFile(q, m)' = HasFile(q, m)
                       /\ Own(q, m)' = Own(q, m)
  BY ContentKept
<1> QED
  BY <1>1 DEF CacheIsTrue, SaysTrue

\* What is true of a manifest is true of each that shares its file: both are of the tree, or
\* they are one.
LEMMA SharedTrue ==
  ASSUME TypeOK, NEW r \in Repo, NEW m \in Candidates(r), NEW n \in Candidates(r),
         Slug[n] = Slug[m], NEW s, SaysTrue(r, m, s)
  PROVE  SaysTrue(r, n, s)
<1>1. CASE Full(r)
  <2>1. m \in There(r) /\ n \in There(r) /\ HasFile(r, m) /\ HasFile(r, n)
    BY <1>1 DEF Candidates, There
  <2>2. s # "absent"
    BY <2>1 DEF SaysTrue
  <2>3. Own(r, n) => m = n
    BY <2>1 DEF Own
  <2> QED
    BY <2>1, <2>2, <2>3 DEF SaysTrue
<1>2. CASE ~Full(r)
  BY <1>2, FleetAssumption DEF Candidates
<1> QED
  BY <1>1, <1>2

\* ... in the tree cache and in the manifest cache.
LEMMA StoreFileTrue ==
  ASSUME TypeOK, CacheIsTrue, NEW r \in Repo, NEW m \in Candidates(r),
         UNCHANGED <<content, treeCache>>,
         NEW s \in {"absent", "error", "ratelimited"} \cup Parsed, SaysTrue(r, m, s),
         StoreFile(r, m, s)
  PROVE  fileCache' \in [Repo -> [Manifest -> Cached]] /\ CacheIsTrue'
<1>1. CASE s \in {"absent"} \cup Parsed
  <2> DEFINE f == [fileCache[r] EXCEPT ![Slug[m]] = s]
  <2>0. Candidates(r) \subseteq Manifest /\ Slug \in [Manifest -> Manifest] /\ m \in Manifest
        /\ Slug[m] \in Manifest /\ \A q \in Repo : Candidates(q) \subseteq Manifest
    BY ContentType, RootsAreManifests
  <2>1. f \in [Manifest -> Cached] /\ fileCache' = [fileCache EXCEPT ![r] = f]
    BY <1>1 DEF TypeOK, StoreFile, Cached
  <2>2. \A n \in Manifest : f[n] = IF n = Slug[m] THEN s ELSE fileCache[r][n]
    BY <2>0 DEF TypeOK
  <2> HIDE DEF f
  <2>3. fileCache' \in [Repo -> [Manifest -> Cached]]
    BY <2>1 DEF TypeOK
  <2>4. \A q \in Repo : \A n \in Manifest :
          fileCache'[q][n] = IF q = r /\ n = Slug[m] THEN s ELSE fileCache[q][n]
    BY <2>1, <2>2 DEF TypeOK
  <2>5. \A q \in Repo : \A n \in Candidates(q) : SaysTrue(q, n, fileCache'[q][Slug[n]])
    <3> SUFFICES ASSUME NEW q \in Repo, NEW n \in Candidates(q)
                 PROVE  SaysTrue(q, n, fileCache'[q][Slug[n]])
      OBVIOUS
    <3>0. n \in Manifest /\ Slug[n] \in Manifest
      BY <2>0
    <3>1. CASE q = r /\ Slug[n] = Slug[m]
      <4>1. SaysTrue(r, n, s)
        BY <3>1, SharedTrue
      <4>2. fileCache'[q][Slug[n]] = s
        BY <2>0, <2>4, <3>1
      <4> QED
        BY <3>1, <4>1, <4>2
    <3>2. CASE ~(q = r /\ Slug[n] = Slug[m])
      <4>1. fileCache'[q][Slug[n]] = fileCache[q][Slug[n]]
        BY <2>4, <3>0, <3>2
      <4> QED
        BY <4>1 DEF CacheIsTrue, SaysTrue
    <3> QED
      BY <3>1, <3>2
  <2> QED
    BY <2>3, <2>5, CacheSaysTrue DEF CacheIsTrue
<1>2. CASE s \notin {"absent"} \cup Parsed
  <2>1. UNCHANGED <<content, treeCache, fileCache>>
    BY <1>2 DEF StoreFile
  <2> QED
    BY <2>1, CacheKept DEF TypeOK
<1> QED
  BY <1>1, <1>2

\* A file cut short says nothing, so nothing untrue.
LEMMA TearTrue ==
  ASSUME TypeOK, CacheIsTrue, NEW r \in Repo, WorkTrue(r), UNCHANGED content, Tear(r)
  PROVE  /\ treeCache' \in [Repo -> TreeFile]
         /\ fileCache' \in [Repo -> [Manifest -> Cached]] /\ CacheIsTrue'
<1>0. \A q \in Repo : Candidates(q) \subseteq Manifest /\ \A n \in Candidates(q) : Slug[n] \in Manifest
  BY ContentType, RootsAreManifests
<1>1. CASE UNCHANGED fileCache /\ treeCache' = [treeCache EXCEPT ![r] = "torn"]
  <2>1. \A q \in Repo : treeCache'[q] \in {"ok", "absent"} => treeCache'[q] = treeCache[q]
    BY <1>1 DEF TypeOK
  <2>2. \A q \in Repo : \A n \in Candidates(q) : SaysTrue(q, n, fileCache'[q][Slug[n]])
    BY <1>1 DEF CacheIsTrue, SaysTrue
  <2>3. CacheIsTrue'
    BY <2>1, <2>2, CacheSaysTrue DEF CacheIsTrue
  <2> QED
    BY <1>1, <2>3 DEF TypeOK, TreeFile
<1>2. CASE /\ OnFile(r) /\ UNCHANGED treeCache
           /\ fileCache' = [fileCache EXCEPT ![r] = [@ EXCEPT ![Slug[At(r)]] = "torn"]]
  <2> DEFINE f == [fileCache[r] EXCEPT ![Slug[At(r)]] = "torn"]
  <2>1. f \in [Manifest -> Cached] /\ fileCache' = [fileCache EXCEPT ![r] = f]
    BY <1>2 DEF TypeOK, Cached
  <2>2. \A n \in Manifest : f[n] = "torn" \/ f[n] = fileCache[r][n]
    BY DEF TypeOK
  <2> HIDE DEF f
  <2>3. fileCache' \in [Repo -> [Manifest -> Cached]]
    BY <2>1 DEF TypeOK
  <2>4. \A q \in Repo : \A n \in Manifest :
          fileCache'[q][n] = "torn" \/ fileCache'[q][n] = fileCache[q][n]
    BY <2>1, <2>2 DEF TypeOK
  <2>5. \A q \in Repo : \A n \in Candidates(q) : SaysTrue(q, n, fileCache'[q][Slug[n]])
    BY <1>0, <2>4 DEF CacheIsTrue, SaysTrue, Parsed
  <2> QED
    BY <1>2, <2>3, <2>5, CacheSaysTrue DEF TypeOK, CacheIsTrue
<1> QED
  BY <1>1, <1>2 DEF Tear

\* The steps of a thread, those that raise included.
ThreadStep(r) == Thread(r) \/ Hang(r) \/ WriteFails(r)

\* A thread that is at the files is at one.
LEMMA AtType ==
  ASSUME TypeOK, NEW r \in Repo, WorkTrue(r), work[r].at = "files"
  PROVE  At(r) \in Manifest /\ At(r) \in Candidates(r)
<1>1. /\ work[r].todo \in SUBSET Manifest /\ work[r].todo # {}
      /\ work[r].todo \subseteq Candidates(r)
  BY ContentType DEF WorkTrue, Work
<1> QED
  BY <1>1, FirstIsLeast DEF At

\* What a live call says of a tree or of a manifest is so, or says nothing.
LEMMA TruthTold ==
  ASSUME NEW truth \in {"ok", "absent"} \cup Parsed, NEW s \in Answers(truth)
  PROVE  s \in {truth, "error", "ratelimited"}
<1>1. PICK reply \in Replies(truth) : s = Told(reply, truth)
  BY DEF Answers
<1>2. reply \in {{"signature"}, {"signature", "404"}, {"404"}, {"body"}, {}}
  BY DEF Replies
<1>3. reply = {"404"} => truth = "absent"
  BY DEF Replies
<1> QED
  BY <1>1, <1>2, <1>3 DEF Told

LEMMA FileTold ==
  ASSUME TypeOK, NEW r \in Repo, NEW m \in Manifest, NEW s \in Answers(FileTruth(r, m))
  PROVE  s \in {"absent", "error", "ratelimited"} \cup Parsed /\ SaysTrue(r, m, s)
<1>1. FileTruth(r, m) \in {"absent"} \cup Parsed
  BY ContentType DEF FileTruth, HasFile, Text
<1>2. s \in {FileTruth(r, m), "error", "ratelimited"}
  BY <1>1, TruthTold
<1>3. HasFile(r, m) => content[r].text[m] \in Parsed
  BY ContentType DEF HasFile, Text
<1> QED
  BY <1>1, <1>2, <1>3 DEF SaysTrue, FileTruth, Parsed

\* Such a step leaves the main thread alone, and what it writes is so.
LEMMA ThreadStepTrue ==
  ASSUME TypeOK, CacheIsTrue, NEW r \in Repo, WorkTrue(r), ThreadStep(r)
  PROVE  /\ UNCHANGED <<world, edges, pc, loop, report>>
         /\ pc \in {"collect", "drain"} /\ work[r].at \in {"tree", "files"}
         /\ treeCache' \in [Repo -> TreeFile]
         /\ fileCache' \in [Repo -> [Manifest -> Cached]]
         /\ mute' \in BOOLEAN /\ CacheIsTrue'
         /\ work' \in [Repo -> Work] /\ WorkTrue(r)'
         /\ \A q \in Repo \ {r} : work'[q] = work[q]
<1> USE DEF world, caches
<1>0. UNCHANGED <<content, treeCache, fileCache>> => CacheIsTrue'
  BY CacheKept
<1>1. CASE ReadTree(r)
  <2>1. treeCache[r] = TreeTruth(r)
    BY <1>1 DEF ReadTree, CacheIsTrue
  <2> QED
    BY <1>0, <1>1, <2>1, AfterTreeTrue DEF ReadTree, OnTree, TypeOK
<1>2. CASE AskTree(r)
  <2>1. PICK s \in Answers(TreeTruth(r)) : StoreTree(r, s) /\ AfterTree(r, s) /\ Heard(s)
    BY <1>2 DEF AskTree
  <2>2. s \in {TreeTruth(r), "error", "ratelimited"}
    BY TruthTold DEF TreeTruth
  <2>3. mute' \in BOOLEAN
    BY <2>1 DEF Heard, TypeOK
  <2> QED
    BY <1>2, <2>1, <2>2, <2>3, AfterTreeTrue, StoreTreeTrue DEF AskTree, OnTree, TypeOK
<1>3. CASE ReadFile(r)
  <2>1. At(r) \in Candidates(r)
    BY <1>3, AtType DEF ReadFile, OnFile
  <2>2. FileOf(r) \in {"absent", "error", "ratelimited"} \cup Parsed /\ SaysTrue(r, At(r), FileOf(r))
    BY <1>3, <2>1 DEF ReadFile, CacheIsTrue, FileOf, SaysTrue
  <2> QED
    BY <1>0, <1>3, <2>2, AfterFileTrue DEF ReadFile, OnFile, TypeOK
<1>4. CASE AskFile(r)
  <2>1. PICK s \in Answers(FileTruth(r, At(r))) :
          StoreFile(r, At(r), s) /\ AfterFile(r, At(r), s) /\ Heard(s)
    BY <1>4 DEF AskFile
  <2>4. At(r) \in Manifest /\ At(r) \in Candidates(r)
    BY <1>4, AtType DEF AskFile, OnFile
  <2>2. s \in {"absent", "error", "ratelimited"} \cup Parsed /\ SaysTrue(r, At(r), s)
    BY <2>4, FileTold
  <2>3. mute' \in BOOLEAN
    BY <2>1 DEF Heard, TypeOK
  <2> QED
    BY <1>4, <2>1, <2>2, <2>3, <2>4, AfterFileTrue, StoreFileTrue DEF AskFile, OnFile, TypeOK
<1>5. "raised" \in Verdict \ {"ok"}
  BY DEF Verdict
<1>6. CASE ReadTorn(r)
  BY <1>0, <1>5, <1>6, FinishTrue DEF ReadTorn, OnTree, OnFile, TypeOK
<1>7. CASE Hang(r)
  BY <1>0, <1>5, <1>7, FinishTrue DEF Hang, OnTree, OnFile, TypeOK
<1>8. CASE WriteFails(r)
  BY <1>5, <1>8, FinishTrue, TearTrue DEF WriteFails, Tear, OnTree, OnFile
<1> QED
  BY <1>1, <1>2, <1>3, <1>4, <1>6, <1>7, <1>8 DEF ThreadStep, Thread

-----------------------------------------------------------------------------
(* The invariant is inductive                                              *)

\* The collected repositories are the first of those submitted.
LEMMA CollectedAreRepos ==
  ASSUME TypeOK
  PROVE  /\ fetched \in Nat /\ idx \in Nat /\ fetched <= idx /\ idx <= RepoCount
         /\ RepoCount \in Nat /\ 1..fetched \subseteq Repo
<1>1. /\ RepoCount \in Nat /\ idx \in 0..RepoCount /\ fetched \in 0..idx
  BY FleetAssumption DEF TypeOK
<1> QED
  BY <1>1 DEF Repo

\* The sets the stats count are finite: the repositories of a status,
LEMMA ResultsFinite ==
  ASSUME TypeOK, NEW s
  PROVE  /\ Results(s) \subseteq Repo /\ IsFiniteSet(Results(s))
         /\ Cardinality(Results(s)) \in Nat
<1>1. fetched \in Nat /\ 1..fetched \subseteq Repo
  BY CollectedAreRepos
<1>2. IsFiniteSet(1..fetched)
  BY <1>1, FS_Interval
<1>3. Results(s) \in SUBSET (1..fetched)
  BY DEF Results
<1>4. IsFiniteSet(Results(s))
  BY <1>2, <1>3, FS_Subset
<1> QED
  BY <1>1, <1>3, <1>4, FS_CardinalityType

\* the manifests of an outcome,
LEMMA WithFinite ==
  ASSUME TypeOK, NEW s
  PROVE  IsFiniteSet(With(s)) /\ Cardinality(With(s)) \in Nat
<1>1. IsFiniteSet(Results("ok") \X Manifest)
  BY ResultsFinite, ManifestsAreFinite, FS_Product
<1>2. With(s) \in SUBSET (Results("ok") \X Manifest)
  BY DEF With
<1>3. IsFiniteSet(With(s))
  BY <1>1, <1>2, FS_Subset
<1> QED
  BY <1>3, FS_CardinalityType

\* and so the stats are a report.
LEMMA StatsType == ASSUME TypeOK PROVE Stats \in Report
<1>1. \A s \in Status : Cardinality(Results(s)) \in Nat
  BY ResultsFinite
<1>2. Cardinality(With("error")) \in Nat
  BY WithFinite
<1>3. Cardinality(WithManifest) \in Nat
  <2>1. WithManifest \in SUBSET Results("ok") /\ IsFiniteSet(Results("ok"))
    BY ResultsFinite DEF WithManifest
  <2>2. IsFiniteSet(WithManifest)
    BY <2>1, FS_Subset
  <2> QED
    BY <2>2, FS_CardinalityType
<1>4. Cardinality(Extracted) \in Nat
  BY WithFinite DEF Extracted
<1>5. Skipped \in Int
  BY <1>1, CollectedAreRepos DEF Skipped, Status, Verdict
<1> QED
  BY <1>1, <1>2, <1>3, <1>4, <1>5 DEF Stats, Report, Status, Verdict, TypeOK

\* The work of a repository not yet touched, and the stats not yet returned.
LEMMA NothingType ==
  Nothing \in Work /\ [Nothing EXCEPT !.at = "tree"] \in Work /\ NoReport \in Report
BY DEF Nothing, Work, Status, Got, NoReport, Report

\* The skips do not change while no collected repository does.
LEMMA LimitedKept ==
  ASSUME TypeOK, UNCHANGED fetched, \A q \in 1..fetched : work'[q] = work[q]
  PROVE  Limited' = Limited
<1>1. Results("ratelimited")' = Results("ratelimited")
  BY DEF Results
<1> QED
  BY <1>1 DEF Limited

\* The steps of the threads, faults included, keep the invariant,
LEMMA ThreadInv ==
  ASSUME FleetInv, NEW r \in Repo, ThreadStep(r)
  PROVE  FleetInv'
<1> USE DEF FleetInv, world, loop
<1>1. /\ UNCHANGED <<world, edges, pc, loop, report>>
      /\ pc \in {"collect", "drain"} /\ work[r].at \in {"tree", "files"}
      /\ treeCache' \in [Repo -> TreeFile]
      /\ fileCache' \in [Repo -> [Manifest -> Cached]]
      /\ mute' \in BOOLEAN /\ CacheIsTrue'
      /\ work' \in [Repo -> Work] /\ WorkTrue(r)'
      /\ \A q \in Repo \ {r} : work'[q] = work[q]
  BY ThreadStepTrue
<1>2. TypeOK'
  BY <1>1 DEF TypeOK
<1>3. \A q \in Repo : WorkTrue(q)'
  <2>1. ASSUME NEW q \in Repo \ {r} PROVE WorkTrue(q)'
    BY <1>1, WorkKept
  <2> QED
    BY <1>1, <2>1
<1>4. r \notin 1..fetched /\ 1..fetched \subseteq Repo
  <2>1. 1..fetched \subseteq Repo
    BY CollectedAreRepos
  <2>2. \A q \in 1..fetched : work[q].at \notin {"tree", "files"}
    BY DEF LoopTrue, Verdict
  <2> QED
    BY <1>1, <2>1, <2>2
<1>5. \A q \in 1..fetched : work'[q] = work[q]
  BY <1>1, <1>4
<1>6. LoopTrue'
  BY <1>1, <1>5, LimitedKept DEF LoopTrue
<1>7. EdgesTrue'
  BY <1>1, EdgesKept
<1>8. Reported'
  BY <1>1 DEF Reported
<1> QED
  BY <1>1, <1>2, <1>3, <1>6, <1>7, <1>8

\* A start, or the end of a process: what was on disk is all that is left.
LEMMA FreshInv ==
  ASSUME FleetInv, Fresh, UNCHANGED <<world, edges>>, pc' \in {"submit", "dead"},
         treeCache' \in [Repo -> TreeFile], fileCache' \in [Repo -> [Manifest -> Cached]],
         CacheIsTrue'
  PROVE  FleetInv'
<1> USE DEF FleetInv, world
<1>1. TypeOK'
  <2>1. work' \in [Repo -> Work] /\ report' \in Report /\ mute' \in BOOLEAN
    BY NothingType DEF Fresh
  <2>2. /\ idx' \in 0..RepoCount /\ fetched' \in 0..idx' /\ consec' \in 0..fetched'
        /\ waits' \in 0..MaxWaits /\ paused' \in BOOLEAN /\ incomplete' \in BOOLEAN
    <3>1. 0 \in 0..0 /\ 0 \in 0..RepoCount /\ 0 \in 0..MaxWaits
      BY FleetAssumption
    <3> QED
      BY <3>1 DEF Fresh
  <2>3. /\ content' \in Fleet /\ banned' \in BOOLEAN
        /\ edges' \subseteq Repo \X Manifest /\ pc' \in Point
    BY DEF TypeOK, Point, Ended
  <2> QED
    BY <2>1, <2>2, <2>3 DEF TypeOK
<1>2. \A r \in Repo : WorkTrue(r)'
  BY DEF WorkTrue, Fresh, Nothing, Parsed
<1>3. Limited' = 0
  <2>1. Results("ratelimited")' = {}
    BY DEF Results, Fresh
  <2> QED
    BY <2>1, FS_EmptySet DEF Limited
<1>4. LoopTrue'
  BY <1>3, FleetAssumption DEF LoopTrue, Fresh
<1>5. Reported' /\ EdgesTrue'
  BY EdgesKept DEF Reported
<1> QED
  BY <1>1, <1>2, <1>4, <1>5

\* A step that leaves the repositories, the caches and the threads alone.
LEMMA QuietInv ==
  ASSUME TypeOK, CacheIsTrue, \A r \in Repo : WorkTrue(r),
         EdgesTrue, UNCHANGED <<content, caches, work>>
  PROVE  /\ CacheIsTrue' /\ \A r \in Repo : WorkTrue(r)'
         /\ UNCHANGED edges => EdgesTrue'
         /\ UNCHANGED fetched => Limited' = Limited
<1>1. CacheIsTrue'
  BY CacheKept DEF caches
<1>2. \A r \in Repo : WorkTrue(r)'
  BY WorkKept
<1>3. UNCHANGED edges => EdgesTrue'
  BY EdgesKept
<1>4. UNCHANGED fetched => Limited' = Limited
  BY LimitedKept
<1> QED
  BY <1>1, <1>2, <1>3, <1>4

\* A batch that is submitted takes repositories that were not collected.
LEMMA SubmitInv ==
  ASSUME FleetInv, Submit
  PROVE  FleetInv'
<1> USE DEF FleetInv, world, caches, Submit
<1>1. /\ fetched = idx /\ fetched \in Nat /\ idx \in Nat /\ RepoCount \in Nat /\ Jobs \in Nat
      /\ idx < RepoCount
  BY CollectedAreRepos, FleetAssumption DEF LoopTrue
<1>2. idx' \in 0..RepoCount /\ fetched' \in 0..idx'
  BY <1>1
<1>3. work' \in [Repo -> Work] /\ content' = content
  BY NothingType DEF TypeOK
<1>4. TypeOK'
  BY <1>2, <1>3 DEF TypeOK, Point
<1>5. \A q \in 1..fetched : work'[q] = work[q]
  BY <1>1 DEF Repo
<1>6. Limited' = Limited
  BY <1>5, LimitedKept
<1>7. ASSUME NEW q \in Repo PROVE WorkTrue(q)'
  <2>1. CASE work'[q] = work[q]
    BY <1>3, <2>1, WorkKept
  <2>2. CASE work'[q] = [Nothing EXCEPT !.at = "tree"]
    BY <2>2 DEF WorkTrue, Nothing, Parsed
  <2> QED
    BY <2>1, <2>2
<1>8. LoopTrue'
  BY <1>5, <1>6 DEF LoopTrue
<1>9. CacheIsTrue' /\ EdgesTrue'
  BY EdgesKept, CacheKept
<1> QED
  BY <1>4, <1>7, <1>8, <1>9 DEF Reported

\* A collected repository enters the streak and the skips alike.
LEMMA CollectInv ==
  ASSUME FleetInv, Collect
  PROVE  FleetInv'
<1> USE DEF FleetInv, world, caches, Collect
<1> DEFINE s == work[fetched + 1].at
           old == Results("ratelimited")
<1>1. /\ fetched \in Nat /\ idx \in Nat /\ fetched + 1 <= idx /\ idx <= RepoCount
      /\ RepoCount \in Nat /\ consec \in Nat /\ consec <= fetched /\ Streak \in Nat
  BY CollectedAreRepos, FleetAssumption DEF TypeOK
<1>2. 1..fetched' = (1..fetched) \cup {fetched + 1} /\ fetched + 1 \notin 1..fetched
  BY <1>1
<1>3. /\ CacheIsTrue' /\ \A r \in Repo : WorkTrue(r)'
      /\ EdgesTrue'
  BY QuietInv
<1>4. /\ consec' \in Nat /\ consec' <= fetched' /\ paused' \in BOOLEAN
      /\ consec' = IF s = "ratelimited" THEN consec + 1 ELSE 0
  BY <1>1 DEF TypeOK
<1>5. fetched' \in 0..idx' /\ consec' \in 0..fetched'
  BY <1>1, <1>4
<1>6. TypeOK'
  BY <1>4, <1>5 DEF TypeOK
<1>7. /\ IsFiniteSet(old) /\ Limited \in Nat /\ fetched + 1 \notin old
      /\ Results("ratelimited")' = IF s = "ratelimited" THEN old \cup {fetched + 1} ELSE old
  BY <1>2, ResultsFinite DEF Results, Limited
<1>8. Limited' = IF s = "ratelimited" THEN Limited + 1 ELSE Limited
  <2> HIDE DEF old
  <2>1. Cardinality(old \cup {fetched + 1}) = Cardinality(old) + 1
    BY <1>7, FS_AddElement
  <2> QED
    BY <1>7, <2>1 DEF Limited, old
<1>9. consec' <= Limited' /\ (paused' \/ incomplete' => Streak <= Limited')
  <2>1. /\ consec <= Limited /\ (paused \/ incomplete => Streak <= Limited)
        /\ paused' = (paused \/ consec' >= Streak) /\ incomplete' = incomplete
    BY DEF LoopTrue
  <2>2. Limited \in Nat /\ Limited <= Limited'
    BY <1>7, <1>8
  <2>3. consec' <= Limited'
    BY <1>1, <1>4, <1>8, <2>1, <2>2
  <2>4. Limited' \in Nat
    BY <1>7, <1>8
  <2>5. CASE paused \/ incomplete
    BY <1>1, <2>1, <2>2, <2>3, <2>4, <2>5
  <2>6. CASE consec' >= Streak
    BY <1>1, <1>4, <2>3, <2>4, <2>6
  <2> HIDE DEF Collect, FleetInv
  <2> QED
    BY <2>1, <2>3, <2>5, <2>6
<1>10. \A r \in 1..fetched' : work'[r].at \in Verdict \ {"raised"}
  BY <1>2 DEF LoopTrue
<1>11. LoopTrue'
  BY <1>9, <1>10 DEF LoopTrue
<1> QED
  BY <1>3, <1>6, <1>11 DEF Reported

\* The end of a batch and the probes of a pause keep what was counted.
LEMMA ControlInv ==
  ASSUME FleetInv, CollectRaises \/ BatchEnd \/ Probe
  PROVE  FleetInv'
<1> USE DEF FleetInv, world, caches, loop
<1>1. /\ UNCHANGED <<world, caches, edges, idx, fetched, work, report>>
      /\ pc' \in {"drain", "pause", "submit"}
  BY DEF CollectRaises, BatchEnd, Probe
<1>2. /\ CacheIsTrue' /\ \A r \in Repo : WorkTrue(r)'
      /\ EdgesTrue'
      /\ Limited' = Limited
  BY <1>1, QuietInv
<1>3. /\ Limited \in Nat /\ MaxWaits \in Nat \ {0} /\ waits \in Nat /\ fetched \in Nat
      /\ consec \in Nat /\ Streak \in Nat
  BY ResultsFinite, FleetAssumption, CollectedAreRepos DEF Limited, TypeOK
<1>0. \A r \in 1..fetched' : work'[r].at \in Verdict \ {"raised"}
  BY <1>1 DEF LoopTrue
<1>4. CASE CollectRaises
  <2>1. TypeOK'
    BY <1>1, <1>4 DEF CollectRaises, TypeOK, Point
  <2>2. LoopTrue'
    BY <1>0, <1>2, <1>3, <1>4 DEF CollectRaises, LoopTrue
  <2> QED
    BY <1>2, <1>4, <2>1, <2>2 DEF CollectRaises, Reported
<1>5. CASE BatchEnd
  <2>1. TypeOK'
    BY <1>1, <1>3, <1>5 DEF BatchEnd, TypeOK, Point
  <2>2. LoopTrue'
    BY <1>0, <1>2, <1>3, <1>5 DEF BatchEnd, LoopTrue
  <2> QED
    BY <1>1, <1>2, <2>1, <2>2 DEF Reported
<1>6. CASE Probe
  <2>1. waits < MaxWaits /\ paused /\ fetched = idx /\ Streak <= Limited
    BY <1>6 DEF Probe, LoopTrue
  <2>2. /\ waits' = waits + 1 /\ waits' \in 0..MaxWaits
        /\ consec' \in 0..fetched /\ consec' <= Limited /\ incomplete' \in BOOLEAN
    BY <1>3, <1>6, <2>1 DEF Probe, TypeOK, LoopTrue
  <2>3. pc' = "pause" => waits' < MaxWaits
    BY <1>3, <1>6, <2>1 DEF Probe
  <2>4. TypeOK'
    BY <1>1, <1>6, <2>2 DEF Probe, TypeOK, Point
  <2>5. LoopTrue'
    <3>1. pc' \in {"pause", "submit"} /\ fetched' = idx' /\ paused' = paused
      BY <1>6, <2>1 DEF Probe
    <3>2. consec' <= Limited' /\ Streak <= Limited'
      BY <1>2, <2>1, <2>2
    <3> QED
      BY <1>0, <2>1, <2>3, <3>1, <3>2 DEF LoopTrue
  <2> QED
    BY <1>1, <1>2, <2>4, <2>5 DEF Reported
<1> QED
  BY <1>4, <1>5, <1>6

\* What was extracted was found: got says ok only of what was asked for and is there.
LEMMA ExtractedExpected ==
  ASSUME TypeOK, \A r \in Repo : WorkTrue(r), NEW e \in Extracted
  PROVE  /\ e \in Repo \X Manifest /\ e[2] \in Found(e[1])
         /\ Own(e[1], e[2]) => e[2] \in Expected(e[1])
<1>1. e \in Results("ok") \X Manifest /\ work[e[1]].got[e[2]] = "deps"
  BY DEF Extracted, With
<1>2. e[1] \in Repo /\ e[2] \in Manifest /\ e \in Repo \X Manifest
  BY <1>1, ResultsFinite
<1>3. e[2] \in Found(e[1]) /\ (Own(e[1], e[2]) => content[e[1]].text[e[2]] = "deps")
  BY <1>1, <1>2 DEF WorkTrue, Parsed
<1> QED
  BY <1>2, <1>3 DEF Expected

\* What is aggregated was found, and is what is reported.
LEMMA AggregateInv ==
  ASSUME FleetInv, Aggregate
  PROVE  FleetInv'
<1> USE DEF FleetInv, world, caches, loop, Aggregate
<1>1. /\ CacheIsTrue' /\ \A r \in Repo : WorkTrue(r)'
      /\ Limited' = Limited
  BY QuietInv
<1>7. \A e \in Extracted : /\ e \in Repo \X Manifest /\ e[2] \in Found(e[1])
                           /\ Own(e[1], e[2]) => e[2] \in Expected(e[1])
  BY ExtractedExpected
<1>2. TypeOK'
  BY <1>7, StatsType DEF TypeOK, Point, Ended
<1>3. EdgesTrue'
  <2>1. \A r : /\ Found(r)' = Found(r) /\ Expected(r)' = Expected(r)
               /\ \A m : Own(r, m)' = Own(r, m)
    BY ContentKept
  <2> QED
    BY <1>7, <2>1 DEF EdgesTrue
<1>0. \A r \in 1..fetched' : work'[r].at \in Verdict \ {"raised"}
  BY DEF LoopTrue
<1>4. LoopTrue'
  BY <1>0, <1>1 DEF LoopTrue
<1>5. /\ Extracted' = Extracted /\ Stats' = Stats
  BY DEF Extracted, With, Results, Stats, WithManifest, Skipped
<1>6. Reported'
  BY <1>5 DEF Reported
<1> QED
  BY <1>1, <1>2, <1>3, <1>4, <1>6

\* The repositories, the threads and the results are as they were, and so is what was reported.
LEMMA StillInv ==
  ASSUME FleetInv,
         UNCHANGED <<content, caches, edges, pc, loop, work, mute, report>>, banned' \in BOOLEAN
  PROVE  FleetInv'
<1> USE DEF FleetInv, caches, loop
<1>1. TypeOK'
  BY DEF TypeOK
<1>2. /\ CacheIsTrue' /\ \A r \in Repo : WorkTrue(r)'
      /\ EdgesTrue'
      /\ Limited' = Limited
  BY QuietInv
<1>3. LoopTrue'
  BY <1>2 DEF LoopTrue
<1>4. /\ Extracted' = Extracted /\ Stats' = Stats
  BY DEF Extracted, With, Results, Stats, WithManifest, Skipped
<1>5. Reported'
  BY <1>4 DEF Reported
<1> QED
  BY <1>1, <1>2, <1>3, <1>5

\* The invariant holds at first,
LEMMA FleetInit == Init => FleetInv
<1> SUFFICES ASSUME Init PROVE FleetInv
  OBVIOUS
<1>1. TypeOK
  <2>1. 0 \in 0..0 /\ 0 \in 0..RepoCount /\ 0 \in 0..MaxWaits
    BY FleetAssumption
  <2> QED
    BY <2>1, NothingType DEF Init, TypeOK, Cached, TreeFile, Point
<1>2. CacheIsTrue /\ \A r \in Repo : WorkTrue(r)
  <2>1. \A r \in Repo : \A m \in Candidates(r) : fileCache[r][Slug[m]] = "none"
    BY <1>1, ContentType, RootsAreManifests DEF Init
  <2> QED
    BY <2>1 DEF Init, CacheIsTrue, WorkTrue, Nothing, Parsed
<1>3. Limited = 0
  <2>1. Results("ratelimited") = {}
    BY DEF Results, Init
  <2> QED
    BY <2>1, FS_EmptySet DEF Limited
<1>4. LoopTrue
  BY <1>3, FleetAssumption DEF LoopTrue, Init
<1> QED
  BY <1>1, <1>2, <1>4 DEF FleetInv, Reported, Init, EdgesTrue

\* and every step keeps it.
LEMMA FleetNext == FleetInv /\ [Next]_vars => FleetInv'
<1> SUFFICES ASSUME FleetInv, [Next]_vars PROVE FleetInv'
  OBVIOUS
<1>1. ASSUME Fresh, UNCHANGED <<world, caches, edges>>, pc' \in {"submit", "dead"}
      PROVE  FleetInv'
  <2>1. CacheIsTrue'
    BY <1>1, CacheKept DEF FleetInv, world, caches
  <2> QED
    BY <1>1, <2>1, FreshInv DEF FleetInv, TypeOK, caches
<1>2. CASE Start \/ Drained \/ ProbeHangs \/ Kill
  BY <1>1, <1>2 DEF Start, Drained, ProbeHangs, Kill
<1>3. ASSUME NEW r \in Repo, KillInWrite(r) PROVE FleetInv'
  <2>1. WorkTrue(r) /\ UNCHANGED content
    BY <1>3 DEF FleetInv, KillInWrite, world
  <2>2. /\ treeCache' \in [Repo -> TreeFile]
        /\ fileCache' \in [Repo -> [Manifest -> Cached]] /\ CacheIsTrue'
    BY <1>3, <2>1, TearTrue DEF FleetInv, KillInWrite
  <2> QED
    BY <1>3, <2>2, FreshInv DEF KillInWrite
<1>4. ASSUME NEW r \in Repo, ThreadStep(r) PROVE FleetInv'
  BY <1>4, ThreadInv
<1>5. CASE Submit
  BY <1>5, SubmitInv
<1>6. CASE Collect
  BY <1>6, CollectInv
<1>7. CASE CollectRaises \/ BatchEnd \/ Probe
  BY <1>7, ControlInv
<1>8. CASE Aggregate
  BY <1>8, AggregateInv
<1>9. CASE Ban
  BY <1>9, StillInv DEF Ban, FleetInv, TypeOK
<1>10. CASE UNCHANGED vars
  BY <1>10, StillInv DEF vars, world, FleetInv, TypeOK
<1> QED
  BY <1>2, <1>3, <1>4, <1>5, <1>6, <1>7, <1>8, <1>9, <1>10
     DEF Next, Process, Main, Fault, ThreadStep

-----------------------------------------------------------------------------
(* What the invariant says of the sweep                                    *)

\* A manifest of a repository that is ok is counted under its outcome.
LEMMA WithHas ==
  ASSUME NEW r \in Results("ok"), NEW m \in Manifest
  PROVE  <<r, m>> \in With(work[r].got[m])
BY DEF With

\* Two sets of results have nothing in common.
LEMMA TwoResults ==
  ASSUME TypeOK, NEW S \in SUBSET (1..fetched), NEW s,
         \A r \in S : work[r].at # s
  PROVE  /\ S \cup Results(s) \in SUBSET (1..fetched)
         /\ Cardinality(S \cup Results(s)) = Cardinality(S) + Cardinality(Results(s))
<1>1. IsFiniteSet(1..fetched)
  BY CollectedAreRepos, FS_Interval
<1>2. /\ IsFiniteSet(S) /\ Results(s) \in SUBSET (1..fetched) /\ IsFiniteSet(Results(s))
      /\ Cardinality(S) \in Nat /\ Cardinality(Results(s)) \in Nat
  BY <1>1, FS_Subset, FS_CardinalityType, ResultsFinite DEF Results
<1>3. S \cap Results(s) = {}
  BY DEF Results
<1>4. Cardinality(S \cup Results(s))
        = Cardinality(S) + Cardinality(Results(s)) - Cardinality(S \cap Results(s))
  BY <1>2, FS_Union
<1>5. Cardinality(S \cap Results(s)) = 0
  BY <1>3, FS_EmptySet
<1>6. Cardinality(S \cup Results(s)) = Cardinality(S) + Cardinality(Results(s))
  BY <1>2, <1>4, <1>5
<1> QED
  BY <1>2, <1>6

\* Every collected repository is in one of the four.
LEMMA ResultsPartition ==
  ASSUME FleetInv
  PROVE  fetched = Cardinality(Results("ok")) + Cardinality(Results("absent"))
                     + Cardinality(Results("error")) + Cardinality(Results("ratelimited"))
<1> DEFINE A == Results("ok")
           B == A \cup Results("absent")
           C == B \cup Results("error")
           D == C \cup Results("ratelimited")
<1>0. TypeOK
  BY DEF FleetInv
<1>1. A \in SUBSET (1..fetched) /\ \A r \in A : work[r].at # "absent"
  BY DEF Results
<1>2. /\ B \in SUBSET (1..fetched) /\ \A r \in B : work[r].at # "error"
      /\ Cardinality(B) = Cardinality(A) + Cardinality(Results("absent"))
  BY <1>0, <1>1, TwoResults DEF Results
<1>3. /\ C \in SUBSET (1..fetched) /\ \A r \in C : work[r].at # "ratelimited"
      /\ Cardinality(C) = Cardinality(B) + Cardinality(Results("error"))
  <2> HIDE DEF A
  <2>1. \A r \in C : work[r].at # "ratelimited"
    BY DEF A, Results
  <2> QED
    BY <1>0, <1>2, <2>1, TwoResults
<1>4. Cardinality(D) = Cardinality(C) + Cardinality(Results("ratelimited"))
  <2> HIDE DEF C
  <2> QED
    BY <1>0, <1>3, TwoResults
<1>5. D = 1..fetched
  BY DEF FleetInv, LoopTrue, Results, Verdict
<1>6. Cardinality(D) = fetched
  <2>1. fetched \in Nat
    BY <1>0, CollectedAreRepos
  <2>2. Cardinality(1..fetched) = IF 1 > fetched THEN 0 ELSE fetched - 1 + 1
    BY <2>1, FS_Interval
  <2> HIDE DEF D
  <2> QED
    BY <1>5, <2>1, <2>2
<1> QED
  BY <1>2, <1>3, <1>4, <1>6

\* The partition, and the streak behind a run that gave up, in a state.
LEMMA AccountedState == FleetInv => CountersAddUp
<1> SUFFICES ASSUME FleetInv, pc = "done"
             PROVE  /\ report.ok + report.absent + report.error + report.skipped = RepoCount
                    /\ report.incomplete => report.skipped >= Streak
  BY DEF CountersAddUp
<1>1. /\ TypeOK /\ report = Stats /\ fetched = idx
      /\ incomplete => Streak <= Limited
  BY DEF FleetInv, Reported, LoopTrue
<1>2. /\ report.ok = Cardinality(Results("ok")) /\ report.absent = Cardinality(Results("absent"))
      /\ report.error = Cardinality(Results("error")) /\ report.incomplete = incomplete
      /\ report.skipped = Limited + (RepoCount - idx)
  BY <1>1 DEF Stats, Skipped, Limited
<1>3. /\ Cardinality(Results("ok")) \in Nat /\ Cardinality(Results("absent")) \in Nat
      /\ Cardinality(Results("error")) \in Nat /\ Limited \in Nat
      /\ idx \in Nat /\ RepoCount \in Nat /\ idx <= RepoCount /\ Streak \in Nat
  BY <1>1, ResultsFinite, CollectedAreRepos, FleetAssumption DEF Limited
<1>4. fetched = Cardinality(Results("ok")) + Cardinality(Results("absent"))
                  + Cardinality(Results("error")) + Limited
  BY ResultsPartition DEF Limited
<1> QED
  BY <1>1, <1>2, <1>3, <1>4

\* Nothing skipped and no error: every repository is ok or absent, a full one is ok, and
\* its manifests are all known, none as an error.
LEMMA GraphState == FleetInv => GraphIsTrue
<1> SUFFICES ASSUME FleetInv, pc = "done", report.skipped = 0, report.error = 0,
                    report.manifestErrors = 0,
                    NEW r \in Repo, Full(r), NEW m \in Expected(r), Own(r, m)
             PROVE  <<r, m>> \in edges
  BY DEF GraphIsTrue, FleetInv, EdgesTrue
<1>1. /\ TypeOK /\ report = Stats /\ fetched = idx /\ Extracted \subseteq edges
      /\ WorkTrue(r)
  BY DEF FleetInv, Reported, LoopTrue
<1>2. /\ Limited + (RepoCount - idx) = 0 /\ Cardinality(Results("error")) = 0
      /\ Cardinality(With("error")) = 0
  BY <1>1 DEF Stats, Skipped, Limited
<1>3. /\ Limited = 0 /\ idx = RepoCount
  BY <1>1, <1>2, CollectedAreRepos, ResultsFinite DEF Limited
<1>4. Results("ratelimited") = {} /\ Results("error") = {} /\ With("error") = {}
  BY <1>1, <1>2, <1>3, ResultsFinite, WithFinite, FS_EmptySet DEF Limited
<1>5. r \in 1..fetched
  BY <1>1, <1>3 DEF Repo
<1>6. r \in Results("ok")
  <2>1. work[r].at \in {"ok", "absent", "error", "ratelimited"}
    BY <1>5 DEF FleetInv, LoopTrue, Verdict
  <2>2. work[r].at \notin {"error", "ratelimited"}
    BY <1>4, <1>5 DEF Results
  <2>3. work[r].at # "absent"
    BY <1>1 DEF WorkTrue, Full
  <2> QED
    BY <1>5, <2>1, <2>2, <2>3 DEF Results
<1>7. m \in There(r) /\ m \in Manifest /\ content[r].text[m] = "deps"
  BY <1>1, ContentType DEF Expected, Found
<1>8. work[r].got[m] = "deps"
  <2>1. work[r].at = "ok" /\ work[r].got[m] \in Got
    BY <1>1, <1>6, <1>7, ContentType DEF Results, Work
  <2>2. work[r].got[m] # "none" /\ work[r].got[m] # "absent"
    BY <1>1, <1>7, <2>1 DEF WorkTrue
  <2>3. work[r].got[m] # "error"
    BY <1>4, <1>6, <1>7, WithHas
  <2>4. work[r].got[m] \in Parsed
    BY <2>1, <2>2, <2>3 DEF Got
  <2> QED
    BY <1>1, <1>7, <2>4 DEF WorkTrue
<1>9. <<r, m>> \in Extracted
  BY <1>6, <1>7, <1>8, WithHas DEF Extracted
<1> QED
  BY <1>1, <1>9

\* A repository with a manifest that was found and has edges would be extracted from.
LEMMA NoFalseAlarmState == FleetInv => NoFalseAlarm
<1> SUFFICES ASSUME FleetInv, pc = "done", report.loud, report.manifestErrors = 0,
                    NEW r \in WithManifest, NEW m \in Expected(r), Own(r, m)
             PROVE  FALSE
  BY DEF NoFalseAlarm
<1>1. TypeOK /\ report = Stats
  BY DEF FleetInv, Reported
<1>2. Extracted = {} /\ Cardinality(With("error")) = 0
  BY <1>1 DEF Stats
<1>3. With("error") = {}
  BY <1>1, <1>2, WithFinite, FS_EmptySet
<1>4. /\ r \in Results("ok") /\ r \in Repo /\ work[r].at = "ok" /\ WorkTrue(r)
      /\ \E n \in Manifest : work[r].got[n] # "none"
  BY <1>1, ResultsFinite DEF WithManifest, FleetInv, Results
<1>5. /\ m \in Found(r) /\ content[r].text[m] = "deps"
      /\ There(r) \subseteq Manifest
  BY <1>1, <1>4, ContentType DEF Expected
<1>6. work[r] \in Work /\ \A n \in Manifest : work[r].got[n] \in Got
  BY <1>1, <1>4, ContentType DEF Work
<1>10. \A n \in Manifest : work[r].got[n] # "error"
  BY <1>3, <1>4, WithHas
<1>11. m \in Manifest => work[r].got[m] \notin Parsed
  <2> SUFFICES ASSUME m \in Manifest, work[r].got[m] \in Parsed PROVE FALSE
    OBVIOUS
  <2>1. work[r].got[m] = "deps"
    BY <1>4, <1>5 DEF WorkTrue
  <2>2. <<r, m>> \in Extracted
    BY <1>4, <2>1, WithHas DEF Extracted
  <2> QED
    BY <1>2, <2>2
<1>7. CASE Full(r)
  <2>1. m \in There(r) /\ m \in Manifest
    <3>1. There(r) \subseteq Manifest
      BY <1>1, <1>4, ContentType
    <3> QED
      BY <1>5, <1>7, <3>1 DEF Found
  <2>2. work[r].got[m] # "none" /\ work[r].got[m] # "absent"
    BY <1>4, <1>7, <2>1 DEF WorkTrue
  <2> QED
    BY <1>6, <1>10, <1>11, <2>1, <2>2 DEF Got
<1>8. CASE ~Full(r)
  <2>1. PICK n \in Manifest : work[r].got[n] # "none"
    BY <1>4
  <2>2. work[r].got[n] \in Parsed /\ n \in Found(r)
    BY <1>4, <1>8, <2>1 DEF WorkTrue
  <2>3. Found(r) = {m}
    BY <1>5, <1>8 DEF Found
  <2> QED
    BY <1>11, <2>2, <2>3
<1> QED
  BY <1>7, <1>8

-----------------------------------------------------------------------------
(* The theorems                                                            *)

\* FleetInv holds throughout the sweep; the theorems below follow from it.
THEOREM FleetInvariant == Spec => []FleetInv
BY FleetInit, FleetNext, PTL DEF Spec

\* TypeOK: every variable of the sweep stays in its type, for any fleet, any number of
\* threads, and any faults (build_deps_multi).
THEOREM Typed == Spec => []TypeOK
<1>1. FleetInv => TypeOK
  BY DEF FleetInv
<1> QED
  BY <1>1, FleetInvariant, PTL

\* CacheIsTrue: no ban, error, time-out or death leaves a tree or a manifest on disk as
\* something it is not (fetch_tree, fetch_manifest), so that a resumed run may trust the
\* caches, and the text of a manifest whose cache file no other of its repository shares.
THEOREM TrueCaches == Spec => []CacheIsTrue
<1>1. FleetInv => CacheIsTrue
  BY DEF FleetInv
<1> QED
  BY <1>1, FleetInvariant, PTL

\* GraphIsTrue: every edge cites a manifest that is to be found, and one with dependencies if
\* it has a cache file of its own; a run that returns no skip and no error has left the edges
\* of every such manifest of every full tree (work, _aggregate, the caches between runs).
THEOREM SoundGraph == Spec => []GraphIsTrue
BY GraphState, FleetInvariant, PTL

\* CountersAddUp: the returned counts partition the fleet, those never submitted included,
\* and a run that gave up skipped a streak at least (skipped_rate_limited).
THEOREM Accounted == Spec => []CountersAddUp
BY AccountedState, FleetInvariant, PTL

\* NoFalseAlarm: loud_fail without a failed manifest means that there was nothing to
\* extract in what was reached, but for manifests that share a cache file.
THEOREM Quiet == Spec => []NoFalseAlarm
BY NoFalseAlarmState, FleetInvariant, PTL

=============================================================================
