------------------------- MODULE SharedFilesProofs -------------------------
(***************************************************************************)
(* Theorems of the files that processes share without a lock: of the index *)
(* of FindingsDb, for any builds of a corpus of any size; of the clone of  *)
(* RuleCache, for any number of scans; and of the composition of these two *)
(* with the journal, the cache and the sweep.                              *)
(***************************************************************************)
EXTENDS MCSharedFiles, MetricsJournalProofs, RemoteCacheProofs, SweepEngineProofs

(***************************************************************************)
(* The index                                                               *)
(***************************************************************************)

Opened    == {"open", "create", "insert"}
Inserts(b) == build[b].at = "insert" /\ build[b].named

\* A build under way has a number that was given out.
Numbered == \A b \in Builder : build[b].at # "idle" => build[b].of \in 1..builds

\* Of the builds whose file still bears its name one at most has made its tables, and until it
\* commits there are no rows in them.
OneInserts ==
  /\ \A b \in Builder : Inserts(b) => index = [is |-> "tables", rows |-> {}]
  /\ \A b, c \in Builder : Inserts(b) /\ Inserts(c) => b = c

\* As long as builds do not overlap, one is under way, and it was the last to unlink.
OneBuilds == ~overlapped =>
  /\ \A b, c \in Builder : build[b].at # "idle" /\ build[c].at # "idle" => b = c
  /\ \A b \in Builder : build[b].at \in Opened => build[b].of = last

DbInv == DbTypeOK /\ Numbered /\ OneInserts /\ OneBuilds /\ IndexIsOneBuild

LEMMA DbInitially == DbInit => DbInv
<1> SUFFICES ASSUME DbInit PROVE DbInv
  OBVIOUS
<1>1. \A b \in Builder : build[b].at = "idle"
  BY DEF DbInit, NoBuild
<1>2. DbTypeOK
  <2>1. build \in [Builder -> Build]
    BY DEF DbInit, Build, NoBuild
  <2>2. index \in {NoIndex, [is |-> "empty"]} /\ overlapped \in BOOLEAN
    BY DEF DbInit
  <2>3. builds \in 0..MaxBuilds /\ last \in 0..MaxBuilds
    BY ProjectionAssumption DEF DbInit
  <2> QED
    BY <2>1, <2>2, <2>3 DEF DbTypeOK
<1>3. Numbered /\ OneInserts /\ OneBuilds
  BY <1>1 DEF Numbered, OneInserts, Inserts, OneBuilds, Opened
<1>4. IndexIsOneBuild
  BY DEF DbInit, NoIndex, IndexIsOneBuild, Accepts
<1> QED
  BY <1>2, <1>3, <1>4 DEF DbInv

\* A step of one build that leaves the file alone, and neither begins nor unlinks.
LEMMA BuildMoves ==
  ASSUME DbInv, NEW b \in Builder, NEW st \in Build, BuildTo(b, st), build[b].at # "idle",
         UNCHANGED <<index, builds, last, overlapped>>,
         st.at # "idle" => st.at \in Opened /\ build[b].at \in Opened /\ st.of = build[b].of,
         st.at = "insert" => build[b].at = "insert" /\ st.named = build[b].named
  PROVE  DbInv'
<1>1. build' = [build EXCEPT ![b] = st] /\ build \in [Builder -> Build]
  BY DEF BuildTo, DbInv, DbTypeOK
<1>2. /\ build'[b] = st /\ \A c \in Builder \ {b} : build'[c] = build[c]
      /\ build' \in [Builder -> Build]
  BY <1>1
<1>3. DbTypeOK' /\ IndexIsOneBuild'
  BY <1>2 DEF DbInv, DbTypeOK, IndexIsOneBuild, Accepts
<1>4. Numbered'
  BY <1>2 DEF DbInv, Numbered
<1>5. OneInserts'
  BY <1>2 DEF DbInv, OneInserts, Inserts
<1>6. OneBuilds'
  BY <1>2 DEF DbInv, OneBuilds, Opened
<1> QED
  BY <1>3, <1>4, <1>5, <1>6 DEF DbInv

LEMMA DbStep == DbInv /\ [DbNext]_dbVars => DbInv'
<1> SUFFICES ASSUME DbInv, [DbNext]_dbVars PROVE DbInv'
  OBVIOUS
<1>0. DbTypeOK /\ Numbered /\ OneInserts /\ OneBuilds /\ IndexIsOneBuild
  BY DEF DbInv
<1>1. ASSUME NEW b \in Builder, Resolve(b) PROVE DbInv'
  <2>1. /\ build[b].at = "idle" /\ builds < MaxBuilds /\ builds' = builds + 1
        /\ build' = [build EXCEPT ![b] = [at |-> "unlink", of |-> builds + 1]]
        /\ overlapped' = (overlapped \/ \E c \in Builder : build[c].at # "idle")
        /\ UNCHANGED <<index, last>> /\ builds \in 0..MaxBuilds /\ MaxBuilds \in Nat
    BY <1>0, <1>1, ProjectionAssumption DEF Resolve, BuildAt, BuildTo, DbTypeOK
  <2>2. /\ build'[b] = [at |-> "unlink", of |-> builds + 1]
        /\ \A c \in Builder \ {b} : build'[c] = build[c]
    BY <1>0, <2>1 DEF DbTypeOK
  <2>3. builds + 1 \in 1..MaxBuilds /\ 1..builds \subseteq 1..builds'
    BY <2>1
  <2>10. ~overlapped' => ~overlapped /\ \A c \in Builder : build[c].at = "idle"
    BY <2>1
  <2>4. build' \in [Builder -> Build]
    BY <1>0, <2>1, <2>3 DEF DbTypeOK, Build
  <2>5. DbTypeOK'
    BY <1>0, <2>1, <2>3, <2>4 DEF DbTypeOK
  <2>6. Numbered'
    BY <1>0, <2>1, <2>2 DEF Numbered
  <2>7. OneInserts'
    BY <1>0, <2>1, <2>2 DEF OneInserts, Inserts
  <2>8. OneBuilds'
    BY <2>2, <2>10 DEF OneBuilds, Opened
  <2>9. IndexIsOneBuild'
    BY <1>0, <2>1, <2>3, <2>10 DEF IndexIsOneBuild, Accepts
  <2> QED
    BY <2>5, <2>6, <2>7, <2>8, <2>9 DEF DbInv
<1>2. ASSUME NEW b \in Builder, Unlink(b) PROVE DbInv'
  <2>1. /\ build[b].at = "unlink" /\ index' = NoIndex /\ last' = build[b].of
        /\ UNCHANGED <<builds, overlapped>> /\ build \in [Builder -> Build]
    BY <1>0, <1>2 DEF Unlink, BuildAt, DbTypeOK
  <2>2. /\ build'[b] = [at |-> "open", of |-> build[b].of]
        /\ \A c \in Builder \ {b} :
             \/ build'[c] = build[c] /\ build[c].at \notin {"create", "insert"}
             \/ build'[c] = [build[c] EXCEPT !.named = FALSE] /\ build[c].at \in {"create", "insert"}
        /\ DOMAIN build' = Builder
    BY <1>2 DEF Unlink, BuildAt
  <2>3. build[b].of \in 1..MaxBuilds
    BY <2>1 DEF Build
  <2>4. \A c \in Builder \ {b} :
          /\ build'[c] \in Build /\ build'[c].at = build[c].at
          /\ build[c].at # "idle" => build'[c].of = build[c].of
          /\ ~(build'[c].at = "insert" /\ build'[c].named)
    <3> SUFFICES ASSUME NEW c \in Builder \ {b}
                 PROVE  /\ build'[c] \in Build /\ build'[c].at = build[c].at
                        /\ build[c].at # "idle" => build'[c].of = build[c].of
                        /\ ~(build'[c].at = "insert" /\ build'[c].named)
      OBVIOUS
    <3>1. build[c] \in Build
      BY <2>1
    <3>2. CASE build[c].at \notin {"create", "insert"}
      BY <2>2, <3>1, <3>2
    <3>3. CASE build[c].at = "create"
      <4>1. build[c] \in [at : {"create"}, of : 1..MaxBuilds, named : BOOLEAN]
        BY <3>1, <3>3 DEF Build
      <4>2. build'[c] = [build[c] EXCEPT !.named = FALSE]
        BY <2>2, <3>3
      <4>3. build'[c] \in [at : {"create"}, of : 1..MaxBuilds, named : BOOLEAN]
        BY <4>1, <4>2
      <4> QED
        BY <4>1, <4>2, <4>3 DEF Build
    <3>4. CASE build[c].at = "insert"
      <4>1. build[c] \in [at : {"insert"}, of : 1..MaxBuilds, named : BOOLEAN, next : 1..Records + 1]
        BY <3>1, <3>4 DEF Build
      <4>2. build'[c] = [build[c] EXCEPT !.named = FALSE]
        BY <2>2, <3>4
      <4>3. build'[c] \in [at : {"insert"}, of : 1..MaxBuilds, named : BOOLEAN, next : 1..Records + 1]
        BY <4>1, <4>2
      <4> QED
        BY <4>1, <4>2, <4>3 DEF Build
    <3> QED
      BY <3>2, <3>3, <3>4
  <2>5. build' \in [Builder -> Build]
    <3>1. build' = [c \in Builder |-> build'[c]]
      BY <1>2 DEF Unlink
    <3> QED
      BY <3>1, <2>2, <2>3, <2>4 DEF Build
  <2>6. DbTypeOK'
    BY <1>0, <2>1, <2>3, <2>5 DEF DbTypeOK
  <2>7. Numbered'
    BY <1>0, <2>1, <2>2, <2>4 DEF Numbered
  <2>8. OneInserts'
    BY <2>2, <2>4 DEF OneInserts, Inserts
  <2>9. OneBuilds'
    BY <1>0, <2>1, <2>2, <2>4 DEF OneBuilds, Opened
  <2>10. IndexIsOneBuild'
    BY <2>1 DEF IndexIsOneBuild, Accepts, NoIndex
  <2> QED
    BY <2>6, <2>7, <2>8, <2>9, <2>10 DEF DbInv
<1>3. ASSUME NEW b \in Builder, OpenDb(b) PROVE DbInv'
  <2>1. /\ build[b].at = "open" /\ UNCHANGED <<builds, last, overlapped>>
        /\ index' = IF index = NoIndex THEN [is |-> "empty"] ELSE index
        /\ build' = [build EXCEPT ![b] = [at |-> "create", of |-> build[b].of, named |-> TRUE]]
        /\ build \in [Builder -> Build]
    BY <1>0, <1>3 DEF OpenDb, BuildAt, BuildTo, DbTypeOK
  <2>2. /\ build'[b] = [at |-> "create", of |-> build[b].of, named |-> TRUE]
        /\ \A c \in Builder \ {b} : build'[c] = build[c]
    BY <2>1
  <2>3. build[b].of \in 1..MaxBuilds
    BY <2>1 DEF Build
  <2>4. build' \in [Builder -> Build]
    BY <2>1, <2>3 DEF Build
  <2>5. DbTypeOK'
    BY <1>0, <2>1, <2>4 DEF DbTypeOK
  <2>6. Numbered'
    BY <1>0, <2>1, <2>2 DEF Numbered
  <2>7. OneInserts'
    <3>1. NoIndex.is # "tables"
      BY DEF NoIndex
    <3>2. ASSUME NEW c \in Builder, Inserts(c)'
          PROVE  c # b /\ Inserts(c) /\ index' = index /\ index = [is |-> "tables", rows |-> {}]
      <4>1. c # b /\ Inserts(c)
        BY <2>2, <3>2 DEF Inserts
      <4>2. index = [is |-> "tables", rows |-> {}]
        BY <1>0, <4>1 DEF OneInserts
      <4> QED
        BY <2>1, <3>1, <4>1, <4>2
    <3> QED
      BY <1>0, <3>2 DEF OneInserts
  <2>8. OneBuilds'
    BY <1>0, <2>1, <2>2 DEF OneBuilds, Opened
  <2>9. IndexIsOneBuild'
    BY <1>0, <2>1 DEF IndexIsOneBuild, Accepts
  <2> QED
    BY <2>5, <2>6, <2>7, <2>8, <2>9 DEF DbInv
<1>4. ASSUME NEW b \in Builder, CreateTables(b) PROVE DbInv'
  <2>1. /\ build[b].at = "create" /\ index.is = "empty" /\ UNCHANGED <<builds, last, overlapped>>
        /\ index' = [is |-> "tables", rows |-> {}]
        /\ build' = [build EXCEPT ![b] =
                       [at |-> "insert", of |-> build[b].of, named |-> TRUE, next |-> 1]]
        /\ build \in [Builder -> Build]
    BY <1>0, <1>4 DEF CreateTables, BuildAt, BuildTo, DbTypeOK
  <2>2. /\ build'[b] = [at |-> "insert", of |-> build[b].of, named |-> TRUE, next |-> 1]
        /\ \A c \in Builder \ {b} : build'[c] = build[c]
    BY <2>1
  <2>3. build[b].of \in 1..MaxBuilds /\ 1 \in 1..Records + 1
    BY <2>1, ProjectionAssumption DEF Build
  <2>4. build' \in [Builder -> Build]
    BY <2>1, <2>3 DEF Build
  <2>5. DbTypeOK'
    BY <1>0, <2>1, <2>4 DEF DbTypeOK
  <2>6. Numbered'
    BY <1>0, <2>1, <2>2 DEF Numbered
  <2>7. OneInserts'
    BY <1>0, <2>1, <2>2 DEF OneInserts, Inserts
  <2>8. OneBuilds'
    BY <1>0, <2>1, <2>2 DEF OneBuilds, Opened
  <2>9. IndexIsOneBuild'
    BY <2>1 DEF IndexIsOneBuild, Accepts
  <2> QED
    BY <2>5, <2>6, <2>7, <2>8, <2>9 DEF DbInv
<1>5. ASSUME NEW b \in Builder, Insert(b) PROVE DbInv'
  <2>1. /\ build[b].at = "insert" /\ build[b].next <= Records
        /\ BuildTo(b, [build[b] EXCEPT !.next = @ + 1])
        /\ UNCHANGED <<index, builds, last, overlapped>> /\ build[b] \in Build
    BY <1>0, <1>5 DEF Insert, BuildAt, DbTypeOK
  <2>2. build[b].next \in 1..Records + 1 /\ Records \in Nat
    BY <2>1, ProjectionAssumption DEF Build
  <2>3. build[b].next + 1 \in 1..Records + 1
    BY <2>1, <2>2
  <2>4. /\ [build[b] EXCEPT !.next = @ + 1] \in Build
        /\ [build[b] EXCEPT !.next = @ + 1].at = "insert"
        /\ [build[b] EXCEPT !.next = @ + 1].of = build[b].of
        /\ [build[b] EXCEPT !.next = @ + 1].named = build[b].named
    BY <2>1, <2>3 DEF Build
  <2> QED
    BY <2>1, <2>4, BuildMoves DEF Opened
<1>6. ASSUME NEW b \in Builder, BuildEnds(b) PROVE DbInv'
  BY <1>6, BuildMoves DEF BuildEnds, BuildAt, NoBuild, Build
<1>7. ASSUME NEW b \in Builder, Commit(b) PROVE DbInv'
  <2>1. /\ build[b].at = "insert" /\ BuildTo(b, NoBuild) /\ UNCHANGED <<builds, last, overlapped>>
        /\ index' = IF ~build[b].named THEN index
                    ELSE [index EXCEPT !.rows = @ \cup ({build[b].of} \X (1..Records))]
        /\ build \in [Builder -> Build]
    BY <1>0, <1>7 DEF Commit, BuildAt, DbTypeOK
  <2>2. CASE ~build[b].named
    BY <2>1, <2>2, BuildMoves DEF NoBuild, Build
  <2>3. CASE build[b].named
    <3>1. /\ build'[b] = NoBuild /\ \A c \in Builder \ {b} : build'[c] = build[c]
          /\ build' \in [Builder -> Build]
      BY <2>1 DEF BuildTo, NoBuild, Build
    <3>2. index = [is |-> "tables", rows |-> {}]
      BY <1>0, <2>1, <2>3 DEF OneInserts, Inserts
    <3>3. index' = [is |-> "tables", rows |-> {build[b].of} \X (1..Records)]
      BY <2>1, <2>3, <3>2
    <3>4. build[b].of \in 1..builds /\ build[b].of \in 1..MaxBuilds
      BY <1>0, <2>1 DEF Numbered, Build
    <3>5. {build[b].of} \X (1..Records) \in SUBSET Rows
      BY <3>4 DEF Rows
    <3>6. DbTypeOK'
      BY <1>0, <2>1, <3>1, <3>3, <3>5 DEF DbTypeOK
    <3>7. Numbered'
      BY <1>0, <2>1, <3>1 DEF Numbered, NoBuild
    <3>8. OneInserts'
      BY <1>0, <2>1, <2>3, <3>1 DEF OneInserts, Inserts, NoBuild
    <3>9. OneBuilds'
      BY <1>0, <2>1, <3>1 DEF OneBuilds, Opened, NoBuild
    <3>10. ~overlapped => build[b].of = last
      BY <1>0, <2>1 DEF OneBuilds, Opened
    <3>11. IndexIsOneBuild'
      BY <2>1, <3>3, <3>4, <3>10 DEF IndexIsOneBuild, Accepts
    <3> QED
      BY <3>6, <3>7, <3>8, <3>9, <3>11 DEF DbInv
  <2> QED
    BY <2>2, <2>3
<1>8. CASE UNCHANGED dbVars
  BY <1>0, <1>8 DEF dbVars, DbInv, DbTypeOK, Numbered, OneInserts, Inserts, OneBuilds, IndexIsOneBuild,
     Accepts
<1> QED
  BY <1>1, <1>2, <1>3, <1>4, <1>5, <1>6, <1>7, <1>8 DEF DbNext

\* However many processes rebuild the index, and wherever one raises or dies: what it holds is
\* all of one build, which is the last if no two overlapped.
THEOREM IndexIsWhole == DbSpec => []IndexIsOneBuild
<1>1. DbInv => IndexIsOneBuild
  BY DEF DbInv
<1> QED
  BY <1>1, DbInitially, DbStep, PTL DEF DbSpec

(***************************************************************************)
(* The clone of the rules                                                  *)
(***************************************************************************)

Pinned == [f \in PackFile |-> "pin"]

\* What a scan has verified still is so, unless somebody wrote or edited the clone meanwhile.
Verified == ~crowded /\ ~touched => \A s \in Scanner :
  /\ scan[s].at = "status" => pack.head = "pin"
  /\ scan[s].at \in {"list", "run"} => pack.file = Pinned
  /\ scan[s].at = "run" => scan[s].files = PackFile
  /\ scan[s].at = "done" => scan[s].used = Pinned

PackTyped == pack \in Pack /\ DOMAIN scan = Scanner /\ crowded \in BOOLEAN /\ touched \in BOOLEAN

PackInv == PackTyped /\ Verified

LEMMA PackInitially == PackInit => PackInv
<1> SUFFICES ASSUME PackInit PROVE PackInv
  OBVIOUS
<1>1. pack \in Pack
  BY DEF PackInit, Pack, NoPack, PackFile, Content
<1>2. DOMAIN scan = Scanner /\ \A s \in Scanner : scan[s].at = "idle"
  BY DEF PackInit, NoScan
<1> QED
  BY <1>1, <1>2 DEF PackInit, PackInv, PackTyped, Verified

\* A step of one scan that only looks, or ends it.
LEMMA LooksOn ==
  ASSUME PackInv, NEW s \in Scanner, NEW st, ScanTo(s, st), UNCHANGED <<pack, crowded, touched>>,
         ~crowded /\ ~touched =>
           /\ st.at = "status" => pack.head = "pin"
           /\ st.at \in {"list", "run"} => pack.file = Pinned
           /\ st.at = "run" => st.files = PackFile
           /\ st.at = "done" => st.used = Pinned
  PROVE  PackInv'
<1>1. scan' = [scan EXCEPT ![s] = st] /\ DOMAIN scan = Scanner
  BY DEF ScanTo, PackInv, PackTyped
<1>2. DOMAIN scan' = Scanner /\ scan'[s] = st /\ \A t \in Scanner \ {s} : scan'[t] = scan[t]
  BY <1>1
<1>3. PackTyped'
  BY <1>2 DEF PackInv, PackTyped
<1>4. ASSUME ~crowded', ~touched', NEW t \in Scanner
      PROVE  /\ scan'[t].at = "status" => pack'.head = "pin"
             /\ scan'[t].at \in {"list", "run"} => pack'.file = Pinned
             /\ scan'[t].at = "run" => scan'[t].files = PackFile
             /\ scan'[t].at = "done" => scan'[t].used = Pinned
  <2>1. ~crowded /\ ~touched
    BY <1>4
  <2>2. CASE t = s
    BY <1>2, <2>1, <2>2
  <2>3. CASE t # s
    BY <1>2, <2>1, <2>3 DEF PackInv, Verified
  <2> QED
    BY <2>2, <2>3
<1> QED
  BY <1>3, <1>4 DEF PackInv, Verified

\* A step that writes the clone: as long as the clone is not crowded no other scan has
\* verified it, and this one is about to.
LEMMA WritesAlone ==
  ASSUME PackInv, NEW s \in Scanner, NEW from, NEW st, Writes(s, from, st), pack' \in Pack,
         st.at \notin {"status", "list", "run", "done"}
  PROVE  PackInv'
<1>1. /\ scan' = [scan EXCEPT ![s] = st] /\ DOMAIN scan = Scanner /\ touched' = touched
      /\ crowded' = (crowded \/ \E t \in Scanner \ {s} : scan[t].at # "idle")
  BY DEF Writes, Step, ScanTo, ScanAt, PackInv, PackTyped
<1>2. DOMAIN scan' = Scanner /\ scan'[s] = st /\ \A t \in Scanner \ {s} : scan'[t] = scan[t]
  BY <1>1
<1>3. ~crowded' => \A t \in Scanner \ {s} : scan[t].at = "idle"
  BY <1>1
<1>4. PackTyped'
  BY <1>1, <1>2 DEF PackInv, PackTyped
<1> QED
  BY <1>2, <1>3, <1>4 DEF PackInv, Verified

LEMMA PutTyped ==
  ASSUME pack \in Pack, NEW f, NEW c \in Content, Put(f, c)
  PROVE  /\ pack' \in Pack /\ pack'.head = pack.head
BY DEF Put, Pack

LEMMA PackStep == PackInv /\ [PackNext]_packVars => PackInv'
<1> SUFFICES ASSUME PackInv, [PackNext]_packVars PROVE PackInv'
  OBVIOUS
<1>0. PackTyped /\ Verified /\ pack \in Pack
  BY DEF PackInv, PackTyped
<1>1. ASSUME NEW s \in Scanner, BeginScan(s) PROVE PackInv'
  BY <1>1, LooksOn DEF BeginScan
<1>2. ASSUME NEW s \in Scanner, LookForPack(s) PROVE PackInv'
  BY <1>2, LooksOn DEF LookForPack, Reads, Step
<1>3. ASSUME NEW s \in Scanner, CheckHead(s) PROVE PackInv'
  BY <1>3, LooksOn DEF CheckHead, Reads, Step, Distrust, NoScan
<1>4. ASSUME NEW s \in Scanner, CheckStatus(s) PROVE PackInv'
  <2>1. /\ scan[s].at = "status" /\ UNCHANGED <<pack, crowded, touched>>
        /\ ScanTo(s, IF \A f \in PackFile : pack.file[f] = pack.head THEN [at |-> "list"]
                                                                     ELSE Distrust(s))
    BY <1>4 DEF CheckStatus, Reads, Step, ScanAt
  <2>2. CASE \A f \in PackFile : pack.file[f] = pack.head
    <3>1. ~crowded /\ ~touched => pack.file = Pinned
      BY <1>0, <2>1, <2>2 DEF Verified, Pack, Pinned
    <3> QED
      BY <2>1, <2>2, <3>1, LooksOn
  <2>3. CASE ~(\A f \in PackFile : pack.file[f] = pack.head)
    BY <2>1, <2>3, LooksOn DEF Distrust, NoScan
  <2> QED
    BY <2>2, <2>3
<1>5. ASSUME NEW s \in Scanner, ListRules(s) PROVE PackInv'
  <2> DEFINE listed == {f \in PackFile : pack.file[f] # "gone"}
  <2>1. /\ scan[s].at = "list" /\ UNCHANGED <<pack, crowded, touched>>
        /\ ScanTo(s, IF listed = {} THEN NoScan ELSE [at |-> "run", files |-> listed])
    BY <1>5 DEF ListRules, Reads, Step, ScanAt
  <2>2. ~crowded /\ ~touched => pack.file = Pinned /\ listed = PackFile
    BY <1>0, <2>1 DEF Verified, Pinned
  <2> QED
    BY <2>1, <2>2, LooksOn DEF NoScan
<1>6. ASSUME NEW s \in Scanner, RunRules(s) PROVE PackInv'
  <2> DEFINE used == [f \in PackFile |-> IF f \in scan[s].files THEN pack.file[f] ELSE "gone"]
  <2>1. /\ scan[s].at = "run" /\ UNCHANGED <<pack, crowded, touched>>
        /\ ScanTo(s, IF \E f \in scan[s].files : used[f] = "gone" THEN NoScan
                     ELSE [at |-> "done", used |-> used])
    BY <1>6 DEF RunRules, Reads, Step, ScanAt
  <2>2. ~crowded /\ ~touched => used = Pinned
    BY <1>0, <2>1 DEF Verified, Pinned
  <2> QED
    BY <2>1, <2>2, LooksOn DEF NoScan
<1>7. ASSUME NEW s \in Scanner, EndScan(s) PROVE PackInv'
  BY <1>7, LooksOn DEF EndScan, NoScan
<1>8. ASSUME NEW s \in Scanner, Remove(s) PROVE PackInv'
  <2>1. Writes(s, "remove", scan[s]) /\ scan[s].at = "remove"
    BY <1>8 DEF Remove, Writes, Step, ScanAt
  <2>2. pack' \in Pack
    BY <1>0, <1>8, PutTyped DEF Remove, Pack, Content
  <2> QED
    BY <2>1, <2>2, WritesAlone
<1>9. ASSUME NEW s \in Scanner, Removed(s) \/ MakePack(s) \/ MoveHead(s) \/ GitFails(s)
      PROVE  PackInv'
  <2>1. NoPack \in Pack /\ [NoPack EXCEPT !.there = TRUE, !.head = "tip"] \in Pack
        /\ [pack EXCEPT !.head = "pin"] \in Pack
    BY <1>0 DEF NoPack, Pack, Content
  <2>2. pack' \in Pack
    BY <1>0, <1>9, <2>1 DEF Removed, MakePack, MoveHead, GitFails
  <2>3. \E from : \E st \in {[at |-> "make"], [at |-> "clone", next |-> 1],
                             [at |-> "head", fresh |-> TRUE], NoScan} : Writes(s, from, st)
    BY <1>9 DEF Removed, MakePack, MoveHead, GitFails
  <2> QED
    BY <2>2, <2>3, WritesAlone DEF NoScan
<1>10. ASSUME NEW s \in Scanner, CloneFile(s) \/ CheckoutFile(s)
       PROVE  PackInv'
  <2>1. pack' \in Pack
    BY <1>0, <1>10, PutTyped DEF CloneFile, CheckoutFile, Content
  <2>2. \E from : \E st \in {[at |-> "checkout", next |-> 1], [at |-> "clone", next |-> 2],
                             [at |-> "move head"], [at |-> "checkout", next |-> 2]} :
          Writes(s, from, st)
    BY <1>10 DEF CloneFile, CheckoutFile
  <2> QED
    BY <2>1, <2>2, WritesAlone
<1>11. CASE Edit
  <2>1. PICK f \in PackFile, c \in {"gone", "edited"} : Put(f, c)
    BY <1>11 DEF Edit
  <2>2. /\ touched' = (touched \/ \E s \in Scanner : scan[s].at \in {"list", "run"})
        /\ UNCHANGED <<scan, crowded>>
    BY <1>11 DEF Edit
  <2>3. pack' \in Pack /\ pack'.head = pack.head
    BY <1>0, <2>1, PutTyped DEF Content
  <2>4. PackTyped'
    BY <1>0, <2>2, <2>3 DEF PackTyped
  <2>5. ~touched' => ~touched /\ \A s \in Scanner : scan[s].at \notin {"list", "run"}
    BY <2>2
  <2> QED
    BY <1>0, <2>2, <2>3, <2>4, <2>5 DEF PackInv, Verified
<1>12. CASE UNCHANGED packVars
  BY <1>0, <1>12 DEF packVars, PackInv, PackTyped, Verified
<1> QED
  BY <1>1, <1>2, <1>3, <1>4, <1>5, <1>6, <1>7, <1>8, <1>9, <1>10, <1>11, <1>12 DEF PackNext

\* However many scans share the clone and whatever died in it before: a report that says the
\* pinned commit comes from all its rules and no others, unless somebody wrote or edited the
\* clone while a scan was under way.
THEOREM PinIsUsed == PackSpec => []ReportedPinWasUsed
<1>1. PackInv => ReportedPinWasUsed
  BY DEF PackInv, Verified, ReportedPinWasUsed, ScanAt, Pinned
<1> QED
  BY <1>1, PackInitially, PackStep, PTL DEF PackSpec

\* What a point of a scan has with it.
LEMMA ScanHas ==
  ASSUME NEW st \in ScanState
  PROVE  /\ st.at \in {"head", "status"} => st.fresh \in BOOLEAN
         /\ st.at \in {"clone", "checkout"} => st.next \in PackFile
BY DEF ScanState

\* The points of a scan that the steps go to.
LEMMA PointsOf ==
  /\ NoScan \in ScanState /\ \A at \in {"look", "remove", "make", "move head", "list"} : [at |-> at] \in ScanState
  /\ \A fresh \in BOOLEAN : [at |-> "head", fresh |-> fresh] \in ScanState
                            /\ [at |-> "status", fresh |-> fresh] \in ScanState
  /\ \A n \in PackFile : [at |-> "clone", next |-> n] \in ScanState
                         /\ [at |-> "checkout", next |-> n] \in ScanState
  /\ \A fs \in SUBSET PackFile : [at |-> "run", files |-> fs] \in ScanState
  /\ \A u \in [PackFile -> Content] : [at |-> "done", used |-> u] \in ScanState
BY DEF ScanState, NoScan

\* A scan goes from one point to another.
LEMMA PointsKept ==
  ASSUME PackTypeOK, PackInv, [PackNext]_packVars
  PROVE  scan' \in [Scanner -> ScanState]
<1>0. scan \in [Scanner -> ScanState] /\ pack \in Pack /\ 1 \in PackFile /\ 2 \in PackFile
  BY DEF PackTypeOK, PackFile
<1>1. ASSUME NEW s \in Scanner, NEW st \in ScanState, ScanTo(s, st) PROVE scan' \in [Scanner -> ScanState]
  BY <1>0, <1>1 DEF ScanTo
<1>2. ASSUME NEW s \in Scanner, scan[s].at \in {"head", "status"} PROVE Distrust(s) \in ScanState
  BY PointsOf DEF Distrust
<1>3. ASSUME NEW s \in Scanner, BeginScan(s) \/ LookForPack(s) \/ EndScan(s)
      PROVE  scan' \in [Scanner -> ScanState]
  BY <1>1, <1>3, PointsOf DEF BeginScan, LookForPack, EndScan, Reads, Step
<1>4. ASSUME NEW s \in Scanner, CheckHead(s) \/ CheckStatus(s) PROVE scan' \in [Scanner -> ScanState]
  <2>1. scan[s].at \in {"head", "status"} /\ scan[s].fresh \in BOOLEAN
    BY <1>0, <1>4, ScanHas DEF CheckHead, CheckStatus, Reads, Step, ScanAt
  <2>2. \E st \in {[at |-> "status", fresh |-> scan[s].fresh], [at |-> "list"], Distrust(s)} : ScanTo(s, st)
    BY <1>4 DEF CheckHead, CheckStatus, Reads, Step
  <2> QED
    BY <1>1, <1>2, <2>1, <2>2, PointsOf
<1>5. ASSUME NEW s \in Scanner, Remove(s) PROVE scan' \in [Scanner -> ScanState]
  BY <1>0, <1>1, <1>5 DEF Remove, Writes, Step
<1>6. ASSUME NEW s \in Scanner, Removed(s) \/ MakePack(s) \/ MoveHead(s) \/ GitFails(s)
      PROVE  scan' \in [Scanner -> ScanState]
  <2>1. \E st \in {[at |-> "make"], [at |-> "clone", next |-> 1], [at |-> "head", fresh |-> TRUE], NoScan} :
          ScanTo(s, st)
    BY <1>6 DEF Removed, MakePack, MoveHead, GitFails, Writes, Step
  <2> QED
    BY <1>0, <1>1, <2>1, PointsOf
<1>7. ASSUME NEW s \in Scanner, CloneFile(s) \/ CheckoutFile(s) PROVE scan' \in [Scanner -> ScanState]
  <2>1. \E st \in {[at |-> "checkout", next |-> 1], [at |-> "clone", next |-> 2],
                   [at |-> "move head"], [at |-> "checkout", next |-> 2]} : ScanTo(s, st)
    BY <1>7 DEF CloneFile, CheckoutFile, Writes, Step
  <2> QED
    BY <1>0, <1>1, <2>1, PointsOf
<1>8. ASSUME NEW s \in Scanner, ListRules(s) PROVE scan' \in [Scanner -> ScanState]
  <2> DEFINE listed == {f \in PackFile : pack.file[f] # "gone"}
  <2>1. ScanTo(s, IF listed = {} THEN NoScan ELSE [at |-> "run", files |-> listed])
    BY <1>8 DEF ListRules, Reads, Step
  <2>2. listed \in SUBSET PackFile
    OBVIOUS
  <2> HIDE DEF listed
  <2> QED
    BY <1>1, <2>1, <2>2, PointsOf
<1>9. ASSUME NEW s \in Scanner, RunRules(s) PROVE scan' \in [Scanner -> ScanState]
  <2> DEFINE used == [f \in PackFile |-> IF f \in scan[s].files THEN pack.file[f] ELSE "gone"]
  <2>1. \E st \in {NoScan, [at |-> "done", used |-> used]} : ScanTo(s, st)
    BY <1>9 DEF RunRules, Reads, Step
  <2>2. used \in [PackFile -> Content]
    BY <1>0 DEF Pack, Content
  <2> HIDE DEF used
  <2> QED
    BY <1>1, <2>1, <2>2, PointsOf
<1>10. CASE Edit \/ UNCHANGED packVars
  BY <1>0, <1>10 DEF Edit, packVars
<1> QED
  BY <1>3, <1>4, <1>5, <1>6, <1>7, <1>8, <1>9, <1>10 DEF PackNext

LEMMA PackTypesKept == PackTypeOK /\ PackInv /\ [PackNext]_packVars => PackTypeOK'
<1> SUFFICES ASSUME PackTypeOK, PackInv, [PackNext]_packVars PROVE PackTypeOK'
  OBVIOUS
<1>1. pack' \in Pack /\ crowded' \in BOOLEAN /\ touched' \in BOOLEAN
  BY PackStep DEF PackInv, PackTyped
<1>2. scans' = scans \/ (scans < MaxScans /\ scans' = scans + 1)
  <2>1. ASSUME NEW s \in Scanner, BeginScan(s) PROVE scans < MaxScans /\ scans' = scans + 1
    BY <2>1 DEF BeginScan
  <2>2. ASSUME NEW s \in Scanner, EndScan(s) PROVE scans' = scans
    BY <2>2 DEF EndScan
  <2>3. ASSUME NEW s \in Scanner, LookForPack(s) \/ CheckHead(s) \/ CheckStatus(s) \/ ListRules(s) \/ RunRules(s)
        PROVE  scans' = scans
    BY <2>3 DEF LookForPack, CheckHead, CheckStatus, ListRules, RunRules, Reads, Step
  <2>4. ASSUME NEW s \in Scanner, Remove(s) \/ Removed(s) \/ MakePack(s) \/ CloneFile(s) \/ CheckoutFile(s)
                                \/ MoveHead(s) \/ GitFails(s)
        PROVE  scans' = scans
    BY <2>4 DEF Remove, Removed, MakePack, CloneFile, CheckoutFile, MoveHead, GitFails, Writes, Step
  <2>5. CASE Edit \/ UNCHANGED packVars
    BY <2>5 DEF Edit, packVars
  <2> QED
    BY <2>1, <2>2, <2>3, <2>4, <2>5 DEF PackNext
<1>3. scans' \in 0..MaxScans
  BY <1>2, RuleAssumption DEF PackTypeOK
<1> QED
  BY <1>1, <1>3, PointsKept DEF PackTypeOK

LEMMA PackTypesInitially == PackInit => PackTypeOK
<1> SUFFICES ASSUME PackInit PROVE PackTypeOK
  OBVIOUS
<1>1. pack \in Pack
  BY PackInitially DEF PackInv, PackTyped
<1>2. scan = [s \in Scanner |-> NoScan] /\ scans = 0 /\ crowded = FALSE /\ touched = FALSE
  BY DEF PackInit
<1>3. scan \in [Scanner -> ScanState]
  BY <1>2, PointsOf
<1>4. scans \in 0..MaxScans
  BY <1>2, RuleAssumption
<1> QED
  BY <1>1, <1>2, <1>3, <1>4 DEF PackTypeOK

(***************************************************************************)
(* Of all five together                                                    *)
(***************************************************************************)

\* A step of the composition is one of a part, and leaves the others alone.
LEMMA PartSteps ==
  [Next]_vars =>
    /\ [JournalNext]_journalVars /\ [CacheNext]_cacheVars /\ [SweepNext]_sweepVars
    /\ [DbNext]_dbVars /\ [PackNext]_packVars
BY DEF Next, vars

\* The composition implements its parts.
LEMMA PartsBehave == Spec => JournalSpec /\ CacheSpec /\ SweepSpec /\ DbSpec /\ PackSpec
<1>1. Init => JournalInit /\ CacheInit /\ SweepInit /\ DbInit /\ PackInit
  BY DEF Init
<1> QED
  BY <1>1, PartSteps, PTL DEF Spec, JournalSpec, CacheSpec, SweepSpec, DbSpec, PackSpec

\* In every behaviour of the composition every variable of the five parts stays in its type.
THEOREM SharedFilesTyped == Spec => []SharedFilesTypeOK
<1>1. DbInv => DbTypeOK
  BY DEF DbInv
<1>2. DbSpec => []DbTypeOK
  BY <1>1, DbInitially, DbStep, PTL DEF DbSpec
<1>3. PackSpec => []PackTypeOK
  BY PackInitially, PackStep, PackTypesInitially, PackTypesKept, PTL DEF PackSpec
<1>4. JournalTypeOK /\ CacheTypeOK /\ SweepTypeOK /\ DbTypeOK /\ PackTypeOK => SharedFilesTypeOK
  BY DEF SharedFilesTypeOK
<1> QED
  BY <1>2, <1>3, <1>4, PartsBehave, JournalTyped, CacheTyped, SweepTyped, PTL

\* What is proved of each part holds of the composition, as the run of it checks.
THEOREM SharedFilesHold ==
  Spec => /\ [](SerialVerifies /\ TearCostsOne /\ NoIdleRow)
          /\ [](AloneIsComplete /\ SettledIsTrue)
          /\ [](ResultsAreWhole /\ SweptByAnAuthoredRule /\ ReportStaysTrue)
          /\ [](IndexIsOneBuild /\ ReportedPinWasUsed)
BY PartsBehave, SerialChain, TornWritesCost, NothingRepeated, AloneSeesComplete, SettledTells,
   ScannedWhole, NeverSweptASkeleton, ReportKeepsItsWord, IndexIsWhole, PinIsUsed, PTL

=============================================================================
