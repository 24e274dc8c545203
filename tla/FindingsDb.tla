---------------------------- MODULE FindingsDb ----------------------------
(***************************************************************************)
(* The projection of the corpus (corpus/findings_db.py, build) and those   *)
(* who read their population from it (corpus/report_store.py).  A build    *)
(* resolves the corpus, removes the file, and fills a new one of the same  *)
(* name.  CREATE TABLE takes effect at once; the rows of every record and  *)
(* the meta table are one transaction.                                     *)
(*                                                                         *)
(* Builds are numbered in the order they resolve; a row is the build it is *)
(* of and a record.  SQLite refuses to write a file that is not any longer *)
(* under its name, unless the transaction has begun: then it commits, into *)
(* a file nobody finds.  (A transaction larger than SQLite's page cache    *)
(* locks readers out while it runs, who then walk the tree; that answer is *)
(* the better one and not modelled.)                                       *)
(***************************************************************************)
EXTENDS Integers

CONSTANTS Builder,     \* processes that build
          Records,     \* how many records the corpus has
          MaxBuilds    \* bound: calls of build

ASSUME ProjectionAssumption == Records \in Nat \ {0} /\ MaxBuilds \in Nat

VARIABLES index,       \* the file of that name
          build,       \* what each process is doing
          builds,      \* calls of build so far
          last,        \* history: the last build to reach its unlink
          overlapped   \* history: two builds overlapped

dbVars == <<index, build, builds, last, overlapped>>

NoIndex == [is |-> "absent"]
Rows    == (1..MaxBuilds) \X (1..Records)
NoBuild == [at |-> "idle"]
Build   == [at : {"idle"}]
             \cup [at : {"unlink", "open"}, of : 1..MaxBuilds]
             \cup [at : {"create"}, of : 1..MaxBuilds, named : BOOLEAN]
             \cup [at : {"insert"}, of : 1..MaxBuilds, named : BOOLEAN, next : 1..Records + 1]

DbInit ==
  /\ index = NoIndex /\ build = [b \in Builder |-> NoBuild]
  /\ builds = 0 /\ last = 0 /\ overlapped = FALSE

-----------------------------------------------------------------------------

BuildAt(b, point) == build[b].at = point
BuildTo(b, state) == build' = [build EXCEPT ![b] = state]

\* corpus.resolve
Resolve(b) ==
  /\ BuildAt(b, "idle") /\ builds < MaxBuilds /\ builds' = builds + 1
  /\ BuildTo(b, [at |-> "unlink", of |-> builds + 1])
  /\ overlapped' = (overlapped \/ \E c \in Builder : ~BuildAt(c, "idle"))
  /\ UNCHANGED <<index, last>>

UnlinkNothing(b) == \* Mutation: the file of the build before stays
  /\ BuildAt(b, "unlink") /\ last' = build[b].of
  /\ BuildTo(b, [at |-> "open", of |-> build[b].of])
  /\ UNCHANGED <<index, builds, overlapped>>

\* out.unlink(missing_ok=True): whoever has the file open has it without a name.
Unlink(b) ==
  /\ BuildAt(b, "unlink") /\ index' = NoIndex /\ last' = build[b].of
  /\ build' = [c \in Builder |->
       IF c = b THEN [at |-> "open", of |-> build[b].of]
       ELSE IF BuildAt(c, "create") \/ BuildAt(c, "insert") THEN [build[c] EXCEPT !.named = FALSE]
       ELSE build[c]]
  /\ UNCHANGED <<builds, overlapped>>

\* sqlite3.connect: an empty file, or the one another build has put there meanwhile.
OpenDb(b) ==
  /\ BuildAt(b, "open")
  /\ index' = IF index = NoIndex THEN [is |-> "empty"] ELSE index
  /\ BuildTo(b, [at |-> "create", of |-> build[b].of, named |-> TRUE])
  /\ UNCHANGED <<builds, last, overlapped>>

\* executescript(SCHEMA): every statement commits by itself.
CreateTables(b) ==
  /\ BuildAt(b, "create") /\ build[b].named /\ index.is = "empty"
  /\ index' = [is |-> "tables", rows |-> {}]
  /\ BuildTo(b, [at |-> "insert", of |-> build[b].of, named |-> TRUE, next |-> 1])
  /\ UNCHANGED <<builds, last, overlapped>>

InsertCommits(b) == \* Mutation: a commit after each record
  /\ BuildAt(b, "insert") /\ build[b].next <= Records /\ build[b].named
  /\ index' = [index EXCEPT !.rows = @ \cup {<<build[b].of, build[b].next>>}]
  /\ BuildTo(b, [build[b] EXCEPT !.next = @ + 1])
  /\ UNCHANGED <<builds, last, overlapped>>

\* insert_record; the first one begins the transaction.
Insert(b) ==
  /\ BuildAt(b, "insert") /\ build[b].next <= Records
  /\ build[b].next = 1 => build[b].named
  /\ BuildTo(b, [build[b] EXCEPT !.next = @ + 1])
  /\ UNCHANGED <<index, builds, last, overlapped>>

\* meta, and con.commit()
Commit(b) ==
  /\ BuildAt(b, "insert") /\ build[b].next = Records + 1 /\ BuildTo(b, NoBuild)
  /\ index' = IF ~build[b].named THEN index
              ELSE [index EXCEPT !.rows = @ \cup ({build[b].of} \X (1..Records))]
  /\ UNCHANGED <<builds, last, overlapped>>

\* An exception anywhere (the tables exist, the file has lost its name, a finding has no id),
\* or a death: what was not committed is rolled back.
BuildEnds(b) == ~BuildAt(b, "idle") /\ BuildTo(b, NoBuild) /\ UNCHANGED <<index, builds, last, overlapped>>

DbNext == \E b \in Builder : \/ Resolve(b) \/ Unlink(b) \/ OpenDb(b) \/ CreateTables(b)
                             \/ Insert(b) \/ Commit(b) \/ BuildEnds(b)
DbSpec == DbInit /\ [][DbNext]_dbVars

-----------------------------------------------------------------------------
(* Readers                                                                 *)

WalkedTree == {0} \X (1..Records)

\* load_resolution: the rows of the repos table, and the tree itself where there is none
\* (_records_from_db).
LoadResolution == IF index.is = "tables" THEN index.rows ELSE WalkedTree

\* check_revision: the key is in meta.
Accepts == index.is = "tables" /\ index.rows # {}

-----------------------------------------------------------------------------
(* Properties                                                              *)

\* Every variable stays in its type.
DbTypeOK ==
  /\ index \in {NoIndex, [is |-> "empty"]} \cup [is : {"tables"}, rows : SUBSET Rows]
  /\ build \in [Builder -> Build] /\ builds \in 0..MaxBuilds
  /\ last \in 0..MaxBuilds /\ overlapped \in BOOLEAN

\* Wherever builds overlap, raise or die, an index that has records has all those of one build,
\* never a part of them or some of two; and if no two builds ever overlapped, that build is the
\* last one to have reached its unlink: what a rebuild was to replace is never read again, also
\* when the rebuild failed.
IndexIsOneBuild ==
  Accepts => \E n \in 1..builds :
    index.rows = {n} \X (1..Records) /\ (overlapped \/ n = last)

\* '"no usable index" must mean "walk the tree", never "the corpus is empty"'
\* (_records_from_db): a corpus that has records is never answered to have none.
NeverSaysEmpty == LoadResolution # {}

=============================================================================
