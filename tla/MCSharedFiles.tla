--------------------------- MODULE MCSharedFiles ---------------------------
(***************************************************************************)
(* The files that processes of the engine share without a lock: the        *)
(* journal of metrics, the cache of remote objects, the files of a sweep,  *)
(* the projection of the corpus, the clones of rule packs.  They do not    *)
(* touch each other, so a behaviour is one of any of them.                 *)
(***************************************************************************)
EXTENDS MetricsJournal, RemoteCache, SweepEngine, FindingsDb, RuleCache, TLC

CONSTANT Other
\* The runs of one dashboard, and one of another.
MCSourceOf == [d \in Dashboard |-> d = Other]

VARIABLE system

vars == <<journalVars, cacheVars, sweepVars, dbVars, packVars, system>>

Init ==
  /\ system \in {"journal", "cache", "sweep", "projection", "rules"}
  /\ JournalInit /\ CacheInit /\ SweepInit /\ DbInit /\ PackInit
Next == UNCHANGED system /\
  \/ system = "journal" /\ JournalNext /\ UNCHANGED <<cacheVars, sweepVars, dbVars, packVars>>
  \/ system = "cache" /\ CacheNext /\ UNCHANGED <<journalVars, sweepVars, dbVars, packVars>>
  \/ system = "sweep" /\ SweepNext /\ UNCHANGED <<journalVars, cacheVars, dbVars, packVars>>
  \/ system = "projection" /\ DbNext /\ UNCHANGED <<journalVars, cacheVars, sweepVars, packVars>>
  \/ system = "rules" /\ PackNext /\ UNCHANGED <<journalVars, cacheVars, sweepVars, dbVars>>
Spec == Init /\ [][Next]_vars

\* The type invariants of the five.
SharedFilesTypeOK == JournalTypeOK /\ CacheTypeOK /\ SweepTypeOK /\ DbTypeOK /\ PackTypeOK

Symmetry == Permutations(Dashboard \ {Other}) \cup Permutations(Metrics)
              \cup Permutations(Fetcher) \cup Permutations(Sweeper)

=============================================================================
