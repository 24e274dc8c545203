------------------------- MODULE MigrationRehearsal -------------------------
(***************************************************************************)
(* The artifact migration (corpus/migration_rehearsal.py with its workers  *)
(* and its target, corpus/migration_database.py): read a tree of JSON      *)
(* sources, validate and bind them, load them into an empty database,      *)
(* reconcile what was loaded, hand the layers to the ledger, and publish a *)
(* verdict, migration_ready, that cutover relies on.                       *)
(*                                                                         *)
(* Several runs may point at one target; each has an output directory of   *)
(* its own.  Meanwhile anybody may edit the sources or the configuration,  *)
(* a call may raise, a write to the output may fail, a process may die.    *)
(*                                                                         *)
(* A source is abstracted to the version of its bytes; what validation,    *)
(* discovery and the database say of it is a choice of the environment.    *)
(***************************************************************************)
EXTENDS Naturals, FiniteSets

CONSTANTS Run,          \* runs of the migration against one target
          NoRun,
          Path,         \* source paths the tree may hold
          Config,       \* the configuration and implementation files that are pinned
          LayerId,
          NoLayer,
          Mode,         \* what the operator starts, a subset of Command
          Dialect,      \* what the target may be, a subset of {"sqlite", "postgres"}
          Faults,       \* a subset of {"edit", "raise", "disk", "crash"}
          MaxVersion    \* bound on the versions of a source

\* preview; rehearse; rehearse with a ledger_target_url
Command == {"plan", "rehearse", "run"}

ASSUME MigrationAssumption ==
  /\ NoRun \notin Run
  /\ Config \notin Path
  /\ NoLayer \notin LayerId
  /\ Mode \subseteq Command
  /\ Dialect \subseteq {"sqlite", "postgres"}
  /\ MaxVersion \in Nat \ {0}

VARIABLES tree,      \* version of every file, 0 when it is absent
          dialect,   \* of the target
          created,   \* the target is no longer empty (SQLite: its file exists)
          sessions,  \* runs holding a connection to the target
          lock,      \* owner of the advisory lock traust:artifact-migration
          rows,      \* artifacts stored in the target: <<run, path, version>>
          layers,    \* layers in the ledger: <<run, path, layer id>>
          mode, pc,
          todo,      \* sources the current loop of the run has still to visit
          states,    \* Rehearsal.states
          sources,   \* Rehearsal.sources and pins: versions seen by the inventory
          routed,    \* artifacts in the namespace traust_ledger
          layerIds,  \* Rehearsal.layer_ids, by source
          expected,  \* Expectations of the target: <<path, version>>
          blocking,  \* the issues counted in blocking_issues
          caught,    \* the except clause of rehearse was entered
          result,    \* Rehearsal.result
          saved,     \* migration-result.json
          issues     \* issues.jsonl

world   == <<tree, dialect, created, sessions, lock, rows, layers>>
plans   == <<mode, sources, routed, layerIds>>
reports == <<blocking, caught, issues>>
vars    == <<world, plans, reports, pc, todo, states, expected, result, saved>>

Source  == Path \cup {Config}
Version == 0..MaxVersion
Issue   == Path \cup {"no_selected_inputs", "systemic_failure", "connection_close_failed"}
State   == {"none", "unselected", "excluded", "pending", "rejected", "unrecognized",
            "blocked", "selected", "delegated", "ingested", "already_bound"}
Clean   == {"none", "unselected", "excluded", "delegated", "ingested", "already_bound"}
Result  == [run_state : {"none", "running", "finished"},
            status : {"blocked", "planned", "passed", "failed"},
            diagnostics_complete : BOOLEAN, passed : BOOLEAN,
            ledger : {"not_run", "passed", "failed"}, migration_ready : BOOLEAN]

NewResult == [run_state |-> "running", status |-> "blocked", diagnostics_complete |-> FALSE,
              passed |-> FALSE, ledger |-> "not_run", migration_ready |-> FALSE]
NoResult  == [NewResult EXCEPT !.run_state = "none"]

\* Program points.  The body of the try is Trying; Ended runs have no more steps.
Trying == {"inventory", "open", "lock", "empty", "bootstrap", "validate", "resolve",
           "preview", "registry", "ingest", "sources", "target", "handover", "ledger",
           "comparison"}
Ended  == {"finished", "aborted", "dead"}
Point  == Trying \cup Ended \cup {"start", "handler", "close", "conclude", "publish"}

Init ==
  /\ tree \in [Source -> {0, 1}] /\ tree[Config] = 1
  /\ dialect \in Dialect
  /\ created = FALSE /\ sessions = {} /\ lock = NoRun /\ rows = {} /\ layers = {}
  /\ mode \in [Run -> Mode]
  /\ pc = [r \in Run |-> "start"]
  /\ todo = [r \in Run |-> {}]
  /\ states = [r \in Run |-> [p \in Path |-> "none"]]
  /\ sources = [r \in Run |-> [x \in Source |-> 0]]
  /\ routed = [r \in Run |-> {}]
  /\ layerIds = [r \in Run |-> [p \in Path |-> NoLayer]]
  /\ expected = [r \in Run |-> {}]
  /\ blocking = [r \in Run |-> {}] /\ issues = [r \in Run |-> {}]
  /\ caught = [r \in Run |-> FALSE]
  /\ result = [r \in Run |-> NewResult] /\ saved = [r \in Run |-> NoResult]

-----------------------------------------------------------------------------
(* Helpers                                                                 *)

Goto(r, to)      == pc' = [pc EXCEPT ![r] = to]
Step(r, at, to)  == pc[r] = at /\ Goto(r, to)
Settle(r, p, s)  == states' = [states EXCEPT ![r] = [@ EXCEPT ![p] = s]]
In(r, s)         == {p \in Path : states[r][p] = s}
Pending(r)       == In(r, "pending")
\* The next source of a loop, and the change of loop.
Visit(r, at, p)  == pc[r] = at /\ p \in todo[r] /\ todo' = [todo EXCEPT ![r] = @ \ {p}]
Loop(r, ps)      == todo' = [todo EXCEPT ![r] = ps]
\* issue(): counted first, then appended to issues.jsonl.
Count(r, i)      == blocking' = [blocking EXCEPT ![r] = @ \cup {i}]
Report(r, i)     == Count(r, i) /\ issues' = [issues EXCEPT ![r] = @ \cup {i}]
Checkpoint(r)    == saved' = [saved EXCEPT ![r] = result'[r]]

PinsHold(r)      == tree[Config] = sources[r][Config]
SourceHolds(r, p) == tree[p] = sources[r][p]
SourcesHold(r)   == \A p \in Path : sources[r][p] # 0 => SourceHolds(r, p)
InventoryHolds(r) == \A p \in Path : (states[r][p] # "none") <=> (tree[p] # 0)

-----------------------------------------------------------------------------
(* inventory                                                               *)

\* Mutation: the walk finds the configuration among the sources.
StartWalksConfig(r) ==
  /\ Step(r, "start", "inventory")
  /\ Loop(r, {x \in Source : tree[x] # 0})
  /\ sources' = [sources EXCEPT ![r][Config] = tree[Config]]
  /\ UNCHANGED <<world, mode, routed, layerIds, reports, states, expected, result, saved>>

\* Rehearsal.__init__ pins the configuration; rehearse saves a first result.
Start(r) ==
  /\ Step(r, "start", "inventory")
  /\ Loop(r, {p \in Path : tree[p] # 0})
  /\ sources' = [sources EXCEPT ![r] = [@ EXCEPT ![Config] = tree[Config]]]
  /\ result' = result
  /\ IF mode[r] # "plan" THEN Checkpoint(r) ELSE UNCHANGED saved
  /\ UNCHANGED <<world, mode, routed, layerIds, reports, states, expected>>

Skip(r, p) ==
  /\ Visit(r, "inventory", p)
  /\ \E s \in {"unselected", "excluded"} : Settle(r, p, s)
  /\ UNCHANGED <<world, plans, reports, pc, expected, result, saved>>

\* Unsafe, a directory alias, unreadable, not JSON, or not a known artifact.
Refuse(r, p) ==
  /\ Visit(r, "inventory", p)
  /\ \/ Settle(r, p, "rejected") /\ UNCHANGED sources
     \/ /\ tree[p] # 0
        /\ \E s \in {"rejected", "unrecognized"} : Settle(r, p, s)
        /\ sources' = [sources EXCEPT ![r] = [@ EXCEPT ![p] = tree[p]]]
  /\ Report(r, p)
  /\ UNCHANGED <<world, mode, routed, layerIds, caught, pc, expected, result, saved>>

Select(r, p) ==
  /\ Visit(r, "inventory", p)
  /\ tree[p] # 0
  /\ Settle(r, p, "pending")
  /\ sources' = [sources EXCEPT ![r] = [@ EXCEPT ![p] = tree[p]]]
  /\ routed' \in {routed, [routed EXCEPT ![r] = @ \cup {p}]}
  /\ UNCHANGED <<world, mode, layerIds, reports, pc, expected, result, saved>>

InventoryDone(r) ==
  /\ pc[r] = "inventory" /\ todo[r] = {}
  /\ IF Pending(r) = {} THEN Report(r, "no_selected_inputs") ELSE UNCHANGED <<blocking, issues>>
  /\ Goto(r, IF ~PinsHold(r) THEN "handler"
             ELSE IF mode[r] = "plan" THEN "validate" ELSE "open")
  /\ Loop(r, Pending(r))
  /\ UNCHANGED <<world, plans, caught, states, expected, result, saved>>

-----------------------------------------------------------------------------
(* The target: open, initialize                                            *)

\* SQLite: the file is created exclusively; PostgreSQL: a connection.
Open(r) ==
  /\ pc[r] = "open"
  /\ IF dialect = "sqlite" /\ created
     THEN Goto(r, "handler") /\ UNCHANGED <<dialect, created, sessions>>
     ELSE /\ Goto(r, IF dialect = "sqlite" THEN "bootstrap" ELSE "lock")
          /\ sessions' = sessions \cup {r}
          /\ created' = (created \/ dialect = "sqlite")
  /\ UNCHANGED <<tree, dialect, lock, rows, layers, plans, reports, todo, states, expected, result, saved>>

\* Mutation: the answer of pg_try_advisory_lock is not looked at.
LockUnchecked(r) ==
  /\ Step(r, "lock", "empty")
  /\ lock' = IF lock = NoRun THEN r ELSE lock
  /\ UNCHANGED <<tree, dialect, created, sessions, rows, layers, plans, reports, todo, states, expected,
                 result, saved>>

Lock(r) ==
  /\ pc[r] = "lock"
  /\ IF lock = NoRun
     THEN lock' = r /\ Goto(r, "empty")
     ELSE Goto(r, "handler") /\ UNCHANGED lock        \* TargetInUse
  /\ UNCHANGED <<tree, dialect, created, sessions, rows, layers, plans, reports, todo, states, expected,
                 result, saved>>

CheckEmpty(r) ==
  /\ Step(r, "empty", IF created THEN "handler" ELSE "bootstrap")   \* TargetNotEmpty
  /\ UNCHANGED <<world, plans, reports, todo, states, expected, result, saved>>

Bootstrap(r) ==
  /\ Step(r, "bootstrap", "validate")
  /\ created' = TRUE
  /\ UNCHANGED <<tree, dialect, sessions, lock, rows, layers, plans, reports, todo, states, expected,
                 result, saved>>

-----------------------------------------------------------------------------
(* validate_sources, resolve_sources, register_repositories                *)

\* A worker found no failure, and the run indexes the bytes it reads again.
Validate(r, p) ==
  /\ Visit(r, "validate", p)
  /\ SourceHolds(r, p)
  /\ UNCHANGED <<world, plans, reports, pc, states, expected, result, saved>>

\* A worker's failures: it read the source earlier, up to a window of 2 * workers ahead.
ValidateRejects(r, p) ==
  /\ Visit(r, "validate", p)
  /\ Settle(r, p, "rejected")
  /\ Report(r, p)
  /\ UNCHANGED <<world, plans, caught, pc, expected, result, saved>>

ValidateDone(r) ==
  /\ Step(r, "validate", "resolve") /\ todo[r] = {}
  /\ Loop(r, Pending(r))
  /\ UNCHANGED <<world, plans, reports, states, expected, result, saved>>

Resolve(r, p) ==
  /\ Visit(r, "resolve", p)
  /\ SourceHolds(r, p)
  /\ p \notin routed[r]
  /\ UNCHANGED <<world, plans, reports, pc, states, expected, result, saved>>

\* Mutation: the layer id is taken whoever has it.
ClaimAny(r, p) ==
  /\ Visit(r, "resolve", p)
  /\ SourceHolds(r, p)
  /\ p \in routed[r]
  /\ \E l \in LayerId : layerIds' = [layerIds EXCEPT ![r] = [@ EXCEPT ![p] = l]]
  /\ UNCHANGED <<world, mode, sources, routed, reports, pc, states, expected, result, saved>>

\* claim_layer
Claim(r, p) ==
  /\ Visit(r, "resolve", p)
  /\ SourceHolds(r, p)
  /\ p \in routed[r]
  /\ \E l \in LayerId :
       /\ \A q \in Path : layerIds[r][q] # l
       /\ layerIds' = [layerIds EXCEPT ![r] = [@ EXCEPT ![p] = l]]
  /\ UNCHANGED <<world, mode, sources, routed, reports, pc, states, expected, result, saved>>

\* Mutation: the artifact is given up without an issue.
ResolveFailsSilently(r, p) ==
  /\ Visit(r, "resolve", p)
  /\ SourceHolds(r, p)
  /\ Settle(r, p, "blocked")
  /\ UNCHANGED <<world, plans, reports, pc, expected, result, saved>>

\* A DiscoveryError: ambiguous or unresolved, or the layer id is taken.
ResolveFails(r, p) ==
  /\ Visit(r, "resolve", p)
  /\ SourceHolds(r, p)
  /\ Settle(r, p, "blocked")
  /\ Report(r, p)
  /\ UNCHANGED <<world, plans, caught, pc, expected, result, saved>>

ResolveDone(r) ==
  /\ Step(r, "resolve", IF mode[r] = "plan" THEN "preview" ELSE "registry")
  /\ todo[r] = {}
  /\ UNCHANGED <<world, plans, reports, todo, states, expected, result, saved>>

\* preview: the sources a run would load.
Preview(r) ==
  /\ pc[r] = "preview"
  /\ states' = [states EXCEPT ![r] =
       [p \in Path |-> IF states[r][p] = "pending" THEN "selected" ELSE states[r][p]]]
  /\ IF InventoryHolds(r) /\ SourcesHold(r) /\ PinsHold(r)
     THEN /\ Goto(r, "close")
          /\ result' = [result EXCEPT ![r] =
               [@ EXCEPT !.status = "planned", !.diagnostics_complete = TRUE]]
     ELSE Goto(r, "handler") /\ UNCHANGED result
  /\ UNCHANGED <<world, plans, reports, todo, expected, saved>>

Register(r) ==
  /\ Step(r, "registry", IF PinsHold(r) THEN "ingest" ELSE "handler")
  /\ Loop(r, Pending(r))
  /\ UNCHANGED <<world, plans, reports, states, expected, result, saved>>

-----------------------------------------------------------------------------
(* ingest_artifacts                                                        *)

Delegate(r, p) ==
  /\ Visit(r, "ingest", p)
  /\ p \in routed[r]
  /\ Settle(r, p, "delegated")
  /\ UNCHANGED <<world, plans, reports, pc, expected, result, saved>>

\* Mutation: whatever the file holds now is loaded.
IngestUnchecked(r, p) ==
  /\ Visit(r, "ingest", p)
  /\ p \notin routed[r]
  /\ rows' = rows \cup {<<r, p, tree[p]>>}
  /\ expected' = [expected EXCEPT ![r] = @ \cup {<<p, tree[p]>>}]
  /\ Settle(r, p, "ingested")
  /\ UNCHANGED <<tree, dialect, created, sessions, lock, layers, plans, reports, pc, result, saved>>

Ingest(r, p) ==
  /\ Visit(r, "ingest", p)
  /\ p \notin routed[r]
  /\ SourceHolds(r, p)
  /\ rows' = rows \cup {<<r, p, tree[p]>>}
  /\ expected' = [expected EXCEPT ![r] = @ \cup {<<p, tree[p]>>}]
  /\ Settle(r, p, "ingested")
  /\ UNCHANGED <<tree, dialect, created, sessions, lock, layers, plans, reports, pc, result, saved>>

\* The same bytes under the same binding are there: nothing is written.
AlreadyBound(r, p) ==
  /\ Visit(r, "ingest", p)
  /\ p \notin routed[r]
  /\ SourceHolds(r, p)
  /\ expected[r] # {}
  /\ Settle(r, p, "already_bound")
  /\ UNCHANGED <<world, plans, reports, pc, expected, result, saved>>

\* IngestError or a mapping failure; the store rolled the record back.
IngestFails(r, p) ==
  /\ Visit(r, "ingest", p)
  /\ p \notin routed[r]
  /\ SourceHolds(r, p)
  /\ \E s \in {"rejected", "blocked"} : Settle(r, p, s)
  /\ Report(r, p)
  /\ UNCHANGED <<world, plans, caught, pc, expected, result, saved>>

\* Expectations.add refuses the projection of a record that is already committed.
IngestUnexpected(r, p) ==
  /\ Visit(r, "ingest", p)
  /\ p \notin routed[r]
  /\ SourceHolds(r, p)
  /\ rows' = rows \cup {<<r, p, tree[p]>>}
  /\ Settle(r, p, "blocked")
  /\ Report(r, p)
  /\ UNCHANGED <<tree, dialect, created, sessions, lock, layers, plans, caught, pc, expected, result, saved>>

IngestDone(r) ==
  /\ Step(r, "ingest", "sources") /\ todo[r] = {}
  /\ UNCHANGED <<world, plans, reports, todo, states, expected, result, saved>>

\* source_bytes: the digest of a source differs from its inventory.
Drift(r, p) ==
  /\ pc[r] \in {"validate", "resolve", "ingest"} /\ p \in todo[r]
  /\ ~(pc[r] = "ingest" /\ p \in routed[r])
  /\ ~SourceHolds(r, p)
  /\ Goto(r, "handler")
  /\ UNCHANGED <<world, plans, reports, todo, states, expected, result, saved>>

-----------------------------------------------------------------------------
(* reconcile, and the ledger migration                                     *)

CheckSources(r) ==
  /\ Step(r, "sources", IF InventoryHolds(r) /\ SourcesHold(r) /\ PinsHold(r)
                        THEN "target" ELSE "handler")
  /\ UNCHANGED <<world, plans, reports, todo, states, expected, result, saved>>

\* Row counts, evidence, bindings and projections against the expectations.
TargetHolds(r) == rows = {<<r, e[1], e[2]>> : e \in expected[r]}

Reconciled(r) == blocking[r] = {} /\ \A p \in Path : states[r][p] \in Clean

Reconcile(r) ==
  /\ pc[r] = "target"
  /\ IF TargetHolds(r)
     THEN /\ Goto(r, "handover")
          /\ result' = [result EXCEPT ![r] =
               [@ EXCEPT !.passed = Reconciled(r), !.diagnostics_complete = TRUE,
                         !.status = IF Reconciled(r) THEN "passed" ELSE "failed"]]
     ELSE Goto(r, "handler") /\ UNCHANGED result
  /\ Checkpoint(r)
  /\ UNCHANGED <<world, plans, reports, todo, states, expected>>

Handover(r) ==
  /\ Step(r, "handover", IF mode[r] = "run" /\ result[r].passed /\ In(r, "delegated") # {}
                         THEN "ledger" ELSE "comparison")
  /\ Loop(r, In(r, "delegated"))
  /\ UNCHANGED <<world, plans, reports, states, expected, result, saved>>

MigrateLayer(r, p) ==
  /\ Visit(r, "ledger", p)
  /\ layers' = layers \cup {<<r, p, layerIds[r][p]>>}
  /\ UNCHANGED <<tree, dialect, created, sessions, lock, rows, plans, reports, pc, states, expected,
                 result, saved>>

LayerRejected(r, p) ==
  /\ Visit(r, "ledger", p)
  /\ Report(r, p)
  /\ UNCHANGED <<world, plans, caught, pc, states, expected, result, saved>>

\* Mutation: only the rejections count, not the layers that never came back.
LedgerDoneUncounted(r) ==
  /\ Step(r, "ledger", "comparison")
  /\ result' = [result EXCEPT ![r] =
       [@ EXCEPT !.ledger = IF blocking[r] = {} THEN "passed" ELSE "failed",
                 !.status = IF blocking[r] = {} THEN result[r].status ELSE "failed"]]
  /\ UNCHANGED <<world, plans, reports, todo, states, expected, saved>>

\* The ledger's iterator ended, perhaps before it told of every delegated layer.
LedgerDone(r) ==
  /\ Step(r, "ledger", "comparison")
  /\ result' = [result EXCEPT ![r] =
       [@ EXCEPT !.ledger = IF blocking[r] = {} THEN "passed" ELSE "failed",
                 !.status = IF todo[r] = {} /\ blocking[r] = {} THEN result[r].status
                           ELSE "failed"]]
  /\ UNCHANGED <<world, plans, reports, todo, states, expected, saved>>

\* The comparison with a findings database never blocks.
Comparison(r) ==
  /\ Step(r, "comparison", "close")
  /\ UNCHANGED <<world, plans, reports, todo, states, expected, result, saved>>

-----------------------------------------------------------------------------
(* What goes wrong inside the try, and the except and finally clauses      *)

\* The budget, the database, the ledger, a checkpoint, KeyboardInterrupt.
Raise(r) ==
  /\ "raise" \in Faults
  /\ pc[r] \in Trying
  /\ Goto(r, "handler")
  /\ UNCHANGED <<world, plans, reports, todo, states, expected, result, saved>>

\* issue() counted an artifact and could not append it to issues.jsonl.
IssueLost(r, p) ==
  /\ "disk" \in Faults
  /\ pc[r] \in {"inventory", "validate", "resolve", "ingest", "ledger"} /\ p \in todo[r]
  /\ Count(r, p)
  /\ Goto(r, "handler")
  /\ UNCHANGED <<world, plans, caught, issues, todo, states, expected, result, saved>>

Handle(r) ==
  /\ Step(r, "handler", "close")
  /\ caught' = [caught EXCEPT ![r] = TRUE]
  /\ Report(r, "systemic_failure")
  /\ result' = [result EXCEPT ![r] =
       [@ EXCEPT !.status = "blocked", !.diagnostics_complete = FALSE]]
  /\ UNCHANGED <<world, plans, todo, states, expected, saved>>

\* Mutation: issue() counts once the line is written.
HandleUncounted(r) ==
  /\ "disk" \in Faults
  /\ Step(r, "handler", "close")
  /\ caught' = [caught EXCEPT ![r] = TRUE]
  /\ UNCHANGED <<world, plans, blocking, issues, todo, states, expected, result, saved>>

\* The systemic failure cannot be recorded: the status stays what it was.
HandleLost(r) ==
  /\ "disk" \in Faults
  /\ Step(r, "handler", "close")
  /\ caught' = [caught EXCEPT ![r] = TRUE]
  /\ Count(r, "systemic_failure")
  /\ UNCHANGED <<world, plans, issues, todo, states, expected, result, saved>>

Disconnect(r) == /\ sessions' = sessions \ {r}
                 /\ lock' = IF lock = r THEN NoRun ELSE lock

\* Mutation: the rest of the finally clause needs a database too.
CloseOpened(r) ==
  /\ r \in sessions
  /\ Step(r, "close", "conclude")
  /\ Disconnect(r)
  /\ UNCHANGED <<tree, dialect, created, rows, layers, plans, reports, todo, states, expected,
                 result, saved>>

Close(r) ==
  /\ Step(r, "close", "conclude")
  /\ Disconnect(r)
  /\ UNCHANGED <<tree, dialect, created, rows, layers, plans, reports, todo, states, expected, result, saved>>

CloseFails(r) ==
  /\ "raise" \in Faults
  /\ r \in sessions
  /\ Step(r, "close", "conclude")
  /\ Report(r, "connection_close_failed")
  /\ result' = [result EXCEPT ![r] =
       [@ EXCEPT !.status = "blocked", !.diagnostics_complete = FALSE]]
  /\ UNCHANGED <<world, plans, caught, todo, states, expected, saved>>

\* The verdict, and decisions.jsonl.
Ready(r) ==
  /\ result[r].status = "passed"
  /\ result[r].diagnostics_complete
  /\ blocking[r] = {}
  /\ result[r].passed
  /\ In(r, "delegated") = {} \/ result[r].ledger = "passed"

Conclude(r) ==
  /\ Step(r, "conclude", "publish")
  /\ result' = [result EXCEPT ![r] =
       [@ EXCEPT !.run_state = "finished", !.migration_ready = mode[r] # "plan" /\ Ready(r)]]
  /\ UNCHANGED <<world, plans, reports, todo, states, expected, saved>>

Publish(r) ==
  /\ Step(r, "publish", "finished")
  /\ result' = result
  /\ Checkpoint(r)
  /\ Disconnect(r)
  /\ UNCHANGED <<tree, dialect, created, rows, layers, plans, reports, todo, states, expected>>

\* A write of the finally clause fails: the process ends with the last saved result.
Abort(r) ==
  /\ "disk" \in Faults
  /\ \/ pc[r] \in {"conclude", "publish"}
     \/ pc[r] = "close" /\ r \in sessions /\ "raise" \in Faults
  /\ Goto(r, "aborted")
  /\ Disconnect(r)
  /\ UNCHANGED <<tree, dialect, created, rows, layers, plans, reports, todo, states, expected, result, saved>>

Crash(r) ==
  /\ "crash" \in Faults
  /\ pc[r] \notin Ended
  /\ Goto(r, "dead")
  /\ Disconnect(r)
  /\ UNCHANGED <<tree, dialect, created, rows, layers, plans, reports, todo, states, expected, result, saved>>

\* Somebody adds, edits, reverts or deletes a source, or edits the configuration,
\* while a run is under way.
Edit(x) ==
  /\ "edit" \in Faults
  /\ \E r \in Run : pc[r] \notin Ended
  /\ \E v \in Version \ {tree[x]} : tree' = [tree EXCEPT ![x] = v]
  /\ UNCHANGED <<dialect, created, sessions, lock, rows, layers, plans, reports, pc, todo, states, expected,
                 result, saved>>

-----------------------------------------------------------------------------

SourceStep(r, p) ==
  \/ Skip(r, p) \/ Refuse(r, p) \/ Select(r, p)
  \/ Validate(r, p) \/ ValidateRejects(r, p)
  \/ Resolve(r, p) \/ Claim(r, p) \/ ResolveFails(r, p)
  \/ Delegate(r, p) \/ Ingest(r, p) \/ AlreadyBound(r, p)
  \/ IngestFails(r, p) \/ IngestUnexpected(r, p) \/ Drift(r, p)
  \/ MigrateLayer(r, p) \/ LayerRejected(r, p)

PhaseStep(r) ==
  \/ Start(r) \/ InventoryDone(r) \/ Open(r) \/ Lock(r) \/ CheckEmpty(r) \/ Bootstrap(r)
  \/ ValidateDone(r) \/ ResolveDone(r) \/ Preview(r) \/ Register(r) \/ IngestDone(r)
  \/ CheckSources(r) \/ Reconcile(r) \/ Handover(r) \/ LedgerDone(r) \/ Comparison(r)
  \/ Handle(r) \/ Close(r) \/ Conclude(r) \/ Publish(r)

RunStep(r) == PhaseStep(r) \/ \E p \in Path : SourceStep(r, p)

\* What nothing ensures, and no run can count on to go on.
Fault(r) ==
  \/ Raise(r) \/ HandleLost(r) \/ CloseFails(r) \/ Abort(r) \/ Crash(r)
  \/ \E p \in Path : IssueLost(r, p)

Next == \/ \E r \in Run : RunStep(r) \/ Fault(r)
        \/ \E x \in Source : Edit(x)

\* A run is one sequential process: it goes on as long as it can.
Spec == Init /\ [][Next]_vars /\ \A r \in Run : WF_vars(RunStep(r))

-----------------------------------------------------------------------------
(* Properties                                                              *)

\* Every variable stays in its type; a loop visits sources only.
TypeOK ==
  /\ tree \in [Source -> Version]
  /\ dialect \in {"sqlite", "postgres"}
  /\ created \in BOOLEAN /\ sessions \subseteq Run /\ lock \in Run \cup {NoRun}
  /\ rows \subseteq Run \X Path \X Version
  /\ layers \subseteq Run \X Path \X (LayerId \cup {NoLayer})
  /\ mode \in [Run -> Command]
  /\ pc \in [Run -> Point]
  /\ todo \in [Run -> SUBSET Path]
  /\ states \in [Run -> [Path -> State]]
  /\ sources \in [Run -> [Source -> Version]]
  /\ routed \in [Run -> SUBSET Path]
  /\ layerIds \in [Run -> [Path -> LayerId \cup {NoLayer}]]
  /\ expected \in [Run -> SUBSET (Path \X Version)]
  /\ blocking \in [Run -> SUBSET Issue] /\ issues \in [Run -> SUBSET Issue]
  /\ caught \in [Run -> BOOLEAN]
  /\ result \in [Run -> Result] /\ saved \in [Run -> Result]

\* The runs whose artifacts or layers the target holds.
Loaders == {x[1] : x \in rows \cup layers}

\* However many runs are started, one target holds the artifacts and the layers of one
\* run only: the advisory lock, then the emptiness check (initialize), keep the others out.
OneLoaderPerTarget == \A r, s \in Loaders : r = s

\* A saved migration_ready is backed by the target: every source the run saw is in
\* the target with the bytes its inventory digested, is in the ledger under its layer,
\* or was left out by rule, although the sources change while they are read four times.
ReadyMeansMigrated ==
  \A r \in Run : saved[r].migration_ready =>
    \A p \in Path :
      /\ states[r][p] \in Clean
      /\ states[r][p] = "ingested"  => <<r, p, sources[r][p]>> \in rows
      /\ states[r][p] = "delegated" => <<r, p, layerIds[r][p]>> \in layers

\* No run that met a systemic failure or a blocking issue is ever ready, wherever the
\* failure struck and even when it could not be written down.
ReadyMeansClean ==
  \A r \in Run : saved[r].migration_ready => ~caught[r] /\ blocking[r] = {}

\* A finished diagnosis accounts for every source: what is not loaded, delegated or left
\* out by rule has an issue in issues.jsonl, and nothing is still pending.
NothingDroppedSilently ==
  \A r \in Run : saved[r].run_state = "finished" /\ saved[r].diagnostics_complete =>
    \A p \in Path :
      /\ states[r][p] # "pending"
      /\ states[r][p] \in {"rejected", "unrecognized", "blocked"} => p \in issues[r]

\* Two sources never write one layer of the ledger.
OneSourcePerLayer ==
  \A x, y \in layers : x[3] = y[3] => x[2] = y[2]

\* A run that does not die publishes its verdict or ends with an error: whatever raises or
\* cannot be written, neither the sources that change under it nor the runs beside it hold it up.
AlwaysConcludes == \A r \in Run : <>(pc[r] \in Ended)
=============================================================================
