---------------------- MODULE MigrationRehearsalProofs ----------------------
(***************************************************************************)
(* Proofs about MigrationRehearsal, for any number of runs, sources, layer *)
(* ids and versions and whatever fails:                                    *)
(*   Typed          type correctness                                       *)
(*   SingleLoader   one run loads a target (from the advisory lock, the    *)
(*                  emptiness check made under it, and the SQLite file     *)
(*                  created exclusively)                                   *)
(*   ReadyIsBacked  migration_ready is backed by the target and the ledger *)
(*                  and no failure precedes it                             *)
(* Each invariant is proved step by step: one leaf per action.             *)
(***************************************************************************)
EXTENDS MigrationRehearsal, TLAPS

-----------------------------------------------------------------------------
(* What the helpers keep typed                                             *)

LEMMA SettleType ==
  ASSUME states \in [Run -> [Path -> State]],
         NEW r \in Run, NEW p \in Path, NEW s \in State, Settle(r, p, s)
  PROVE  states' \in [Run -> [Path -> State]]
<1>1. [states[r] EXCEPT ![p] = s] \in [Path -> State]
  OBVIOUS
<1> QED
  BY <1>1 DEF Settle

LEMMA SourcesType ==
  ASSUME sources \in [Run -> [Source -> Version]],
         NEW r \in Run, NEW x \in Source, NEW v \in Version,
         sources' = [sources EXCEPT ![r] = [@ EXCEPT ![x] = v]]
  PROVE  sources' \in [Run -> [Source -> Version]]
<1>1. [sources[r] EXCEPT ![x] = v] \in [Source -> Version]
  OBVIOUS
<1> QED
  BY <1>1

LEMMA LayerIdsType ==
  ASSUME layerIds \in [Run -> [Path -> LayerId \cup {NoLayer}]],
         NEW r \in Run, NEW p \in Path, NEW l \in LayerId,
         layerIds' = [layerIds EXCEPT ![r] = [@ EXCEPT ![p] = l]]
  PROVE  layerIds' \in [Run -> [Path -> LayerId \cup {NoLayer}]]
<1>1. [layerIds[r] EXCEPT ![p] = l] \in [Path -> LayerId \cup {NoLayer}]
  OBVIOUS
<1> QED
  BY <1>1

LEMMA ReportType ==
  ASSUME blocking \in [Run -> SUBSET Issue], issues \in [Run -> SUBSET Issue],
         NEW r \in Run, NEW i \in Issue, Report(r, i)
  PROVE  /\ blocking' \in [Run -> SUBSET Issue]
         /\ issues' \in [Run -> SUBSET Issue]
BY DEF Report, Count

LEMMA ResultType ==
  ASSUME result \in [Run -> Result], NEW r \in Run, NEW x \in Result,
         result' = [result EXCEPT ![r] = x]
  PROVE  result' \in [Run -> Result]
OBVIOUS

LEMMA VerdictType ==
  ASSUME NEW x \in Result, NEW d \in BOOLEAN,
         NEW s \in {"blocked", "planned", "passed", "failed"}
  PROVE  [x EXCEPT !.status = s, !.diagnostics_complete = d] \in Result
BY DEF Result

LEMMA ReconciledType ==
  ASSUME NEW x \in Result, NEW b \in BOOLEAN
  PROVE  [x EXCEPT !.passed = b, !.diagnostics_complete = TRUE,
                   !.status = IF b THEN "passed" ELSE "failed"] \in Result
<1> DEFINE s == IF b THEN "passed" ELSE "failed"
           y == [x EXCEPT !.passed = b]
<1>1. y \in Result
  BY DEF Result
<1>2. [y EXCEPT !.status = s, !.diagnostics_complete = TRUE] \in Result
  BY <1>1, VerdictType
<1>3. [x EXCEPT !.passed = b, !.diagnostics_complete = TRUE, !.status = s]
       = [y EXCEPT !.status = s, !.diagnostics_complete = TRUE]
  BY DEF Result
<1> QED
  BY <1>2, <1>3

LEMMA LedgerType ==
  ASSUME NEW x \in Result, NEW l \in {"passed", "failed"},
         NEW s \in {"blocked", "planned", "passed", "failed"}
  PROVE  [x EXCEPT !.ledger = l, !.status = s] \in Result
BY DEF Result

LEMMA FinishedType ==
  ASSUME NEW x \in Result, NEW b \in BOOLEAN
  PROVE  [x EXCEPT !.run_state = "finished", !.migration_ready = b] \in Result
BY DEF Result
-----------------------------------------------------------------------------
(* Type correctness                                                        *)

LEMMA TypeNext == TypeOK /\ [Next]_vars => TypeOK'
<1> SUFFICES ASSUME TypeOK, [Next]_vars PROVE TypeOK'
  OBVIOUS
<1> USE MigrationAssumption DEF TypeOK, world, plans, reports, Goto, Step, Visit, Loop,
        Checkpoint, In, Pending, Disconnect
<1>1. ASSUME NEW r \in Run, NEW p \in Path, Skip(r, p) PROVE TypeOK'
  <2>1. states' \in [Run -> [Path -> State]]
    BY <1>1, SettleType DEF Skip, State
  <2> QED
    BY <1>1, <2>1 DEF Skip
<1>2. ASSUME NEW r \in Run, NEW p \in Path, Refuse(r, p) PROVE TypeOK'
  <2>1. states' \in [Run -> [Path -> State]]
    BY <1>2, SettleType DEF Refuse, State
  <2>2. sources' \in [Run -> [Source -> Version]]
    BY <1>2, SourcesType DEF Refuse, Source
  <2>3. blocking' \in [Run -> SUBSET Issue] /\ issues' \in [Run -> SUBSET Issue]
    BY <1>2, ReportType DEF Refuse, Issue
  <2> QED
    BY <1>2, <2>1, <2>2, <2>3 DEF Refuse
<1>3. ASSUME NEW r \in Run, NEW p \in Path, Select(r, p) PROVE TypeOK'
  <2>1. states' \in [Run -> [Path -> State]]
    BY <1>3, SettleType DEF Select, State
  <2>2. sources' \in [Run -> [Source -> Version]]
    BY <1>3, SourcesType DEF Select, Source
  <2>3. [routed EXCEPT ![r] = @ \cup {p}] \in [Run -> SUBSET Path]
    OBVIOUS
  <2>4. routed' \in [Run -> SUBSET Path]
    BY <1>3, <2>3 DEF Select
  <2> QED
    BY <1>3, <2>1, <2>2, <2>4 DEF Select
<1>4. ASSUME NEW r \in Run, NEW p \in Path, Validate(r, p) PROVE TypeOK'
  BY <1>4 DEF Validate
<1>5. ASSUME NEW r \in Run, NEW p \in Path, ValidateRejects(r, p) PROVE TypeOK'
  <2>1. states' \in [Run -> [Path -> State]]
    BY <1>5, SettleType DEF ValidateRejects, State
  <2>2. blocking' \in [Run -> SUBSET Issue] /\ issues' \in [Run -> SUBSET Issue]
    BY <1>5, ReportType DEF ValidateRejects, Issue
  <2> QED
    BY <1>5, <2>1, <2>2 DEF ValidateRejects
<1>6. ASSUME NEW r \in Run, NEW p \in Path, Resolve(r, p) PROVE TypeOK'
  BY <1>6 DEF Resolve
<1>7. ASSUME NEW r \in Run, NEW p \in Path, Claim(r, p) PROVE TypeOK'
  <2>1. layerIds' \in [Run -> [Path -> LayerId \cup {NoLayer}]]
    BY <1>7, LayerIdsType DEF Claim
  <2> QED
    BY <1>7, <2>1 DEF Claim
<1>8. ASSUME NEW r \in Run, NEW p \in Path, ResolveFails(r, p) PROVE TypeOK'
  <2>1. states' \in [Run -> [Path -> State]]
    BY <1>8, SettleType DEF ResolveFails, State
  <2>2. blocking' \in [Run -> SUBSET Issue] /\ issues' \in [Run -> SUBSET Issue]
    BY <1>8, ReportType DEF ResolveFails, Issue
  <2> QED
    BY <1>8, <2>1, <2>2 DEF ResolveFails
<1>9. ASSUME NEW r \in Run, NEW p \in Path, Delegate(r, p) PROVE TypeOK'
  <2>1. states' \in [Run -> [Path -> State]]
    BY <1>9, SettleType DEF Delegate, State
  <2> QED
    BY <1>9, <2>1 DEF Delegate
<1>10. ASSUME NEW r \in Run, NEW p \in Path, Ingest(r, p) PROVE TypeOK'
  <2>1. states' \in [Run -> [Path -> State]]
    BY <1>10, SettleType DEF Ingest, State
  <2>2. tree[p] \in Version /\ <<r, p, tree[p]>> \in Run \X Path \X Version
    BY <1>10 DEF Source
  <2>3. expected' \in [Run -> SUBSET (Path \X Version)]
    BY <1>10, <2>2 DEF Ingest
  <2>4. rows' \subseteq Run \X Path \X Version
    BY <1>10, <2>2 DEF Ingest
  <2> QED
    BY <1>10, <2>1, <2>3, <2>4 DEF Ingest
<1>11. ASSUME NEW r \in Run, NEW p \in Path, AlreadyBound(r, p) PROVE TypeOK'
  <2>1. states' \in [Run -> [Path -> State]]
    BY <1>11, SettleType DEF AlreadyBound, State
  <2> QED
    BY <1>11, <2>1 DEF AlreadyBound
<1>12. ASSUME NEW r \in Run, NEW p \in Path, IngestFails(r, p) PROVE TypeOK'
  <2>1. states' \in [Run -> [Path -> State]]
    BY <1>12, SettleType DEF IngestFails, State
  <2>2. blocking' \in [Run -> SUBSET Issue] /\ issues' \in [Run -> SUBSET Issue]
    BY <1>12, ReportType DEF IngestFails, Issue
  <2> QED
    BY <1>12, <2>1, <2>2 DEF IngestFails
<1>13. ASSUME NEW r \in Run, NEW p \in Path, IngestUnexpected(r, p) PROVE TypeOK'
  <2>1. states' \in [Run -> [Path -> State]]
    BY <1>13, SettleType DEF IngestUnexpected, State
  <2>2. blocking' \in [Run -> SUBSET Issue] /\ issues' \in [Run -> SUBSET Issue]
    BY <1>13, ReportType DEF IngestUnexpected, Issue
  <2>3. tree[p] \in Version /\ <<r, p, tree[p]>> \in Run \X Path \X Version
    BY <1>13 DEF Source
  <2>4. rows' \subseteq Run \X Path \X Version
    BY <1>13, <2>3 DEF IngestUnexpected
  <2> QED
    BY <1>13, <2>1, <2>2, <2>4 DEF IngestUnexpected
<1>14. ASSUME NEW r \in Run, NEW p \in Path, Drift(r, p) PROVE TypeOK'
  BY <1>14 DEF Drift, Point
<1>15. ASSUME NEW r \in Run, NEW p \in Path, MigrateLayer(r, p) PROVE TypeOK'
  <2>1. <<r, p, layerIds[r][p]>> \in Run \X Path \X (LayerId \cup {NoLayer})
    BY <1>15
  <2>2. layers' \subseteq Run \X Path \X (LayerId \cup {NoLayer})
    BY <1>15, <2>1 DEF MigrateLayer
  <2> QED
    BY <1>15, <2>2 DEF MigrateLayer
<1>16. ASSUME NEW r \in Run, NEW p \in Path, LayerRejected(r, p) PROVE TypeOK'
  <2>1. blocking' \in [Run -> SUBSET Issue] /\ issues' \in [Run -> SUBSET Issue]
    BY <1>16, ReportType DEF LayerRejected, Issue
  <2> QED
    BY <1>16, <2>1 DEF LayerRejected
<1>17. ASSUME NEW r \in Run, NEW p \in Path, IssueLost(r, p) PROVE TypeOK'
  BY <1>17 DEF IssueLost, Count, Issue, Point
<1>18. ASSUME NEW r \in Run, Start(r) PROVE TypeOK'
  <2>1. sources' \in [Run -> [Source -> Version]]
    BY <1>18, SourcesType DEF Start, Source
  <2> QED
    BY <1>18, <2>1 DEF Start, Point, Trying
<1>19. ASSUME NEW r \in Run, InventoryDone(r) PROVE TypeOK'
  <2>1. blocking' \in [Run -> SUBSET Issue] /\ issues' \in [Run -> SUBSET Issue]
    BY <1>19, ReportType DEF InventoryDone, Issue
  <2> QED
    BY <1>19, <2>1 DEF InventoryDone, Point, Trying, Ended
<1>20. ASSUME NEW r \in Run, Open(r) PROVE TypeOK'
  BY <1>20 DEF Open, Point, Trying, Ended
<1>21. ASSUME NEW r \in Run, Lock(r) PROVE TypeOK'
  BY <1>21 DEF Lock, Point, Trying, Ended
<1>22. ASSUME NEW r \in Run, CheckEmpty(r) PROVE TypeOK'
  BY <1>22 DEF CheckEmpty, Point, Trying, Ended
<1>23. ASSUME NEW r \in Run, Bootstrap(r) PROVE TypeOK'
  BY <1>23 DEF Bootstrap, Point, Trying, Ended
<1>24. ASSUME NEW r \in Run, ValidateDone(r) PROVE TypeOK'
  BY <1>24 DEF ValidateDone, Point, Trying, Ended
<1>25. ASSUME NEW r \in Run, ResolveDone(r) PROVE TypeOK'
  BY <1>25 DEF ResolveDone, Point, Trying, Ended
<1>26. ASSUME NEW r \in Run, Preview(r) PROVE TypeOK'
  <2>1. states' \in [Run -> [Path -> State]]
    BY <1>26 DEF Preview, State
  <2>2. result' \in [Run -> Result]
    BY <1>26, ResultType, VerdictType DEF Preview
  <2> QED
    BY <1>26, <2>1, <2>2 DEF Preview, Point
<1>27. ASSUME NEW r \in Run, Register(r) PROVE TypeOK'
  BY <1>27 DEF Register, Point, Trying, Ended
<1>28. ASSUME NEW r \in Run, IngestDone(r) PROVE TypeOK'
  BY <1>28 DEF IngestDone, Point, Trying, Ended
<1>29. ASSUME NEW r \in Run, CheckSources(r) PROVE TypeOK'
  BY <1>29 DEF CheckSources, Point, Trying, Ended
<1>30. ASSUME NEW r \in Run, Reconcile(r) PROVE TypeOK'
  <2>1. CASE TargetHolds(r)
    <3> DEFINE new == [result[r] EXCEPT !.passed = Reconciled(r), !.diagnostics_complete = TRUE,
                         !.status = IF Reconciled(r) THEN "passed" ELSE "failed"]
    <3>1. Reconciled(r) \in BOOLEAN
      BY DEF Reconciled
    <3>2. new \in Result
      BY <3>1, ReconciledType
    <3>3. result' = [result EXCEPT ![r] = new]
      BY <1>30, <2>1 DEF Reconcile
    <3>4. result' \in [Run -> Result]
      BY <3>2, <3>3, ResultType
    <3> QED
      BY <1>30, <2>1, <3>4 DEF Reconcile, Point, Trying
  <2>2. CASE ~TargetHolds(r)
    BY <1>30, <2>2 DEF Reconcile, Point
  <2> QED
    BY <2>1, <2>2
<1>31. ASSUME NEW r \in Run, Handover(r) PROVE TypeOK'
  BY <1>31 DEF Handover, Point, Trying, Ended
<1>32. ASSUME NEW r \in Run, LedgerDone(r) PROVE TypeOK'
  <2> DEFINE l == IF blocking[r] = {} THEN "passed" ELSE "failed"
             s == IF todo[r] = {} /\ blocking[r] = {} THEN result[r].status ELSE "failed"
             new == [result[r] EXCEPT !.ledger = l, !.status = s]
  <2>1. /\ l \in {"passed", "failed"}
        /\ result[r] \in Result
        /\ s \in {"blocked", "planned", "passed", "failed"}
    BY DEF Result
  <2>2. result' = [result EXCEPT ![r] = new]
    BY <1>32 DEF LedgerDone
  <2> HIDE DEF l, s
  <2>3. new \in Result
    BY <2>1, LedgerType
  <2> HIDE DEF new
  <2>4. result' \in [Run -> Result]
    BY <2>2, <2>3, ResultType
  <2> QED
    BY <1>32, <2>4 DEF LedgerDone, Point, Trying
<1>33. ASSUME NEW r \in Run, Comparison(r) PROVE TypeOK'
  BY <1>33 DEF Comparison, Point, Trying, Ended
<1>34. ASSUME NEW r \in Run, Raise(r) PROVE TypeOK'
  BY <1>34 DEF Raise, Point, Trying, Ended
<1>35. ASSUME NEW r \in Run, Handle(r) PROVE TypeOK'
  <2>1. blocking' \in [Run -> SUBSET Issue] /\ issues' \in [Run -> SUBSET Issue]
    BY <1>35, ReportType DEF Handle, Issue
  <2>2. result' \in [Run -> Result]
    BY <1>35, ResultType, VerdictType DEF Handle
  <2> QED
    BY <1>35, <2>1, <2>2 DEF Handle, Point
<1>36. ASSUME NEW r \in Run, HandleLost(r) PROVE TypeOK'
  BY <1>36 DEF HandleLost, Count, Issue, Point
<1>37. ASSUME NEW r \in Run, Close(r) PROVE TypeOK'
  BY <1>37 DEF Close, Point, Trying, Ended
<1>38. ASSUME NEW r \in Run, CloseFails(r) PROVE TypeOK'
  <2>1. blocking' \in [Run -> SUBSET Issue] /\ issues' \in [Run -> SUBSET Issue]
    BY <1>38, ReportType DEF CloseFails, Issue
  <2>2. result' \in [Run -> Result]
    BY <1>38, ResultType, VerdictType DEF CloseFails
  <2> QED
    BY <1>38, <2>1, <2>2 DEF CloseFails, Point
<1>39. ASSUME NEW r \in Run, Conclude(r) PROVE TypeOK'
  <2> DEFINE new == [result[r] EXCEPT !.run_state = "finished",
                       !.migration_ready = mode[r] # "plan" /\ Ready(r)]
  <2>1. (mode[r] # "plan" /\ Ready(r)) \in BOOLEAN
    OBVIOUS
  <2>2. new \in Result
    BY <2>1, FinishedType
  <2>3. result' = [result EXCEPT ![r] = new]
    BY <1>39 DEF Conclude
  <2>4. result' \in [Run -> Result]
    BY <2>2, <2>3, ResultType
  <2> QED
    BY <1>39, <2>4 DEF Conclude, Point
<1>40. ASSUME NEW r \in Run, Publish(r) PROVE TypeOK'
  BY <1>40 DEF Publish, Point, Trying, Ended
<1>41. ASSUME NEW r \in Run, Abort(r) PROVE TypeOK'
  BY <1>41 DEF Abort, Point, Trying, Ended
<1>42. ASSUME NEW r \in Run, Crash(r) PROVE TypeOK'
  BY <1>42 DEF Crash, Point, Trying, Ended
<1>43. ASSUME NEW x \in Source, Edit(x) PROVE TypeOK'
  BY <1>43 DEF Edit, Version
<1>44. CASE UNCHANGED vars
  BY <1>44 DEF vars
<1> QED
  BY <1>1, <1>2, <1>3, <1>4, <1>5, <1>6, <1>7, <1>8, <1>9, <1>10, <1>11, <1>12, <1>13, <1>14,
     <1>15, <1>16, <1>17, <1>18, <1>19, <1>20, <1>21, <1>22, <1>23, <1>24, <1>25, <1>26, <1>27,
     <1>28, <1>29, <1>30, <1>31, <1>32, <1>33, <1>34, <1>35, <1>36, <1>37, <1>38, <1>39, <1>40,
     <1>41, <1>42, <1>43, <1>44
     DEF Next, RunStep, Fault, PhaseStep, SourceStep

LEMMA TypeInit == Init => TypeOK
<1> SUFFICES ASSUME Init PROVE TypeOK
  OBVIOUS
<1>1. NewResult \in Result /\ NoResult \in Result
  BY DEF NewResult, NoResult, Result
<1>2. tree \in [Source -> Version]
  BY MigrationAssumption DEF Init, Source, Version
<1>3. dialect \in {"sqlite", "postgres"} /\ mode \in [Run -> Command]
  BY MigrationAssumption DEF Init
<1>4. /\ states \in [Run -> [Path -> State]]
      /\ sources \in [Run -> [Source -> Version]]
      /\ layerIds \in [Run -> [Path -> LayerId \cup {NoLayer}]]
  BY MigrationAssumption DEF Init, State, Version
<1>5. /\ pc \in [Run -> Point] /\ caught \in [Run -> BOOLEAN]
      /\ result \in [Run -> Result] /\ saved \in [Run -> Result]
  BY <1>1 DEF Init, Point
<1>6. /\ todo \in [Run -> SUBSET Path] /\ routed \in [Run -> SUBSET Path]
      /\ expected \in [Run -> SUBSET (Path \X Version)]
      /\ blocking \in [Run -> SUBSET Issue] /\ issues \in [Run -> SUBSET Issue]
  BY DEF Init
<1> QED
  BY <1>2, <1>3, <1>4, <1>5, <1>6 DEF Init, TypeOK

\* TypeOK: the state of every run, of its target and of its output stays typed.
THEOREM Typed == Spec => []TypeOK
BY TypeInit, TypeNext, PTL DEF Spec

-----------------------------------------------------------------------------
(* One loader per target                                                   *)

\* Points of a run that initialize has admitted to the target.
Loading == {"bootstrap", "validate", "resolve", "registry", "ingest", "sources", "target",
            "handover", "ledger", "comparison"}

\* Points a preview never reaches.
RunOnly == {"open", "lock", "empty", "bootstrap", "registry", "ingest", "sources", "target",
            "handover", "ledger", "comparison"}

Inside(r)   == mode[r] # "plan" /\ pc[r] \in Loading
Admitted(r) == Inside(r) \/ r \in Loaders

OwnerInv ==
  /\ \A r \in Run : pc[r] \in RunOnly => mode[r] # "plan"
  /\ \A r \in Run : pc[r] \in {"lock", "empty"} => dialect = "postgres"
  /\ \A r \in Run : dialect = "postgres" /\ pc[r] \in {"empty", "bootstrap"} => lock = r
  /\ \A r \in Run : Inside(r) /\ (dialect = "sqlite" \/ pc[r] # "bootstrap") => created
  /\ Loaders # {} => created
  /\ Loaders \subseteq Run
  /\ \A r, s \in Run : Admitted(r) /\ Admitted(s) => r = s

LEMMA OwnerInit == Init => OwnerInv
BY DEF Init, OwnerInv, Inside, Admitted, Loaders, Loading, RunOnly

\* Nothing the invariant speaks of has changed.
LEMMA OwnerFrame ==
  ASSUME OwnerInv, UNCHANGED <<dialect, created, lock, rows, layers, mode, pc>>
  PROVE  OwnerInv'
BY DEF OwnerInv, Inside, Admitted, Loaders

LEMMA LoadersGrow ==
  ASSUME NEW r, NEW p, NEW v,
         \/ rows' = rows \cup {<<r, p, v>>} /\ layers' = layers
         \/ layers' = layers \cup {<<r, p, v>>} /\ rows' = rows
  PROVE  Loaders' = Loaders \cup {r}
<1>1. rows' \cup layers' = (rows \cup layers) \cup {<<r, p, v>>}
  OBVIOUS
<1>2. <<r, p, v>>[1] = r
  OBVIOUS
<1>3. ASSUME NEW x \in Loaders' PROVE x \in Loaders \cup {r}
  <2>1. PICK y \in rows' \cup layers' : x = y[1]
    BY <1>3 DEF Loaders
  <2> QED
    BY <2>1, <1>1, <1>2 DEF Loaders
<1>4. ASSUME NEW x \in Loaders \cup {r} PROVE x \in Loaders'
  <2>1. CASE x \in Loaders
    BY <2>1, <1>1 DEF Loaders
  <2>2. CASE x = r
    BY <2>2, <1>1, <1>2 DEF Loaders
  <2> QED
    BY <2>1, <2>2
<1> QED
  BY <1>3, <1>4

\* A run that is inside stores an artifact or a layer.
LEMMA OwnerWrites ==
  ASSUME TypeOK, OwnerInv, NEW r \in Run, NEW p, NEW v, Inside(r), pc[r] # "bootstrap",
         UNCHANGED <<dialect, created, lock, mode, pc>>,
         \/ rows' = rows \cup {<<r, p, v>>} /\ layers' = layers
         \/ layers' = layers \cup {<<r, p, v>>} /\ rows' = rows
  PROVE  OwnerInv'
<1>1. Loaders' = Loaders \cup {r}
  BY LoadersGrow
<1> QED
  BY <1>1 DEF OwnerInv, Inside, Admitted

\* A run moves on without becoming admitted, and may give up its lock.
LEMMA OwnerMoves ==
  ASSUME TypeOK, OwnerInv, NEW r \in Run, NEW to, Goto(r, to),
         to \in Loading /\ mode[r] # "plan" => Inside(r) /\ pc[r] # "bootstrap" /\ to # "bootstrap",
         to \in RunOnly => mode[r] # "plan",
         to \notin {"lock", "empty", "bootstrap"},
         UNCHANGED <<dialect, created, rows, layers, mode>>,
         lock' = lock \/ (lock = r /\ lock' = NoRun)
  PROVE  OwnerInv'
<1>1. Loaders' = Loaders
  BY DEF Loaders
<1>2. \A s \in Run : pc'[s] = IF s = r THEN to ELSE pc[s]
  BY DEF TypeOK, Goto
<1>3. \A s \in Run : Inside(s)' => Inside(s)
  BY <1>2 DEF Inside
<1> QED
  BY <1>1, <1>2, <1>3 DEF OwnerInv, Inside, Admitted

LEMMA OwnerNext == TypeOK /\ OwnerInv /\ [Next]_vars => OwnerInv'
<1> SUFFICES ASSUME TypeOK, OwnerInv, [Next]_vars PROVE OwnerInv'
  OBVIOUS
<1> USE DEF world, plans, reports, Visit, Step
<1>1. ASSUME NEW r \in Run, NEW p \in Path,
             \/ Skip(r, p) \/ Refuse(r, p) \/ Select(r, p) \/ Validate(r, p) \/ ValidateRejects(r, p)
             \/ Resolve(r, p) \/ Claim(r, p) \/ ResolveFails(r, p) \/ Delegate(r, p)
             \/ AlreadyBound(r, p) \/ IngestFails(r, p) \/ LayerRejected(r, p)
      PROVE  OwnerInv'
  BY <1>1, OwnerFrame DEF Skip, Refuse, Select, Validate, ValidateRejects, Resolve, Claim,
     ResolveFails, Delegate, AlreadyBound, IngestFails, LayerRejected
<1>2. ASSUME NEW r \in Run, NEW p \in Path, Ingest(r, p) \/ IngestUnexpected(r, p)
      PROVE  OwnerInv'
  <2>1. Inside(r) /\ pc[r] # "bootstrap"
    BY <1>2 DEF Ingest, IngestUnexpected, OwnerInv, Inside, Loading, RunOnly
  <2>2. UNCHANGED <<dialect, created, lock, mode, pc, layers>>
    BY <1>2 DEF Ingest, IngestUnexpected
  <2> QED
    BY <1>2, <2>1, <2>2, OwnerWrites DEF Ingest, IngestUnexpected
<1>3. ASSUME NEW r \in Run, NEW p \in Path, MigrateLayer(r, p) PROVE OwnerInv'
  <2>1. Inside(r) /\ pc[r] # "bootstrap"
    BY <1>3 DEF MigrateLayer, OwnerInv, Inside, Loading, RunOnly
  <2> QED
    BY <1>3, <2>1, OwnerWrites DEF MigrateLayer
<1>4. ASSUME NEW r \in Run, NEW p \in Path, Drift(r, p) \/ IssueLost(r, p) PROVE OwnerInv'
  BY <1>4, OwnerMoves DEF Drift, IssueLost, Loading, RunOnly
<1>5. ASSUME NEW r \in Run, Open(r) PROVE OwnerInv'
  <2>1. Loaders' = Loaders
    BY <1>5 DEF Open, Loaders
  <2>2. CASE dialect = "sqlite" /\ created
    BY <1>5, <2>2, OwnerMoves DEF Open, Loading, RunOnly
  <2>3. CASE dialect = "sqlite" /\ ~created
    <3>1. \A s \in Run : ~Admitted(s)
      BY <2>3 DEF OwnerInv, Admitted
    <3>2. \A s \in Run : pc'[s] = IF s = r THEN "bootstrap" ELSE pc[s]
      BY <1>5, <2>3 DEF Open, Goto, TypeOK
    <3> QED
      BY <1>5, <2>1, <2>3, <3>1, <3>2 DEF Open, OwnerInv, Inside, Admitted, RunOnly
  <2>4. CASE dialect # "sqlite"
    <3>1. \A s \in Run : pc'[s] = IF s = r THEN "lock" ELSE pc[s]
      BY <1>5, <2>4 DEF Open, Goto, TypeOK
    <3>2. dialect = "postgres" /\ created' = created /\ UNCHANGED <<dialect, lock, mode>>
      BY <1>5, <2>4 DEF Open, TypeOK
    <3>3. \A s \in Run : Inside(s)' => Inside(s)
      BY <3>1, <3>2 DEF Inside, Loading
    <3> QED
      BY <1>5, <2>1, <3>1, <3>2, <3>3 DEF Open, OwnerInv, Inside, Admitted, RunOnly
  <2> QED
    BY <2>2, <2>3, <2>4
<1>6. ASSUME NEW r \in Run, Lock(r) PROVE OwnerInv'
  <2>1. Loaders' = Loaders
    BY <1>6 DEF Lock, Loaders
  <2>2. CASE lock = NoRun
    <3>1. \A s \in Run : pc'[s] = IF s = r THEN "empty" ELSE pc[s]
      BY <1>6, <2>2 DEF Lock, Goto, TypeOK
    <3>2. lock' = r /\ UNCHANGED <<dialect, created, mode>>
      BY <1>6, <2>2 DEF Lock
    <3>3. \A s \in Run : Inside(s)' => Inside(s)
      BY <3>1, <3>2 DEF Inside, Loading
    <3>4. \A s \in Run : pc[s] \in {"empty", "bootstrap"} => dialect # "postgres"
      BY <2>2, MigrationAssumption DEF OwnerInv
    <3> QED
      BY <1>6, <2>1, <3>1, <3>2, <3>3, <3>4 DEF Lock, OwnerInv, Inside, Admitted, RunOnly
  <2>3. CASE lock # NoRun
    BY <1>6, <2>3, OwnerMoves DEF Lock, Loading, RunOnly
  <2> QED
    BY <2>2, <2>3
<1>7. ASSUME NEW r \in Run, CheckEmpty(r) PROVE OwnerInv'
  <2>1. Loaders' = Loaders
    BY <1>7 DEF CheckEmpty, Loaders
  <2> QED
    BY <1>7, <2>1 DEF CheckEmpty, Goto, OwnerInv, Inside, Admitted, Loading, RunOnly, TypeOK
<1>8. ASSUME NEW r \in Run, Bootstrap(r) PROVE OwnerInv'
  <2>1. Loaders' = Loaders
    BY <1>8 DEF Bootstrap, Loaders
  <2> QED
    BY <1>8, <2>1 DEF Bootstrap, Goto, OwnerInv, Inside, Admitted, Loading, RunOnly, TypeOK
<1>9. ASSUME NEW r \in Run, InventoryDone(r) PROVE OwnerInv'
  BY <1>9, OwnerMoves DEF InventoryDone, Inside, OwnerInv, Loading, RunOnly
<1>10. ASSUME NEW r \in Run, ValidateDone(r) PROVE OwnerInv'
  BY <1>10, OwnerMoves DEF ValidateDone, Inside, OwnerInv, Loading, RunOnly
<1>11. ASSUME NEW r \in Run, ResolveDone(r) PROVE OwnerInv'
  BY <1>11, OwnerMoves DEF ResolveDone, Inside, OwnerInv, Loading, RunOnly
<1>12. ASSUME NEW r \in Run, Preview(r) PROVE OwnerInv'
  BY <1>12, OwnerMoves DEF Preview, Inside, OwnerInv, Loading, RunOnly
<1>13. ASSUME NEW r \in Run, Register(r) PROVE OwnerInv'
  BY <1>13, OwnerMoves DEF Register, Inside, OwnerInv, Loading, RunOnly
<1>14. ASSUME NEW r \in Run, IngestDone(r) PROVE OwnerInv'
  BY <1>14, OwnerMoves DEF IngestDone, Inside, OwnerInv, Loading, RunOnly
<1>15. ASSUME NEW r \in Run, CheckSources(r) PROVE OwnerInv'
  BY <1>15, OwnerMoves DEF CheckSources, Inside, OwnerInv, Loading, RunOnly
<1>16. ASSUME NEW r \in Run, Reconcile(r) PROVE OwnerInv'
  BY <1>16, OwnerMoves DEF Reconcile, Inside, OwnerInv, Loading, RunOnly
<1>17. ASSUME NEW r \in Run, Handover(r) PROVE OwnerInv'
  BY <1>17, OwnerMoves DEF Handover, Inside, OwnerInv, Loading, RunOnly
<1>18. ASSUME NEW r \in Run, LedgerDone(r) PROVE OwnerInv'
  BY <1>18, OwnerMoves DEF LedgerDone, Inside, OwnerInv, Loading, RunOnly
<1>19. ASSUME NEW r \in Run, Comparison(r) PROVE OwnerInv'
  BY <1>19, OwnerMoves DEF Comparison, Inside, OwnerInv, Loading, RunOnly
<1>20. ASSUME NEW r \in Run, Raise(r) PROVE OwnerInv'
  BY <1>20, OwnerMoves DEF Raise, Inside, OwnerInv, Loading, RunOnly
<1>21. ASSUME NEW r \in Run, Handle(r) PROVE OwnerInv'
  BY <1>21, OwnerMoves DEF Handle, Inside, OwnerInv, Loading, RunOnly
<1>22. ASSUME NEW r \in Run, HandleLost(r) PROVE OwnerInv'
  BY <1>22, OwnerMoves DEF HandleLost, Inside, OwnerInv, Loading, RunOnly
<1>23. ASSUME NEW r \in Run, Close(r) PROVE OwnerInv'
  BY <1>23, OwnerMoves DEF Close, Inside, OwnerInv, Loading, RunOnly, Disconnect
<1>24. ASSUME NEW r \in Run, CloseFails(r) PROVE OwnerInv'
  BY <1>24, OwnerMoves DEF CloseFails, Inside, OwnerInv, Loading, RunOnly
<1>25. ASSUME NEW r \in Run, Conclude(r) PROVE OwnerInv'
  BY <1>25, OwnerMoves DEF Conclude, Inside, OwnerInv, Loading, RunOnly
<1>26. ASSUME NEW r \in Run, Publish(r) PROVE OwnerInv'
  BY <1>26, OwnerMoves DEF Publish, Inside, OwnerInv, Loading, RunOnly, Disconnect
<1>27. ASSUME NEW r \in Run, Abort(r) PROVE OwnerInv'
  BY <1>27, OwnerMoves DEF Abort, Inside, OwnerInv, Loading, RunOnly, Disconnect
<1>28. ASSUME NEW r \in Run, Crash(r) PROVE OwnerInv'
  BY <1>28, OwnerMoves DEF Crash, Inside, OwnerInv, Loading, RunOnly, Disconnect
<1>29. ASSUME NEW r \in Run, Start(r) PROVE OwnerInv'
  BY <1>29, OwnerMoves DEF Start, Inside, OwnerInv, Loading, RunOnly
<1>30. ASSUME NEW x \in Source, Edit(x) PROVE OwnerInv'
  BY <1>30, OwnerFrame DEF Edit
<1>31. CASE UNCHANGED vars
  BY <1>31, OwnerFrame DEF vars
<1> QED
  BY <1>1, <1>2, <1>3, <1>4, <1>5, <1>6, <1>7, <1>8, <1>9, <1>10, <1>11, <1>12, <1>13, <1>14,
     <1>15, <1>16, <1>17, <1>18, <1>19, <1>20, <1>21, <1>22, <1>23, <1>24, <1>25, <1>26, <1>27,
     <1>28, <1>29, <1>30, <1>31
     DEF Next, RunStep, Fault, PhaseStep, SourceStep

\* OneLoaderPerTarget: whatever runs are started, crash or fail, one target holds the
\* artifacts and layers of one run.
THEOREM SingleLoader == Spec => []OneLoaderPerTarget
<1>1. Init => TypeOK /\ OwnerInv
  BY TypeInit, OwnerInit
<1>2. TypeOK /\ OwnerInv /\ [Next]_vars => (TypeOK /\ OwnerInv)'
  BY TypeNext, OwnerNext
<1>3. TypeOK /\ OwnerInv => OneLoaderPerTarget
  BY DEF OwnerInv, OneLoaderPerTarget, Admitted
<1> QED
  BY <1>1, <1>2, <1>3, PTL DEF Spec

-----------------------------------------------------------------------------
(* The verdict                                                             *)

Late   == {"handover", "ledger", "comparison", "handler", "close", "conclude", "publish"}
            \cup Ended
Stored == {"ingested", "delegated"}

Row(r, p)    == <<r, p, sources[r][p]>>
LayerOf(r, p) == <<r, p, layerIds[r][p]>>

\* Every delegated layer is in the ledger.
Delivered(r) == \A p \in Path : states[r][p] = "delegated" => LayerOf(r, p) \in layers

VerdictInv(r) ==
  /\ \A p \in Path : states[r][p] = "ingested" => Row(r, p) \in rows
  /\ \A p \in Path : states[r][p] \in Stored => pc[r] \in {"ingest", "sources", "target"} \cup Late
  /\ result[r].passed => pc[r] \in Late /\ \A p \in Path : states[r][p] \in Clean
  /\ pc[r] = "ledger" =>
       \A p \in Path : states[r][p] = "delegated" =>
         p \in todo[r] \/ LayerOf(r, p) \in layers \/ p \in blocking[r]
  /\ result[r].ledger = "passed" =>
       /\ pc[r] \in Late \ {"handover", "ledger"}
       /\ result[r].status = "passed" /\ blocking[r] = {} => Delivered(r)
  /\ caught[r] => blocking[r] # {}
  /\ result[r].migration_ready =>
       /\ pc[r] \in {"publish"} \cup Ended
       /\ blocking[r] = {} /\ result[r].passed /\ Delivered(r)
  /\ saved[r].migration_ready =>
       /\ pc[r] \in Ended
       /\ blocking[r] = {} /\ result[r].passed /\ Delivered(r)

\* What run s alone decides.
Own(s) == <<pc[s], todo[s], states[s], sources[s], layerIds[s], blocking[s], caught[s],
            result[s], saved[s]>>

LEMMA VerdictFrame ==
  ASSUME NEW s \in Run, VerdictInv(s), Own(s)' = Own(s), rows \subseteq rows', layers \subseteq layers'
  PROVE  VerdictInv(s)'
BY DEF VerdictInv, Own, Row, LayerOf, Delivered

\* A step of one run leaves what the others decide alone, and only adds to the target.
LEMMA OnlyOne ==
  ASSUME TypeOK, NEW r \in Run, RunStep(r) \/ Fault(r), NEW s \in Run, s # r
  PROVE  Own(s)' = Own(s) /\ rows \subseteq rows' /\ layers \subseteq layers'
<1> USE DEF TypeOK, Own, world, plans, reports, Goto, Step, Settle, Visit, Loop, Count, Report,
        Checkpoint, Disconnect
<1>1. ASSUME NEW p \in Path, Skip(r, p) PROVE Own(s)' = Own(s) /\ rows \subseteq rows' /\ layers \subseteq layers'
  BY <1>1 DEF Skip
<1>2. ASSUME NEW p \in Path, Refuse(r, p) PROVE Own(s)' = Own(s) /\ rows \subseteq rows' /\ layers \subseteq layers'
  BY <1>2 DEF Refuse
<1>3. ASSUME NEW p \in Path, Select(r, p) PROVE Own(s)' = Own(s) /\ rows \subseteq rows' /\ layers \subseteq layers'
  BY <1>3 DEF Select
<1>4. ASSUME NEW p \in Path, Validate(r, p) PROVE Own(s)' = Own(s) /\ rows \subseteq rows' /\ layers \subseteq layers'
  BY <1>4 DEF Validate
<1>5. ASSUME NEW p \in Path, ValidateRejects(r, p) PROVE Own(s)' = Own(s) /\ rows \subseteq rows' /\ layers \subseteq layers'
  BY <1>5 DEF ValidateRejects
<1>6. ASSUME NEW p \in Path, Resolve(r, p) PROVE Own(s)' = Own(s) /\ rows \subseteq rows' /\ layers \subseteq layers'
  BY <1>6 DEF Resolve
<1>7. ASSUME NEW p \in Path, Claim(r, p) PROVE Own(s)' = Own(s) /\ rows \subseteq rows' /\ layers \subseteq layers'
  BY <1>7 DEF Claim
<1>8. ASSUME NEW p \in Path, ResolveFails(r, p) PROVE Own(s)' = Own(s) /\ rows \subseteq rows' /\ layers \subseteq layers'
  BY <1>8 DEF ResolveFails
<1>9. ASSUME NEW p \in Path, Delegate(r, p) PROVE Own(s)' = Own(s) /\ rows \subseteq rows' /\ layers \subseteq layers'
  BY <1>9 DEF Delegate
<1>10. ASSUME NEW p \in Path, Ingest(r, p) PROVE Own(s)' = Own(s) /\ rows \subseteq rows' /\ layers \subseteq layers'
  BY <1>10 DEF Ingest
<1>11. ASSUME NEW p \in Path, AlreadyBound(r, p) PROVE Own(s)' = Own(s) /\ rows \subseteq rows' /\ layers \subseteq layers'
  BY <1>11 DEF AlreadyBound
<1>12. ASSUME NEW p \in Path, IngestFails(r, p) PROVE Own(s)' = Own(s) /\ rows \subseteq rows' /\ layers \subseteq layers'
  BY <1>12 DEF IngestFails
<1>13. ASSUME NEW p \in Path, IngestUnexpected(r, p) PROVE Own(s)' = Own(s) /\ rows \subseteq rows' /\ layers \subseteq layers'
  BY <1>13 DEF IngestUnexpected
<1>14. ASSUME NEW p \in Path, Drift(r, p) PROVE Own(s)' = Own(s) /\ rows \subseteq rows' /\ layers \subseteq layers'
  BY <1>14 DEF Drift
<1>15. ASSUME NEW p \in Path, MigrateLayer(r, p) PROVE Own(s)' = Own(s) /\ rows \subseteq rows' /\ layers \subseteq layers'
  BY <1>15 DEF MigrateLayer
<1>16. ASSUME NEW p \in Path, LayerRejected(r, p) PROVE Own(s)' = Own(s) /\ rows \subseteq rows' /\ layers \subseteq layers'
  BY <1>16 DEF LayerRejected
<1>17. ASSUME NEW p \in Path, IssueLost(r, p) PROVE Own(s)' = Own(s) /\ rows \subseteq rows' /\ layers \subseteq layers'
  BY <1>17 DEF IssueLost
<1>18. CASE Start(r)
  BY <1>18 DEF Start
<1>19. CASE InventoryDone(r)
  BY <1>19 DEF InventoryDone
<1>20. CASE Open(r)
  BY <1>20 DEF Open
<1>21. CASE Lock(r)
  BY <1>21 DEF Lock
<1>22. CASE CheckEmpty(r)
  BY <1>22 DEF CheckEmpty
<1>23. CASE Bootstrap(r)
  BY <1>23 DEF Bootstrap
<1>24. CASE ValidateDone(r)
  BY <1>24 DEF ValidateDone
<1>25. CASE ResolveDone(r)
  BY <1>25 DEF ResolveDone
<1>26. CASE Preview(r)
  BY <1>26 DEF Preview
<1>27. CASE Register(r)
  BY <1>27 DEF Register
<1>28. CASE IngestDone(r)
  BY <1>28 DEF IngestDone
<1>29. CASE CheckSources(r)
  BY <1>29 DEF CheckSources
<1>30. CASE Reconcile(r)
  BY <1>30 DEF Reconcile
<1>31. CASE Handover(r)
  BY <1>31 DEF Handover
<1>32. CASE LedgerDone(r)
  BY <1>32 DEF LedgerDone
<1>33. CASE Comparison(r)
  BY <1>33 DEF Comparison
<1>34. CASE Raise(r)
  BY <1>34 DEF Raise
<1>35. CASE Handle(r)
  BY <1>35 DEF Handle
<1>36. CASE HandleLost(r)
  BY <1>36 DEF HandleLost
<1>37. CASE Close(r)
  BY <1>37 DEF Close
<1>38. CASE CloseFails(r)
  BY <1>38 DEF CloseFails
<1>39. CASE Conclude(r)
  BY <1>39 DEF Conclude
<1>40. CASE Publish(r)
  BY <1>40 DEF Publish
<1>41. CASE Abort(r)
  BY <1>41 DEF Abort
<1>42. CASE Crash(r)
  BY <1>42 DEF Crash
<1> QED
  BY <1>1, <1>2, <1>3, <1>4, <1>5, <1>6, <1>7, <1>8, <1>9, <1>10, <1>11, <1>12, <1>13, <1>14,
     <1>15, <1>16, <1>17, <1>18, <1>19, <1>20, <1>21, <1>22, <1>23, <1>24, <1>25, <1>26, <1>27,
     <1>28, <1>29, <1>30, <1>31, <1>32, <1>33, <1>34, <1>35, <1>36, <1>37, <1>38, <1>39, <1>40,
     <1>41, <1>42
     DEF RunStep, Fault, PhaseStep, SourceStep

LEMMA VerdictStep ==
  ASSUME TypeOK, NEW r \in Run, VerdictInv(r), RunStep(r) \/ Fault(r)
  PROVE  VerdictInv(r)'
<1> USE DEF TypeOK, world, plans, reports, Goto, Step, Visit, Loop, Count, Report,
        Checkpoint, Disconnect, VerdictInv, Row, LayerOf, Delivered
<1>1. ASSUME NEW p \in Path, Skip(r, p) PROVE VerdictInv(r)'
  BY <1>1 DEF Skip, Settle, Stored, Late, Ended, Source, Clean
<1>2. ASSUME NEW p \in Path, Refuse(r, p) PROVE VerdictInv(r)'
  BY <1>2 DEF Refuse, Settle, Stored, Late, Ended, Source, Clean
<1>3. ASSUME NEW p \in Path, Select(r, p) PROVE VerdictInv(r)'
  BY <1>3 DEF Select, Settle, Stored, Late, Ended, Source, Clean
<1>4. ASSUME NEW p \in Path, Validate(r, p) PROVE VerdictInv(r)'
  BY <1>4 DEF Validate, Settle, Stored, Late, Ended, Source, Clean
<1>5. ASSUME NEW p \in Path, ValidateRejects(r, p) PROVE VerdictInv(r)'
  BY <1>5 DEF ValidateRejects, Settle, Stored, Late, Ended, Source, Clean
<1>6. ASSUME NEW p \in Path, Resolve(r, p) PROVE VerdictInv(r)'
  BY <1>6 DEF Resolve, Settle, Stored, Late, Ended, Source, Clean
<1>7. ASSUME NEW p \in Path, Claim(r, p) PROVE VerdictInv(r)'
  BY <1>7 DEF Claim, Settle, Stored, Late, Ended, Source, Clean
<1>8. ASSUME NEW p \in Path, ResolveFails(r, p) PROVE VerdictInv(r)'
  BY <1>8 DEF ResolveFails, Settle, Stored, Late, Ended, Source, Clean
<1>9. ASSUME NEW p \in Path, Delegate(r, p) PROVE VerdictInv(r)'
  BY <1>9 DEF Delegate, Settle, Stored, Late, Ended, Source, Clean
<1>10. ASSUME NEW p \in Path, Ingest(r, p) PROVE VerdictInv(r)'
  <2>1. pc[r] = "ingest" /\ pc' = pc /\ UNCHANGED <<plans, reports, result, saved, layers>>
    BY <1>10 DEF Ingest
  <2>2. \A q \in Path : states'[r][q] = IF q = p THEN "ingested" ELSE states[r][q]
    BY <1>10 DEF Ingest, Settle
  <2>3. <<r, p, sources[r][p]>> \in rows' /\ rows \subseteq rows'
    BY <1>10 DEF Ingest, SourceHolds
  <2>4. \A q \in Path : states'[r][q] = "ingested" => Row(r, q)' \in rows'
    BY <2>1, <2>2, <2>3
  <2>5. \A q \in Path : states'[r][q] \in Stored => pc'[r] \in {"ingest", "sources", "target"} \cup Late
    BY <2>1
  <2>6. ~result[r].passed /\ result[r].ledger # "passed" /\ ~result[r].migration_ready
    BY <2>1 DEF Late, Ended, Result
  <2>7. ~saved[r].migration_ready
    BY <2>1 DEF Ended
  <2> QED
    BY <2>1, <2>4, <2>5, <2>6, <2>7
<1>11. ASSUME NEW p \in Path, AlreadyBound(r, p) PROVE VerdictInv(r)'
  BY <1>11 DEF AlreadyBound, Settle, Stored, Late, Ended, Source, Clean
<1>12. ASSUME NEW p \in Path, IngestFails(r, p) PROVE VerdictInv(r)'
  BY <1>12 DEF IngestFails, Settle, Stored, Late, Ended, Source, Clean
<1>13. ASSUME NEW p \in Path, IngestUnexpected(r, p) PROVE VerdictInv(r)'
  BY <1>13 DEF IngestUnexpected, Settle, Stored, Late, Ended, Source, Clean
<1>14. ASSUME NEW p \in Path, Drift(r, p) PROVE VerdictInv(r)'
  BY <1>14 DEF Drift, Settle, Stored, Late, Ended, Source, Clean
<1>15. ASSUME NEW p \in Path, MigrateLayer(r, p) PROVE VerdictInv(r)'
  BY <1>15 DEF MigrateLayer, Settle, Stored, Late, Ended, Source, Clean
<1>16. ASSUME NEW p \in Path, LayerRejected(r, p) PROVE VerdictInv(r)'
  BY <1>16 DEF LayerRejected, Settle, Stored, Late, Ended, Source, Clean
<1>17. ASSUME NEW p \in Path, IssueLost(r, p) PROVE VerdictInv(r)'
  BY <1>17 DEF IssueLost, Settle, Stored, Late, Ended, Source, Clean
<1>18. CASE Start(r)
  BY <1>18, MigrationAssumption DEF Start, Stored, Late, Ended, Source, Clean
<1>19. CASE InventoryDone(r)
  BY <1>19, MigrationAssumption DEF InventoryDone, Stored, Late, Ended, Source, Clean
<1>20. CASE Open(r)
  BY <1>20, MigrationAssumption DEF Open, Stored, Late, Ended, Source, Clean
<1>21. CASE Lock(r)
  BY <1>21, MigrationAssumption DEF Lock, Stored, Late, Ended, Source, Clean
<1>22. CASE CheckEmpty(r)
  BY <1>22, MigrationAssumption DEF CheckEmpty, Stored, Late, Ended, Source, Clean
<1>23. CASE Bootstrap(r)
  BY <1>23, MigrationAssumption DEF Bootstrap, Stored, Late, Ended, Source, Clean
<1>24. CASE ValidateDone(r)
  BY <1>24, MigrationAssumption DEF ValidateDone, Stored, Late, Ended, Source, Clean
<1>25. CASE ResolveDone(r)
  BY <1>25, MigrationAssumption DEF ResolveDone, Stored, Late, Ended, Source, Clean
<1>26. CASE Preview(r)
  <2>1. pc[r] = "preview" /\ UNCHANGED <<world, plans, reports>>
    BY <1>26 DEF Preview
  <2>2. ~result[r].passed /\ result[r].ledger # "passed" /\ ~result[r].migration_ready
    BY <2>1 DEF Late, Ended, Result
  <2>3. ~saved[r].migration_ready
    BY <2>1 DEF Ended
  <2>4. \A p \in Path : states[r][p] \notin Stored
    BY <2>1 DEF Late, Ended
  <2>5. \A p \in Path : states'[r][p] \notin Stored
    BY <1>26, <2>4 DEF Preview, Stored
  <2>6. /\ ~result'[r].passed /\ result'[r].ledger # "passed" /\ ~result'[r].migration_ready
        /\ saved' = saved /\ pc'[r] # "ledger"
    <3>1. CASE InventoryHolds(r) /\ SourcesHold(r) /\ PinsHold(r)
      <4>1. result'[r] = [result[r] EXCEPT !.status = "planned", !.diagnostics_complete = TRUE]
        BY <1>26, <3>1 DEF Preview
      <4>2. saved' = saved /\ pc'[r] = "close"
        BY <1>26, <3>1 DEF Preview
      <4> QED
        BY <2>2, <4>1, <4>2 DEF Result
    <3>2. CASE ~(InventoryHolds(r) /\ SourcesHold(r) /\ PinsHold(r))
      BY <1>26, <2>2, <3>2 DEF Preview
    <3> QED
      BY <3>1, <3>2
  <2> QED
    BY <2>1, <2>3, <2>5, <2>6 DEF Stored
<1>27. CASE Register(r)
  BY <1>27, MigrationAssumption DEF Register, Stored, Late, Ended, Source, Clean
<1>28. CASE IngestDone(r)
  BY <1>28, MigrationAssumption DEF IngestDone, Stored, Late, Ended, Source, Clean
<1>29. CASE CheckSources(r)
  BY <1>29, MigrationAssumption DEF CheckSources, Stored, Late, Ended, Source, Clean
<1>30. CASE Reconcile(r)
  <2>1. pc[r] = "target" /\ UNCHANGED <<world, plans, reports>>
    BY <1>30 DEF Reconcile
  <2>2. ~result[r].passed /\ result[r].ledger # "passed" /\ ~result[r].migration_ready
    BY <2>1 DEF Late, Ended, Result
  <2>3. ~saved[r].migration_ready
    BY <2>1 DEF Ended
  <2>4. states' = states
    BY <1>30 DEF Reconcile
  <2>5. CASE TargetHolds(r)
    <3> DEFINE b == Reconciled(r)
    <3>0. b \in BOOLEAN
      BY DEF Reconciled
    <3>3. result'[r] = [result[r] EXCEPT !.passed = b, !.diagnostics_complete = TRUE,
                          !.status = IF b THEN "passed" ELSE "failed"]
      BY <1>30, <2>5 DEF Reconcile
    <3> HIDE DEF b
    <3>4. /\ result'[r].passed = b /\ result'[r].ledger = result[r].ledger
          /\ result'[r].migration_ready = result[r].migration_ready
      BY <3>0, <3>3 DEF Result
    <3> USE DEF b
    <3>1. /\ result'[r].passed = Reconciled(r) /\ result'[r].ledger # "passed"
          /\ ~result'[r].migration_ready
      BY <2>2, <3>4
    <3>2. saved'[r] = result'[r] /\ pc'[r] = "handover"
      BY <1>30, <2>5 DEF Reconcile
    <3> QED
      BY <2>1, <2>4, <3>1, <3>2 DEF Reconciled, Late
  <2>6. CASE ~TargetHolds(r)
    <3>1. result' = result /\ saved'[r] = result[r] /\ pc'[r] = "handler"
      BY <1>30, <2>6 DEF Reconcile
    <3> QED
      BY <2>1, <2>2, <2>4, <3>1 DEF Late
  <2> QED
    BY <2>5, <2>6
<1>31. CASE Handover(r)
  BY <1>31, MigrationAssumption DEF Handover, Stored, Late, Ended, Source, Clean, In
<1>32. CASE LedgerDone(r)
  <2>1. /\ pc[r] = "ledger" /\ pc'[r] = "comparison"
        /\ UNCHANGED <<world, plans, reports, todo, states, saved>>
    BY <1>32 DEF LedgerDone
  <2>2. /\ result'[r].passed = result[r].passed
        /\ result'[r].migration_ready = result[r].migration_ready
    BY <1>32 DEF LedgerDone, Result
  <2>3. result'[r].status = "passed" => todo[r] = {} /\ blocking[r] = {}
    BY <1>32 DEF LedgerDone, Result
  <2>4. ~result[r].migration_ready /\ ~saved[r].migration_ready
    BY <2>1 DEF Ended
  <2>5. todo[r] = {} /\ blocking[r] = {} => Delivered(r)
    BY <2>1
  <2> QED
    BY <2>1, <2>2, <2>3, <2>4, <2>5 DEF Late
<1>33. CASE Comparison(r)
  BY <1>33, MigrationAssumption DEF Comparison, Stored, Late, Ended, Source, Clean
<1>34. CASE Raise(r)
  BY <1>34, MigrationAssumption DEF Raise, Stored, Late, Ended, Source, Clean, Trying
<1>35. CASE Handle(r)
  BY <1>35, MigrationAssumption DEF Handle, Stored, Late, Ended, Source, Clean, Result
<1>36. CASE HandleLost(r)
  BY <1>36, MigrationAssumption DEF HandleLost, Stored, Late, Ended, Source, Clean
<1>37. CASE Close(r)
  BY <1>37, MigrationAssumption DEF Close, Stored, Late, Ended, Source, Clean
<1>38. CASE CloseFails(r)
  BY <1>38, MigrationAssumption DEF CloseFails, Stored, Late, Ended, Source, Clean, Result
<1>39. CASE Conclude(r)
  BY <1>39, MigrationAssumption DEF Conclude, Stored, Late, Ended, Source, Clean, Ready, In, Result
<1>40. CASE Publish(r)
  BY <1>40, MigrationAssumption DEF Publish, Stored, Late, Ended, Source, Clean
<1>41. CASE Abort(r)
  BY <1>41, MigrationAssumption DEF Abort, Stored, Late, Ended, Source, Clean
<1>42. CASE Crash(r)
  BY <1>42, MigrationAssumption DEF Crash, Stored, Late, Ended, Source, Clean
<1> QED
  BY <1>1, <1>2, <1>3, <1>4, <1>5, <1>6, <1>7, <1>8, <1>9, <1>10, <1>11, <1>12, <1>13, <1>14,
     <1>15, <1>16, <1>17, <1>18, <1>19, <1>20, <1>21, <1>22, <1>23, <1>24, <1>25, <1>26, <1>27,
     <1>28, <1>29, <1>30, <1>31, <1>32, <1>33, <1>34, <1>35, <1>36, <1>37, <1>38, <1>39, <1>40,
     <1>41, <1>42
     DEF RunStep, Fault, PhaseStep, SourceStep

LEMMA VerdictInit == ASSUME Init, NEW r \in Run PROVE VerdictInv(r)
BY DEF Init, VerdictInv, NewResult, NoResult, Stored

LEMMA VerdictNext ==
  TypeOK /\ (\A r \in Run : VerdictInv(r)) /\ [Next]_vars => (\A r \in Run : VerdictInv(r))'
<1> SUFFICES ASSUME TypeOK, \A r \in Run : VerdictInv(r), [Next]_vars, NEW s \in Run
             PROVE  VerdictInv(s)'
  OBVIOUS
<1>1. ASSUME NEW r \in Run, RunStep(r) \/ Fault(r) PROVE VerdictInv(s)'
  <2>1. CASE s = r
    BY <1>1, <2>1, VerdictStep
  <2>2. CASE s # r
    BY <1>1, <2>2, OnlyOne, VerdictFrame
  <2> QED
    BY <2>1, <2>2
<1>2. ASSUME NEW x \in Source, Edit(x) PROVE VerdictInv(s)'
  BY <1>2, VerdictFrame DEF Edit, Own, plans, reports
<1>3. CASE UNCHANGED vars
  BY <1>3, VerdictFrame DEF vars, Own, world, plans, reports
<1> QED
  BY <1>1, <1>2, <1>3 DEF Next

\* ReadyMeansMigrated and ReadyMeansClean: a saved migration_ready is backed by the
\* target and by the ledger, and no failure of the run precedes it.
THEOREM ReadyIsBacked == Spec => [](ReadyMeansMigrated /\ ReadyMeansClean)
<1>1. Init => TypeOK /\ \A r \in Run : VerdictInv(r)
  BY TypeInit, VerdictInit
<1>2. TypeOK /\ (\A r \in Run : VerdictInv(r)) /\ [Next]_vars
        => (TypeOK /\ \A r \in Run : VerdictInv(r))'
  BY TypeNext, VerdictNext
<1>3. TypeOK /\ (\A r \in Run : VerdictInv(r)) => ReadyMeansMigrated /\ ReadyMeansClean
  BY DEF TypeOK, VerdictInv, ReadyMeansMigrated, ReadyMeansClean, Row, LayerOf, Delivered
<1> QED
  BY <1>1, <1>2, <1>3, PTL DEF Spec

\* ReadyMeansMigrated: every source behind a saved migration_ready is where it should be.
THEOREM ReadyIsMigrated == Spec => []ReadyMeansMigrated
<1>1. Spec => [](ReadyMeansMigrated /\ ReadyMeansClean)
  BY ReadyIsBacked
<1> QED
  BY <1>1, PTL

\* ReadyMeansClean: no failure and no blocking issue precedes a saved migration_ready.
THEOREM ReadyIsClean == Spec => []ReadyMeansClean
<1>1. Spec => [](ReadyMeansMigrated /\ ReadyMeansClean)
  BY ReadyIsBacked
<1> QED
  BY <1>1, PTL

-----------------------------------------------------------------------------
(* The books: which source has which layer, and what became of each source *)

Dropped == {"rejected", "unrecognized", "blocked"}

\* A layer id is claimed once, before its source is delegated, and stays from then on.
Claims(r) ==
  /\ \A p, q \in Path : layerIds[r][p] = layerIds[r][q] /\ layerIds[r][p] # NoLayer => p = q
  /\ \A x \in layers : x[1] = r =>
       pc[r] \in Late /\ x[3] = layerIds[r][x[2]] /\ x[3] # NoLayer
  /\ pc[r] = "resolve" => \A p \in routed[r] :
       states[r][p] = "pending" => p \in todo[r] \/ layerIds[r][p] # NoLayer
  /\ pc[r] \in {"registry", "ingest"} => \A p \in routed[r] :
       states[r][p] = "pending" => layerIds[r][p] # NoLayer
  /\ \A p \in Path : states[r][p] = "delegated" => layerIds[r][p] # NoLayer
  /\ pc[r] = "ingest" => \A p \in todo[r] : states[r][p] = "pending"
  /\ pc[r] = "ledger" => \A p \in todo[r] : states[r][p] = "delegated"

\* A source that was dropped has its issue, and none is pending once the loop that stores is over.
Accounts(r) ==
  /\ \A p \in Path : states[r][p] \in Dropped => p \in issues[r]
  /\ pc[r] = "ingest" => Pending(r) \subseteq todo[r]
  /\ pc[r] \in {"sources", "target"} => Pending(r) = {}
  /\ result[r].diagnostics_complete => pc[r] \in Late /\ Pending(r) = {}
  /\ saved[r].diagnostics_complete => pc[r] \in Late /\ Pending(r) = {}

Books(r) == Claims(r) /\ Accounts(r)

LEMMA BooksInit == ASSUME Init, NEW r \in Run PROVE Books(r)
BY DEF Init, Books, Claims, Accounts, Pending, In, NewResult, NoResult, Dropped

\* A step of one run leaves the books of the others alone.
LEMMA BooksFrame ==
  ASSUME NEW s \in Run, Books(s), Own(s)' = Own(s), routed'[s] = routed[s], issues'[s] = issues[s],
         \A x \in layers' : x \in layers \/ x[1] # s
  PROVE  Books(s)'
BY DEF Books, Claims, Accounts, Own, Pending, In

LEMMA OnlyOneBook ==
  ASSUME TypeOK, NEW r \in Run, RunStep(r) \/ Fault(r), NEW s \in Run, s # r
  PROVE  /\ routed'[s] = routed[s] /\ issues'[s] = issues[s]
         /\ \A x \in layers' : x \in layers \/ x[1] # s
<1> USE DEF TypeOK, world, plans, reports, Report, Count
<1>1. ASSUME NEW p \in Path, MigrateLayer(r, p)
      PROVE  /\ routed'[s] = routed[s] /\ issues'[s] = issues[s]
             /\ \A x \in layers' : x \in layers \/ x[1] # s
  BY <1>1 DEF MigrateLayer
<1>2. ASSUME NEW p \in Path, SourceStep(r, p), ~MigrateLayer(r, p)
      PROVE  /\ routed'[s] = routed[s] /\ issues'[s] = issues[s]
             /\ \A x \in layers' : x \in layers \/ x[1] # s
  BY <1>2 DEF SourceStep, Skip, Refuse, Select, Validate, ValidateRejects, Resolve, Claim,
     ResolveFails, Delegate, Ingest, AlreadyBound, IngestFails, IngestUnexpected, Drift,
     LayerRejected
<1>3. CASE PhaseStep(r) \/ Fault(r)
  BY <1>3 DEF PhaseStep, Fault, IssueLost, Start, InventoryDone, Open, Lock, CheckEmpty, Bootstrap, ValidateDone,
     ResolveDone, Preview, Register, IngestDone, CheckSources, Reconcile, Handover, LedgerDone,
     Comparison, Raise, Handle, HandleLost, Close, CloseFails, Conclude, Publish, Abort, Crash
<1> QED
  BY <1>1, <1>2, <1>3 DEF RunStep

LEMMA BooksStep ==
  ASSUME TypeOK, NEW r \in Run, Books(r), RunStep(r) \/ Fault(r)
  PROVE  Books(r)'
<1> USE MigrationAssumption
    DEF TypeOK, world, plans, reports, Goto, Step, Visit, Loop, Count, Report, Checkpoint,
        Disconnect, Books, Claims, Accounts, Pending, In
<1>1. ASSUME NEW p \in Path, Skip(r, p) PROVE Books(r)'
  BY <1>1 DEF Skip, Settle, Late, Ended, Source, Dropped
<1>2. ASSUME NEW p \in Path, Refuse(r, p) PROVE Books(r)'
  BY <1>2 DEF Refuse, Settle, Late, Ended, Source, Dropped
<1>3. ASSUME NEW p \in Path, Select(r, p) PROVE Books(r)'
  BY <1>3 DEF Select, Settle, Late, Ended, Source, Dropped
<1>4. ASSUME NEW p \in Path, Validate(r, p) PROVE Books(r)'
  BY <1>4 DEF Validate, Settle, Late, Ended, Source, Dropped
<1>5. ASSUME NEW p \in Path, ValidateRejects(r, p) PROVE Books(r)'
  BY <1>5 DEF ValidateRejects, Settle, Late, Ended, Source, Dropped
<1>6. ASSUME NEW p \in Path, Resolve(r, p) PROVE Books(r)'
  BY <1>6 DEF Resolve, Settle, Late, Ended, Source, Dropped
<1>7. ASSUME NEW p \in Path, Claim(r, p) PROVE Books(r)'
  BY <1>7 DEF Claim, Settle, Late, Ended, Source, Dropped
<1>8. ASSUME NEW p \in Path, ResolveFails(r, p) PROVE Books(r)'
  BY <1>8 DEF ResolveFails, Settle, Late, Ended, Source, Dropped
<1>9. ASSUME NEW p \in Path, Delegate(r, p) PROVE Books(r)'
  BY <1>9 DEF Delegate, Settle, Late, Ended, Source, Dropped
<1>10. ASSUME NEW p \in Path, Ingest(r, p) PROVE Books(r)'
  BY <1>10 DEF Ingest, Settle, Late, Ended, Source, Dropped
<1>11. ASSUME NEW p \in Path, AlreadyBound(r, p) PROVE Books(r)'
  BY <1>11 DEF AlreadyBound, Settle, Late, Ended, Source, Dropped
<1>12. ASSUME NEW p \in Path, IngestFails(r, p) PROVE Books(r)'
  BY <1>12 DEF IngestFails, Settle, Late, Ended, Source, Dropped
<1>13. ASSUME NEW p \in Path, IngestUnexpected(r, p) PROVE Books(r)'
  BY <1>13 DEF IngestUnexpected, Settle, Late, Ended, Source, Dropped
<1>14. ASSUME NEW p \in Path, Drift(r, p) PROVE Books(r)'
  BY <1>14 DEF Drift, Settle, Late, Ended, Source, Dropped
<1>15. ASSUME NEW p \in Path, MigrateLayer(r, p) PROVE Books(r)'
  BY <1>15 DEF MigrateLayer, Settle, Late, Ended, Source, Dropped
<1>16. ASSUME NEW p \in Path, LayerRejected(r, p) PROVE Books(r)'
  BY <1>16 DEF LayerRejected, Settle, Late, Ended, Source, Dropped
<1>17. ASSUME NEW p \in Path, IssueLost(r, p) PROVE Books(r)'
  BY <1>17 DEF IssueLost, Settle, Late, Ended, Source, Dropped
<1>18. CASE Start(r)
  BY <1>18 DEF Start, Late, Ended, Dropped, Result, NewResult, Trying
<1>19. CASE InventoryDone(r)
  BY <1>19 DEF InventoryDone, Late, Ended, Dropped, Result, NewResult, Trying
<1>20. CASE Open(r)
  BY <1>20 DEF Open, Late, Ended, Dropped, Result, NewResult, Trying
<1>21. CASE Lock(r)
  BY <1>21 DEF Lock, Late, Ended, Dropped, Result, NewResult, Trying
<1>22. CASE CheckEmpty(r)
  BY <1>22 DEF CheckEmpty, Late, Ended, Dropped, Result, NewResult, Trying
<1>23. CASE Bootstrap(r)
  BY <1>23 DEF Bootstrap, Late, Ended, Dropped, Result, NewResult, Trying
<1>24. CASE ValidateDone(r)
  BY <1>24 DEF ValidateDone, Late, Ended, Dropped, Result, NewResult, Trying
<1>25. CASE ResolveDone(r)
  BY <1>25 DEF ResolveDone, Late, Ended, Dropped, Result, NewResult, Trying
<1>26. CASE Preview(r)
  BY <1>26 DEF Preview, Late, Ended, Dropped, Result, NewResult, Trying
<1>27. CASE Register(r)
  BY <1>27 DEF Register, Late, Ended, Dropped, Result, NewResult, Trying
<1>28. CASE IngestDone(r)
  BY <1>28 DEF IngestDone, Late, Ended, Dropped, Result, NewResult, Trying
<1>29. CASE CheckSources(r)
  BY <1>29 DEF CheckSources, Late, Ended, Dropped, Result, NewResult, Trying
<1>30. CASE Reconcile(r)
  BY <1>30 DEF Reconcile, Late, Ended, Dropped, Result, NewResult, Trying
<1>31. CASE Handover(r)
  BY <1>31 DEF Handover, Late, Ended, Dropped, Result, NewResult, Trying
<1>32. CASE LedgerDone(r)
  BY <1>32 DEF LedgerDone, Late, Ended, Dropped, Result, NewResult, Trying
<1>33. CASE Comparison(r)
  BY <1>33 DEF Comparison, Late, Ended, Dropped, Result, NewResult, Trying
<1>34. CASE Raise(r)
  BY <1>34 DEF Raise, Late, Ended, Dropped, Result, NewResult, Trying
<1>35. CASE Handle(r)
  BY <1>35 DEF Handle, Late, Ended, Dropped, Result, NewResult, Trying
<1>36. CASE HandleLost(r)
  BY <1>36 DEF HandleLost, Late, Ended, Dropped, Result, NewResult, Trying
<1>37. CASE Close(r)
  BY <1>37 DEF Close, Late, Ended, Dropped, Result, NewResult, Trying
<1>38. CASE CloseFails(r)
  BY <1>38 DEF CloseFails, Late, Ended, Dropped, Result, NewResult, Trying
<1>39. CASE Conclude(r)
  BY <1>39 DEF Conclude, Late, Ended, Dropped, Result, NewResult, Trying
<1>40. CASE Publish(r)
  BY <1>40 DEF Publish, Late, Ended, Dropped, Result, NewResult, Trying
<1>41. CASE Abort(r)
  BY <1>41 DEF Abort, Late, Ended, Dropped, Result, NewResult, Trying
<1>42. CASE Crash(r)
  BY <1>42 DEF Crash, Late, Ended, Dropped, Result, NewResult, Trying
<1> QED
  BY <1>1, <1>2, <1>3, <1>4, <1>5, <1>6, <1>7, <1>8, <1>9, <1>10, <1>11, <1>12, <1>13, <1>14,
     <1>15, <1>16, <1>17, <1>18, <1>19, <1>20, <1>21, <1>22, <1>23, <1>24, <1>25, <1>26, <1>27,
     <1>28, <1>29, <1>30, <1>31, <1>32, <1>33, <1>34, <1>35, <1>36, <1>37, <1>38, <1>39, <1>40,
     <1>41, <1>42
     DEF RunStep, Fault, PhaseStep, SourceStep

LEMMA BooksNext ==
  TypeOK /\ (\A r \in Run : Books(r)) /\ [Next]_vars => (\A r \in Run : Books(r))'
<1> SUFFICES ASSUME TypeOK, \A r \in Run : Books(r), [Next]_vars, NEW s \in Run
             PROVE  Books(s)'
  OBVIOUS
<1>1. ASSUME NEW r \in Run, RunStep(r) \/ Fault(r) PROVE Books(s)'
  <2>1. CASE s = r
    BY <1>1, <2>1, BooksStep
  <2>2. CASE s # r
    BY <1>1, <2>2, OnlyOne, OnlyOneBook, BooksFrame
  <2> QED
    BY <2>1, <2>2
<1>2. ASSUME NEW x \in Source, Edit(x) PROVE Books(s)'
  BY <1>2, BooksFrame DEF Edit, Own, plans, reports
<1>3. CASE UNCHANGED vars
  BY <1>3, BooksFrame DEF vars, Own, world, plans, reports
<1> QED
  BY <1>1, <1>2, <1>3 DEF Next

\* OneSourcePerLayer: the layers of the ledger come from one run, and that run claims a layer
\* for one source only, however sources are bound, run again or fail.
THEOREM OneSourceEach == Spec => []OneSourcePerLayer
<1>1. Init => TypeOK /\ \A r \in Run : Books(r)
  BY TypeInit, BooksInit
<1>2. TypeOK /\ (\A r \in Run : Books(r)) /\ [Next]_vars => (TypeOK /\ \A r \in Run : Books(r))'
  BY TypeNext, BooksNext
<1>3. TypeOK /\ (\A r \in Run : Books(r)) /\ OneLoaderPerTarget => OneSourcePerLayer
  <2> SUFFICES ASSUME TypeOK, \A r \in Run : Books(r), OneLoaderPerTarget,
                      NEW x \in layers, NEW y \in layers, x[3] = y[3]
               PROVE  x[2] = y[2]
    BY DEF OneSourcePerLayer
  <2>1. x[1] \in Run /\ x[2] \in Path /\ y[2] \in Path
    BY DEF TypeOK
  <2>2. x[1] \in Loaders /\ y[1] \in Loaders
    BY Zenon DEF Loaders
  <2>3. x[1] = y[1]
    BY <2>2 DEF OneLoaderPerTarget
  <2> QED
    BY <2>1, <2>3 DEF Books, Claims
<1> QED
  BY <1>1, <1>2, <1>3, SingleLoader, PTL DEF Spec

\* NothingDroppedSilently: in a finished diagnosis nothing is pending, and what was dropped
\* has its issue.
THEOREM NothingLost == Spec => []NothingDroppedSilently
<1>1. Init => TypeOK /\ \A r \in Run : Books(r)
  BY TypeInit, BooksInit
<1>2. TypeOK /\ (\A r \in Run : Books(r)) /\ [Next]_vars => (TypeOK /\ \A r \in Run : Books(r))'
  BY TypeNext, BooksNext
<1>3. (\A r \in Run : Books(r)) => NothingDroppedSilently
  BY DEF Books, Accounts, NothingDroppedSilently, Pending, In, Dropped
<1> QED
  BY <1>1, <1>2, <1>3, PTL DEF Spec

=============================================================================
