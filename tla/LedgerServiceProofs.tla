------------------------ MODULE LedgerServiceProofs ------------------------
(***************************************************************************)
(* What LedgerService guarantees for any number of services, any digests   *)
(* and any combination of calls and faults.                                *)
(***************************************************************************)
EXTENDS LedgerService, TLAPS

USE LedgerAssumption

\* A service past get_layer holds a layer the database committed, no call began in
\* the future, and a snapshot is never newer than the database.
Fetched(s) == svc[s].pc \in {"check", "compare", "marker", "file"} => svc[s].layer.rev # 0

FreshInv ==
  /\ TypeOK
  /\ \A s \in DbService : Fetched(s) /\ svc[s].since <= db.rev
  /\ ReadsAreFresh
  /\ file.kind = "snapshot" => file.rev <= db.rev

LEMMA IdleType == Idle \in Call
  BY DEF Idle, Call, Point, CallKind, Pin, Layer, NoLayer, Outcome

\* A call changes only its own record, keeps what it fetched and when it began.
LEMMA ExportedType ==
  ASSUME TypeOK, NEW s \in DbService, Exported(s)
  PROVE  /\ svc' \in [DbService -> Call]
         /\ svc'[s].pc \in {"idle", "pin"}
         /\ \A t \in DbService : /\ svc'[t].layer = svc[t].layer
                                 /\ svc'[t].since = svc[t].since
                                 /\ t # s => svc'[t] = svc[t]
  BY DEF Exported, TypeOK, Call, Return, Goto, Point, Outcome

LEMMA ExportFailsType ==
  ASSUME TypeOK, NEW s \in DbService, ExportFails(s)
  PROVE  /\ svc' \in [DbService -> Call]
         /\ svc'[s].pc \in {"idle", "unlinkFile"}
         /\ \A t \in DbService : /\ svc'[t].layer = svc[t].layer
                                 /\ svc'[t].since = svc[t].since
                                 /\ t # s => svc'[t] = svc[t]
  BY DEF ExportFails, TypeOK, Call, Return, Goto, Point, Outcome

LEMMA ReturnType ==
  ASSUME TypeOK, NEW s \in DbService, NEW how \in Outcome, Return(s, how)
  PROVE  /\ svc' \in [DbService -> Call]
         /\ svc'[s].pc = "idle"
         /\ \A t \in DbService : /\ svc'[t].layer = svc[t].layer
                                 /\ svc'[t].since = svc[t].since
                                 /\ t # s => svc'[t] = svc[t]
<1>1. [svc[s] EXCEPT !.pc = "idle"] \in Call
  BY DEF TypeOK, Call, Point
<1>2. [[svc[s] EXCEPT !.pc = "idle"] EXCEPT !.outcome = how] \in Call
  BY <1>1 DEF Call
<1>3. svc' = [svc EXCEPT ![s] = [[svc[s] EXCEPT !.pc = "idle"] EXCEPT !.outcome = how]]
  BY DEF Return, TypeOK
<1> QED
  BY <1>2, <1>3 DEF TypeOK, Call

\* The database only moves on: what was fetched before stays covered.
LEMMA LaterRevision ==
  ASSUME FreshInv, TypeOK', db.rev <= db'.rev, UNCHANGED file,
         \A t \in DbService : /\ svc'[t].layer = svc[t].layer
                              /\ svc'[t].since = svc[t].since
                              /\ svc'[t].pc \in {"check", "compare", "marker", "file"}
                                   => svc'[t].pc = svc[t].pc
  PROVE  FreshInv'
<1>1. /\ db.rev \in Nat /\ db'.rev \in Nat /\ file.rev \in Nat
      /\ \A t \in DbService : svc[t].since \in Nat /\ svc[t].layer.rev \in Nat
  BY DEF FreshInv, TypeOK, Call, Layer, File, NoFile
<1> QED
  BY <1>1 DEF FreshInv, ReadsAreFresh, Fetched

LEMMA FreshInit == Init => FreshInv
  BY IdleType DEF Init, FreshInv, TypeOK, ReadsAreFresh, Fetched, Idle, NoLayer, NoFile,
                  File, Pin, Layer

LEMMA StartFresh ==
  ASSUME FreshInv, NEW s \in DbService, StartCall(s)
  PROVE  FreshInv'
<1>1. ASSUME NEW call \in CallKind, NEW d \in Pin, Begin(s, call, d)
      PROVE  FreshInv'
  <2> DEFINE new == [Idle EXCEPT !.pc = IF call \in {"read", "stamp"} THEN "get" ELSE "commit",
                                 !.call = call, !.digest = d, !.since = db.rev]
  <2>1. /\ new \in Call /\ new.pc \in {"get", "commit"} /\ new.since = db.rev
        /\ new.layer.rev = 0
    BY IdleType DEF Idle, NoLayer, Call, Point, Pin, Layer, Outcome, FreshInv, TypeOK
  <2>2. /\ svc' = [svc EXCEPT ![s] = new]
        /\ UNCHANGED <<db, file, marker, fsvc>>
    BY <1>1 DEF Begin
  <2> HIDE DEF new
  <2>3. svc' \in [DbService -> Call] /\ svc'[s] = new /\ \A t \in DbService : t # s => svc'[t] = svc[t]
    BY <2>1, <2>2 DEF FreshInv, TypeOK
  <2> QED
    BY <2>1, <2>2, <2>3 DEF FreshInv, TypeOK, ReadsAreFresh, Fetched
<1> QED
  BY <1>1 DEF StartCall, Read, StampReport, Submit, Mutate, Restate, StoreLayer, CallKind, Pin

LEMMA DbStepFresh ==
  ASSUME FreshInv, NEW s \in DbService, DbStep(s)
  PROVE  FreshInv'
<1> USE DEF FreshInv
<1>1. CASE CommitRefused(s)
  BY <1>1, ReturnType DEF CommitRefused, TypeOK, ReadsAreFresh, Fetched, Outcome
<1>2. CASE Commit(s)
  <2>1. TypeOK' /\ db.rev <= db'.rev
    <3>1. PICK pin \in Pin : db' = [rev |-> db.rev + 1, pin |-> pin]
      BY <1>2 DEF Commit
    <3>2. db' \in [rev : 1..MaxRev, pin : Pin] /\ db.rev <= db'.rev /\ db.rev + 1 \in 0..MaxRev
      BY <1>2, <3>1 DEF Commit, TypeOK
    <3> QED
      BY <1>2, <3>2 DEF Commit, At, TypeOK, Call, Layer, Point, Outcome
  <2>2. \A t \in DbService : /\ svc'[t].layer = svc[t].layer
                             /\ svc'[t].since = svc[t].since
                             /\ svc'[t].pc \in {"check", "compare", "marker", "file"}
                                  => svc'[t].pc = svc[t].pc
    BY <1>2 DEF Commit, TypeOK, Call
  <2> QED
    BY <1>2, <2>1, <2>2, LaterRevision DEF Commit
<1>3. CASE PinReport(s)
  <2>1. TypeOK' /\ db.rev <= db'.rev
    <3>1. db' \in [rev : 1..MaxRev, pin : Pin] /\ db.rev <= db'.rev
      BY <1>3 DEF PinReport, TypeOK, Call
    <3>2. svc' \in [DbService -> Call]
      <4>1. db.rev + 1 \in 0..MaxRev
        BY <1>3 DEF PinReport, TypeOK
      <4>2. [svc[s] EXCEPT !.pc = "get"] \in Call
        BY DEF TypeOK, Call, Point
      <4>3. [[svc[s] EXCEPT !.pc = "get"] EXCEPT !.wrote = db.rev + 1] \in Call
        BY <4>1, <4>2 DEF Call
      <4>4. [[[svc[s] EXCEPT !.pc = "get"] EXCEPT !.wrote = db.rev + 1] EXCEPT !.refresh = TRUE]
              \in Call
        BY <4>3 DEF Call
      <4> QED
        BY <1>3, <4>4 DEF PinReport, TypeOK
    <3> QED
      BY <1>3, <3>1, <3>2 DEF PinReport, TypeOK
  <2>2. \A t \in DbService : /\ svc'[t].layer = svc[t].layer
                             /\ svc'[t].since = svc[t].since
                             /\ svc'[t].pc \in {"check", "compare", "marker", "file"}
                                  => svc'[t].pc = svc[t].pc
    BY <1>3 DEF PinReport, TypeOK, Call
  <2> QED
    BY <1>3, <2>1, <2>2, LaterRevision DEF PinReport
<1>4. CASE PinRefused(s)
  BY <1>4, ReturnType DEF PinRefused, TypeOK, ReadsAreFresh, Fetched, Outcome
<1>5. CASE GetLayer(s)
  BY <1>5 DEF GetLayer, At, TypeOK, ReadsAreFresh, Fetched, Call, Layer, Pin, Point, Outcome
<1>6. CASE GetLayerFails(s)
  BY <1>6, ReturnType DEF GetLayerFails, TypeOK, ReadsAreFresh, Fetched, Outcome
<1>7. CASE Check(s)
  BY <1>7 DEF Check, At, Goto, TypeOK, ReadsAreFresh, Fetched, Call, Point, Outcome
<1>8. CASE Compare(s)
  <2>1. CASE Exported(s)
    BY <1>8, <2>1, ExportedType DEF Compare, TypeOK, ReadsAreFresh, Fetched
  <2>2. CASE ExportFails(s)
    BY <1>8, <2>2, ExportFailsType DEF Compare, TypeOK, ReadsAreFresh, Fetched
  <2>3. CASE Goto(s, "marker")
    BY <1>8, <2>3 DEF Compare, At, Goto, TypeOK, ReadsAreFresh, Fetched, Call, Point
  <2> QED
    BY <1>8, <2>1, <2>2, <2>3 DEF Compare
<1>9. CASE WriteMarker(s)
  BY <1>9 DEF WriteMarker, At, Goto, TypeOK, ReadsAreFresh, Fetched, Call, Layer, Point
<1>10. CASE WriteFile(s)
  <2>1. file' \in File /\ file'.rev <= db.rev
    BY <1>10 DEF WriteFile, At, TypeOK, ReadsAreFresh, Fetched, Call, Layer, File
  <2> QED
    BY <1>10, <2>1, ExportedType DEF WriteFile, TypeOK, ReadsAreFresh, Fetched
<1>11. CASE WriteFails(s)
  BY <1>11, ExportFailsType DEF WriteFails, TypeOK, ReadsAreFresh, Fetched
<1>12. CASE UnlinkFile(s)
  BY <1>12 DEF UnlinkFile, At, Goto, TypeOK, ReadsAreFresh, Fetched, Call, Point, File, NoFile
<1>13. CASE UnlinkMarker(s)
  BY <1>13, ReturnType DEF UnlinkMarker, TypeOK, ReadsAreFresh, Fetched, Outcome
<1>14. CASE Crash(s)
  BY <1>14, ReturnType DEF Crash, TypeOK, ReadsAreFresh, Fetched, Outcome
<1> QED
  BY <1>1, <1>2, <1>3, <1>4, <1>5, <1>6, <1>7, <1>8, <1>9, <1>10, <1>11, <1>12, <1>13, <1>14
     DEF DbStep

LEMMA FileStepFresh ==
  ASSUME FreshInv, NEW f \in FileService, FileStep(f)
  PROVE  FreshInv'
<1> USE DEF FreshInv
<1>1. CASE FileWriteTarget(f) \/ FileEnsureTarget(f)
  BY <1>1 DEF FileWriteTarget, FileEnsureTarget, FileCall, TypeOK, ReadsAreFresh, Fetched
<1>2. CASE FileWrite(f)
  BY <1>2 DEF FileWrite, TypeOK, ReadsAreFresh, Fetched, File, NoFile
<1>3. CASE FileEnsure(f)
  BY <1>3 DEF FileEnsure, TypeOK, ReadsAreFresh, Fetched
<1>4. CASE FileCreate(f)
  BY <1>4 DEF FileCreate, TypeOK, ReadsAreFresh, Fetched, File
<1> QED
  BY <1>1, <1>2, <1>3, <1>4 DEF FileStep

LEMMA FreshNext == FreshInv /\ [Next]_vars => FreshInv'
<1> SUFFICES ASSUME FreshInv, [Next]_vars PROVE FreshInv'
  OBVIOUS
<1>1. ASSUME NEW s \in DbService, StartCall(s) \/ DbStep(s) PROVE FreshInv'
  BY <1>1, StartFresh, DbStepFresh
<1>2. ASSUME NEW f \in FileService, FileStep(f) PROVE FreshInv'
  BY <1>2, FileStepFresh
<1>3. CASE OutOfBand
  <2>1. TypeOK' /\ db.rev <= db'.rev
    BY <1>3 DEF OutOfBand, FreshInv, TypeOK, Pin
  <2> QED
    BY <1>3, <2>1, LaterRevision DEF OutOfBand
<1>4. CASE UNCHANGED vars
  BY <1>4 DEF vars, FreshInv, TypeOK, ReadsAreFresh, Fetched
<1> QED
  BY <1>1, <1>2, <1>3, <1>4 DEF Next

\* A call always works on a layer of the database that holds everything committed
\* before the call began: ledger/service.py never falls back to the file.
THEOREM FreshReads == Spec => [](TypeOK /\ ReadsAreFresh)
<1>1. FreshInv => TypeOK /\ ReadsAreFresh
  BY DEF FreshInv
<1> QED
  BY FreshInit, FreshNext, <1>1, PTL DEF Spec

\* The database, the file, the marker and every call stay in their types, whatever fails.
THEOREM Typed == Spec => []TypeOK
BY FreshReads, PTL

-----------------------------------------------------------------------------
(* The file shows committed revisions only: LedgerService implements       *)
(* LedgerView, for any number of services and whatever fails.              *)

LEMMA ViewInit == Init => View!Init
  BY DEF Init, View!Init, view, NoFile

LEMMA CommitsView ==
  ASSUME db.rev < MaxRev, db'.rev = db.rev + 1, UNCHANGED file
  PROVE  View!Next
  BY DEF View!Next, View!Commit, view

LEMMA StepView ==
  ASSUME FreshInv, [Next]_vars
  PROVE  [View!Next]_(View!viewVars)
<1>1. ASSUME NEW s \in DbService, StartCall(s)
      PROVE  UNCHANGED <<db, file>>
  BY <1>1 DEF StartCall, Read, StampReport, Submit, Mutate, Restate, StoreLayer, Begin
<1>2. ASSUME NEW s \in DbService, DbStep(s)
      PROVE  [View!Next]_(View!viewVars)
  <2>1. CASE Commit(s) \/ PinReport(s)
    BY <2>1, CommitsView DEF Commit, PinReport
  <2>2. CASE WriteFile(s)
    <3>1. view' = svc[s].layer.rev /\ svc[s].layer.rev \in 1..db.rev /\ UNCHANGED db
      BY <2>2 DEF WriteFile, At, view, FreshInv, TypeOK, Fetched, ReadsAreFresh, Call, Layer
    <3> QED
      BY <3>1 DEF View!Next, View!Publish
  <2>3. CASE UnlinkFile(s)
    BY <2>3 DEF UnlinkFile, NoFile, view, View!Next, View!Withdraw, View!viewVars
  <2>4. CASE ~(Commit(s) \/ PinReport(s) \/ WriteFile(s) \/ UnlinkFile(s))
    <3>1. UNCHANGED <<db, file>>
      BY <1>2, <2>4 DEF DbStep, CommitRefused, PinRefused, GetLayer, GetLayerFails, Check,
         Compare, WriteMarker, WriteFails, UnlinkMarker, Crash
    <3> QED
      BY <3>1 DEF view, View!viewVars
  <2> QED
    BY <2>1, <2>2, <2>3, <2>4
<1>3. ASSUME NEW f \in FileService, FileStep(f)
      PROVE  [View!Next]_(View!viewVars)
  <2>1. view' \in {0, view} /\ UNCHANGED db
    BY <1>3 DEF FileStep, FileWriteTarget, FileEnsureTarget, FileCall, FileWrite, FileEnsure,
       FileCreate, view, FreshInv, TypeOK, File, NoFile
  <2> QED
    BY <2>1 DEF View!Next, View!Withdraw, View!viewVars
<1>4. CASE OutOfBand
  BY <1>4, CommitsView DEF OutOfBand
<1>5. CASE UNCHANGED vars
  BY <1>5 DEF vars, view, View!viewVars
<1> QED
  BY <1>1, <1>2, <1>3, <1>4, <1>5 DEF Next, view, View!viewVars

\* Whatever services interleave, fail or die, and whatever file mode does to the path,
\* a reader of a snapshot sees a revision the database committed.
THEOREM ImplementsView == Spec => ShowsCommittedLayers
<1> QED
  BY FreshInit, FreshNext, ViewInit, StepView, PTL DEF Spec, View!Spec, ShowsCommittedLayers

-----------------------------------------------------------------------------
(* One exporting service, in a run that neither stores whole layers nor    *)
(* fails to unlink: the marker guards every snapshot, and the file never   *)
(* falls behind a write that was acknowledged.                             *)

Exporting == {"check", "compare", "marker", "file"}

\* While the service exports, the file is no newer than what it fetched and what it
\* fetched has everything it wrote; the marker leads the file.
Settles(s) ==
  /\ svc[s].pc # "idle" => svc[s].outcome = "none"
  /\ svc[s].call # "store"
  /\ svc[s].wrote <= db.rev
  /\ svc[s].pc \in Exporting => /\ svc[s].wrote <= svc[s].layer.rev
                                /\ file.kind = "snapshot" => file.rev <= svc[s].layer.rev
  /\ svc[s].pc = "file" => marker = svc[s].layer.rev
  /\ svc[s].pc = "unlinkMarker" => file.kind # "snapshot"

MarkInv ==
  /\ FreshInv
  /\ MarkerNotBehindFile
  /\ OwnWritesVisible
  /\ \A s \in DbService : Settles(s)

OneExporter(s) == DbService = {s} /\ "store" \notin Calls /\ "unlink" \notin Faults

LEMMA MarkInit == Init => MarkInv
  BY FreshInit DEF Init, MarkInv, MarkerNotBehindFile, OwnWritesVisible, Settles, Exporting,
                   Idle, NoLayer, NoFile

LEMMA MarkStart ==
  ASSUME NEW s, OneExporter(s), MarkInv, StartCall(s), FreshInv'
  PROVE  MarkInv'
<1>1. ASSUME NEW call \in CallKind \ {"store"}, NEW d \in Pin, Begin(s, call, d)
      PROVE  MarkInv'
  <2>1. /\ svc'[s].pc \in {"get", "commit"} /\ svc'[s].call = call /\ svc'[s].wrote = 0
        /\ svc'[s].outcome = "none"
        /\ UNCHANGED <<db, file, marker>>
    BY <1>1 DEF Begin, Idle, MarkInv, FreshInv, TypeOK, OneExporter
  <2>2. db.rev \in Nat
    BY DEF MarkInv, FreshInv, TypeOK
  <2> QED
    BY <2>1, <2>2 DEF MarkInv, OneExporter, MarkerNotBehindFile, OwnWritesVisible, Settles, Exporting
<1> QED
  BY <1>1 DEF StartCall, Read, StampReport, Submit, Mutate, Restate, StoreLayer, CallKind, Pin,
              OneExporter

\* What a step that only moves the call on has to show.
LEMMA MarkMove ==
  ASSUME NEW s, OneExporter(s), MarkInv, FreshInv', UNCHANGED <<db, file, marker>>,
         svc'[s].call = svc[s].call, svc'[s].wrote = svc[s].wrote,
         svc'[s].layer = svc[s].layer,
         svc'[s].pc \in Exporting => svc[s].pc \in Exporting,
         svc'[s].pc \notin {"file", "unlinkMarker"},
         svc'[s].pc # "idle" => svc'[s].outcome = "none",
         svc'[s].outcome = "ok" /\ file.kind = "snapshot" => svc[s].wrote <= file.rev
  PROVE  MarkInv'
  BY DEF MarkInv, OneExporter, MarkerNotBehindFile, OwnWritesVisible, Settles

LEMMA ReturnMark ==
  ASSUME NEW s, OneExporter(s), MarkInv, FreshInv', UNCHANGED <<db, file, marker>>,
         NEW how \in {"raised", "crashed"}, Return(s, how)
  PROVE  MarkInv'
<1>1. /\ svc'[s].call = svc[s].call /\ svc'[s].wrote = svc[s].wrote
      /\ svc'[s].layer = svc[s].layer /\ svc'[s].pc = "idle" /\ svc'[s].outcome = how
  BY DEF Return, MarkInv, FreshInv, TypeOK, Call, OneExporter
<1> QED
  BY <1>1, MarkMove DEF Exporting

LEMMA ExportFailsMark ==
  ASSUME NEW s, OneExporter(s), MarkInv, FreshInv', UNCHANGED <<db, file, marker>>,
         svc[s].pc # "idle", ExportFails(s)
  PROVE  MarkInv'
<1>1. CASE Return(s, "raised")
  BY <1>1, ReturnMark
<1>2. CASE Goto(s, "unlinkFile")
  <2>1. /\ svc'[s].call = svc[s].call /\ svc'[s].wrote = svc[s].wrote
        /\ svc'[s].layer = svc[s].layer /\ svc'[s].pc = "unlinkFile"
        /\ svc'[s].outcome = svc[s].outcome
    BY <1>2 DEF Goto, MarkInv, FreshInv, TypeOK, Call, OneExporter
  <2>2. svc[s].outcome = "none"
    BY DEF MarkInv, OneExporter, Settles
  <2> QED
    BY <2>1, <2>2, MarkMove DEF Exporting
<1> QED
  BY <1>1, <1>2 DEF ExportFails

LEMMA MarkDbStep ==
  ASSUME NEW s, OneExporter(s), MarkInv, DbStep(s), FreshInv'
  PROVE  MarkInv'
<1>0. /\ s \in DbService /\ FreshInv /\ Settles(s)
      /\ db.rev \in Nat /\ file.rev \in Nat /\ marker \in Nat
      /\ svc[s].wrote \in Nat /\ svc[s].layer.rev \in Nat
      /\ file'.kind = "snapshot" => file'.rev # 0
  BY DEF MarkInv, OneExporter, FreshInv, TypeOK, Call, Layer, File, NoFile
<1>1. CASE CommitRefused(s) \/ PinRefused(s) \/ GetLayerFails(s) \/ Crash(s)
  BY <1>1, ReturnMark DEF CommitRefused, PinRefused, GetLayerFails, Crash
<1>2. CASE Commit(s) \/ PinReport(s)
  <2>1. /\ svc'[s].wrote = db'.rev /\ db'.rev = db.rev + 1 /\ svc'[s].call = svc[s].call
        /\ svc'[s].pc \in {"pin", "get"} /\ svc'[s].outcome = "none"
        /\ UNCHANGED <<file, marker>>
    BY <1>0, <1>2 DEF Commit, PinReport, At, FreshInv, TypeOK, Call, Settles
  <2> QED
    BY <1>0, <2>1 DEF MarkInv, OneExporter, MarkerNotBehindFile, OwnWritesVisible, Settles, Exporting
<1>3. CASE GetLayer(s)
  <2>1. /\ svc'[s].wrote = svc[s].wrote /\ svc'[s].call = svc[s].call
        /\ svc'[s].pc = "check" /\ svc'[s].outcome = "none" /\ svc'[s].layer = db
        /\ UNCHANGED <<db, file, marker>>
    BY <1>0, <1>3 DEF GetLayer, At, FreshInv, TypeOK, Call, Settles
  <2>2. file.kind = "snapshot" => file.rev <= db.rev
    BY <1>0 DEF FreshInv
  <2> QED
    BY <1>0, <2>1, <2>2 DEF MarkInv, OneExporter, MarkerNotBehindFile, OwnWritesVisible, Settles,
       Exporting
<1>4. CASE Check(s)
  <2>1. /\ svc'[s].wrote = svc[s].wrote /\ svc'[s].call = svc[s].call
        /\ svc'[s].layer = svc[s].layer /\ svc[s].pc = "check"
        /\ svc'[s].pc \in {"compare", "marker"} /\ svc'[s].outcome = "none"
        /\ UNCHANGED <<db, file, marker>>
    BY <1>0, <1>4 DEF Check, Goto, At, FreshInv, TypeOK, Call, Settles
  <2> QED
    BY <2>1, MarkMove DEF Exporting
<1>5. CASE Compare(s)
  <2>1. CASE ExportFails(s)
    BY <1>5, <2>1, ExportFailsMark DEF Compare, At
  <2>2. CASE Goto(s, "marker")
    <3>1. /\ svc'[s].wrote = svc[s].wrote /\ svc'[s].call = svc[s].call
          /\ svc'[s].layer = svc[s].layer /\ svc[s].pc = "compare"
          /\ svc'[s].pc = "marker" /\ svc'[s].outcome = "none"
          /\ UNCHANGED <<db, file, marker>>
      BY <1>0, <1>5, <2>2 DEF Compare, Goto, At, FreshInv, TypeOK, Call, Settles
    <3> QED
      BY <3>1, MarkMove DEF Exporting
  <2>3. CASE file.rev = svc[s].layer.rev /\ Exported(s)
    <3>1. /\ svc'[s].wrote = svc[s].wrote /\ svc'[s].call = svc[s].call
          /\ svc'[s].layer = svc[s].layer /\ svc'[s].pc \in {"idle", "pin"}
          /\ svc'[s].pc = "pin" => svc'[s].outcome = "none"
          /\ svc[s].pc = "compare" /\ UNCHANGED <<db, file, marker>>
      BY <1>0, <1>5, <2>3 DEF Compare, Exported, Return, Goto, At, FreshInv, TypeOK, Call, Settles
    <3>2. svc[s].wrote <= file.rev
      BY <1>0, <2>3, <3>1 DEF Settles, Exporting
    <3> QED
      BY <3>1, <3>2, MarkMove DEF Exporting
  <2> QED
    BY <1>5, <2>1, <2>2, <2>3 DEF Compare
<1>6. CASE WriteMarker(s)
  <2>1. /\ svc'[s].wrote = svc[s].wrote /\ svc'[s].call = svc[s].call
        /\ svc'[s].layer = svc[s].layer /\ svc[s].pc = "marker"
        /\ svc'[s].pc = "file" /\ svc'[s].outcome = "none"
        /\ marker' = svc[s].layer.rev /\ UNCHANGED <<db, file>>
    BY <1>0, <1>6 DEF WriteMarker, Goto, At, FreshInv, TypeOK, Call, Settles
  <2> QED
    BY <1>0, <2>1 DEF MarkInv, OneExporter, MarkerNotBehindFile, OwnWritesVisible, Settles, Exporting
<1>7. CASE WriteFile(s)
  <2>1. /\ svc'[s].wrote = svc[s].wrote /\ svc'[s].call = svc[s].call
        /\ svc'[s].layer = svc[s].layer /\ svc[s].pc = "file"
        /\ svc'[s].pc \in {"idle", "pin"}
        /\ svc'[s].pc = "pin" => svc'[s].outcome = "none"
        /\ file'.rev = svc[s].layer.rev /\ UNCHANGED <<db, marker>>
    BY <1>0, <1>7 DEF WriteFile, Exported, Return, Goto, At, FreshInv, TypeOK, Call, Settles
  <2>2. marker = svc[s].layer.rev /\ svc[s].wrote <= svc[s].layer.rev
    BY <1>0, <2>1 DEF Settles, Exporting
  <2> QED
    BY <1>0, <2>1, <2>2 DEF MarkInv, OneExporter, MarkerNotBehindFile, OwnWritesVisible, Settles,
       Exporting
<1>8. CASE WriteFails(s)
  BY <1>8, ExportFailsMark DEF WriteFails
<1>9. CASE UnlinkFile(s)
  <2>1. /\ svc'[s].wrote = svc[s].wrote /\ svc'[s].call = svc[s].call
        /\ svc'[s].pc = "unlinkMarker" /\ svc'[s].outcome = "none"
        /\ file'.kind = "none" /\ UNCHANGED <<db, marker>>
    BY <1>0, <1>9 DEF UnlinkFile, Goto, At, FreshInv, TypeOK, Call, Settles, OneExporter, NoFile
  <2> QED
    BY <1>0, <2>1 DEF MarkInv, OneExporter, MarkerNotBehindFile, OwnWritesVisible, Settles, Exporting
<1>10. CASE UnlinkMarker(s)
  <2>1. /\ svc'[s].wrote = svc[s].wrote /\ svc'[s].call = svc[s].call
        /\ svc'[s].pc = "idle" /\ svc[s].pc = "unlinkMarker" /\ UNCHANGED <<db, file>>
    BY <1>0, <1>10 DEF UnlinkMarker, Return, At, FreshInv, TypeOK, Call
  <2>2. file.kind # "snapshot"
    BY <1>0, <2>1 DEF Settles
  <2> QED
    BY <1>0, <2>1, <2>2 DEF MarkInv, OneExporter, MarkerNotBehindFile, OwnWritesVisible, Settles,
       Exporting
<1> QED
  BY <1>1, <1>2, <1>3, <1>4, <1>5, <1>6, <1>7, <1>8, <1>9, <1>10 DEF DbStep

LEMMA MarkNext ==
  ASSUME NEW s, OneExporter(s), MarkInv, [Next]_vars
  PROVE  MarkInv'
<1>1. FreshInv'
  BY FreshNext DEF MarkInv
<1>2. CASE StartCall(s)
  BY <1>1, <1>2, MarkStart
<1>3. CASE DbStep(s)
  BY <1>1, <1>3, MarkDbStep
<1>4. CASE OutOfBand
  <2>1. db.rev \in Nat /\ db'.rev = db.rev + 1 /\ svc[s].wrote \in Nat
    BY <1>4 DEF OutOfBand, MarkInv, FreshInv, TypeOK, Call, OneExporter
  <2> QED
    BY <1>1, <1>4, <2>1 DEF OutOfBand, MarkInv, OneExporter, MarkerNotBehindFile,
       OwnWritesVisible, Settles
<1>5. ASSUME NEW f \in FileService, FileStep(f)
      PROVE  MarkInv'
  <2>1. /\ file'.kind = "snapshot" => file' = file
        /\ UNCHANGED <<db, marker, svc>>
    BY <1>5 DEF FileStep, FileWriteTarget, FileEnsureTarget, FileCall, FileWrite, FileEnsure,
       FileCreate, MarkInv, FreshInv, TypeOK, File, NoFile
  <2> QED
    BY <1>1, <2>1 DEF MarkInv, OneExporter, MarkerNotBehindFile, OwnWritesVisible, Settles
<1>6. CASE UNCHANGED vars
  BY <1>1, <1>6 DEF vars, MarkInv, OneExporter, MarkerNotBehindFile, OwnWritesVisible, Settles
<1> QED
  BY <1>2, <1>3, <1>4, <1>5, <1>6 DEF Next, OneExporter

LEMMA MarkMeans == MarkInv => SnapshotIsMarked
  BY DEF MarkInv, SnapshotIsMarked, MarkerNotBehindFile, FreshInv, TypeOK, File, NoFile

\* With one exporting service, whatever dies between two steps and whatever write
\* fails: a snapshot always has its marker (file mode can tell it from a ledger), the
\* marker leads the file, and no acknowledged write is missing from the file.
THEOREM OneExporterSettles ==
  ASSUME NEW s, OneExporter(s)
  PROVE  Spec => [](SnapshotIsMarked /\ MarkerNotBehindFile /\ OwnWritesVisible)
<1>1. MarkInv /\ [Next]_vars => MarkInv'
  BY MarkNext
<1>2. MarkInv => SnapshotIsMarked /\ MarkerNotBehindFile /\ OwnWritesVisible
  BY MarkMeans DEF MarkInv
<1> QED
  BY MarkInit, <1>1, <1>2, PTL DEF Spec

\* MarkerNotBehindFile, of one exporting service: write_snapshot replaces the marker before
\* the file, and _refresh removes the file before the marker.
THEOREM MarkerLeads ==
  ASSUME NEW s, OneExporter(s)
  PROVE  Spec => []MarkerNotBehindFile
<1>1. Spec => [](SnapshotIsMarked /\ MarkerNotBehindFile /\ OwnWritesVisible)
  BY OneExporterSettles
<1> QED
  BY <1>1, PTL

\* OwnWritesVisible, of one exporting service: a write that was acknowledged is in the file,
\* or the file is gone.
THEOREM WritesStayVisible ==
  ASSUME NEW s, OneExporter(s)
  PROVE  Spec => []OwnWritesVisible
<1>1. Spec => [](SnapshotIsMarked /\ MarkerNotBehindFile /\ OwnWritesVisible)
  BY OneExporterSettles
<1> QED
  BY <1>1, PTL

-----------------------------------------------------------------------------
(* With one exporting service the file does not go back: LedgerService     *)
(* implements LedgerView with its order.                                   *)

LEMMA OrderedInit == Init => OrderedView!Init
  BY DEF Init, OrderedView!Init, view, NoFile

LEMMA CommitsOrdered ==
  ASSUME db.rev < MaxRev, db'.rev = db.rev + 1, UNCHANGED file
  PROVE  OrderedView!Next
  BY DEF OrderedView!Next, OrderedView!Commit, view

\* What is exported is at least what the file shows, since nobody else exports.
LEMMA StepOrdered ==
  ASSUME NEW s, OneExporter(s), MarkInv, [Next]_vars
  PROVE  [OrderedView!Next]_(OrderedView!viewVars)
<1>0. s \in DbService /\ FreshInv /\ Settles(s)
  BY DEF MarkInv, OneExporter
<1>1. ASSUME StartCall(s)
      PROVE  UNCHANGED <<db, file>>
  BY <1>1 DEF StartCall, Read, StampReport, Submit, Mutate, Restate, StoreLayer, Begin
<1>2. ASSUME DbStep(s)
      PROVE  [OrderedView!Next]_(OrderedView!viewVars)
  <2>1. CASE Commit(s) \/ PinReport(s)
    BY <2>1, CommitsOrdered DEF Commit, PinReport
  <2>2. CASE WriteFile(s)
    <3>1. view' = svc[s].layer.rev /\ svc[s].layer.rev \in 1..db.rev /\ UNCHANGED db
      BY <1>0, <2>2 DEF WriteFile, At, view, FreshInv, TypeOK, Fetched, ReadsAreFresh, Call, Layer
    <3>2. file.kind = "snapshot" => file.rev <= svc[s].layer.rev
      BY <1>0, <2>2 DEF WriteFile, At, Settles, Exporting
    <3>3. view <= svc[s].layer.rev
      BY <3>1, <3>2 DEF view
    <3> QED
      BY <3>1, <3>3 DEF OrderedView!Next, OrderedView!Publish
  <2>3. CASE UnlinkFile(s)
    BY <2>3 DEF UnlinkFile, NoFile, view, OrderedView!Next, OrderedView!Withdraw,
                OrderedView!viewVars
  <2>4. CASE ~(Commit(s) \/ PinReport(s) \/ WriteFile(s) \/ UnlinkFile(s))
    <3>1. UNCHANGED <<db, file>>
      BY <1>2, <2>4 DEF DbStep, CommitRefused, PinRefused, GetLayer, GetLayerFails, Check,
         Compare, WriteMarker, WriteFails, UnlinkMarker, Crash
    <3> QED
      BY <3>1 DEF view, OrderedView!viewVars
  <2> QED
    BY <2>1, <2>2, <2>3, <2>4
<1>3. ASSUME NEW f \in FileService, FileStep(f)
      PROVE  [OrderedView!Next]_(OrderedView!viewVars)
  <2>1. view' \in {0, view} /\ UNCHANGED db
    BY <1>0, <1>3 DEF FileStep, FileWriteTarget, FileEnsureTarget, FileCall, FileWrite, FileEnsure,
       FileCreate, view, FreshInv, TypeOK, File, NoFile
  <2> QED
    BY <2>1 DEF OrderedView!Next, OrderedView!Withdraw, OrderedView!viewVars
<1>4. CASE OutOfBand
  BY <1>4, CommitsOrdered DEF OutOfBand
<1>5. CASE UNCHANGED vars
  BY <1>5 DEF vars, view, OrderedView!viewVars
<1> QED
  BY <1>1, <1>2, <1>3, <1>4, <1>5 DEF Next, OneExporter, view, OrderedView!viewVars

\* NeverShowsOlderLayer: with one exporting service a reader of the file never sees an
\* earlier revision after a later one, unless the file was gone in between.
THEOREM ImplementsOrderedView ==
  ASSUME NEW s, OneExporter(s)
  PROVE  Spec => NeverShowsOlderLayer
<1>1. MarkInv /\ [Next]_vars => MarkInv'
  BY MarkNext
<1>2. MarkInv /\ [Next]_vars => [OrderedView!Next]_(OrderedView!viewVars)
  BY StepOrdered
<1> QED
  BY MarkInit, <1>1, OrderedInit, <1>2, PTL DEF Spec, OrderedView!Spec, NeverShowsOlderLayer

-----------------------------------------------------------------------------
(* Stamped reports, where nobody restates or stores a layer: any number of *)
(* services.                                                               *)

\* Points of a call that submits a report after it has pinned the report.
AfterPin == {"get", "check", "compare", "marker", "file", "unlinkFile", "unlinkMarker"}

\* The call has pinned its report.
HasPinned(s) ==
  \/ svc[s].call = "stamp" /\ svc[s].refresh
  \/ svc[s].call = "submit" /\ svc[s].pc \in AfterPin

\* A pin once read or written stays, since only a restatement or a stored layer
\* replaces one.
Stamps(s) ==
  /\ svc[s].pc # "idle" => svc[s].outcome = "none"
  /\ svc[s].pc = "commit" => svc[s].call \notin {"read", "stamp"}
  /\ svc[s].pc \in {"unlinkFile", "unlinkMarker"} => svc[s].refresh
  /\ svc[s].call \notin {"restate", "store"}
  /\ svc[s].call = "stamp" => svc[s].digest # NoDigest
  /\ svc[s].layer.pin \in {NoDigest, db.pin}
  /\ svc[s].digest # NoDigest /\ HasPinned(s) => db.pin = svc[s].digest

PinInv == FreshInv /\ StampedMeansPinned /\ \A s \in DbService : Stamps(s)

NoReplacement == Calls \cap {"restate", "store"} = {}

LEMMA PinInit == Init => PinInv
  BY FreshInit DEF Init, PinInv, StampedMeansPinned, Stamps, HasPinned, AfterPin, Idle, NoLayer

\* What a returning call promises of its report.
Promised(s) ==
  svc[s].outcome = "ok" /\ svc[s].call \in {"stamp", "submit"} /\ svc[s].digest # NoDigest
    => db.pin = svc[s].digest

\* A step of one call that leaves a pin where it is disturbs no other call.
LEMMA PinKept ==
  ASSUME PinInv, FreshInv', NEW s \in DbService,
         \A t \in DbService \ {s} : svc'[t] = svc[t],
         db.pin \in {NoDigest, db'.pin},
         Stamps(s)', Promised(s)'
  PROVE  PinInv'
<1>1. ASSUME NEW t \in DbService, t # s
      PROVE  Stamps(t)' /\ Promised(t)'
  <2>1. svc'[t] = svc[t]
    BY <1>1
  <2>2. Stamps(t) /\ Promised(t)
    BY DEF PinInv, StampedMeansPinned, Promised
  <2> QED
    BY <2>1, <2>2 DEF Stamps, HasPinned, Promised
<1> QED
  BY <1>1 DEF PinInv, StampedMeansPinned, Promised

\* A call that only moves on to a point, with what it has.
LEMMA PinMove ==
  ASSUME PinInv, FreshInv', NEW s \in DbService, NEW pc, Goto(s, pc), UNCHANGED db,
         pc \notin {"idle", "commit"},
         svc[s].pc # "idle",
         pc \in {"unlinkFile", "unlinkMarker"} => svc[s].refresh,
         pc \in AfterPin => svc[s].pc \in AfterPin \/ svc[s].call # "submit"
  PROVE  PinInv'
<1>1. /\ svc'[s] = [svc[s] EXCEPT !.pc = pc]
      /\ \A t \in DbService \ {s} : svc'[t] = svc[t]
  BY DEF Goto, PinInv, FreshInv, TypeOK
<1>2. /\ svc'[s].pc = pc /\ svc'[s].call = svc[s].call /\ svc'[s].digest = svc[s].digest
      /\ svc'[s].refresh = svc[s].refresh /\ svc'[s].layer = svc[s].layer
      /\ svc'[s].outcome = svc[s].outcome
  BY <1>1 DEF PinInv, FreshInv, TypeOK, Call
<1>3. Stamps(s)
  BY DEF PinInv
<1>4. Stamps(s)' /\ Promised(s)'
  BY <1>2, <1>3 DEF Stamps, HasPinned, Promised
<1> QED
  BY <1>1, <1>4, PinKept DEF PinInv, FreshInv, TypeOK, Pin

\* A call that returns: it may have a report to answer for.
LEMMA PinReturn ==
  ASSUME PinInv, FreshInv', NEW s \in DbService, NEW how \in Outcome, Return(s, how), UNCHANGED db,
         how = "ok" /\ svc[s].call \in {"stamp", "submit"} /\ svc[s].digest # NoDigest
           => db.pin = svc[s].digest
  PROVE  PinInv'
<1>1. /\ svc'[s] = [svc[s] EXCEPT !.pc = "idle", !.outcome = how]
      /\ \A t \in DbService \ {s} : svc'[t] = svc[t]
  BY DEF Return, PinInv, FreshInv, TypeOK
<1>2. /\ svc'[s].pc = "idle" /\ svc'[s].call = svc[s].call /\ svc'[s].digest = svc[s].digest
      /\ svc'[s].refresh = svc[s].refresh /\ svc'[s].layer = svc[s].layer
      /\ svc'[s].outcome = how
  BY <1>1 DEF PinInv, FreshInv, TypeOK, Call
<1>3. Stamps(s)
  BY DEF PinInv
<1>4. Stamps(s)' /\ Promised(s)'
  BY <1>2, <1>3 DEF Stamps, HasPinned, AfterPin, Promised
<1> QED
  BY <1>1, <1>4, PinKept DEF PinInv, FreshInv, TypeOK, Pin

LEMMA ExportedPin ==
  ASSUME PinInv, FreshInv', NEW s \in DbService, Exported(s), UNCHANGED db,
         svc[s].pc \in {"compare", "file"}
  PROVE  PinInv'
<1>1. Stamps(s)
  BY DEF PinInv
<1>2. CASE Return(s, "raised")
  BY <1>2, PinReturn DEF Outcome
<1>3. CASE Return(s, "ok") /\ (svc[s].call # "stamp" \/ svc[s].refresh)
  BY <1>1, <1>3, PinReturn DEF Outcome, Stamps, HasPinned, AfterPin
<1>4. CASE Return(s, "ok") /\ svc[s].call = "stamp" /\ svc[s].layer.pin = svc[s].digest
  BY <1>1, <1>4, PinReturn DEF Outcome, Stamps
<1>5. CASE Goto(s, "pin")
  BY <1>5, PinMove DEF AfterPin
<1> QED
  BY <1>2, <1>3, <1>4, <1>5 DEF Exported

LEMMA ExportFailsPin ==
  ASSUME PinInv, FreshInv', NEW s \in DbService, ExportFails(s), UNCHANGED db,
         svc[s].pc \in {"compare", "marker", "file"}
  PROVE  PinInv'
<1>1. CASE svc[s].refresh /\ Goto(s, "unlinkFile")
  BY <1>1, PinMove DEF AfterPin
<1>2. CASE Return(s, "raised")
  BY <1>2, PinReturn DEF Outcome
<1> QED
  BY <1>1, <1>2 DEF ExportFails

LEMMA PinStart ==
  ASSUME NoReplacement, PinInv, FreshInv', NEW s \in DbService, StartCall(s)
  PROVE  PinInv'
<1>1. ASSUME NEW call \in CallKind \ {"restate", "store"}, NEW d \in Pin, Begin(s, call, d),
             call = "stamp" => d # NoDigest
      PROVE  PinInv'
  <2>1. /\ svc'[s] = [Idle EXCEPT !.pc = IF call \in {"read", "stamp"} THEN "get" ELSE "commit",
                                  !.call = call, !.digest = d, !.since = db.rev]
        /\ \A t \in DbService \ {s} : svc'[t] = svc[t]
        /\ UNCHANGED db
    BY <1>1 DEF Begin, PinInv, FreshInv, TypeOK
  <2>2. /\ svc'[s].pc = (IF call \in {"read", "stamp"} THEN "get" ELSE "commit")
        /\ svc'[s].call = call /\ svc'[s].digest = d /\ svc'[s].refresh = FALSE
        /\ svc'[s].layer.pin = NoDigest /\ svc'[s].outcome = "none"
    BY <2>1 DEF Idle, NoLayer
  <2>3. Stamps(s)' /\ Promised(s)'
    BY <1>1, <2>2 DEF Stamps, HasPinned, AfterPin, Promised, CallKind
  <2> QED
    BY <2>1, <2>3, PinKept DEF PinInv, FreshInv, TypeOK, Pin
<1> QED
  BY <1>1 DEF StartCall, Read, StampReport, Submit, Mutate, StoreLayer, CallKind, Pin, NoReplacement

\* PinInv survives every step of a call, whoever else has one open.
LEMMA PinDbStep ==
  ASSUME PinInv, FreshInv', NEW s \in DbService, DbStep(s)
  PROVE  PinInv'
<1>0. Stamps(s) /\ TypeOK
  BY DEF PinInv, FreshInv
<1>1. CASE CommitRefused(s) \/ PinRefused(s) \/ GetLayerFails(s) \/ Crash(s)
  BY <1>1, PinReturn DEF CommitRefused, PinRefused, GetLayerFails, Crash, Outcome
<1>2. CASE Commit(s)
  <2>1. /\ svc'[s].pc \in {"idle", "pin", "get"} /\ svc'[s].call = svc[s].call
        /\ svc'[s].pc = "get" => ~(svc[s].call = "submit" /\ svc[s].digest # NoDigest)
        /\ svc'[s].pc = "idle" => svc[s].call = "store"
        /\ svc'[s].outcome = IF svc[s].call = "store" THEN "ok" ELSE "none"
        /\ svc'[s].digest = svc[s].digest /\ svc'[s].layer = svc[s].layer
        /\ svc[s].call = "store" <=> svc'[s].pc = "idle"
        /\ svc[s].pc = "commit"
    BY <1>0, <1>2 DEF Commit, At, TypeOK, Call
  <2>2. db'.pin = db.pin /\ \A t \in DbService \ {s} : svc'[t] = svc[t]
    BY <1>0, <1>2 DEF Commit, TypeOK, Stamps
  <2>3. Stamps(s)' /\ Promised(s)'
    BY <1>0, <2>1, <2>2 DEF Stamps, HasPinned, AfterPin, Promised
  <2> QED
    BY <2>2, <2>3, PinKept
<1>3. CASE PinReport(s)
  <2>1. /\ svc'[s].pc = "get" /\ svc'[s].call = svc[s].call /\ svc'[s].outcome = svc[s].outcome
        /\ svc'[s].digest = svc[s].digest /\ svc'[s].layer = svc[s].layer
        /\ svc[s].pc = "pin" /\ svc[s].outcome = "none"
    BY <1>0, <1>3 DEF PinReport, At, TypeOK, Call, Stamps
  <2>2. /\ db.pin \in {NoDigest, db'.pin} /\ db'.pin = svc[s].digest
        /\ \A t \in DbService \ {s} : svc'[t] = svc[t]
    BY <1>0, <1>3 DEF PinReport, TypeOK
  <2>3. Stamps(s)' /\ Promised(s)'
    BY <1>0, <2>1, <2>2 DEF Stamps, HasPinned, AfterPin, Promised
  <2> QED
    BY <2>2, <2>3, PinKept
<1>4. CASE GetLayer(s)
  <2>1. /\ svc'[s].pc = "check" /\ svc'[s].call = svc[s].call /\ svc'[s].outcome = svc[s].outcome
        /\ svc'[s].digest = svc[s].digest /\ svc'[s].layer = db
        /\ svc'[s].refresh = svc[s].refresh /\ svc[s].pc = "get"
    BY <1>0, <1>4 DEF GetLayer, At, TypeOK, Call
  <2>2. UNCHANGED db /\ \A t \in DbService \ {s} : svc'[t] = svc[t]
    BY <1>0, <1>4 DEF GetLayer, TypeOK
  <2>3. Stamps(s)' /\ Promised(s)'
    BY <1>0, <2>1, <2>2 DEF Stamps, HasPinned, AfterPin, Promised
  <2> QED
    BY <2>2, <2>3, PinKept
<1>5. CASE Check(s)
  BY <1>5, PinMove DEF Check, At, AfterPin
<1>6. CASE Compare(s)
  <2>1. CASE Goto(s, "marker") /\ At(s, "compare") /\ UNCHANGED db
    BY <2>1, PinMove DEF At, AfterPin
  <2>2. CASE Exported(s) /\ At(s, "compare") /\ UNCHANGED db
    BY <2>2, ExportedPin DEF At
  <2>3. CASE ExportFails(s) /\ At(s, "compare") /\ UNCHANGED db
    BY <2>3, ExportFailsPin DEF At
  <2> QED
    BY <1>6, <2>1, <2>2, <2>3 DEF Compare
<1>7. CASE WriteMarker(s)
  BY <1>7, PinMove DEF WriteMarker, At, AfterPin
<1>8. CASE WriteFile(s)
  BY <1>8, ExportedPin DEF WriteFile, At
<1>9. CASE WriteFails(s)
  BY <1>9, ExportFailsPin DEF WriteFails
<1>10. CASE UnlinkFile(s)
  BY <1>0, <1>10, PinMove DEF UnlinkFile, At, AfterPin, Stamps
<1>11. CASE UnlinkMarker(s)
  BY <1>0, <1>11, PinReturn DEF UnlinkMarker, At, Outcome, Stamps, HasPinned, AfterPin
<1> QED
  BY <1>1, <1>2, <1>3, <1>4, <1>5, <1>6, <1>7, <1>8, <1>9, <1>10, <1>11 DEF DbStep

LEMMA PinNext ==
  ASSUME NoReplacement, PinInv, [Next]_vars
  PROVE  PinInv'
<1>0. FreshInv'
  BY FreshNext DEF PinInv
<1>1. ASSUME NEW s \in DbService, StartCall(s) \/ DbStep(s) PROVE PinInv'
  BY <1>0, <1>1, PinStart, PinDbStep
<1>2. CASE UNCHANGED svc /\ db.pin \in {NoDigest, db'.pin}
  BY <1>0, <1>2 DEF PinInv, StampedMeansPinned, Stamps, HasPinned
<1>3. ASSUME NEW f \in FileService, FileStep(f) PROVE PinInv'
  BY <1>2, <1>3 DEF FileStep, FileWriteTarget, FileEnsureTarget, FileCall, FileWrite, FileEnsure,
                    FileCreate
<1>4. CASE OutOfBand
  BY <1>2, <1>4 DEF OutOfBand
<1>5. CASE UNCHANGED vars
  BY <1>2, <1>5 DEF vars
<1> QED
  BY <1>1, <1>3, <1>4, <1>5 DEF Next

\* StampedMeansPinned, for any number of services, faults and other writers, as long as nobody
\* restates or stores a whole layer: when stamp_report_file or submit_events returns, the layer
\* pins that report.
THEOREM StampsHold ==
  ASSUME NoReplacement
  PROVE  Spec => []StampedMeansPinned
<1>1. PinInv /\ [Next]_vars => PinInv'
  BY PinNext
<1>2. PinInv => StampedMeansPinned
  BY DEF PinInv
<1> QED
  BY PinInit, <1>1, <1>2, PTL DEF Spec

=============================================================================
