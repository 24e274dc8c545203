--------------------------- MODULE LedgerService ---------------------------
(***************************************************************************)
(* LedgerService (ledger/service.py): the engine's gateway to one bound    *)
(* layer of the Ledger database and to the snapshot file that shows it.    *)
(*                                                                         *)
(* Several services (processes) work on the same layer and the same path.  *)
(* A call is a sequence of steps other processes may interleave with: the  *)
(* commit in the database, get_layer, the comparison with the file on      *)
(* disk, the replacement of the marker, the replacement of the layer file. *)
(* A process may die between any two of them.                              *)
(*                                                                         *)
(* A layer is abstracted to its revision (every committed mutation makes a *)
(* new one: events, queue, metadata and signature are data) and to the     *)
(* digest of the audit report it pins.                                     *)
(***************************************************************************)
EXTENDS Naturals

CONSTANTS DbService,    \* services in database mode, all bound to this layer
          FileService,  \* services in file mode working on the same path
          Digest,       \* digests of audit reports
          NoDigest,     \* the layer pins no report / the call names none
          Calls,        \* the calls the environment makes, a subset of CallKind
          Faults,       \* what may fail, a subset of FaultKind
          MaxRev        \* bound on the revisions of the layer

CallKind  == {"read", "stamp", "submit", "mutate", "restate", "store"}
FaultKind == {"backend", "write", "unlink", "crash"}

ASSUME LedgerAssumption ==
  /\ MaxRev \in Nat \ {0}
  /\ NoDigest \notin Digest
  /\ Calls \subseteq CallKind
  /\ Faults \subseteq FaultKind

VARIABLES db,      \* the bound database layer
          file,    \* what stands at layer_path
          marker,  \* revision named by the .snapshot sidecar, 0 when there is none
          svc,     \* the call each database-mode service is in
          fsvc     \* the call each file-mode service is in

vars == <<db, file, marker, svc, fsvc>>

Pin      == Digest \cup {NoDigest}
Layer    == [rev : 0..MaxRev, pin : Pin]
NoLayer  == [rev |-> 0, pin |-> NoDigest]
\* A file is nothing, an export of revision rev, or a standalone file ledger
\* (grown from the exported revision rev, 0 when file mode created it).
NoFile   == [kind |-> "none", rev |-> 0]
File     == {NoFile} \cup [kind : {"snapshot"}, rev : 1..MaxRev]
                     \cup [kind : {"standalone"}, rev : 0..MaxRev]

\* Program points of a database-mode call: where it will resume.
Point    == {"idle", "commit", "pin", "get", "check", "compare", "marker",
             "file", "unlinkFile", "unlinkMarker"}
Outcome  == {"none", "ok", "raised", "crashed"}
Call     == [pc : Point, call : CallKind, digest : Pin,
             refresh : BOOLEAN,      \* in _refresh, or in a read
             layer : Layer,          \* what get_layer last returned
             since : 1..MaxRev,      \* the newest revision when the call began
             wrote : 0..MaxRev,      \* the last revision this call committed
             outcome : Outcome]

Idle == [pc |-> "idle", call |-> "read", digest |-> NoDigest, refresh |-> FALSE,
         layer |-> NoLayer, since |-> 1, wrote |-> 0, outcome |-> "none"]

Init == /\ db = [rev |-> 1, pin |-> NoDigest]
        /\ file = NoFile
        /\ marker = 0
        /\ svc = [s \in DbService |-> Idle]
        /\ fsvc = [f \in FileService |-> "idle"]

-----------------------------------------------------------------------------
(* Steps of a database-mode call                                           *)

At(s, pc)      == svc[s].pc = pc
Goto(s, pc)    == svc' = [svc EXCEPT ![s].pc = pc]
Return(s, how) == svc' = [svc EXCEPT ![s].pc = "idle", ![s].outcome = how]

Begin(s, call, d) ==
  /\ At(s, "idle")
  /\ svc' = [svc EXCEPT ![s] =
       [Idle EXCEPT !.pc     = IF call \in {"read", "stamp"} THEN "get" ELSE "commit",
                    !.call   = call,
                    !.digest = d,
                    !.since  = db.rev]]
  /\ UNCHANGED <<db, file, marker, fsvc>>

\* read_layer_file, ensure_layer_file, write_snapshot
Read(s) == Begin(s, "read", NoDigest)
\* submit_events, with the report it was made from or without one
Submit(s) == \E d \in Pin : Begin(s, "submit", d)
\* sign, resolve_review_item, countersign, patch_layer_file, stamp_event_identities
Mutate(s) == Begin(s, "mutate", NoDigest)
\* restate of audit_report_sha256
Restate(s) == \E d \in Digest : Begin(s, "restate", d)
StampReport(s) == \E d \in Digest : Begin(s, "stamp", d)
StoreLayer(s) == Begin(s, "store", NoDigest)

\* Mutation: the refused write is already in the file.
CommitRefusedAfterFile(s) ==
  /\ At(s, "commit")
  /\ db.rev < MaxRev
  /\ file' = [kind |-> "snapshot", rev |-> db.rev + 1]
  /\ Return(s, "raised")
  /\ UNCHANGED <<db, marker, fsvc>>

\* The client's write: refused (LedgerError), or durable before it returns.
CommitRefused(s) ==
  /\ At(s, "commit")
  /\ Return(s, "raised")
  /\ UNCHANGED <<db, file, marker, fsvc>>

\* A restatement replaces the pin, store_layer the whole layer with the pin it holds.
Commit(s) ==
  /\ At(s, "commit")
  /\ db.rev < MaxRev
  /\ \E pin \in Pin :
       /\ svc[s].call = "restate" => pin = svc[s].digest
       /\ svc[s].call \notin {"restate", "store"} => pin = db.pin
       /\ db' = [rev |-> db.rev + 1, pin |-> pin]
  /\ svc' = [svc EXCEPT
       ![s].wrote   = db.rev + 1,
       ![s].pc      = IF svc[s].call = "store" THEN "idle"
                      ELSE IF svc[s].call = "submit" /\ svc[s].digest # NoDigest
                           THEN "pin" ELSE "get",
       ![s].outcome = IF svc[s].call = "store" THEN "ok" ELSE "none",
       ![s].refresh = svc[s].call # "store"]
  /\ UNCHANGED <<file, marker, fsvc>>

\* patch_metadata(audit_report_sha256): the ledger refuses to replace a signed digest.
PinReport(s) ==
  /\ At(s, "pin")
  /\ db.rev < MaxRev
  /\ db.pin \in {NoDigest, svc[s].digest}
  /\ db' = [rev |-> db.rev + 1, pin |-> svc[s].digest]
  /\ svc' = [svc EXCEPT ![s].pc = "get", ![s].wrote = db.rev + 1, ![s].refresh = TRUE]
  /\ UNCHANGED <<file, marker, fsvc>>

\* The report cannot be read, or the ledger refuses: for another digest that is signed, or for
\* whatever else it refuses a write.
PinRefused(s) ==
  /\ At(s, "pin")
  /\ Return(s, "raised")
  /\ UNCHANGED <<db, file, marker, fsvc>>

-----------------------------------------------------------------------------
(* write_snapshot, called by a read or by _refresh                         *)

\* Mutation: a snapshot on disk is taken for the layer.
GetLayerFromFile(s) ==
  /\ At(s, "get")
  /\ svc' = [svc EXCEPT ![s].pc = "check",
                        ![s].layer = IF file.kind = "snapshot"
                                     THEN [db EXCEPT !.rev = file.rev] ELSE db]
  /\ UNCHANGED <<db, file, marker, fsvc>>

GetLayer(s) ==
  /\ At(s, "get")
  /\ svc' = [svc EXCEPT ![s].layer = db, ![s].pc = "check"]
  /\ UNCHANGED <<db, file, marker, fsvc>>

GetLayerFails(s) ==
  /\ "backend" \in Faults
  /\ At(s, "get")
  /\ Return(s, "raised")
  /\ UNCHANGED <<db, file, marker, fsvc>>

\* Mutation: a layer that pins any report is taken for stamped.
ExportedAnyPin(s) ==
  IF svc[s].call # "stamp" \/ svc[s].refresh \/ svc[s].layer.pin # NoDigest
  THEN Return(s, "ok") ELSE Goto(s, "pin")

\* What happens once the file shows the layer: a read or a refresh returns,
\* stamp_report_file looks at the pin it read.
Exported(s) ==
  CASE svc[s].call # "stamp" \/ svc[s].refresh       -> Return(s, "ok")
    [] svc[s].layer.pin = svc[s].digest              -> Return(s, "ok")
    [] svc[s].layer.pin \notin {NoDigest, svc[s].digest} -> Return(s, "raised")
    [] OTHER                                         -> Goto(s, "pin")

\* An OSError: _refresh drops the stale snapshot, a read lets it out.
ExportFails(s) == IF svc[s].refresh THEN Goto(s, "unlinkFile") ELSE Return(s, "raised")

\* layer_path.is_file() and marker.is_file()
Check(s) ==
  /\ At(s, "check")
  /\ Goto(s, IF file.kind # "none" /\ marker # 0 THEN "compare" ELSE "marker")
  /\ UNCHANGED <<db, file, marker, fsvc>>

\* Mutation: a file that exists counts as unchanged.
CompareExists(s) ==
  /\ At(s, "compare")
  /\ IF file.kind = "none" THEN ExportFails(s) ELSE Exported(s)
  /\ UNCHANGED <<db, file, marker, fsvc>>

\* layer_path.read_text() == text; the file may have gone since the check.
Compare(s) ==
  /\ At(s, "compare")
  /\ CASE file.kind = "none" -> ExportFails(s)
       [] file = [kind |-> "snapshot", rev |-> svc[s].layer.rev] -> Exported(s)
       [] OTHER -> Goto(s, "marker")
  /\ UNCHANGED <<db, file, marker, fsvc>>

WriteMarker(s) ==
  /\ At(s, "marker")
  /\ marker' = svc[s].layer.rev
  /\ Goto(s, "file")
  /\ UNCHANGED <<db, file, fsvc>>

WriteFile(s) ==
  /\ At(s, "file")
  /\ file' = [kind |-> "snapshot", rev |-> svc[s].layer.rev]
  /\ Exported(s)
  /\ UNCHANGED <<db, marker, fsvc>>

WriteFails(s) ==
  /\ "write" \in Faults
  /\ svc[s].pc \in {"marker", "file"}
  /\ ExportFails(s)
  /\ UNCHANGED <<db, file, marker, fsvc>>

\* Mutation: the stale file is emptied, not removed.
UnlinkFileTruncates(s) ==
  /\ At(s, "unlinkFile")
  /\ file' = [file EXCEPT !.rev = 0]
  /\ Goto(s, "unlinkMarker")
  /\ UNCHANGED <<db, marker, fsvc>>

\* Mutation: the marker goes first.
UnlinkMarkerFirst(s) ==
  /\ At(s, "unlinkFile")
  /\ marker' = 0
  /\ Goto(s, "unlinkMarker")
  /\ UNCHANGED <<db, file, fsvc>>

\* The two unlinks of _refresh; each swallows its own OSError.
UnlinkFile(s) ==
  /\ At(s, "unlinkFile")
  /\ file' = NoFile \/ ("unlink" \in Faults /\ file' = file)
  /\ Goto(s, "unlinkMarker")
  /\ UNCHANGED <<db, marker, fsvc>>

UnlinkMarker(s) ==
  /\ At(s, "unlinkMarker")
  /\ marker' = 0 \/ ("unlink" \in Faults /\ marker' = marker)
  /\ Return(s, "ok")
  /\ UNCHANGED <<db, file, fsvc>>

\* The process dies inside the call.
Crash(s) ==
  /\ "crash" \in Faults
  /\ ~At(s, "idle")
  /\ Return(s, "crashed")
  /\ UNCHANGED <<db, file, marker, fsvc>>

\* A write to the bound layer by another client of the Ledger (a countersign, or
\* a first stamp of a report, made elsewhere): no snapshot follows it.
OutOfBand ==
  /\ db.rev < MaxRev
  /\ \E d \in Pin : /\ db.pin \in {NoDigest, d}
                    /\ db' = [rev |-> db.rev + 1, pin |-> d]
  /\ UNCHANGED <<file, marker, svc, fsvc>>

-----------------------------------------------------------------------------
(* File mode on the same path: _write_target refuses a marked file, then   *)
(* the client works on the file.                                           *)

FileCall(f, next) ==
  /\ fsvc[f] = "idle"
  /\ marker = 0
  /\ fsvc' = [fsvc EXCEPT ![f] = next]
  /\ UNCHANGED <<db, file, marker, svc>>

FileWriteTarget(f)  == FileCall(f, "write")
FileEnsureTarget(f) == FileCall(f, "ensure")

\* The client's write: the file at the path becomes (or stays) a file ledger.
FileWrite(f) ==
  /\ fsvc[f] = "write"
  /\ file' = IF file.kind = "none" THEN file ELSE [file EXCEPT !.kind = "standalone"]
  /\ fsvc' = [fsvc EXCEPT ![f] = "idle"]
  /\ UNCHANGED <<db, marker, svc>>

\* ensure_layer_file reads the file, or goes on to create it.
FileEnsure(f) ==
  /\ fsvc[f] = "ensure"
  /\ fsvc' = [fsvc EXCEPT ![f] = IF file.kind = "none" THEN "create" ELSE "idle"]
  /\ UNCHANGED <<db, file, marker, svc>>

\* The client refuses to create over an existing layer, or replaces it.
FileCreate(f) ==
  /\ fsvc[f] = "create"
  /\ \/ file' = [kind |-> "standalone", rev |-> 0]
     \/ file.kind # "none" /\ file' = file
  /\ fsvc' = [fsvc EXCEPT ![f] = "idle"]
  /\ UNCHANGED <<db, marker, svc>>

-----------------------------------------------------------------------------

\* The calls a run's environment makes.
StartCall(s) ==
  \/ "read"    \in Calls /\ Read(s)
  \/ "stamp"   \in Calls /\ StampReport(s)
  \/ "submit"  \in Calls /\ Submit(s)
  \/ "mutate"  \in Calls /\ Mutate(s)
  \/ "restate" \in Calls /\ Restate(s)
  \/ "store"   \in Calls /\ StoreLayer(s)

DbStep(s) ==
  \/ CommitRefused(s) \/ Commit(s) \/ PinReport(s) \/ PinRefused(s)
  \/ GetLayer(s) \/ GetLayerFails(s) \/ Check(s) \/ Compare(s)
  \/ WriteMarker(s) \/ WriteFile(s) \/ WriteFails(s)
  \/ UnlinkFile(s) \/ UnlinkMarker(s) \/ Crash(s)

FileStep(f) ==
  \/ FileWriteTarget(f) \/ FileEnsureTarget(f)
  \/ FileWrite(f) \/ FileEnsure(f) \/ FileCreate(f)

Next == \/ \E s \in DbService : StartCall(s) \/ DbStep(s)
        \/ \E f \in FileService : FileStep(f)
        \/ OutOfBand

Spec == Init /\ [][Next]_vars

-----------------------------------------------------------------------------
(* Properties                                                              *)

\* Every variable stays in its type: what the state of each file, layer and
\* call of ledger/service.py can be.
TypeOK ==
  /\ db \in [rev : 1..MaxRev, pin : Pin]
  /\ file \in File
  /\ marker \in 0..MaxRev
  /\ svc \in [DbService -> Call]
  /\ fsvc \in [FileService -> {"idle", "write", "ensure", "create"}]

\* "Nothing falls back to the file": the layer a call works with is the database's,
\* and at least as new as everything committed before the call began, whatever
\* other services leave on disk meanwhile.
ReadsAreFresh ==
  \A s \in DbService :
    svc[s].layer.rev # 0 => svc[s].layer.rev \in svc[s].since..db.rev

\* A snapshot of the database never stands without its marker, so that file mode
\* can always tell it from a file ledger: whatever dies or fails between the
\* writes of write_snapshot and between the unlinks of _refresh.
SnapshotIsMarked == file.kind = "snapshot" => marker # 0

\* The marker (written first, removed last) never names an older revision than the file
\* shows: in particular a snapshot never stands without it.
MarkerNotBehindFile == file.kind = "snapshot" => file.rev <= marker

\* Once a call that wrote has returned, the file shows its write or a later one, or
\* is not there: nobody reads the state from before an acknowledged write.
OwnWritesVisible ==
  \A s \in DbService :
    svc[s].outcome = "ok" /\ svc[s].wrote # 0 /\ file.kind = "snapshot"
      => svc[s].wrote <= file.rev

\* When stamp_report_file or submit_events returns, the layer pins the digest of the
\* report the call named, although the pin is read before and written later.
\* (Restatements and store_layer replace pins; runs that make neither check this.)
StampedMeansPinned ==
  \A s \in DbService :
    svc[s].outcome = "ok" /\ svc[s].call \in {"stamp", "submit"} /\ svc[s].digest # NoDigest
      => db.pin = svc[s].digest

\* A call whose write is committed does not raise: "if a committed write's snapshot
\* refresh fails, the stale snapshot is removed and the call does not raise".
CommittedCallsDoNotRaise ==
  \A s \in DbService : svc[s].refresh => svc[s].outcome # "raised"

-----------------------------------------------------------------------------
(* The promise to the readers of the file, with and without its order      *)

view == IF file.kind = "snapshot" THEN file.rev ELSE 0

View        == INSTANCE LedgerView WITH rev <- db.rev, Ordered <- FALSE
OrderedView == INSTANCE LedgerView WITH rev <- db.rev, Ordered <- TRUE

\* The file only ever shows a revision the database committed.
ShowsCommittedLayers == View!Spec

\* With one exporting service it moreover never goes back in time.
NeverShowsOlderLayer == OrderedView!Spec
=============================================================================
