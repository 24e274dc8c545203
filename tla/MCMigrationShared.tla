------------------------- MODULE MCMigrationShared -------------------------
(***************************************************************************)
(* MigrationRehearsal in two settings: runs beside each other that raise   *)
(* and die over sources that stay, and one run that is left alone with     *)
(* every fault, sources and configuration that change included.  All of it *)
(* at once is too much for liveness.                                       *)
(***************************************************************************)
EXTENDS MigrationRehearsal

CONSTANT Survivor   \* who is left alone

VARIABLE alone

Others == Run \ {Survivor}

AloneInit == Init /\ alone \in BOOLEAN

\* A write to the output that fails.
DiskFault == \E r \in Run : Abort(r) \/ HandleLost(r) \/ \E p \in Path : IssueLost(r, p)

AloneNext == UNCHANGED alone /\
  \/ alone /\ \E r \in Others : pc[r] = "start" /\ Crash(r)
  \/ alone /\ (\A r \in Others : pc[r] = "dead") /\ Next
  \/ ~alone /\ Next /\ tree' = tree /\ ~DiskFault

\* Of a run that goes on, as in Spec.
AloneSpec == AloneInit /\ [][AloneNext]_<<vars, alone>> /\ \A r \in Run : WF_vars(RunStep(r))

=============================================================================
