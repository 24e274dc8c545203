---------------------------- MODULE LedgerView ----------------------------
(***************************************************************************)
(* What a session that reads the layer file is promised in database mode:  *)
(* the database holds a sequence of committed revisions of one layer, and  *)
(* the file is either absent or exactly one of them.  It is never a mix of *)
(* two revisions and never something the database did not commit.          *)
(*                                                                         *)
(* With Ordered the file moreover never goes back to an earlier revision   *)
(* without having been withdrawn first.                                    *)
(***************************************************************************)
EXTENDS Naturals

CONSTANTS MaxRev,    \* bound on the revisions of the layer
          Ordered    \* TRUE: a published revision is never replaced by an older one

VARIABLES rev,       \* the newest committed revision
          view       \* the revision the file shows, 0 when it shows none

viewVars == <<rev, view>>

Init == rev = 1 /\ view = 0

Commit == rev < MaxRev /\ rev' = rev + 1 /\ UNCHANGED view

Publish == \E r \in 1..rev :
             /\ Ordered => view <= r
             /\ view' = r
             /\ UNCHANGED rev

Withdraw == view' = 0 /\ UNCHANGED rev

Next == Commit \/ Publish \/ Withdraw

Spec == Init /\ [][Next]_viewVars
===========================================================================
