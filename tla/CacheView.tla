----------------------------- MODULE CacheView ------------------------------
(***************************************************************************)
(* What a reader of the cache (storage.py, localize) is promised by its    *)
(* "Atomic publish": under a validator there is no entry or a whole        *)
(* object, and an entry only ever gives way, in one step, to a whole one.  *)
(***************************************************************************)
CONSTANTS Key,      \* validators
          Whole,    \* what a whole object may be
          None      \* there is no entry

VARIABLE shown

Init == shown = [k \in Key |-> None]

Publish == \E k \in Key, held \in Whole : shown' = [shown EXCEPT ![k] = held]

Spec == Init /\ [][Publish]_shown
=============================================================================
