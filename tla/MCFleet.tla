------------------------------ MODULE MCFleet ------------------------------
(***************************************************************************)
(* The fleets that FleetFetch is checked with: two root candidates, and    *)
(* two paths further down that share a cache file.                         *)
(***************************************************************************)
EXTENDS FleetFetch

MCSlug  == <<1, 2, 3, 3>>

Gone    == [tree |-> "absent", text |-> <<"no", "no", "no", "no">>]
Mixed   == [tree |-> "full", text |-> <<"blank", "deps", "no", "no">>]
Hidden  == [tree |-> "truncated", text |-> <<"no", "deps", "no", "no">>]
Partial == [tree |-> "full", text |-> <<"deps", "no", "no", "no">>]
Blank   == [tree |-> "full", text |-> <<"no", "blank", "no", "no">>]
Twins   == [tree |-> "full", text |-> <<"no", "deps", "blank", "deps">>]

MCMixed == {<<Mixed, Hidden, Mixed>>, <<Hidden, Mixed, Gone>>, <<Gone, Partial, Hidden>>,
            <<Twins, Blank, Gone>>, <<Blank, Gone, Blank>>}
MCPlain == {[r \in Repo |-> Partial]}

=============================================================================
