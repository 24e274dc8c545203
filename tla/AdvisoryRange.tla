--------------------------- MODULE AdvisoryRange ---------------------------
(***************************************************************************)
(* The advisory that an impact analysis runs against (impact/advisory.py)  *)
(* and what its records say of a version (osv/ranges.py): resolve fetches  *)
(* the record with the advisory's id, or else every record of the module   *)
(* that carries the id; a record's events are read as affected spans; the  *)
(* spans decide whether a version is in range and which fix clears it.     *)
(*                                                                         *)
(* A version is its place in its ecosystem's order; Garbled stands for the *)
(* ones that cannot be parsed, and 0 for "0", before which there is none.  *)
(* The code compares keys of versions, and a key is less than a version:   *)
(* a pre-release has the key of its release, the pseudo-versions of one    *)
(* Go module all have the same, an epoch is dropped.  So Key is any map,   *)
(* and properties hold for the versions that it does tell apart.           *)
(***************************************************************************)
EXTENDS Integers, Sequences

CONSTANTS MaxVersion,   \* versions are 0..MaxVersion, and what cannot be parsed
          Key,          \* the key of each, as a number where the code has tuples
          MaxEvents,    \* bound: events of a range of a record that is alone
          PairEvents    \* bound: events of the first range where there are two, the other has one

ASSUME RangeAssumption == {MaxVersion, MaxEvents, PairEvents} \subseteq Nat
ASSUME KeyAssumption == Key \in [0..MaxVersion -> Nat]

VARIABLES carriers,   \* the records that carry the id; the first may have it as its own
          direct,     \* whether it has
          used,       \* those that resolve has, by place
          missed,     \* history: those whose fetch failed
          stage       \* where resolve is

advisoryVars == <<carriers, direct, used, missed, stage>>

Garbled == -1
Unset   == -2
Version == {Garbled} \cup 0..MaxVersion
Event(versions)     == [kind : {"introduced", "fixed", "last_affected"}, at : versions]
Ranges(n, versions) == UNION {[1..k -> Event(versions)] : k \in 0..n}   \* events, in the list's order
Pairs == Ranges(PairEvents, 0..MaxVersion) \X Ranges(1, 0..MaxVersion)

\* A record: the ranges under the name that _name finds for the module in it, and those of
\* its entries with no name, or with another spelling of that.
Record(named, others) == [named |-> named, others |-> others]

\* One record, of one range or two; or two records of one range each.
Carriers == {<<Record(<<r>>, <<>>)>> : r \in Ranges(MaxEvents, Version)}
              \cup {<<Record(p, <<>>)>> : p \in Pairs} \cup {<<Record(<<p[1]>>, <<p[2]>>)>> : p \in Pairs}
              \cup {<<Record(<<p[1]>>, <<>>), Record(<<p[2]>>, <<>>)>> : p \in Pairs}
              \cup {<<Record(<<>>, <<p[1]>>), Record(<<p[2]>>, <<>>)>> : p \in Pairs}

AdvisoryInit ==
  /\ carriers = <<>> /\ direct = FALSE /\ used = {} /\ missed = {} /\ stage = "start"

-----------------------------------------------------------------------------
(* osv/ranges.py                                                           *)

From(acc) == IF acc.start = Unset THEN 0 ELSE acc.start
End(acc, fixed, last) ==
  [start |-> Unset,
   out   |-> Append(acc.out, [introduced |-> From(acc), fixed |-> fixed, last |-> last])]

ReadEventLast(acc, e) == \* Mutation: a second introduced moves the start of the span
  CASE e.kind = "introduced"    -> [acc EXCEPT !.start = e.at]
    [] e.kind = "fixed"         -> End(acc, e.at, Unset)
    [] e.kind = "last_affected" -> End(acc, Unset, e.at)
ReadEvent(acc, e) ==
  CASE e.kind = "introduced"    -> IF acc.start = Unset THEN [acc EXCEPT !.start = e.at] ELSE acc
    [] e.kind = "fixed"         -> End(acc, e.at, Unset)
    [] e.kind = "last_affected" -> End(acc, Unset, e.at)

Reading(range) ==
  LET acc[i \in 0..Len(range)] == IF i = 0 THEN [start |-> Unset, out |-> <<>>]
                                  ELSE ReadEvent(acc[i - 1], range[i])
  IN acc
SpansOf(range) ==
  LET last == Reading(range)[Len(range)]
  IN IF last.start = Unset THEN last.out ELSE End(last, Unset, Unset).out

Joined(ranges) ==
  LET out[k \in 0..Len(ranges)] == IF k = 0 THEN <<>> ELSE out[k - 1] \o SpansOf(ranges[k])
  IN out
Spans(ranges) == Joined(ranges)[Len(ranges)]

\* _Order.contains: "0" is below every key.
Begun(introduced, v) == introduced = 0 \/ Key[introduced] <= Key[v]
Within(span, v) ==
  CASE span.introduced = Garbled -> "none"
    [] span.introduced # Garbled /\ ~Begun(span.introduced, v) -> "no"
    [] span.introduced # Garbled /\ Begun(span.introduced, v) ->
         LET bound == IF span.fixed # Unset THEN span.fixed ELSE span.last
         IN CASE bound = Unset   -> "yes"
              [] bound = Garbled -> "none"
              [] bound >= 0      -> IF Key[v] < Key[bound] \/ (span.fixed = Unset /\ Key[v] = Key[bound])
                                    THEN "yes" ELSE "no"

Some(ss, v, answer) == \E i \in DOMAIN ss : Within(ss[i], v) = answer
Verdict(yes, none)  == IF yes THEN "yes" ELSE IF none THEN "none" ELSE "no"

\* Only the ranges under the name count here.
Covers(record, v) ==
  IF v = Garbled THEN "none"
  ELSE Verdict(Some(Spans(record.named), v, "yes"), Some(Spans(record.named), v, "none"))

Foremost(is) == CHOOSE i \in is : \A j \in is : i <= j
Lowest(vs)   == CHOOSE v \in vs : \A w \in vs : Key[v] <= Key[w]

CleanAny(ss, s) == s \* Mutation: a fix that another span covers is taken as well
Clean(ss, s) == {f \in s : ~Some(ss, f, "yes")}

\* fixed_for, by its list of spans: the fix of a span that covers v before any other, a clean
\* one before any other, and of those with the lowest key one.
FixedFor(ss, v) ==
  LET fixed == {i \in DOMAIN ss : ss[i].fixed # Unset}
      above(is) == {f \in {ss[i].fixed : i \in is} \cap 0..MaxVersion : Key[f] > Key[v]}
      own   == above({i \in DOMAIN ss : Within(ss[i], v) = "yes"})
      any   == above(DOMAIN ss)
  IN CASE fixed = {} -> Unset
       [] fixed # {} /\ (v = Garbled \/ \A i \in fixed : ss[i].fixed = Garbled) -> ss[Foremost(fixed)].fixed
       [] OTHER -> IF Clean(ss, own) # {} THEN Lowest(Clean(ss, own))
                   ELSE IF Clean(ss, any) # {} THEN Lowest(Clean(ss, any))
                   ELSE IF own # {} THEN Lowest(own) ELSE Unset

-----------------------------------------------------------------------------
(* impact/advisory.py                                                      *)

\* ResolvedAdvisory.spans: where the module's own spelling finds nothing, every entry counts.
HasSpans(records) ==
  \E r \in records : Spans(r.named) # <<>> \/ Spans(r.others) # <<>>
RecordsAt(is) == {carriers[i] : i \in is}

\* The record with the advisory's id: there is none, it cannot be had, or it is fetched.
GetDirect ==
  /\ stage = "start" /\ carriers' \in Carriers /\ direct' \in BOOLEAN
  /\ \E got \in BOOLEAN :
       /\ got => direct'
       /\ used' = IF got THEN {1} ELSE {}
       /\ stage' = IF got /\ HasSpans({carriers'[1]}) THEN "resolved" ELSE "list"
  /\ UNCHANGED missed

\* The module's advisories; with no answer the analysis is not run.
ListModule ==
  /\ stage = "list" /\ stage' \in {"fetch", "unavailable"}
  /\ UNCHANGED <<carriers, direct, used, missed>>

\* Those of them that carry the id and can be fetched; get_vulns counts the others, which
\* resolve does not look at.
GetCarriers ==
  /\ stage = "fetch"
  /\ \E failed \in SUBSET DOMAIN carriers :
       /\ used' = used \cup (DOMAIN carriers \ failed)
       /\ missed' = DOMAIN carriers \ used'
       /\ stage' = IF HasSpans(RecordsAt(used')) THEN "resolved" ELSE "unavailable"
  /\ UNCHANGED <<carriers, direct>>

AdvisoryNext == GetDirect \/ ListModule \/ GetCarriers
AdvisorySpec == AdvisoryInit /\ [][AdvisoryNext]_advisoryVars

\* ResolvedAdvisory.in_range
InRange(v) == Verdict(\E i \in used : Covers(carriers[i], v) = "yes",
                      \E i \in used : Covers(carriers[i], v) = "none")

-----------------------------------------------------------------------------
(* Properties                                                              *)

\* Every variable stays in its type.
AdvisoryTypeOK ==
  /\ carriers \in {<<>>} \cup Carriers /\ direct \in BOOLEAN
  /\ used \subseteq DOMAIN carriers /\ missed \subseteq DOMAIN carriers
  /\ stage \in {"start", "list", "fetch", "resolved", "unavailable"}

\* What a range in order says of v by the rule of the OSV schema: the events up to v are
\* applied one after the other, and one of them introduced what none after it ended.
Affects(range, v) == \E i \in DOMAIN range :
  /\ range[i].kind = "introduced" /\ range[i].at <= v
  /\ \A j \in DOMAIN range : j > i =>
       /\ range[j].kind = "fixed" => range[j].at > v
       /\ range[j].kind = "last_affected" => range[j].at >= v

InOrder(range) ==
  /\ \A i \in DOMAIN range : range[i].at # Garbled
  /\ \A i, j \in DOMAIN range : i < j => range[i].at <= range[j].at

\* The key tells v from w; and from what the events of a range compare it with.
Told(v, w) == (v < w <=> Key[v] < Key[w]) /\ (w < v <=> Key[w] < Key[v])
ToldBy(range, v) == \A i \in DOMAIN range :
  range[i] = [kind |-> "introduced", at |-> 0] \/ Told(v, range[i].at)

\* The records the advisory consists of.
Advisory == IF direct /\ HasSpans({carriers[1]}) THEN {1} ELSE DOMAIN carriers

\* "Not in range" is never said of what cannot be ordered, and wherever the fetch of the
\* direct record failed it is never wrong: if the other fetches succeeded, no range under the
\* module's name whose events are in order, and told from the version by their keys, affects it.
NotInRangeIsTrue ==
  stage = "resolved" /\ missed = {} =>
    \A v \in Version : InRange(v) = "no" =>
      /\ v # Garbled
      /\ \A i \in Advisory : LET ranges == carriers[i].named IN
           \A k \in DOMAIN ranges :
             InOrder(ranges[k]) /\ ToldBy(ranges[k], v) => ~Affects(ranges[k], v)

\* The fix for a version whose key is told from those of the fixes is above it, and no span of
\* the record covers it again if any fix above the version is such; where there is none,
\* neither is a fix that would do.
FixClears ==
  stage = "resolved" => \A i \in used, v \in 0..MaxVersion :
    LET ss    == Spans(carriers[i].named)
        fixes == {ss[k].fixed : k \in DOMAIN ss} \ {Unset}
        fix   == FixedFor(ss, v)
        clear == {f \in fixes : f > v /\ ~Some(ss, f, "yes")}
    IN (\A f \in fixes \ {Garbled} : Told(v, f)) =>
         IF fix = Garbled THEN fixes = {Garbled}
         ELSE /\ fix # Unset => fix > v
              /\ clear # {} => fix \in clear

=============================================================================
