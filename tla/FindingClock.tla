---------------------------- MODULE FindingClock ----------------------------
(***************************************************************************)
(* The SLA clock of a finding (metrics/sla.py), from day to day: events    *)
(* about it are recorded, for whichever past day or with no day that can   *)
(* be read, its report is written anew, the policy is changed, and the     *)
(* view says where the finding stands.  What the events decide about the   *)
(* finding is the ledger's (derive_disposition), so any answer; what the   *)
(* policy gives for its severity and score (resolve_days_for) is one of    *)
(* the terms.                                                              *)
(***************************************************************************)
EXTENDS Integers, FiniteSets

CONSTANTS LastDay,       \* bound: days
          MaxRecorded,   \* bound: events
          Limits         \* numbers of days some policy gives

ASSUME ClockAssumption == LastDay \in Nat /\ MaxRecorded \in Nat /\ Limits \subseteq Nat

VARIABLES day,        \* as_of
          recorded,   \* the events of the finding: their day, and what they are
          derived,    \* its disposition, in the report
          audited,    \* the day of the report
          term,       \* resolve_days_for
          ladder      \* the policy's clock_start

clockVars == <<day, recorded, derived, audited, term, ladder>>

NoDate  == -1
Dates   == {NoDate} \cup 0..LastDay
Entries == [date : Dates, filing : BOOLEAN, resolving : BOOLEAN]
Derived == {"open", "resolved", "dismissed"}   \* dismissed: false_positive and the like, or gone
Terms   == [is : {"days"}, days : Limits] \cup [is : {"no SLA", "out of scope"}]
Ladder  == {"first_routed_or_filed", "first_event", "audit_date"}

ClockInit ==
  /\ day = 0 /\ recorded = {} /\ derived = "open" /\ audited = NoDate
  /\ term = [is |-> "out of scope"] /\ ladder = "first_routed_or_filed"

-----------------------------------------------------------------------------
(* The view                                                                *)

DatesOf(events) == {e.date : e \in events} \ {NoDate}

Latest(dates)   == CHOOSE d \in dates : \A o \in dates : o <= d \* Mutation, for Earliest
Earliest(dates) == CHOOSE d \in dates : \A o \in dates : d <= o

Filed == DatesOf({e \in recorded : e.filing})
Dated == DatesOf(recorded)
Basis == IF ladder = "first_routed_or_filed" /\ Filed # {} THEN "filed"
         ELSE IF ladder # "audit_date" /\ Dated # {} THEN "first_event"
         ELSE IF audited # NoDate THEN "audit_date" ELSE "unclocked"
Start == CASE Basis = "filed"       -> Earliest(Filed)
           [] Basis = "first_event" -> Earliest(Dated)
           [] Basis = "audit_date"  -> audited

ResolvedOn == DatesOf({e \in recorded : e.resolving})
IsResolved == derived = "resolved" \/ ResolvedOn # {}

\* build_view, for the finding; resolved_at is the latest of ResolvedOn.
Standing ==
  IF derived = "dismissed" THEN "not in the view"
  ELSE IF term.is = "out of scope" THEN "out_of_profile_scope"
  ELSE IF Basis = "unclocked" THEN IF IsResolved THEN "resolved_unclocked" ELSE "unclocked"
  ELSE IF term.is = "no SLA" THEN IF IsResolved THEN "not counted" ELSE "open_no_sla"
  ELSE LET due == Start + term.days IN
    IF ~IsResolved THEN IF due < day THEN "open_overdue" ELSE "open_in_sla"
    ELSE IF ResolvedOn = {} THEN "resolved_unclocked"
    ELSE IF \E d \in ResolvedOn : due < d THEN "resolved_breached" ELSE "resolved_met"

-----------------------------------------------------------------------------
(* What changes between two views                                          *)

\* Somebody records an event.
RecordEvent ==
  /\ Cardinality(recorded) < MaxRecorded
  /\ \E e \in Entries : e.date <= day /\ e \notin recorded /\ recorded' = recorded \cup {e}
  /\ derived' \in Derived
  /\ UNCHANGED <<day, audited, term, ladder>>

\* The repository is audited again: the new report has a date, or none that can be read.
Reaudit ==
  /\ audited' \in {NoDate, day} /\ derived' \in Derived
  /\ UNCHANGED <<day, recorded, term, ladder>>

\* Another policy file or profile, or another severity or score for the finding.
NewTerm ==
  /\ term' \in Terms /\ ladder' \in Ladder
  /\ UNCHANGED <<day, recorded, derived, audited>>

NextDay == day < LastDay /\ day' = day + 1 /\ UNCHANGED <<recorded, derived, audited, term, ladder>>

ClockNext == RecordEvent \/ Reaudit \/ NewTerm \/ NextDay
ClockSpec == ClockInit /\ [][ClockNext]_clockVars

-----------------------------------------------------------------------------
(* Properties                                                              *)

\* Every variable stays in its type.
ClockTypeOK ==
  /\ day \in 0..LastDay /\ recorded \in SUBSET Entries /\ derived \in Derived
  /\ audited \in Dates /\ term \in Terms /\ ladder \in Ladder

\* A finding escalated as overdue is so in the next view too, whatever is recorded about it and
\* for whichever day, until it is settled or its policy changes, its clock climbs the ladder (the
\* first dated event, the first filing), or it stands on the report's date and the report is a
\* new one: clock_start takes the earliest day of a rung, not the latest.
OverdueUntilSettled ==
  [][Standing = "open_overdue" /\ UNCHANGED <<term, ladder>> =>
       \/ Standing' = "open_overdue" \/ derived' = "dismissed" \/ IsResolved'
       \/ Basis' # Basis \/ (Basis = "audit_date" /\ audited' # audited)]_clockVars

=============================================================================
