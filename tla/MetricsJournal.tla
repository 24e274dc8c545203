--------------------------- MODULE MetricsJournal ---------------------------
(***************************************************************************)
(* The journal of metrics (metrics/history.py): one file of JSON lines     *)
(* that every dashboard appends to, each run of it under the dashboard's   *)
(* source.  A row carries the hash of the row before it, and verify()      *)
(* walks that chain.                                                       *)
(*                                                                         *)
(* append reads the last row in one step and writes its own in a later     *)
(* one, without a lock.  rows() skips a line that does not parse, so what  *)
(* the file says is the sequence of the rows that do; a write that stops   *)
(* half way leaves a line without its newline, and the next row written is *)
(* glued to that.                                                          *)
(*                                                                         *)
(* A hash is abstracted to a number that no other row ever has, and the    *)
(* genesis to 0; a snapshot to one of a few values.                        *)
(***************************************************************************)
EXTENDS Integers, Sequences, FiniteSets

CONSTANTS Dashboard,   \* the processes that append, at any time
          SourceOf,    \* the source of each: the runs of one dashboard share theirs
          Metrics,     \* what a snapshot may say
          MaxRows,     \* bound: rows that are ever written
          MaxTears     \* bound: writes that stop half way

ASSUME JournalAssumption == MaxRows \in Nat /\ MaxTears \in Nat

Source == {SourceOf[d] : d \in Dashboard}

VARIABLES rows,      \* the lines that parse
          tail,      \* how the file ends: a newline, a fragment, a row without newline
          made,      \* rows written, torn ones included
          call,      \* what each dashboard is in
          kept,      \* history: the rows append returned
          tears,     \* history: writes that stopped half way
          crossed,   \* history: two calls of append overlapped
          doubled    \* history: those whose call met another of the same source

journal     == <<rows, tail, made>>
journalVars == <<journal, call, kept, tears, crossed, doubled>>

Sha  == 1..MaxRows
\* Whether it was forced, and whether its call met another of its source, is history.
Row  == [sha : Sha, prev : 0..MaxRows, source : Source, metrics : Metrics,
         forced : BOOLEAN, doubled : BOOLEAN]
End  == {"newline", "fragment", "row"}
Call == [at : {"idle"}]
          \cup [at : {"append"}, metrics : Metrics, forced : BOOLEAN]
          \cup [at : {"write"}, metrics : Metrics, forced : BOOLEAN, prev : 0..MaxRows]
NoCall == [at |-> "idle"]

JournalInit ==
  /\ rows = <<>> /\ tail = "newline" /\ made = 0
  /\ call = [d \in Dashboard |-> NoCall]
  /\ kept = {} /\ tears = 0 /\ crossed = FALSE /\ doubled = {}

-----------------------------------------------------------------------------

\* The hash that append chains its row to.
LastShaMade == made \* Mutation: the last row written, parseable or not
LastSha     == IF rows = <<>> THEN 0 ELSE rows[Len(rows)].sha

\* previous(source) says m.
SaysAny(source, m) == \* Mutation: the row of whichever source
  rows # <<>> /\ rows[Len(rows)].metrics = m
Says(source, m) == \E i \in DOMAIN rows :
  /\ rows[i].source = source /\ rows[i].metrics = m
  /\ \A j \in DOMAIN rows : j > i => rows[j].source # source

\* What rows() yields once r is added to the end of the file: glued to a fragment, or to a
\* row that has no newline, it makes a line that does not parse.
Glued(r) == CASE tail = "newline"  -> Append(rows, r)
              [] tail = "fragment" -> rows
              [] tail = "row"      -> SubSeq(rows, 1, Len(rows) - 1)
Torn == IF tail = "row" THEN SubSeq(rows, 1, Len(rows) - 1) ELSE rows

RowOf(d) == [sha |-> made + 1, prev |-> call[d].prev, source |-> SourceOf[d],
             metrics |-> call[d].metrics, forced |-> call[d].forced, doubled |-> d \in doubled]
Company(d) == {e \in Dashboard \ {d} : SourceOf[e] = SourceOf[d] /\ call[e].at # "idle"}
Enter(d, m, f) ==
  /\ call' = [call EXCEPT ![d] = [at |-> "append", metrics |-> m, forced |-> f]]
  /\ doubled' = IF Company(d) = {} THEN doubled ELSE doubled \cup Company(d) \cup {d}
Leave(d) == call' = [call EXCEPT ![d] = NoCall] /\ doubled' = doubled \ {d}

-----------------------------------------------------------------------------

\* append, or append_if_changed with a note.
StartAppend(d, m) ==
  /\ call[d].at = "idle" /\ made < MaxRows /\ Enter(d, m, TRUE)
  /\ UNCHANGED <<journal, kept, tears, crossed>>

\* append_if_changed: returns at once when the source said the same before.
StartIfChanged(d, m) ==
  /\ call[d].at = "idle" /\ made < MaxRows /\ ~Says(SourceOf[d], m) /\ Enter(d, m, FALSE)
  /\ UNCHANGED <<journal, kept, tears, crossed>>

ReadLast(d) ==
  /\ call[d].at = "append"
  /\ call' = [call EXCEPT ![d] = [at |-> "write", metrics |-> @.metrics,
                                  forced |-> @.forced, prev |-> LastSha]]
  /\ crossed' = (crossed \/ \E e \in Dashboard : call[e].at = "write")
  /\ UNCHANGED <<journal, kept, tears, doubled>>

WriteNoNewline(d) == \* Mutation: the row is written without its newline
  /\ call[d].at = "write" /\ made < MaxRows
  /\ rows' = Glued(RowOf(d)) /\ tail' = "row" /\ made' = made + 1
  /\ kept' = kept \cup {made + 1} /\ Leave(d)
  /\ UNCHANGED <<tears, crossed>>

Write(d) ==
  /\ call[d].at = "write" /\ made < MaxRows
  /\ rows' = Glued(RowOf(d)) /\ tail' = "newline" /\ made' = made + 1
  /\ kept' = kept \cup {made + 1} /\ Leave(d)
  /\ UNCHANGED <<tears, crossed>>

\* The disk is full, or the process dies: a part of the line is there, or all but its newline.
WriteTears(d) ==
  /\ call[d].at = "write" /\ made < MaxRows /\ tears < MaxTears
  /\ \/ rows' = Torn /\ tail' = "fragment"
     \/ tail = "newline" /\ rows' = Glued(RowOf(d)) /\ tail' = "row"
  /\ made' = made + 1 /\ tears' = tears + 1 /\ Leave(d)
  /\ UNCHANGED <<kept, crossed>>

JournalNext == \E d \in Dashboard :
  \/ \E m \in Metrics : StartAppend(d, m) \/ StartIfChanged(d, m)
  \/ ReadLast(d) \/ Write(d) \/ WriteTears(d)

JournalSpec == JournalInit /\ [][JournalNext]_journalVars

-----------------------------------------------------------------------------
(* Properties                                                              *)

\* verify(): every row follows the one whose hash it carries.
Verifies == \A i \in DOMAIN rows : rows[i].prev = IF i = 1 THEN 0 ELSE rows[i - 1].sha

Shas == {rows[i].sha : i \in DOMAIN rows}

\* Every variable stays in its type, and a file that ends in a row has one.
JournalTypeOK ==
  /\ rows \in Seq(Row) /\ tail \in End /\ made \in 0..MaxRows
  /\ call \in [Dashboard -> Call]
  /\ kept \subseteq 1..made /\ tears \in 0..MaxTears /\ crossed \in BOOLEAN
  /\ doubled \subseteq Dashboard
  /\ tail = "row" => rows # <<>>

\* verify() raises no false alarm: as long as no two calls of append overlapped it passes,
\* wherever writes stopped half way and whatever rows were glued to what they left.
SerialVerifies == ~crossed => Verifies

\* A row that append returned is there for ever (rows are "immutable", "NEVER revised"), but
\* for one row at most per write that stopped half way, however the dashboards interleave.
TearCostsOne == Cardinality(kept \ Shas) <= tears

\* "identical re-runs must not spam the ledger" (append_if_changed): where no write stopped
\* half way, no row repeats what its source said last unless it was forced to, or the call that
\* wrote it overlapped another of its source: the check and the append are two readings.
NoIdleRow ==
  tears = 0 => \A i, j \in DOMAIN rows :
    (/\ i < j /\ rows[i].source = rows[j].source /\ ~rows[j].forced /\ ~rows[j].doubled
     /\ \A k \in i + 1..j - 1 : rows[k].source # rows[j].source)
      => rows[i].metrics # rows[j].metrics

=============================================================================
