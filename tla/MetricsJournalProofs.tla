------------------------ MODULE MetricsJournalProofs ------------------------
(***************************************************************************)
(* Theorems of MetricsJournal, for any number of dashboards, rows and      *)
(* writes that stop half way.                                              *)
(***************************************************************************)
EXTENDS MetricsJournal, FiniteSetTheorems, SequenceTheorems, TLAPS

\* What the file says once its last line is spoilt.
Shorter == SubSeq(rows, 1, Len(rows) - 1)

LEMMA ShorterRows ==
  ASSUME JournalTypeOK, rows # <<>>
  PROVE  /\ Shorter \in Seq(Row) /\ Len(Shorter) = Len(rows) - 1
         /\ \A i \in 1..Len(rows) - 1 : Shorter[i] = rows[i]
<1>1. rows \in Seq(Row) /\ Len(rows) \in Nat \ {0}
  BY EmptySeq, LenProperties DEF JournalTypeOK
<1>2. \A i \in 1..Len(rows) - 1 : rows[i] \in Row
  BY <1>1, ElementOfSeq
<1>3. PICK n \in Nat : n = Len(rows) - 1
  BY <1>1
<1>4. \A i \in 1..n : rows[i] \in Row
  BY <1>2, <1>3
<1>5. /\ SubSeq(rows, 1, n) \in Seq(Row)
      /\ Len(SubSeq(rows, 1, n)) = IF 1 <= n THEN n - 1 + 1 ELSE 0
      /\ \A i \in 1..n - 1 + 1 : SubSeq(rows, 1, n)[i] = rows[1 + i - 1]
  BY <1>4, SubSeqProperties
<1>6. Len(SubSeq(rows, 1, n)) = n
  BY <1>5
<1>7. \A i \in 1..n : SubSeq(rows, 1, n)[i] = rows[i]
  <2>1. \A i \in 1..n : i \in 1..n - 1 + 1 /\ 1 + i - 1 = i
    OBVIOUS
  <2> QED
    BY <1>5, <2>1
<1> QED
  BY <1>3, <1>5, <1>6, <1>7 DEF Shorter

LEMMA LongerRows ==
  ASSUME JournalTypeOK, NEW r \in Row
  PROVE  /\ Append(rows, r) \in Seq(Row) /\ Len(Append(rows, r)) = Len(rows) + 1
         /\ Append(rows, r)[Len(rows) + 1] = r
         /\ \A i \in 1..Len(rows) : Append(rows, r)[i] = rows[i]
BY AppendProperties DEF JournalTypeOK

\* The row that is written is one, and so is what the file says afterwards.
LEMMA WrittenRow ==
  ASSUME JournalTypeOK, NEW d \in Dashboard, call[d].at = "write", made < MaxRows
  PROVE  /\ RowOf(d) \in Row /\ RowOf(d).sha = made + 1 /\ RowOf(d).prev = call[d].prev
         /\ Glued(RowOf(d)) \in Seq(Row)
         /\ tail = "newline" => Glued(RowOf(d)) = Append(rows, RowOf(d))
         /\ tail = "fragment" => Glued(RowOf(d)) = rows
         /\ tail = "row" => rows # <<>> /\ Glued(RowOf(d)) = Shorter
<1> USE JournalAssumption
<1>1. call[d] \in [at : {"write"}, metrics : Metrics, forced : BOOLEAN, prev : 0..MaxRows]
  BY SMTT(30) DEF JournalTypeOK, Call
<1>2. made + 1 \in Sha
  BY DEF JournalTypeOK, Sha
<1>3. RowOf(d) \in Row
  <2>1. SourceOf[d] \in Source /\ (d \in doubled) \in BOOLEAN
    BY DEF Source
  <2> DEFINE met == d \in doubled
             src == SourceOf[d]
  <2>2. src \in Source /\ met \in BOOLEAN
    BY <2>1
  <2>3. RowOf(d) = [sha |-> made + 1, prev |-> call[d].prev, source |-> src,
                    metrics |-> call[d].metrics, forced |-> call[d].forced, doubled |-> met]
    BY DEF RowOf
  <2> HIDE DEF met, src
  <2> QED
    BY <1>1, <1>2, <2>2, <2>3 DEF Row
<1>4. RowOf(d).sha = made + 1 /\ RowOf(d).prev = call[d].prev
  BY DEF RowOf
<1>5. /\ tail = "newline" => Glued(RowOf(d)) = Append(rows, RowOf(d))
      /\ tail = "fragment" => Glued(RowOf(d)) = rows
      /\ tail = "row" => Glued(RowOf(d)) = Shorter
  BY DEF Glued, Shorter
<1>6. tail = "row" => rows # <<>>
  BY DEF JournalTypeOK
<1> QED
  BY <1>3, <1>4, <1>5, <1>6, ShorterRows, LongerRows DEF JournalTypeOK, End

LEMMA TornRows ==
  ASSUME JournalTypeOK
  PROVE  /\ Torn \in Seq(Row)
         /\ Torn = IF tail = "row" THEN Shorter ELSE rows
         /\ tail = "row" => rows # <<>>
BY ShorterRows DEF Torn, Shorter, JournalTypeOK

LEMMA CallLeaves ==
  ASSUME JournalTypeOK, NEW d \in Dashboard, Leave(d)
  PROVE  doubled' \subseteq Dashboard /\ call' \in [Dashboard -> Call] /\ \A e \in Dashboard : call'[e].at = "write" => call'[e] = call[e] /\ e # d
<1>1. NoCall \in Call
  BY DEF NoCall, Call
<1> QED
  BY <1>1 DEF Leave, JournalTypeOK, NoCall

-----------------------------------------------------------------------------
(* The chain                                                               *)

\* As long as no two calls overlapped, at most one has read the last row, and what it read is
\* the last row still: nobody wrote since.
Alone == \A d, e \in Dashboard :
  call[d].at = "write" /\ call[e].at = "write" => d = e
ReadIsLast == \A d \in Dashboard : call[d].at = "write" => call[d].prev = LastSha
Chain == ~crossed => Verifies /\ Alone /\ ReadIsLast

JInv == JournalTypeOK /\ Chain

LEMMA JournalInitially == JournalInit => JInv
<1> SUFFICES ASSUME JournalInit PROVE JInv
  OBVIOUS
<1>1. rows \in Seq(Row) /\ DOMAIN rows = {}
  <2>1. rows = <<>> /\ rows \in Seq(Row) /\ Len(rows) = 0
    BY EmptySeq DEF JournalInit
  <2>2. DOMAIN rows = 1..Len(rows)
    BY <2>1, LenProperties
  <2> QED
    BY <2>1, <2>2
<1>2. JournalTypeOK
  <2>1. call \in [Dashboard -> Call] /\ tail \in End /\ (tail = "row" => rows # <<>>)
    BY DEF JournalInit, Call, NoCall, End
  <2>2. made = 0 /\ tears = 0 /\ kept = {} /\ crossed = FALSE /\ doubled = {}
    BY DEF JournalInit
  <2>3. made \in 0..MaxRows /\ tears \in 0..MaxTears
    BY <2>2, JournalAssumption
  <2>4. kept \subseteq 1..made /\ crossed \in BOOLEAN /\ doubled \subseteq Dashboard
    BY <2>2
  <2> QED
    BY <1>1, <2>1, <2>3, <2>4 DEF JournalTypeOK
<1>3. Chain
  BY <1>1 DEF JournalInit, Chain, Verifies, Alone, ReadIsLast, NoCall
<1> QED
  BY <1>2, <1>3 DEF JInv

LEMMA LastShaType == ASSUME JournalTypeOK PROVE LastSha \in 0..MaxRows
<1>1. rows # <<>> => Len(rows) \in DOMAIN rows /\ rows[Len(rows)] \in Row
  BY DEF JournalTypeOK
<1> QED
  BY <1>1, JournalAssumption DEF LastSha, Row, Sha

\* A chain that is cut is a chain, and so is one that a row with its last hash is put to.
LEMMA ChainCut ==
  ASSUME JournalTypeOK, rows # <<>>, Verifies, rows' = Shorter
  PROVE  Verifies'
<1>1. Len(rows) \in Nat \ {0} /\ DOMAIN rows = 1..Len(rows)
  BY EmptySeq, LenProperties DEF JournalTypeOK
<1>2. /\ DOMAIN Shorter = 1..Len(rows) - 1
      /\ \A i \in 1..Len(rows) - 1 : Shorter[i] = rows[i]
  BY ShorterRows, LenProperties
<1>3. ASSUME NEW i \in 1..Len(rows) - 1
      PROVE  Shorter[i].prev = IF i = 1 THEN 0 ELSE Shorter[i - 1].sha
  <2>1. i \in 1..Len(rows) /\ (i # 1 => i - 1 \in 1..Len(rows) - 1)
    BY <1>1
  <2> QED
    BY <1>1, <1>2, <2>1 DEF Verifies
<1> QED
  BY <1>2, <1>3 DEF Verifies

LEMMA ChainGrows ==
  ASSUME JournalTypeOK, NEW r \in Row, Verifies, r.prev = LastSha, rows' = Append(rows, r)
  PROVE  Verifies'
BY LongerRows, SMTT(30) DEF Verifies, LastSha, JournalTypeOK

LEMMA JournalStep == JInv /\ [JournalNext]_journalVars => JInv'
<1> SUFFICES ASSUME JInv, [JournalNext]_journalVars PROVE JInv'
  OBVIOUS
<1> USE JournalAssumption
<1>0. JournalTypeOK /\ Chain
  BY DEF JInv
<1>1. ASSUME NEW d \in Dashboard, NEW m \in Metrics, StartAppend(d, m) \/ StartIfChanged(d, m) PROVE JInv'
  <2>1. PICK f \in BOOLEAN : Enter(d, m, f) /\ UNCHANGED <<journal, kept, tears, crossed>>
    BY <1>1 DEF StartAppend, StartIfChanged
  <2>2. call' \in [Dashboard -> Call]
    <3>1. [at |-> "append", metrics |-> m, forced |-> f] \in Call
      BY DEF Call
    <3> QED
      BY <1>0, <2>1, <3>1 DEF Enter, JournalTypeOK
  <2>3. \A e \in Dashboard : call'[e].at = "write" => call[e].at = "write" /\ call'[e].prev = call[e].prev
    BY <1>0, <2>1 DEF Enter, JournalTypeOK
  <2>4. JournalTypeOK'
    <3>1. doubled' \subseteq Dashboard
      BY <1>0, <2>1 DEF Enter, Company, JournalTypeOK
    <3> QED
      BY <1>0, <2>1, <2>2, <3>1 DEF JournalTypeOK, journal
  <2>5. Chain'
    BY <1>0, <2>1, <2>3 DEF Chain, Verifies, Alone, ReadIsLast, LastSha, journal
  <2> QED
    BY <2>4, <2>5 DEF JInv
<1>2. ASSUME NEW d \in Dashboard, ReadLast(d) PROVE JInv'
  <2>1. call[d] \in [at : {"append"}, metrics : Metrics, forced : BOOLEAN]
    BY <1>0, <1>2, SMTT(30) DEF ReadLast, JournalTypeOK, Call
  <2>2. call' \in [Dashboard -> Call]
    <3>1. [at |-> "write", metrics |-> call[d].metrics, forced |-> call[d].forced, prev |-> LastSha] \in Call
      BY <1>0, <2>1, LastShaType DEF Call
    <3> QED
      BY <1>0, <1>2, <3>1 DEF ReadLast, JournalTypeOK
  <2>3. JournalTypeOK'
    BY <1>0, <1>2, <2>2 DEF ReadLast, JournalTypeOK, journal
  <2>4. \A e \in Dashboard \ {d} : call'[e] = call[e]
    BY <1>0, <1>2 DEF ReadLast, JournalTypeOK
  <2>5. call'[d].at = "write" /\ call'[d].prev = LastSha
    BY <1>0, <1>2 DEF ReadLast, JournalTypeOK
  <2>6. Chain'
    <3> SUFFICES ASSUME ~crossed' PROVE Verifies' /\ Alone' /\ ReadIsLast'
      BY DEF Chain
    <3>1. ~crossed /\ \A e \in Dashboard : call[e].at # "write"
      BY <1>2 DEF ReadLast
    <3>2. rows' = rows
      BY <1>2 DEF ReadLast, journal
    <3> QED
      BY <1>0, <2>4, <2>5, <3>1, <3>2 DEF Chain, Verifies, Alone, ReadIsLast, LastSha
  <2> QED
    BY <2>3, <2>6 DEF JInv
<1>3. ASSUME NEW d \in Dashboard, Write(d) PROVE JInv'
  <2>1. call[d].at = "write" /\ made < MaxRows /\ Leave(d)
    BY <1>3 DEF Write
  <2>2. /\ doubled' \subseteq Dashboard /\ call' \in [Dashboard -> Call]
        /\ \A e \in Dashboard : call'[e].at = "write" => call'[e] = call[e] /\ e # d
    BY <1>0, <2>1, CallLeaves
  <2>3. rows' \in Seq(Row)
    BY <1>0, <1>3, WrittenRow DEF Write
  <2>4. JournalTypeOK'
    BY <1>0, <1>3, <2>2, <2>3 DEF Write, JournalTypeOK, End
  <2>5. ASSUME ~crossed' PROVE Verifies' /\ Alone' /\ ReadIsLast'
    <3>1. Verifies /\ Alone /\ ReadIsLast
      BY <1>0, <1>3, <2>5 DEF Write, Chain
    <3>2. \A e \in Dashboard : call'[e].at # "write"
      BY <2>1, <2>2, <3>1 DEF Alone
    <3>3. Verifies'
      BY <1>0, <1>3, <2>1, <3>1, WrittenRow, ChainCut, ChainGrows DEF Write, ReadIsLast, JournalTypeOK, End, Verifies
    <3> QED
      BY <3>2, <3>3 DEF Alone, ReadIsLast
  <2> QED
    BY <2>4, <2>5 DEF JInv, Chain
<1>4. ASSUME NEW d \in Dashboard, WriteTears(d) PROVE JInv'
  <2>1. call[d].at = "write" /\ made < MaxRows /\ Leave(d)
    BY <1>4 DEF WriteTears
  <2>2. /\ doubled' \subseteq Dashboard /\ call' \in [Dashboard -> Call]
        /\ \A e \in Dashboard : call'[e].at = "write" => call'[e] = call[e] /\ e # d
    BY <1>0, <2>1, CallLeaves
  <2>3. \/ rows' = Torn /\ tail' = "fragment"
        \/ rows' = Append(rows, RowOf(d)) /\ tail' = "row"
    BY <1>0, <1>4, <2>1, WrittenRow DEF WriteTears
  <2>4. rows' \in Seq(Row) /\ (tail' = "row" => rows' # <<>>)
    BY <1>0, <2>1, <2>3, TornRows, WrittenRow, LongerRows, SMTT(30)
  <2>5. JournalTypeOK'
    BY <1>0, <1>4, <2>2, <2>3, <2>4 DEF WriteTears, JournalTypeOK, End
  <2>6. ASSUME ~crossed' PROVE Verifies' /\ Alone' /\ ReadIsLast'
    <3>1. Verifies /\ Alone /\ ReadIsLast
      BY <1>0, <1>4, <2>6 DEF WriteTears, Chain
    <3>2. \A e \in Dashboard : call'[e].at # "write"
      BY <2>1, <2>2, <3>1 DEF Alone
    <3>3. ASSUME rows' = Torn PROVE Verifies'
      <4>1. CASE tail = "row"
        BY <1>0, <3>1, <3>3, <4>1, TornRows, ChainCut
      <4>2. CASE tail # "row"
        BY <1>0, <3>1, <3>3, <4>2, TornRows DEF Verifies
      <4> QED
        BY <4>1, <4>2
    <3>4. ASSUME rows' = Append(rows, RowOf(d)) PROVE Verifies'
      <4>1. RowOf(d) \in Row /\ RowOf(d).prev = LastSha
        BY <1>0, <2>1, <3>1, WrittenRow DEF ReadIsLast
      <4> QED
        BY <1>0, <3>1, <3>4, <4>1, ChainGrows
    <3> QED
      BY <2>3, <3>2, <3>3, <3>4 DEF Alone, ReadIsLast
  <2> QED
    BY <2>5, <2>6 DEF JInv, Chain
<1>5. CASE UNCHANGED journalVars
  BY <1>0, <1>5 DEF journalVars, journal, JInv, JournalTypeOK, Chain, Verifies, Alone, ReadIsLast, LastSha
<1> QED
  BY <1>1, <1>2, <1>3, <1>4, <1>5 DEF JournalNext

LEMMA JournalInvariant == JournalSpec => []JInv
BY JournalInitially, JournalStep, PTL DEF JournalSpec

\* Every variable of the journal stays in its type.
THEOREM JournalTyped == JournalSpec => []JournalTypeOK
<1>1. JInv => JournalTypeOK
  BY DEF JInv
<1> QED
  BY <1>1, JournalInvariant, PTL

\* However many dashboards append, and wherever a write stops half way: as long as no two
\* calls of append overlapped, verify() passes.
THEOREM SerialChain == JournalSpec => []SerialVerifies
<1>1. JInv => SerialVerifies
  BY DEF JInv, Chain, SerialVerifies
<1> QED
  BY <1>1, JournalInvariant, PTL

-----------------------------------------------------------------------------
(* What a torn write costs                                                 *)

\* The file owes a row for each tear that is not closed yet: a fragment, or a row without its
\* newline, spoils the next row; and that row is none that append returned.
Owed == IF tail = "newline" THEN 0 ELSE 1
Lost == kept \ Shas
Costs ==
  /\ IsFiniteSet(kept) /\ Cardinality(Lost) + Owed <= tears
  /\ tail = "row" => rows[Len(rows)].sha \notin kept

CInv == JournalTypeOK /\ Costs

\* Cutting a row that nobody was told of loses nothing that was kept.
LEMMA ShasCut ==
  ASSUME JournalTypeOK, rows # <<>>, rows' = Shorter, rows[Len(rows)].sha \notin kept
  PROVE  kept \ Shas' \subseteq Lost
<1>1. Len(rows) \in Nat \ {0} /\ DOMAIN rows = 1..Len(rows)
  BY EmptySeq, LenProperties DEF JournalTypeOK
<1>2. DOMAIN rows' = 1..Len(rows) - 1 /\ \A i \in 1..Len(rows) - 1 : rows'[i] = rows[i]
  BY ShorterRows, LenProperties
<1>3. ASSUME NEW s \in kept, NEW i \in DOMAIN rows, rows[i].sha = s PROVE s \in Shas'
  <2>1. i # Len(rows)
    BY <1>3
  <2>2. i \in 1..Len(rows) - 1
    BY <1>1, <2>1
  <2>3. i \in DOMAIN rows' /\ rows'[i].sha = s
    BY <1>2, <1>3, <2>2
  <2> QED
    BY <2>3 DEF Shas
<1> QED
  BY <1>3 DEF Lost, Shas

LEMMA ShasGrow ==
  ASSUME JournalTypeOK, NEW r \in Row, rows' = Append(rows, r)
  PROVE  /\ Shas \cup {r.sha} \subseteq Shas'
         /\ rows' # <<>> /\ rows'[Len(rows')] = r
<1>1. Len(rows) \in Nat /\ DOMAIN rows = 1..Len(rows)
  BY LenProperties DEF JournalTypeOK
<1>2. /\ rows' \in Seq(Row) /\ rows' # <<>> /\ Len(rows') = Len(rows) + 1
      /\ \A i \in 1..Len(rows) : rows'[i] = rows[i]
      /\ rows'[Len(rows) + 1] = r
  BY AppendProperties DEF JournalTypeOK
<1>3. DOMAIN rows' = 1..Len(rows) + 1
  BY <1>2, LenProperties
<1>4. Len(rows) + 1 \in DOMAIN rows' /\ DOMAIN rows \subseteq DOMAIN rows'
  BY <1>1, <1>3
<1>5. r.sha \in Shas'
  BY <1>2, <1>4 DEF Shas
<1>6. Shas \subseteq Shas'
  BY <1>1, <1>2, <1>4 DEF Shas
<1> QED
  BY <1>2, <1>5, <1>6

\* The two ways to bound what is lost after a step: no more than before, or one more.
LEMMA LostBound ==
  ASSUME IsFiniteSet(kept), NEW t, NEW x, t \subseteq Lost \cup {x}
  PROVE  /\ IsFiniteSet(t) /\ Cardinality(t) \in Nat /\ Cardinality(Lost) \in Nat
         /\ Cardinality(t) <= Cardinality(Lost) + 1
         /\ t \subseteq Lost => Cardinality(t) <= Cardinality(Lost)
<1>1. IsFiniteSet(Lost)
  BY FS_Subset DEF Lost
<1>2. IsFiniteSet(Lost \cup {x}) /\ Cardinality(Lost \cup {x}) <= Cardinality(Lost) + 1
  <2>1. /\ IsFiniteSet(Lost \cup {x})
        /\ Cardinality(Lost \cup {x}) = IF x \in Lost THEN Cardinality(Lost) ELSE Cardinality(Lost) + 1
    BY <1>1, FS_AddElement
  <2>2. Cardinality(Lost) \in Nat
    BY <1>1, FS_CardinalityType
  <2> QED
    BY <2>1, <2>2
<1>3. IsFiniteSet(t) /\ Cardinality(t) <= Cardinality(Lost \cup {x})
  BY <1>2, FS_Subset
<1>4. t \subseteq Lost => Cardinality(t) <= Cardinality(Lost)
  BY <1>1, FS_Subset
<1>5. Cardinality(t) \in Nat /\ Cardinality(Lost) \in Nat /\ Cardinality(Lost \cup {x}) \in Nat
  BY <1>1, <1>2, <1>3, FS_CardinalityType
<1> QED
  BY <1>2, <1>3, <1>4, <1>5

LEMMA CostsInitially == JournalInit => Costs
<1> SUFFICES ASSUME JournalInit PROVE Costs
  OBVIOUS
<1>1. kept = {} /\ tears = 0 /\ tail = "newline" /\ Lost = {}
  BY DEF JournalInit, Lost
<1>2. IsFiniteSet({}) /\ Cardinality({}) = 0
  BY FS_EmptySet
<1> QED
  BY <1>1, <1>2 DEF Costs, Owed

LEMMA CostsStep == JournalTypeOK /\ Costs /\ [JournalNext]_journalVars => Costs'
<1> SUFFICES ASSUME JournalTypeOK, Costs, [JournalNext]_journalVars PROVE Costs'
  OBVIOUS
<1>0. tears \in Nat /\ made \in Nat /\ kept \subseteq 1..made /\ tail \in {"newline", "fragment", "row"}
  BY JournalAssumption DEF JournalTypeOK, End
<1>1. CASE UNCHANGED <<journal, kept, tears>>
  BY <1>1 DEF Costs, Lost, Owed, Shas, journal
<1>2. ASSUME NEW d \in Dashboard, Write(d) PROVE Costs'
  <2>1. call[d].at = "write" /\ made < MaxRows /\ rows' = Glued(RowOf(d)) /\ tail' = "newline"
        /\ kept' = kept \cup {made + 1} /\ tears' = tears
    BY <1>2 DEF Write
  <2>2. IsFiniteSet(kept')
    BY <2>1, FS_AddElement DEF Costs
  <2>3. CASE tail = "newline"
    <3>1. RowOf(d) \in Row /\ RowOf(d).sha = made + 1 /\ rows' = Append(rows, RowOf(d))
      BY <2>1, <2>3, WrittenRow
    <3>2. Lost' \subseteq Lost
      BY <2>1, <3>1, ShasGrow DEF Lost
    <3>3. Cardinality(Lost') <= Cardinality(Lost)
      BY <3>2, LostBound DEF Costs
    <3>4. Cardinality(Lost') \in Nat /\ Cardinality(Lost) \in Nat
      BY <3>2, LostBound DEF Costs
    <3> QED
      BY <1>0, <2>1, <2>2, <2>3, <3>3, <3>4 DEF Costs, Owed
  <2>4. CASE tail # "newline"
    <3>1. kept \ Shas' \subseteq Lost
      <4>1. CASE tail = "row"
        <5>1. rows # <<>> /\ rows' = Shorter /\ rows[Len(rows)].sha \notin kept
          BY <2>1, <4>1, WrittenRow DEF Costs
        <5> QED
          BY <5>1, ShasCut
      <4>2. CASE tail = "fragment"
        BY <2>1, <4>2, WrittenRow DEF Lost, Shas
      <4> QED
        BY <1>0, <2>4, <4>1, <4>2
    <3>2. Lost' \subseteq Lost \cup {made + 1}
      BY <2>1, <3>1 DEF Lost
    <3>3. Cardinality(Lost') <= Cardinality(Lost) + 1
      BY <3>2, LostBound DEF Costs
    <3>4. Cardinality(Lost') \in Nat /\ Cardinality(Lost) \in Nat
      BY <3>2, LostBound DEF Costs
    <3> QED
      BY <1>0, <2>1, <2>2, <2>4, <3>3, <3>4 DEF Costs, Owed
  <2> QED
    BY <2>3, <2>4
<1>3. ASSUME NEW d \in Dashboard, WriteTears(d) PROVE Costs'
  <2>1. call[d].at = "write" /\ made < MaxRows /\ kept' = kept /\ tears' = tears + 1
    BY <1>3 DEF WriteTears
  <2>2. ASSUME Lost' \subseteq Lost, tail' # "newline",
               tail' = "row" => rows'[Len(rows')].sha \notin kept
        PROVE  Costs'
    <3>1. Cardinality(Lost') <= Cardinality(Lost) /\ Cardinality(Lost') \in Nat /\ Cardinality(Lost) \in Nat
      BY <2>2, LostBound DEF Costs
    <3> QED
      BY <1>0, <2>1, <2>2, <3>1 DEF Costs, Owed
  <2>3. CASE rows' = Torn /\ tail' = "fragment"
    <3>1. kept \ Shas' \subseteq Lost
      <4>1. CASE tail = "row"
        <5>1. rows # <<>> /\ rows' = Shorter /\ rows[Len(rows)].sha \notin kept
          BY <2>3, <4>1, TornRows DEF Costs
        <5> QED
          BY <5>1, ShasCut
      <4>2. CASE tail # "row"
        BY <2>3, <4>2, TornRows DEF Lost, Shas
      <4> QED
        BY <4>1, <4>2
    <3> QED
      BY <2>1, <2>2, <2>3, <3>1 DEF Lost
  <2>4. CASE tail = "newline" /\ rows' = Glued(RowOf(d)) /\ tail' = "row"
    <3>1. RowOf(d) \in Row /\ RowOf(d).sha = made + 1 /\ rows' = Append(rows, RowOf(d))
      BY <2>1, <2>4, WrittenRow
    <3>2. Lost' \subseteq Lost /\ rows'[Len(rows')].sha = made + 1
      BY <2>1, <3>1, ShasGrow DEF Lost
    <3>3. made + 1 \notin kept
      BY <1>0
    <3> QED
      BY <2>2, <2>4, <3>2, <3>3
  <2> QED
    BY <1>3, <2>3, <2>4 DEF WriteTears
<1>4. ASSUME NEW d \in Dashboard, ReadLast(d) \/ \E m \in Metrics : StartAppend(d, m) \/ StartIfChanged(d, m)
      PROVE  UNCHANGED <<journal, kept, tears>>
  BY <1>4 DEF ReadLast, StartAppend, StartIfChanged
<1> QED
  BY <1>1, <1>2, <1>3, <1>4 DEF JournalNext, journalVars

\* However the dashboards interleave: of the rows append returned, one at most is missing for
\* each write that stopped half way.
THEOREM TornWritesCost == JournalSpec => []TearCostsOne
<1>1. JournalInit => CInv
  BY JournalInitially, CostsInitially DEF CInv, JInv
<1>2. JInv /\ CInv /\ [JournalNext]_journalVars => CInv'
  BY JournalStep, CostsStep DEF CInv, JInv
<1>3. CInv => TearCostsOne
  <2> SUFFICES ASSUME CInv PROVE TearCostsOne
    OBVIOUS
  <2>1. Cardinality(Lost) + Owed <= tears /\ Owed \in {0, 1} /\ tears \in Nat
    BY JournalAssumption DEF CInv, Costs, Owed, JournalTypeOK
  <2>2. Cardinality(Lost) \in Nat
    BY FS_Subset, FS_CardinalityType DEF CInv, Costs, Lost
  <2> QED
    BY <2>1, <2>2 DEF TearCostsOne, Lost
<1> QED
  BY <1>1, <1>2, <1>3, JournalInvariant, PTL DEF JournalSpec

-----------------------------------------------------------------------------
(* No row repeats the one before it                                        *)

RowsDiffer == \A i, j \in DOMAIN rows :
  (/\ i < j /\ rows[i].source = rows[j].source /\ ~rows[j].forced /\ ~rows[j].doubled
   /\ \A k \in i + 1..j - 1 : rows[k].source # rows[j].source)
    => rows[i].metrics # rows[j].metrics

\* Two calls of one source that run at once have met.
Meet == \A d, e \in Dashboard :
  d # e /\ SourceOf[d] = SourceOf[e] /\ call[d].at # "idle" /\ call[e].at # "idle" => d \in doubled

\* Until something tears, lines end, and whoever is about to add a row that nobody forced, and
\* met nobody of its source, has something to say that its source did not say last: nobody
\* else wrote a row of that source meanwhile.
HasNews(d) ==
  call[d].at \in {"append", "write"} /\ ~call[d].forced /\ d \notin doubled
    => ~Says(SourceOf[d], call[d].metrics)
NewsOnly == tears = 0 => tail = "newline" /\ RowsDiffer /\ \A d \in Dashboard : HasNews(d)

NInv == JInv /\ Meet /\ NewsOnly

LEMMA SaidByItself ==
  ASSUME JournalTypeOK, NEW r \in Row, rows' = Append(rows, r), NEW src, src # r.source, NEW m,
         Says(src, m)'
  PROVE  Says(src, m)
<1>1. /\ DOMAIN rows = 1..Len(rows) /\ DOMAIN rows' = 1..Len(rows) + 1 /\ Len(rows) \in Nat
      /\ rows'[Len(rows) + 1] = r /\ \A i \in 1..Len(rows) : rows'[i] = rows[i]
  BY LongerRows, LenProperties DEF JournalTypeOK
<1>2. PICK i \in DOMAIN rows' : /\ rows'[i].source = src /\ rows'[i].metrics = m
                                /\ \A j \in DOMAIN rows' : j > i => rows'[j].source # src
  BY DEF Says
<1>3. i \in 1..Len(rows)
  BY <1>1, <1>2
<1>4. \A j \in DOMAIN rows : j > i => rows[j].source # src
  BY <1>1, <1>2
<1> QED
  BY <1>1, <1>2, <1>3, <1>4 DEF Says

LEMMA NewRowDiffers ==
  ASSUME JournalTypeOK, RowsDiffer, NEW r \in Row, rows' = Append(rows, r),
         ~r.forced /\ ~r.doubled => ~Says(r.source, r.metrics)
  PROVE  RowsDiffer'
<1>1. /\ DOMAIN rows = 1..Len(rows) /\ DOMAIN rows' = 1..Len(rows) + 1 /\ Len(rows) \in Nat
      /\ rows'[Len(rows) + 1] = r /\ \A i \in 1..Len(rows) : rows'[i] = rows[i]
  BY LongerRows, LenProperties DEF JournalTypeOK
<1> SUFFICES ASSUME NEW i \in DOMAIN rows', NEW j \in DOMAIN rows', i < j,
                    rows'[i].source = rows'[j].source, ~rows'[j].forced, ~rows'[j].doubled,
                    \A k \in i + 1..j - 1 : rows'[k].source # rows'[j].source
             PROVE  rows'[i].metrics # rows'[j].metrics
  BY DEF RowsDiffer
<1>2. CASE j \in 1..Len(rows)
  <2>1. /\ i \in DOMAIN rows /\ j \in DOMAIN rows /\ rows'[i] = rows[i] /\ rows'[j] = rows[j]
        /\ \A k \in i + 1..j - 1 : rows'[k] = rows[k]
    BY <1>1, <1>2
  <2> QED
    BY <2>1 DEF RowsDiffer
<1>3. CASE j = Len(rows) + 1
  <2>1. i \in DOMAIN rows /\ rows'[i] = rows[i] /\ rows'[j] = r
    BY <1>1, <1>3
  <2>2. \A k \in DOMAIN rows : k > i => rows[k].source # r.source
    BY <1>1, <1>3, <2>1
  <2> QED
    BY <2>1, <2>2 DEF Says
<1> QED
  BY <1>1, <1>2, <1>3

LEMMA NewsInitially == JournalInit => Meet /\ NewsOnly
BY DEF JournalInit, Meet, NewsOnly, HasNews, RowsDiffer, NoCall

LEMMA MeetKept == JournalTypeOK /\ Meet /\ [JournalNext]_journalVars => Meet'
<1> SUFFICES ASSUME JournalTypeOK, Meet, [JournalNext]_journalVars PROVE Meet'
  OBVIOUS
<1>1. ASSUME NEW d \in Dashboard, NEW m \in Metrics, StartAppend(d, m) \/ StartIfChanged(d, m) PROVE Meet'
  <2>1. PICK f \in BOOLEAN : Enter(d, m, f)
    BY <1>1 DEF StartAppend, StartIfChanged
  <2>2. \A e \in Dashboard \ {d} : call'[e] = call[e]
    BY <2>1 DEF Enter, JournalTypeOK
  <2>3. Company(d) # {} => doubled' = doubled \cup Company(d) \cup {d}
    BY <2>1 DEF Enter
  <2>4. doubled \subseteq doubled'
    BY <2>1 DEF Enter
  <2>5. ASSUME NEW e \in Dashboard \ {d}, SourceOf[e] = SourceOf[d], call[e].at # "idle"
        PROVE  d \in doubled' /\ e \in doubled'
    <3>1. e \in Company(d)
      BY <2>5 DEF Company
    <3> QED
      BY <2>3, <3>1
  <2> QED
    BY <2>2, <2>4, <2>5 DEF Meet
<1>2. ASSUME NEW d \in Dashboard, ReadLast(d) PROVE Meet'
  <2>1. \A e \in Dashboard : call'[e].at # "idle" => call[e].at # "idle"
    BY <1>2 DEF ReadLast, JournalTypeOK
  <2>2. doubled' = doubled
    BY <1>2 DEF ReadLast
  <2> QED
    BY <2>1, <2>2 DEF Meet
<1>3. ASSUME NEW d \in Dashboard, Write(d) \/ WriteTears(d) PROVE Meet'
  <2>1. Leave(d)
    BY <1>3 DEF Write, WriteTears
  <2>2. call'[d].at = "idle" /\ doubled' = doubled \ {d} /\ \A e \in Dashboard \ {d} : call'[e] = call[e]
    BY <2>1 DEF Leave, NoCall, JournalTypeOK
  <2> QED
    BY <2>2 DEF Meet
<1>4. CASE UNCHANGED journalVars
  BY <1>4 DEF journalVars, Meet
<1> QED
  BY <1>1, <1>2, <1>3, <1>4 DEF JournalNext

LEMMA NewsStep == NInv /\ [JournalNext]_journalVars => NInv'
<1> SUFFICES ASSUME NInv, [JournalNext]_journalVars PROVE NInv'
  OBVIOUS
<1>0. JInv' /\ Meet' /\ JournalTypeOK /\ Meet /\ NewsOnly /\ tears \in Nat
  BY JournalStep, MeetKept, JournalAssumption DEF NInv, JInv, JournalTypeOK
<1> SUFFICES ASSUME tears' = 0 PROVE NewsOnly'
  BY <1>0 DEF NInv, NewsOnly
<1>1. ASSUME NEW d \in Dashboard, NEW m \in Metrics, StartAppend(d, m) \/ StartIfChanged(d, m)
      PROVE  NewsOnly'
  <2>1. /\ UNCHANGED <<journal, tears>>
        /\ \/ Enter(d, m, TRUE)
           \/ Enter(d, m, FALSE) /\ ~Says(SourceOf[d], m)
    BY <1>1 DEF StartAppend, StartIfChanged
  <2>2. doubled \subseteq doubled' /\ \A e \in Dashboard \ {d} : call'[e] = call[e]
    BY <1>0, <2>1 DEF Enter, JournalTypeOK
  <2>3. call'[d].metrics = m /\ (call'[d].forced \/ ~Says(SourceOf[d], m))
    BY <1>0, <2>1 DEF Enter, JournalTypeOK
  <2>4. tail' = tail /\ rows' = rows /\ tears = 0
    BY <2>1 DEF journal
  <2>5. \A e \in Dashboard : HasNews(e)'
    BY <1>0, <2>2, <2>3, <2>4 DEF NewsOnly, HasNews, Says
  <2> QED
    BY <1>0, <2>4, <2>5 DEF NewsOnly, RowsDiffer
<1>2. ASSUME NEW d \in Dashboard, ReadLast(d) PROVE NewsOnly'
  <2>1. /\ UNCHANGED <<journal, tears, doubled>> /\ call[d].at = "append"
        /\ call'[d].metrics = call[d].metrics /\ call'[d].forced = call[d].forced
        /\ \A e \in Dashboard \ {d} : call'[e] = call[e]
    BY <1>0, <1>2 DEF ReadLast, JournalTypeOK
  <2> QED
    BY <1>0, <2>1 DEF NewsOnly, HasNews, RowsDiffer, Says, journal
<1>3. ASSUME NEW d \in Dashboard, Write(d) PROVE NewsOnly'
  <2>1. /\ call[d].at = "write" /\ made < MaxRows /\ tears' = tears /\ tail' = "newline"
        /\ rows' = Glued(RowOf(d)) /\ Leave(d)
    BY <1>3 DEF Write
  <2>2. tears = 0 /\ tail = "newline" /\ RowsDiffer /\ \A e \in Dashboard : HasNews(e)
    BY <1>0, <2>1 DEF NewsOnly
  <2>3. RowOf(d) \in Row /\ rows' = Append(rows, RowOf(d))
    BY <1>0, <2>1, <2>2, WrittenRow
  <2>4. /\ RowOf(d).source = SourceOf[d] /\ RowOf(d).metrics = call[d].metrics
        /\ RowOf(d).forced = call[d].forced /\ (RowOf(d).doubled <=> d \in doubled)
    BY DEF RowOf
  <2>5. RowsDiffer'
    <3>1. ~RowOf(d).forced /\ ~RowOf(d).doubled => ~Says(RowOf(d).source, RowOf(d).metrics)
      BY <2>1, <2>2, <2>4 DEF HasNews
    <3> QED
      BY <1>0, <2>2, <2>3, <3>1, NewRowDiffers
  <2>6. /\ call'[d].at = "idle" /\ doubled' = doubled \ {d}
        /\ \A e \in Dashboard \ {d} : call'[e] = call[e]
    BY <1>0, <2>1 DEF Leave, NoCall, JournalTypeOK
  <2>7. ASSUME NEW e \in Dashboard, call'[e].at \in {"append", "write"}, ~call'[e].forced, e \notin doubled'
        PROVE  ~Says(SourceOf[e], call[e].metrics)'
    <3>1. e # d /\ call'[e] = call[e] /\ e \notin doubled
      BY <2>6, <2>7
    <3>2. SourceOf[e] # SourceOf[d]
      BY <1>0, <2>1, <2>7, <3>1 DEF Meet
    <3>3. ~Says(SourceOf[e], call[e].metrics)
      BY <2>2, <2>7, <3>1 DEF HasNews
    <3>4. \A m : Says(SourceOf[e], m)' => Says(SourceOf[e], m)
      BY <1>0, <2>3, <2>4, <3>2, SaidByItself
    <3> QED
      BY <3>1, <3>3, <3>4 DEF Says
  <2> QED
    BY <2>1, <2>5, <2>7 DEF NewsOnly, HasNews
<1>4. ASSUME NEW d \in Dashboard, WriteTears(d) PROVE FALSE
  BY <1>0, <1>4 DEF WriteTears
<1>5. CASE UNCHANGED journalVars
  BY <1>0, <1>5 DEF journalVars, journal, NewsOnly, HasNews, RowsDiffer, Says
<1> QED
  BY <1>1, <1>2, <1>3, <1>4, <1>5 DEF JournalNext

\* However many dashboards re-run and overlap, also with themselves: as long as no write stopped
\* half way, a row that nobody forced says something else than the one its source wrote before,
\* unless the call that wrote it met another of its source.
THEOREM NothingRepeated == JournalSpec => []NoIdleRow
<1>1. NInv => NoIdleRow
  BY DEF NInv, NewsOnly, RowsDiffer, NoIdleRow
<1>2. JournalInit => NInv
  BY JournalInitially, NewsInitially DEF NInv
<1> QED
  BY <1>1, <1>2, NewsStep, PTL DEF JournalSpec

=============================================================================
