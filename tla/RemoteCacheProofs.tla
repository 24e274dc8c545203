------------------------- MODULE RemoteCacheProofs -------------------------
(***************************************************************************)
(* Theorems of RemoteCache, for any number of processes, versions and      *)
(* calls.                                                                  *)
(***************************************************************************)
EXTENDS RemoteCache, TLAPS

-----------------------------------------------------------------------------
(* Types                                                                   *)

LEMMA LookType ==
  ASSUME CacheTypeOK, NEW f \in Fetcher, fetch[f].at = "look"
  PROVE  fetch[f].key \in Version /\ fetch[f].refresh \in BOOLEAN
BY DEF CacheTypeOK, Fetch

LEMMA OpenType ==
  ASSUME CacheTypeOK, NEW f \in Fetcher, fetch[f].at \in {"open", "publish"}
  PROVE  fetch[f].key \in Version
BY DEF CacheTypeOK, Fetch

LEMMA CopyType ==
  ASSUME CacheTypeOK, NEW f \in Fetcher, fetch[f].at = "copy"
  PROVE  /\ fetch[f].key \in Version /\ fetch[f].of \in Version
         /\ fetch[f].into \in {"part", "entry", "no name"} /\ fetch[f].next \in Chunk
         /\ fetch[f] \in [at : {"copy"}, key : Version, of : Version,
                          into : {"part", "entry", "no name"}, next : Chunk]
BY DEF CacheTypeOK, Fetch

\* What a place holds under a key: two chunks, or no file.
LEMMA HeldType ==
  ASSUME CacheTypeOK, NEW k \in Version
  PROVE  /\ part[k] \in Held \cup {Nowhere} /\ entry[k] \in Held \cup {Nowhere}
         /\ DOMAIN part[k] = Chunk /\ DOMAIN entry[k] = Chunk
         /\ Nowhere \notin Held /\ Hole \in Held
<1>1. \A h \in Held \cup {Nowhere} : DOMAIN h = Chunk
  BY DEF Held, Nowhere
<1>2. Nowhere \notin Held
  <2>1. 1 \in Chunk /\ Nowhere[1] = "no file"
    BY DEF Chunk, Nowhere
  <2> QED
    BY <2>1, CacheAssumption DEF Held
<1>3. Hole \in Held
  BY DEF Hole, Held
<1> QED
  BY <1>1, <1>2, <1>3 DEF CacheTypeOK

LEMMA GoOnType ==
  ASSUME CacheTypeOK, NEW f \in Fetcher, NEW state \in Fetch, GoOn(f, state)
  PROVE  /\ fetch' \in [Fetcher -> Fetch] /\ fetch'[f] = state
         /\ \A g \in Fetcher \ {f} : fetch'[g] = fetch[g]
BY DEF GoOn, CacheTypeOK

\* After a rename the others go on where they were, but those who wrote the file under its old
\* name write it under the new one.
LEMMA RenamedType ==
  ASSUME CacheTypeOK, NEW f \in Fetcher,
         NEW becomes, \A x \in DOMAIN becomes : becomes[x] \in {"part", "entry", "no name"},
         Renamed(f, NoFetch, becomes)
  PROVE  /\ fetch' \in [Fetcher -> Fetch] /\ fetch'[f] = NoFetch
         /\ \A g \in Fetcher \ {f} :
              \/ fetch'[g] = fetch[g]
                 /\ ~(fetch[g].at = "copy" /\ fetch[g].key = fetch[f].key /\ fetch[g].into \in DOMAIN becomes)
              \/ /\ fetch[g].at = "copy" /\ fetch[g].key = fetch[f].key /\ fetch[g].into \in DOMAIN becomes
                 /\ fetch'[g].at = "copy" /\ fetch'[g].key = fetch[g].key /\ fetch'[g].of = fetch[g].of
                 /\ fetch'[g].next = fetch[g].next /\ fetch'[g].into = becomes[fetch[g].into]
<1>1. ASSUME NEW g \in Fetcher, fetch[g].at = "copy", fetch[g].into \in DOMAIN becomes
      PROVE  /\ [fetch[g] EXCEPT !.into = becomes[@]] \in Fetch
             /\ [fetch[g] EXCEPT !.into = becomes[@]].at = "copy"
             /\ [fetch[g] EXCEPT !.into = becomes[@]].key = fetch[g].key
             /\ [fetch[g] EXCEPT !.into = becomes[@]].of = fetch[g].of
             /\ [fetch[g] EXCEPT !.into = becomes[@]].next = fetch[g].next
             /\ [fetch[g] EXCEPT !.into = becomes[@]].into = becomes[fetch[g].into]
  <2>1. becomes[fetch[g].into] \in {"part", "entry", "no name"}
    BY <1>1
  <2> QED
    BY <1>1, <2>1, CopyType DEF Fetch
<1>2. NoFetch \in Fetch
  BY DEF NoFetch, Fetch
<1>3. \A g \in Fetcher : fetch[g] \in Fetch
  BY DEF CacheTypeOK
<1>4. fetch' = [g \in Fetcher |->
        IF g = f THEN NoFetch
        ELSE IF fetch[g].at = "copy" /\ fetch[g].key = fetch[f].key /\ fetch[g].into \in DOMAIN becomes
             THEN [fetch[g] EXCEPT !.into = becomes[@]] ELSE fetch[g]]
  BY DEF Renamed, At
<1>5. fetch' \in [Fetcher -> Fetch]
  BY <1>1, <1>2, <1>3, <1>4
<1> QED
  BY <1>1, <1>4, <1>5

\* The two renames: of the published file, whose entry is replaced, and of the removed one.
Published == [part |-> "entry", entry |-> "no name"]
Withdrawn == [part |-> "no name"]

LEMMA RenameTypes ==
  /\ DOMAIN Published = {"part", "entry"} /\ DOMAIN Withdrawn = {"part"}
  /\ Published["part"] = "entry" /\ Published["entry"] = "no name" /\ Withdrawn["part"] = "no name"
  /\ \A x \in DOMAIN Published : Published[x] \in {"part", "entry", "no name"}
  /\ \A x \in DOMAIN Withdrawn : Withdrawn[x] \in {"part", "entry", "no name"}
<1>1. DOMAIN Published = {"part", "entry"} /\ DOMAIN Withdrawn = {"part"}
  BY DEF Published, Withdrawn
<1>2. Published["part"] = "entry" /\ Published["entry"] = "no name" /\ Withdrawn["part"] = "no name"
  BY DEF Published, Withdrawn
<1> QED
  BY <1>1, <1>2

LEMMA PublishRenames ==
  ASSUME CacheTypeOK, NEW f \in Fetcher, Renamed(f, NoFetch, Published)
  PROVE  /\ fetch' \in [Fetcher -> Fetch] /\ fetch'[f] = NoFetch
         /\ \A g \in Fetcher \ {f} :
              \/ /\ fetch'[g] = fetch[g]
                 /\ ~(fetch[g].at = "copy" /\ fetch[g].key = fetch[f].key /\ fetch[g].into \in {"part", "entry"})
              \/ /\ fetch[g].at = "copy" /\ fetch[g].key = fetch[f].key
                 /\ fetch'[g].at = "copy" /\ fetch'[g].key = fetch[g].key /\ fetch'[g].of = fetch[g].of
                 /\ fetch'[g].next = fetch[g].next
                 /\ \/ fetch[g].into = "part" /\ fetch'[g].into = "entry"
                    \/ fetch[g].into = "entry" /\ fetch'[g].into = "no name"
<1>1. /\ fetch' \in [Fetcher -> Fetch] /\ fetch'[f] = NoFetch
      /\ \A g \in Fetcher \ {f} :
           \/ fetch'[g] = fetch[g]
              /\ ~(fetch[g].at = "copy" /\ fetch[g].key = fetch[f].key /\ fetch[g].into \in DOMAIN Published)
           \/ /\ fetch[g].at = "copy" /\ fetch[g].key = fetch[f].key /\ fetch[g].into \in DOMAIN Published
              /\ fetch'[g].at = "copy" /\ fetch'[g].key = fetch[g].key /\ fetch'[g].of = fetch[g].of
              /\ fetch'[g].next = fetch[g].next /\ fetch'[g].into = Published[fetch[g].into]
  BY RenamedType, RenameTypes
<1> QED
  BY <1>1, RenameTypes

LEMMA FailureRenames ==
  ASSUME CacheTypeOK, NEW f \in Fetcher, Renamed(f, NoFetch, Withdrawn)
  PROVE  /\ fetch' \in [Fetcher -> Fetch] /\ fetch'[f] = NoFetch
         /\ \A g \in Fetcher \ {f} :
              \/ /\ fetch'[g] = fetch[g]
                 /\ ~(fetch[g].at = "copy" /\ fetch[g].key = fetch[f].key /\ fetch[g].into = "part")
              \/ /\ fetch[g].at = "copy" /\ fetch[g].key = fetch[f].key /\ fetch[g].into = "part"
                 /\ fetch'[g].at = "copy" /\ fetch'[g].key = fetch[g].key /\ fetch'[g].of = fetch[g].of
                 /\ fetch'[g].next = fetch[g].next /\ fetch'[g].into = "no name"
<1>1. /\ fetch' \in [Fetcher -> Fetch] /\ fetch'[f] = NoFetch
      /\ \A g \in Fetcher \ {f} :
           \/ fetch'[g] = fetch[g]
              /\ ~(fetch[g].at = "copy" /\ fetch[g].key = fetch[f].key /\ fetch[g].into \in DOMAIN Withdrawn)
           \/ /\ fetch[g].at = "copy" /\ fetch[g].key = fetch[f].key /\ fetch[g].into \in DOMAIN Withdrawn
              /\ fetch'[g].at = "copy" /\ fetch'[g].key = fetch[g].key /\ fetch'[g].of = fetch[g].of
              /\ fetch'[g].next = fetch[g].next /\ fetch'[g].into = Withdrawn[fetch[g].into]
  BY RenamedType, RenameTypes
<1> QED
  BY <1>1, RenameTypes

-----------------------------------------------------------------------------
(* What each step does                                                     *)

LEMMA StatMoves ==
  ASSUME CacheTypeOK, NEW f \in Fetcher, Stat(f)
  PROVE  /\ fetch' \in [Fetcher -> Fetch] /\ fetch'[f].at = "look" /\ fetch[f].at = "idle"
         /\ \A g \in Fetcher \ {f} : fetch'[g] = fetch[g]
<1>1. PICK r \in BOOLEAN : GoOn(f, [at |-> "look", key |-> object, refresh |-> r])
  BY DEF Stat
<1>2. [at |-> "look", key |-> object, refresh |-> r] \in Fetch
  BY DEF Fetch, CacheTypeOK
<1> QED
  BY <1>1, <1>2, GoOnType DEF Stat, At

LEMMA LookMoves ==
  ASSUME CacheTypeOK, NEW f \in Fetcher, Look(f)
  PROVE  /\ fetch' \in [Fetcher -> Fetch] /\ fetch[f].at = "look" /\ fetch'[f].at \in {"idle", "open"}
         /\ \A g \in Fetcher \ {f} : fetch'[g] = fetch[g]
<1>1. fetch[f].at = "look" /\ fetch[f].key \in Version
  BY LookType DEF Look, At
<1>2. NoFetch \in Fetch /\ [at |-> "open", key |-> fetch[f].key] \in Fetch
  BY <1>1 DEF Fetch, NoFetch
<1>3. GoOn(f, NoFetch) \/ GoOn(f, [at |-> "open", key |-> fetch[f].key])
  BY DEF Look
<1>4. NoFetch.at = "idle"
  BY DEF NoFetch
<1> QED
  BY <1>1, <1>2, <1>3, <1>4, GoOnType

LEMMA OpenMoves ==
  ASSUME CacheTypeOK, NEW f \in Fetcher, Open(f)
  PROVE  /\ fetch' \in [Fetcher -> Fetch] /\ fetch[f].at = "open" /\ fetch[f].key \in Version
         /\ fetch'[f].at = "copy" /\ fetch'[f].key = fetch[f].key /\ fetch'[f].of = object
         /\ fetch'[f].into = "part" /\ fetch'[f].next = 1
         /\ \A g \in Fetcher \ {f} : fetch'[g] = fetch[g]
         /\ part' = [part EXCEPT ![fetch[f].key] = Hole] /\ part' \in [Version -> Held \cup {Nowhere}]
<1>1. fetch[f].at = "open" /\ fetch[f].key \in Version
  BY OpenType DEF Open, At
<1> DEFINE state == [at |-> "copy", key |-> fetch[f].key, of |-> object, into |-> "part", next |-> 1]
<1>2. state \in Fetch
  <2>1. 1 \in Chunk /\ object \in Version
    BY DEF Chunk, CacheTypeOK
  <2> QED
    BY <1>1, <2>1 DEF Fetch
<1>3. GoOn(f, state) /\ part' = [part EXCEPT ![fetch[f].key] = Hole]
  BY DEF Open
<1>4. part' \in [Version -> Held \cup {Nowhere}]
  BY <1>3, HeldType DEF CacheTypeOK, Hole, Held
<1> HIDE DEF state
<1>5. fetch' \in [Fetcher -> Fetch] /\ fetch'[f] = state /\ \A g \in Fetcher \ {f} : fetch'[g] = fetch[g]
  BY <1>2, <1>3, GoOnType
<1> QED
  BY <1>1, <1>3, <1>4, <1>5 DEF state

\* The chunk goes to the file under the name it has by now, or to none.
LEMMA CopyMoves ==
  ASSUME CacheTypeOK, NEW f \in Fetcher, Copy(f)
  PROVE  LET k == fetch[f].key
             n == fetch[f].next
         IN /\ fetch' \in [Fetcher -> Fetch] /\ fetch[f].at = "copy" /\ k \in Version /\ n \in Chunk
            /\ \A g \in Fetcher \ {f} : fetch'[g] = fetch[g]
            /\ \/ n = 2 /\ fetch'[f].at = "publish" /\ fetch'[f].key = k
               \/ /\ n = 1 /\ fetch'[f].at = "copy" /\ fetch'[f].key = k /\ fetch'[f].next = 2
                  /\ fetch'[f].of = fetch[f].of /\ fetch'[f].into = fetch[f].into
            /\ part' = (IF fetch[f].into = "part" THEN [part EXCEPT ![k] = [part[k] EXCEPT ![n] = fetch[f].of]] ELSE part)
            /\ entry' = (IF fetch[f].into = "entry" THEN [entry EXCEPT ![k] = [entry[k] EXCEPT ![n] = fetch[f].of]] ELSE entry)
<1> DEFINE k == fetch[f].key
           n == fetch[f].next
<1>1. fetch[f].at = "copy" /\ k \in Version /\ n \in Chunk
  BY CopyType DEF Copy, At
<1>2. /\ part' = (IF fetch[f].into = "part" THEN [part EXCEPT ![k] = [part[k] EXCEPT ![n] = fetch[f].of]] ELSE part)
      /\ entry' = (IF fetch[f].into = "entry" THEN [entry EXCEPT ![k] = [entry[k] EXCEPT ![n] = fetch[f].of]] ELSE entry)
  BY <1>1 DEF Copy, CacheTypeOK
<1>3. CASE n = 2
  <2>1. [at |-> "publish", key |-> k] \in Fetch
    BY <1>1 DEF Fetch
  <2>2. GoOn(f, [at |-> "publish", key |-> k])
    BY <1>3 DEF Copy
  <2>3. fetch' \in [Fetcher -> Fetch] /\ fetch'[f] = [at |-> "publish", key |-> k]
        /\ \A g \in Fetcher \ {f} : fetch'[g] = fetch[g]
    BY <2>1, <2>2, GoOnType
  <2> QED
    BY <1>1, <1>2, <1>3, <2>3
<1>4. CASE n # 2
  <2>1. n = 1
    BY <1>1, <1>4 DEF Chunk
  <2>2. fetch[f] \in [at : {"copy"}, key : Version, of : Version,
                      into : {"part", "entry", "no name"}, next : Chunk]
    BY <1>1, CopyType
  <2>3. 2 \in Chunk
    BY DEF Chunk
  <2>4. [fetch[f] EXCEPT !.next = 2] \in [at : {"copy"}, key : Version, of : Version,
                                          into : {"part", "entry", "no name"}, next : Chunk]
    BY <2>2, <2>3
  <2>5. GoOn(f, [fetch[f] EXCEPT !.next = 2])
    BY <1>4 DEF Copy
  <2>6. [fetch[f] EXCEPT !.next = 2] \in Fetch
    BY <2>4 DEF Fetch
  <2>7. fetch' \in [Fetcher -> Fetch] /\ fetch'[f] = [fetch[f] EXCEPT !.next = 2]
        /\ \A g \in Fetcher \ {f} : fetch'[g] = fetch[g]
    BY <2>5, <2>6, GoOnType
  <2>8. /\ fetch'[f].at = "copy" /\ fetch'[f].key = k /\ fetch'[f].next = 2
        /\ fetch'[f].of = fetch[f].of /\ fetch'[f].into = fetch[f].into
    BY <1>1, <2>2, <2>7
  <2> QED
    BY <1>1, <1>2, <2>1, <2>7, <2>8
<1> QED
  BY <1>3, <1>4

LEMMA ChunkWritten ==
  ASSUME NEW h \in Held \cup {Nowhere}, NEW n \in Chunk, NEW v \in Version
  PROVE  /\ DOMAIN [h EXCEPT ![n] = v] = Chunk
         /\ [h EXCEPT ![n] = v][n] = v
         /\ \A c \in Chunk : c # n => [h EXCEPT ![n] = v][c] = h[c]
         /\ h \in Held => [h EXCEPT ![n] = v] \in Held
BY DEF Held, Nowhere

LEMMA PublishMoves ==
  ASSUME CacheTypeOK, NEW f \in Fetcher, Publish(f)
  PROVE  LET k == fetch[f].key
         IN /\ fetch[f].at = "publish" /\ k \in Version /\ part[k] # Nowhere
            /\ fetch' \in [Fetcher -> Fetch] /\ fetch'[f].at = "idle"
            /\ entry' = [entry EXCEPT ![k] = part[k]] /\ part' = [part EXCEPT ![k] = Nowhere]
            /\ \A g \in Fetcher \ {f} :
                 \/ /\ fetch'[g] = fetch[g]
                    /\ ~(fetch[g].at = "copy" /\ fetch[g].key = k /\ fetch[g].into \in {"part", "entry"})
                 \/ /\ fetch[g].at = "copy" /\ fetch[g].key = k
                    /\ fetch'[g].at = "copy" /\ fetch'[g].key = fetch[g].key /\ fetch'[g].of = fetch[g].of
                    /\ fetch'[g].next = fetch[g].next
                    /\ \/ fetch[g].into = "part" /\ fetch'[g].into = "entry"
                       \/ fetch[g].into = "entry" /\ fetch'[g].into = "no name"
<1>1. Renamed(f, NoFetch, Published)
  BY DEF Publish, Published
<1>2. fetch[f].at = "publish" /\ fetch[f].key \in Version
  BY OpenType DEF Publish, At
<1>3. /\ part[fetch[f].key] # Nowhere /\ entry' = [entry EXCEPT ![fetch[f].key] = part[fetch[f].key]]
      /\ part' = [part EXCEPT ![fetch[f].key] = Nowhere]
  BY DEF Publish
<1>4. NoFetch.at = "idle"
  BY DEF NoFetch
<1> QED
  BY <1>1, <1>2, <1>3, <1>4, PublishRenames

LEMMA FailureMoves ==
  ASSUME CacheTypeOK, NEW f \in Fetcher, FetchFails(f)
  PROVE  LET k == fetch[f].key
         IN /\ fetch[f].at \in {"open", "copy"} /\ k \in Version
            /\ fetch' \in [Fetcher -> Fetch] /\ fetch'[f].at = "idle"
            /\ entry' = entry /\ part' = [part EXCEPT ![k] = Nowhere] /\ broken'
            /\ \A g \in Fetcher \ {f} :
                 \/ /\ fetch'[g] = fetch[g]
                    /\ ~(fetch[g].at = "copy" /\ fetch[g].key = k /\ fetch[g].into = "part")
                 \/ /\ fetch[g].at = "copy" /\ fetch[g].key = k /\ fetch[g].into = "part"
                    /\ fetch'[g].at = "copy" /\ fetch'[g].key = fetch[g].key /\ fetch'[g].of = fetch[g].of
                    /\ fetch'[g].next = fetch[g].next /\ fetch'[g].into = "no name"
<1>1. Renamed(f, NoFetch, Withdrawn)
  BY DEF FetchFails, Withdrawn
<1>2. fetch[f].at \in {"open", "copy"}
  BY DEF FetchFails
<1>3. fetch[f].key \in Version
  BY <1>2, OpenType, CopyType
<1>4. entry' = entry /\ part' = [part EXCEPT ![fetch[f].key] = Nowhere] /\ broken'
  BY DEF FetchFails
<1>5. NoFetch.at = "idle"
  BY DEF NoFetch
<1> QED
  BY <1>1, <1>2, <1>3, <1>4, <1>5, FailureRenames

LEMMA EndMoves ==
  ASSUME CacheTypeOK, NEW f \in Fetcher, PublishFails(f) \/ Die(f)
  PROVE  /\ fetch' \in [Fetcher -> Fetch] /\ fetch'[f].at = "idle"
         /\ entry' = entry /\ part' = part /\ \A g \in Fetcher \ {f} : fetch'[g] = fetch[g]
<1>1. GoOn(f, NoFetch) /\ entry' = entry /\ part' = part
  BY DEF PublishFails, Die, files
<1>2. NoFetch \in Fetch /\ NoFetch.at = "idle"
  BY DEF NoFetch, Fetch
<1> QED
  BY <1>1, <1>2, GoOnType

\* What once happened has happened.
LEMMA CacheHistory ==
  ASSUME [CacheNext]_cacheVars
  PROVE  (shared => shared') /\ (moved => moved') /\ (broken => broken')
<1>1. CASE Replace \/ UNCHANGED cacheVars
  BY <1>1 DEF Replace, cacheVars, past
<1>2. ASSUME NEW f \in Fetcher, Stat(f) \/ Look(f) \/ Copy(f) \/ Publish(f) \/ PublishFails(f)
      PROVE  shared' = shared /\ moved' = moved /\ broken' = broken
  BY <1>2 DEF Stat, Look, Copy, Publish, PublishFails, past
<1>3. ASSUME NEW f \in Fetcher, Open(f) PROVE (shared => shared') /\ (moved => moved') /\ broken' = broken
  BY <1>3 DEF Open
<1>4. ASSUME NEW f \in Fetcher, FetchFails(f) \/ Die(f)
      PROVE  shared' = shared /\ moved' = moved /\ (broken => broken')
  BY <1>4 DEF FetchFails, Die
<1> QED
  BY <1>1, <1>2, <1>3, <1>4 DEF CacheNext

-----------------------------------------------------------------------------
(* The type invariant                                                      *)

\* Who writes a file under a name writes one that is there.
Named == \A f \in Fetcher : fetch[f].at = "copy" =>
  /\ fetch[f].into = "part" => part[fetch[f].key] # Nowhere
  /\ fetch[f].into = "entry" => entry[fetch[f].key] # Nowhere

LEMMA HistoryTypes ==
  ASSUME CacheTypeOK, [CacheNext]_cacheVars
  PROVE  object' \in Version /\ calls' \in 0..MaxCalls
         /\ shared' \in BOOLEAN /\ moved' \in BOOLEAN /\ broken' \in BOOLEAN
<1>0. object \in Version /\ calls \in 0..MaxCalls /\ shared \in BOOLEAN /\ moved \in BOOLEAN /\ broken \in BOOLEAN
  BY DEF CacheTypeOK
<1>1. CASE Replace \/ UNCHANGED cacheVars
  BY <1>0, <1>1 DEF Replace, cacheVars, past
<1>2. ASSUME NEW f \in Fetcher, Stat(f)
      PROVE  object' = object /\ calls' \in 0..MaxCalls /\ UNCHANGED past
  <2>1. object' = object /\ calls' = calls + 1 /\ calls < MaxCalls /\ UNCHANGED past
    BY <1>2 DEF Stat
  <2>2. calls' \in 0..MaxCalls
    <3>1. calls \in 0..MaxCalls /\ calls' = calls + 1 /\ calls < MaxCalls /\ MaxCalls \in Nat
      BY <2>1, CacheAssumption DEF CacheTypeOK
    <3> QED
      BY <3>1
  <2> QED
    BY <2>1, <2>2
<1>3. ASSUME NEW f \in Fetcher, Look(f) \/ Copy(f) \/ Publish(f) \/ PublishFails(f)
      PROVE  object' = object /\ calls' = calls /\ UNCHANGED past
  BY <1>3 DEF Look, Copy, Publish, PublishFails
<1>4. ASSUME NEW f \in Fetcher, Open(f)
      PROVE  object' = object /\ calls' = calls /\ shared' \in BOOLEAN /\ moved' \in BOOLEAN /\ broken' = broken
  BY <1>0, <1>4 DEF Open
<1>5. ASSUME NEW f \in Fetcher, FetchFails(f) \/ Die(f)
      PROVE  object' = object /\ calls' = calls /\ shared' = shared /\ moved' = moved /\ broken' = TRUE
  BY <1>5 DEF FetchFails, Die
<1> QED
  BY <1>0, <1>1, <1>2, <1>3, <1>4, <1>5 DEF CacheNext, past

LEMMA CopiedType ==
  ASSUME CacheTypeOK, Named, NEW f \in Fetcher, Copy(f)
  PROVE  /\ part' \in [Version -> Held \cup {Nowhere}] /\ entry' \in [Version -> Held \cup {Nowhere}]
         /\ \A k \in Version : /\ part[k] # Nowhere => part'[k] # Nowhere
                               /\ part[k] = Nowhere => part'[k] = Nowhere
                               /\ entry[k] # Nowhere => entry'[k] # Nowhere
                               /\ entry[k] = Nowhere => entry'[k] = Nowhere
<1> DEFINE k == fetch[f].key
           n == fetch[f].next
           Put(h) == [h EXCEPT ![n] = fetch[f].of]
<1>1. fetch[f].at = "copy" /\ k \in Version /\ n \in Chunk /\ fetch[f].of \in Version
  BY CopyMoves, CopyType
<1>2. /\ part' = (IF fetch[f].into = "part" THEN [part EXCEPT ![k] = Put(part[k])] ELSE part)
      /\ entry' = (IF fetch[f].into = "entry" THEN [entry EXCEPT ![k] = Put(entry[k])] ELSE entry)
  BY CopyMoves
<1>3. /\ fetch[f].into = "part" => part[k] \in Held
      /\ fetch[f].into = "entry" => entry[k] \in Held
  BY <1>1, HeldType DEF Named
<1>4. /\ fetch[f].into = "part" => Put(part[k]) \in Held
      /\ fetch[f].into = "entry" => Put(entry[k]) \in Held
  BY <1>1, <1>3, ChunkWritten
<1>5. Nowhere \notin Held
  BY <1>1, HeldType
<1> HIDE DEF Put, k, n
<1>6. part' \in [Version -> Held \cup {Nowhere}] /\ entry' \in [Version -> Held \cup {Nowhere}]
  BY <1>1, <1>2, <1>4 DEF CacheTypeOK
<1>7. \A q \in Version : \/ part'[q] = part[q]
                         \/ q = k /\ part'[q] \in Held /\ part[q] \in Held
  BY <1>1, <1>2, <1>3, <1>4 DEF CacheTypeOK
<1>8. \A q \in Version : \/ entry'[q] = entry[q]
                         \/ q = k /\ entry'[q] \in Held /\ entry[q] \in Held
  BY <1>1, <1>2, <1>3, <1>4 DEF CacheTypeOK
<1> QED
  BY <1>5, <1>6, <1>7, <1>8

LEMMA CacheTypesKept == CacheTypeOK /\ Named /\ [CacheNext]_cacheVars => CacheTypeOK' /\ Named'
<1> SUFFICES ASSUME CacheTypeOK, Named, [CacheNext]_cacheVars PROVE CacheTypeOK' /\ Named'
  OBVIOUS
<1>0. SUFFICES /\ fetch' \in [Fetcher -> Fetch] /\ part' \in [Version -> Held \cup {Nowhere}]
               /\ entry' \in [Version -> Held \cup {Nowhere}] /\ Named'
  BY HistoryTypes DEF CacheTypeOK
<1> USE DEF Named
<1>1. CASE Replace \/ UNCHANGED cacheVars
  BY <1>1 DEF Replace, cacheVars, files, CacheTypeOK
<1>2. ASSUME NEW f \in Fetcher, Stat(f) \/ Look(f)
      PROVE  fetch' \in [Fetcher -> Fetch] /\ part' = part /\ entry' = entry /\ Named'
  <2>1. fetch' \in [Fetcher -> Fetch] /\ fetch'[f].at # "copy" /\ \A g \in Fetcher \ {f} : fetch'[g] = fetch[g]
    BY <1>2, StatMoves, LookMoves
  <2>2. part' = part /\ entry' = entry
    BY <1>2 DEF Stat, Look, files
  <2> QED
    BY <2>1, <2>2
<1>3. ASSUME NEW f \in Fetcher, Open(f)
      PROVE  fetch' \in [Fetcher -> Fetch] /\ part' \in [Version -> Held \cup {Nowhere}] /\ entry' = entry /\ Named'
  <2>1. /\ fetch' \in [Fetcher -> Fetch] /\ fetch[f].key \in Version /\ fetch'[f].key = fetch[f].key
        /\ fetch'[f].into = "part" /\ \A g \in Fetcher \ {f} : fetch'[g] = fetch[g]
        /\ part' = [part EXCEPT ![fetch[f].key] = Hole] /\ part' \in [Version -> Held \cup {Nowhere}]
    BY <1>3, OpenMoves
  <2>2. entry' = entry
    BY <1>3 DEF Open
  <2>3. Hole # Nowhere
    BY <2>1, HeldType
  <2>4. \A q \in Version : part'[q] = part[q] \/ part'[q] = Hole
    BY <2>1 DEF CacheTypeOK
  <2>5. \A g \in Fetcher : fetch[g].at = "copy" => fetch[g].key \in Version
    BY CopyType
  <2>6. part'[fetch[f].key] = Hole
    BY <2>1 DEF CacheTypeOK
  <2>7. Named'
    BY <2>1, <2>2, <2>3, <2>4, <2>5, <2>6
  <2> QED
    BY <2>1, <2>2, <2>7
<1>4. ASSUME NEW f \in Fetcher, Copy(f)
      PROVE  /\ fetch' \in [Fetcher -> Fetch] /\ part' \in [Version -> Held \cup {Nowhere}]
             /\ entry' \in [Version -> Held \cup {Nowhere}] /\ Named'
  <2>1. /\ fetch' \in [Fetcher -> Fetch] /\ \A g \in Fetcher \ {f} : fetch'[g] = fetch[g]
        /\ fetch[f].at = "copy"
        /\ fetch'[f].at = "copy" => fetch'[f].key = fetch[f].key /\ fetch'[f].into = fetch[f].into
    BY <1>4, CopyMoves
  <2>2. \A g \in Fetcher : fetch[g].at = "copy" => fetch[g].key \in Version
    BY CopyType
  <2>3. Named'
    BY <1>4, <2>1, <2>2, CopiedType
  <2> QED
    BY <1>4, <2>1, <2>3, CopiedType
<1>5. ASSUME NEW f \in Fetcher, Publish(f)
      PROVE  /\ fetch' \in [Fetcher -> Fetch] /\ part' \in [Version -> Held \cup {Nowhere}]
             /\ entry' \in [Version -> Held \cup {Nowhere}] /\ Named'
  <2> DEFINE k == fetch[f].key
  <2>1. /\ k \in Version /\ part[k] # Nowhere /\ fetch' \in [Fetcher -> Fetch] /\ fetch'[f].at = "idle"
        /\ entry' = [entry EXCEPT ![k] = part[k]] /\ part' = [part EXCEPT ![k] = Nowhere]
    BY <1>5, PublishMoves
  <2>2. part' \in [Version -> Held \cup {Nowhere}] /\ entry' \in [Version -> Held \cup {Nowhere}]
    BY <2>1 DEF CacheTypeOK
  <2>3. \A q \in Version : q # k => part'[q] = part[q] /\ entry'[q] = entry[q]
    BY <2>1 DEF CacheTypeOK
  <2>4. entry'[k] # Nowhere
    BY <2>1 DEF CacheTypeOK
  <2>5. ASSUME NEW g \in Fetcher, fetch'[g].at = "copy"
        PROVE  /\ fetch'[g].into = "part" => part'[fetch'[g].key] # Nowhere
               /\ fetch'[g].into = "entry" => entry'[fetch'[g].key] # Nowhere
    <3>1. g # f
      BY <2>1, <2>5
    <3>2. fetch[g].at = "copy" /\ fetch'[g].key = fetch[g].key /\ fetch[g].key \in Version
      BY <1>5, <2>5, <3>1, PublishMoves, CopyType
    <3>3. CASE fetch[g].key = k
      BY <1>5, <2>4, <3>1, <3>2, <3>3, PublishMoves
    <3>4. CASE fetch[g].key # k
      <4>1. fetch'[g] = fetch[g]
        BY <1>5, <3>1, <3>4, PublishMoves
      <4> QED
        BY <2>3, <3>2, <3>4, <4>1
    <3> QED
      BY <3>3, <3>4
  <2> QED
    BY <2>1, <2>2, <2>5
<1>6. ASSUME NEW f \in Fetcher, FetchFails(f)
      PROVE  fetch' \in [Fetcher -> Fetch] /\ part' \in [Version -> Held \cup {Nowhere}] /\ entry' = entry /\ Named'
  <2> DEFINE k == fetch[f].key
  <2>1. /\ k \in Version /\ fetch' \in [Fetcher -> Fetch] /\ fetch'[f].at = "idle"
        /\ entry' = entry /\ part' = [part EXCEPT ![k] = Nowhere]
    BY <1>6, FailureMoves
  <2>2. part' \in [Version -> Held \cup {Nowhere}]
    BY <2>1 DEF CacheTypeOK
  <2>3. \A q \in Version : q # k => part'[q] = part[q]
    BY <2>1 DEF CacheTypeOK
  <2>5. ASSUME NEW g \in Fetcher, fetch'[g].at = "copy"
        PROVE  /\ fetch'[g].into = "part" => part'[fetch'[g].key] # Nowhere
               /\ fetch'[g].into = "entry" => entry'[fetch'[g].key] # Nowhere
    <3>1. g # f
      BY <2>1, <2>5
    <3>2. fetch[g].at = "copy" /\ fetch'[g].key = fetch[g].key /\ fetch[g].key \in Version
      BY <1>6, <2>5, <3>1, FailureMoves, CopyType
    <3>3. fetch'[g].into = "part" => fetch[g].into = "part" /\ fetch[g].key # k
      BY <1>6, <3>1, <3>2, FailureMoves
    <3>4. fetch'[g].into = "entry" => fetch[g].into = "entry"
      BY <1>6, <3>1, FailureMoves
    <3> QED
      BY <2>1, <2>3, <3>2, <3>3, <3>4
  <2> QED
    BY <2>1, <2>2, <2>5
<1>7. ASSUME NEW f \in Fetcher, PublishFails(f) \/ Die(f)
      PROVE  fetch' \in [Fetcher -> Fetch] /\ part' = part /\ entry' = entry /\ Named'
  BY <1>7, EndMoves
<1> QED
  BY <1>1, <1>2, <1>3, <1>4, <1>5, <1>6, <1>7 DEF CacheNext, CacheTypeOK

-----------------------------------------------------------------------------
(* No two processes under one key                                          *)

Busy(f) == fetch[f].at \in {"copy", "publish"}
Uniform(held) == \E v \in Version : held = [c \in Chunk |-> v]

\* While no two fetched under one key: who fetches has the partial file for himself, and unless
\* another that failed to open it took it away, it holds what he wrote; so what is published is
\* one version, and what is published is never written again.
OneEach == \A f, g \in Fetcher : Busy(f) /\ Busy(g) /\ fetch[f].key = fetch[g].key => f = g
CopyOK(f) == fetch[f].at = "copy" =>
  \/ fetch[f].into = "no name" /\ part[fetch[f].key] = Nowhere
  \/ fetch[f].into = "part" /\ (fetch[f].next = 2 => part[fetch[f].key][1] = fetch[f].of)
CopiedOK(f) == fetch[f].at = "publish" =>
  part[fetch[f].key] = Nowhere \/ Uniform(part[fetch[f].key])
EntryOK(k) == entry[k] = Nowhere \/ Uniform(entry[k])
Unshared == ~shared =>
  OneEach /\ (\A f \in Fetcher : CopyOK(f) /\ CopiedOK(f)) /\ (\A k \in Version : EntryOK(k))

\* Who does not begin to fetch disturbs no pair, and who is not written beside is as before.
LEMMA OneEachStays ==
  ASSUME OneEach,
         \A g \in Fetcher : Busy(g)' => Busy(g) /\ fetch'[g].key = fetch[g].key
  PROVE  OneEach'
BY DEF OneEach

LEMMA OkStays ==
  ASSUME NEW g \in Fetcher, CopyOK(g), CopiedOK(g), fetch'[g] = fetch[g],
         Busy(g) => part'[fetch[g].key] = part[fetch[g].key]
  PROVE  CopyOK(g)' /\ CopiedOK(g)'
BY DEF CopyOK, CopiedOK, Busy, Uniform

LEMMA IdleIsOk ==
  ASSUME NEW g \in Fetcher, fetch'[g].at \notin {"copy", "publish"}
  PROVE  CopyOK(g)' /\ CopiedOK(g)' /\ ~Busy(g)'
BY DEF CopyOK, CopiedOK, Busy

LEMMA EntryStays ==
  ASSUME NEW k \in Version, EntryOK(k), entry'[k] = entry[k] PROVE EntryOK(k)'
BY DEF EntryOK, Uniform

LEMMA BusyKey == ASSUME CacheTypeOK, NEW g \in Fetcher, Busy(g) PROVE fetch[g].key \in Version
BY CopyType, OpenType DEF Busy

LEMMA AloneKept ==
  CacheTypeOK /\ Named /\ Unshared /\ [CacheNext]_cacheVars => Unshared'
<1> SUFFICES ASSUME CacheTypeOK, Named, Unshared, [CacheNext]_cacheVars, ~shared'
             PROVE  OneEach' /\ (\A g \in Fetcher : CopyOK(g)' /\ CopiedOK(g)') /\ (\A q \in Version : EntryOK(q)')
  BY DEF Unshared
<1>0. OneEach /\ (\A g \in Fetcher : CopyOK(g) /\ CopiedOK(g)) /\ (\A q \in Version : EntryOK(q))
  BY CacheHistory DEF Unshared
<1> DEFINE Goal == OneEach' /\ (\A g \in Fetcher : CopyOK(g)' /\ CopiedOK(g)') /\ (\A q \in Version : EntryOK(q)')
<1>1. CASE Replace \/ UNCHANGED cacheVars
  <2>1. fetch' = fetch /\ part' = part /\ entry' = entry
    BY <1>1 DEF Replace, cacheVars, files
  <2>2. OneEach'
    BY <1>0, <2>1 DEF OneEach, Busy
  <2>3. ASSUME NEW g \in Fetcher PROVE CopyOK(g)' /\ CopiedOK(g)'
    BY <1>0, <2>1, OkStays
  <2>4. ASSUME NEW q \in Version PROVE EntryOK(q)'
    BY <1>0, <2>1, EntryStays
  <2> QED
    BY <2>2, <2>3, <2>4
<1>2. ASSUME NEW f \in Fetcher, Stat(f) \/ Look(f) \/ PublishFails(f) \/ Die(f) PROVE Goal
  <2>1. fetch'[f].at \notin {"copy", "publish"} /\ \A g \in Fetcher \ {f} : fetch'[g] = fetch[g]
    BY <1>2, StatMoves, LookMoves, EndMoves
  <2>2. part' = part /\ entry' = entry
    BY <1>2 DEF Stat, Look, PublishFails, Die, files
  <2>3. ASSUME NEW g \in Fetcher PROVE CopyOK(g)' /\ CopiedOK(g)'
    BY <1>0, <2>1, <2>2, OkStays, IdleIsOk
  <2>4. ASSUME NEW q \in Version PROVE EntryOK(q)'
    BY <1>0, <2>2, EntryStays
  <2>5. \A g \in Fetcher : Busy(g)' => Busy(g) /\ fetch'[g].key = fetch[g].key
    BY <2>1 DEF Busy
  <2>6. OneEach'
    BY <1>0, <2>5, OneEachStays
  <2> QED
    BY <2>3, <2>4, <2>6
<1>3. ASSUME NEW f \in Fetcher, Open(f) PROVE Goal
  <2> DEFINE k == fetch[f].key
  <2>1. k \in Version /\ fetch'[f].at = "copy" /\ fetch'[f].key = k /\ \A g \in Fetcher \ {f} : fetch'[g] = fetch[g]
    BY <1>3, OpenMoves
  <2>2. fetch'[f].into = "part" /\ fetch'[f].next = 1
    BY <1>3, OpenMoves
  <2>3. entry' = entry /\ \A g \in Fetcher \ {f} : ~(Busy(g) /\ fetch[g].key = k)
    BY <1>3 DEF Open, Busy
  <2>4. \A q \in Version : q # k => part'[q] = part[q]
    BY <1>3, OpenMoves DEF CacheTypeOK
  <2>5. OneEach'
    <3> SUFFICES ASSUME NEW g \in Fetcher, NEW h \in Fetcher, Busy(g)', Busy(h)', fetch'[g].key = fetch'[h].key
                 PROVE  g = h
      BY DEF OneEach
    <3>1. ASSUME NEW x \in Fetcher \ {f}, Busy(x)' PROVE Busy(x) /\ fetch'[x].key = fetch[x].key /\ fetch[x].key # k
      BY <2>1, <2>3, <3>1 DEF Busy
    <3> QED
      BY <1>0, <2>1, <3>1 DEF OneEach
  <2>6. ASSUME NEW g \in Fetcher PROVE CopyOK(g)' /\ CopiedOK(g)'
    <3>1. CASE g = f
      <4>1. fetch'[g].next # 2
        BY <2>2, <3>1
      <4>2. fetch'[g].at = "copy" /\ fetch'[g].into = "part"
        BY <2>1, <2>2, <3>1
      <4> QED
        BY <4>1, <4>2 DEF CopyOK, CopiedOK
    <3>2. CASE g # f
      <4>1. Busy(g) => part'[fetch[g].key] = part[fetch[g].key]
        BY <2>3, <2>4, <3>2, BusyKey
      <4> QED
        BY <1>0, <2>1, <3>2, <4>1, OkStays
    <3> QED
      BY <3>1, <3>2
  <2>7. ASSUME NEW q \in Version PROVE EntryOK(q)'
    BY <1>0, <2>3, EntryStays
  <2> QED
    BY <2>5, <2>6, <2>7
<1>4. ASSUME NEW f \in Fetcher, Copy(f) PROVE Goal
  <2> DEFINE k == fetch[f].key
             n == fetch[f].next
             v == fetch[f].of
  <2>1. fetch[f].at = "copy" /\ k \in Version /\ n \in Chunk /\ v \in Version
        /\ \A g \in Fetcher \ {f} : fetch'[g] = fetch[g]
    BY <1>4, CopyMoves, CopyType
  <2>2. \/ n = 2 /\ fetch'[f].at = "publish" /\ fetch'[f].key = k
        \/ /\ n = 1 /\ fetch'[f].at = "copy" /\ fetch'[f].key = k /\ fetch'[f].next = 2
           /\ fetch'[f].of = v /\ fetch'[f].into = fetch[f].into
    BY <1>4, CopyMoves
  <2>3. \/ fetch[f].into = "no name" /\ part[k] = Nowhere
        \/ fetch[f].into = "part" /\ (n = 2 => part[k][1] = v)
    BY <1>0, <2>1 DEF CopyOK
  <2>4. entry' = entry
    BY <1>4, <2>3, CopyMoves
  <2>5. part' = (IF fetch[f].into = "part" THEN [part EXCEPT ![k] = [part[k] EXCEPT ![n] = v]] ELSE part)
    BY <1>4, CopyMoves
  <2>6. \A q \in Version : q # k => part'[q] = part[q]
    BY <2>5 DEF CacheTypeOK
  <2>7. \A g \in Fetcher \ {f} : Busy(g) => fetch[g].key # k
    BY <1>0, <2>1 DEF OneEach, Busy
  <2>8. OneEach'
    <3>1. \A g \in Fetcher : Busy(g)' => Busy(g) /\ fetch'[g].key = fetch[g].key
      BY <2>1, <2>2 DEF Busy
    <3> QED
      BY <1>0, <3>1, OneEachStays
  <2>9. CopyOK(f)' /\ CopiedOK(f)'
    <3>1. CASE fetch[f].into = "no name" /\ part[k] = Nowhere
      <4>1. part' = part
        BY <2>5, <3>1
      <4> QED
        BY <2>2, <3>1, <4>1 DEF CopyOK, CopiedOK
    <3>2. CASE fetch[f].into = "part" /\ (n = 2 => part[k][1] = v)
      <4>1. part'[k] = [part[k] EXCEPT ![n] = v]
        BY <2>1, <2>5, <3>2 DEF CacheTypeOK
      <4>2. part[k] \in Held
        BY <2>1, <3>2, HeldType DEF Named
      <4>3. part'[k] \in Held /\ part'[k][n] = v /\ \A c \in Chunk : c # n => part'[k][c] = part[k][c]
        BY <2>1, <4>1, <4>2, ChunkWritten
      <4>4. CASE n = 1
        <5>1. fetch'[f].at = "copy" /\ fetch'[f].key = k /\ fetch'[f].of = v /\ fetch'[f].into = "part"
          BY <2>2, <3>2, <4>4
        <5>2. part'[k][1] = v
          BY <4>3, <4>4
        <5> QED
          BY <5>1, <5>2 DEF CopyOK, CopiedOK
      <4>5. CASE n = 2
        <5>1. \A c \in Chunk : part'[k][c] = v
          BY <3>2, <4>3, <4>5 DEF Chunk
        <5>2. part'[k] = [c \in Chunk |-> v]
          BY <4>3, <5>1 DEF Held
        <5>3. fetch'[f].at = "publish" /\ fetch'[f].key = k
          BY <2>2, <4>5
        <5>4. Uniform(part'[k])
          BY <2>1, <5>2 DEF Uniform
        <5> QED
          BY <5>3, <5>4 DEF CopyOK, CopiedOK, Uniform
      <4> QED
        BY <2>1, <4>4, <4>5 DEF Chunk
    <3> QED
      BY <2>3, <3>1, <3>2
  <2>10. ASSUME NEW g \in Fetcher \ {f} PROVE CopyOK(g)' /\ CopiedOK(g)'
    <3>1. Busy(g) => part'[fetch[g].key] = part[fetch[g].key]
      BY <2>6, <2>7, BusyKey
    <3> QED
      BY <1>0, <2>1, <3>1, OkStays
  <2>11. ASSUME NEW q \in Version PROVE EntryOK(q)'
    BY <1>0, <2>4, EntryStays
  <2> QED
    BY <2>8, <2>9, <2>10, <2>11
<1>5. ASSUME NEW f \in Fetcher, Publish(f) PROVE Goal
  <2> DEFINE k == fetch[f].key
  <2>1. fetch[f].at = "publish" /\ k \in Version /\ part[k] # Nowhere /\ fetch'[f].at = "idle"
    BY <1>5, PublishMoves
  <2>2. entry' = [entry EXCEPT ![k] = part[k]] /\ part' = [part EXCEPT ![k] = Nowhere]
    BY <1>5, PublishMoves
  <2>3. \A g \in Fetcher \ {f} : Busy(g) => fetch[g].key # k
    BY <1>0, <2>1 DEF OneEach, Busy
  <2>4. \A g \in Fetcher \ {f} : fetch'[g] = fetch[g]
    BY <1>5, <2>3, PublishMoves DEF Busy
  <2>5. \A q \in Version : q # k => part'[q] = part[q] /\ entry'[q] = entry[q]
    BY <2>2 DEF CacheTypeOK
  <2>6. entry'[k] = part[k]
    BY <2>1, <2>2 DEF CacheTypeOK
  <2>7. Uniform(part[k])
    BY <1>0, <2>1 DEF CopiedOK
  <2>8. ASSUME NEW q \in Version PROVE EntryOK(q)'
    <3>1. CASE q = k
      BY <2>6, <2>7, <3>1 DEF EntryOK, Uniform
    <3>2. CASE q # k
      BY <1>0, <2>5, <3>2, EntryStays
    <3> QED
      BY <3>1, <3>2
  <2>9. ASSUME NEW g \in Fetcher PROVE CopyOK(g)' /\ CopiedOK(g)'
    <3>1. CASE g = f
      BY <2>1, <3>1, IdleIsOk
    <3>2. CASE g # f
      <4>1. Busy(g) => part'[fetch[g].key] = part[fetch[g].key]
        BY <2>3, <2>5, <3>2, BusyKey
      <4> QED
        BY <1>0, <2>4, <3>2, <4>1, OkStays
    <3> QED
      BY <3>1, <3>2
  <2>10. OneEach'
    <3>1. \A g \in Fetcher : Busy(g)' => Busy(g) /\ fetch'[g].key = fetch[g].key
      BY <2>1, <2>4 DEF Busy
    <3> QED
      BY <1>0, <3>1, OneEachStays
  <2> QED
    BY <2>8, <2>9, <2>10
<1>6. ASSUME NEW f \in Fetcher, FetchFails(f) PROVE Goal
  <2> DEFINE k == fetch[f].key
  <2>1. k \in Version /\ fetch'[f].at = "idle" /\ entry' = entry
    BY <1>6, FailureMoves
  <2>2. part'[k] = Nowhere /\ \A q \in Version : q # k => part'[q] = part[q]
    BY <1>6, FailureMoves DEF CacheTypeOK
  <2>3. ASSUME NEW g \in Fetcher \ {f}
        PROVE  \/ /\ fetch'[g] = fetch[g]
                  /\ ~(fetch[g].at = "copy" /\ fetch[g].key = k /\ fetch[g].into = "part")
               \/ /\ fetch[g].at = "copy" /\ fetch[g].key = k /\ fetch[g].into = "part"
                  /\ fetch'[g].at = "copy" /\ fetch'[g].key = fetch[g].key /\ fetch'[g].into = "no name"
    BY <1>6, FailureMoves
  <2>4. OneEach'
    <3>1. ASSUME NEW g \in Fetcher, Busy(g)' PROVE Busy(g) /\ fetch'[g].key = fetch[g].key
      <4>1. g # f
        BY <2>1, <3>1 DEF Busy
      <4> QED
        BY <2>3, <3>1, <4>1 DEF Busy
    <3> QED
      BY <1>0, <3>1, OneEachStays
  <2>5. ASSUME NEW g \in Fetcher PROVE CopyOK(g)' /\ CopiedOK(g)'
    <3>1. CASE g = f
      BY <2>1, <3>1, IdleIsOk
    <3>2. CASE g # f /\ fetch'[g].at = "copy" /\ fetch'[g].key = k /\ fetch'[g].into = "no name"
      BY <2>2, <3>2 DEF CopyOK, CopiedOK
    <3>3. CASE g # f /\ fetch'[g] = fetch[g] /\ ~(fetch[g].at = "copy" /\ fetch[g].key = k /\ fetch[g].into = "part")
      <4>1. CASE Busy(g) /\ fetch[g].key = k
        BY <1>0, <2>2, <3>3, <4>1 DEF CopyOK, CopiedOK, Busy
      <4>2. CASE ~(Busy(g) /\ fetch[g].key = k)
        <5>1. Busy(g) => part'[fetch[g].key] = part[fetch[g].key]
          BY <2>2, <4>2, BusyKey
        <5> QED
          BY <1>0, <3>3, <5>1, OkStays
      <4> QED
        BY <4>1, <4>2
    <3> QED
      BY <2>3, <3>1, <3>2, <3>3
  <2>6. ASSUME NEW q \in Version PROVE EntryOK(q)'
    BY <1>0, <2>1, EntryStays
  <2> QED
    BY <2>4, <2>5, <2>6
<1> QED
  BY <1>1, <1>2, <1>3, <1>4, <1>5, <1>6 DEF CacheNext

-----------------------------------------------------------------------------
(* Every fetch ends                                                        *)

\* What is held under a key is of the version the key stands for, but for chunks that somebody
\* who writes it under that name has still to write.
Fills(g, k, name, ft) == ft[g].at = "copy" /\ ft[g].key = k /\ ft[g].into = name
Sound(held, k, name, ft) == held = Nowhere \/ \A c \in Chunk :
  held[c] = k \/ (held[c] = "nothing" /\ \E g \in Fetcher : Fills(g, k, name, ft) /\ ft[g].next <= c)
Settling == ~moved /\ ~broken =>
  /\ \A f \in Fetcher : fetch[f].at = "copy" => fetch[f].of = fetch[f].key
  /\ \A k \in Version : Sound(part[k], k, "part", fetch) /\ Sound(entry[k], k, "entry", fetch)

\* Who has still to write a chunk goes on to, whatever name the file has now; or it is written.
LEMMA SoundStays ==
  ASSUME NEW k, NEW name, NEW name2, NEW held, NEW held2, NEW ft, NEW ft2, Sound(held, k, name, ft),
         held = Nowhere => held2 = Nowhere,
         \A c \in Chunk : held2[c] = held[c] \/ held2[c] = k,
         \A g \in Fetcher, c \in Chunk : Fills(g, k, name, ft) /\ ft[g].next <= c =>
           held2[c] = k \/ (Fills(g, k, name2, ft2) /\ ft2[g].next <= c)
  PROVE  Sound(held2, k, name2, ft2)
BY DEF Sound

LEMMA SettlingKept ==
  CacheTypeOK /\ Named /\ Settling /\ [CacheNext]_cacheVars => Settling'
<1> DEFINE Goal == /\ \A g \in Fetcher : fetch'[g].at = "copy" => fetch'[g].of = fetch'[g].key
                   /\ \A q \in Version : Sound(part'[q], q, "part", fetch') /\ Sound(entry'[q], q, "entry", fetch')
<1> SUFFICES ASSUME CacheTypeOK, Named, Settling, [CacheNext]_cacheVars, ~moved', ~broken' PROVE Goal
  BY DEF Settling
<1>0. /\ \A g \in Fetcher : fetch[g].at = "copy" => fetch[g].of = fetch[g].key
      /\ \A q \in Version : Sound(part[q], q, "part", fetch) /\ Sound(entry[q], q, "entry", fetch)
  BY CacheHistory DEF Settling
<1>1. CASE Replace \/ UNCHANGED cacheVars
  <2>1. fetch' = fetch /\ part' = part /\ entry' = entry
    BY <1>1 DEF Replace, cacheVars, files
  <2> QED
    BY <1>0, <2>1
<1>2. ASSUME NEW f \in Fetcher, Stat(f) \/ Look(f) \/ PublishFails(f) PROVE Goal
  <2>1. fetch'[f].at # "copy" /\ fetch[f].at # "copy" /\ \A g \in Fetcher \ {f} : fetch'[g] = fetch[g]
    BY <1>2, StatMoves, LookMoves, EndMoves DEF PublishFails, At
  <2>2. part' = part /\ entry' = entry
    BY <1>2 DEF Stat, Look, PublishFails, files
  <2>3. \A g \in Fetcher : \A k, name : Fills(g, k, name, fetch) => Fills(g, k, name, fetch') /\ fetch'[g] = fetch[g]
    BY <2>1 DEF Fills
  <2>4. ASSUME NEW q \in Version PROVE Sound(part'[q], q, "part", fetch') /\ Sound(entry'[q], q, "entry", fetch')
    BY <1>0, <2>2, <2>3, SoundStays
  <2> QED
    BY <1>0, <2>1, <2>4
<1>3. ASSUME NEW f \in Fetcher, Open(f) PROVE Goal
  <2> DEFINE k == fetch[f].key
  <2>1. /\ k \in Version /\ fetch[f].at = "open" /\ fetch'[f].at = "copy" /\ fetch'[f].key = k
        /\ fetch'[f].into = "part" /\ fetch'[f].of = object
        /\ \A g \in Fetcher \ {f} : fetch'[g] = fetch[g]
    BY <1>3, OpenMoves
  <2>2. fetch'[f].next = 1
    BY <1>3, OpenMoves
  <2>3. part' = [part EXCEPT ![k] = Hole]
    BY <1>3, OpenMoves
  <2>4. entry' = entry /\ object = k
    BY <1>3 DEF Open
  <2>5. part'[k] = Hole /\ \A q \in Version : q # k => part'[q] = part[q]
    BY <2>1, <2>3 DEF CacheTypeOK
  <2>6. \A g \in Fetcher : \A q, name : Fills(g, q, name, fetch) => Fills(g, q, name, fetch') /\ fetch'[g] = fetch[g]
    BY <2>1 DEF Fills
  <2>7. Sound(part'[k], k, "part", fetch')
    <3>1. Fills(f, k, "part", fetch')
      BY <2>1 DEF Fills
    <3>2. \A c \in Chunk : fetch'[f].next <= c
      BY <2>2 DEF Chunk
    <3>3. \A c \in Chunk : part'[k][c] = "nothing"
      BY <2>5 DEF Hole
    <3> QED
      BY <3>1, <3>2, <3>3 DEF Sound
  <2>8. ASSUME NEW q \in Version, q # k PROVE Sound(part'[q], q, "part", fetch')
    BY <1>0, <2>5, <2>6, <2>8, SoundStays
  <2>9. ASSUME NEW q \in Version PROVE Sound(entry'[q], q, "entry", fetch')
    BY <1>0, <2>4, <2>6, SoundStays
  <2> QED
    BY <1>0, <2>1, <2>4, <2>7, <2>8, <2>9
<1>4. ASSUME NEW f \in Fetcher, Copy(f) PROVE Goal
  <2> DEFINE k == fetch[f].key
             n == fetch[f].next
             v == fetch[f].of
  <2>1. /\ fetch[f].at = "copy" /\ k \in Version /\ n \in Chunk /\ v = k
        /\ \A g \in Fetcher \ {f} : fetch'[g] = fetch[g]
    BY <1>0, <1>4, CopyMoves
  <2>2. \/ n = 2 /\ fetch'[f].at = "publish"
        \/ /\ n = 1 /\ fetch'[f].at = "copy" /\ fetch'[f].key = k /\ fetch'[f].next = 2
           /\ fetch'[f].of = v /\ fetch'[f].into = fetch[f].into
    BY <1>4, CopyMoves
  <2>3. part' = (IF fetch[f].into = "part" THEN [part EXCEPT ![k] = [part[k] EXCEPT ![n] = k]] ELSE part)
    BY <1>4, <2>1, CopyMoves
  <2>4. entry' = (IF fetch[f].into = "entry" THEN [entry EXCEPT ![k] = [entry[k] EXCEPT ![n] = k]] ELSE entry)
    BY <1>4, <2>1, CopyMoves
  <2>5. ASSUME NEW q \in Version, NEW name, NEW held, NEW held2, Sound(held, q, name, fetch),
               held = Nowhere => held2 = Nowhere, held2 = held \/ q = k,
               \A c \in Chunk : held2[c] = held[c] \/ held2[c] = q,
               q = k /\ fetch[f].into = name => held2[n] = k
        PROVE  Sound(held2, q, name, fetch')
    <3>1. ASSUME NEW g \in Fetcher, NEW c \in Chunk, Fills(g, q, name, fetch), fetch[g].next <= c
          PROVE  held2[c] = q \/ (Fills(g, q, name, fetch') /\ fetch'[g].next <= c)
      <4>1. CASE g # f
        BY <2>1, <3>1, <4>1 DEF Fills
      <4>2. CASE g = f /\ c = n
        BY <2>5, <3>1, <4>2 DEF Fills
      <4>3. CASE g = f /\ c # n
        <5>1. n = 1 /\ c = 2
          BY <2>1, <3>1, <4>3 DEF Chunk
        <5>2. fetch'[f].at = "copy" /\ fetch'[f].key = k /\ fetch'[f].into = fetch[f].into
          BY <2>2, <5>1
        <5>3. fetch'[f].next = 2
          BY <2>2, <5>1
        <5>4. fetch'[g].next <= c
          BY <4>3, <5>1, <5>3
        <5> QED
          BY <3>1, <4>3, <5>2, <5>4 DEF Fills
      <4> QED
        BY <4>1, <4>2, <4>3
    <3> QED
      BY <2>5, <3>1, SoundStays
  <2>6. k \in Version /\ (fetch[f].into = "part" => part[k] \in Held) /\ (fetch[f].into = "entry" => entry[k] \in Held)
    BY <2>1, HeldType DEF Named
  <2>7. ASSUME NEW q \in Version PROVE Sound(part'[q], q, "part", fetch')
    <3>1. CASE q = k /\ fetch[f].into = "part"
      <4>1. part'[k] = [part[k] EXCEPT ![n] = k]
        BY <2>1, <2>3, <3>1 DEF CacheTypeOK
      <4>2. /\ part'[k][n] = k /\ \A c \in Chunk : part'[k][c] = part[k][c] \/ part'[k][c] = k
            /\ part[k] # Nowhere
        BY <2>1, <2>6, <3>1, <4>1, ChunkWritten, HeldType
      <4> QED
        BY <1>0, <2>5, <3>1, <4>2
    <3>2. CASE ~(q = k /\ fetch[f].into = "part")
      <4>1. part'[q] = part[q]
        BY <2>3, <3>2 DEF CacheTypeOK
      <4> QED
        BY <1>0, <2>5, <3>2, <4>1
    <3> QED
      BY <3>1, <3>2
  <2>8. ASSUME NEW q \in Version PROVE Sound(entry'[q], q, "entry", fetch')
    <3>1. CASE q = k /\ fetch[f].into = "entry"
      <4>1. entry'[k] = [entry[k] EXCEPT ![n] = k]
        BY <2>1, <2>4, <3>1 DEF CacheTypeOK
      <4>2. /\ entry'[k][n] = k /\ \A c \in Chunk : entry'[k][c] = entry[k][c] \/ entry'[k][c] = k
            /\ entry[k] # Nowhere
        BY <2>1, <2>6, <3>1, <4>1, ChunkWritten, HeldType
      <4> QED
        BY <1>0, <2>5, <3>1, <4>2
    <3>2. CASE ~(q = k /\ fetch[f].into = "entry")
      <4>1. entry'[q] = entry[q]
        BY <2>4, <3>2 DEF CacheTypeOK
      <4> QED
        BY <1>0, <2>5, <3>2, <4>1
    <3> QED
      BY <3>1, <3>2
  <2>9. ASSUME NEW g \in Fetcher, fetch'[g].at = "copy" PROVE fetch'[g].of = fetch'[g].key
    BY <1>0, <2>1, <2>2, <2>9
  <2> QED
    BY <2>7, <2>8, <2>9
<1>5. ASSUME NEW f \in Fetcher, Publish(f) PROVE Goal
  <2> DEFINE k == fetch[f].key
  <2>1. fetch[f].at = "publish" /\ k \in Version /\ fetch'[f].at = "idle"
    BY <1>5, PublishMoves
  <2>2. entry' = [entry EXCEPT ![k] = part[k]] /\ part' = [part EXCEPT ![k] = Nowhere]
    BY <1>5, PublishMoves
  <2>3. part'[k] = Nowhere /\ entry'[k] = part[k] /\ \A q \in Version : q # k => part'[q] = part[q] /\ entry'[q] = entry[q]
    BY <2>1, <2>2 DEF CacheTypeOK
  <2>4. ASSUME NEW g \in Fetcher \ {f}
        PROVE  \/ fetch'[g] = fetch[g]
                  /\ ~(fetch[g].at = "copy" /\ fetch[g].key = k /\ fetch[g].into \in {"part", "entry"})
               \/ /\ fetch[g].at = "copy" /\ fetch[g].key = k
                  /\ fetch'[g].at = "copy" /\ fetch'[g].key = fetch[g].key /\ fetch'[g].of = fetch[g].of
                  /\ fetch'[g].next = fetch[g].next
                  /\ \/ fetch[g].into = "part" /\ fetch'[g].into = "entry"
                     \/ fetch[g].into = "entry" /\ fetch'[g].into = "no name"
    BY <1>5, PublishMoves
  <2>5. \A g \in Fetcher : \A q, name : q # k /\ Fills(g, q, name, fetch) => Fills(g, q, name, fetch') /\ fetch'[g] = fetch[g]
    BY <2>1, <2>4 DEF Fills
  <2>6. \A g \in Fetcher : Fills(g, k, "part", fetch) => Fills(g, k, "entry", fetch') /\ fetch'[g].next = fetch[g].next
    BY <2>1, <2>4 DEF Fills
  <2>7. Sound(part'[k], k, "part", fetch')
    BY <2>3 DEF Sound
  <2>8. Sound(entry'[k], k, "entry", fetch')
    BY <1>0, <2>1, <2>3, <2>6, SoundStays
  <2>9. ASSUME NEW q \in Version, q # k
        PROVE  Sound(part'[q], q, "part", fetch') /\ Sound(entry'[q], q, "entry", fetch')
    BY <1>0, <2>3, <2>5, <2>9, SoundStays
  <2>10. ASSUME NEW g \in Fetcher, fetch'[g].at = "copy" PROVE fetch'[g].of = fetch'[g].key
    BY <1>0, <2>1, <2>4, <2>10
  <2> QED
    BY <2>7, <2>8, <2>9, <2>10
<1>6. ASSUME NEW f \in Fetcher, FetchFails(f) \/ Die(f) PROVE Goal
  BY <1>6 DEF FetchFails, Die
<1> QED
  BY <1>1, <1>2, <1>3, <1>4, <1>5, <1>6 DEF CacheNext

-----------------------------------------------------------------------------
(* The theorems                                                            *)

CacheInv == CacheTypeOK /\ Named /\ Unshared /\ Settling

LEMMA CacheInitially == CacheInit => CacheInv
<1> SUFFICES ASSUME CacheInit PROVE CacheInv
  OBVIOUS
<1>1. CacheTypeOK
  <2>1. fetch \in [Fetcher -> Fetch]
    BY DEF CacheInit, NoFetch, Fetch
  <2>2. entry \in [Version -> Held \cup {Nowhere}] /\ part \in [Version -> Held \cup {Nowhere}]
    BY DEF CacheInit
  <2>3. object \in Version /\ shared \in BOOLEAN /\ moved \in BOOLEAN /\ broken \in BOOLEAN
    BY CacheAssumption DEF CacheInit
  <2>4. calls \in 0..MaxCalls
    <3>1. calls = 0
      BY DEF CacheInit
    <3>2. MaxCalls \in Nat
      BY CacheAssumption
    <3> QED
      BY <3>1, <3>2
  <2> QED
    BY <2>1, <2>2, <2>3, <2>4 DEF CacheTypeOK
<1>2. \A f \in Fetcher : fetch[f].at = "idle"
  BY DEF CacheInit, NoFetch
<1>3. \A k \in Version : part[k] = Nowhere /\ entry[k] = Nowhere
  BY DEF CacheInit
<1>4. Named /\ Settling
  BY <1>2, <1>3 DEF Named, Settling, Sound
<1>5. Unshared
  BY <1>2, <1>3 DEF Unshared, OneEach, Busy, CopyOK, CopiedOK, EntryOK
<1> QED
  BY <1>1, <1>4, <1>5 DEF CacheInv

LEMMA CacheInvariant == CacheSpec => []CacheInv
<1>1. CacheInv /\ [CacheNext]_cacheVars => CacheInv'
  BY CacheTypesKept, AloneKept, SettlingKept DEF CacheInv
<1> QED
  BY <1>1, CacheInitially, PTL DEF CacheSpec

\* Every variable of the cache stays in its type.
THEOREM CacheTyped == CacheSpec => []CacheTypeOK
<1>1. CacheInv => CacheTypeOK
  BY DEF CacheInv
<1> QED
  BY <1>1, CacheInvariant, PTL

\* However many processes fetch, fail and die: as long as no two fetched under one key, a
\* reader sees no entry or a complete one.
THEOREM AloneSeesComplete == CacheSpec => []AloneIsComplete
<1>1. CacheInv => AloneIsComplete
  BY DEF CacheInv, Unshared, EntryOK, Uniform, AloneIsComplete, Cached, Holds
<1> QED
  BY <1>1, CacheInvariant, PTL

\* However many processes write one partial file and rename it under each other: when the last
\* of them has ended, and none failed and no object changed meanwhile, every entry is right.
THEOREM SettledTells == CacheSpec => []SettledIsTrue
<1>1. CacheInv => SettledIsTrue
  <2> SUFFICES ASSUME CacheInv, ~moved, ~broken, \A f \in Fetcher : fetch[f].at # "copy", NEW k \in Version, entry[k] # Nowhere
               PROVE  entry[k] = [c \in Chunk |-> k]
    BY DEF SettledIsTrue, Cached, Holds, At
  <2>1. \A c \in Chunk : entry[k][c] = k
    BY DEF CacheInv, Settling, Sound, Fills
  <2>2. entry[k] \in Held
    BY HeldType DEF CacheInv
  <2> QED
    BY <2>1, <2>2 DEF Held
<1> QED
  BY <1>1, CacheInvariant, PTL

-----------------------------------------------------------------------------
(* What a reader is promised                                               *)

LEMMA EntriesInitially == CacheInit => Entries!Init
BY DEF CacheInit, Entries!Init

\* While no two processes fetched under one key, a step leaves the entries as they are or puts
\* a whole object under a key.
LEMMA EntriesStep ==
  ASSUME CacheInv, [CacheNext]_cacheVars, ~shared'
  PROVE  [Entries!Publish]_entry
<1>0. CacheTypeOK /\ \A f \in Fetcher : CopyOK(f) /\ CopiedOK(f)
  BY CacheHistory DEF CacheInv, Unshared
<1>1. CASE Replace \/ UNCHANGED cacheVars
  BY <1>1 DEF Replace, cacheVars, files
<1>2. ASSUME NEW f \in Fetcher, Stat(f) \/ Look(f) \/ Open(f) \/ PublishFails(f) \/ FetchFails(f) \/ Die(f)
      PROVE  entry' = entry
  BY <1>2 DEF Stat, Look, Open, PublishFails, FetchFails, Die, files
<1>3. ASSUME NEW f \in Fetcher, Copy(f) PROVE entry' = entry
  <2>1. fetch[f].at = "copy" /\ fetch[f].into # "entry"
    BY <1>0, <1>3, CopyMoves DEF CopyOK
  <2> QED
    BY <1>3, <2>1 DEF Copy
<1>4. ASSUME NEW f \in Fetcher, Publish(f) PROVE Entries!Publish
  <2>1. PICK k \in Version : k = fetch[f].key
    BY <1>0, <1>4, PublishMoves
  <2>2. fetch[f].at = "publish" /\ part[k] # Nowhere /\ entry' = [entry EXCEPT ![k] = part[k]]
    BY <1>0, <1>4, <2>1, PublishMoves
  <2>3. PICK v \in Version : part[k] = [c \in Chunk |-> v]
    BY <1>0, <2>1, <2>2 DEF CopiedOK, Uniform
  <2> QED
    BY <2>2, <2>3 DEF Entries!Publish
<1> QED
  BY <1>1, <1>2, <1>3, <1>4 DEF CacheNext

\* However many processes fetch, fail and die, and whenever the object is replaced: as long as
\* no two fetched under one key, an entry is only ever replaced by a whole object, in one step.
THEOREM PublishesWholes == CacheSpec => [][shared' \/ Entries!Publish]_entry
<1>1. CacheInv /\ [CacheNext]_cacheVars => [shared' \/ Entries!Publish]_entry
  BY EntriesStep
<1>2. CacheInv /\ [CacheNext]_cacheVars => CacheInv'
  BY CacheTypesKept, AloneKept, SettlingKept DEF CacheInv
<1> QED
  BY <1>1, <1>2, CacheInitially, PTL DEF CacheSpec

\* The cache of one process, that may fail and die and be started again at any point, implements
\* CacheView.
THEOREM ImplementsEntries ==
  ASSUME NEW f, Fetcher = {f}
  PROVE  CacheSpec => ShowsWholeObjects
<1>1. CacheInit => ~shared
  BY DEF CacheInit
<1>2. ~shared /\ [CacheNext]_cacheVars => ~shared'
  <2> SUFFICES ASSUME ~shared, [CacheNext]_cacheVars PROVE ~shared'
    OBVIOUS
  <2>1. ASSUME NEW g \in Fetcher, Open(g) PROVE ~shared'
    BY <2>1 DEF Open
  <2>2. ASSUME NEW g \in Fetcher, \/ Stat(g) \/ Look(g) \/ Copy(g) \/ Publish(g)
                                  \/ PublishFails(g) \/ FetchFails(g) \/ Die(g)
        PROVE  ~shared'
    BY <2>2 DEF Stat, Look, Copy, Publish, PublishFails, FetchFails, Die, past
  <2>3. CASE Replace \/ UNCHANGED cacheVars
    BY <2>3 DEF Replace, cacheVars, past
  <2> QED
    BY <2>1, <2>2, <2>3 DEF CacheNext
<1>3. CacheInv /\ ~shared' /\ [CacheNext]_cacheVars => [Entries!Publish]_entry
  BY EntriesStep
<1>4. CacheInv /\ [CacheNext]_cacheVars => CacheInv'
  BY CacheTypesKept, AloneKept, SettlingKept DEF CacheInv
<1> QED
  BY <1>1, <1>2, <1>3, <1>4, CacheInitially, EntriesInitially, PTL
  DEF CacheSpec, Entries!Spec, ShowsWholeObjects

=============================================================================
