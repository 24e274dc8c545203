---------------------------- MODULE RemoteCache ----------------------------
(***************************************************************************)
(* The cache of remote objects (storage.py, localize): a process asks the  *)
(* store for the object's validator, looks whether the cache has an entry  *)
(* under it, and if not fetches the object into a partial file beside the  *)
(* entry and renames that.                                                 *)
(*                                                                         *)
(* The partial file's name is a function of the key, so two processes that *)
(* fetch one object write one file; and what is fetched is what the object *)
(* is by then.  A process that has opened a file goes on writing it under  *)
(* whatever name it has: the partial file's, the entry's after a rename,   *)
(* or none.                                                                *)
(*                                                                         *)
(* One object that is a file, transferred in two chunks.  Its validator is *)
(* abstracted to its version, so an object that is changed back has its    *)
(* old validator again (an etag is a digest of the content).               *)
(***************************************************************************)
EXTENDS Integers

CONSTANTS Fetcher,    \* processes
          Version,    \* of the object
          First,      \* the version it has at first
          MaxCalls    \* bound: calls of localize

ASSUME CacheAssumption ==
  First \in Version /\ MaxCalls \in Nat /\ Version \cap {"no file", "nothing"} = {}

VARIABLES object,    \* the version in the store
          entry,     \* what the file at dest holds, by key and chunk
          part,      \* what the partial file holds
          fetch,     \* what each process is doing
          calls,     \* calls of localize so far
          shared,    \* history: two processes fetched under one key
          moved,     \* history: an object changed between validator and fetch
          broken     \* history: a fetch failed or died

files     == <<entry, part>>
past      == <<shared, moved, broken>>
cacheVars == <<object, files, fetch, calls, past>>

Chunk   == 1..2
Nowhere == [c \in Chunk |-> "no file"]
Hole    == [c \in Chunk |-> "nothing"]
Held    == [Chunk -> Version \cup {"nothing"}]
NoFetch == [at |-> "idle"]
Fetch   == [at : {"idle"}]
             \cup [at : {"look"}, key : Version, refresh : BOOLEAN]
             \cup [at : {"open", "publish"}, key : Version]
             \cup [at : {"copy"}, key : Version, of : Version,
                   into : {"part", "entry", "no name"}, next : Chunk]

CacheInit ==
  /\ object = First
  /\ entry = [k \in Version |-> Nowhere] /\ part = [k \in Version |-> Nowhere]
  /\ fetch = [f \in Fetcher |-> NoFetch] /\ calls = 0
  /\ shared = FALSE /\ moved = FALSE /\ broken = FALSE

-----------------------------------------------------------------------------

At(f, point)   == fetch[f].at = point
GoOn(f, state) == fetch' = [fetch EXCEPT ![f] = state]

\* f goes on to a state, and what had a name got another: those who write it follow.
Renamed(f, state, becomes) ==
  fetch' = [g \in Fetcher |->
    IF g = f THEN state
    ELSE IF At(g, "copy") /\ fetch[g].key = fetch[f].key /\ fetch[g].into \in DOMAIN becomes
         THEN [fetch[g] EXCEPT !.into = becomes[@]] ELSE fetch[g]]

\* _validator
Stat(f) ==
  /\ At(f, "idle") /\ calls < MaxCalls /\ calls' = calls + 1
  /\ \E r \in BOOLEAN : GoOn(f, [at |-> "look", key |-> object, refresh |-> r])
  /\ UNCHANGED <<object, files, past>>

\* dest.exists() and not refresh
Look(f) ==
  /\ At(f, "look")
  /\ IF entry[fetch[f].key] # Nowhere /\ ~fetch[f].refresh
     THEN GoOn(f, NoFetch) ELSE GoOn(f, [at |-> "open", key |-> fetch[f].key])
  /\ UNCHANGED <<object, calls, files, past>>

OpenInPlace(f) == \* Mutation: the object is fetched into the entry itself
  LET k == fetch[f].key
  IN /\ At(f, "open")
     /\ entry' = [entry EXCEPT ![k] = Hole]
     /\ GoOn(f, [at |-> "copy", key |-> k, of |-> object, into |-> "entry", next |-> 1])
     /\ moved' = (moved \/ object # k)
     /\ UNCHANGED <<object, calls, part, shared, broken>>

\* get_file opens the remote object and, emptying it, the partial file.
Open(f) ==
  LET k == fetch[f].key
  IN /\ At(f, "open")
     /\ part' = [part EXCEPT ![k] = Hole]
     /\ GoOn(f, [at |-> "copy", key |-> k, of |-> object, into |-> "part", next |-> 1])
     /\ shared' = (shared \/ \E g \in Fetcher \ {f} :
                               fetch[g].at \in {"copy", "publish"} /\ fetch[g].key = k)
     /\ moved' = (moved \/ object # k)
     /\ UNCHANGED <<object, calls, entry, broken>>

Copy(f) ==
  LET k == fetch[f].key
      Write(held) == [held EXCEPT ![k] = [@ EXCEPT ![fetch[f].next] = fetch[f].of]]
  IN /\ At(f, "copy")
     /\ part' = IF fetch[f].into = "part" THEN Write(part) ELSE part
     /\ entry' = IF fetch[f].into = "entry" THEN Write(entry) ELSE entry
     /\ GoOn(f, IF fetch[f].next = 2 THEN [at |-> "publish", key |-> k]
                                     ELSE [fetch[f] EXCEPT !.next = 2])
     /\ UNCHANGED <<object, calls, past>>

PublishCopies(f) == \* Mutation: the partial file is copied, not renamed
  LET k == fetch[f].key
  IN /\ At(f, "publish") /\ part[k] # Nowhere
     /\ entry' = [entry EXCEPT ![k] = part[k]] /\ GoOn(f, NoFetch)
     /\ UNCHANGED <<object, calls, part, past>>

\* tmp.replace(dest)
Publish(f) ==
  LET k == fetch[f].key
  IN /\ At(f, "publish") /\ part[k] # Nowhere
     /\ entry' = [entry EXCEPT ![k] = part[k]] /\ part' = [part EXCEPT ![k] = Nowhere]
     /\ Renamed(f, NoFetch, [part |-> "entry", entry |-> "no name"])
     /\ UNCHANGED <<object, calls, past>>

\* ... of a partial file that another process has renamed or removed: FileNotFoundError.
PublishFails(f) ==
  /\ At(f, "publish") /\ part[fetch[f].key] = Nowhere /\ GoOn(f, NoFetch)
  /\ UNCHANGED <<object, calls, files, past>>

\* The store fails; the partial file is removed, whoever is writing it.
FetchFails(f) ==
  /\ fetch[f].at \in {"open", "copy"} /\ broken' = TRUE
  /\ part' = [part EXCEPT ![fetch[f].key] = Nowhere]
  /\ Renamed(f, NoFetch, [part |-> "no name"])
  /\ UNCHANGED <<object, calls, entry, shared, moved>>

\* The process ends; the next one to take its place finds what it left.
Die(f) ==
  /\ ~At(f, "idle") /\ GoOn(f, NoFetch) /\ broken' = TRUE
  /\ UNCHANGED <<object, calls, files, shared, moved>>

\* Whoever owns the object replaces it.
Replace ==
  /\ \E v \in Version \ {object} : object' = v
  /\ UNCHANGED <<files, fetch, calls, past>>

CacheNext == Replace \/ \E f \in Fetcher :
  Stat(f) \/ Look(f) \/ Open(f) \/ Copy(f) \/ Publish(f) \/ PublishFails(f) \/ FetchFails(f) \/ Die(f)

CacheSpec == CacheInit /\ [][CacheNext]_cacheVars

-----------------------------------------------------------------------------
(* Properties                                                              *)

\* Every variable stays in its type.
CacheTypeOK ==
  /\ object \in Version
  /\ entry \in [Version -> Held \cup {Nowhere}] /\ part \in [Version -> Held \cup {Nowhere}]
  /\ fetch \in [Fetcher -> Fetch] /\ calls \in 0..MaxCalls
  /\ shared \in BOOLEAN /\ moved \in BOOLEAN /\ broken \in BOOLEAN

Cached   == {k \in Version : entry[k] # Nowhere}
Holds(k, v) == entry[k] = [c \in Chunk |-> v]

\* "a reader either sees no cache entry or a complete one" (localize): wherever fetches fail
\* or die and whatever they leave, while no two processes fetch under one key.
AloneIsComplete == ~shared => \A k \in Cached : \E v \in Version : Holds(k, v)

\* Once every fetch has ended, an entry is the object its validator stands for, also where
\* processes wrote one partial file and renamed it under each other - if none of them failed
\* or died, and no object changed between its validator and its fetch.
SettledIsTrue ==
  (~moved /\ ~broken /\ \A f \in Fetcher : ~At(f, "copy")) => \A k \in Cached : Holds(k, k)

Entries == INSTANCE CacheView
  WITH Key <- Version, Whole <- {[c \in Chunk |-> v] : v \in Version}, None <- Nowhere, shown <- entry

\* "Atomic publish", of one process that fetches after another: no reader ever finds an entry
\* that is not whole, or that was and is no more.
ShowsWholeObjects == Entries!Spec

=============================================================================
