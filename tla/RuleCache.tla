----------------------------- MODULE RuleCache -----------------------------
(***************************************************************************)
(* The cache of rule packs (adapters/yara.py and opengrep.py,              *)
(* resolve_rules): one clone per pack and pinned commit, in a directory    *)
(* every scan of the machine uses.  A scan trusts the clone if its HEAD is *)
(* the pin and its worktree clean, or else removes it, clones again and    *)
(* looks once more; then it lists the rule files and runs over them.       *)
(*                                                                         *)
(* A pack is two files and the commit HEAD is at.  The branch that a clone *)
(* checks out (the tip) has other files than the pin.  Nobody is locked    *)
(* out: the directory may be changed, by a scan or a person, at any time.  *)
(* A scan that dies takes its git with it.                                 *)
(***************************************************************************)
EXTENDS Integers

CONSTANTS Scanner,    \* processes that scan with the pack
          MaxScans    \* bound: scans

ASSUME RuleAssumption == MaxScans \in Nat

VARIABLES pack,      \* the directory of the clone
          scan,      \* what each process is doing
          scans,     \* scans so far
          crowded,   \* history: a scan wrote the clone while another was under way
          touched    \* history: a file was edited while a scan had verified the pack

packVars == <<pack, scan, scans, crowded, touched>>

PackFile == 1..2
Content  == {"gone", "tip", "pin", "edited"}
NoPack   == [there |-> FALSE, head |-> "none", file |-> [f \in PackFile |-> "gone"]]
Pack     == [there : BOOLEAN, head : {"none", "tip", "pin"}, file : [PackFile -> Content]]
NoScan   == [at |-> "idle"]
ScanState == [at : {"idle", "look", "remove", "make", "move head"}]
               \cup [at : {"head", "status"}, fresh : BOOLEAN]
               \cup [at : {"clone", "checkout"}, next : PackFile]
               \cup [at : {"list"}]
               \cup [at : {"run"}, files : SUBSET PackFile]
               \cup [at : {"done"}, used : [PackFile -> Content]]

PackInit ==
  /\ pack = NoPack /\ scan = [s \in Scanner |-> NoScan] /\ scans = 0
  /\ crowded = FALSE /\ touched = FALSE

-----------------------------------------------------------------------------

ScanAt(s, point) == scan[s].at = point
ScanTo(s, state) == scan' = [scan EXCEPT ![s] = state]
Step(s, from, to) == /\ ScanAt(s, from) /\ ScanTo(s, to)
                     /\ UNCHANGED <<scans, touched>>
Reads(s, from, to)  == Step(s, from, to) /\ UNCHANGED <<pack, crowded>>
Writes(s, from, to) ==
  Step(s, from, to) /\ crowded' = (crowded \/ \E t \in Scanner \ {s} : ~ScanAt(t, "idle"))
Put(f, content) == pack' = [pack EXCEPT !.file[f] = content]

BeginScan(s) ==
  /\ ScanAt(s, "idle") /\ scans < MaxScans /\ scans' = scans + 1
  /\ ScanTo(s, [at |-> "look"]) /\ UNCHANGED <<pack, crowded, touched>>

\* dest.is_dir()
LookForPack(s) ==
  Reads(s, "look", IF pack.there THEN [at |-> "head", fresh |-> FALSE] ELSE [at |-> "make"])

\* _cache_ok fails: a clone that was found is discarded, a fresh one refused.
Distrust(s) == IF scan[s].fresh THEN NoScan ELSE [at |-> "remove"]

\* rev-parse HEAD
CheckHead(s) ==
  Reads(s, "head", IF pack.head = "pin" THEN [at |-> "status", fresh |-> scan[s].fresh]
                                        ELSE Distrust(s))

HeadSuffices(s) == \* Mutation: the worktree is not looked at
  Reads(s, "status", [at |-> "list"])

\* status --porcelain
CheckStatus(s) ==
  Reads(s, "status", IF \A f \in PackFile : pack.file[f] = pack.head THEN [at |-> "list"]
                                                                     ELSE Distrust(s))

\* shutil.rmtree, in whatever order it finds things ...
Remove(s) ==
  /\ Writes(s, "remove", scan[s])
  /\ \/ \E f \in PackFile : pack.file[f] # "gone" /\ Put(f, "gone")
     \/ pack.head # "none" /\ pack' = [pack EXCEPT !.head = "none"]

\* ... and the directory when it is empty.
Removed(s) ==
  /\ Writes(s, "remove", [at |-> "make"])
  /\ pack = [NoPack EXCEPT !.there = TRUE] /\ pack' = NoPack

\* git clone makes the directory, and HEAD with what it fetched, then the files.
MakePack(s) ==
  /\ Writes(s, "make", [at |-> "clone", next |-> 1])
  /\ ~pack.there /\ pack' = [NoPack EXCEPT !.there = TRUE, !.head = "tip"]

CloneFile(s) ==
  /\ Writes(s, "clone", IF scan[s].next = 2 THEN [at |-> "checkout", next |-> 1]
                                            ELSE [at |-> "clone", next |-> 2])
  /\ pack.there /\ Put(scan[s].next, "tip")

\* git checkout writes the files that differ, then HEAD.
CheckoutFile(s) ==
  /\ Writes(s, "checkout", IF scan[s].next = 2 THEN [at |-> "move head"]
                                               ELSE [at |-> "checkout", next |-> 2])
  /\ pack.there /\ Put(scan[s].next, "pin")

MoveHead(s) ==
  /\ Writes(s, "move head", [at |-> "head", fresh |-> TRUE])
  /\ pack.there /\ pack' = [pack EXCEPT !.head = "pin"]

\* git fails, for want of the network or because the directory is there or is not any longer
\* there; a clone that fails removes what bears the name of its directory.
GitFails(s) ==
  \E point \in {"make", "clone", "checkout", "move head"} :
    Writes(s, point, NoScan) /\ pack' = IF point = "clone" THEN NoPack ELSE pack

\* discover_rule_files; without any the scan raises.
ListRules(s) ==
  LET files == {f \in PackFile : pack.file[f] # "gone"}
  IN Reads(s, "list", IF files = {} THEN NoScan ELSE [at |-> "run", files |-> files])

\* The engine reads what was listed, and fails if a file of it is gone.
RunRules(s) ==
  LET used == [f \in PackFile |-> IF f \in scan[s].files THEN pack.file[f] ELSE "gone"]
  IN Reads(s, "run", IF \E f \in scan[s].files : used[f] = "gone" THEN NoScan
                     ELSE [at |-> "done", used |-> used])

\* The scan returns its report, which says the pinned commit; or dies, wherever it is.
EndScan(s) == ~ScanAt(s, "idle") /\ ScanTo(s, NoScan) /\ UNCHANGED <<pack, scans, crowded, touched>>

\* A person, or a program they ran, changes or removes a file of the clone.
Edit ==
  /\ pack.there /\ \E f \in PackFile, c \in {"gone", "edited"} : pack.file[f] # c /\ Put(f, c)
  /\ touched' = (touched \/ \E s \in Scanner : scan[s].at \in {"list", "run"})
  /\ UNCHANGED <<scan, scans, crowded>>

PackNext == Edit \/ \E s \in Scanner :
  \/ BeginScan(s) \/ LookForPack(s) \/ CheckHead(s) \/ CheckStatus(s) \/ Remove(s) \/ Removed(s)
  \/ MakePack(s) \/ CloneFile(s) \/ CheckoutFile(s) \/ MoveHead(s) \/ GitFails(s)
  \/ ListRules(s) \/ RunRules(s) \/ EndScan(s)
PackSpec == PackInit /\ [][PackNext]_packVars

-----------------------------------------------------------------------------
(* Properties                                                              *)

\* Every variable stays in its type.
PackTypeOK ==
  /\ pack \in Pack /\ scan \in [Scanner -> ScanState] /\ scans \in 0..MaxScans
  /\ crowded \in BOOLEAN /\ touched \in BOOLEAN

\* A scan whose report says the pinned commit used every rule of it and nothing else, whatever
\* a death or a failed git has left of the clone, or an edit made of it, before it was verified,
\* and however scans overlap; unless one of them wrote the clone while another was under way,
\* or a file was edited between the verification and the run.
ReportedPinWasUsed ==
  (~crowded /\ ~touched) =>
    \A s \in Scanner : ScanAt(s, "done") => scan[s].used = [f \in PackFile |-> "pin"]

=============================================================================
