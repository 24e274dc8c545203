---------------------------- MODULE PipelineExec ----------------------------
(***************************************************************************)
(* Running a validated pipeline (_util/safe_exec.py, run_segments, for two *)
(* segments or more): start the segments one after the other, write the    *)
(* input to the first, wait for the last under the deadline, and then for  *)
(* each of the others a few seconds.                                       *)
(*                                                                         *)
(* The segments are programs that read, end or go on as they like, so only *)
(* what the call itself waits for is kept: which of them run, and how full *)
(* the pipe to the first one is.  To kill one ends it at once.             *)
(***************************************************************************)
EXTENDS Integers

CONSTANTS Segments,   \* how many
          PipeRoom,   \* units of input the pipe holds
          MaxInput    \* bound: units of input

ASSUME PipelineAssumption ==
  Segments \in Nat \ {0, 1} /\ PipeRoom \in Nat \ {0} /\ MaxInput \in Nat

VARIABLES parent,   \* where run_segments is
          turn,     \* the segment it starts or waits for
          proc,     \* the segments
          given,    \* units of input
          fed,      \* units of it that were written
          unread    \* units in the pipe to the first segment

pipelineVars == <<parent, turn, proc, given, fed, unread>>

Segment == 1..Segments

PipelineInit ==
  /\ parent = "called" /\ turn = 1 /\ proc = [i \in Segment |-> "none"]
  /\ given = 0 /\ fed = 0 /\ unread = 0

-----------------------------------------------------------------------------

Running == {i \in Segment : proc[i] = "running"}
Killed  == [i \in Segment |-> IF i \in Running THEN "ended" ELSE proc[i]]
Pipe    == <<given, fed, unread>>

Call ==
  /\ parent = "called" /\ parent' = "starting" /\ given' \in 0..MaxInput
  /\ UNCHANGED <<turn, proc, fed, unread>>

StartSegment ==
  /\ parent = "starting" /\ proc' = [proc EXCEPT ![turn] = "running"]
  /\ IF turn = Segments
     THEN turn' = 1 /\ parent' = IF given > 0 THEN "feeding" ELSE "waiting"
     ELSE turn' = turn + 1 /\ parent' = parent
  /\ UNCHANGED Pipe

KillsLast == \* Mutation: only the segment that was waited for is killed
  proc' = [proc EXCEPT ![Segments] = IF @ = "running" THEN "ended" ELSE @]
Kills == proc' = Killed

\* except OSError: no such program, or the first segment has ended or closed its input.
StartFails ==
  /\ parent = "starting" /\ parent' = "failed" /\ Kills /\ UNCHANGED <<turn, Pipe>>

FeedBreaks ==
  /\ parent = "feeding" /\ parent' = "failed" /\ Kills /\ UNCHANGED <<turn, Pipe>>

\* procs[0].stdin.write: waits for room, and no deadline runs yet.
Feed ==
  /\ parent = "feeding" /\ unread < PipeRoom
  /\ unread' = unread + 1 /\ fed' = fed + 1
  /\ parent' = IF fed + 1 = given THEN "waiting" ELSE parent
  /\ UNCHANGED <<turn, proc, given>>

\* communicate
LastEnded ==
  /\ parent = "waiting" /\ Segments \notin Running /\ parent' = "reaping" /\ turn' = 1
  /\ UNCHANGED <<proc, Pipe>>

\* The output is not text: a UnicodeDecodeError, which nothing catches.
OutputRaises ==
  /\ parent = "waiting" /\ Segments \notin Running /\ parent' = "raised"
  /\ UNCHANGED <<turn, proc, Pipe>>

DeadlineNever == FALSE /\ UNCHANGED pipelineVars \* Mutation: communicate has no timeout
Deadline ==
  /\ parent = "waiting" /\ parent' = "deadline" /\ Kills /\ UNCHANGED <<turn, Pipe>>

\* p.wait(timeout=5), for all but the last.
Reap ==
  /\ parent = "reaping" /\ turn \notin Running
  /\ IF turn = Segments - 1 THEN parent' = "returned" /\ turn' = turn
                            ELSE parent' = parent /\ turn' = turn + 1
  /\ UNCHANGED <<proc, Pipe>>

\* ... whose TimeoutExpired nothing catches.
ReapTimesOut ==
  /\ parent = "reaping" /\ turn \in Running /\ parent' = "raised" /\ UNCHANGED <<turn, proc, Pipe>>

SegmentReads ==
  /\ 1 \in Running /\ unread > 0 /\ unread' = unread - 1
  /\ UNCHANGED <<parent, turn, proc, given, fed>>

SegmentEnds ==
  /\ \E i \in Running : proc' = [proc EXCEPT ![i] = "ended"]
  /\ UNCHANGED <<parent, turn, Pipe>>

ParentStep ==
  \/ Call \/ StartSegment \/ StartFails \/ Feed \/ (1 \notin Running /\ FeedBreaks)
  \/ LastEnded \/ OutputRaises \/ Deadline \/ Reap \/ ReapTimesOut
SegmentStep  == SegmentReads \/ SegmentEnds \/ FeedBreaks
PipelineNext == ParentStep \/ SegmentStep

\* The parent is scheduled and its timers go off; of the segments nothing is assumed.
PipelineSpec == PipelineInit /\ [][PipelineNext]_pipelineVars /\ WF_pipelineVars(ParentStep)

-----------------------------------------------------------------------------
(* Properties                                                              *)

Returned == {"returned", "failed", "deadline"}
Ended    == Returned \cup {"raised"}

\* Every variable stays in its type.
PipelineTypeOK ==
  /\ parent \in {"called", "starting", "feeding", "waiting", "reaping"} \cup Ended
  /\ turn \in Segment /\ proc \in [Segment -> {"none", "running", "ended"}]
  /\ given \in 0..MaxInput /\ fed \in 0..given /\ unread \in 0..PipeRoom

\* A call that returns leaves no segment running, whether it succeeded, met its deadline, or
\* could not start or feed them all; only an exception that nothing catches leaves some.
ReturnLeavesNothing == parent \in Returned => Running = {}

\* Whatever the segments do or do not do, a call comes to an end if its input fits the pipe
\* to the first of them.
CallEnds == (parent = "starting" /\ given <= PipeRoom) ~> (parent \in Ended)

=============================================================================
