----------------------------- MODULE Endurance -----------------------------
(***************************************************************************)
(* The endurance runner (experiments/endurance.py): a long simulation in   *)
(* chunks of days, each an agent arm (run_agent_arm of experiments/ab.py)  *)
(* with a database of its own, and a checkpoint between any two.  The      *)
(* process may be killed at any step, a chunk may raise, and the run is    *)
(* resumed by hand, sometimes with the wrong parameters.                   *)
(*                                                                         *)
(* Of the counters a chunk adds up the model keeps one, the days it ran.   *)
(***************************************************************************)
EXTENDS Integers, FiniteSets

CONSTANTS
  Runs,       \* the parameters the runner is started with: [days, chunk]
  MaxKills,   \* bound: kills
  MaxFaults,  \* bound: chunks that raise
  NoFile      \* there is no such file

Run == [days : Nat \ {0}, chunk : Nat \ {0}]
Record == [run : Runs, next : Nat, days : Nat, exceptions : Nat]

ASSUME EnduranceAssumption ==
  /\ Runs \subseteq Run
  /\ MaxKills \in Nat /\ MaxFaults \in Nat
  /\ NoFile \notin Record

VARIABLES
  disk,       \* checkpoint.json
  mem,        \* the checkpoint the process holds
  asked,      \* the parameters it was started with
  pc,         \* where the process is, "off" when there is none
  after,      \* where it goes once the checkpoint is saved
  databases,  \* chunk -> what its hive.sqlite holds
  begun,      \* auxiliary: chunks begun
  raised,     \* auxiliary: chunks that raised
  kills       \* auxiliary: kills

vars == <<disk, mem, asked, pc, after, databases, begun, raised, kills>>

\* Days, like chunks, are numbered from 0; no run has more chunks than days.
Chunks == UNION {0 .. r.days - 1 : r \in Runs}

Fresh(r) == [run |-> r, next |-> 0, days |-> 0, exceptions |-> 0]

Init ==
  /\ disk = NoFile /\ mem = NoFile /\ asked \in Runs
  /\ pc = "off" /\ after = "off"
  /\ databases = [c \in Chunks |-> "none"]
  /\ begun = 0 /\ raised = 0 /\ kills = 0

-----------------------------------------------------------------------------
(* Chunks.                                                                 *)

\* chunk_spec: how many days a chunk spans, the last one clipped.
Span(r, index) ==
  LET left == r.days - index * r.chunk
  IN  IF r.chunk <= left THEN r.chunk ELSE left

\* done: at least as many chunks as chunks_total, the ceiling of days / chunk.
Done(c) == c.next * c.run.chunk >= c.run.days

-----------------------------------------------------------------------------
(* run_endurance                                                           *)

\* Mutants of MayResume: the parameters are not compared; a run with an exception
\* is not continued.
MayResumeAny(r, resume) == resume

MayResumeClean(r, resume) == resume /\ disk.run = r /\ disk.exceptions = 0

\* A checkpoint is continued only with --resume and the same parameters.
MayResume(r, resume) == resume /\ disk.run = r

Resume(r, resume) ==
  /\ pc = "off" /\ disk # NoFile
  /\ MayResume(r, resume)
  /\ mem' = disk /\ asked' = r
  /\ pc' = "loop"
  /\ UNCHANGED <<disk, after, databases, begun, raised, kills>>

\* A new run, without --resume and with no checkpoint there, saves one first.
StartRun(r) ==
  /\ pc = "off" /\ disk = NoFile
  /\ mem' = Fresh(r) /\ asked' = r
  /\ pc' = "saving" /\ after' = "loop"
  /\ UNCHANGED <<disk, databases, begun, raised, kills>>

\* run_agent_arm drops the database a killed attempt at the chunk may have left.
BeginChunk ==
  /\ pc = "loop" /\ ~Done(mem)
  /\ databases' = [databases EXCEPT ![mem.next] = "partial"]
  /\ begun' = begun + 1
  /\ pc' = "running"
  /\ UNCHANGED <<disk, mem, asked, after, raised, kills>>

\* Mutant of ChunkRaises: the loop goes on with the next chunk.
ChunkSkipped ==
  /\ pc = "running" /\ raised < MaxFaults
  /\ raised' = raised + 1
  /\ mem' = [mem EXCEPT !.exceptions = @ + 1, !.next = @ + 1]
  /\ pc' = "saving" /\ after' = "loop"
  /\ UNCHANGED <<disk, asked, databases, begun, kills>>

\* The arm raises, or does not end cleanly: counted, saved, and the run stops.
ChunkRaises ==
  /\ pc = "running" /\ raised < MaxFaults
  /\ raised' = raised + 1
  /\ mem' = [mem EXCEPT !.exceptions = @ + 1]
  /\ pc' = "saving" /\ after' = "off"
  /\ UNCHANGED <<disk, asked, databases, begun, kills>>

\* The arm returns its result, its database complete and closed.
ChunkEnds ==
  /\ pc = "running"
  /\ databases' = [databases EXCEPT ![mem.next] = "whole"]
  /\ pc' = "ended"
  /\ UNCHANGED <<disk, mem, asked, after, begun, raised, kills>>

\* add_chunk
Added(c, days) == [c EXCEPT !.days = @ + days]

\* Mutant of AddChunk: the checkpoint is saved at the end.
AddChunkUnsaved ==
  /\ pc = "ended"
  /\ mem' = [Added(mem, Span(asked, mem.next)) EXCEPT !.next = @ + 1]
  /\ pc' = IF Done(mem') THEN "saving" ELSE "loop"
  /\ after' = "loop"
  /\ UNCHANGED <<disk, asked, databases, begun, raised, kills>>

\* The result is added up, and on to the next chunk.
AddChunk ==
  /\ pc = "ended"
  /\ mem' = [Added(mem, Span(asked, mem.next)) EXCEPT !.next = @ + 1]
  /\ pc' = "saving" /\ after' = "loop"
  /\ UNCHANGED <<disk, asked, databases, begun, raised, kills>>

\* Checkpoint.save: the temporary file may be half-written at a kill, the
\* replacement is atomic.
Save ==
  /\ pc = "saving"
  /\ disk' = mem
  /\ pc' = after
  /\ UNCHANGED <<mem, asked, after, databases, begun, raised, kills>>

Return ==
  /\ pc = "loop" /\ Done(mem)
  /\ pc' = "off"
  /\ UNCHANGED <<disk, mem, asked, after, databases, begun, raised, kills>>

Kill ==
  /\ pc # "off" /\ kills < MaxKills
  /\ kills' = kills + 1
  /\ pc' = "off"
  /\ UNCHANGED <<disk, mem, asked, after, databases, begun, raised>>

Step == BeginChunk \/ ChunkRaises \/ ChunkEnds \/ AddChunk \/ Save \/ Return

Next ==
  \/ \E r \in Runs : StartRun(r) \/ \E resume \in BOOLEAN : Resume(r, resume)
  \/ Step
  \/ Kill

Spec == Init /\ [][Next]_vars

\* The process goes on while it is not killed; whoever started the run resumes
\* it, in the end with the parameters it was started with.
FairSpec ==
  /\ Spec
  /\ WF_vars(Step)
  /\ WF_vars(\E r \in Runs : StartRun(r))
  /\ WF_vars(disk # NoFile /\ ~Done(disk) /\ \E r \in Runs : Resume(r, TRUE))

-----------------------------------------------------------------------------
(* Properties.                                                             *)

\* Every variable has its type.
TypeOK ==
  /\ \A c \in {disk, mem} \ {NoFile} : c \in Record /\ c.next <= c.run.days
  /\ asked \in Runs
  /\ pc \in {"off", "saving", "loop", "running", "ended"}
  /\ after \in {"off", "loop"}
  /\ databases \in [Chunks -> {"none", "partial", "whole"}]
  /\ begun \in Nat /\ raised \in Nat /\ kills \in Nat

\* What the checkpoint on disk says of the run.
LoggedRun == IF disk = NoFile THEN [days |-> 0, chunk |-> 0] ELSE disk.run
LoggedDays == IF disk = NoFile THEN 0 ELSE disk.days

Log == INSTANCE Progress WITH run <- LoggedRun, covered <- LoggedDays

\* The checkpoint covers the days of one run in order, each counted once, over
\* any sequence of kills, exceptions and resumptions (run_endurance, add_chunk).
ProgressKept == Log!Spec

\* Every chunk the checkpoint counts has its complete database, which no later
\* attempt opens or drops (run_agent_arm, run_endurance).
CountedChunksOnRecord ==
  disk # NoFile => \A c \in 0 .. disk.next - 1 : databases[c] = "whole"

\* A kill costs one chunk at most, and so does an exception: no other chunk is
\* ever run again (run_endurance).
OneChunkPerStop ==
  disk # NoFile => begun <= disk.next + kills + raised + 1

\* As long as it is resumed, the run completes (run_endurance).
Completes == <>(disk # NoFile /\ Done(disk))
=============================================================================
