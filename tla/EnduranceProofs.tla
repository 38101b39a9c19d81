--------------------------- MODULE EnduranceProofs ---------------------------
(***************************************************************************)
(* Proofs about Endurance, for any runs and any number of kills and        *)
(* exceptions: its type invariant, the records it leaves, the price of a   *)
(* stop, and that it implements Progress.                                  *)
(*                                                                         *)
(* The invariant says how far the checkpoint in memory may be ahead of the *)
(* one on disk: nothing, but while it is being saved.                      *)
(***************************************************************************)
EXTENDS Endurance, TLAPS

\* The days a checkpoint counts are those of its chunks.
DaysRight(c) ==
  IF Done(c) THEN c.days = c.run.days ELSE c.days = c.next * c.run.chunk

\* What is being saved: a new run, a chunk more, or an exception more.
Saving ==
  \/ disk = NoFile /\ mem = Fresh(asked) /\ after = "loop"
  \/ /\ disk # NoFile /\ after = "loop" /\ ~Done(disk)
     /\ mem.run = disk.run /\ mem.next = disk.next + 1
     /\ mem.days = disk.days + Span(disk.run, disk.next)
     /\ databases[disk.next] = "whole"
  \/ /\ disk # NoFile /\ after = "off" /\ ~Done(disk)
     /\ mem.run = disk.run /\ mem.next = disk.next /\ mem.days = disk.days

Ahead ==
  /\ pc # "off" => mem # NoFile /\ asked = mem.run
  /\ pc \in {"loop", "running", "ended"} => mem = disk
  /\ pc \in {"running", "ended"} => ~Done(mem)
  /\ pc = "ended" => databases[mem.next] = "whole"
  /\ pc = "saving" => Saving

Counted ==
  /\ disk # NoFile => DaysRight(disk)
  /\ mem # NoFile => DaysRight(mem)

\* A chunk that was begun is counted, in progress, or was stopped.
Recorded == IF disk = NoFile THEN 0 ELSE disk.next

InProgress ==
  \/ pc = "running" \/ pc = "ended"
  \/ pc = "saving" /\ disk # NoFile /\ after = "loop"

Begun == begun <= Recorded + kills + raised + (IF InProgress THEN 1 ELSE 0)

Inv == TypeOK /\ Ahead /\ Counted /\ CountedChunksOnRecord /\ Begun

-----------------------------------------------------------------------------
(* Arithmetic of chunks.                                                   *)

\* A run that is not done has a chunk for the number it is at.
LEMMA NextIsChunk ==
  ASSUME NEW c \in Record, c.run \in Run, ~Done(c)
  PROVE  c.next < c.run.days /\ c.next \in Chunks
<1>1. c.next \in Nat /\ c.run.days \in Nat /\ c.run.chunk \in Nat \ {0} /\ c.run \in Runs
  BY DEF Record, Run
<1>2. c.next <= c.next * c.run.chunk
  <2> DEFINE n == c.next
             k == c.run.chunk
  <2>1. n \in Nat /\ k \in Nat /\ k >= 1
    BY <1>1
  <2>2. n * k = n * (k - 1) + n /\ n * (k - 1) \in Nat
    BY <2>1
  <2> QED BY <2>1, <2>2
<1>3. c.next * c.run.chunk \in Nat
  BY <1>1
<1>4. c.next < c.run.days
  BY <1>1, <1>2, <1>3 DEF Done
<1> QED BY <1>1, <1>4 DEF Chunks

\* Adding a chunk counts the days it spans.
LEMMA ChunkCounts ==
  ASSUME NEW c \in Record, c.run \in Run, ~Done(c), DaysRight(c),
         NEW d \in Record, d.run = c.run, d.next = c.next + 1,
         d.days = c.days + Span(c.run, c.next)
  PROVE  /\ DaysRight(d)
         /\ d.days = IF c.days + c.run.chunk <= c.run.days THEN c.days + c.run.chunk
                     ELSE c.run.days
         /\ c.days < c.run.days
<1> DEFINE n == c.next
           k == c.run.chunk
           t == c.run.days
           p == n * k
<1>1. n \in Nat /\ t \in Nat /\ k \in Nat /\ k >= 1 /\ p \in Nat
  BY DEF Record, Run
<1>2. (n + 1) * k = p + k
  BY <1>1
<1>3. p < t /\ c.days = p
  BY <1>1 DEF Done, DaysRight
<1>4. Span(c.run, c.next) = IF k <= t - p THEN k ELSE t - p
  BY DEF Span
<1>5. Done(d) <=> p + k >= t
  BY <1>2 DEF Done
<1>6. d.days = IF p + k <= t THEN p + k ELSE t
  <2> HIDE DEF p
  <2> QED BY <1>1, <1>3, <1>4
<1>7. DaysRight(d)
  <2>1. d.next * d.run.chunk = p + k
    BY <1>2
  <2>2. Done(d) => d.days = d.run.days
    <3> HIDE DEF p
    <3> QED BY <1>1, <1>5, <1>6
  <2>3. ~Done(d) => d.days = p + k
    <3> HIDE DEF p
    <3> QED BY <1>1, <1>5, <1>6
  <2> QED BY <2>1, <2>2, <2>3 DEF DaysRight
<1> QED BY <1>3, <1>6, <1>7

-----------------------------------------------------------------------------
(* The invariant.                                                          *)

\* The invariant holds before the first start.
LEMMA Initially == Init => Inv
<1> SUFFICES ASSUME Init PROVE Inv
  OBVIOUS
<1>1. TypeOK
  BY DEF Init, TypeOK
<1>2. Ahead /\ Counted /\ CountedChunksOnRecord /\ Begun
  BY DEF Init, Ahead, Counted, CountedChunksOnRecord, Begun, Recorded, InProgress
<1> QED BY <1>1, <1>2 DEF Inv

\* A fresh checkpoint is well formed.
LEMMA FreshIsRight ==
  ASSUME NEW r \in Runs
  PROVE  /\ Fresh(r) \in Record /\ Fresh(r).run = r /\ Fresh(r).next = 0
         /\ Fresh(r).next <= r.days /\ ~Done(Fresh(r)) /\ DaysRight(Fresh(r))
<1>1. r.days \in Nat \ {0} /\ r.chunk \in Nat \ {0}
  BY EnduranceAssumption DEF Run
<1> QED BY <1>1 DEF Fresh, Record, Done, DaysRight

\* A run that is resumed goes on from what is on disk.
LEMMA ResumeKeeps ==
  ASSUME Inv, NEW r \in Runs, NEW resume \in BOOLEAN, Resume(r, resume)
  PROVE  Inv'
<1> USE DEF Inv, Resume
<1>1. TypeOK'
  BY DEF TypeOK, MayResume
<1>2. Ahead'
  BY DEF Ahead, MayResume
<1>3. Counted' /\ CountedChunksOnRecord'
  BY DEF Counted, CountedChunksOnRecord, DaysRight, Done
<1>4. Begun'
  BY DEF Begun, Recorded, InProgress
<1> QED BY <1>1, <1>2, <1>3, <1>4

\* A new run has a fresh checkpoint to save.
LEMMA StartKeeps ==
  ASSUME Inv, NEW r \in Runs, StartRun(r)
  PROVE  Inv'
<1> USE DEF Inv, StartRun
<1>1. TypeOK'
  BY FreshIsRight DEF TypeOK
<1>2. Ahead'
  BY FreshIsRight, EnduranceAssumption DEF Ahead, Saving
<1>3. Counted' /\ CountedChunksOnRecord'
  BY FreshIsRight DEF Counted, CountedChunksOnRecord, DaysRight, Done
<1>4. Begun'
  BY DEF Begun, Recorded, InProgress
<1> QED BY <1>1, <1>2, <1>3, <1>4

\* What a process in a chunk holds.
LEMMA InChunk ==
  ASSUME Inv, pc = "running" \/ pc = "ended" \/ (pc = "loop" /\ ~Done(mem))
  PROVE  /\ mem = disk /\ mem \in Record /\ disk # NoFile /\ mem.run \in Run
         /\ asked = mem.run /\ ~Done(mem) /\ DaysRight(mem)
         /\ mem.next \in Chunks /\ mem.next < mem.run.days
         /\ mem.next \in Nat /\ mem.run.days \in Nat
<1>1. /\ mem = disk /\ mem # NoFile /\ asked = mem.run /\ ~Done(mem)
  BY DEF Inv, Ahead
<1>2. mem \in Record
  BY <1>1 DEF Inv, TypeOK
<1>3. mem.run \in Run
  BY <1>2, EnduranceAssumption DEF Record
<1>4. DaysRight(mem)
  BY <1>1 DEF Inv, Counted
<1>5. mem.next \in Nat /\ mem.run.days \in Nat
  BY <1>2, <1>3 DEF Record, Run
<1> QED BY <1>1, <1>2, <1>3, <1>4, <1>5, NextIsChunk

\* Beginning a chunk drops no database of a counted one.
LEMMA BeginKeeps == ASSUME Inv, BeginChunk PROVE Inv'
<1>1. /\ mem = disk /\ disk # NoFile /\ mem.next \in Chunks /\ ~Done(mem)
      /\ asked = mem.run /\ mem \in Record /\ mem.next \in Nat
  BY InChunk DEF BeginChunk
<1> USE DEF Inv, BeginChunk
<1>2. TypeOK'
  BY <1>1 DEF TypeOK
<1>3. Ahead'
  BY <1>1 DEF Ahead, Done
<1>4. Counted'
  BY DEF Counted, DaysRight, Done
<1>5. CountedChunksOnRecord'
  BY <1>1 DEF CountedChunksOnRecord, TypeOK, Record
<1>6. Begun'
  <2>1. begun \in Nat /\ kills \in Nat /\ raised \in Nat
    BY DEF TypeOK
  <2>2. ~InProgress /\ InProgress' /\ Recorded' = Recorded /\ Recorded \in Nat
    BY <1>1 DEF InProgress, Recorded
  <2> QED BY <2>1, <2>2 DEF Begun
<1> QED BY <1>2, <1>3, <1>4, <1>5, <1>6

\* An exception leaves the days and the chunk as they were.
LEMMA RaiseKeeps == ASSUME Inv, ChunkRaises PROVE Inv'
<1>1. /\ mem = disk /\ disk # NoFile /\ ~Done(mem) /\ DaysRight(mem)
      /\ asked = mem.run /\ mem \in Record /\ mem.next \in Nat
      /\ mem.next < mem.run.days /\ mem.run.days \in Nat
  BY InChunk DEF ChunkRaises
<1>2. /\ mem'.run = mem.run /\ mem'.next = mem.next /\ mem'.days = mem.days
      /\ mem' \in Record
  BY <1>1 DEF ChunkRaises, Record
<1>3. mem' # NoFile
  BY <1>2, EnduranceAssumption
<1> USE DEF Inv, ChunkRaises
<1>4. TypeOK'
  <2>1. mem'.next <= mem'.run.days /\ disk.next <= disk.run.days
    BY <1>1, <1>2
  <2>2. asked' \in Runs /\ raised' \in Nat /\ disk' \in Record
    BY <1>1 DEF TypeOK
  <2> QED BY <1>2, <2>1, <2>2 DEF TypeOK
<1>5. Ahead'
  BY <1>1, <1>2, <1>3 DEF Ahead, Saving, Done
<1>6. Counted' /\ CountedChunksOnRecord'
  BY <1>1, <1>2 DEF Counted, CountedChunksOnRecord, DaysRight, Done
<1>7. Begun'
  BY <1>1 DEF Begun, Recorded, InProgress, TypeOK
<1> QED BY <1>4, <1>5, <1>6, <1>7

\* A chunk that ends leaves its database complete.
LEMMA EndKeeps == ASSUME Inv, ChunkEnds PROVE Inv'
<1>1. /\ mem = disk /\ disk # NoFile /\ mem.next \in Chunks /\ ~Done(mem)
      /\ asked = mem.run /\ mem \in Record /\ mem.next \in Nat
  BY InChunk DEF ChunkEnds
<1> USE DEF Inv, ChunkEnds
<1>2. TypeOK'
  BY <1>1 DEF TypeOK
<1>3. Ahead'
  BY <1>1 DEF Ahead, Done, TypeOK
<1>4. Counted'
  BY DEF Counted, DaysRight, Done
<1>5. CountedChunksOnRecord'
  BY <1>1 DEF CountedChunksOnRecord, TypeOK, Record
<1>6. Begun'
  <2>1. InProgress /\ InProgress' /\ Recorded' = Recorded
    BY <1>1 DEF InProgress, Recorded
  <2> QED BY <2>1 DEF Begun
<1> QED BY <1>2, <1>3, <1>4, <1>5, <1>6

\* A chunk added up is one ahead of the disk, and its database complete.
LEMMA AddKeeps == ASSUME Inv, AddChunk PROVE Inv'
<1>1. /\ mem = disk /\ disk # NoFile /\ mem.next \in Chunks /\ ~Done(mem) /\ DaysRight(mem)
      /\ asked = mem.run /\ mem \in Record /\ mem.run \in Run /\ mem.next < mem.run.days
      /\ mem.next \in Nat /\ mem.run.days \in Nat /\ databases[mem.next] = "whole"
  BY InChunk DEF AddChunk, Inv, Ahead
<1>2. Span(mem.run, mem.next) \in Nat
  <2>1. mem.next * mem.run.chunk < mem.run.days
    BY <1>1 DEF Done, Record, Run
  <2>2. mem.next * mem.run.chunk \in Nat /\ mem.run.days \in Nat /\ mem.run.chunk \in Nat
    BY <1>1 DEF Record, Run
  <2> QED BY <2>1, <2>2 DEF Span
<1>3. /\ mem'.run = mem.run /\ mem'.next = mem.next + 1 /\ mem' \in Record
      /\ mem'.days = mem.days + Span(mem.run, mem.next)
  <2> DEFINE sum == Added(mem, Span(mem.run, mem.next))
  <2>1. /\ sum \in Record /\ sum.run = mem.run /\ sum.next = mem.next
        /\ sum.days = mem.days + Span(mem.run, mem.next)
    BY <1>1, <1>2 DEF Added, Record
  <2>2. mem' = [sum EXCEPT !.next = @ + 1]
    BY <1>1 DEF AddChunk
  <2> HIDE DEF sum
  <2> QED BY <2>1, <2>2 DEF Record
<1>4. mem' # NoFile
  BY <1>3, EnduranceAssumption
<1>5. DaysRight(mem')
  BY <1>1, <1>3, ChunkCounts
<1> USE DEF Inv, AddChunk
<1>6. TypeOK'
  BY <1>1, <1>3 DEF TypeOK, Run, Record
<1>7. Ahead'
  BY <1>1, <1>3, <1>4 DEF Ahead, Saving, Done, Span
<1>8. Counted' /\ CountedChunksOnRecord'
  BY <1>1, <1>5 DEF Counted, CountedChunksOnRecord, DaysRight, Done
<1>9. Begun'
  <2>1. InProgress /\ InProgress' /\ Recorded' = Recorded
    BY <1>1 DEF InProgress, Recorded
  <2> QED BY <2>1 DEF Begun
<1> QED BY <1>6, <1>7, <1>8, <1>9

\* Whatever is saved, the checkpoint on disk is then the one in memory.
LEMMA SaveKeeps == ASSUME Inv, Save PROVE Inv'
<1>1. mem # NoFile /\ asked = mem.run /\ Saving /\ mem \in Record
  BY DEF Inv, Ahead, Save, TypeOK
<1>2. /\ disk' = mem /\ mem' = mem /\ asked' = asked
      /\ pc = "saving" /\ pc' = after /\ after \in {"off", "loop"}
  BY DEF Save, Inv, TypeOK
<1>3. TypeOK'
  BY <1>2 DEF Inv, TypeOK, Save
<1>4. Ahead'
  BY <1>1, <1>2 DEF Ahead
<1>5. Counted'
  BY <1>2 DEF Inv, Counted, DaysRight, Done
<1>6. CountedChunksOnRecord'
  <2>1. CASE disk = NoFile
    BY <1>1, <1>2, <2>1, FreshIsRight DEF Saving, CountedChunksOnRecord, Save, Inv, TypeOK
  <2>2. CASE disk # NoFile
    <3>1. disk \in Record /\ disk.next \in Nat
      BY <2>2 DEF Inv, TypeOK, Record
    <3>2. \A c \in 0 .. disk.next - 1 : databases[c] = "whole"
      BY <2>2 DEF Inv, CountedChunksOnRecord
    <3>3. \/ mem.next = disk.next + 1 /\ databases[disk.next] = "whole"
          \/ mem.next = disk.next
      BY <1>1, <2>2 DEF Saving
    <3>4. \A c \in 0 .. mem.next - 1 : databases[c] = "whole"
      BY <3>1, <3>2, <3>3
    <3> QED BY <1>2, <3>4 DEF CountedChunksOnRecord, Save
  <2> QED BY <2>1, <2>2
<1>7. Begun'
  <2>1. begun \in Nat /\ kills \in Nat /\ raised \in Nat /\ begun' = begun
        /\ kills' = kills /\ raised' = raised /\ after' = after /\ after \in {"off", "loop"}
    BY DEF Inv, TypeOK, Save
  <2>2. ~InProgress' /\ Recorded' = mem.next
    BY <1>1, <1>2, <2>1 DEF InProgress, Recorded
  <2>3. Recorded' \in Nat /\ Recorded \in Nat
    BY <1>1, <2>2 DEF Recorded, Inv, TypeOK, Record
  <2>4. CASE disk = NoFile \/ after = "off"
    <3>1. ~InProgress /\ Recorded' = Recorded
      BY <1>1, <1>2, <2>2, <2>4, FreshIsRight DEF InProgress, Recorded, Saving, Inv, TypeOK
    <3> QED BY <2>1, <2>2, <2>3, <3>1 DEF Inv, Begun
  <2>5. CASE disk # NoFile /\ after = "loop"
    <3>1. InProgress /\ Recorded' = Recorded + 1
      BY <1>1, <1>2, <2>2, <2>5 DEF InProgress, Recorded, Saving
    <3> QED BY <2>1, <2>2, <2>3, <3>1 DEF Inv, Begun
  <2> QED BY <2>1, <2>4, <2>5
<1> QED BY <1>3, <1>4, <1>5, <1>6, <1>7 DEF Inv

\* Returning changes no record.
LEMMA ReturnKeeps == ASSUME Inv, Return PROVE Inv'
<1> USE DEF Inv, Return
<1>1. TypeOK' /\ Ahead'
  BY DEF TypeOK, Ahead
<1>2. Counted' /\ CountedChunksOnRecord'
  BY DEF Counted, CountedChunksOnRecord, DaysRight, Done
<1>3. Begun'
  <2>1. ~InProgress /\ ~InProgress' /\ Recorded' = Recorded
    BY DEF InProgress, Recorded
  <2> QED BY <2>1 DEF Begun
<1> QED BY <1>1, <1>2, <1>3

\* A kill turns what was in progress into what was stopped.
LEMMA KillKeeps == ASSUME Inv, Kill PROVE Inv'
<1> USE DEF Inv, Kill
<1>1. TypeOK' /\ Ahead'
  BY DEF TypeOK, Ahead
<1>2. Counted' /\ CountedChunksOnRecord'
  BY DEF Counted, CountedChunksOnRecord, DaysRight, Done
<1>3. Begun'
  <2>1. begun \in Nat /\ kills \in Nat /\ raised \in Nat
    BY DEF TypeOK
  <2>2. ~InProgress' /\ Recorded' = Recorded /\ Recorded \in Nat
    BY DEF InProgress, Recorded, TypeOK, Record
  <2> QED BY <2>1, <2>2 DEF Begun
<1> QED BY <1>1, <1>2, <1>3

\* Nothing changes when nothing happens.
LEMMA StutterKeeps == ASSUME Inv, UNCHANGED vars PROVE Inv'
<1> USE DEF vars
<1>1. TypeOK' /\ Ahead'
  BY DEF Inv, TypeOK, Ahead, Saving, Done
<1>2. Counted' /\ CountedChunksOnRecord' /\ Begun'
  BY DEF Inv, Counted, CountedChunksOnRecord, DaysRight, Done, Begun, Recorded, InProgress
<1> QED BY <1>1, <1>2 DEF Inv

\* Every step keeps the invariant.
LEMMA StepKeeps == Inv /\ [Next]_vars => Inv'
<1> SUFFICES ASSUME Inv, [Next]_vars PROVE Inv'
  OBVIOUS
<1>1. ASSUME NEW r \in Runs, StartRun(r) PROVE Inv'
  BY <1>1, StartKeeps
<1>2. ASSUME NEW r \in Runs, NEW resume \in BOOLEAN, Resume(r, resume) PROVE Inv'
  BY <1>2, ResumeKeeps
<1>3. ASSUME Step PROVE Inv'
  BY <1>3, BeginKeeps, RaiseKeeps, EndKeeps, AddKeeps, SaveKeeps, ReturnKeeps DEF Step
<1> QED BY <1>1, <1>2, <1>3, KillKeeps, StutterKeeps DEF Next

\* The invariant always holds.
LEMMA InvariantHolds == Spec => []Inv
BY Initially, StepKeeps, PTL DEF Spec

-----------------------------------------------------------------------------
(* The theorems.                                                           *)

\* Type correctness of the endurance runner, for any runs.
THEOREM EnduranceTypeCorrect == Spec => []TypeOK
<1>1. Inv => TypeOK
  BY DEF Inv
<1> QED BY <1>1, InvariantHolds, PTL

\* A chunk the checkpoint counts has its complete database, whatever kills and
\* exceptions came between (run_endurance, run_agent_arm).
THEOREM CountedChunksStayOnRecord == Spec => []CountedChunksOnRecord
<1>1. Inv => CountedChunksOnRecord
  BY DEF Inv
<1> QED BY <1>1, InvariantHolds, PTL

\* However many kills and exceptions there are, each costs one chunk at most
\* (run_endurance).
THEOREM StopsCostOneChunk == Spec => []OneChunkPerStop
<1>1. Inv => OneChunkPerStop
  <2> SUFFICES ASSUME Inv, disk # NoFile PROVE begun <= disk.next + kills + raised + 1
    BY DEF OneChunkPerStop
  <2>1. /\ begun \in Nat /\ kills \in Nat /\ raised \in Nat
        /\ Recorded = disk.next /\ Recorded \in Nat
    BY DEF Inv, TypeOK, Record, Recorded
  <2> QED BY <2>1 DEF Inv, Begun
<1> QED BY <1>1, InvariantHolds, PTL

-----------------------------------------------------------------------------
(* Refinement.                                                             *)

\* Only a save moves the log, and it starts the run, goes a chunk ahead or, for
\* an exception, leaves it as it was.
LEMMA SaveIsProgress ==
  ASSUME Inv, Save
  PROVE  Log!Next \/ UNCHANGED <<LoggedRun, LoggedDays>>
<1>1. mem # NoFile /\ mem \in Record /\ asked = mem.run /\ Saving /\ disk' = mem /\ mem.run \in Runs
  BY DEF Inv, Ahead, Save, TypeOK, Record
<1>2. CASE disk = NoFile
  <2>1. mem = Fresh(asked) /\ asked \in Runs
    BY <1>1, <1>2 DEF Saving
  <2>2. disk' # NoFile /\ disk'.run = asked /\ disk'.days = 0
    BY <1>1, <2>1 DEF Fresh
  <2>3. Log!Start
    BY <1>2, <2>1, <2>2 DEF Log!Start, Log!NotStarted, LoggedRun, LoggedDays
  <2> QED BY <2>3 DEF Log!Next
<1>3. CASE disk # NoFile /\ after = "off"
  BY <1>1, <1>3 DEF Saving, LoggedRun, LoggedDays
<1>4. CASE disk # NoFile /\ after = "loop"
  <2>1. disk \in Record /\ ~Done(disk) /\ DaysRight(disk) /\ disk.run \in Run
    BY <1>1, <1>4, EnduranceAssumption DEF Saving, Inv, TypeOK, Counted, Record
  <2>2. /\ mem.run = disk.run /\ mem.next = disk.next + 1
        /\ mem.days = disk.days + Span(disk.run, disk.next)
    BY <1>1, <1>4 DEF Saving
  <2>3. /\ mem.days = IF disk.days + disk.run.chunk <= disk.run.days
                      THEN disk.days + disk.run.chunk ELSE disk.run.days
        /\ disk.days < disk.run.days
    BY <1>1, <2>1, <2>2, ChunkCounts
  <2>4. Log!Advance
    BY <1>1, <1>4, <2>2, <2>3 DEF Log!Advance, LoggedRun, LoggedDays
  <2> QED BY <2>4 DEF Log!Next
<1>5. after \in {"off", "loop"}
  BY DEF Inv, TypeOK
<1> QED BY <1>2, <1>3, <1>4, <1>5

\* The checkpointed run implements Progress: what the checkpoint on disk says of
\* the run only ever moves on by a chunk (run_endurance, add_chunk).
THEOREM EnduranceProgresses == Spec => ProgressKept
<1>1. Init => Log!Init
  BY DEF Init, Log!Init, Log!NotStarted, LoggedRun, LoggedDays
<1>2. Inv /\ [Next]_vars => [Log!Next]_<<LoggedRun, LoggedDays>>
  <2> SUFFICES ASSUME Inv, [Next]_vars
      PROVE Log!Next \/ UNCHANGED <<LoggedRun, LoggedDays>>
    OBVIOUS
  <2>1. Save \/ UNCHANGED disk
    BY DEF Next, Step, StartRun, Resume, BeginChunk, ChunkRaises, ChunkEnds, AddChunk, Return,
           Kill, vars
  <2>2. CASE Save
    BY <2>2, SaveIsProgress
  <2>3. CASE UNCHANGED disk
    BY <2>3 DEF LoggedRun, LoggedDays
  <2> QED BY <2>1, <2>2, <2>3
<1> QED BY <1>1, <1>2, InvariantHolds, PTL DEF Spec, ProgressKept, Log!Spec
=============================================================================
