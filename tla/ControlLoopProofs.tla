------------------------- MODULE ControlLoopProofs -------------------------
(***************************************************************************)
(* First the planning scheduler's safety properties, for any number of     *)
(* cycles, preemptions, situations and inputs: every cycle is accounted    *)
(* for, the newest one holds the flight, a late result reaches neither the *)
(* store nor the slot, what drives the building is on record, and the      *)
(* guardian's complaints are not lost.  Then those of the live loop it is  *)
(* part of, for any hours and deadlines as well: every step of the loop    *)
(* keeps the scheduler's invariant, so its theorems hold of the            *)
(* composition; what drives the building is on record on both sides; and a *)
(* plan corrects only a journalled complaint, each complaint at most once. *)
(***************************************************************************)
EXTENDS ControlLoop, SequenceTheorems, FiniteSetTheorems, WellFoundedInduction, TLAPS

-----------------------------------------------------------------------------
(* The planning scheduler by itself: the inductive invariant.              *)

InJournal(e) == \E i \in DOMAIN journal : journal[i].plan = e

\* The cycles up to the epoch have been started, and no others.
StartedToEpoch == \A e \in Cycles : workers[e].pc = "none" <=> e > epoch

\* A worker past the model or the cache holds a plan of its own cycle.
PlanOfCycle ==
  \A e \in Cycles : workers[e].pc \in {"check"} \cup Delivering =>
    workers[e].plan \in PlanRecord /\ workers[e].plan.cycle = e

\* A worker writes its plan once, and before it commits.
JournalledBeforeCommit ==
  \A e \in Cycles : workers[e].pc \in {"feedback", "commit", "count"} => InJournal(e)

JournalledOnce ==
  \A e \in Cycles : workers[e].pc \in Undecided \cup {"none", "journal"} => ~InJournal(e)

\* The slot's plan is one the store has.
SlotJournalled ==
  slot.plan # NoPlan => slot.plan \in PlanRecord /\ InJournal(slot.plan.cycle)

\* What the tracker has seen has happened.
SeenBound == feedback.seen <= Len(events)

\* What a worker is about to show the tracker has happened, and while no cycle is
\* preempted the tracker has not seen more.
SnapshotBound ==
  \A e \in Cycles : workers[e].pc = "observe" =>
    /\ workers[e].snapshot <= Len(events)
    /\ stats.timeouts = 0 => feedback.seen <= workers[e].snapshot

\* While no cycle is preempted, the complaint a worker answers is the pending
\* one until it resolves it, and it has written its answer by then.
AnswersPending ==
  stats.timeouts = 0 =>
    \A e \in Cycles :
      /\ workers[e].pc \in {"infer", "check", "journal", "feedback"} =>
           workers[e].corrects \in {feedback.pending, NoCycle}
      /\ workers[e].pc = "feedback" =>
           workers[e].corrects # NoCycle /\ \E i \in DOMAIN journal : journal[i].corrects = workers[e].corrects

\* A worker corrects nothing before it has seen what is pending.
NothingYetCorrected ==
  \A e \in Cycles :
    workers[e].pc \in {"resolve", "digest", "observe", "capture"} => workers[e].corrects = NoCycle

IInv ==
  /\ TypeOK
  /\ StartedToEpoch
  /\ EveryCycleAccounted /\ NewestInFlight
  /\ PlanOfCycle /\ JournalledBeforeCommit /\ JournalledOnce /\ SlotJournalled
  /\ SeenBound /\ SnapshotBound
  /\ NothingYetCorrected /\ AnswersPending /\ VerdictNotLost

-----------------------------------------------------------------------------
(* Counting the threads.                                                   *)

LEMMA CyclesFinite ==
  ASSUME NEW S \in SUBSET Cycles
  PROVE  IsFiniteSet(S) /\ Cardinality(S) \in Nat
<1>1. IsFiniteSet(Cycles)
  <2>1. 1 \in Int /\ MaxEpoch \in Int
    BY SchedulerAssumption
  <2> QED
    BY <2>1, FS_Interval DEF Cycles
<1>2. IsFiniteSet(S)
  BY <1>1, FS_Subset
<1> QED
  BY <1>2, FS_CardinalityType

\* The fields of a thread, as the provers use them.
LEMMA ThreadFields ==
  ASSUME TypeOK, NEW e \in Cycles
  PROVE  /\ workers[e] \in Thread /\ workers[e].pc \in PCs
         /\ workers[e].input \in Input /\ workers[e].trigger \in Triggers
         /\ workers[e].plan \in PlanRecord \cup {NoPlan} /\ workers[e].cached \in BOOLEAN
         /\ workers[e].snapshot \in Nat
         /\ workers[e].corrects \in EventIds \cup {NoCycle}
  BY DEF TypeOK, Thread

\* Thread e goes to a place, and the others stay where they are.
Moves(e, to) ==
  /\ workers' \in [Cycles -> Thread]
  /\ workers'[e].pc = to
  /\ \A f \in Cycles \ {e} : workers'[f] = workers[f]

\* It takes its variables along.
Keeps(e) ==
  workers'[e].plan = workers[e].plan /\ workers'[e].corrects = workers[e].corrects

LEMMA GotoMoves ==
  ASSUME TypeOK, NEW e \in Cycles, NEW to \in PCs, Goto(e, to)
  PROVE  Moves(e, to) /\ Keeps(e)
  BY DEF TypeOK, Thread, Goto, Moves, Keeps

Counted == Undecided \cup Delivering

\* A thread's step between two places where its outcome is open.
LEMMA StaysUncounted ==
  ASSUME NEW e \in Cycles, NEW to, Moves(e, to), workers[e].pc \in Counted, to \in Counted
  PROVE  Uncounted' = Uncounted /\ Running' = Running
<1>1. \A f \in Cycles : workers'[f].pc \in Counted <=> workers[f].pc \in Counted
  BY DEF Moves
<1>2. Uncounted' = Uncounted
  BY <1>1 DEF Uncounted, Counted
<1>3. \A f \in Cycles : workers'[f].pc \notin {"none", "done"}
                          <=> workers[f].pc \notin {"none", "done"}
  BY DEF Moves, Counted, Undecided, Delivering
<1>4. Running' = Running
  BY <1>3 DEF Running
<1> QED
  BY <1>2, <1>4

\* A thread's step to the finally clause, its outcome counted.
LEMMA GetsCounted ==
  ASSUME NEW e \in Cycles, Moves(e, "finally"), workers[e].pc \in Counted
  PROVE  /\ Cardinality(Uncounted') = Cardinality(Uncounted) - 1
         /\ Cardinality(Uncounted) \in Nat
         /\ Running' = Running
<1>1. Uncounted' = Uncounted \ {e} /\ e \in Uncounted
  BY DEF Uncounted, Moves, Counted, Undecided, Delivering
<1>2. IsFiniteSet(Uncounted) /\ Cardinality(Uncounted) \in Nat
  <2>1. Uncounted \in SUBSET Cycles
    BY DEF Uncounted
  <2> QED
    BY <2>1, CyclesFinite
<1>3. Running' = Running
  <2>1. \A f \in Cycles : workers'[f].pc \notin {"none", "done"}
                           <=> workers[f].pc \notin {"none", "done"}
    BY DEF Moves, Counted, Undecided, Delivering
  <2> QED
    BY <2>1 DEF Running
<1> QED
  BY <1>1, <1>2, <1>3, FS_RemoveElement

-----------------------------------------------------------------------------
(* The largest of a set of positions in a sequence.                        *)

Before == {p \in Nat \X Nat : p[1] < p[2]}

LEMMA LargestExists ==
  ASSUME NEW n \in Nat, NEW S, S \subseteq 1 .. n, S # {}
  PROVE  \E m \in S : \A j \in S : j <= m
<1> DEFINE T == {n - x : x \in S}
<1>1. IsWellFoundedOn(Before, Nat)
  <2>1. IsWellFoundedOn({p \in Nat \X Nat : p[1] < p[2]}, Nat)
    BY NatLessThanWellFounded DEF OpToRel
  <2> QED
    BY <2>1 DEF Before
<1>2. T \subseteq Nat /\ T # {}
  <2>1. T \subseteq Nat
    OBVIOUS
  <2>2. T # {}
    OBVIOUS
  <2> QED
    BY <2>1, <2>2
<1>3. PICK t \in T : \A u \in T : <<u, t>> \notin Before
  <2> HIDE DEF T
  <2> QED
    BY <1>1, <1>2, WFMin
<1>4. PICK m \in S : t = n - m
  BY <1>3
<1>5. ASSUME NEW j \in S
      PROVE  j <= m
  <2>1. n - j \in T /\ n - j \in Nat /\ t \in Nat /\ j \in Nat /\ m \in Nat
    BY <1>2, <1>4
  <2>2. ~ (n - j < t)
    BY <1>3, <2>1 DEF Before
  <2> QED
    BY <1>4, <2>1, <2>2
<1> QED
  BY <1>5

\* The verdicts up to position n that were not clean acceptances.
Bad(n) == {i \in DOMAIN events : i <= n /\ events[i].decision # "accepted"}
Newest(bad) == events[CHOOSE i \in bad : \A j \in bad : j <= i].plan

LEMMA NewestIsEvent ==
  ASSUME TypeOK, NEW bad, bad \subseteq DOMAIN events, bad # {}
  PROVE  \E i \in bad : /\ \A j \in bad : j <= i
                        /\ i = CHOOSE k \in bad : \A j \in bad : j <= k
                        /\ Newest(bad) = events[i].plan
                        /\ Newest(bad) \in EventIds
<1>1. Len(events) \in Nat /\ DOMAIN events = 1 .. Len(events)
      /\ \A i \in 1 .. Len(events) : events[i].plan \in EventIds
  <2>1. events \in Seq([plan : EventIds, decision : Verdict, generation : Nat])
    BY DEF TypeOK
  <2>2. Len(events) \in Nat /\ DOMAIN events = 1 .. Len(events)
    BY <2>1, LenProperties
  <2>3. \A i \in 1 .. Len(events) :
          events[i] \in [plan : EventIds, decision : Verdict, generation : Nat]
    BY <2>1, ElementOfSeq
  <2> QED
    BY <2>2, <2>3
<1>2. \E m \in bad : \A j \in bad : j <= m
  BY <1>1, LargestExists
<1> DEFINE top == CHOOSE k \in bad : \A j \in bad : j <= k
<1>3. top \in bad /\ \A j \in bad : j <= top
  BY <1>2
<1>4. Newest(bad) = events[top].plan
  BY DEF Newest
<1> HIDE DEF top
<1>5. events[top].plan \in EventIds
  BY <1>1, <1>3
<1>6. top = CHOOSE k \in bad : \A j \in bad : j <= k
  BY DEF top
<1> QED
  BY <1>3, <1>4, <1>5, <1>6

-----------------------------------------------------------------------------
(* What the steps of a thread have in common, one part of the invariant at *)
(* a time.                                                                 *)

Outcomes(s) == s.accepted + s.failed + s.discarded + s.holds

LEMMA StatsType ==
  ASSUME TypeOK
  PROVE  /\ stats.triggers \in Nat /\ stats.accepted \in Nat /\ stats.failed \in Nat
         /\ stats.discarded \in Nat /\ stats.holds \in Nat /\ stats.timeouts \in Nat
         /\ stats.made \in Nat /\ stats.hits \in Nat /\ stats.events \in Nat
  BY DEF TypeOK, Statistics

LEMMA ThreadsKept ==
  ASSUME IInv, NEW e \in Cycles, NEW to \in Counted \cup {"finally"}, Moves(e, to),
         workers[e].pc \in Counted, UNCHANGED <<epoch, inflight>>,
         stats'.triggers = stats.triggers, stats'.timeouts = stats.timeouts,
         Outcomes(stats') \in Nat,
         Outcomes(stats') = Outcomes(stats) + (IF to = "finally" THEN 1 ELSE 0)
  PROVE  /\ StartedToEpoch' /\ EveryCycleAccounted' /\ NewestInFlight'
         /\ Running' = Running
<1>1. StartedToEpoch'
  <2>1. to # "none" /\ workers[e].pc # "none"
    BY DEF Counted, Undecided, Delivering
  <2> QED
    BY <2>1 DEF IInv, StartedToEpoch, Moves
<1>2. Running' = Running
  BY StaysUncounted, GetsCounted
<1>3. NewestInFlight'
  BY <1>2 DEF IInv, NewestInFlight
<1>4. Cardinality(Uncounted) \in Nat
  <2>1. Uncounted \in SUBSET Cycles
    BY DEF Uncounted
  <2> QED
    BY <2>1, CyclesFinite
<1>5. /\ stats.accepted \in Nat /\ stats.failed \in Nat /\ stats.discarded \in Nat
      /\ stats.holds \in Nat /\ stats.triggers \in Nat
  BY StatsType DEF IInv
<1>6. stats.triggers = Outcomes(stats) + Cardinality(Uncounted)
  BY DEF IInv, EveryCycleAccounted, Outcomes
<1>7. stats'.triggers = Outcomes(stats') + Cardinality(Uncounted')
  <2>1. CASE to = "finally"
    <3>1. Cardinality(Uncounted') = Cardinality(Uncounted) - 1
      BY <2>1, GetsCounted
    <3>2. Outcomes(stats) \in Nat /\ Outcomes(stats') = Outcomes(stats) + 1
      BY <2>1, <1>5 DEF Outcomes
    <3> QED
      BY <3>1, <3>2, <1>4, <1>6
  <2>2. CASE to \in Counted
    <3>1. Uncounted' = Uncounted /\ to # "finally"
      BY <2>2, StaysUncounted DEF Counted, Undecided, Delivering
    <3>2. Outcomes(stats) \in Nat /\ Outcomes(stats') = Outcomes(stats)
      BY <3>1, <1>5 DEF Outcomes
    <3> QED
      BY <3>1, <3>2, <1>4, <1>6
  <2> QED
    BY <2>1, <2>2
<1>8. EveryCycleAccounted'
  BY <1>7 DEF EveryCycleAccounted, Outcomes
<1> QED
  BY <1>1, <1>2, <1>3, <1>8

LEMMA PlansKept ==
  ASSUME IInv, NEW e \in Cycles, NEW to, Moves(e, to),
         to \in {"check"} \cup Delivering =>
           workers'[e].plan \in PlanRecord /\ workers'[e].plan.cycle = e
  PROVE  PlanOfCycle'
<1> SUFFICES ASSUME NEW f \in Cycles, workers'[f].pc \in {"check"} \cup Delivering
             PROVE  workers'[f].plan \in PlanRecord /\ workers'[f].plan.cycle = f
  BY DEF PlanOfCycle
<1>1. CASE f = e
  BY <1>1 DEF Moves
<1>2. CASE f # e
  BY <1>2 DEF Moves, IInv, PlanOfCycle
<1> QED
  BY <1>1, <1>2

LEMMA JournalKept ==
  ASSUME IInv, NEW e \in Cycles, NEW to, Moves(e, to), UNCHANGED journal,
         to \in {"feedback", "commit", "count"} => InJournal(e),
         to \in Undecided \cup {"none", "journal"} => ~InJournal(e)
  PROVE  JournalledBeforeCommit' /\ JournalledOnce'
<1>1. \A f \in Cycles : InJournal(f)' <=> InJournal(f)
  BY DEF InJournal
<1>2. JournalledBeforeCommit'
  <2> SUFFICES ASSUME NEW f \in Cycles, workers'[f].pc \in {"feedback", "commit", "count"}
               PROVE  InJournal(f)
    BY <1>1 DEF JournalledBeforeCommit
  <2> QED
    BY DEF Moves, IInv, JournalledBeforeCommit
<1>3. JournalledOnce'
  <2> SUFFICES ASSUME NEW f \in Cycles,
                      workers'[f].pc \in Undecided \cup {"none", "journal"}
               PROVE  ~InJournal(f)
    BY <1>1 DEF JournalledOnce
  <2> QED
    BY DEF Moves, IInv, JournalledOnce
<1> QED
  BY <1>2, <1>3

LEMMA SlotKept ==
  ASSUME IInv, UNCHANGED <<slot, journal>>
  PROVE  SlotJournalled'
  BY DEF IInv, SlotJournalled, InJournal

LEMMA VerdictKept ==
  ASSUME IInv, UNCHANGED <<events, feedback, journal>>, stats'.timeouts = stats.timeouts
  PROVE  SeenBound' /\ VerdictNotLost'
  BY DEF IInv, SeenBound, VerdictNotLost

LEMMA SnapshotKept ==
  ASSUME IInv, NEW e \in Cycles, NEW to, Moves(e, to), UNCHANGED events,
         feedback'.seen = feedback.seen, stats'.timeouts = stats.timeouts,
         to = "observe" => /\ workers'[e].snapshot <= Len(events)
                           /\ feedback.seen <= workers'[e].snapshot
  PROVE  SnapshotBound'
<1> SUFFICES ASSUME NEW f \in Cycles, workers'[f].pc = "observe"
             PROVE  /\ workers'[f].snapshot <= Len(events)
                    /\ stats.timeouts = 0 => feedback.seen <= workers'[f].snapshot
  BY DEF SnapshotBound
<1>1. CASE f = e
  BY <1>1 DEF Moves
<1>2. CASE f # e
  BY <1>2 DEF Moves, IInv, SnapshotBound
<1> QED
  BY <1>1, <1>2

LEMMA AnswersKept ==
  ASSUME IInv, NEW e \in Cycles, NEW to, Moves(e, to), UNCHANGED <<feedback, journal>>,
         stats'.timeouts = stats.timeouts, to # "feedback",
         to \in {"resolve", "digest", "observe", "capture"} => workers'[e].corrects = NoCycle,
         to \in {"infer", "check", "journal"} /\ stats.timeouts = 0 =>
           workers'[e].corrects \in {feedback.pending, NoCycle}
  PROVE  NothingYetCorrected' /\ AnswersPending'
<1>3. NothingYetCorrected'
  BY DEF Moves, IInv, NothingYetCorrected
<1> SUFFICES ASSUME stats.timeouts = 0, NEW f \in Cycles
             PROVE  /\ workers'[f].pc \in {"infer", "check", "journal", "feedback"} =>
                         workers'[f].corrects \in {feedback.pending, NoCycle}
                    /\ workers'[f].pc = "feedback" =>
                         workers'[f].corrects # NoCycle /\ \E i \in DOMAIN journal :
                           journal[i].corrects = workers'[f].corrects
  BY <1>3 DEF AnswersPending
<1>1. CASE f = e
  BY <1>1 DEF Moves
<1>2. CASE f # e
  BY <1>2 DEF Moves, IInv, AnswersPending
<1> QED
  BY <1>1, <1>2

\* A step that touches the thread, the counters and the cache only.
LEMMA QuietStep ==
  ASSUME IInv, NEW e \in Cycles, NEW to \in Counted \cup {"finally"}, Moves(e, to),
         workers[e].pc \in Counted, to # "feedback",
         UNCHANGED <<callback, inflight, slot, feedback, events, journal>>,
         stats' \in Statistics,
         stats'.triggers = stats.triggers, stats'.timeouts = stats.timeouts,
         Outcomes(stats') = Outcomes(stats) + (IF to = "finally" THEN 1 ELSE 0),
         cache' \in Cached,
         to \in {"check"} \cup Delivering =>
           workers'[e].plan \in PlanRecord /\ workers'[e].plan.cycle = e,
         to \in {"feedback", "commit", "count"} => InJournal(e),
         to \in Undecided \cup {"none", "journal"} => ~InJournal(e),
         to \in {"resolve", "digest", "observe", "capture"} => workers'[e].corrects = NoCycle,
         to \in {"infer", "check", "journal"} /\ stats.timeouts = 0 =>
           workers'[e].corrects \in {feedback.pending, NoCycle},
         to = "observe" => /\ workers'[e].snapshot <= Len(events)
                           /\ feedback.seen <= workers'[e].snapshot
  PROVE  IInv'
<1>1. Outcomes(stats') \in Nat
  BY DEF Outcomes, Statistics
<1>2. StartedToEpoch' /\ EveryCycleAccounted' /\ NewestInFlight'
  BY <1>1, ThreadsKept DEF callback
<1>3. TypeOK'
  BY DEF IInv, TypeOK, Moves, callback
<1>4. PlanOfCycle'
  BY PlansKept
<1>5. JournalledBeforeCommit' /\ JournalledOnce'
  BY JournalKept
<1>6. SlotJournalled' /\ SeenBound' /\ VerdictNotLost'
  BY SlotKept, VerdictKept
<1>7. NothingYetCorrected' /\ AnswersPending' /\ SnapshotBound'
  BY AnswersKept, SnapshotKept
<1> QED
  BY <1>2, <1>3, <1>4, <1>5, <1>6, <1>7 DEF IInv

\* One more of what a field counts.
LEMMA OutcomeCounted ==
  ASSUME IInv, NEW field \in {"holds", "failed", "accepted"}, Count(field)
  PROVE  /\ stats' \in Statistics
         /\ stats'.triggers = stats.triggers /\ stats'.timeouts = stats.timeouts
         /\ Outcomes(stats') = Outcomes(stats) + 1
<1>1. stats \in Statistics
  BY DEF IInv, TypeOK
<1>2. CASE field = "holds"
  <2>1. stats' = [stats EXCEPT !.holds = @ + 1]
    BY <1>2 DEF Count
  <2> QED
    BY <1>1, <2>1 DEF Statistics, Outcomes
<1>3. CASE field = "failed"
  <2>1. stats' = [stats EXCEPT !.failed = @ + 1]
    BY <1>3 DEF Count
  <2> QED
    BY <1>1, <2>1 DEF Statistics, Outcomes
<1>4. CASE field = "accepted"
  <2>1. stats' = [stats EXCEPT !.accepted = @ + 1]
    BY <1>4 DEF Count
  <2> QED
    BY <1>1, <2>1 DEF Statistics, Outcomes
<1> QED
  BY <1>2, <1>3, <1>4

\* A step that ends a cycle with one of the outcomes.
LEMMA EndStep ==
  ASSUME IInv, NEW e \in Cycles, Moves(e, "finally"), workers[e].pc \in Counted,
         UNCHANGED <<callback, inflight, slot, cache, feedback, events, journal>>,
         stats' \in Statistics,
         stats'.triggers = stats.triggers, stats'.timeouts = stats.timeouts,
         Outcomes(stats') = Outcomes(stats) + 1
  PROVE  IInv'
<1> DEFINE to == "finally"
<1>1. to \in Counted \cup {"finally"}
  OBVIOUS
<1>2. Outcomes(stats') = Outcomes(stats) + (IF to = "finally" THEN 1 ELSE 0)
  OBVIOUS
<1>3. /\ to \notin {"check"} \cup Delivering /\ to \notin {"feedback", "commit", "count"}
      /\ to \notin Undecided \cup {"none", "journal"} /\ to \notin {"infer", "check", "journal"}
      /\ to # "feedback" /\ to \notin {"resolve", "digest", "observe", "capture"}
      /\ to # "observe"
  BY DEF Delivering, Undecided
<1>4. cache' \in Cached
  BY DEF IInv, TypeOK
<1>5. UNCHANGED <<callback, inflight, slot, feedback, events, journal>>
  OBVIOUS
<1>6. Moves(e, to)
  OBVIOUS
<1> HIDE DEF to
<1> QED
  BY <1>1, <1>2, <1>3, <1>4, <1>5, <1>6, QuietStep

\* A step that counts and caches nothing.
LEMMA StillStep ==
  ASSUME IInv, NEW e \in Cycles, NEW to \in {"digest", "observe", "infer"}, Moves(e, to),
         workers[e].pc \in Undecided,
         UNCHANGED <<callback, inflight, stats, slot, cache, feedback, events, journal>>,
         to \in {"digest", "observe"} => workers'[e].corrects = NoCycle,
         to = "observe" => /\ workers'[e].snapshot <= Len(events)
                           /\ feedback.seen <= workers'[e].snapshot,
         to = "infer" /\ stats.timeouts = 0 =>
           workers'[e].corrects \in {feedback.pending, NoCycle}
  PROVE  IInv'
<1>1. /\ to \in Counted \cup {"finally"} /\ to # "feedback" /\ to # "finally"
      /\ to \notin {"check"} \cup Delivering /\ to \notin {"feedback", "commit", "count"}
      /\ to \in {"infer", "check", "journal"} => to = "infer"
      /\ to \in {"resolve", "digest", "observe", "capture"} => to \in {"digest", "observe"}
  BY DEF Counted, Delivering, Undecided
<1>2. workers[e].pc \in Counted /\ ~InJournal(e)
  BY DEF Counted, IInv, JournalledOnce
<1>3. /\ stats' \in Statistics /\ cache' \in Cached
      /\ stats'.triggers = stats.triggers /\ stats'.timeouts = stats.timeouts
      /\ Outcomes(stats') = Outcomes(stats) /\ Outcomes(stats) \in Nat
  <2>1. stats \in Statistics /\ cache \in Cached
    BY DEF IInv, TypeOK
  <2>2. Outcomes(stats) \in Nat
    BY <2>1 DEF Statistics, Outcomes
  <2> QED
    BY <2>1, <2>2
<1>4. Outcomes(stats') = Outcomes(stats) + (IF to = "finally" THEN 1 ELSE 0)
  BY <1>1, <1>3
<1>5. UNCHANGED <<callback, inflight, slot, feedback, events, journal>>
  OBVIOUS
<1> QED
  BY <1>1, <1>2, <1>3, <1>4, <1>5, QuietStep

-----------------------------------------------------------------------------
(* The steps of a thread.                                                  *)

LEMMA HoldCycleStep ==
  ASSUME IInv, NEW e \in Cycles, HoldCycle(e)
  PROVE  IInv'
<1>1. Moves(e, "finally")
  BY GotoMoves DEF HoldCycle, PCs, IInv
<1>2. workers[e].pc \in Counted
  BY DEF HoldCycle, At, Counted, Undecided
<1>3. Count("holds") /\ UNCHANGED <<callback, inflight, slot, cache, feedback, events, journal>>
  BY DEF HoldCycle
<1> QED
  BY <1>1, <1>2, <1>3, OutcomeCounted, EndStep

LEMMA MissCacheStep ==
  ASSUME IInv, NEW e \in Cycles, MissCache(e)
  PROVE  IInv'
<1>1. Moves(e, "digest") /\ Keeps(e)
  BY GotoMoves DEF MissCache, PCs, Undecided, IInv
<1>2. /\ workers[e].pc \in Undecided
      /\ UNCHANGED <<callback, inflight, stats, slot, cache, feedback, events, journal>>
  BY DEF MissCache, At, Undecided
<1>3. workers'[e].corrects = NoCycle
  BY <1>1 DEF MissCache, At, Keeps, IInv, NothingYetCorrected
<1> QED
  BY <1>1, <1>2, <1>3, StillStep

LEMMA TakeSnapshotStep ==
  ASSUME IInv, NEW e \in Cycles, TakeSnapshot(e)
  PROVE  IInv'
<1> DEFINE n == Len(events)
<1>1. /\ workers[e].pc = "digest"
      /\ workers' = [workers EXCEPT ![e].pc = "observe", ![e].snapshot = n]
      /\ UNCHANGED <<callback, inflight, stats, slot, cache, feedback, events, journal>>
  BY DEF TakeSnapshot, At
<1>2. /\ workers \in [Cycles -> Thread] /\ feedback.seen \in Nat
      /\ n \in Nat /\ feedback.seen <= n
  <2>1. events \in Seq([plan : EventIds, decision : Verdict, generation : Nat])
    BY DEF IInv, TypeOK
  <2> QED
    BY <2>1, LenProperties DEF IInv, TypeOK, SeenBound
<1> HIDE DEF n
<1>3. /\ Moves(e, "observe") /\ workers'[e].snapshot = n
      /\ workers'[e].corrects = workers[e].corrects
  <2> DEFINE thread == [workers[e] EXCEPT !.pc = "observe", !.snapshot = n]
  <2>1. workers' = [workers EXCEPT ![e] = thread]
    BY <1>1, <1>2
  <2>2. /\ thread \in Thread /\ thread.pc = "observe" /\ thread.snapshot = n
        /\ thread.corrects = workers[e].corrects
    BY <1>2 DEF Thread, PCs, Undecided
  <2> HIDE DEF thread
  <2> QED
    BY <1>2, <2>1, <2>2 DEF Moves
<1>4. /\ workers'[e].snapshot <= Len(events) /\ feedback.seen <= workers'[e].snapshot
  BY <1>2, <1>3 DEF n
<1>5. workers'[e].corrects = NoCycle /\ workers[e].pc \in Undecided
  BY <1>1, <1>3 DEF IInv, NothingYetCorrected, Undecided
<1> QED
  BY <1>1, <1>3, <1>4, <1>5, StillStep

LEMMA CapturePendingStep ==
  ASSUME IInv, NEW e \in Cycles, CapturePending(e)
  PROVE  IInv'
<1> DEFINE p == feedback.pending
<1>1. /\ workers[e].pc \in Undecided
      /\ workers' = [workers EXCEPT ![e].pc = "infer", ![e].corrects = p]
      /\ UNCHANGED <<callback, inflight, stats, slot, cache, feedback, events, journal>>
  BY DEF CapturePending, At, Undecided
<1>2. p \in EventIds \cup {NoCycle} /\ workers \in [Cycles -> Thread]
  BY DEF IInv, TypeOK
<1> HIDE DEF p
<1>3. Moves(e, "infer") /\ workers'[e].corrects = p
  <2> DEFINE thread == [workers[e] EXCEPT !.pc = "infer", !.corrects = p]
  <2>1. workers' = [workers EXCEPT ![e] = thread]
    BY <1>1, <1>2
  <2>2. thread \in Thread /\ thread.pc = "infer" /\ thread.corrects = p
    <3>1. workers[e] \in Thread
      BY <1>2
    <3> QED
      BY <1>2, <3>1 DEF Thread, PCs, Undecided
  <2> HIDE DEF thread
  <2> QED
    BY <1>2, <2>1, <2>2 DEF Moves
<1> QED
  BY <1>1, <1>3, StillStep DEF p

LEMMA ModelFailsStep ==
  ASSUME IInv, NEW e \in Cycles, ModelFails(e)
  PROVE  IInv'
<1>1. Moves(e, "finally")
  BY GotoMoves DEF ModelFails, PCs, IInv
<1>2. workers[e].pc \in Counted
  BY DEF ModelFails, At, Counted, Undecided
<1>3. Count("failed") /\ UNCHANGED <<callback, inflight, slot, cache, feedback, events, journal>>
  BY DEF ModelFails
<1> QED
  BY <1>1, <1>2, <1>3, OutcomeCounted, EndStep

LEMMA RaiseStep ==
  ASSUME IInv, NEW e \in Cycles, Raise(e)
  PROVE  IInv'
<1>1. Moves(e, "finally")
  BY GotoMoves DEF Raise, PCs, IInv
<1>2. workers[e].pc \in Counted
  BY DEF Raise, At, Counted, Undecided, Delivering
<1>3. Count("failed") /\ UNCHANGED <<callback, inflight, slot, cache, feedback, events, journal>>
  BY DEF Raise
<1> QED
  BY <1>1, <1>2, <1>3, OutcomeCounted, EndStep

LEMMA CountAcceptedStep ==
  ASSUME IInv, NEW e \in Cycles, CountAccepted(e)
  PROVE  IInv'
<1>1. Moves(e, "finally")
  BY GotoMoves DEF CountAccepted, PCs, IInv
<1>2. workers[e].pc \in Counted
  BY DEF CountAccepted, At, Counted, Delivering
<1>3. Count("accepted") /\ UNCHANGED <<callback, inflight, slot, cache, feedback, events, journal>>
  BY DEF CountAccepted
<1> QED
  BY <1>1, <1>2, <1>3, OutcomeCounted, EndStep

\* A step that leaves thread e with a plan of its own cycle to check.
LEMMA PlanObtained ==
  ASSUME IInv, NEW e \in Cycles, NEW from \in Cycles, workers[e].pc \in Undecided,
         Moves(e, "check"), workers'[e].plan = [cycle |-> e, from |-> from],
         stats.timeouts = 0 => workers'[e].corrects \in {feedback.pending, NoCycle},
         UNCHANGED <<callback, inflight, slot, feedback, events, journal>>,
         stats' \in Statistics, stats'.triggers = stats.triggers,
         stats'.timeouts = stats.timeouts, Outcomes(stats') = Outcomes(stats),
         cache' \in Cached
  PROVE  IInv'
<1> DEFINE to == "check"
<1>1. /\ to \in Counted \cup {"finally"} /\ to # "feedback" /\ to # "finally"
      /\ to \notin {"feedback", "commit", "count"}
      /\ to \notin {"resolve", "digest", "observe", "capture"} /\ to # "observe"
  BY DEF Counted, Delivering, Undecided
<1>2. workers[e].pc \in Counted /\ ~InJournal(e)
  BY DEF Counted, IInv, JournalledOnce
<1>3. workers'[e].plan \in PlanRecord /\ workers'[e].plan.cycle = e
  BY DEF PlanRecord
<1>4. Outcomes(stats') = Outcomes(stats) + (IF to = "finally" THEN 1 ELSE 0)
  BY <1>1, StatsType DEF IInv, Outcomes
<1>5. Moves(e, to)
  OBVIOUS
<1> HIDE DEF to
<1> QED
  BY <1>1, <1>2, <1>3, <1>4, <1>5, QuietStep

LEMMA ReuseCachedStep ==
  ASSUME IInv, NEW e \in Cycles, ReuseCached(e)
  PROVE  IInv'
<1> DEFINE from == cache.entries[KeyOf(e)].from
           plan == [cycle |-> e, from |-> from]
<1>1. /\ workers[e].pc = "resolve"
      /\ stats' = [stats EXCEPT !.hits = @ + 1]
      /\ cache' = [cache EXCEPT !.avoided = @ + 1]
      /\ workers' = [workers EXCEPT ![e].pc = "check", ![e].cached = TRUE, ![e].plan = plan]
      /\ UNCHANGED <<callback, inflight, slot, feedback, events, journal>>
  BY DEF ReuseCached, At, Count
<1>2. /\ stats \in Statistics /\ cache \in Cached /\ workers \in [Cycles -> Thread]
      /\ workers[e].input \in Input
  BY ThreadFields DEF IInv, TypeOK
<1>3. from \in Cycles
  <2>1. KeyOf(e) \in Situations /\ cache.entries[KeyOf(e)] # NoPlan
    BY <1>2 DEF ReuseCached, Hit, HasState, KeyOf, Input
  <2>2. cache.entries[KeyOf(e)] \in PlanRecord
    BY <1>2, <2>1 DEF Cached
  <2> QED
    BY <2>2 DEF PlanRecord
<1> HIDE DEF from
<1>4. plan \in PlanRecord
  BY <1>3 DEF PlanRecord
<1>5. /\ Moves(e, "check") /\ workers'[e].plan = plan
      /\ workers'[e].corrects = workers[e].corrects
  <2> HIDE DEF plan
  <2> DEFINE thread == [workers[e] EXCEPT !.pc = "check", !.cached = TRUE, !.plan = plan]
  <2>1. workers' = [workers EXCEPT ![e] = thread]
    BY <1>1, <1>2
  <2>2. workers[e] \in Thread
    BY <1>2
  <2>3. /\ thread \in Thread /\ thread.pc = "check" /\ thread.plan = plan
        /\ thread.corrects = workers[e].corrects
    BY <2>2, <1>4 DEF Thread, PCs, Undecided
  <2> HIDE DEF thread
  <2> QED
    BY <1>2, <2>1, <2>3 DEF Moves
<1>6. /\ stats' \in Statistics /\ stats'.triggers = stats.triggers
      /\ stats'.timeouts = stats.timeouts /\ Outcomes(stats') = Outcomes(stats)
  BY <1>1, <1>2 DEF Statistics, Outcomes
<1>7. cache' \in Cached
  BY <1>1, <1>2 DEF Cached
<1>8. workers[e].corrects = NoCycle
  BY <1>1 DEF IInv, NothingYetCorrected
<1> QED
  BY <1>1, <1>3, <1>5, <1>6, <1>7, <1>8, PlanObtained DEF Undecided

LEMMA ModelAnswersStep ==
  ASSUME IInv, NEW e \in Cycles, ModelAnswers(e)
  PROVE  IInv'
<1> DEFINE plan == [cycle |-> e, from |-> e]
<1>1. /\ workers[e].pc = "infer"
      /\ cache' = IF HasState(e)
                  THEN [cache EXCEPT !.entries[KeyOf(e)] = plan, !.made = @ + 1]
                  ELSE cache
      /\ workers' = [workers EXCEPT ![e].pc = "check", ![e].plan = plan]
      /\ UNCHANGED <<callback, inflight, stats, slot, feedback, events, journal>>
  BY DEF ModelAnswers, At
<1>2. /\ stats \in Statistics /\ cache \in Cached /\ workers \in [Cycles -> Thread]
      /\ workers[e].input \in Input
  BY ThreadFields DEF IInv, TypeOK
<1>3. plan \in PlanRecord
  BY DEF PlanRecord
<1> HIDE DEF plan
<1>4. /\ Moves(e, "check") /\ workers'[e].plan = plan
      /\ workers'[e].corrects = workers[e].corrects
  <2> DEFINE thread == [workers[e] EXCEPT !.pc = "check", !.plan = plan]
  <2>1. workers' = [workers EXCEPT ![e] = thread]
    BY <1>1, <1>2
  <2>2. /\ thread \in Thread /\ thread.pc = "check" /\ thread.plan = plan
        /\ thread.corrects = workers[e].corrects
    BY <1>2, <1>3 DEF Thread, PCs, Undecided
  <2> HIDE DEF thread
  <2> QED
    BY <1>2, <2>1, <2>2 DEF Moves
<1>5. /\ stats' \in Statistics /\ stats'.triggers = stats.triggers
      /\ stats'.timeouts = stats.timeouts /\ Outcomes(stats') = Outcomes(stats)
  BY <1>1, <1>2
<1>6. cache' \in Cached
  <2>1. CASE HasState(e)
    <3>1. KeyOf(e) \in Situations
      BY <1>2, <2>1 DEF HasState, KeyOf, Input
    <3> DEFINE entries == [cache.entries EXCEPT ![KeyOf(e)] = plan]
    <3>2. entries \in [Situations -> PlanRecord \cup {NoPlan}] /\ cache.made \in Nat
      BY <1>2, <1>3, <3>1 DEF Cached
    <3> DEFINE made == cache.made + 1
    <3>3. cache' = [cache EXCEPT !.entries = entries, !.made = made] /\ made \in Nat
      BY <1>1, <2>1, <3>2
    <3> HIDE DEF entries, made
    <3> QED
      BY <1>2, <3>2, <3>3 DEF Cached
  <2>2. CASE ~HasState(e)
    BY <1>1, <1>2, <2>2
  <2> QED
    BY <2>1, <2>2
<1>7. stats.timeouts = 0 => workers[e].corrects \in {feedback.pending, NoCycle}
  BY <1>1 DEF IInv, AnswersPending
<1>8. workers'[e].plan = [cycle |-> e, from |-> e]
  BY <1>4 DEF plan
<1> QED
  BY <1>1, <1>4, <1>5, <1>6, <1>7, <1>8, PlanObtained DEF Undecided

LEMMA CheckEpochStep ==
  ASSUME IInv, NEW e \in Cycles, CheckEpoch(e)
  PROVE  IInv'
<1> DEFINE planned == IF workers[e].cached THEN 0 ELSE 1
<1>1. /\ workers[e].pc = "check"
      /\ stats' = [stats EXCEPT !.made = @ + planned,
                               !.discarded = @ + (IF Superseded(e) THEN 1 ELSE 0)]
      /\ Goto(e, IF Superseded(e) THEN "finally" ELSE "journal")
      /\ UNCHANGED <<callback, inflight, slot, cache, feedback, events, journal>>
  BY DEF CheckEpoch, At
<1>2. stats \in Statistics /\ cache \in Cached /\ planned \in Nat /\ TypeOK
  BY DEF IInv, TypeOK
<1> HIDE DEF planned
<1>3. workers[e].pc \in Counted
  BY <1>1 DEF Counted, Undecided
<1>4. CASE Superseded(e)
  <2>1. Moves(e, "finally")
    BY <1>1, <1>2, <1>4, GotoMoves DEF PCs
  <2> DEFINE made == stats.made + planned
             discarded == stats.discarded + 1
  <2>2. stats' = [stats EXCEPT !.made = made, !.discarded = discarded]
    BY <1>1, <1>4
  <2>3. /\ stats' \in Statistics /\ stats'.triggers = stats.triggers
        /\ stats'.timeouts = stats.timeouts /\ Outcomes(stats') = Outcomes(stats) + 1
    <3>1. stats' \in Statistics
      <4>1. made \in Nat /\ discarded \in Nat
        BY <1>2 DEF Statistics
      <4> HIDE DEF made, discarded
      <4> QED
        BY <1>2, <2>2, <4>1 DEF Statistics
    <3>2. /\ stats'.triggers = stats.triggers /\ stats'.timeouts = stats.timeouts
          /\ stats'.accepted = stats.accepted /\ stats'.failed = stats.failed
          /\ stats'.holds = stats.holds /\ stats'.discarded = stats.discarded + 1
      BY <1>2, <2>2 DEF Statistics
    <3>3. /\ stats.accepted \in Nat /\ stats.failed \in Nat /\ stats.holds \in Nat
          /\ stats.discarded \in Nat
      BY <1>2, StatsType
    <3>4. Outcomes(stats') = Outcomes(stats) + 1
      BY <3>2, <3>3 DEF Outcomes
    <3> QED
      BY <3>1, <3>2, <3>4
  <2> QED
    BY <1>1, <1>3, <2>1, <2>3, EndStep
<1>5. CASE ~Superseded(e)
  <2> DEFINE to == "journal"
  <2>1. Moves(e, to) /\ Keeps(e)
    BY <1>1, <1>2, <1>5, GotoMoves DEF PCs, Delivering
  <2> DEFINE made == stats.made + planned
             discarded == stats.discarded + 0
  <2>2. stats' = [stats EXCEPT !.made = made, !.discarded = discarded]
    BY <1>1, <1>5
  <2>9. /\ stats.accepted \in Nat /\ stats.failed \in Nat /\ stats.holds \in Nat
        /\ stats.discarded \in Nat
    BY <1>2, StatsType
  <2>3. /\ stats' \in Statistics /\ stats'.triggers = stats.triggers
        /\ stats'.timeouts = stats.timeouts /\ Outcomes(stats') = Outcomes(stats)
        /\ Outcomes(stats) \in Nat
    <3>1. stats' \in Statistics
      <4>1. made \in Nat /\ discarded \in Nat
        BY <1>2 DEF Statistics
      <4> HIDE DEF made, discarded
      <4> QED
        BY <1>2, <2>2, <4>1 DEF Statistics
    <3>2. /\ stats'.triggers = stats.triggers /\ stats'.timeouts = stats.timeouts
          /\ stats'.accepted = stats.accepted /\ stats'.failed = stats.failed
          /\ stats'.holds = stats.holds /\ stats'.discarded = stats.discarded + 0
      BY <1>2, <2>2 DEF Statistics
    <3> QED
      BY <3>1, <3>2, <2>9 DEF Outcomes
  <2>4. workers'[e].plan \in PlanRecord /\ workers'[e].plan.cycle = e /\ ~InJournal(e)
    BY <1>1, <2>1 DEF Keeps, IInv, PlanOfCycle, JournalledOnce, Undecided
  <2>5. stats.timeouts = 0 => workers'[e].corrects \in {feedback.pending, NoCycle}
    BY <1>1, <2>1 DEF Keeps, IInv, AnswersPending
  <2>6. /\ to \in Counted \cup {"finally"} /\ to # "feedback" /\ to # "finally"
        /\ to \notin {"feedback", "commit", "count"}
        /\ to \notin {"resolve", "digest", "observe", "capture"} /\ to # "observe"
    BY DEF Counted, Delivering
  <2>7. Outcomes(stats') = Outcomes(stats) + (IF to = "finally" THEN 1 ELSE 0)
    BY <2>3, <2>6
  <2>8. UNCHANGED <<callback, inflight, slot, feedback, events, journal>> /\ cache' \in Cached
    BY <1>1, <1>2
  <2> HIDE DEF to
  <2> QED
    BY <1>3, <2>1, <2>3, <2>4, <2>5, <2>6, <2>7, <2>8, QuietStep
<1> QED
  BY <1>4, <1>5

\* While nothing was preempted, only the newest cycle runs.
LEMMA OnlyNewestRuns ==
  ASSUME IInv, stats.timeouts = 0, NEW f \in Cycles, workers[f].pc \notin {"none", "done"}
  PROVE  f = epoch
<1> DEFINE others == Running \ {epoch}
<1>1. IsFiniteSet(others) /\ Cardinality(others) \in Nat
  <2>1. others \in SUBSET Cycles
    BY DEF Running
  <2> QED
    BY <2>1, CyclesFinite
<1>2. Cardinality(others) = 0
  BY <1>1 DEF IInv, NewestInFlight
<1>3. others = {}
  <2> HIDE DEF others
  <2> QED
    BY <1>1, <1>2, FS_EmptySet
<1> QED
  BY <1>3 DEF Running

Corrected(p) == \E i \in DOMAIN journal : journal[i].corrects = p

LEMMA JournalType ==
  ASSUME TypeOK
  PROVE  /\ journal \in Seq([plan : Cycles, corrects : EventIds \cup {NoCycle}])
         /\ Len(journal) \in Nat /\ DOMAIN journal = 1 .. Len(journal)
         /\ Len(events) \in Nat /\ DOMAIN events = 1 .. Len(events)
<1>1. /\ journal \in Seq([plan : Cycles, corrects : EventIds \cup {NoCycle}])
      /\ events \in Seq([plan : EventIds, decision : Verdict, generation : Nat])
  BY DEF TypeOK
<1> QED
  BY <1>1, LenProperties

\* The property, in the terms of this module.
NewestSettled ==
  Bad(feedback.seen) # {} =>
    \/ feedback.pending = Newest(Bad(feedback.seen))
    \/ Corrected(Newest(Bad(feedback.seen)))

LEMMA VerdictNotLostSaid == VerdictNotLost <=> (stats.timeouts = 0 => NewestSettled)
  BY DEF VerdictNotLost, NewestSettled, Bad, Newest, Corrected

LEMMA VerdictNotLostNext == VerdictNotLost' <=> (stats'.timeouts = 0 => NewestSettled')
  BY DEF VerdictNotLost, NewestSettled, Bad, Newest, Corrected

\* The complaint the tracker latches is the pending one or one not seen before.
LEMMA LatchedFresh ==
  ASSUME IInv, NEW n \in Nat
  PROVE  /\ Latched(feedback, n) \in EventIds \cup {NoCycle}
         /\ \/ Latched(feedback, n) = feedback.pending
            \/ \E i \in DOMAIN events : /\ feedback.seen < i /\ i <= n
                                        /\ events[i].decision # "accepted"
                                        /\ Latched(feedback, n) = events[i].plan
<1> DEFINE fresh == Fresh(feedback, n)
<1>1. Latched(feedback, n) = IF fresh = {} THEN feedback.pending ELSE Newest(fresh)
  BY DEF Latched, Newest
<1>2. TypeOK /\ feedback.pending \in EventIds \cup {NoCycle}
  BY DEF IInv, TypeOK
<1>3. fresh \subseteq DOMAIN events
  BY DEF Fresh
<1>4. \A i \in fresh : feedback.seen < i /\ i <= n /\ events[i].decision # "accepted"
  BY DEF Fresh
<1> HIDE DEF fresh
<1>5. CASE fresh = {}
  BY <1>1, <1>2, <1>5
<1>6. CASE fresh # {}
  <2>1. PICK i \in fresh : Newest(fresh) = events[i].plan /\ Newest(fresh) \in EventIds
    BY <1>2, <1>3, <1>6, NewestIsEvent
  <2>2. Latched(feedback, n) = events[i].plan /\ Latched(feedback, n) \in EventIds
    BY <1>1, <1>6, <2>1
  <2> QED
    BY <1>3, <1>4, <2>1, <2>2
<1> QED
  BY <1>5, <1>6

\* A tracker that is shown no less than it has seen catches up with the newest
\* complaint.
LEMMA LatchedNewest ==
  ASSUME IInv, NEW n \in Nat, feedback.seen <= n
  PROVE  \/ /\ Bad(n) = Bad(feedback.seen)
            /\ Latched(feedback, n) = feedback.pending
         \/ Latched(feedback, n) = Newest(Bad(n))
<1> DEFINE fresh == Fresh(feedback, n)
           all == Bad(n)
<1>1. /\ Len(events) \in Nat /\ DOMAIN events = 1 .. Len(events)
      /\ feedback.seen \in Nat /\ TypeOK
  BY JournalType DEF IInv, TypeOK
<1>2. Latched(feedback, n) = IF fresh = {} THEN feedback.pending ELSE Newest(fresh)
  BY DEF Latched, Newest
<1>3. all = Bad(feedback.seen) \cup fresh /\ fresh \subseteq all /\ all \subseteq DOMAIN events
  BY <1>1 DEF Bad, Fresh
<1>4. \A i \in all : i \in fresh <=> i > feedback.seen
  BY <1>1 DEF Bad, Fresh
<1>5. fresh \subseteq DOMAIN events
  BY DEF Fresh
<1>6. \A i \in fresh : i > feedback.seen /\ i \in Nat
  BY <1>1 DEF Fresh
<1> HIDE DEF all, fresh
<1>7. CASE fresh = {}
  BY <1>1, <1>2, <1>3, <1>7 DEF all
<1>8. CASE fresh # {}
  <2>3. PICK i \in fresh : /\ \A j \in fresh : j <= i
                          /\ Newest(fresh) = events[i].plan /\ Newest(fresh) \in EventIds
    BY <1>1, <1>5, <1>8, NewestIsEvent
  <2>4. PICK k \in all : /\ \A j \in all : j <= k
                         /\ Newest(all) = events[k].plan
    BY <1>1, <1>3, <1>8, NewestIsEvent
  <2>5. i <= k /\ i > feedback.seen /\ i \in Nat /\ k \in Nat
    BY <1>1, <1>3, <1>6, <2>4
  <2>6. k > feedback.seen
    BY <1>1, <2>5
  <2>7. k <= i
    BY <1>4, <2>3, <2>6
  <2>8. Newest(fresh) = Newest(all)
    BY <2>3, <2>4, <2>5, <2>7
  <2> QED
    BY <1>2, <1>8, <2>3, <2>8 DEF all
<1> QED
  BY <1>7, <1>8

LEMMA ObserveStep ==
  ASSUME IInv, NEW e \in Cycles, Observe(e)
  PROVE  IInv'
<1> DEFINE n == workers[e].snapshot
<1>1. /\ workers[e].pc = "observe" /\ Goto(e, "capture")
      /\ feedback' = [seen |-> n, pending |-> Latched(feedback, n)]
      /\ UNCHANGED <<callback, inflight, stats, slot, cache, events, journal>>
  BY DEF Observe, At
<1>2. TypeOK /\ stats \in Statistics /\ cache \in Cached /\ n \in Nat
  BY ThreadFields DEF IInv, TypeOK
<1>0. n <= Len(events) /\ (stats.timeouts = 0 => feedback.seen <= n)
  BY <1>1 DEF IInv, SnapshotBound
<1> HIDE DEF n
<1>3. Moves(e, "capture") /\ Keeps(e)
  BY <1>1, <1>2, GotoMoves DEF PCs, Undecided
<1>4. workers[e].pc \in Counted /\ "capture" \in Counted \cup {"finally"} /\ ~InJournal(e)
  BY <1>1 DEF Counted, Undecided, IInv, JournalledOnce
<1>5. StartedToEpoch' /\ EveryCycleAccounted' /\ NewestInFlight'
  <2> DEFINE to == "capture"
  <2>1. /\ Outcomes(stats) \in Nat /\ Outcomes(stats') = Outcomes(stats)
        /\ UNCHANGED <<epoch, inflight, stats>>
    BY <1>1, <1>2 DEF Statistics, Outcomes, callback
  <2>2. Outcomes(stats') = Outcomes(stats) + (IF to = "finally" THEN 1 ELSE 0)
    BY <2>1
  <2> HIDE DEF to
  <2> QED
    BY <1>3, <1>4, <2>1, <2>2, ThreadsKept DEF to
<1>6. feedback' \in [seen : Nat, pending : EventIds \cup {NoCycle}]
  BY <1>1, <1>2, LatchedFresh
<1>7. TypeOK'
  BY <1>1, <1>2, <1>3, <1>6 DEF TypeOK, Moves, callback
<1>8. PlanOfCycle'
  BY <1>3, PlansKept DEF Delivering
<1>9. JournalledBeforeCommit' /\ JournalledOnce'
  BY <1>1, <1>3, <1>4, JournalKept
<1>10. SlotJournalled'
  BY <1>1, SlotKept
<1>11. SeenBound'
  BY <1>0, <1>1 DEF SeenBound
<1>12. NothingYetCorrected'
  BY <1>1, <1>3 DEF Moves, Keeps, IInv, NothingYetCorrected
<1>13. AnswersPending'
  <2> SUFFICES ASSUME stats.timeouts = 0, NEW f \in Cycles,
                      workers'[f].pc \in {"infer", "check", "journal", "feedback"}
               PROVE  FALSE
    BY <1>1 DEF AnswersPending
  <2>1. f # e /\ workers'[f] = workers[f]
    BY <1>3 DEF Moves
  <2>2. f = epoch /\ e = epoch
    BY <1>1, <2>1, OnlyNewestRuns
  <2> QED
    BY <2>1, <2>2
<1>14. SnapshotBound'
  <2> SUFFICES ASSUME NEW f \in Cycles, workers'[f].pc = "observe"
               PROVE  workers'[f].snapshot <= Len(events) /\ stats.timeouts # 0
    BY <1>1 DEF SnapshotBound
  <2>1. f # e /\ workers'[f] = workers[f]
    BY <1>3 DEF Moves
  <2>2. workers[f].snapshot <= Len(events)
    BY <2>1 DEF IInv, SnapshotBound
  <2>3. stats.timeouts = 0 => f = epoch /\ e = epoch
    BY <1>1, <2>1, OnlyNewestRuns
  <2> QED
    BY <2>1, <2>2, <2>3
<1>15. VerdictNotLost'
  <2> SUFFICES ASSUME stats.timeouts = 0
               PROVE  NewestSettled'
    BY <1>1, VerdictNotLostNext
  <2> DEFINE bad == Bad(n)
  <2>1. /\ Bad(feedback.seen)' = bad /\ feedback'.pending = Latched(feedback, n)
        /\ Newest(Bad(feedback.seen))' = Newest(bad)
        /\ Corrected(Newest(Bad(feedback.seen)))' <=> Corrected(Newest(bad))
    BY <1>1 DEF Bad, Newest, Corrected
  <2>2. bad # {} => Latched(feedback, n) = Newest(bad) \/ Corrected(Newest(bad))
    BY <1>0, <1>2, LatchedNewest, VerdictNotLostSaid DEF IInv, NewestSettled
  <2> QED
    BY <2>1, <2>2 DEF NewestSettled
<1> QED
  BY <1>5, <1>7, <1>8, <1>9, <1>10, <1>11, <1>12, <1>13, <1>14, <1>15 DEF IInv

LEMMA WritePlanStep ==
  ASSUME IInv, NEW e \in Cycles, WritePlan(e)
  PROVE  IInv'
<1> DEFINE c == workers[e].corrects
           to == IF c # NoCycle THEN "feedback" ELSE "commit"
           row == [plan |-> e, corrects |-> c]
<1>1. /\ workers[e].pc = "journal" /\ Goto(e, to) /\ journal' = Append(journal, row)
      /\ UNCHANGED <<callback, inflight, stats, slot, cache, feedback, events>>
  BY DEF WritePlan, At
<1>2. TypeOK /\ stats \in Statistics /\ cache \in Cached /\ c \in EventIds \cup {NoCycle}
  BY ThreadFields DEF IInv, TypeOK
<1>3. to \in {"feedback", "commit"} /\ (to = "feedback" => c # NoCycle)
  OBVIOUS
<1> HIDE DEF to
<1>4. Moves(e, to) /\ workers'[e].corrects = c /\ workers'[e].plan = workers[e].plan
  BY <1>1, <1>2, <1>3, GotoMoves DEF PCs, Delivering, Keeps
<1>5. row \in [plan : Cycles, corrects : EventIds \cup {NoCycle}]
  BY <1>2
<1>6. /\ journal' \in Seq([plan : Cycles, corrects : EventIds \cup {NoCycle}])
      /\ DOMAIN journal' = 1 .. Len(journal) + 1 /\ DOMAIN journal = 1 .. Len(journal)
      /\ Len(journal) \in Nat
      /\ \A i \in DOMAIN journal : journal'[i] = journal[i]
      /\ journal'[Len(journal) + 1] = row
  <2> HIDE DEF row
  <2> QED
    BY <1>1, <1>2, <1>5, JournalType, AppendProperties, LenProperties
<1>7. \A i \in DOMAIN journal' : i \in DOMAIN journal \/ i = Len(journal) + 1
  BY <1>6
<1>8. DOMAIN journal \subseteq DOMAIN journal' /\ Len(journal) + 1 \in DOMAIN journal'
  BY <1>6
<1>9. \A f : InJournal(f)' <=> (InJournal(f) \/ f = e)
  BY <1>6, <1>7, <1>8 DEF InJournal
<1>10. \A p : Corrected(p) \/ p = c => \E i \in DOMAIN journal' : journal'[i].corrects = p
  BY <1>6, <1>8 DEF Corrected
<1> HIDE DEF c, row
<1>11. StartedToEpoch' /\ EveryCycleAccounted' /\ NewestInFlight'
  <2>1. /\ Outcomes(stats) \in Nat /\ Outcomes(stats') = Outcomes(stats)
        /\ UNCHANGED <<epoch, inflight, stats>>
    BY <1>1, <1>2 DEF Statistics, Outcomes, callback
  <2>2. to # "finally" /\ to \in Counted \cup {"finally"} /\ workers[e].pc \in Counted
    BY <1>1, <1>3 DEF Counted, Delivering
  <2>3. Outcomes(stats') = Outcomes(stats) + (IF to = "finally" THEN 1 ELSE 0)
    BY <2>1, <2>2
  <2> QED
    BY <1>4, <2>1, <2>2, <2>3, ThreadsKept
<1>12. TypeOK'
  BY <1>1, <1>2, <1>4, <1>6 DEF TypeOK, Moves, callback
<1>13. PlanOfCycle'
  BY <1>1, <1>4, PlansKept DEF IInv, PlanOfCycle, Delivering
<1>14. JournalledBeforeCommit'
  BY <1>4, <1>9 DEF Moves, IInv, JournalledBeforeCommit
<1>15. JournalledOnce'
  <2> SUFFICES ASSUME NEW f \in Cycles, workers'[f].pc \in Undecided \cup {"none", "journal"}
               PROVE  ~InJournal(f)'
    BY DEF JournalledOnce
  <2>1. f # e
    BY <1>3, <1>4 DEF Moves, Undecided
  <2> QED
    BY <1>4, <1>9, <2>1 DEF Moves, IInv, JournalledOnce
<1>16. SlotJournalled'
  BY <1>1, <1>9 DEF IInv, SlotJournalled
<1>17. SeenBound' /\ SnapshotBound'
  <2>1. to # "observe"
    BY <1>3
  <2> QED
    BY <1>1, <1>4, <2>1, SnapshotKept DEF IInv, SeenBound
<1>18. NothingYetCorrected'
  BY <1>3, <1>4 DEF Moves, IInv, NothingYetCorrected
<1>19. AnswersPending'
  <2> SUFFICES ASSUME stats.timeouts = 0, NEW f \in Cycles
               PROVE  /\ workers'[f].pc \in {"infer", "check", "journal", "feedback"} =>
                           workers'[f].corrects \in {feedback.pending, NoCycle}
                      /\ workers'[f].pc = "feedback" =>
                           /\ workers'[f].corrects # NoCycle
                           /\ \E i \in DOMAIN journal' :
                                journal'[i].corrects = workers'[f].corrects
    BY <1>1 DEF AnswersPending
  <2>1. CASE f = e
    <3>1. c \in {feedback.pending, NoCycle}
      BY <1>1 DEF IInv, AnswersPending, c
    <3> QED
      BY <1>3, <1>4, <1>10, <2>1, <3>1 DEF Moves
  <2>2. CASE f # e
    BY <1>4, <1>10, <2>2 DEF Moves, IInv, AnswersPending, Corrected
  <2> QED
    BY <2>1, <2>2
<1>20. VerdictNotLost'
  <2> SUFFICES ASSUME stats.timeouts = 0
               PROVE  NewestSettled'
    BY <1>1, VerdictNotLostNext
  <2>1. /\ Bad(feedback.seen)' = Bad(feedback.seen) /\ feedback' = feedback
        /\ Newest(Bad(feedback.seen))' = Newest(Bad(feedback.seen))
    BY <1>1 DEF Bad, Newest
  <2>2. Corrected(Newest(Bad(feedback.seen))) => Corrected(Newest(Bad(feedback.seen)))'
    BY <1>10, <2>1 DEF Corrected
  <2> QED
    BY <2>1, <2>2, VerdictNotLostSaid DEF IInv, NewestSettled
<1> QED
  BY <1>11, <1>12, <1>13, <1>14, <1>15, <1>16, <1>17, <1>18, <1>19, <1>20 DEF IInv

LEMMA ResolveFeedbackStep ==
  ASSUME IInv, NEW e \in Cycles, ResolveFeedback(e)
  PROVE  IInv'
<1>1. /\ workers[e].pc = "feedback" /\ Goto(e, "commit")
      /\ feedback' = [feedback EXCEPT !.pending = NoCycle]
      /\ UNCHANGED <<callback, inflight, stats, slot, cache, events, journal>>
  BY DEF ResolveFeedback, At
<1>2. /\ TypeOK /\ stats \in Statistics
      /\ feedback \in [seen : Nat, pending : EventIds \cup {NoCycle}]
  BY DEF IInv, TypeOK
<1>3. Moves(e, "commit") /\ Keeps(e)
  BY <1>1, <1>2, GotoMoves DEF PCs, Delivering
<1>4. feedback'.seen = feedback.seen /\ feedback'.pending = NoCycle
  BY <1>1, <1>2
<1>5. StartedToEpoch' /\ EveryCycleAccounted' /\ NewestInFlight'
  <2> DEFINE to == "commit"
  <2>1. /\ Outcomes(stats) \in Nat /\ Outcomes(stats') = Outcomes(stats)
        /\ UNCHANGED <<epoch, inflight, stats>>
    BY <1>1, <1>2 DEF Statistics, Outcomes, callback
  <2>2. to # "finally" /\ to \in Counted \cup {"finally"} /\ workers[e].pc \in Counted
    BY <1>1 DEF Counted, Delivering
  <2>3. Outcomes(stats') = Outcomes(stats) + (IF to = "finally" THEN 1 ELSE 0)
    BY <2>1, <2>2
  <2>4. Moves(e, to)
    BY <1>3
  <2> HIDE DEF to
  <2> QED
    BY <2>1, <2>2, <2>3, <2>4, ThreadsKept
<1>6. TypeOK'
  BY <1>1, <1>2, <1>3 DEF TypeOK, Moves, callback
<1>7. PlanOfCycle'
  BY <1>1, <1>3, PlansKept DEF IInv, PlanOfCycle, Delivering, Keeps
<1>8. JournalledBeforeCommit' /\ JournalledOnce'
  <2>1. InJournal(e)
    BY <1>1 DEF IInv, JournalledBeforeCommit
  <2> QED
    BY <1>1, <1>3, <2>1, JournalKept DEF Undecided
<1>9. SlotJournalled' /\ SeenBound' /\ SnapshotBound'
  BY <1>1, <1>3, <1>4, SlotKept, SnapshotKept DEF IInv, SeenBound
<1>10. NothingYetCorrected'
  BY <1>3 DEF Moves, IInv, NothingYetCorrected
<1>11. AnswersPending'
  <2> SUFFICES ASSUME stats.timeouts = 0, NEW f \in Cycles,
                      workers'[f].pc \in {"infer", "check", "journal", "feedback"}
               PROVE  FALSE
    BY <1>1 DEF AnswersPending
  <2>1. f # e /\ workers'[f] = workers[f]
    BY <1>3 DEF Moves
  <2>2. f = epoch /\ e = epoch
    BY <1>1, <2>1, OnlyNewestRuns
  <2> QED
    BY <2>1, <2>2
<1>12. VerdictNotLost'
  <2> SUFFICES ASSUME stats.timeouts = 0
               PROVE  NewestSettled'
    BY <1>1, VerdictNotLostNext
  <2> DEFINE bad == Bad(feedback.seen)
  <2>1. /\ Bad(feedback.seen)' = bad
        /\ Newest(Bad(feedback.seen))' = Newest(bad)
        /\ Corrected(Newest(Bad(feedback.seen)))' <=> Corrected(Newest(bad))
    BY <1>1, <1>4 DEF Bad, Newest, Corrected
  <2>2. Corrected(feedback.pending)
    BY <1>1 DEF IInv, AnswersPending, Corrected
  <2>3. bad # {} => Corrected(Newest(bad))
    BY <2>2, VerdictNotLostSaid DEF IInv, NewestSettled
  <2> QED
    BY <2>1, <2>3 DEF NewestSettled
<1> QED
  BY <1>5, <1>6, <1>7, <1>8, <1>9, <1>10, <1>11, <1>12 DEF IInv

LEMMA CommitPlanStep ==
  ASSUME IInv, NEW e \in Cycles, CommitPlan(e)
  PROVE  IInv'
<1>1. /\ workers[e].pc = "commit" /\ Goto(e, "count")
      /\ slot' = [plan |-> workers[e].plan, generation |-> slot.generation + 1]
      /\ UNCHANGED <<callback, inflight, stats, cache, feedback, events, journal>>
  BY DEF CommitPlan, At, SlotCommit
<1>2. TypeOK /\ stats \in Statistics /\ slot.generation \in Nat
  BY DEF IInv, TypeOK
<1>3. Moves(e, "count") /\ Keeps(e)
  BY <1>1, <1>2, GotoMoves DEF PCs, Delivering
<1>4. workers[e].plan \in PlanRecord /\ workers[e].plan.cycle = e /\ InJournal(e)
  BY <1>1 DEF IInv, PlanOfCycle, JournalledBeforeCommit, Delivering
<1>5. StartedToEpoch' /\ EveryCycleAccounted' /\ NewestInFlight'
  <2> DEFINE to == "count"
  <2>1. /\ Outcomes(stats) \in Nat /\ Outcomes(stats') = Outcomes(stats)
        /\ UNCHANGED <<epoch, inflight, stats>>
    BY <1>1, <1>2 DEF Statistics, Outcomes, callback
  <2>2. to # "finally" /\ to \in Counted \cup {"finally"} /\ workers[e].pc \in Counted
    BY <1>1 DEF Counted, Delivering
  <2>3. Outcomes(stats') = Outcomes(stats) + (IF to = "finally" THEN 1 ELSE 0)
    BY <2>1, <2>2
  <2>4. Moves(e, to)
    BY <1>3
  <2> HIDE DEF to
  <2> QED
    BY <2>1, <2>2, <2>3, <2>4, ThreadsKept
<1>6. TypeOK'
  BY <1>1, <1>2, <1>3, <1>4 DEF TypeOK, Moves, callback
<1>7. PlanOfCycle'
  BY <1>3, <1>4, PlansKept DEF Keeps
<1>8. JournalledBeforeCommit' /\ JournalledOnce'
  BY <1>1, <1>3, <1>4, JournalKept DEF Undecided
<1>9. SlotJournalled'
  BY <1>1, <1>4 DEF SlotJournalled, InJournal
<1>10. SeenBound' /\ SnapshotBound' /\ VerdictNotLost'
  BY <1>1, <1>3, VerdictKept, SnapshotKept
<1>11. NothingYetCorrected' /\ AnswersPending'
  BY <1>1, <1>3, AnswersKept
<1> QED
  BY <1>5, <1>6, <1>7, <1>8, <1>9, <1>10, <1>11 DEF IInv

LEMMA FinishStep ==
  ASSUME IInv, NEW e \in Cycles, Finish(e)
  PROVE  IInv'
<1>1. /\ workers[e].pc = "finally" /\ Goto(e, "done")
      /\ inflight' = IF inflight = e THEN NoCycle ELSE inflight
      /\ UNCHANGED <<callback, stats, slot, cache, feedback, events, journal>>
  BY DEF Finish, At
<1>2. TypeOK /\ stats.timeouts \in Nat /\ epoch \in Nat /\ inflight \in 0 .. MaxEpoch
  BY StatsType DEF IInv, TypeOK
<1>3. Moves(e, "done")
  BY <1>1, <1>2, GotoMoves DEF PCs
<1>4. StartedToEpoch'
  BY <1>1, <1>3 DEF Moves, IInv, StartedToEpoch, callback
<1>5. EveryCycleAccounted'
  <2>1. \A f \in Cycles : workers'[f].pc \in Counted <=> workers[f].pc \in Counted
    BY <1>1, <1>3 DEF Moves, Counted, Undecided, Delivering
  <2>2. Uncounted' = Uncounted
    BY <2>1 DEF Uncounted, Counted
  <2> QED
    BY <1>1, <2>2 DEF IInv, EveryCycleAccounted
<1>6. NewestInFlight'
  <2>1. Running' = Running \ {e} /\ e \in Running
    BY <1>1, <1>3 DEF Moves, Running
  <2>2. inflight' = IF epoch' \in Running' THEN epoch' ELSE NoCycle
    BY <1>1, <2>1 DEF IInv, NewestInFlight, callback, Cycles, NoCycle
  <2>3. Cardinality(Running' \ {epoch'}) <= stats'.timeouts
    <3>1. Running \ {epoch} \in SUBSET Cycles
      BY DEF Running
    <3>2. Running' \ {epoch'} \in SUBSET (Running \ {epoch})
      BY <1>1, <2>1 DEF callback
    <3>3. /\ IsFiniteSet(Running \ {epoch}) /\ Cardinality(Running \ {epoch}) \in Nat
      BY <3>1, CyclesFinite
    <3>4. Running' \ {epoch'} \in SUBSET Cycles
      BY <3>1, <3>2
    <3>5. Cardinality(Running' \ {epoch'}) \in Nat
      BY <3>4, CyclesFinite
    <3>6. Cardinality(Running' \ {epoch'}) <= Cardinality(Running \ {epoch})
      BY <3>2, <3>3, FS_Subset
    <3>7. Cardinality(Running \ {epoch}) <= stats.timeouts /\ stats' = stats
      BY <1>1 DEF IInv, NewestInFlight
    <3> QED
      BY <1>2, <3>3, <3>5, <3>6, <3>7
  <2> QED
    BY <2>2, <2>3 DEF NewestInFlight
<1>7. TypeOK'
  <2>1. inflight' \in 0 .. MaxEpoch
    BY <1>1, <1>2, SchedulerAssumption DEF NoCycle
  <2> QED
    BY <1>1, <1>2, <1>3, <2>1 DEF TypeOK, Moves, callback
<1>8. PlanOfCycle'
  BY <1>3, PlansKept DEF Delivering
<1>9. JournalledBeforeCommit' /\ JournalledOnce'
  BY <1>1, <1>3, JournalKept DEF Undecided
<1>10. SlotJournalled' /\ SeenBound' /\ SnapshotBound' /\ VerdictNotLost'
  BY <1>1, <1>3, SlotKept, VerdictKept, SnapshotKept
<1>11. NothingYetCorrected' /\ AnswersPending'
  BY <1>1, <1>3, AnswersKept
<1> QED
  BY <1>4, <1>5, <1>6, <1>7, <1>8, <1>9, <1>10, <1>11 DEF IInv

LEMMA RunCycleStep ==
  ASSUME IInv, NEW e \in Cycles, RunCycle(e)
  PROVE  IInv'
  BY HoldCycleStep, ReuseCachedStep, MissCacheStep, TakeSnapshotStep, ObserveStep, CapturePendingStep,
     ModelAnswersStep, ModelFailsStep, CheckEpochStep, WritePlanStep, ResolveFeedbackStep,
     CommitPlanStep, CountAcceptedStep, RaiseStep, FinishStep
  DEF RunCycle, Resolve, Ask, Answer, Deliver

-----------------------------------------------------------------------------
(* The steps of the callback thread.                                       *)

LEMMA StartStep ==
  ASSUME IInv, NEW input \in Inputs, NEW trigger \in Triggers, Start(trigger, input)
  PROVE  IInv'
<1> DEFINE n == epoch + 1
           thread == [NoThread EXCEPT !.pc = "resolve", !.input = input, !.trigger = trigger]
           more == IF Preempts THEN 1 ELSE 0
<1>1. /\ CanStart /\ epoch < MaxEpoch
      /\ epoch' = n /\ inflight' = n /\ overBudget' = FALSE /\ hourDue' = FALSE
      /\ started' = TRUE
      /\ stats' = [stats EXCEPT !.triggers = @ + 1, !.timeouts = @ + more,
                               !.events = @ + (IF trigger = "event" THEN 1 ELSE 0)]
      /\ workers' = [workers EXCEPT ![n] = thread]
      /\ UNCHANGED <<slot, cache, feedback, events, journal>>
  BY DEF Start
<1>2. /\ TypeOK /\ stats \in Statistics /\ epoch \in 0 .. MaxEpoch
      /\ workers \in [Cycles -> Thread] /\ inflight \in 0 .. MaxEpoch
  BY DEF IInv, TypeOK
<1>3. n \in Cycles /\ n # epoch /\ epoch \in Nat /\ n \in 0 .. MaxEpoch /\ n # 0
  BY <1>1, <1>2, SchedulerAssumption DEF Cycles
<1>4. thread \in Thread /\ thread.pc = "resolve" /\ thread.corrects = NoCycle
  BY SchedulerAssumption DEF NoThread, Thread, PCs, Undecided
<1>5. /\ workers' \in [Cycles -> Thread] /\ workers'[n] = thread
      /\ \A f \in Cycles \ {n} : workers'[f] = workers[f]
  <2> HIDE DEF thread, n
  <2> QED
    BY <1>1, <1>2, <1>3, <1>4
<1>6. workers[n].pc = "none"
  BY <1>3 DEF IInv, StartedToEpoch
<1>7. /\ stats' \in Statistics /\ stats'.triggers = stats.triggers + 1
      /\ stats'.timeouts = stats.timeouts + more /\ Outcomes(stats') = Outcomes(stats)
  <2> DEFINE triggers == stats.triggers + 1
             timeouts == stats.timeouts + more
             fired == stats.events + (IF trigger = "event" THEN 1 ELSE 0)
  <2>1. triggers \in Nat /\ timeouts \in Nat /\ fired \in Nat
    BY <1>2 DEF Statistics
  <2>2. stats' = [stats EXCEPT !.triggers = triggers, !.timeouts = timeouts, !.events = fired]
    BY <1>1
  <2> HIDE DEF triggers, timeouts, fired
  <2>3. /\ stats' \in Statistics /\ stats'.triggers = triggers /\ stats'.timeouts = timeouts
        /\ stats'.accepted = stats.accepted /\ stats'.failed = stats.failed
        /\ stats'.holds = stats.holds /\ stats'.discarded = stats.discarded
    BY <1>2, <2>1, <2>2 DEF Statistics
  <2> QED
    BY <2>3 DEF triggers, timeouts, Outcomes
<1> HIDE DEF thread, n, more
<1>8. StartedToEpoch'
  <2> SUFFICES ASSUME NEW f \in Cycles
               PROVE  workers'[f].pc = "none" <=> f > epoch'
    BY DEF StartedToEpoch
  <2>1. CASE f = n
    BY <1>1, <1>3, <1>4, <1>5, <2>1 DEF n
  <2>2. CASE f # n
    <3>1. f > epoch <=> f > epoch'
      BY <1>1, <1>3, <2>2 DEF n, Cycles
    <3> QED
      BY <1>5, <2>2, <3>1 DEF IInv, StartedToEpoch
  <2> QED
    BY <2>1, <2>2
<1>9. EveryCycleAccounted'
  <2>1. Uncounted' = Uncounted \cup {n} /\ n \notin Uncounted
    BY <1>3, <1>4, <1>5, <1>6 DEF Uncounted, Undecided, Delivering
  <2>2. IsFiniteSet(Uncounted) /\ Cardinality(Uncounted) \in Nat
    <3>1. Uncounted \in SUBSET Cycles
      BY DEF Uncounted
    <3> QED
      BY <3>1, CyclesFinite
  <2>3. Cardinality(Uncounted') = Cardinality(Uncounted) + 1
    BY <2>1, <2>2, FS_AddElement
  <2>4. Outcomes(stats) \in Nat /\ stats.triggers \in Nat
    BY <1>2, StatsType DEF Outcomes
  <2>5. stats.triggers = Outcomes(stats) + Cardinality(Uncounted)
    BY DEF IInv, EveryCycleAccounted, Outcomes
  <2>6. stats'.triggers = Outcomes(stats') + Cardinality(Uncounted')
    BY <1>7, <2>2, <2>3, <2>4, <2>5
  <2> QED
    BY <2>6 DEF EveryCycleAccounted, Outcomes
<1>10. NewestInFlight'
  <2>1. Running' = Running \cup {n} /\ n \notin Running
    BY <1>3, <1>4, <1>5, <1>6 DEF Running
  <2>2. inflight' = IF epoch' \in Running' THEN epoch' ELSE NoCycle
    BY <1>1, <2>1
  <2>3. Running' \ {epoch'} = Running
    BY <1>1, <2>1
  <2>4. /\ IsFiniteSet(Running \ {epoch}) /\ Cardinality(Running \ {epoch}) \in Nat
        /\ Cardinality(Running \ {epoch}) <= stats.timeouts /\ stats.timeouts \in Nat
    <3>1. Running \ {epoch} \in SUBSET Cycles
      BY DEF Running
    <3> QED
      BY <1>2, <3>1, CyclesFinite, StatsType DEF IInv, NewestInFlight
  <2>5. CASE Preempts
    <3>1. Running = (Running \ {epoch}) \cup {epoch}
      BY <2>5 DEF Preempts, IInv, NewestInFlight
    <3>2. Cardinality(Running) = Cardinality(Running \ {epoch}) + 1
      BY <2>4, <3>1, FS_AddElement
    <3>3. stats'.timeouts = stats.timeouts + 1
      BY <1>7, <2>5 DEF more
    <3> QED
      BY <2>2, <2>3, <2>4, <3>2, <3>3 DEF NewestInFlight
  <2>6. CASE ~Preempts
    <3>1. inflight = NoCycle
      BY <1>1, <2>6 DEF CanStart
    <3>2. epoch \notin Running
      BY <3>1 DEF IInv, NewestInFlight, NoCycle, Running, Cycles
    <3>3. Running \ {epoch} = Running /\ stats'.timeouts = stats.timeouts
      BY <1>7, <2>4, <2>6, <3>2 DEF more
    <3> QED
      BY <2>2, <2>3, <2>4, <3>3 DEF NewestInFlight
  <2> QED
    BY <2>5, <2>6
<1>11. TypeOK'
  BY <1>1, <1>2, <1>3, <1>5, <1>7 DEF TypeOK
<1>12. Moves(n, "resolve")
  BY <1>4, <1>5 DEF Moves
<1>13. PlanOfCycle'
  BY <1>3, <1>12, PlansKept DEF Delivering
<1>14. JournalledBeforeCommit' /\ JournalledOnce'
  <2>1. ~InJournal(n)
    BY <1>3, <1>6 DEF IInv, JournalledOnce
  <2> QED
    BY <1>1, <1>3, <1>12, <2>1, JournalKept
<1>15. SlotJournalled' /\ SeenBound'
  BY <1>1, SlotKept DEF IInv, SeenBound
<1>16. NothingYetCorrected'
  BY <1>3, <1>4, <1>5 DEF IInv, NothingYetCorrected
<1>17. stats'.timeouts = 0 => stats.timeouts = 0
  BY <1>2, <1>7, StatsType DEF more
<1>18. AnswersPending'
  <2> SUFFICES ASSUME stats'.timeouts = 0, NEW f \in Cycles,
                      workers'[f].pc \in {"infer", "check", "journal", "feedback"}
               PROVE  /\ workers'[f].corrects \in {feedback.pending, NoCycle}
                      /\ workers'[f].pc = "feedback" =>
                           /\ workers'[f].corrects # NoCycle
                           /\ \E i \in DOMAIN journal :
                                journal[i].corrects = workers'[f].corrects
    BY <1>1 DEF AnswersPending
  <2>1. f # n
    BY <1>4, <1>5
  <2> QED
    BY <1>5, <1>17, <2>1 DEF IInv, AnswersPending
<1>19. VerdictNotLost'
  BY <1>1, <1>17 DEF IInv, VerdictNotLost
<1>20. SnapshotBound'
  <2> SUFFICES ASSUME NEW f \in Cycles, workers'[f].pc = "observe"
               PROVE  /\ workers'[f].snapshot <= Len(events)
                      /\ stats'.timeouts = 0 => feedback.seen <= workers'[f].snapshot
    BY <1>1 DEF SnapshotBound
  <2>1. f # n
    BY <1>4, <1>5
  <2> QED
    BY <1>5, <1>17, <2>1 DEF IInv, SnapshotBound
<1> QED
  BY <1>8, <1>9, <1>10, <1>11, <1>13, <1>14, <1>15, <1>16, <1>18, <1>19, <1>20 DEF IInv

LEMMA OnTimestepStep ==
  ASSUME IInv, NEW input \in Inputs, OnTimestep(input)
  PROVE  IInv'
<1>1. PICK trigger \in Due(input) : Start(trigger, input)
  BY DEF OnTimestep
<1>2. trigger \in Triggers
  BY DEF Due, Triggers
<1> QED
  BY <1>1, <1>2, StartStep

\* A step that touches no thread and nothing the threads leave behind.
LEMMA ClockStep ==
  ASSUME IInv, hourDue' \in BOOLEAN, overBudget' \in BOOLEAN,
         UNCHANGED <<started, epoch, inflight, stats, workers, slot, cache, feedback, events,
                     journal>>
  PROVE  IInv'
<1>1. TypeOK'
  BY DEF IInv, TypeOK
<1>2. StartedToEpoch' /\ EveryCycleAccounted' /\ NewestInFlight'
  BY DEF IInv, StartedToEpoch, EveryCycleAccounted, NewestInFlight, Uncounted, Running
<1>3. PlanOfCycle' /\ JournalledBeforeCommit' /\ JournalledOnce' /\ SlotJournalled'
  BY DEF IInv, PlanOfCycle, JournalledBeforeCommit, JournalledOnce, SlotJournalled, InJournal
<1>4. /\ SeenBound' /\ SnapshotBound'
      /\ NothingYetCorrected' /\ AnswersPending' /\ VerdictNotLost'
  BY DEF IInv, SeenBound, SnapshotBound, NothingYetCorrected, AnswersPending, VerdictNotLost
<1> QED
  BY <1>1, <1>2, <1>3, <1>4 DEF IInv

\* The guardian journals one more event: of a plan, or the watchdog's.
LEMMA EventStep ==
  ASSUME IInv, NEW event \in [plan : EventIds, decision : Verdict, generation : Nat],
         events' = Append(events, event),
         UNCHANGED <<callback, inflight, stats, workers, slot, cache, feedback, journal>>
  PROVE  IInv'
<1>1. /\ events \in Seq([plan : EventIds, decision : Verdict, generation : Nat])
      /\ TypeOK /\ feedback.seen \in Nat /\ feedback.seen <= Len(events)
  BY DEF IInv, TypeOK, SeenBound
<1>2. /\ events' \in Seq([plan : EventIds, decision : Verdict, generation : Nat])
      /\ Len(events') = Len(events) + 1 /\ Len(events) \in Nat
      /\ \A i \in 1 .. Len(events) : events'[i] = events[i]
      /\ DOMAIN events = 1 .. Len(events) /\ DOMAIN events' = 1 .. Len(events')
  BY <1>1, AppendProperties, LenProperties
<1>3. TypeOK'
  BY <1>1, <1>2 DEF TypeOK, callback
<1>4. StartedToEpoch' /\ EveryCycleAccounted' /\ NewestInFlight'
  BY DEF IInv, StartedToEpoch, EveryCycleAccounted, NewestInFlight, Uncounted, Running,
         callback
<1>5. PlanOfCycle' /\ JournalledBeforeCommit' /\ JournalledOnce' /\ SlotJournalled'
  BY DEF IInv, PlanOfCycle, JournalledBeforeCommit, JournalledOnce, SlotJournalled, InJournal
<1>6. SeenBound' /\ SnapshotBound'
  <2>1. SeenBound'
    BY <1>1, <1>2 DEF SeenBound
  <2> SUFFICES ASSUME NEW f \in Cycles, workers[f].pc = "observe"
               PROVE  /\ workers[f].snapshot <= Len(events')
                      /\ stats.timeouts = 0 => feedback.seen <= workers[f].snapshot
    BY <2>1 DEF SnapshotBound
  <2>2. workers[f].snapshot \in Nat
    BY <1>1, ThreadFields
  <2> QED
    BY <1>2, <2>2 DEF IInv, SnapshotBound
<1>7. NothingYetCorrected' /\ AnswersPending'
  BY DEF IInv, NothingYetCorrected, AnswersPending
<1>8. VerdictNotLost'
  <2> SUFFICES ASSUME stats.timeouts = 0
               PROVE  NewestSettled'
    BY VerdictNotLostNext
  <2> DEFINE bad == Bad(feedback.seen)
  <2>1. Bad(feedback.seen)' = bad
    <3>1. \A i \in DOMAIN events' : i <= feedback.seen => i \in DOMAIN events
      BY <1>1, <1>2
    <3>2. DOMAIN events \subseteq DOMAIN events'
      BY <1>2
    <3> QED
      BY <1>2, <3>1, <3>2 DEF Bad
  <2>2. bad # {} => Newest(bad)' = Newest(bad)
    <3> SUFFICES ASSUME bad # {}
                 PROVE  Newest(bad)' = Newest(bad)
      OBVIOUS
    <3> DEFINE top == CHOOSE k \in bad : \A j \in bad : j <= k
    <3>1. bad \subseteq DOMAIN events
      BY DEF Bad
    <3>2. top \in bad
      <4> HIDE DEF bad
      <4> QED
        BY <1>1, <3>1, NewestIsEvent
    <3>3. Newest(bad) = events[top].plan /\ Newest(bad)' = events'[top].plan
      BY <2>1 DEF Newest
    <3> QED
      BY <1>2, <3>1, <3>2, <3>3
  <2>3. \A p : Corrected(p)' <=> Corrected(p)
    BY DEF Corrected
  <2>4. NewestSettled
    BY VerdictNotLostSaid DEF IInv
  <2> QED
    BY <2>1, <2>2, <2>3, <2>4 DEF NewestSettled
<1> QED
  BY <1>3, <1>4, <1>5, <1>6, <1>7, <1>8 DEF IInv

LEMMA JudgeStep ==
  ASSUME IInv, NEW decision \in Decisions, Judge(decision)
  PROVE  IInv'
<1>1. slot.plan # NoPlan /\ slot.plan \in PlanRecord /\ slot.generation \in Nat
  BY DEF Judge, SlotHolds, IInv, SlotJournalled, TypeOK
<1>2. slot.plan.cycle \in EventIds /\ decision \in Verdict
  BY <1>1, SchedulerAssumption DEF PlanRecord, EventIds
<1> DEFINE event == [plan |-> slot.plan.cycle, decision |-> decision,
                     generation |-> slot.generation]
<1>3. event \in [plan : EventIds, decision : Verdict, generation : Nat]
  BY <1>1, <1>2
<1>4. /\ events' = Append(events, event)
      /\ UNCHANGED <<callback, inflight, stats, workers, slot, cache, feedback, journal>>
  BY DEF Judge
<1> HIDE DEF event
<1> QED
  BY <1>3, <1>4, EventStep

-----------------------------------------------------------------------------
(* Every step keeps the invariant.                                         *)

LEMMA InitInvariant == Init => IInv
<1> SUFFICES ASSUME Init
             PROVE  IInv
  OBVIOUS
<1> USE DEF Init
<1>1. << >> \in Seq([plan : EventIds, decision : Verdict, generation : Nat])
  BY EmptySeq
<1>2. << >> \in Seq([plan : Cycles, corrects : EventIds \cup {NoCycle}])
  BY EmptySeq
<1>3. /\ DOMAIN journal = {} /\ DOMAIN events = {} /\ Len(events) = 0
  OBVIOUS
<1>4. NoThread \in Thread /\ NoThread.pc = "none"
  BY DEF NoThread, Thread, PCs, Input, Triggers
<1>5. \A e \in Cycles : workers[e] = NoThread
  OBVIOUS
<1>6. NoStats \in Statistics /\ stats = NoStats
  BY DEF NoStats, Statistics
<1>7. TypeOK
  <2>1. slot \in [plan : PlanRecord \cup {NoPlan}, generation : Nat] /\ slot.plan = NoPlan
    BY DEF EmptySlot
  <2>2. cache \in Cached
    BY DEF Cached
  <2>3. feedback \in [seen : Nat, pending : EventIds \cup {NoCycle}]
    OBVIOUS
  <2>4. workers \in [Cycles -> Thread]
    BY <1>4
  <2>5. epoch \in 0 .. MaxEpoch /\ inflight \in 0 .. MaxEpoch
    BY SchedulerAssumption DEF NoCycle
  <2> QED
    BY <1>1, <1>2, <1>6, <2>1, <2>2, <2>3, <2>4, <2>5 DEF TypeOK
<1>8. StartedToEpoch
  BY <1>4, <1>5 DEF StartedToEpoch, Cycles
<1>9. Uncounted = {} /\ Running = {} /\ Cardinality({}) = 0
  BY <1>4, <1>5, FS_EmptySet DEF Uncounted, Running, Undecided, Delivering
<1>10. EveryCycleAccounted /\ NewestInFlight
  BY <1>9 DEF EveryCycleAccounted, NewestInFlight, NoStats
<1>11. PlanOfCycle /\ JournalledBeforeCommit /\ JournalledOnce /\ SlotJournalled
  BY <1>3, <1>4, <1>5
  DEF PlanOfCycle, JournalledBeforeCommit, JournalledOnce, SlotJournalled, InJournal,
      Delivering, EmptySlot
<1>12. /\ SeenBound /\ SnapshotBound
       /\ NothingYetCorrected /\ AnswersPending /\ VerdictNotLost
  BY <1>3, <1>4, <1>5
  DEF SeenBound, SnapshotBound, NothingYetCorrected, AnswersPending, VerdictNotLost
<1> QED
  BY <1>7, <1>8, <1>10, <1>11, <1>12 DEF IInv

LEMMA StepInvariant == IInv /\ [Next]_vars => IInv'
<1> SUFFICES ASSUME IInv, [Next]_vars
             PROVE  IInv'
  OBVIOUS
<1>1. CASE \E input \in Inputs : OnTimestep(input)
  BY <1>1, OnTimestepStep
<1>2. CASE NewHour \/ OutrunBudget \/ UNCHANGED vars
  BY <1>2, ClockStep DEF NewHour, OutrunBudget, vars, IInv, TypeOK
<1>3. CASE \E decision \in Decisions : Judge(decision)
  BY <1>3, JudgeStep
<1>4. CASE \E e \in Cycles : RunCycle(e)
  BY <1>4, RunCycleStep
<1> QED
  BY <1>1, <1>2, <1>3, <1>4 DEF Next

\* The inductive invariant holds of every run.
THEOREM Invariance == Spec => []IInv
  BY InitInvariant, StepInvariant, PTL DEF Spec

\* Every variable of the scheduler, its cache, its tracker and the journals it
\* shares with the executor keeps its type, however long the run.
THEOREM TypeCorrect == Spec => []TypeOK
<1>1. IInv => TypeOK
  BY DEF IInv
<1> QED
  BY <1>1, Invariance, PTL

\* However many cycles run beside each other, the statistics account for each of
\* them: accepted, failed, discarded, held, or still running (SchedulerStats).
THEOREM EveryCycleCounted == Spec => []EveryCycleAccounted
<1>1. IInv => EveryCycleAccounted
  BY DEF IInv
<1> QED
  BY <1>1, Invariance, PTL

\* The newest cycle is in flight exactly while its thread runs, and there are no
\* more threads beside it than cycles that were preempted (_can_start, finally).
THEOREM FlightIsNewest == Spec => []NewestInFlight
<1>1. IInv => NewestInFlight
  BY DEF IInv
<1> QED
  BY <1>1, Invariance, PTL

\* Whatever plan the slot offers the executor, its row is in the store already
\* (write_plan comes before commit, in every worker).
THEOREM ActuatedOnRecord == Spec => []ActuatedIsJournalled
<1>1. IInv => ActuatedIsJournalled
  BY DEF IInv, SlotJournalled, InJournal, ActuatedIsJournalled, SlotHolds
<1> QED
  BY <1>1, Invariance, PTL

\* While no cycle is preempted, no complaint of the guardian's that the tracker
\* has seen is dropped before a plan answers it (FeedbackTracker, _run_cycle).
THEOREM ComplaintsKept == Spec => []VerdictNotLost
<1>1. IInv => VerdictNotLost
  BY DEF IInv
<1> QED
  BY <1>1, Invariance, PTL

-----------------------------------------------------------------------------
(* A late result is discarded.                                             *)

\* Cycle e is superseded and its plan is in no store: its thread can only go
\* on to the epoch check, fail, or end.
Discarded(e) ==
  /\ e < epoch
  /\ workers[e].pc \in Undecided \cup {"finally", "done"}
  /\ ~InJournal(e)

Late(e) == workers[e].pc \in Undecided /\ Superseded(e)
Unwritten(e) == \A i \in DOMAIN journal : journal[i].plan # e

LEMMA LateIsDiscarded ==
  ASSUME NEW e \in Cycles
  PROVE  IInv /\ Late(e) => Discarded(e)
<1> SUFFICES ASSUME IInv, Late(e)
             PROVE  Discarded(e)
  OBVIOUS
<1>1. ~(e > epoch) /\ e # epoch
  BY DEF IInv, StartedToEpoch, Late, Undecided, Superseded
<1>2. e \in Nat /\ epoch \in Nat
  BY SchedulerAssumption DEF Cycles, IInv, TypeOK
<1>3. e < epoch
  BY <1>1, <1>2
<1> QED
  BY <1>3 DEF IInv, JournalledOnce, Late, Discarded

\* No step of the superseded thread takes it to the store.
LEMMA DiscardedRuns ==
  ASSUME IInv, NEW e \in Cycles, Discarded(e), RunCycle(e)
  PROVE  Discarded(e)'
<1>1. workers \in [Cycles -> Thread] /\ e \in Nat /\ epoch \in Nat
  BY SchedulerAssumption DEF IInv, TypeOK, Cycles
<1>2. Superseded(e)
  BY <1>1 DEF Discarded, Superseded
<1>3. ~Deliver(e)
  BY DEF Deliver, WritePlan, ResolveFeedback, CommitPlan, CountAccepted, At, Discarded,
         Undecided
<1>4. UNCHANGED <<epoch, journal>>
  BY <1>3
  DEF RunCycle, Resolve, HoldCycle, ReuseCached, MissCache, Ask, TakeSnapshot, Observe,
      CapturePending,
      Answer, ModelAnswers, ModelFails, CheckEpoch, Raise, Finish, callback
<1>5. workers'[e].pc \in Undecided \cup {"finally", "done"}
  <2>1. CASE Resolve(e)
    BY <1>1, <2>1 DEF Resolve, HoldCycle, ReuseCached, MissCache, Goto, Thread, Undecided
  <2>2. CASE Ask(e)
    BY <1>1, <2>2 DEF Ask, TakeSnapshot, Observe, CapturePending, Goto, Thread, Undecided
  <2>3. CASE Answer(e)
    BY <1>1, <2>3 DEF Answer, ModelAnswers, ModelFails, Goto, Thread, Undecided
  <2>4. CASE CheckEpoch(e)
    BY <1>1, <1>2, <2>4 DEF CheckEpoch, Goto, Thread
  <2>5. CASE Raise(e) \/ Finish(e)
    BY <1>1, <2>5 DEF Raise, Finish, Goto, Thread
  <2> QED
    BY <1>3, <2>1, <2>2, <2>3, <2>4, <2>5 DEF RunCycle
<1> QED
  BY <1>4, <1>5 DEF Discarded, InJournal

\* Nor does another thread write its plan.
LEMMA DiscardedStays ==
  ASSUME NEW e \in Cycles
  PROVE  IInv /\ Discarded(e) /\ [Next]_vars => Discarded(e)'
<1> SUFFICES ASSUME IInv, Discarded(e), [Next]_vars
             PROVE  Discarded(e)'
  OBVIOUS
<1>1. workers \in [Cycles -> Thread] /\ e \in Nat /\ epoch \in Nat
  BY SchedulerAssumption DEF IInv, TypeOK, Cycles
<1>2. CASE \E input \in Inputs : OnTimestep(input)
  <2>1. PICK input \in Inputs, trigger \in Triggers : Start(trigger, input)
    BY <1>2 DEF OnTimestep, Due, Triggers
  <2>2. e < epoch' /\ e # epoch + 1
    BY <1>1, <2>1 DEF Start, Discarded
  <2>3. workers'[e] = workers[e]
    BY <1>1, <2>1, <2>2 DEF Start
  <2> QED
    BY <2>1, <2>2, <2>3 DEF Start, Discarded, InJournal
<1>3. CASE NewHour \/ OutrunBudget \/ UNCHANGED vars
  BY <1>3 DEF NewHour, OutrunBudget, vars, Discarded, InJournal
<1>4. CASE \E decision \in Decisions : Judge(decision)
  BY <1>4 DEF Judge, callback, Discarded, InJournal
<1>5. CASE \E f \in Cycles : RunCycle(f)
  <2>1. PICK f \in Cycles : RunCycle(f)
    BY <1>5
  <2>2. CASE f = e
    BY <2>1, <2>2, DiscardedRuns
  <2>3. CASE f # e
    <3>1. workers'[e] = workers[e] /\ epoch' = epoch
      BY <1>1, <2>1, <2>3
      DEF RunCycle, Resolve, HoldCycle, ReuseCached, MissCache, Ask, TakeSnapshot, Observe,
          CapturePending, Answer, ModelAnswers, ModelFails, CheckEpoch, Deliver, WritePlan,
          ResolveFeedback, CommitPlan, CountAccepted, Raise, Finish, Goto, callback
    <3>2. InJournal(e)' <=> InJournal(e)
      <4>1. CASE WritePlan(f)
        <5>1. journal \in Seq([plan : Cycles, corrects : EventIds \cup {NoCycle}])
          BY DEF IInv, TypeOK
        <5> DEFINE row == [plan |-> f, corrects |-> workers[f].corrects]
        <5>2. /\ Len(journal) \in Nat /\ DOMAIN journal = 1 .. Len(journal)
              /\ DOMAIN journal' = 1 .. Len(journal) + 1
              /\ \A i \in 1 .. Len(journal) : journal'[i] = journal[i]
              /\ journal'[Len(journal) + 1].plan = f
          <6>1. row \in [plan : Cycles, corrects : EventIds \cup {NoCycle}]
            BY <1>1 DEF Thread
          <6>2. journal' = Append(journal, row) /\ row.plan = f
            BY <4>1 DEF WritePlan
          <6> HIDE DEF row
          <6> QED
            BY <5>1, <6>1, <6>2, AppendProperties, LenProperties
        <5> QED
          BY <2>3, <5>2 DEF InJournal
      <4>2. CASE ~WritePlan(f)
        <5>1. journal' = journal
          BY <2>1, <4>2
          DEF RunCycle, Resolve, HoldCycle, ReuseCached, MissCache, Ask, TakeSnapshot, Observe,
              CapturePending, Answer, ModelAnswers, ModelFails, CheckEpoch, Deliver,
              ResolveFeedback, CommitPlan, CountAccepted, Raise, Finish
        <5> QED
          BY <5>1 DEF InJournal
      <4> QED
        BY <4>1, <4>2
    <3> QED
      BY <3>1, <3>2 DEF Discarded
  <2> QED
    BY <2>2, <2>3
<1> QED
  BY <1>2, <1>3, <1>4, <1>5 DEF Next

\* A cycle that a newer trigger supersedes before its epoch check reaches the
\* store at no later time, though its thread runs on beside any number of
\* others (_run_cycle: the check and the write are not one step).
THEOREM LateIsNeverWritten == Spec => LateResultDiscarded
<1>1. ASSUME NEW e \in Cycles
      PROVE  Spec => [](Late(e) => []Unwritten(e))
  <2>1. IInv /\ Late(e) => Discarded(e)
    BY LateIsDiscarded
  <2>2. IInv /\ Discarded(e) /\ [Next]_vars => Discarded(e)'
    BY DiscardedStays
  <2>3. Discarded(e) => Unwritten(e)
    BY DEF Discarded, InJournal, Unwritten
  <2> QED
    BY <2>1, <2>2, <2>3, Invariance, PTL DEF Spec
<1> QED
  BY <1>1 DEF LateResultDiscarded, Late, Unwritten

-----------------------------------------------------------------------------
(* The live loop: the inductive invariant.                                 *)

\* The loop's own variables.
LoopTypeOK ==
  /\ clock \in Nat /\ phase \in {"idle", "schedule", "decide"}
  /\ watchdog \in [lastValid : Int, tripped : BOOLEAN]
  /\ driver \in Cycles \cup {NoCycle}

Judged(plan) == \E i \in DOMAIN events : events[i].plan = plan

\* A verdict is on a commit that was made, and the verdicts on the slot's commit
\* are the verdicts on its plan.
VerdictsOfCommits ==
  /\ \A i \in DOMAIN events : events[i].generation <= slot.generation
  /\ SlotHolds(slot) =>
       /\ slot.generation # 0
       /\ \A i \in DOMAIN events :
            events[i].generation = slot.generation <=> events[i].plan = slot.plan.cycle

Uncommitted == Undecided \cup {"none", "journal", "feedback", "commit"}

\* A plan that was not committed is in no slot and has no verdict.
CommittedBeforeJudged ==
  \A e \in Cycles : workers[e].pc \in Uncommitted =>
    ~Judged(e) /\ (SlotHolds(slot) => slot.plan.cycle # e)

\* Each plan is judged once, and the watchdog speaks up once.
JudgedOnce ==
  \A i, k \in DOMAIN events : events[i].plan = events[k].plan => i = k

\* A trip is not cleared, so that the watchdog trips but once.
TripLatched == Judged(WatchdogPlan) => watchdog.tripped

\* The complaints: while no cycle is preempted, those the tracker has seen.
Complaint(plan) ==
  \E i \in DOMAIN events : /\ stats.timeouts = 0 => i <= feedback.seen
                           /\ events[i].plan = plan
                           /\ events[i].decision # "accepted"

\* What is pending, what a worker answers and what a plan corrects is one of them.
AnswersComplaints ==
  /\ feedback.pending # NoCycle => Complaint(feedback.pending)
  /\ \A e \in Cycles : workers[e].corrects # NoCycle => Complaint(workers[e].corrects)
  /\ \A j \in DOMAIN journal : journal[j].corrects # NoCycle => Complaint(journal[j].corrects)

\* While no cycle is preempted, what is pending was not corrected, but for the
\* moment between writing the plan that corrects it and resolving it ...
PendingUncorrected ==
  stats.timeouts = 0 /\ feedback.pending # NoCycle /\ Corrected(feedback.pending) =>
    \E e \in Cycles : workers[e].pc = "feedback"

\* ... so that nothing is corrected twice.
CorrectedOnce ==
  stats.timeouts = 0 =>
    \A j, k \in DOMAIN journal :
      journal[j].corrects # NoCycle /\ journal[k].corrects = journal[j].corrects => k = j

Record == /\ VerdictsOfCommits /\ CommittedBeforeJudged /\ JudgedOnce
          /\ AnswersComplaints /\ PendingUncorrected /\ CorrectedOnce

LoopInv == /\ IInv /\ Record
           /\ LoopTypeOK /\ TripLatched /\ DrivingPlanOnRecord

-----------------------------------------------------------------------------
(* The verdicts, as the provers use them.                                  *)

Event == [plan : EventIds, decision : Verdict, generation : Nat]

LEMMA EventType ==
  ASSUME IInv
  PROVE  /\ events \in Seq(Event) /\ Len(events) \in Nat
         /\ DOMAIN events = 1 .. Len(events)
         /\ \A i \in DOMAIN events : events[i] \in Event
<1>1. events \in Seq(Event)
  BY DEF IInv, TypeOK, Event
<1>2. Len(events) \in Nat /\ DOMAIN events = 1 .. Len(events)
  BY <1>1, LenProperties
<1> QED
  BY <1>1, <1>2, ElementOfSeq

\* A cycle's number is neither "none" nor the watchdog's.
LEMMA CycleNames ==
  ASSUME NEW e \in Cycles
  PROVE  e \in Nat /\ e # NoCycle /\ e # WatchdogPlan /\ e \in EventIds
  BY SchedulerAssumption DEF Cycles, NoCycle, WatchdogPlan, EventIds

-----------------------------------------------------------------------------
(* The steps of the threads keep the record.                               *)

\* A thread's step that leaves alone what the record is about.
LEMMA RecordMoves ==
  ASSUME IInv, Record, NEW e \in Cycles, NEW to \in PCs, Moves(e, to),
         UNCHANGED <<slot, feedback, events, journal>>, stats'.timeouts = stats.timeouts,
         workers'[e].corrects # NoCycle => Complaint(workers'[e].corrects),
         to \in Uncommitted => workers[e].pc \in Uncommitted,
         workers[e].pc # "feedback"
  PROVE  Record'
<1>1. \A p : (Judged(p)' <=> Judged(p)) /\ (Complaint(p)' <=> Complaint(p))
           /\ (Corrected(p)' <=> Corrected(p))
  BY DEF Judged, Complaint, Corrected
<1>2. VerdictsOfCommits' /\ JudgedOnce' /\ CorrectedOnce'
  BY DEF Record, VerdictsOfCommits, JudgedOnce, CorrectedOnce
<1>3. CommittedBeforeJudged'
  <2> SUFFICES ASSUME NEW f \in Cycles, workers'[f].pc \in Uncommitted
               PROVE  ~Judged(f) /\ (SlotHolds(slot) => slot.plan.cycle # f)
    BY <1>1 DEF CommittedBeforeJudged
  <2>1. workers[f].pc \in Uncommitted
    BY DEF Moves
  <2> QED
    BY <2>1 DEF Record, CommittedBeforeJudged
<1>4. AnswersComplaints'
  <2>1. \A f \in Cycles : workers'[f].corrects # NoCycle => Complaint(workers'[f].corrects)
    BY DEF Moves, Record, AnswersComplaints
  <2> QED
    BY <1>1, <2>1 DEF Record, AnswersComplaints
<1>5. PendingUncorrected'
  <2>1. \A f \in Cycles : workers[f].pc = "feedback" => workers'[f].pc = "feedback"
    BY DEF Moves
  <2> QED
    BY <1>1, <2>1 DEF Record, PendingUncorrected
<1> QED
  BY <1>2, <1>3, <1>4, <1>5 DEF Record

LEMMA StatsKeepTimeouts ==
  ASSUME TypeOK
  PROVE  /\ \A field \in {"holds", "hits", "failed", "accepted"} :
              Count(field) => stats'.timeouts = stats.timeouts
         /\ \A made, discarded :
              stats' = [stats EXCEPT !.made = made, !.discarded = discarded] =>
                stats'.timeouts = stats.timeouts
<1>1. stats \in Statistics
  BY DEF TypeOK
<1> QED
  BY <1>1 DEF Statistics, Count

\* The steps that touch neither the journals, nor the tracker, nor the slot.
LEMMA RecordPrivate ==
  ASSUME IInv, Record, NEW e \in Cycles,
         \/ Resolve(e) \/ Answer(e) \/ CheckEpoch(e) \/ CountAccepted(e)
         \/ Raise(e) \/ Finish(e)
  PROVE  Record'
<1>1. /\ TypeOK /\ workers \in [Cycles -> Thread]
      /\ workers[e].corrects # NoCycle => Complaint(workers[e].corrects)
  BY DEF IInv, TypeOK, Record, AnswersComplaints
<1>2. UNCHANGED <<slot, feedback, events, journal>>
  BY DEF Resolve, HoldCycle, ReuseCached, MissCache, Answer, ModelAnswers, ModelFails,
         CheckEpoch, CountAccepted, Raise, Finish
<1>3. stats'.timeouts = stats.timeouts
  <2>1. CASE Resolve(e)
    BY <1>1, <2>1, StatsKeepTimeouts DEF Resolve, HoldCycle, ReuseCached, MissCache
  <2>2. CASE Answer(e)
    BY <1>1, <2>2, StatsKeepTimeouts DEF Answer, ModelAnswers, ModelFails
  <2>3. CASE CheckEpoch(e)
    <3>1. stats \in Statistics
      BY <1>1 DEF TypeOK
    <3> QED
      BY <2>3, <3>1 DEF CheckEpoch, Statistics
  <2>4. CASE CountAccepted(e) \/ Raise(e) \/ Finish(e)
    BY <1>1, <2>4, StatsKeepTimeouts DEF CountAccepted, Raise, Finish
  <2> QED
    BY <2>1, <2>2, <2>3, <2>4
<1>4. \E to \in PCs : /\ Moves(e, to) /\ workers'[e].corrects = workers[e].corrects
                      /\ to \in Uncommitted => workers[e].pc \in Uncommitted
                      /\ workers[e].pc # "feedback"
  <2> USE DEF Uncommitted, Undecided, Delivering, PCs, At
  <2>1. CASE HoldCycle(e)
    BY <1>1, <2>1, GotoMoves DEF HoldCycle, Keeps
  <2>2. CASE ReuseCached(e)
    <3>1. PICK plan \in PlanRecord :
            workers' = [workers EXCEPT ![e].pc = "check", ![e].cached = TRUE,
                                       ![e].plan = plan]
      <4>1. KeyOf(e) \in Situations
        BY <1>1, <2>2 DEF ReuseCached, Hit, HasState, KeyOf, Thread, Input
      <4>2. cache.entries[KeyOf(e)] \in PlanRecord
        BY <2>2, <4>1 DEF ReuseCached, Hit, IInv, TypeOK, Cached
      <4> QED
        BY <2>2, <4>2 DEF ReuseCached, PlanRecord
    <3> DEFINE thread == [workers[e] EXCEPT !.pc = "check", !.cached = TRUE, !.plan = plan]
    <3>2. thread \in Thread /\ thread.pc = "check" /\ thread.corrects = workers[e].corrects
      BY <1>1 DEF Thread
    <3>3. workers' = [workers EXCEPT ![e] = thread]
      BY <1>1, <3>1
    <3> HIDE DEF thread
    <3>4. Moves(e, "check")
      BY <1>1, <3>2, <3>3 DEF Moves
    <3> QED
      BY <1>1, <2>2, <3>2, <3>3, <3>4 DEF ReuseCached
  <2>3. CASE MissCache(e)
    BY <1>1, <2>3, GotoMoves DEF MissCache, Keeps
  <2>4. CASE ModelAnswers(e)
    <3> DEFINE plan == [cycle |-> e, from |-> e]
               thread == [workers[e] EXCEPT !.pc = "check", !.plan = plan]
    <3>1. plan \in PlanRecord
      BY DEF PlanRecord
    <3>2. workers' = [workers EXCEPT ![e].pc = "check", ![e].plan = plan]
      BY <2>4 DEF ModelAnswers
    <3> HIDE DEF plan
    <3>3. thread \in Thread /\ thread.pc = "check" /\ thread.corrects = workers[e].corrects
      BY <1>1, <3>1 DEF Thread
    <3>4. workers' = [workers EXCEPT ![e] = thread]
      BY <1>1, <3>2
    <3> HIDE DEF thread
    <3>5. Moves(e, "check")
      BY <1>1, <3>3, <3>4 DEF Moves
    <3> QED
      BY <1>1, <2>4, <3>3, <3>4, <3>5 DEF ModelAnswers
  <2>5. CASE ModelFails(e)
    BY <1>1, <2>5, GotoMoves DEF ModelFails, Keeps
  <2>6. CASE CheckEpoch(e)
    <3>1. PICK to \in {"finally", "journal"} : Goto(e, to)
      BY <2>6 DEF CheckEpoch
    <3> QED
      BY <1>1, <2>6, <3>1, GotoMoves DEF CheckEpoch, Keeps
  <2>7. CASE CountAccepted(e)
    BY <1>1, <2>7, GotoMoves DEF CountAccepted, Keeps
  <2>8. CASE Raise(e)
    BY <1>1, <2>8, GotoMoves DEF Raise, Keeps
  <2>9. CASE Finish(e)
    BY <1>1, <2>9, GotoMoves DEF Finish, Keeps
  <2> QED
    BY <2>1, <2>2, <2>3, <2>4, <2>5, <2>6, <2>7, <2>8, <2>9 DEF Resolve, Answer
<1> QED
  BY <1>1, <1>2, <1>3, <1>4, RecordMoves

LEMMA RecordCapture ==
  ASSUME IInv, Record, NEW e \in Cycles, CapturePending(e)
  PROVE  Record'
<1>1. /\ workers \in [Cycles -> Thread]
      /\ feedback.pending \in EventIds \cup {NoCycle}
      /\ feedback.pending # NoCycle => Complaint(feedback.pending)
  BY DEF IInv, TypeOK, Record, AnswersComplaints
<1> DEFINE thread == [workers[e] EXCEPT !.pc = "infer", !.corrects = feedback.pending]
<1>2. thread \in Thread /\ thread.pc = "infer" /\ thread.corrects = feedback.pending
  BY <1>1 DEF Thread, PCs, Undecided
<1>3. /\ workers' = [workers EXCEPT ![e] = thread] /\ workers[e].pc = "capture"
      /\ UNCHANGED <<slot, feedback, events, journal, stats>>
  BY <1>1 DEF CapturePending, At
<1> HIDE DEF thread
<1>4. Moves(e, "infer") /\ workers'[e].corrects = feedback.pending
  BY <1>1, <1>2, <1>3 DEF Moves
<1>5. "infer" \in PCs /\ "capture" \in Uncommitted
  BY DEF PCs, Uncommitted, Undecided
<1> QED
  BY <1>1, <1>3, <1>4, <1>5, RecordMoves

\* What is copied are the verdicts there are.
LEMMA RecordSnapshot ==
  ASSUME IInv, Record, NEW e \in Cycles, TakeSnapshot(e)
  PROVE  Record'
<1> DEFINE n == Len(events)
           thread == [workers[e] EXCEPT !.pc = "observe", !.snapshot = n]
<1>1. workers \in [Cycles -> Thread] /\ n \in Nat
  BY EventType DEF IInv, TypeOK
<1>2. /\ workers' = [workers EXCEPT ![e] = thread] /\ workers[e].pc = "digest"
      /\ UNCHANGED <<slot, feedback, events, journal, stats>>
  BY <1>1 DEF TakeSnapshot, At
<1> HIDE DEF n
<1>3. /\ thread \in Thread /\ thread.pc = "observe"
      /\ thread.corrects = workers[e].corrects
  BY <1>1 DEF Thread, PCs, Undecided
<1> HIDE DEF thread
<1>4. Moves(e, "observe") /\ workers'[e].corrects = workers[e].corrects
  BY <1>1, <1>2, <1>3 DEF Moves
<1>5. "observe" \in PCs /\ "digest" \in Uncommitted
  BY DEF PCs, Uncommitted, Undecided
<1>6. workers[e].corrects # NoCycle => Complaint(workers[e].corrects)
  BY DEF Record, AnswersComplaints
<1> QED
  BY <1>2, <1>4, <1>5, <1>6, RecordMoves

\* The tracker observes the verdicts: what it latches was not corrected.
LEMMA RecordObserve ==
  ASSUME IInv, Record, NEW e \in Cycles, Observe(e)
  PROVE  Record'
<1> DEFINE n == workers[e].snapshot
<1>1. /\ TypeOK /\ workers[e].pc = "observe"
      /\ feedback' = [seen |-> n, pending |-> Latched(feedback, n)]
      /\ Goto(e, "capture")
      /\ UNCHANGED <<stats, slot, events, journal>>
  BY DEF IInv, Observe, At
<1>2. Moves(e, "capture") /\ Keeps(e)
  BY <1>1, GotoMoves DEF PCs, Undecided
<1>3. /\ Len(events) \in Nat /\ DOMAIN events = 1 .. Len(events)
      /\ n \in Nat /\ feedback.seen \in Nat /\ (stats.timeouts = 0 => feedback.seen <= n)
      /\ feedback'.seen = n /\ feedback'.pending = Latched(feedback, n)
  BY <1>1, EventType, ThreadFields DEF IInv, TypeOK, SnapshotBound
<1> HIDE DEF n
<1>4. \A p : /\ Judged(p)' <=> Judged(p)
             /\ Corrected(p)' <=> Corrected(p)
             /\ Complaint(p) => Complaint(p)'
  BY <1>1, <1>3 DEF Judged, Corrected, Complaint
<1>5. VerdictsOfCommits' /\ JudgedOnce' /\ CorrectedOnce'
  BY <1>1 DEF Record, VerdictsOfCommits, JudgedOnce, CorrectedOnce
<1>6. CommittedBeforeJudged'
  <2> SUFFICES ASSUME NEW f \in Cycles, workers'[f].pc \in Uncommitted
               PROVE  ~Judged(f) /\ (SlotHolds(slot) => slot.plan.cycle # f)
    BY <1>1, <1>4 DEF CommittedBeforeJudged
  <2>1. workers[f].pc \in Uncommitted
    BY <1>1, <1>2 DEF Moves, Uncommitted, Undecided
  <2> QED
    BY <2>1 DEF Record, CommittedBeforeJudged
<1>7. AnswersComplaints'
  <2>1. ASSUME NEW p, p = Latched(feedback, n), p # NoCycle
        PROVE  Complaint(p)'
    <3>1. CASE p = feedback.pending
      BY <1>4, <2>1, <3>1 DEF Record, AnswersComplaints
    <3>2. CASE \E i \in DOMAIN events : /\ i <= n /\ events[i].decision # "accepted"
                                        /\ p = events[i].plan
      BY <1>1, <1>3, <3>2 DEF Complaint
    <3> QED
      BY <1>3, <2>1, <3>1, <3>2, LatchedFresh
  <2>2. \A f \in Cycles : workers'[f].corrects = workers[f].corrects
    BY <1>2 DEF Moves, Keeps
  <2> QED
    BY <1>1, <1>3, <1>4, <2>1, <2>2 DEF Record, AnswersComplaints
<1>8. PendingUncorrected'
  <2> SUFFICES ASSUME stats.timeouts = 0, Latched(feedback, n) # NoCycle,
                      Corrected(Latched(feedback, n))
               PROVE  \E f \in Cycles : workers'[f].pc = "feedback"
    BY <1>1, <1>3, <1>4 DEF PendingUncorrected
  <2>1. Latched(feedback, n) = feedback.pending
    <3> SUFFICES ASSUME NEW i \in DOMAIN events, feedback.seen < i,
                        Latched(feedback, n) = events[i].plan
                 PROVE  FALSE
      BY <1>3, LatchedFresh
    <3>1. Complaint(Latched(feedback, n))
      BY DEF Corrected, Record, AnswersComplaints
    <3>2. PICK k \in DOMAIN events : k <= feedback.seen /\ events[k].plan = events[i].plan
      BY <3>1 DEF Complaint
    <3>3. k = i
      BY <3>2 DEF Record, JudgedOnce
    <3> QED
      BY <1>3, <3>2, <3>3
  <2>2. PICK f \in Cycles : workers[f].pc = "feedback"
    BY <2>1 DEF Record, PendingUncorrected
  <2>3. f # e
    BY <1>1, <2>2
  <2> QED
    BY <1>2, <2>2, <2>3 DEF Moves
<1> QED
  BY <1>5, <1>6, <1>7, <1>8 DEF Record

\* A plan is written, with the complaint it corrects: not a corrected one.
LEMMA RecordWrite ==
  ASSUME IInv, Record, NEW e \in Cycles, WritePlan(e)
  PROVE  Record'
<1> DEFINE c == workers[e].corrects
           row == [plan |-> e, corrects |-> c]
           to == IF c # NoCycle THEN "feedback" ELSE "commit"
           n == Len(journal) + 1
<1>1. /\ TypeOK /\ workers[e].pc = "journal" /\ journal' = Append(journal, row)
      /\ Goto(e, to) /\ UNCHANGED <<slot, events, feedback, stats>>
  BY DEF IInv, WritePlan, At
<1>2. c \in EventIds \cup {NoCycle} /\ to \in PCs /\ to \in Uncommitted
  BY <1>1, ThreadFields DEF PCs, Delivering, Uncommitted
<1>3. Moves(e, to) /\ Keeps(e)
  BY <1>1, <1>2, GotoMoves
<1>4. /\ row \in [plan : Cycles, corrects : EventIds \cup {NoCycle}] /\ row.corrects = c
      /\ to = "feedback" <=> c # NoCycle
  BY <1>2
<1>5. c # NoCycle => Complaint(c)
  BY DEF Record, AnswersComplaints
<1> HIDE DEF c, to, row
<1>6. /\ Len(journal) \in Nat /\ DOMAIN journal = 1 .. Len(journal)
      /\ DOMAIN journal' = 1 .. n /\ journal'[n].corrects = c
      /\ \A j \in DOMAIN journal : journal'[j] = journal[j]
  BY <1>1, <1>4, JournalType, AppendProperties, LenProperties
<1>7. \A j \in DOMAIN journal' : j = n \/ j \in DOMAIN journal
  BY <1>6
<1>8. n \in DOMAIN journal' /\ n \notin DOMAIN journal
      /\ \A j \in DOMAIN journal : j \in DOMAIN journal'
  BY <1>6
<1> HIDE DEF n
<1>9. \A p : /\ Judged(p)' <=> Judged(p)
             /\ Complaint(p)' <=> Complaint(p)
             /\ Corrected(p)' <=> (Corrected(p) \/ p = c)
  BY <1>1, <1>6, <1>7, <1>8 DEF Judged, Corrected, Complaint
<1>10. VerdictsOfCommits' /\ JudgedOnce'
  BY <1>1 DEF Record, VerdictsOfCommits, JudgedOnce
<1>11. CommittedBeforeJudged'
  <2> SUFFICES ASSUME NEW f \in Cycles, workers'[f].pc \in Uncommitted
               PROVE  ~Judged(f) /\ (SlotHolds(slot) => slot.plan.cycle # f)
    BY <1>1, <1>9 DEF CommittedBeforeJudged
  <2>1. workers[f].pc \in Uncommitted
    BY <1>1, <1>3 DEF Moves, Uncommitted, Undecided
  <2> QED
    BY <2>1 DEF Record, CommittedBeforeJudged
<1>12. AnswersComplaints'
  <2>1. \A f \in Cycles : workers'[f].corrects = workers[f].corrects
    BY <1>3 DEF Moves, Keeps
  <2>2. \A j \in DOMAIN journal' :
          journal'[j].corrects # NoCycle => Complaint(journal'[j].corrects)
    BY <1>5, <1>6, <1>7 DEF Record, AnswersComplaints
  <2> QED
    BY <1>1, <1>9, <2>1, <2>2 DEF Record, AnswersComplaints
<1>13. PendingUncorrected'
  <2> SUFFICES ASSUME stats.timeouts = 0, feedback.pending # NoCycle,
                      Corrected(feedback.pending) \/ feedback.pending = c
               PROVE  \E f \in Cycles : workers'[f].pc = "feedback"
    BY <1>1, <1>9 DEF PendingUncorrected
  <2>1. CASE feedback.pending = c
    BY <1>3, <1>4, <2>1 DEF Moves
  <2>2. CASE Corrected(feedback.pending)
    <3>1. PICK f \in Cycles : workers[f].pc = "feedback"
      BY <2>2 DEF Record, PendingUncorrected
    <3> QED
      BY <1>1, <1>3, <3>1 DEF Moves
  <2> QED
    BY <2>1, <2>2
<1>14. CorrectedOnce'
  <2> SUFFICES ASSUME stats.timeouts = 0
               PROVE  \A j, k \in DOMAIN journal' :
                        journal'[j].corrects # NoCycle
                          /\ journal'[k].corrects = journal'[j].corrects => k = j
    BY <1>1 DEF CorrectedOnce
  <2>1. c # NoCycle => ~Corrected(c)
    <3> SUFFICES ASSUME c # NoCycle, Corrected(c)
                 PROVE  FALSE
      OBVIOUS
    <3>1. c = feedback.pending
      BY <1>1 DEF c, IInv, AnswersPending
    <3>2. PICK f \in Cycles : workers[f].pc = "feedback"
      BY <3>1 DEF Record, PendingUncorrected
    <3>3. f = epoch /\ e = epoch
      BY <1>1, <3>2, OnlyNewestRuns
    <3> QED
      BY <1>1, <3>2, <3>3
  <2>2. \A j, k \in DOMAIN journal :
          journal[j].corrects # NoCycle /\ journal[k].corrects = journal[j].corrects => k = j
    BY DEF Record, CorrectedOnce
  <2>3. \A j \in DOMAIN journal : c # NoCycle => journal[j].corrects # c
    BY <2>1 DEF Corrected
  <2> QED
    BY <1>6, <1>7, <2>2, <2>3
<1> QED
  BY <1>10, <1>11, <1>12, <1>13, <1>14 DEF Record

LEMMA RecordResolve ==
  ASSUME IInv, Record, NEW e \in Cycles, ResolveFeedback(e)
  PROVE  Record'
<1>1. /\ TypeOK /\ workers[e].pc = "feedback" /\ Goto(e, "commit")
      /\ feedback' = [feedback EXCEPT !.pending = NoCycle]
      /\ UNCHANGED <<stats, slot, events, journal>>
  BY DEF IInv, ResolveFeedback, At
<1>2. Moves(e, "commit") /\ Keeps(e)
  BY <1>1, GotoMoves DEF PCs, Delivering
<1>3. feedback'.seen = feedback.seen /\ feedback'.pending = NoCycle
  BY <1>1 DEF TypeOK
<1>4. \A p : /\ Judged(p)' <=> Judged(p)
             /\ Corrected(p)' <=> Corrected(p)
             /\ Complaint(p)' <=> Complaint(p)
  BY <1>1, <1>3 DEF Judged, Corrected, Complaint
<1>5. VerdictsOfCommits' /\ JudgedOnce' /\ CorrectedOnce' /\ PendingUncorrected'
  BY <1>1, <1>3
  DEF Record, VerdictsOfCommits, JudgedOnce, CorrectedOnce, PendingUncorrected
<1>6. CommittedBeforeJudged'
  <2> SUFFICES ASSUME NEW f \in Cycles, workers'[f].pc \in Uncommitted
               PROVE  ~Judged(f) /\ (SlotHolds(slot) => slot.plan.cycle # f)
    BY <1>1, <1>4 DEF CommittedBeforeJudged
  <2>1. workers[f].pc \in Uncommitted
    BY <1>1, <1>2 DEF Moves, Uncommitted, Undecided
  <2> QED
    BY <2>1 DEF Record, CommittedBeforeJudged
<1>7. AnswersComplaints'
  <2>1. \A f \in Cycles : workers'[f].corrects = workers[f].corrects
    BY <1>2 DEF Moves, Keeps
  <2> QED
    BY <1>1, <1>3, <1>4, <2>1 DEF Record, AnswersComplaints
<1> QED
  BY <1>5, <1>6, <1>7 DEF Record

\* A commit: no verdict is on it yet.
LEMMA RecordCommit ==
  ASSUME IInv, Record, NEW e \in Cycles, CommitPlan(e)
  PROVE  Record'
<1>1. /\ TypeOK /\ workers[e].pc = "commit" /\ Goto(e, "count")
      /\ slot' = [plan |-> workers[e].plan, generation |-> slot.generation + 1]
      /\ UNCHANGED <<stats, feedback, events, journal>>
  BY DEF IInv, CommitPlan, SlotCommit, At
<1>2. Moves(e, "count") /\ Keeps(e)
  BY <1>1, GotoMoves DEF PCs, Delivering
<1>3. /\ slot.generation \in Nat /\ slot'.generation = slot.generation + 1
      /\ slot'.plan.cycle = e
  BY <1>1 DEF TypeOK, IInv, PlanOfCycle, Delivering
<1>4. ~Judged(e)
  BY <1>1 DEF Record, CommittedBeforeJudged, Uncommitted
<1>5. \A p : /\ Judged(p)' <=> Judged(p)
             /\ Corrected(p)' <=> Corrected(p)
             /\ Complaint(p)' <=> Complaint(p)
  BY <1>1 DEF Judged, Corrected, Complaint
<1>6. JudgedOnce' /\ CorrectedOnce'
  BY <1>1 DEF Record, JudgedOnce, CorrectedOnce
<1>7. VerdictsOfCommits'
  <2> SUFFICES ASSUME NEW i \in DOMAIN events
               PROVE  /\ events[i].generation <= slot'.generation
                      /\ events[i].generation # slot'.generation
                      /\ events[i].plan # slot'.plan.cycle
    BY <1>1, <1>3 DEF VerdictsOfCommits
  <2>1. events[i].generation \in Nat /\ events[i].generation <= slot.generation
    BY EventType DEF Event, Record, VerdictsOfCommits
  <2>2. events[i].plan # e
    BY <1>4 DEF Judged
  <2> QED
    BY <1>3, <2>1, <2>2
<1>8. CommittedBeforeJudged'
  <2> SUFFICES ASSUME NEW f \in Cycles, workers'[f].pc \in Uncommitted
               PROVE  ~Judged(f) /\ f # e
    BY <1>3, <1>5 DEF CommittedBeforeJudged
  <2>1. f # e
    BY <1>2 DEF Moves, Uncommitted, Undecided
  <2>2. workers[f].pc \in Uncommitted
    BY <1>2, <2>1 DEF Moves
  <2> QED
    BY <2>1, <2>2 DEF Record, CommittedBeforeJudged
<1>9. AnswersComplaints'
  <2>1. \A f \in Cycles : workers'[f].corrects = workers[f].corrects
    BY <1>2 DEF Moves, Keeps
  <2> QED
    BY <1>1, <1>5, <2>1 DEF Record, AnswersComplaints
<1>10. PendingUncorrected'
  <2>1. \A f \in Cycles : workers[f].pc = "feedback" => workers'[f].pc = "feedback"
    BY <1>1, <1>2 DEF Moves
  <2> QED
    BY <1>1, <1>5, <2>1 DEF Record, PendingUncorrected
<1> QED
  BY <1>6, <1>7, <1>8, <1>9, <1>10 DEF Record

LEMMA RecordRunCycle ==
  ASSUME IInv, Record, NEW e \in Cycles, RunCycle(e)
  PROVE  Record'
  BY RecordPrivate, RecordSnapshot, RecordObserve, RecordCapture, RecordWrite, RecordResolve, RecordCommit
  DEF RunCycle, Ask, Deliver

-----------------------------------------------------------------------------
(* The steps of the callback thread keep the record.                       *)

LEMMA RecordStart ==
  ASSUME IInv, Record, NEW input \in Inputs, OnTimestep(input)
  PROVE  Record'
<1>1. PICK trigger \in Due(input) : Start(trigger, input)
  BY DEF OnTimestep
<1> DEFINE n == epoch + 1
           thread == [NoThread EXCEPT !.pc = "resolve", !.input = input, !.trigger = trigger]
           more == IF Preempts THEN 1 ELSE 0
           fired == stats.events + (IF trigger = "event" THEN 1 ELSE 0)
           triggers == stats.triggers + 1
           timeouts == stats.timeouts + more
<1>2. /\ epoch < MaxEpoch /\ workers' = [workers EXCEPT ![n] = thread]
      /\ stats' = [stats EXCEPT !.triggers = triggers, !.timeouts = timeouts,
                               !.events = fired]
      /\ UNCHANGED <<slot, feedback, events, journal>>
  BY <1>1 DEF Start
<1>3. /\ workers \in [Cycles -> Thread] /\ epoch \in 0 .. MaxEpoch
      /\ stats \in Statistics /\ stats.timeouts \in Nat
  BY StatsType DEF IInv, TypeOK
<1>4. more \in Nat /\ thread.pc = "resolve" /\ thread.corrects = NoCycle
  BY DEF NoThread
<1>5. n \in Cycles /\ workers[n].pc = "none"
  <2>1. n \in Cycles /\ n > epoch
    BY <1>2, <1>3, SchedulerAssumption DEF Cycles
  <2> QED
    BY <2>1 DEF IInv, StartedToEpoch
<1> HIDE DEF triggers, timeouts, fired, thread, n
<1>6. stats'.timeouts = timeouts
  BY <1>2, <1>3 DEF Statistics
<1>7. stats'.timeouts = 0 => stats.timeouts = 0
  BY <1>3, <1>4, <1>6 DEF timeouts
<1>8. /\ workers'[n].pc = "resolve" /\ workers'[n].corrects = NoCycle
      /\ \A f \in Cycles \ {n} : workers'[f] = workers[f]
  BY <1>2, <1>3, <1>4, <1>5
<1>9. \A p : (Judged(p)' <=> Judged(p)) /\ (Complaint(p) => Complaint(p)')
           /\ (Corrected(p)' <=> Corrected(p))
  BY <1>2, <1>7 DEF Judged, Complaint, Corrected
<1>10. VerdictsOfCommits' /\ JudgedOnce' /\ CorrectedOnce'
  BY <1>2, <1>7 DEF Record, VerdictsOfCommits, JudgedOnce, CorrectedOnce
<1>11. CommittedBeforeJudged'
  <2> SUFFICES ASSUME NEW f \in Cycles, workers'[f].pc \in Uncommitted
               PROVE  ~Judged(f) /\ (SlotHolds(slot) => slot.plan.cycle # f)
    BY <1>2, <1>9 DEF CommittedBeforeJudged
  <2>1. workers[f].pc \in Uncommitted
    BY <1>5, <1>8 DEF Uncommitted
  <2> QED
    BY <2>1 DEF Record, CommittedBeforeJudged
<1>12. AnswersComplaints'
  <2>1. \A f \in Cycles : workers'[f].corrects # NoCycle => Complaint(workers'[f].corrects)
    BY <1>8 DEF Record, AnswersComplaints
  <2> QED
    BY <1>2, <1>9, <2>1 DEF Record, AnswersComplaints
<1>13. PendingUncorrected'
  <2>1. \A f \in Cycles : workers[f].pc = "feedback" => workers'[f].pc = "feedback"
    BY <1>5, <1>8
  <2> QED
    BY <1>2, <1>7, <1>9, <2>1 DEF Record, PendingUncorrected
<1> QED
  BY <1>10, <1>11, <1>12, <1>13 DEF Record

LEMMA RecordUnchanged ==
  ASSUME Record, UNCHANGED <<stats, workers, slot, feedback, events, journal>>
  PROVE  Record'
<1>1. \A p : (Judged(p)' <=> Judged(p)) /\ (Complaint(p)' <=> Complaint(p))
           /\ (Corrected(p)' <=> Corrected(p))
  BY DEF Judged, Complaint, Corrected
<1>2. VerdictsOfCommits' /\ JudgedOnce' /\ CorrectedOnce' /\ PendingUncorrected'
  BY <1>1 DEF Record, VerdictsOfCommits, JudgedOnce, CorrectedOnce, PendingUncorrected
<1>3. CommittedBeforeJudged' /\ AnswersComplaints'
  BY <1>1 DEF Record, CommittedBeforeJudged, AnswersComplaints
<1> QED
  BY <1>2, <1>3 DEF Record

\* One more verdict, on a plan that had none.
LEMMA RecordEvent ==
  ASSUME IInv, Record, NEW event \in Event, events' = Append(events, event),
         UNCHANGED <<stats, workers, slot, feedback, journal>>,
         event.generation <= slot.generation,
         SlotHolds(slot) =>
           (event.generation = slot.generation <=> event.plan = slot.plan.cycle),
         ~Judged(event.plan),
         \A f \in Cycles : workers[f].pc \in Uncommitted => event.plan # f
  PROVE  /\ Record'
         /\ \A p : Judged(p)' <=> Judged(p) \/ p = event.plan
<1> DEFINE n == Len(events) + 1
<1>1. /\ Len(events) \in Nat /\ DOMAIN events = 1 .. Len(events)
      /\ DOMAIN events' = 1 .. n /\ events'[n] = event
      /\ \A i \in DOMAIN events : events'[i] = events[i]
  BY EventType, AppendProperties, LenProperties DEF IInv, TypeOK
<1>2. /\ \A i \in DOMAIN events' : i = n \/ i \in DOMAIN events
      /\ n \in DOMAIN events' /\ n \notin DOMAIN events
      /\ \A i \in DOMAIN events : i \in DOMAIN events'
  BY <1>1
<1> HIDE DEF n
<1>3. \A p : /\ Judged(p)' <=> Judged(p) \/ p = event.plan
             /\ Corrected(p)' <=> Corrected(p)
             /\ Complaint(p) => Complaint(p)'
  BY <1>1, <1>2 DEF Judged, Corrected, Complaint
<1>4. VerdictsOfCommits'
  <2>1. \A i \in DOMAIN events' : events'[i].generation <= slot.generation
    BY <1>1, <1>2 DEF Record, VerdictsOfCommits
  <2>2. SlotHolds(slot) => \A i \in DOMAIN events' :
          events'[i].generation = slot.generation <=> events'[i].plan = slot.plan.cycle
    BY <1>1, <1>2 DEF Record, VerdictsOfCommits
  <2> QED
    BY <2>1, <2>2 DEF Record, VerdictsOfCommits
<1>5. JudgedOnce'
  <2> SUFFICES ASSUME NEW i \in DOMAIN events', NEW k \in DOMAIN events',
                      events'[i].plan = events'[k].plan
               PROVE  i = k
    BY DEF JudgedOnce
  <2>1. \A j \in DOMAIN events : events[j].plan # event.plan
    BY DEF Judged
  <2> QED
    BY <1>1, <1>2, <2>1 DEF Record, JudgedOnce
<1>6. CommittedBeforeJudged'
  BY <1>3 DEF Record, CommittedBeforeJudged
<1>7. AnswersComplaints' /\ PendingUncorrected' /\ CorrectedOnce'
  BY <1>3 DEF Record, AnswersComplaints, PendingUncorrected, CorrectedOnce
<1> QED
  BY <1>3, <1>4, <1>5, <1>6, <1>7 DEF Record

\* The guardian's verdict on a new commit.
LEMMA RecordJudge ==
  ASSUME IInv, Record, NEW decision \in Decisions, Judge(decision)
  PROVE  /\ Record'
         /\ Judged(slot.plan.cycle)' /\ (Judged(WatchdogPlan)' => Judged(WatchdogPlan))
<1> DEFINE c == slot.plan.cycle
           event == [plan |-> c, decision |-> decision, generation |-> slot.generation]
<1>1. /\ SlotHolds(slot) /\ ~Journalled /\ events' = Append(events, event)
      /\ UNCHANGED <<stats, workers, slot, feedback, journal>>
  BY DEF Judge
<1>2. c \in Cycles /\ slot.generation \in Nat
  BY <1>1 DEF IInv, TypeOK, SlotJournalled, SlotHolds, PlanRecord
<1>3. event \in Event /\ event.plan = c /\ event.generation = slot.generation
  BY <1>2, CycleNames, SchedulerAssumption DEF Event
<1>4. ~Judged(c)
  BY <1>1 DEF Judged, Journalled, Record, VerdictsOfCommits
<1>5. \A f \in Cycles : workers[f].pc \in Uncommitted => c # f
  BY <1>1 DEF Record, CommittedBeforeJudged
<1>6. c = slot.plan.cycle /\ slot'.plan.cycle = c
  BY <1>1
<1> HIDE DEF c, event
<1>7. event.generation <= slot.generation
  BY <1>2, <1>3
<1>8. SlotHolds(slot) =>
        (event.generation = slot.generation <=> event.plan = slot.plan.cycle)
  BY <1>3, <1>6
<1>9. Record' /\ \A p : Judged(p)' <=> Judged(p) \/ p = c
  BY <1>1, <1>3, <1>4, <1>5, <1>7, <1>8, RecordEvent
<1>10. WatchdogPlan # c
  BY <1>2, CycleNames
<1>11. Judged(slot.plan.cycle)'
  BY <1>6, <1>9 DEF Judged
<1>12. Judged(WatchdogPlan)' => Judged(WatchdogPlan)
  BY <1>9, <1>10 DEF Judged, WatchdogPlan
<1> QED
  BY <1>9, <1>11, <1>12

-----------------------------------------------------------------------------
(* The steps of the loop.                                                  *)

\* What drives the building stays on record while verdicts and plans are added.
LEMMA DriverStaysOnRecord ==
  ASSUME DrivingPlanOnRecord, UNCHANGED driver,
         \A p : (Judged(p) => Judged(p)') /\ (InJournal(p) => InJournal(p)')
  PROVE  DrivingPlanOnRecord'
<1> SUFFICES ASSUME driver # NoCycle
             PROVE  Judged(driver)' /\ InJournal(driver)'
  BY DEF DrivingPlanOnRecord, Judged, InJournal
<1>1. Judged(driver) /\ InJournal(driver)
  BY DEF DrivingPlanOnRecord, Judged, InJournal
<1> DEFINE p == driver
<1>2. p = driver /\ p = driver' /\ Judged(p) /\ InJournal(p)
  BY <1>1
<1> HIDE DEF p
<1>3. (\E i \in DOMAIN events' : events'[i].plan = p)
      /\ \E j \in DOMAIN journal' : journal'[j].plan = p
  BY <1>2 DEF Judged, InJournal
<1> QED
  BY <1>2, <1>3 DEF Judged, InJournal

\* A step of the scheduler's that touches neither the events nor the watchdog.
LEMMA LoopKeeps ==
  ASSUME LoopInv, IInv', Record', UNCHANGED <<watchdog, driver, events>>,
         clock' \in Nat, phase' \in {"idle", "schedule", "decide"},
         \A p : InJournal(p) => InJournal(p)'
  PROVE  LoopInv'
<1>1. \A p : Judged(p)' <=> Judged(p)
  BY DEF Judged
<1>2. LoopTypeOK' /\ TripLatched'
  BY DEF LoopInv, LoopTypeOK, TripLatched, Judged
<1>3. DrivingPlanOnRecord'
  BY <1>1, DriverStaysOnRecord DEF LoopInv
<1> QED
  BY <1>2, <1>3 DEF LoopInv

LEMMA LoopRunCycle ==
  ASSUME LoopInv, NEW e \in Cycles, RunCycle(e), UNCHANGED loop
  PROVE  LoopInv'
<1>1. IInv /\ Record /\ LoopTypeOK
  BY DEF LoopInv
<1>2. IInv' /\ Record'
  BY <1>1, RunCycleStep, RecordRunCycle
<1>3. events' = events
  BY DEF RunCycle, Resolve, HoldCycle, ReuseCached, MissCache, Ask, TakeSnapshot, Observe,
         CapturePending, Answer, ModelAnswers, ModelFails, CheckEpoch, Deliver, WritePlan,
         ResolveFeedback, CommitPlan, CountAccepted, Raise, Finish
<1>4. \A p : InJournal(p) => InJournal(p)'
  <2>1. CASE WritePlan(e)
    <3> DEFINE row == [plan |-> e, corrects |-> workers[e].corrects]
    <3>1. journal' = Append(journal, row)
      BY <2>1 DEF WritePlan
    <3>2. row \in [plan : Cycles, corrects : EventIds \cup {NoCycle}]
      BY <1>1, ThreadFields DEF IInv
    <3> HIDE DEF row
    <3>3. /\ \A j \in DOMAIN journal : j \in DOMAIN journal' /\ journal'[j] = journal[j]
      BY <1>1, <3>1, <3>2, JournalType, AppendProperties, LenProperties DEF IInv
    <3> QED
      BY <3>3 DEF InJournal
  <2>2. CASE ~WritePlan(e)
    <3>1. journal' = journal
      BY <2>2
      DEF RunCycle, Resolve, HoldCycle, ReuseCached, MissCache, Ask, TakeSnapshot, Observe,
          CapturePending, Answer, ModelAnswers, ModelFails, CheckEpoch, Deliver,
          ResolveFeedback, CommitPlan, CountAccepted, Raise, Finish
    <3> QED
      BY <3>1 DEF InJournal
  <2> QED
    BY <2>1, <2>2
<1>5. /\ UNCHANGED <<watchdog, driver, events>> /\ clock' \in Nat
      /\ phase' \in {"idle", "schedule", "decide"}
  BY <1>1, <1>3 DEF loop, LoopTypeOK
<1> QED
  BY <1>2, <1>4, <1>5, LoopKeeps

\* The clock, the wall clock, and the steps that find nothing to do.
LEMMA LoopClock ==
  ASSUME LoopInv, NewHour \/ OutrunBudget \/ UNCHANGED vars,
         UNCHANGED <<watchdog, driver>>,
         clock' \in Nat, phase' \in {"idle", "schedule", "decide"}
  PROVE  LoopInv'
<1>1. IInv /\ Record
  BY DEF LoopInv
<1>2. IInv'
  BY <1>1, ClockStep DEF NewHour, OutrunBudget, vars, IInv, TypeOK
<1>3. UNCHANGED <<stats, workers, slot, feedback, events, journal>>
  BY DEF NewHour, OutrunBudget, vars
<1>4. Record'
  BY <1>1, <1>3, RecordUnchanged
<1>5. \A p : InJournal(p) => InJournal(p)'
  BY <1>3 DEF InJournal
<1> QED
  BY <1>2, <1>3, <1>4, <1>5, LoopKeeps

LEMMA LoopSchedule ==
  ASSUME LoopInv, NEW input \in Inputs, Schedule(input)
  PROVE  LoopInv'
<1>1. /\ UNCHANGED <<watchdog, driver>> /\ clock' \in Nat
      /\ phase' \in {"idle", "schedule", "decide"}
  BY DEF Schedule, LoopInv, LoopTypeOK
<1>2. CASE OnTimestep(input)
  <2>1. IInv' /\ Record'
    BY <1>2, OnTimestepStep, RecordStart DEF LoopInv
  <2>2. UNCHANGED <<events, journal>>
    BY <1>2 DEF OnTimestep, Start
  <2>3. \A p : InJournal(p) => InJournal(p)'
    BY <2>2 DEF InJournal
  <2> QED
    BY <1>1, <2>1, <2>2, <2>3, LoopKeeps
<1>3. CASE UNCHANGED vars
  BY <1>1, <1>3, LoopClock
<1> QED
  BY <1>2, <1>3 DEF Schedule

\* A check of the watchdog never clears a trip.
LEMMA CheckLatches ==
  ASSUME LoopTypeOK
  PROVE  /\ Check(watchdog, clock) \in [lastValid : Int, tripped : BOOLEAN]
         /\ watchdog.tripped => Check(watchdog, clock).tripped
<1>1. clock \in Int /\ watchdog \in [lastValid : Int, tripped : BOOLEAN]
  BY DEF LoopTypeOK
<1>2. /\ [watchdog EXCEPT !.lastValid = clock] \in [lastValid : Int, tripped : BOOLEAN]
      /\ [watchdog EXCEPT !.lastValid = clock].tripped = watchdog.tripped
  BY <1>1
<1>3. /\ [watchdog EXCEPT !.tripped = TRUE] \in [lastValid : Int, tripped : BOOLEAN]
      /\ [watchdog EXCEPT !.tripped = TRUE].tripped
  BY <1>1
<1>4. Check(watchdog, clock) \in {watchdog, [watchdog EXCEPT !.lastValid = clock],
                                   [watchdog EXCEPT !.tripped = TRUE]}
  BY DEF Check
<1> QED
  BY <1>1, <1>2, <1>3, <1>4

LEMMA LoopDecideBaseline ==
  ASSUME LoopInv, DecideBaseline
  PROVE  LoopInv'
<1> DEFINE event == [plan |-> WatchdogPlan, decision |-> "rejected", generation |-> 0]
<1>1. /\ clock' = clock /\ phase' = "idle" /\ driver' = NoCycle
      /\ watchdog' = Check(watchdog, clock)
      /\ events' = IF Trips(watchdog, clock) THEN Append(events, event) ELSE events
      /\ UNCHANGED <<callback, inflight, stats, workers, slot, cache, feedback, journal>>
  BY DEF DecideBaseline
<1>2. IInv /\ Record /\ LoopTypeOK /\ TripLatched
  BY DEF LoopInv
<1>3. LoopTypeOK' /\ DrivingPlanOnRecord' /\ (watchdog.tripped => watchdog'.tripped)
  BY <1>1, <1>2, CheckLatches DEF LoopTypeOK, DrivingPlanOnRecord
<1>4. CASE Trips(watchdog, clock)
  <2>1. ~watchdog.tripped /\ watchdog'.tripped
    BY <1>1, <1>4 DEF Trips
  <2>2. ~Judged(WatchdogPlan)
    BY <1>2, <2>1 DEF TripLatched
  <2>3. /\ event \in Event /\ event.plan = WatchdogPlan /\ event.generation = 0
        /\ events' = Append(events, event)
    BY <1>1, <1>4, SchedulerAssumption DEF Event, EventIds, Verdict, WatchdogPlan
  <2> HIDE DEF event
  <2>4. event \in [plan : EventIds, decision : Verdict, generation : Nat]
    BY <2>3 DEF Event
  <2>5. IInv'
    BY <1>1, <1>2, <2>3, <2>4, EventStep
  <2>6. slot.generation \in Nat /\ event.generation <= slot.generation
    BY <1>2, <2>3 DEF IInv, TypeOK
  <2>7. SlotHolds(slot) => event.generation # slot.generation
                           /\ event.plan # slot.plan.cycle
    <3> SUFFICES ASSUME SlotHolds(slot)
                 PROVE  event.generation # slot.generation /\ event.plan # slot.plan.cycle
      OBVIOUS
    <3>1. slot.generation # 0
      BY <1>2 DEF Record, VerdictsOfCommits
    <3>2. slot.plan.cycle \in Cycles
      BY <1>2 DEF IInv, SlotJournalled, SlotHolds, PlanRecord
    <3> QED
      BY <2>3, <3>1, <3>2, CycleNames
  <2>8. \A f \in Cycles : event.plan # f
    BY <2>3, CycleNames
  <2>9. Record'
    BY <1>1, <1>2, <2>2, <2>3, <2>6, <2>7, <2>8, RecordEvent
  <2> QED
    BY <1>3, <2>1, <2>5, <2>9 DEF LoopInv, TripLatched
<1>5. CASE ~Trips(watchdog, clock)
  <2>1. events' = events
    BY <1>1, <1>5
  <2>2. IInv' /\ Record'
    BY <1>1, <1>2, <2>1, ClockStep, RecordUnchanged DEF callback, IInv, TypeOK
  <2>3. TripLatched'
    BY <1>2, <1>3, <2>1 DEF TripLatched, Judged
  <2> QED
    BY <1>3, <2>2, <2>3 DEF LoopInv
<1> QED
  BY <1>4, <1>5

LEMMA LoopDecidePlan ==
  ASSUME LoopInv, NEW decision \in Decisions, DecidePlan(decision)
  PROVE  LoopInv'
<1>1. /\ SlotHolds(slot) /\ ~Check(watchdog, clock).tripped
      /\ clock' = clock /\ phase' = "idle" /\ driver' = slot.plan.cycle
  BY DEF DecidePlan
<1>2. IInv /\ Record /\ LoopTypeOK /\ TripLatched
  BY DEF LoopInv
<1>3. ~watchdog.tripped /\ ~Judged(WatchdogPlan)
  BY <1>1, <1>2, CheckLatches DEF TripLatched
<1>4. slot.plan.cycle \in Cycles /\ InJournal(slot.plan.cycle)
  BY <1>1, <1>2 DEF IInv, SlotJournalled, SlotHolds, PlanRecord
<1>5. LoopTypeOK'
  <2>1. clock \in Int
    BY <1>2 DEF LoopTypeOK
  <2>2. NoteValidPlan(clock) \in [lastValid : Int, tripped : BOOLEAN]
    BY <2>1 DEF NoteValidPlan
  <2>3. watchdog' = Check(watchdog, clock) \/ watchdog' = NoteValidPlan(clock)
    BY DEF DecidePlan
  <2> QED
    BY <1>1, <1>2, <1>4, <2>2, <2>3, CheckLatches DEF LoopTypeOK
<1>6. CASE Journalled
  <2>1. UNCHANGED vars
    BY <1>6 DEF DecidePlan
  <2>2. UNCHANGED <<stats, workers, slot, feedback, events, journal>>
    BY <2>1 DEF vars
  <2>3. IInv' /\ Record'
    BY <1>2, <2>1, <2>2, ClockStep, RecordUnchanged DEF vars, IInv, TypeOK
  <2>4. Judged(slot.plan.cycle)
    BY <1>1, <1>2, <1>6 DEF Journalled, Judged, Record, VerdictsOfCommits
  <2>5. DrivingPlanOnRecord'
    BY <1>1, <1>4, <2>2, <2>4 DEF DrivingPlanOnRecord, Judged, InJournal
  <2>6. TripLatched'
    BY <1>3, <2>2 DEF TripLatched, Judged
  <2> QED
    BY <1>5, <2>3, <2>5, <2>6 DEF LoopInv
<1>7. CASE ~Journalled
  <2>1. Judge(decision)
    BY <1>7 DEF DecidePlan
  <2>2. IInv' /\ Record'
    BY <1>2, <2>1, JudgeStep, RecordJudge
  <2>3. Judged(slot.plan.cycle)' /\ ~Judged(WatchdogPlan)'
    BY <1>2, <1>3, <2>1, RecordJudge
  <2>4. slot' = slot /\ journal' = journal
    BY <2>1 DEF Judge
  <2>5. DrivingPlanOnRecord'
    BY <1>1, <1>4, <2>3, <2>4 DEF DrivingPlanOnRecord, Judged, InJournal
  <2>6. TripLatched'
    BY <2>3 DEF TripLatched
  <2> QED
    BY <1>5, <2>2, <2>5, <2>6 DEF LoopInv
<1> QED
  BY <1>6, <1>7

LEMMA LoopInitInvariant == LoopInit => LoopInv
<1> SUFFICES ASSUME LoopInit
             PROVE  LoopInv
  OBVIOUS
<1>1. IInv
  BY InitInvariant DEF LoopInit
<1>2. /\ DOMAIN events = {} /\ DOMAIN journal = {} /\ slot.plan = NoPlan
      /\ feedback.pending = NoCycle /\ \A e \in Cycles : workers[e].corrects = NoCycle
  BY DEF LoopInit, Init, EmptySlot, NoThread
<1>3. \A p : ~Judged(p) /\ ~Corrected(p)
  BY <1>2 DEF Judged, Corrected
<1>4. Record
  BY <1>2, <1>3
  DEF Record, VerdictsOfCommits, CommittedBeforeJudged, JudgedOnce, AnswersComplaints,
      PendingUncorrected, CorrectedOnce, SlotHolds
<1>5. LoopTypeOK /\ TripLatched /\ DrivingPlanOnRecord
  BY <1>3 DEF LoopInit, LoopTypeOK, NewWatchdog, NotStarted, TripLatched, DrivingPlanOnRecord
<1> QED
  BY <1>1, <1>4, <1>5 DEF LoopInv

LEMMA LoopStepInvariant == LoopInv /\ [LoopNext]_allVars => LoopInv'
<1> SUFFICES ASSUME LoopInv, [LoopNext]_allVars
             PROVE  LoopInv'
  OBVIOUS
<1>1. LoopTypeOK
  BY DEF LoopInv
<1>2. CASE BeginTimestep
  BY <1>1, <1>2, LoopClock DEF BeginTimestep, LoopTypeOK
<1>3. CASE \E input \in Inputs : Schedule(input)
  BY <1>3, LoopSchedule
<1>4. CASE DecideBaseline
  BY <1>4, LoopDecideBaseline
<1>5. CASE \E decision \in Decisions : DecidePlan(decision)
  BY <1>5, LoopDecidePlan
<1>6. CASE (OutrunBudget \/ UNCHANGED vars) /\ UNCHANGED loop
  BY <1>1, <1>6, LoopClock DEF loop, LoopTypeOK
<1>7. CASE \E e \in Cycles : RunCycle(e) /\ UNCHANGED loop
  BY <1>7, LoopRunCycle
<1> QED
  BY <1>2, <1>3, <1>4, <1>5, <1>6, <1>7 DEF LoopNext, allVars

\* The inductive invariant holds of every run of the loop.
THEOREM LoopInvariance == LoopSpec => []LoopInv
  BY LoopInitInvariant, LoopStepInvariant, PTL DEF LoopSpec

-----------------------------------------------------------------------------
(* The theorems.                                                           *)

\* Inside the loop too, where the callback's turns and the threads interleave,
\* every variable of the scheduler keeps its type.
THEOREM LoopTypeCorrect == LoopSpec => []TypeOK
<1>1. LoopInv => TypeOK
  BY DEF LoopInv, IInv
<1> QED
  BY <1>1, LoopInvariance, PTL

\* Whatever plan drives a timestep, both of its records are there: the plan row
\* (write_plan before commit) and the guardian's verdict (Executor._journal).
THEOREM DriverOnRecord == LoopSpec => []DrivingPlanOnRecord
<1>1. LoopInv => DrivingPlanOnRecord
  BY DEF LoopInv
<1> QED
  BY <1>1, LoopInvariance, PTL

\* A plan says it corrects a plan only if the guardian complained of that one,
\* or of the watchdog's event; while no cycle is preempted no complaint is
\* corrected twice, however many cycles run (FeedbackTracker, Scheduler).
THEOREM CorrectionsAnswerOnce == LoopSpec => []CorrectionsFollowComplaints
<1>1. LoopInv => CorrectionsFollowComplaints
  <2> SUFFICES ASSUME LoopInv, NEW j \in DOMAIN journal, journal[j].corrects # NoCycle
               PROVE  /\ \E i \in DOMAIN events : /\ events[i].plan = journal[j].corrects
                                                  /\ events[i].decision # "accepted"
                      /\ stats.timeouts = 0 =>
                           \A k \in DOMAIN journal :
                             journal[k].corrects = journal[j].corrects => k = j
    BY DEF CorrectionsFollowComplaints
  <2>1. Complaint(journal[j].corrects)
    BY DEF LoopInv, Record, AnswersComplaints
  <2>2. CorrectedOnce
    BY DEF LoopInv, Record
  <2> QED
    BY <2>1, <2>2 DEF Complaint, CorrectedOnce
<1> QED
  BY <1>1, LoopInvariance, PTL

\* The guardian's complaints are not lost in the loop, where the watchdog's
\* events come between its verdicts (FeedbackTracker, _run_cycle).
THEOREM LoopComplaintsKept == LoopSpec => []VerdictNotLost
<1>1. LoopInv => VerdictNotLost
  BY DEF LoopInv, IInv
<1> QED
  BY <1>1, LoopInvariance, PTL

\* Every step of the loop is a step of the scheduler's, or leaves its variables
\* alone, or journals the watchdog's event: the composition adds no other way to
\* change what the planning side keeps.
THEOREM LoopStepsAreSchedulers ==
  LoopNext => \/ [Next]_vars
              \/ /\ Trips(watchdog, clock)
                 /\ events' = Append(events, [plan |-> WatchdogPlan, decision |-> "rejected",
                                              generation |-> 0])
                 /\ UNCHANGED <<callback, inflight, stats, workers, slot, cache, feedback,
                               journal>>
  BY DEF LoopNext, BeginTimestep, Schedule, DecideBaseline, DecidePlan, Next, vars, callback
=============================================================================
