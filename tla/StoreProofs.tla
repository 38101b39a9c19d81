---------------------------- MODULE StoreProofs ----------------------------
(***************************************************************************)
(* The store's safety properties, for any number of plans, any batch size  *)
(* and any number of failures: what a flush keeps and in which order, what *)
(* a crash costs, and what a plan or a verdict on record says of the rest. *)
(***************************************************************************)
EXTENDS Store, SequenceTheorems, TLAPS

-----------------------------------------------------------------------------
(* The rows of the database and the buffer, n timesteps being recorded.    *)

Ascending(rows) == \A i, j \in 1 .. Len(rows) : i < j => rows[i] < rows[j]

\* No row is there twice, and those of the buffer are the later ones.
InOrder(written, held, n) ==
  /\ written \in Seq(1 .. n) /\ held \in Seq(1 .. n)
  /\ Ascending(written) /\ Ascending(held)
  /\ \A i \in 1 .. Len(written), j \in 1 .. Len(held) : written[i] < held[j]

\* No row is missing.
Complete(written, held, n) ==
  /\ Len(written) + Len(held) = n
  /\ \A i \in 1 .. Len(written) : written[i] = i
  /\ \A j \in 1 .. Len(held) : held[j] = Len(written) + j

-----------------------------------------------------------------------------
(* The inductive invariant.                                                *)

\* Only a failure leaves a transaction open.
StuckByFault == stuck => faults > 0

\* The counter counts the buffer, and the buffer is never a full batch.
BufferCounted == Len(buffer) = counter /\ counter < FlushEvery

\* close() leaves nothing in the buffer, and nothing comes after it.
ClosedEmpty == phase = "closed" => buffer = << >>

RowsInOrder == InOrder(db.telemetry, buffer, recorded)

RowsComplete == faults = 0 => Complete(db.telemetry, buffer, recorded)

Recorded == {"written", "committed", "judged"}
Flushed == Recorded \cup {"flushed"}

\* A plan is on record once its thread has written it.
PlanOnRecord == \A p \in Plans : p \in db.plans <=> planner[p] \in Recorded

\* A thread past its flush has everything its cycle saw on record.
FlushedThrough ==
  faults = 0 => \A p \in Plans : planner[p] \in Flushed => since[p] <= Len(db.telemetry)

\* Only plans on record reach the slot and are judged.
SlotOnRecord ==
  /\ \A i \in 1 .. Len(verdicts) : verdicts[i] \in db.plans \cup {WatchdogId}
  /\ db.verdicts \subseteq db.plans \cup {WatchdogId}

Kept(id) == id \in db.verdicts \/ \E i \in 1 .. Len(verdicts) : verdicts[i] = id

\* A verdict waits in the executor or is on record.
VerdictKept ==
  faults = 0 =>
    /\ \A p \in Plans : planner[p] = "judged" => Kept(p)
    /\ tripped => Kept(WatchdogId)

\* How far the run is, on record.
RunOnRecord ==
  faults = 0 =>
    /\ phase \in {"starting"} => db.run = "none"
    /\ phase \in {"running", "ending"} => db.run = "started"
    /\ phase \in {"draining", "closing", "closed"} => db.run = "ended"
    /\ phase \in {"closing", "closed"} => verdicts = << >>

IInv ==
  /\ TypeOK
  /\ StuckByFault /\ BufferCounted /\ ClosedEmpty
  /\ RowsInOrder /\ RowsComplete
  /\ PlanOnRecord /\ FlushedThrough
  /\ SlotOnRecord /\ VerdictKept
  /\ RunOnRecord

-----------------------------------------------------------------------------
(* What the store's operations do to the rows.                             *)

LEMMA RowAppended ==
  ASSUME NEW n \in Nat, NEW written, NEW held, InOrder(written, held, n)
  PROVE  /\ InOrder(written, Append(held, n + 1), n + 1)
         /\ Len(Append(held, n + 1)) = Len(held) + 1
         /\ Complete(written, held, n) => Complete(written, Append(held, n + 1), n + 1)
<1> DEFINE rows == Append(held, n + 1)
<1>1. written \in Seq(1 .. n) /\ held \in Seq(1 .. n)
  BY DEF InOrder
<1>2. written \in Seq(1 .. n + 1) /\ held \in Seq(1 .. n + 1)
  BY <1>1, SeqMonotonic, 1 .. n \subseteq 1 .. n + 1
<1>3. /\ rows \in Seq(1 .. n + 1) /\ Len(rows) = Len(held) + 1
      /\ \A i \in 1 .. Len(held) : rows[i] = held[i]
      /\ rows[Len(held) + 1] = n + 1
  BY <1>2, AppendProperties, n + 1 \in 1 .. n + 1
<1>4. /\ Len(held) \in Nat /\ Len(written) \in Nat
      /\ \A i \in 1 .. Len(held) : held[i] \in 1 .. n
      /\ \A i \in 1 .. Len(written) : written[i] \in 1 .. n
  BY <1>1, ElementOfSeq, LenProperties
<1>5. /\ \A i, j \in 1 .. Len(held) : i < j => held[i] < held[j]
      /\ \A i \in 1 .. Len(written), j \in 1 .. Len(held) : written[i] < held[j]
  BY DEF InOrder, Ascending
<1> HIDE DEF rows
<1>9. Ascending(rows)
  <2> SUFFICES ASSUME NEW i \in 1 .. Len(held) + 1, NEW j \in 1 .. Len(held) + 1, i < j
               PROVE  rows[i] < rows[j]
    BY <1>3, <1>4 DEF Ascending
  <2>1. i \in 1 .. Len(held)
    BY <1>4
  <2>2. CASE j \in 1 .. Len(held)
    <3>1. rows[i] = held[i] /\ rows[j] = held[j]
      BY <2>1, <2>2, <1>3
    <3>2. held[i] < held[j]
      BY <2>1, <2>2, <1>5
    <3> QED
      BY <3>1, <3>2
  <2>3. CASE j = Len(held) + 1
    <3>1. rows[i] = held[i] /\ rows[j] = n + 1 /\ held[i] \in 1 .. n
      BY <2>1, <2>3, <1>3, <1>4
    <3> QED
      BY <3>1
  <2>4. j \in 1 .. Len(held) \/ j = Len(held) + 1
    BY <1>4
  <2> QED
    BY <2>2, <2>3, <2>4
<1>6. \A i \in 1 .. Len(written), j \in 1 .. Len(rows) : written[i] < rows[j]
  <2> TAKE i \in 1 .. Len(written), j \in 1 .. Len(rows)
  <2>1. CASE j \in 1 .. Len(held)
    BY <2>1, <1>3, <1>5
  <2>2. CASE j = Len(held) + 1
    <3>1. rows[j] = n + 1 /\ written[i] \in 1 .. n
      BY <2>2, <1>3, <1>4
    <3> QED
      BY <3>1
  <2> QED
    BY <2>1, <2>2, <1>3, <1>4
<1>7. InOrder(written, rows, n + 1)
  BY <1>2, <1>3, <1>9, <1>6 DEF InOrder
<1>8. Complete(written, held, n) => Complete(written, rows, n + 1)
  <2> SUFFICES ASSUME Complete(written, held, n)
               PROVE  Complete(written, rows, n + 1)
    OBVIOUS
  <2>1. /\ Len(written) + Len(held) = n
        /\ \A i \in 1 .. Len(written) : written[i] = i
        /\ \A j \in 1 .. Len(held) : held[j] = Len(written) + j
    BY DEF Complete
  <2>2. Len(written) + Len(rows) = n + 1
    BY <2>1, <1>3, <1>4
  <2>3. ASSUME NEW j \in 1 .. Len(rows)
        PROVE  rows[j] = Len(written) + j
    <3>1. CASE j \in 1 .. Len(held)
      BY <3>1, <2>1, <1>3
    <3>2. CASE j = Len(held) + 1
      BY <3>2, <2>1, <1>3, <1>4
    <3> QED
      BY <3>1, <3>2, <1>3, <1>4
  <2> QED
    BY <2>1, <2>2, <2>3 DEF Complete
<1> QED
  BY <1>3, <1>7, <1>8 DEF rows

LEMMA RowsWritten ==
  ASSUME NEW n \in Nat, NEW written, NEW held, InOrder(written, held, n)
  PROVE  /\ InOrder(written \o held, << >>, n)
         /\ Len(written \o held) = Len(written) + Len(held)
         /\ Complete(written, held, n) => Complete(written \o held, << >>, n)
<1> DEFINE rows == written \o held
<1>1. written \in Seq(1 .. n) /\ held \in Seq(1 .. n)
  BY DEF InOrder
<1>2. /\ rows \in Seq(1 .. n) /\ Len(rows) = Len(written) + Len(held)
      /\ \A i \in 1 .. Len(written) + Len(held) :
           rows[i] = IF i <= Len(written) THEN written[i] ELSE held[i - Len(written)]
  BY <1>1, ConcatProperties
<1>3. Len(held) \in Nat /\ Len(written) \in Nat
  BY <1>1, LenProperties
<1>4. << >> \in Seq(1 .. n) /\ Len(<< >>) = 0
  BY EmptySeq
<1>8. /\ \A i, j \in 1 .. Len(held) : i < j => held[i] < held[j]
      /\ \A i, j \in 1 .. Len(written) : i < j => written[i] < written[j]
      /\ \A i \in 1 .. Len(written), j \in 1 .. Len(held) : written[i] < held[j]
  BY DEF InOrder, Ascending
<1> HIDE DEF rows
<1>5. Ascending(rows)
  <2> SUFFICES ASSUME NEW i \in 1 .. Len(rows), NEW j \in 1 .. Len(rows), i < j
               PROVE  rows[i] < rows[j]
    BY DEF Ascending
  <2>1. CASE j <= Len(written)
    <3>1. i \in Nat /\ j \in Nat /\ i >= 1 /\ i <= Len(written) /\ Len(written) \in Nat
      BY <2>1, <1>2, <1>3
    <3>2. i \in 1 .. Len(written) /\ j \in 1 .. Len(written)
      BY <3>1, <2>1
    <3>3. rows[i] = written[i] /\ rows[j] = written[j]
      BY <3>1, <2>1, <1>2, <1>3
    <3> QED
      BY <3>2, <3>3, <1>8
  <2>2. CASE i <= Len(written) /\ j > Len(written)
    <3>1. /\ j - Len(written) \in 1 .. Len(held) /\ i \in 1 .. Len(written)
          /\ rows[i] = written[i] /\ rows[j] = held[j - Len(written)]
      BY <2>2, <1>2, <1>3
    <3> QED
      BY <3>1, <1>8
  <2>3. CASE i > Len(written)
    <3>1. /\ i - Len(written) \in 1 .. Len(held) /\ j - Len(written) \in 1 .. Len(held)
          /\ i - Len(written) < j - Len(written)
          /\ rows[i] = held[i - Len(written)] /\ rows[j] = held[j - Len(written)]
      BY <2>3, <1>2, <1>3
    <3> QED
      BY <3>1, <1>8
  <2> QED
    BY <2>1, <2>2, <2>3, <1>2, <1>3
<1>6. InOrder(rows, << >>, n)
  BY <1>2, <1>4, <1>5 DEF InOrder, Ascending
<1>7. Complete(written, held, n) => Complete(rows, << >>, n)
  <2> SUFFICES ASSUME Complete(written, held, n), NEW i \in 1 .. Len(rows)
               PROVE  rows[i] = i
    BY <1>2, <1>3, <1>4 DEF Complete
  <2>1. CASE i <= Len(written)
    BY <2>1, <1>2, <1>3 DEF Complete
  <2>2. CASE i > Len(written)
    <3>1. i - Len(written) \in 1 .. Len(held)
      BY <2>2, <1>2, <1>3
    <3> QED
      BY <3>1, <2>2, <1>2, <1>3 DEF Complete
  <2> QED
    BY <2>1, <2>2, <1>2, <1>3
<1> QED
  BY <1>2, <1>6, <1>7 DEF rows

LEMMA RowsDropped ==
  ASSUME NEW n \in Nat, NEW written, NEW held, InOrder(written, held, n)
  PROVE  InOrder(written, << >>, n)
  BY EmptySeq DEF InOrder, Ascending

-----------------------------------------------------------------------------
(* The outcomes of a transaction, and of the flush that is one.            *)

\* It committed, and left the database as new.
Committed(ok, new) ==
  ok = TRUE /\ db' = new /\ faults' = faults /\ stuck' \in BOOLEAN /\ (stuck' => stuck)

\* It failed, which is a fault unless the connection is gone.
Failed(ok) ==
  /\ ok = FALSE /\ db' = db /\ faults' \in Nat /\ stuck' \in BOOLEAN
  /\ stuck' => faults' > 0
  /\ faults' = 0 => faults = 0 /\ ~Connected

LEMMA TransactionOutcome ==
  ASSUME TypeOK, StuckByFault, NEW new, NEW result \in Transaction(new), Apply(result)
  PROVE  Committed(result.ok, new) \/ Failed(result.ok)
<1>1. CASE ~Connected \/ stuck
  <2>1. result = Result(FALSE, db, stuck, faults)
    BY <1>1 DEF Transaction
  <2>2. result.ok = FALSE /\ db' = db /\ stuck' = stuck /\ faults' = faults
    BY <2>1 DEF Result, Apply
  <2>3. faults \in Nat /\ stuck \in BOOLEAN /\ (stuck => faults > 0)
    BY DEF TypeOK, StuckByFault
  <2>4. faults = 0 => ~Connected
    BY <1>1, <2>3
  <2> QED
    BY <2>2, <2>3, <2>4 DEF Failed
<1>2. CASE Connected /\ ~stuck
  <2>1. CASE result = Result(TRUE, new, FALSE, faults)
    BY <2>1 DEF Result, Apply, Committed
  <2>2. CASE \E left \in BOOLEAN : result = Result(FALSE, db, left, faults + 1)
    <3>1. result.ok = FALSE /\ db' = db /\ stuck' \in BOOLEAN /\ faults' = faults + 1
      BY <2>2 DEF Result, Apply
    <3>2. faults \in Nat
      BY DEF TypeOK
    <3> QED
      BY <3>1, <3>2 DEF Failed
  <2> QED
    BY <1>2, <2>1, <2>2 DEF Transaction
<1> QED
  BY <1>1, <1>2

WithRows(rows) == [db EXCEPT !.telemetry = @ \o rows]

LEMMA FlushOutcome ==
  ASSUME TypeOK, StuckByFault, NEW S, NEW rows \in Seq(S), db.telemetry \in Seq(S),
         NEW result \in Flush(rows), Apply(result)
  PROVE  \/ Committed(result.ok, WithRows(rows))
         \/ Failed(result.ok) /\ rows # << >>
<1>1. CASE rows = << >>
  <2>1. result = Result(TRUE, db, stuck, faults)
    BY <1>1 DEF Flush
  <2>2. db.telemetry \o rows = db.telemetry
    BY <1>1, ConcatEmptySeq
  <2>3. WithRows(rows) = db
    BY <2>2 DEF WithRows, TypeOK
  <2> QED
    BY <2>1, <2>3 DEF Result, Apply, Committed, TypeOK
<1>2. CASE rows # << >>
  <2>1. result \in Transaction(WithRows(rows))
    BY <1>2 DEF Flush, WithRows
  <2> QED
    BY <1>2, <2>1, TransactionOutcome
<1> QED
  BY <1>1, <1>2

-----------------------------------------------------------------------------
(* What a flush of the whole buffer keeps of the invariant, whoever asks   *)
(* for it.                                                                 *)

LEMMA FlushStep ==
  ASSUME IInv, phase # "crashed", EmptyBuffer, UNCHANGED recorded,
         NEW result \in Flush(buffer), Apply(result)
  PROVE  /\ StuckByFault' /\ BufferCounted' /\ RowsInOrder' /\ RowsComplete'
         /\ stuck' \in BOOLEAN /\ faults' \in Nat /\ result.ok \in BOOLEAN
         /\ buffer' = << >> /\ counter' = 0
         /\ db' = [db EXCEPT !.telemetry = db'.telemetry] /\ db'.telemetry \in Seq(Row)
         /\ Len(db'.telemetry) >= Len(db.telemetry)
         /\ faults' = 0 =>
              faults = 0 /\ result.ok = TRUE /\ Len(db'.telemetry) = recorded
<1>1. /\ db.telemetry \in Seq(Row) /\ buffer \in Seq(Row) /\ recorded \in Nat
      /\ faults \in Nat /\ stuck \in BOOLEAN
  BY DEF IInv, TypeOK
<1>2. Len(db.telemetry) \in Nat /\ Len(buffer) \in Nat
  BY <1>1, LenProperties
<1>3. buffer' = << >> /\ counter' = 0
  BY DEF EmptyBuffer
<1>4. BufferCounted'
  BY <1>3, EmptySeq, StoreAssumption DEF BufferCounted
<1>5. CASE Committed(result.ok, WithRows(buffer))
  <2>1. db' = WithRows(buffer)
    BY <1>5 DEF Committed
  <2>2. db'.telemetry = db.telemetry \o buffer
    BY <2>1 DEF WithRows, IInv, TypeOK
  <2>3. db' = [db EXCEPT !.telemetry = db'.telemetry]
    BY <2>1, <2>2 DEF WithRows
  <2>4. /\ InOrder(db'.telemetry, << >>, recorded)
        /\ Len(db'.telemetry) = Len(db.telemetry) + Len(buffer)
        /\ faults = 0 => Complete(db'.telemetry, << >>, recorded)
    BY <2>2, <1>1, RowsWritten DEF IInv, RowsInOrder, RowsComplete
  <2>5. faults = 0 => Len(db'.telemetry) = recorded
    BY <2>4, <1>2 DEF IInv, RowsComplete, Complete
  <2>6. /\ StuckByFault' /\ stuck' \in BOOLEAN /\ faults' \in Nat
        /\ result.ok = TRUE /\ faults' = faults
    BY <1>1, <1>5 DEF Committed, IInv, StuckByFault
  <2>7. RowsInOrder' /\ RowsComplete'
    BY <1>3, <2>4, <2>6 DEF RowsInOrder, RowsComplete
  <2>8. db'.telemetry \in Seq(Row)
    BY <2>4 DEF InOrder, Row
  <2>9. Len(db'.telemetry) >= Len(db.telemetry)
    BY <1>2, <2>4
  <2> QED
    BY <1>3, <1>4, <2>3, <2>5, <2>6, <2>7, <2>8, <2>9
<1>6. CASE Failed(result.ok) /\ buffer # << >>
  <2>1. faults' # 0
    BY <1>6 DEF Failed, IInv, ClosedEmpty, Connected
  <2>2. InOrder(db.telemetry, << >>, recorded)
    BY <1>1, RowsDropped DEF IInv, RowsInOrder
  <2>3. db' = db /\ db' = [db EXCEPT !.telemetry = db'.telemetry]
    BY <1>6 DEF Failed, IInv, TypeOK
  <2>4. StuckByFault' /\ stuck' \in BOOLEAN /\ faults' \in Nat /\ result.ok = FALSE
    BY <1>6 DEF Failed, StuckByFault
  <2>5. RowsInOrder' /\ RowsComplete'
    BY <1>3, <2>1, <2>2, <2>3 DEF RowsInOrder, RowsComplete
  <2>6. db'.telemetry \in Seq(Row) /\ Len(db'.telemetry) >= Len(db.telemetry)
    BY <1>1, <1>2, <2>3
  <2> QED
    BY <1>3, <1>4, <2>1, <2>3, <2>4, <2>5, <2>6
<1>7. TypeOK /\ StuckByFault
  BY DEF IInv
<1> QED
  BY <1>1, <1>5, <1>6, <1>7, FlushOutcome

\* What any other transaction does: it leaves the rows alone.
LEMMA TransactionStep ==
  ASSUME IInv, UNCHANGED <<recorded, buffer, counter>>,
         NEW new, new.telemetry = db.telemetry,
         NEW result \in Transaction(new), Apply(result)
  PROVE  /\ StuckByFault' /\ BufferCounted' /\ RowsInOrder' /\ RowsComplete'
         /\ stuck' \in BOOLEAN /\ faults' \in Nat /\ result.ok \in BOOLEAN
         /\ faults' = 0 => faults = 0
         /\ \/ result.ok = TRUE /\ db' = new
            \/ result.ok = FALSE /\ db' = db /\ (faults' = 0 => ~Connected)
<1>1. TypeOK /\ StuckByFault /\ faults \in Nat /\ stuck \in BOOLEAN
  BY DEF IInv, TypeOK
<1>2. \/ Committed(result.ok, new)
      \/ Failed(result.ok)
  BY <1>1, TransactionOutcome
<1>3. db'.telemetry = db.telemetry
  BY <1>2 DEF Committed, Failed
<1>4. /\ StuckByFault' /\ stuck' \in BOOLEAN /\ faults' \in Nat /\ result.ok \in BOOLEAN
      /\ faults' = 0 => faults = 0
      /\ \/ result.ok = TRUE /\ db' = new
         \/ result.ok = FALSE /\ db' = db /\ (faults' = 0 => ~Connected)
  BY <1>1, <1>2 DEF Committed, Failed, StuckByFault
<1>5. BufferCounted' /\ RowsInOrder' /\ RowsComplete'
  BY <1>3, <1>4 DEF IInv, BufferCounted, RowsInOrder, RowsComplete
<1> QED
  BY <1>4, <1>5

-----------------------------------------------------------------------------
(* Every step keeps the inductive invariant.                               *)

LEMMA InitInvariant == Init => IInv
<1> SUFFICES ASSUME Init
             PROVE  IInv
  OBVIOUS
<1> USE DEF Init
<1>1. << >> \in Seq(1 .. 0) /\ Len(<< >>) = 0 /\ << >> \in Seq(Judged)
  BY EmptySeq
<1>2. TypeOK
  BY <1>1 DEF TypeOK, Row
<1>3. RowsInOrder /\ RowsComplete
  BY <1>1 DEF RowsInOrder, InOrder, Ascending, RowsComplete, Complete
<1>4. PlanOnRecord /\ FlushedThrough
  BY DEF PlanOnRecord, FlushedThrough, Recorded, Flushed
<1>5. SlotOnRecord /\ VerdictKept /\ RunOnRecord
  BY <1>1 DEF SlotOnRecord, VerdictKept, Kept, RunOnRecord
<1> QED
  BY <1>1, <1>2, <1>3, <1>4, <1>5, StoreAssumption
  DEF IInv, StuckByFault, BufferCounted, ClosedEmpty

LEMMA StartRunStep == IInv /\ StartRun => IInv'
<1> SUFFICES ASSUME IInv, StartRun
             PROVE  IInv'
  OBVIOUS
<1> DEFINE new == [db EXCEPT !.run = "started"]
<1>1. PICK result \in Transaction(new) :
        Apply(result) /\ phase' = IF result.ok THEN "running" ELSE "closing"
  BY DEF StartRun
<1>2. /\ phase = "starting"
      /\ UNCHANGED <<recorded, buffer, counter, planner, since, slot, verdicts, tripped>>
  BY DEF StartRun
<1>3. /\ new.telemetry = db.telemetry /\ new.plans = db.plans
      /\ new.verdicts = db.verdicts /\ new.run = "started"
  BY DEF IInv, TypeOK
<1>4. /\ StuckByFault' /\ BufferCounted' /\ RowsInOrder' /\ RowsComplete'
      /\ stuck' \in BOOLEAN /\ faults' \in Nat /\ result.ok \in BOOLEAN
      /\ faults' = 0 => faults = 0
      /\ \/ result.ok = TRUE /\ db' = new
         \/ result.ok = FALSE /\ db' = db /\ (faults' = 0 => ~Connected)
  <2> HIDE DEF new
  <2> QED
    BY <1>1, <1>2, <1>3, TransactionStep
<1>5. TypeOK'
  BY <1>1, <1>2, <1>4 DEF IInv, TypeOK, Row
<1>6. /\ db'.telemetry = db.telemetry /\ db'.plans = db.plans
      /\ db'.verdicts = db.verdicts
  BY <1>3, <1>4
<1>7. PlanOnRecord' /\ FlushedThrough' /\ SlotOnRecord' /\ VerdictKept'
  BY <1>2, <1>4, <1>6 DEF IInv, PlanOnRecord, FlushedThrough, SlotOnRecord, VerdictKept, Kept
<1>8. ClosedEmpty' /\ RunOnRecord'
  BY <1>1, <1>2, <1>3, <1>4 DEF ClosedEmpty, RunOnRecord, Connected
<1> QED
  BY <1>4, <1>5, <1>7, <1>8 DEF IInv

LEMMA RecordTimestepStep == IInv /\ RecordTimestep => IInv'
<1> SUFFICES ASSUME IInv, RecordTimestep
             PROVE  IInv'
  OBVIOUS
<1> DEFINE rows == Append(buffer, recorded + 1)
<1>1. /\ phase = "running" /\ recorded' = recorded + 1
      /\ UNCHANGED <<phase, planner, since, slot, verdicts, tripped>>
      /\ IF BatchIsFull
         THEN EmptyBuffer /\ \E result \in Flush(rows) : Apply(result)
         ELSE buffer' = rows /\ counter' = counter + 1 /\ UNCHANGED <<db, stuck, faults>>
  BY DEF RecordTimestep
<1>2. /\ recorded \in Nat /\ counter \in Nat /\ faults \in Nat /\ stuck \in BOOLEAN
      /\ db.telemetry \in Seq(Row) /\ buffer \in Seq(Row)
      /\ InOrder(db.telemetry, buffer, recorded)
      /\ Len(buffer) = counter /\ TypeOK /\ StuckByFault
  BY DEF IInv, TypeOK, RowsInOrder, BufferCounted
<1>3. /\ InOrder(db.telemetry, rows, recorded + 1) /\ Len(rows) = counter + 1
      /\ faults = 0 => Complete(db.telemetry, rows, recorded + 1)
  BY <1>2, RowAppended DEF IInv, RowsComplete
<1>4. /\ db.telemetry \in Seq(1 .. recorded + 1) /\ rows \in Seq(1 .. recorded + 1)
      /\ Len(db.telemetry) \in Nat /\ Len(rows) \in Nat
  BY <1>3, LenProperties DEF InOrder
<1> HIDE DEF rows
<1>5. /\ StuckByFault' /\ BufferCounted' /\ RowsInOrder' /\ RowsComplete'
      /\ stuck' \in BOOLEAN /\ faults' \in Nat /\ (faults' = 0 => faults = 0)
      /\ buffer' \in Seq(1 .. recorded + 1) /\ counter' \in Nat
      /\ db' = [db EXCEPT !.telemetry = db'.telemetry]
      /\ db'.telemetry \in Seq(1 .. recorded + 1)
      /\ Len(db'.telemetry) >= Len(db.telemetry)
  <2>1. CASE ~BatchIsFull
    <3>1. buffer' = rows /\ counter' = counter + 1 /\ UNCHANGED <<db, stuck, faults>>
      BY <1>1, <2>1
    <3>2. BufferCounted'
      BY <1>2, <1>3, <2>1, <3>1, StoreAssumption DEF BatchIsFull, BufferCounted
    <3>3. RowsInOrder' /\ RowsComplete'
      BY <1>1, <1>3, <3>1 DEF RowsInOrder, RowsComplete
    <3>4. db' = [db EXCEPT !.telemetry = db'.telemetry]
      BY <3>1 DEF IInv, TypeOK
    <3> QED
      BY <1>2, <1>4, <3>1, <3>2, <3>3, <3>4 DEF StuckByFault
  <2>2. CASE BatchIsFull
    <3>1. /\ buffer' = << >> /\ counter' = 0 /\ << >> \in Seq(1 .. recorded + 1)
          /\ Len(<< >>) = 0
      BY <1>1, <2>2, EmptySeq DEF EmptyBuffer
    <3>2. PICK result \in Flush(rows) : Apply(result)
      BY <1>1, <2>2
    <3>3. BufferCounted'
      BY <3>1, StoreAssumption DEF BufferCounted
    <3>4. CASE Committed(result.ok, WithRows(rows))
      <4>1. db' = WithRows(rows) /\ faults' = faults
        BY <3>4 DEF Committed
      <4>2. db'.telemetry = db.telemetry \o rows
        BY <4>1 DEF WithRows, IInv, TypeOK
      <4>3. /\ InOrder(db'.telemetry, << >>, recorded + 1)
            /\ Len(db'.telemetry) = Len(db.telemetry) + Len(rows)
            /\ faults = 0 => Complete(db'.telemetry, << >>, recorded + 1)
        <5>1. recorded + 1 \in Nat
          BY <1>2
        <5> QED
          BY <4>2, <5>1, <1>3, RowsWritten
      <4>4. RowsInOrder' /\ RowsComplete'
        BY <1>1, <3>1, <4>1, <4>3 DEF RowsInOrder, RowsComplete
      <4>5. db' = [db EXCEPT !.telemetry = db'.telemetry]
        BY <4>1, <4>2 DEF WithRows
      <4>6. StuckByFault' /\ stuck' \in BOOLEAN /\ faults' \in Nat
        BY <1>2, <3>4 DEF Committed, StuckByFault
      <4>7. Len(db'.telemetry) >= Len(db.telemetry)
        BY <1>4, <4>3
      <4> QED
        BY <3>1, <3>3, <4>1, <4>3, <4>4, <4>5, <4>6, <4>7 DEF InOrder
    <3>5. CASE Failed(result.ok)
      <4>1. db' = db /\ faults' # 0
        BY <1>1, <3>5 DEF Failed, Connected
      <4>2. InOrder(db.telemetry, << >>, recorded + 1)
        BY <1>2, <1>3, RowsDropped
      <4>3. RowsInOrder' /\ RowsComplete'
        BY <1>1, <3>1, <4>1, <4>2 DEF RowsInOrder, RowsComplete
      <4>4. StuckByFault' /\ stuck' \in BOOLEAN /\ faults' \in Nat
        BY <3>5 DEF Failed, StuckByFault
      <4>5. db' = [db EXCEPT !.telemetry = db'.telemetry]
        BY <4>1 DEF IInv, TypeOK
      <4> QED
        BY <1>4, <3>1, <3>3, <4>1, <4>3, <4>4, <4>5
    <3> QED
      BY <1>2, <1>4, <3>2, <3>4, <3>5, FlushOutcome
  <2> QED
    BY <2>1, <2>2
<1>6. /\ db'.run = db.run /\ db'.plans = db.plans /\ db'.verdicts = db.verdicts
      /\ db' \in [run: {"none", "started", "ended"}, telemetry: Seq(1 .. recorded + 1),
                  calls: SUBSET Plans, plans: SUBSET Plans, verdicts: SUBSET Judged]
  BY <1>5 DEF IInv, TypeOK
<1>7. TypeOK'
  <2>1. since' \in [Plans -> 1 .. recorded + 1 \cup {0}]
    BY <1>1, <1>2 DEF TypeOK, Row
  <2> QED
    BY <1>1, <1>2, <1>5, <1>6, <2>1 DEF TypeOK, Row
<1>8. ClosedEmpty' /\ PlanOnRecord' /\ SlotOnRecord' /\ VerdictKept' /\ RunOnRecord'
  BY <1>1, <1>5, <1>6 DEF IInv, ClosedEmpty, PlanOnRecord, SlotOnRecord, VerdictKept, Kept,
                          RunOnRecord
<1>9. FlushedThrough'
  <2> SUFFICES ASSUME faults' = 0, NEW p \in Plans, planner'[p] \in Flushed
               PROVE  since'[p] <= Len(db'.telemetry)
    BY DEF FlushedThrough
  <2>1. since[p] <= Len(db.telemetry) /\ since[p] \in Nat /\ since' = since
    BY <1>1, <1>2, <1>5 DEF IInv, FlushedThrough, TypeOK, Row
  <2>2. Len(db'.telemetry) \in Nat
    BY <1>5, LenProperties
  <2> QED
    BY <1>4, <1>5, <2>1, <2>2
<1> QED
  BY <1>5, <1>7, <1>8, <1>9 DEF IInv

LEMMA StartCycleStep ==
  ASSUME IInv, NEW p \in Plans, StartCycle(p)
  PROVE  IInv'
<1>1. /\ planner[p] = "idle" /\ planner' = [planner EXCEPT ![p] = "asking"]
      /\ phase = "running" /\ recorded > 0
      /\ since' = [since EXCEPT ![p] = recorded]
      /\ UNCHANGED <<phase, recorded, buffer, counter, db, stuck, faults, slot, verdicts, tripped>>
  BY DEF StartCycle, Move
<1>2. recorded \in Row
  BY <1>1 DEF IInv, TypeOK, Row
<1>3. TypeOK'
  BY <1>1, <1>2 DEF IInv, TypeOK, Row
<1>4. StuckByFault' /\ BufferCounted' /\ ClosedEmpty' /\ RowsInOrder' /\ RowsComplete'
  BY <1>1 DEF IInv, StuckByFault, BufferCounted, ClosedEmpty, RowsInOrder, RowsComplete
<1>5. PlanOnRecord' /\ FlushedThrough'
  BY <1>1 DEF IInv, TypeOK, PlanOnRecord, FlushedThrough, Recorded, Flushed
<1>6. SlotOnRecord' /\ VerdictKept' /\ RunOnRecord'
  BY <1>1 DEF IInv, TypeOK, SlotOnRecord, VerdictKept, Kept, RunOnRecord
<1> QED
  BY <1>3, <1>4, <1>5, <1>6 DEF IInv

LEMMA WriteCallStep ==
  ASSUME IInv, NEW p \in Plans, WriteCall(p)
  PROVE  IInv'
<1> DEFINE new == [db EXCEPT !.calls = @ \cup {p}]
<1>0. new \in [run: {"none", "started", "ended"}, telemetry: Seq(Row),
                calls: SUBSET Plans, plans: SUBSET Plans, verdicts: SUBSET Judged]
  BY DEF IInv, TypeOK
<1>1. PICK result \in Transaction(new) :
        Apply(result) /\ Move(p, "asking", IF result.ok THEN "writing" ELSE "failed")
  BY DEF WriteCall
<1>2. UNCHANGED <<phase, recorded, buffer, counter, since, slot, verdicts, tripped>>
  BY DEF WriteCall
<1>3. /\ new.telemetry = db.telemetry /\ new.plans = db.plans
      /\ new.verdicts = db.verdicts /\ new.run = db.run
  BY DEF IInv, TypeOK
<1>4. /\ StuckByFault' /\ BufferCounted' /\ RowsInOrder' /\ RowsComplete'
      /\ stuck' \in BOOLEAN /\ faults' \in Nat /\ result.ok \in BOOLEAN
      /\ faults' = 0 => faults = 0
      /\ \/ result.ok = TRUE /\ db' = new
         \/ result.ok = FALSE /\ db' = db /\ (faults' = 0 => ~Connected)
  <2> HIDE DEF new
  <2> QED
    BY <1>1, <1>2, <1>3, TransactionStep
<1>5. /\ planner[p] = "asking" /\ \E to \in {"writing", "failed"} :
                                   planner' = [planner EXCEPT ![p] = to]
  BY <1>1, <1>4 DEF Move
<1>6. TypeOK'
  <2>1. db' \in [run: {"none", "started", "ended"}, telemetry: Seq(Row),
                 calls: SUBSET Plans, plans: SUBSET Plans, verdicts: SUBSET Judged]
    BY <1>0, <1>4 DEF IInv, TypeOK
  <2> HIDE DEF new
  <2> QED
    BY <2>1, <1>2, <1>4, <1>5 DEF IInv, TypeOK, Row
<1>7. /\ db'.telemetry = db.telemetry /\ db'.plans = db.plans
      /\ db'.verdicts = db.verdicts /\ db'.run = db.run
  BY <1>3, <1>4
<1>8. PlanOnRecord' /\ FlushedThrough'
  BY <1>2, <1>4, <1>5, <1>7
  DEF IInv, TypeOK, PlanOnRecord, FlushedThrough, Recorded, Flushed
<1>9. ClosedEmpty' /\ SlotOnRecord' /\ VerdictKept' /\ RunOnRecord'
  BY <1>2, <1>4, <1>5, <1>7
  DEF IInv, TypeOK, ClosedEmpty, SlotOnRecord, VerdictKept, Kept, RunOnRecord
<1> QED
  BY <1>4, <1>6, <1>8, <1>9 DEF IInv

LEMMA FlushFirstStep ==
  ASSUME IInv, phase # "crashed", NEW p \in Plans, FlushFirst(p)
  PROVE  IInv'
<1>1. PICK result \in Flush(buffer) :
        Apply(result) /\ Move(p, "writing", IF result.ok THEN "flushed" ELSE "failed")
  BY DEF FlushFirst
<1>2. EmptyBuffer /\ UNCHANGED <<phase, recorded, since, slot, verdicts, tripped>>
  BY DEF FlushFirst
<1>3. /\ StuckByFault' /\ BufferCounted' /\ RowsInOrder' /\ RowsComplete'
      /\ stuck' \in BOOLEAN /\ faults' \in Nat /\ result.ok \in BOOLEAN
      /\ buffer' = << >> /\ counter' = 0
      /\ db' = [db EXCEPT !.telemetry = db'.telemetry] /\ db'.telemetry \in Seq(Row)
      /\ Len(db'.telemetry) >= Len(db.telemetry)
      /\ faults' = 0 => faults = 0 /\ result.ok = TRUE /\ Len(db'.telemetry) = recorded
  BY <1>1, <1>2, FlushStep
<1>4. /\ planner[p] = "writing" /\ \E to \in {"flushed", "failed"} :
                                    planner' = [planner EXCEPT ![p] = to]
  BY <1>1, <1>3 DEF Move
<1>5. /\ db'.run = db.run /\ db'.plans = db.plans /\ db'.verdicts = db.verdicts
      /\ db' \in [run: {"none", "started", "ended"}, telemetry: Seq(Row),
                  calls: SUBSET Plans, plans: SUBSET Plans, verdicts: SUBSET Judged]
  BY <1>3 DEF IInv, TypeOK
<1>6. TypeOK'
  BY <1>2, <1>3, <1>4, <1>5, EmptySeq DEF IInv, TypeOK, Row
<1>7. PlanOnRecord'
  BY <1>4, <1>5 DEF IInv, TypeOK, PlanOnRecord, Recorded
<1>8. FlushedThrough'
  <2> SUFFICES ASSUME faults' = 0, NEW q \in Plans
               PROVE  since'[q] <= Len(db'.telemetry)
    BY DEF FlushedThrough
  <2>1. since[q] \in Row \cup {0} /\ recorded \in Nat
    BY DEF IInv, TypeOK
  <2> QED
    BY <2>1, <1>2, <1>3 DEF Row
<1>9. ClosedEmpty' /\ SlotOnRecord' /\ VerdictKept' /\ RunOnRecord'
  BY <1>2, <1>3, <1>4, <1>5
  DEF IInv, TypeOK, ClosedEmpty, SlotOnRecord, VerdictKept, Kept, RunOnRecord
<1> QED
  BY <1>3, <1>6, <1>7, <1>8, <1>9 DEF IInv

LEMMA InsertPlanStep ==
  ASSUME IInv, NEW p \in Plans, InsertPlan(p)
  PROVE  IInv'
<1> DEFINE new == [db EXCEPT !.plans = @ \cup {p}]
<1>0. new \in [run: {"none", "started", "ended"}, telemetry: Seq(Row),
                calls: SUBSET Plans, plans: SUBSET Plans, verdicts: SUBSET Judged]
  BY DEF IInv, TypeOK
<1>1. PICK result \in Transaction(new) :
        Apply(result) /\ Move(p, "flushed", IF result.ok THEN "written" ELSE "failed")
  BY DEF InsertPlan
<1>2. UNCHANGED <<phase, recorded, buffer, counter, since, slot, verdicts, tripped>>
  BY DEF InsertPlan
<1>3. /\ new.telemetry = db.telemetry /\ new.plans = db.plans \cup {p}
      /\ new.verdicts = db.verdicts /\ new.run = db.run
  BY DEF IInv, TypeOK
<1>4. /\ StuckByFault' /\ BufferCounted' /\ RowsInOrder' /\ RowsComplete'
      /\ stuck' \in BOOLEAN /\ faults' \in Nat /\ result.ok \in BOOLEAN
      /\ faults' = 0 => faults = 0
      /\ \/ result.ok = TRUE /\ db' = new
         \/ result.ok = FALSE /\ db' = db /\ (faults' = 0 => ~Connected)
  <2> HIDE DEF new
  <2> QED
    BY <1>1, <1>2, <1>3, TransactionStep
<1>5. /\ planner[p] = "flushed"
      /\ \/ /\ planner' = [planner EXCEPT ![p] = "written"]
            /\ db' = new
         \/ /\ planner' = [planner EXCEPT ![p] = "failed"]
            /\ db' = db
  BY <1>1, <1>4 DEF Move
<1>6. TypeOK'
  <2>1. db' \in [run: {"none", "started", "ended"}, telemetry: Seq(Row),
                 calls: SUBSET Plans, plans: SUBSET Plans, verdicts: SUBSET Judged]
    BY <1>0, <1>4 DEF IInv, TypeOK
  <2> HIDE DEF new
  <2> QED
    BY <2>1, <1>2, <1>4, <1>5 DEF IInv, TypeOK, Row
<1>7. /\ db'.telemetry = db.telemetry /\ db.plans \subseteq db'.plans
      /\ db'.verdicts = db.verdicts /\ db'.run = db.run
  BY <1>3, <1>4
<1>8. PlanOnRecord' /\ FlushedThrough'
  BY <1>2, <1>3, <1>4, <1>5, <1>7
  DEF IInv, TypeOK, PlanOnRecord, FlushedThrough, Recorded, Flushed
<1>9. ClosedEmpty' /\ SlotOnRecord' /\ RunOnRecord'
  BY <1>2, <1>4, <1>7 DEF IInv, ClosedEmpty, SlotOnRecord, RunOnRecord
<1>10. VerdictKept'
  <2>1. \A q \in Plans : planner'[q] = "judged" => planner[q] = "judged"
    BY <1>5 DEF IInv, TypeOK
  <2> QED
    BY <2>1, <1>2, <1>4, <1>7 DEF IInv, VerdictKept, Kept
<1> QED
  BY <1>4, <1>6, <1>8, <1>9, <1>10 DEF IInv

LEMMA CommitPlanStep ==
  ASSUME IInv, NEW p \in Plans, CommitPlan(p)
  PROVE  IInv'
<1>1. /\ planner[p] = "written" /\ planner' = [planner EXCEPT ![p] = "committed"]
      /\ slot' = {p}
      /\ UNCHANGED <<phase, recorded, buffer, counter, db, stuck, faults, since, verdicts, tripped>>
  BY DEF CommitPlan, Move
<1>2. TypeOK'
  BY <1>1 DEF IInv, TypeOK, Row
<1>3. StuckByFault' /\ BufferCounted' /\ ClosedEmpty' /\ RowsInOrder' /\ RowsComplete'
  BY <1>1 DEF IInv, StuckByFault, BufferCounted, ClosedEmpty, RowsInOrder, RowsComplete
<1>4. PlanOnRecord' /\ FlushedThrough'
  BY <1>1 DEF IInv, TypeOK, PlanOnRecord, FlushedThrough, Recorded, Flushed
<1>5. SlotOnRecord' /\ VerdictKept' /\ RunOnRecord'
  BY <1>1 DEF IInv, TypeOK, SlotOnRecord, VerdictKept, Kept, RunOnRecord
<1> QED
  BY <1>2, <1>3, <1>4, <1>5 DEF IInv

\* Journaling an event keeps the others.
LEMMA EventJournaled ==
  ASSUME IInv, NEW id \in db.plans \cup {WatchdogId},
         verdicts' = Append(verdicts, id), UNCHANGED db
  PROVE  /\ verdicts' \in Seq(Judged)
         /\ SlotOnRecord'
         /\ Kept(id)'
         /\ \A q \in Judged : Kept(q) => Kept(q)'
<1>1. verdicts \in Seq(Judged) /\ id \in Judged
  BY DEF IInv, TypeOK, Judged
<1>2. /\ Len(verdicts) \in Nat
      /\ verdicts' \in Seq(Judged) /\ Len(verdicts') = Len(verdicts) + 1
      /\ \A i \in 1 .. Len(verdicts) : verdicts'[i] = verdicts[i]
      /\ verdicts'[Len(verdicts) + 1] = id
  BY <1>1, AppendProperties, LenProperties
<1>3. SlotOnRecord'
  <2>1. ASSUME NEW i \in 1 .. Len(verdicts')
        PROVE  verdicts'[i] \in db'.plans \cup {WatchdogId}
    <3>1. i \in 1 .. Len(verdicts) \/ i = Len(verdicts) + 1
      BY <1>2
    <3> QED
      BY <1>2, <3>1 DEF IInv, SlotOnRecord
  <2> QED
    BY <2>1 DEF IInv, SlotOnRecord
<1>4. Kept(id)'
  <2>1. Len(verdicts) + 1 \in 1 .. Len(verdicts')
    BY <1>2
  <2> QED
    BY <1>2, <2>1 DEF Kept
<1>5. ASSUME NEW q \in Judged, Kept(q)
      PROVE  Kept(q)'
  <2>1. \A i \in 1 .. Len(verdicts) : i \in 1 .. Len(verdicts')
    BY <1>2
  <2> QED
    BY <1>2, <1>5, <2>1 DEF Kept
<1> QED
  BY <1>2, <1>3, <1>4, <1>5

LEMMA JudgeStep ==
  ASSUME IInv, NEW p \in Plans, Judge(p)
  PROVE  IInv'
<1>1. /\ planner[p] = "committed" /\ planner' = [planner EXCEPT ![p] = "judged"]
      /\ phase = "running" /\ verdicts' = Append(verdicts, p)
      /\ UNCHANGED <<phase, recorded, buffer, counter, db, stuck, faults, since, slot, tripped>>
  BY DEF Judge, Move
<1>2. /\ verdicts' \in Seq(Judged) /\ SlotOnRecord' /\ Kept(p)'
      /\ \A q \in Judged : Kept(q) => Kept(q)'
  <2>1. p \in db.plans \cup {WatchdogId}
    BY <1>1 DEF IInv, PlanOnRecord, Recorded
  <2> QED
    BY <1>1, <2>1, EventJournaled
<1>3. TypeOK'
  BY <1>1, <1>2 DEF IInv, TypeOK, Row, Judged
<1>4. StuckByFault' /\ BufferCounted' /\ ClosedEmpty' /\ RowsInOrder' /\ RowsComplete'
  BY <1>1 DEF IInv, StuckByFault, BufferCounted, ClosedEmpty, RowsInOrder, RowsComplete
<1>5. PlanOnRecord' /\ FlushedThrough'
  BY <1>1 DEF IInv, TypeOK, PlanOnRecord, FlushedThrough, Recorded, Flushed
<1>6. VerdictKept'
  <2>1. faults' = 0 => \A q \in Plans : planner'[q] = "judged" => Kept(q)'
    <3> SUFFICES ASSUME faults' = 0, NEW q \in Plans, planner'[q] = "judged"
                 PROVE  Kept(q)'
      OBVIOUS
    <3>1. CASE q = p
      BY <1>2, <3>1
    <3>2. CASE q # p
      <4>1. planner[q] = "judged" /\ faults = 0
        BY <1>1, <3>2 DEF IInv, TypeOK
      <4>2. Kept(q) /\ q \in Judged
        BY <4>1 DEF IInv, VerdictKept, Judged
      <4> QED
        BY <1>2, <4>2
    <3> QED
      BY <3>1, <3>2
  <2>2. faults' = 0 /\ tripped' => Kept(WatchdogId)'
    BY <1>1, <1>2 DEF IInv, VerdictKept, Judged
  <2> QED
    BY <2>1, <2>2 DEF VerdictKept
<1>7. RunOnRecord'
  BY <1>1 DEF IInv, RunOnRecord
<1> QED
  BY <1>2, <1>3, <1>4, <1>5, <1>6, <1>7 DEF IInv

LEMMA TripStep == IInv /\ Trip => IInv'
<1> SUFFICES ASSUME IInv, Trip
             PROVE  IInv'
  OBVIOUS
<1>1. /\ phase = "running" /\ tripped' = TRUE /\ verdicts' = Append(verdicts, WatchdogId)
      /\ UNCHANGED <<phase, recorded, buffer, counter, db, stuck, faults, planner, since,
                     slot>>
  BY DEF Trip
<1>2. /\ verdicts' \in Seq(Judged) /\ SlotOnRecord' /\ Kept(WatchdogId)'
      /\ \A q \in Judged : Kept(q) => Kept(q)'
  BY <1>1, EventJournaled
<1>3. TypeOK'
  BY <1>1, <1>2 DEF IInv, TypeOK, Row, Judged
<1>4. StuckByFault' /\ BufferCounted' /\ ClosedEmpty' /\ RowsInOrder' /\ RowsComplete'
  BY <1>1 DEF IInv, StuckByFault, BufferCounted, ClosedEmpty, RowsInOrder, RowsComplete
<1>5. PlanOnRecord' /\ FlushedThrough' /\ RunOnRecord'
  BY <1>1 DEF IInv, PlanOnRecord, FlushedThrough, RunOnRecord
<1>6. VerdictKept'
  BY <1>1, <1>2 DEF IInv, VerdictKept, Judged
<1> QED
  BY <1>2, <1>3, <1>4, <1>5, <1>6 DEF IInv

LEMMA FinalFlushStep == IInv /\ FinalFlush => IInv'
<1> SUFFICES ASSUME IInv, FinalFlush
             PROVE  IInv'
  OBVIOUS
<1>1. PICK result \in Flush(buffer) :
        Apply(result) /\ phase' = IF result.ok THEN "ending" ELSE "closing"
  BY DEF FinalFlush
<1>2. /\ phase = "running" /\ EmptyBuffer
      /\ UNCHANGED <<recorded, planner, since, slot, verdicts, tripped>>
  BY DEF FinalFlush
<1>3. /\ StuckByFault' /\ BufferCounted' /\ RowsInOrder' /\ RowsComplete'
      /\ stuck' \in BOOLEAN /\ faults' \in Nat /\ result.ok \in BOOLEAN
      /\ buffer' = << >> /\ counter' = 0
      /\ db' = [db EXCEPT !.telemetry = db'.telemetry] /\ db'.telemetry \in Seq(Row)
      /\ Len(db'.telemetry) >= Len(db.telemetry)
      /\ faults' = 0 => faults = 0 /\ result.ok = TRUE /\ Len(db'.telemetry) = recorded
  BY <1>1, <1>2, FlushStep
<1>4. /\ db'.run = db.run /\ db'.plans = db.plans /\ db'.verdicts = db.verdicts
      /\ db' \in [run: {"none", "started", "ended"}, telemetry: Seq(Row),
                  calls: SUBSET Plans, plans: SUBSET Plans, verdicts: SUBSET Judged]
  BY <1>3 DEF IInv, TypeOK
<1>5. TypeOK'
  BY <1>1, <1>2, <1>3, <1>4, EmptySeq DEF IInv, TypeOK, Row
<1>6. PlanOnRecord' /\ ClosedEmpty' /\ SlotOnRecord' /\ VerdictKept'
  BY <1>2, <1>3, <1>4
  DEF IInv, PlanOnRecord, ClosedEmpty, SlotOnRecord, VerdictKept, Kept
<1>7. FlushedThrough'
  <2> SUFFICES ASSUME faults' = 0, NEW q \in Plans
               PROVE  since'[q] <= Len(db'.telemetry)
    BY DEF FlushedThrough
  <2>1. since[q] \in Row \cup {0} /\ recorded \in Nat
    BY DEF IInv, TypeOK
  <2> QED
    BY <2>1, <1>2, <1>3 DEF Row
<1>8. RunOnRecord'
  BY <1>1, <1>2, <1>3, <1>4 DEF IInv, RunOnRecord
<1> QED
  BY <1>3, <1>5, <1>6, <1>7, <1>8 DEF IInv

LEMMA CloseStep == IInv /\ Close => IInv'
<1> SUFFICES ASSUME IInv, Close
             PROVE  IInv'
  OBVIOUS
<1>1. PICK result \in Flush(buffer) : Apply(result)
  BY DEF Close
<1>2. /\ phase = "closing" /\ phase' = "closed" /\ EmptyBuffer
      /\ UNCHANGED <<recorded, planner, since, slot, verdicts, tripped>>
  BY DEF Close
<1>3. /\ StuckByFault' /\ BufferCounted' /\ RowsInOrder' /\ RowsComplete'
      /\ stuck' \in BOOLEAN /\ faults' \in Nat /\ result.ok \in BOOLEAN
      /\ buffer' = << >> /\ counter' = 0
      /\ db' = [db EXCEPT !.telemetry = db'.telemetry] /\ db'.telemetry \in Seq(Row)
      /\ Len(db'.telemetry) >= Len(db.telemetry)
      /\ faults' = 0 => faults = 0 /\ result.ok = TRUE /\ Len(db'.telemetry) = recorded
  BY <1>1, <1>2, FlushStep
<1>4. /\ db'.run = db.run /\ db'.plans = db.plans /\ db'.verdicts = db.verdicts
      /\ db' \in [run: {"none", "started", "ended"}, telemetry: Seq(Row),
                  calls: SUBSET Plans, plans: SUBSET Plans, verdicts: SUBSET Judged]
  BY <1>3 DEF IInv, TypeOK
<1>5. TypeOK'
  BY <1>1, <1>2, <1>3, <1>4, EmptySeq DEF IInv, TypeOK, Row
<1>6. PlanOnRecord' /\ ClosedEmpty' /\ SlotOnRecord' /\ VerdictKept'
  BY <1>2, <1>3, <1>4
  DEF IInv, PlanOnRecord, ClosedEmpty, SlotOnRecord, VerdictKept, Kept
<1>7. FlushedThrough'
  <2> SUFFICES ASSUME faults' = 0, NEW q \in Plans
               PROVE  since'[q] <= Len(db'.telemetry)
    BY DEF FlushedThrough
  <2>1. since[q] \in Row \cup {0} /\ recorded \in Nat
    BY DEF IInv, TypeOK
  <2> QED
    BY <2>1, <1>2, <1>3 DEF Row
<1>8. RunOnRecord'
  BY <1>1, <1>2, <1>3, <1>4 DEF IInv, RunOnRecord
<1> QED
  BY <1>3, <1>5, <1>6, <1>7, <1>8 DEF IInv

LEMMA EndRunStep == IInv /\ EndRun => IInv'
<1> SUFFICES ASSUME IInv, EndRun
             PROVE  IInv'
  OBVIOUS
<1> DEFINE new == [db EXCEPT !.run = "ended"]
<1>1. PICK result \in Transaction(new) :
        Apply(result) /\ phase' = IF result.ok THEN "draining" ELSE "closing"
  BY DEF EndRun
<1>2. /\ phase = "ending"
      /\ UNCHANGED <<recorded, buffer, counter, planner, since, slot, verdicts, tripped>>
  BY DEF EndRun
<1>3. /\ new.telemetry = db.telemetry /\ new.plans = db.plans
      /\ new.verdicts = db.verdicts /\ new.run = "ended"
  BY DEF IInv, TypeOK
<1>4. /\ StuckByFault' /\ BufferCounted' /\ RowsInOrder' /\ RowsComplete'
      /\ stuck' \in BOOLEAN /\ faults' \in Nat /\ result.ok \in BOOLEAN
      /\ faults' = 0 => faults = 0
      /\ \/ result.ok = TRUE /\ db' = new
         \/ result.ok = FALSE /\ db' = db /\ (faults' = 0 => ~Connected)
  <2> HIDE DEF new
  <2> QED
    BY <1>1, <1>2, <1>3, TransactionStep
<1>5. TypeOK'
  BY <1>1, <1>2, <1>4 DEF IInv, TypeOK, Row
<1>6. /\ db'.telemetry = db.telemetry /\ db'.plans = db.plans
      /\ db'.verdicts = db.verdicts
  BY <1>3, <1>4
<1>7. PlanOnRecord' /\ FlushedThrough' /\ SlotOnRecord' /\ VerdictKept'
  BY <1>2, <1>4, <1>6 DEF IInv, PlanOnRecord, FlushedThrough, SlotOnRecord, VerdictKept, Kept
<1>8. ClosedEmpty' /\ RunOnRecord'
  BY <1>1, <1>2, <1>3, <1>4 DEF ClosedEmpty, RunOnRecord, Connected
<1> QED
  BY <1>4, <1>5, <1>7, <1>8 DEF IInv

LEMMA DrainEventStep == IInv /\ DrainEvent => IInv'
<1> SUFFICES ASSUME IInv, DrainEvent
             PROVE  IInv'
  OBVIOUS
<1> DEFINE new == [db EXCEPT !.verdicts = @ \cup {Head(verdicts)}]
<1>1. PICK result \in Transaction(new) :
        /\ Apply(result)
        /\ verdicts' = IF result.ok THEN Tail(verdicts) ELSE << >>
        /\ phase' = IF result.ok THEN phase ELSE "closing"
  BY DEF DrainEvent
<1>2. /\ phase = "draining" /\ verdicts # << >>
      /\ UNCHANGED <<recorded, buffer, counter, planner, since, slot, tripped>>
  BY DEF DrainEvent
<1>3. /\ new.telemetry = db.telemetry /\ new.plans = db.plans
      /\ new.verdicts = db.verdicts \cup {Head(verdicts)} /\ new.run = db.run
  BY DEF IInv, TypeOK
<1>4. /\ StuckByFault' /\ BufferCounted' /\ RowsInOrder' /\ RowsComplete'
      /\ stuck' \in BOOLEAN /\ faults' \in Nat /\ result.ok \in BOOLEAN
      /\ faults' = 0 => faults = 0
      /\ \/ result.ok = TRUE /\ db' = new
         \/ result.ok = FALSE /\ db' = db /\ (faults' = 0 => ~Connected)
  <2> HIDE DEF new
  <2> QED
    BY <1>1, <1>2, <1>3, TransactionStep
<1>5. /\ verdicts \in Seq(Judged) /\ Len(verdicts) \in Nat \ {0}
      /\ Head(verdicts) \in Judged /\ Head(verdicts) = verdicts[1]
      /\ Tail(verdicts) \in Seq(Judged) /\ Len(Tail(verdicts)) = Len(verdicts) - 1
      /\ \A i \in 1 .. Len(Tail(verdicts)) : Tail(verdicts)[i] = verdicts[i + 1]
  <2>1. verdicts \in Seq(Judged)
    BY DEF IInv, TypeOK
  <2> QED
    BY <1>2, <2>1, HeadTailProperties, EmptySeq
<1>6. TypeOK'
  <2>1. new \in [run: {"none", "started", "ended"}, telemetry: Seq(Row),
                 calls: SUBSET Plans, plans: SUBSET Plans, verdicts: SUBSET Judged]
    BY <1>5 DEF IInv, TypeOK
  <2>2. db' \in [run: {"none", "started", "ended"}, telemetry: Seq(Row),
                 calls: SUBSET Plans, plans: SUBSET Plans, verdicts: SUBSET Judged]
    BY <1>4, <2>1 DEF IInv, TypeOK
  <2>3. verdicts' \in Seq(Judged) /\ phase' \in {"draining", "closing"}
    BY <1>1, <1>2, <1>4, <1>5, EmptySeq
  <2> HIDE DEF new
  <2> QED
    BY <1>2, <1>4, <2>2, <2>3 DEF IInv, TypeOK, Row
<1>7. /\ db'.telemetry = db.telemetry /\ db'.plans = db.plans /\ db'.run = db.run
      /\ db.verdicts \subseteq db'.verdicts
  BY <1>3, <1>4
<1>8. ClosedEmpty' /\ PlanOnRecord' /\ FlushedThrough'
  BY <1>1, <1>2, <1>4, <1>7 DEF IInv, ClosedEmpty, PlanOnRecord, FlushedThrough
<1>9. CASE result.ok = TRUE
  <2>1. /\ db'.verdicts = db.verdicts \cup {verdicts[1]} /\ verdicts' = Tail(verdicts)
        /\ phase' = "draining"
    BY <1>1, <1>2, <1>3, <1>4, <1>5, <1>9
  <2>2. \A i \in 1 .. Len(verdicts') : i + 1 \in 1 .. Len(verdicts)
    BY <1>5, <2>1
  <2>3. 1 \in 1 .. Len(verdicts)
    BY <1>5
  <2>4. SlotOnRecord'
    BY <1>5, <1>7, <2>1, <2>2, <2>3 DEF IInv, SlotOnRecord
  <2>5. VerdictKept'
    <3>1. ASSUME NEW q \in Judged, Kept(q)
          PROVE  Kept(q)'
      <4> SUFFICES ASSUME q \notin db'.verdicts
                   PROVE  \E i \in 1 .. Len(verdicts') : verdicts'[i] = q
        BY DEF Kept
      <4>1. PICK i \in 1 .. Len(verdicts) : verdicts[i] = q
        BY <1>7, <3>1 DEF Kept
      <4>2. i # 1
        BY <2>1, <4>1
      <4>3. i - 1 \in 1 .. Len(verdicts') /\ (i - 1) + 1 = i
        BY <1>5, <2>1, <4>2
      <4> QED
        BY <1>5, <2>1, <4>1, <4>3
    <3> QED
      BY <1>2, <1>4, <3>1 DEF IInv, VerdictKept, Judged
  <2>6. RunOnRecord'
    BY <1>2, <1>4, <1>7, <2>1 DEF IInv, RunOnRecord
  <2> QED
    BY <1>4, <1>6, <1>8, <2>4, <2>5, <2>6 DEF IInv
<1>10. CASE result.ok = FALSE
  <2>1. verdicts' = << >> /\ db' = db /\ faults' # 0 /\ Len(verdicts') = 0
    BY <1>1, <1>2, <1>4, <1>10, EmptySeq DEF Connected
  <2>2. SlotOnRecord'
    BY <2>1 DEF IInv, SlotOnRecord
  <2>3. VerdictKept' /\ RunOnRecord'
    BY <2>1 DEF VerdictKept, Kept, RunOnRecord
  <2> QED
    BY <1>4, <1>6, <1>8, <2>2, <2>3 DEF IInv
<1> QED
  BY <1>4, <1>9, <1>10

LEMMA MainStops == IInv /\ (Drained \/ Crash) => IInv'
<1> SUFFICES ASSUME IInv, Drained \/ Crash
             PROVE  IInv'
  OBVIOUS
<1>1. /\ UNCHANGED <<recorded, buffer, counter, db, stuck, faults, planner, since, slot,
                      verdicts, tripped>>
      /\ \/ phase = "draining" /\ verdicts = << >> /\ phase' = "closing"
         \/ phase' = "crashed"
  BY DEF Drained, Crash
<1>2. TypeOK'
  BY <1>1 DEF IInv, TypeOK, Row
<1>3. StuckByFault' /\ BufferCounted' /\ ClosedEmpty' /\ RowsInOrder' /\ RowsComplete'
  BY <1>1 DEF IInv, StuckByFault, BufferCounted, ClosedEmpty, RowsInOrder, RowsComplete
<1>4. PlanOnRecord' /\ FlushedThrough' /\ SlotOnRecord' /\ VerdictKept' /\ RunOnRecord'
  BY <1>1 DEF IInv, PlanOnRecord, FlushedThrough, SlotOnRecord, VerdictKept, Kept, RunOnRecord
<1> QED
  BY <1>2, <1>3, <1>4 DEF IInv

LEMMA StutterStep == IInv /\ UNCHANGED vars => IInv'
<1> SUFFICES ASSUME IInv, UNCHANGED vars
             PROVE  IInv'
  OBVIOUS
<1> USE DEF vars
<1>1. TypeOK'
  BY DEF IInv, TypeOK, Row
<1>2. StuckByFault' /\ BufferCounted' /\ ClosedEmpty' /\ RowsInOrder' /\ RowsComplete'
  BY DEF IInv, StuckByFault, BufferCounted, ClosedEmpty, RowsInOrder, RowsComplete
<1>3. PlanOnRecord' /\ FlushedThrough' /\ SlotOnRecord' /\ VerdictKept' /\ RunOnRecord'
  BY DEF IInv, PlanOnRecord, FlushedThrough, SlotOnRecord, VerdictKept, Kept, RunOnRecord
<1> QED
  BY <1>1, <1>2, <1>3 DEF IInv

LEMMA PlanStep ==
  ASSUME IInv, NEW p \in Plans, Plan(p)
  PROVE  IInv'
<1>1. /\ phase # "crashed"
      /\ \/ StartCycle(p) \/ WriteCall(p) \/ FlushFirst(p)
         \/ InsertPlan(p) \/ CommitPlan(p) \/ Judge(p)
  BY DEF Plan
<1> QED
  BY <1>1, StartCycleStep, WriteCallStep, FlushFirstStep, InsertPlanStep, CommitPlanStep,
     JudgeStep

LEMMA StepInvariant == IInv /\ [Next]_vars => IInv'
<1> SUFFICES ASSUME IInv, [Next]_vars
             PROVE  IInv'
  OBVIOUS
<1>1. CASE StartRun
  BY <1>1, StartRunStep
<1>2. CASE RecordTimestep
  BY <1>2, RecordTimestepStep
<1>3. CASE \E p \in Plans : Plan(p)
  BY <1>3, PlanStep
<1>4. CASE FinalFlush
  BY <1>4, FinalFlushStep
<1>5. CASE EndRun
  BY <1>5, EndRunStep
<1>6. CASE DrainEvent
  BY <1>6, DrainEventStep
<1>7. CASE Drained \/ Crash
  BY <1>7, MainStops
<1>8. CASE Close
  BY <1>8, CloseStep
<1>9. CASE Trip
  BY <1>9, TripStep
<1>10. CASE UNCHANGED vars
  BY <1>10, StutterStep
<1> QED
  BY <1>1, <1>2, <1>3, <1>4, <1>5, <1>6, <1>7, <1>8, <1>9, <1>10 DEF Next

\* The inductive invariant holds of every run.
THEOREM Invariance == Spec => []IInv
  BY InitInvariant, StepInvariant, PTL DEF Spec

-----------------------------------------------------------------------------
(* What it implies.                                                        *)

LEMMA AscendingAcross ==
  ASSUME NEW n \in Nat, NEW written, NEW held, InOrder(written, held, n)
  PROVE  \A i, j \in DOMAIN (written \o held) :
           i < j => (written \o held)[i] < (written \o held)[j]
<1>1. InOrder(written \o held, << >>, n)
  BY RowsWritten
<1>2. DOMAIN (written \o held) = 1 .. Len(written \o held)
  BY <1>1, LenProperties DEF InOrder
<1> QED
  BY <1>1, <1>2 DEF InOrder, Ascending

LEMMA CompleteIsDurable ==
  ASSUME IInv, faults = 0
  PROVE  Durable = 1 .. Len(db.telemetry) /\ Len(db.telemetry) \in Nat
<1>1. db.telemetry \in Seq(Row)
  BY DEF IInv, TypeOK
<1>2. DOMAIN db.telemetry = 1 .. Len(db.telemetry) /\ Len(db.telemetry) \in Nat
  BY <1>1, LenProperties
<1>3. \A i \in 1 .. Len(db.telemetry) : db.telemetry[i] = i
  BY DEF IInv, RowsComplete, Complete
<1> QED
  BY <1>2, <1>3 DEF Durable

\* Every variable keeps its type, whatever fails.
THEOREM TypeCorrect == Spec => []TypeOK
<1>1. IInv => TypeOK
  BY DEF IInv
<1> QED
  BY <1>1, Invariance, PTL

\* No timestep is written twice, and the rows reach the database in the order
\* they were recorded, whichever threads flush and whatever fails (flush).
THEOREM RowsWrittenOnceInOrder == Spec => []WrittenOnceInOrder
<1>1. IInv => WrittenOnceInOrder
  BY AscendingAcross DEF IInv, TypeOK, RowsInOrder, WrittenOnceInOrder
<1> QED
  BY <1>1, Invariance, PTL

\* Short of a failed transaction, a crash costs less than a batch of timesteps,
\* for any batch size (record_timestep).
THEOREM CrashCost == Spec => []CrashCostsLessThanABatch
<1>1. IInv => CrashCostsLessThanABatch
  <2> SUFFICES ASSUME IInv, faults = 0
               PROVE  /\ recorded - Len(db.telemetry) < FlushEvery
                      /\ Durable = 1 .. Len(db.telemetry)
    BY DEF CrashCostsLessThanABatch
  <2>1. Durable = 1 .. Len(db.telemetry) /\ Len(db.telemetry) \in Nat
    BY CompleteIsDurable
  <2>2. /\ Len(db.telemetry) + Len(buffer) = recorded
        /\ Len(buffer) = counter /\ counter < FlushEvery /\ counter \in Nat
    BY DEF IInv, TypeOK, RowsComplete, Complete, BufferCounted
  <2> QED
    BY <2>1, <2>2, StoreAssumption
<1> QED
  BY <1>1, Invariance, PTL

\* Short of a failed transaction, the telemetry a recorded plan was made from
\* is on record, for any number of planner threads (write_plan).
THEOREM RecordedPlansJustified == Spec => []PlansJustified
<1>1. IInv => PlansJustified
  <2> SUFFICES ASSUME IInv, faults = 0, NEW p \in db.plans
               PROVE  1 .. since[p] \subseteq Durable
    BY DEF PlansJustified, Justified
  <2>1. p \in Plans /\ since[p] \in Nat
    BY DEF IInv, TypeOK, Row
  <2>2. since[p] <= Len(db.telemetry)
    BY <2>1 DEF IInv, PlanOnRecord, FlushedThrough, Flushed
  <2> QED
    BY <2>1, <2>2, CompleteIsDurable
<1> QED
  BY <1>1, Invariance, PTL

\* A verdict on record is of a plan on record, but for the watchdog's event,
\* whatever fails (write_plan, drain_events).
THEOREM RecordedVerdictsHavePlans == Spec => []VerdictsHavePlans
<1>1. IInv => VerdictsHavePlans
  BY DEF IInv, SlotOnRecord, VerdictsHavePlans
<1> QED
  BY <1>1, Invariance, PTL

\* A run that closed without a failure kept its end, all its telemetry, and
\* a verdict for every plan that was judged, and the watchdog's trip (run,
\* drain_events, close).
THEOREM ClosedRunKeptAll == Spec => []ClosedRunComplete
<1>1. IInv => ClosedRunComplete
  <2> SUFFICES ASSUME IInv, phase = "closed", faults = 0
               PROVE  /\ db.run = "ended" /\ Durable = Row
                      /\ \A p \in Plans : planner[p] = "judged" => p \in db.verdicts
                      /\ tripped => WatchdogId \in db.verdicts
    BY DEF ClosedRunComplete
  <2>1. db.run = "ended" /\ verdicts = << >> /\ buffer = << >>
    BY DEF IInv, RunOnRecord, ClosedEmpty
  <2>2. Len(verdicts) = 0 /\ Len(buffer) = 0
    BY <2>1, EmptySeq
  <2>3. Len(db.telemetry) = recorded
    <3>1. Len(db.telemetry) + Len(buffer) = recorded /\ Len(db.telemetry) \in Nat
      BY CompleteIsDurable DEF IInv, RowsComplete, Complete
    <3> QED
      BY <3>1, <2>2
  <2>4. Durable = Row
    BY <2>3, CompleteIsDurable DEF Row
  <2>5. /\ \A p \in Plans : planner[p] = "judged" => p \in db.verdicts
        /\ tripped => WatchdogId \in db.verdicts
    BY <2>2 DEF IInv, VerdictKept, Kept
  <2> QED
    BY <2>1, <2>4, <2>5
<1> QED
  BY <1>1, Invariance, PTL
=============================================================================
