-------------------------- MODULE WriteBackProofs --------------------------
(* What the write-back cache never loses, for any number of metrics, writes, *)
(* stops and errors.                                                         *)
EXTENDS WriteBack, TLAPS

USE FlushBatchAssumption, MaxAttemptsAssumption, NoMetricAssumption, BoundsAssumption

Faults == stops + redisErrors
Busy == flusher \in {"counted", "parked"}

\* No copy of a write is newer than the value in the cache.
Newest(m) ==
  /\ acked[m] <= value[m]
  /\ persisted[m] <= value[m]
  /\ rows[m] <= value[m]
  /\ \A v \in Nat : <<m, v>> \in writing => v <= value[m]

\* What the flusher has read is no older than the table's row, and is the row
\* once the upsert has committed.
RowInHand(m) ==
  /\ rows[m] # 0 => rows[m] >= persisted[m]
  /\ flusher = "persisted" /\ m \in held => rows[m] # 0 /\ rows[m] = persisted[m]

\* An acknowledged write that is nowhere else is in hand, and it was not read
\* before it was acknowledged.
InHand(m) ==
  acked[m] > persisted[m] =>
    \/ m \in dirty \cup failed \cup dropped
    \/ m \in held /\ (rows[m] = 0 \/ rows[m] >= acked[m])

\* One attempt more than the limit allows only between HINCRBY and HDEL.
Counted(m) ==
  attempts[m] < MaxAttempts + Faults + (IF Busy /\ m = current THEN 1 ELSE 0)

\* Where the flusher is agrees with what it has in hand.
Hands ==
  /\ flusher = "sleep" => held = {}
  /\ Busy => current \in Metrics

Metric(m) == Newest(m) /\ RowInHand(m) /\ InHand(m) /\ Counted(m)

Inv ==
  /\ TypeOK
  /\ Hands
  /\ \A m \in Metrics : Metric(m)

----------------------------------------------------------------------------
LEMMA Initially == Init => Inv
  BY DEF Init, Inv, TypeOK, Hands, Metric, Newest, RowInHand, InHand, Counted, Faults, Busy, Unread

\* Every action keeps the shape of the variables.
LEMMA TypeStep == TypeOK /\ Hands /\ [Next]_vars => TypeOK'
<1> SUFFICES ASSUME TypeOK, Hands, [Next]_vars
             PROVE  TypeOK'
  OBVIOUS
<1> USE DEF TypeOK, redis, task, faults, Unread, TaskEnds, Release, Persist, Hands, Busy
<1>1. ASSUME NEW m \in Metrics, SetValue(m) PROVE TypeOK'
  BY <1>1 DEF SetValue
<1>2. ASSUME NEW w \in writing, MarkDirty(w[1], w[2]) PROVE TypeOK'
  <2>1. w[1] \in Metrics /\ w[2] \in Nat
    OBVIOUS
  <2> QED BY <1>2, <2>1 DEF MarkDirty
<1>3. ASSUME NEW w \in writing, WriteFails(w[1], w[2]) PROVE TypeOK'
  BY <1>3 DEF WriteFails
<1>4. ASSUME NEW ids \in Batches, Pop(ids) PROVE TypeOK'
  BY <1>4 DEF Pop, Batches
<1>5. ASSUME NEW m \in Metrics, ReadRow(m) PROVE TypeOK'
  BY <1>5 DEF ReadRow
<1>6. CASE Upsert
  BY <1>6 DEF Upsert
<1>7. CASE UpsertFails
  BY <1>7 DEF UpsertFails
<1>8. CASE ForgetAttempts
  BY <1>8 DEF ForgetAttempts
<1>9. ASSUME NEW m \in Metrics, CountAttempt(m) PROVE TypeOK'
  BY <1>9 DEF CountAttempt
<1>10. CASE Requeue
  BY <1>10 DEF Requeue
<1>11. CASE Park
  BY <1>11 DEF Park
<1>12. CASE ForgetParked
  BY <1>12 DEF ForgetParked
<1>13. CASE Requeued
  BY <1>13 DEF Requeued
<1>14. CASE FlushFails
  BY <1>14 DEF FlushFails
<1>15. CASE RequeueFails
  BY <1>15 DEF RequeueFails
<1>16. CASE Restart
  BY <1>16 DEF Restart
<1>17. ASSUME NEW ids \in Batches, PopLost(ids) PROVE TypeOK'
  BY <1>17 DEF PopLost, Batches
<1>18. CASE UNCHANGED vars
  BY <1>18 DEF vars
<1> QED
  BY <1>1, <1>2, <1>3, <1>4, <1>5, <1>6, <1>7, <1>8, <1>9, <1>10, <1>11, <1>12,
     <1>13, <1>14, <1>15, <1>16, <1>17, <1>18 DEF Next, Flush

\* What the flusher has in hand follows from where it is.
LEMMA HandsStep == TypeOK /\ Hands /\ [Next]_vars => Hands'
<1> SUFFICES ASSUME TypeOK, Hands, [Next]_vars
             PROVE  Hands'
  OBVIOUS
<1> QED
  BY DEF TypeOK, Hands, Busy, Next, Flush, vars, redis, task, faults, TaskEnds, Release,
         SetValue, MarkDirty, WriteFails, Pop, PopLost, ReadRow, Upsert, UpsertFails,
         ForgetAttempts, CountAttempt, Requeue, Park, ForgetParked, Requeued,
         FlushFails, RequeueFails, Restart

\* Every action keeps what is said of a metric n, from what is said of n alone.
LEMMA MetricStep ==
  ASSUME TypeOK, TypeOK', Hands, [Next]_vars, NEW n \in Metrics, Metric(n)
  PROVE  Metric(n)'
<1> USE DEF TypeOK, Metric, Newest, RowInHand, InHand, Counted, Faults, Busy, Hands,
            redis, task, faults, Unread, TaskEnds, Release, Persist, AllRead
<1>1. ASSUME NEW m \in Metrics, SetValue(m) PROVE Metric(n)'
  BY <1>1 DEF SetValue
<1>2. ASSUME NEW w \in writing, MarkDirty(w[1], w[2]) PROVE Metric(n)'
  <2>1. w[1] \in Metrics /\ w[2] \in Nat
    OBVIOUS
  <2> QED BY <1>2, <2>1 DEF MarkDirty
<1>3. ASSUME NEW w \in writing, WriteFails(w[1], w[2]) PROVE Metric(n)'
  BY <1>3 DEF WriteFails
<1>4. ASSUME NEW ids \in Batches, Pop(ids) PROVE Metric(n)'
  BY <1>4 DEF Pop, Batches
<1>5. ASSUME NEW m \in Metrics, ReadRow(m) PROVE Metric(n)'
  BY <1>5 DEF ReadRow
<1>6. CASE Upsert
  BY <1>6 DEF Upsert
<1>7. CASE UpsertFails
  BY <1>7 DEF UpsertFails
<1>8. CASE ForgetAttempts
  BY <1>8 DEF ForgetAttempts
<1>9. ASSUME NEW m \in Metrics, CountAttempt(m) PROVE Metric(n)'
  BY <1>9 DEF CountAttempt
<1>10. CASE Requeue
  BY <1>10 DEF Requeue
<1>11. CASE Park
  BY <1>11 DEF Park
<1>12. CASE ForgetParked
  BY <1>12 DEF ForgetParked
<1>13. CASE Requeued
  BY <1>13 DEF Requeued
<1>14. CASE FlushFails
  BY <1>14 DEF FlushFails
<1>15. CASE RequeueFails
  BY <1>15 DEF RequeueFails
<1>16. CASE Restart
  BY <1>16 DEF Restart
<1>17. ASSUME NEW ids \in Batches, PopLost(ids) PROVE Metric(n)'
  BY <1>17 DEF PopLost, Batches
<1>18. CASE UNCHANGED vars
  BY <1>18 DEF vars
<1> QED
  BY <1>1, <1>2, <1>3, <1>4, <1>5, <1>6, <1>7, <1>8, <1>9, <1>10, <1>11, <1>12,
     <1>13, <1>14, <1>15, <1>16, <1>17, <1>18 DEF Next, Flush

LEMMA Step == Inv /\ [Next]_vars => Inv'
  BY TypeStep, HandsStep, MetricStep DEF Inv

THEOREM Invariance == Spec => []Inv
<1>1. Init => Inv
  BY Initially
<1>2. Inv /\ [Next]_vars => Inv'
  BY Step
<1> QED
  BY <1>1, <1>2, PTL DEF Spec

----------------------------------------------------------------------------
\* Every variable keeps its shape.
THEOREM TypeCorrect == Spec => []TypeOK
<1>1. Inv => TypeOK
  BY DEF Inv
<1> QED
  BY <1>1, Invariance, PTL

\* No acknowledged write is lost unless its id was popped and forgotten, whatever
\* the order of the PUTs and the flusher's steps.
THEOREM WritesKept == Spec => []AckedWritesKept
<1>1. Inv => AckedWritesKept
  BY DEF Inv, Metric, AckedWritesKept, InHand, Pending
<1> QED
  BY <1>1, Invariance, PTL

\* The retries of an id are bounded.
THEOREM Bounded == Spec => []AttemptsBounded
<1>1. Inv => AttemptsBounded
  <2> SUFFICES ASSUME Inv, NEW m \in Metrics
               PROVE  attempts[m] <= MaxAttempts + stops + redisErrors
    BY DEF AttemptsBounded
  <2> QED BY DEF Inv, TypeOK, Metric, Counted, Faults
<1> QED
  BY <1>1, Invariance, PTL
=============================================================================
