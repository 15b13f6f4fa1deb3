----------------------------- MODULE WriteBack -----------------------------
(***************************************************************************)
(* Write-back of the Python cache service: PUT stores a metric in Redis,   *)
(* marks it dirty and answers 202; a background task, the flusher, pops    *)
(* dirty ids, upserts their values into Postgres and re-queues the batch   *)
(* when that fails, MaxAttempts times at most.  One awaited call to Redis  *)
(* or Postgres is one action.  How long the flusher sleeps is left out: it *)
(* may wake up at any time.                                                *)
(***************************************************************************)
EXTENDS Naturals, FiniteSets

CONSTANTS
  Metrics,         \* metric ids
  FlushBatch,      \* FLUSH_BATCH
  MaxAttempts,     \* MAX_FLUSH_ATTEMPTS
  NoMetric,        \* requeue() is between two ids
  MaxVersion,      \* bound: writes of one metric
  MaxStops,        \* bound: stops or crashes of the process
  MaxRedisErrors   \* bound: Redis calls that raise

ASSUME FlushBatchAssumption == FlushBatch \in Nat \ {0}
ASSUME MaxAttemptsAssumption == MaxAttempts \in Nat \ {0}
ASSUME NoMetricAssumption == NoMetric \notin Metrics
ASSUME BoundsAssumption ==
  MaxVersion \in Nat /\ MaxStops \in Nat /\ MaxRedisErrors \in Nat

VARIABLES
  value,     \* metric:<id>, as the number of the write it is from; 0: no key
  dirty,     \* metric:dirty
  attempts,  \* metric:attempts
  failed,    \* metric:failed
  persisted, \* the metrics table: the write its row is from, 0 without a row
  writing,   \* PUTs between HSET and SADD: <<metric, write>>
  acked,     \* the newest write of a metric that was answered 202
  flusher,   \* what the flusher awaits; "dead": its task ended
  held,      \* ids it popped and has neither persisted nor re-queued
  rows,      \* the write it read for each of them, 0 when not yet read
  current,   \* the id requeue() is at
  dropped,   \* ids that were popped and forgotten
  stops, redisErrors

redis == <<value, dirty, attempts, failed>>
task == <<flusher, held, rows, current>>
faults == <<stops, redisErrors>>
vars == <<redis, persisted, writing, acked, task, dropped, faults>>

Unread == [m \in Metrics |-> 0]

Init ==
  /\ value = [m \in Metrics |-> 0]
  /\ dirty = {}
  /\ attempts = [m \in Metrics |-> 0]
  /\ failed = {}
  /\ persisted = [m \in Metrics |-> 0]
  /\ writing = {}
  /\ acked = [m \in Metrics |-> 0]
  /\ flusher = "sleep"
  /\ held = {}
  /\ rows = Unread
  /\ current = NoMetric
  /\ dropped = {}
  /\ stops = 0
  /\ redisErrors = 0

----------------------------------------------------------------------------
(* PUT /write-back/metrics/{mid}: HSET, SADD, 202.                          *)

SetValue(m) ==
  /\ value[m] < MaxVersion
  /\ value' = [value EXCEPT ![m] = @ + 1]
  /\ writing' = writing \cup {<<m, value[m] + 1>>}
  /\ UNCHANGED <<dirty, attempts, failed, persisted, acked, task, dropped, faults>>

MarkDirty(m, v) ==
  /\ <<m, v>> \in writing
  /\ writing' = writing \ {<<m, v>>}
  /\ dirty' = dirty \cup {m}
  /\ acked' = [acked EXCEPT ![m] = IF v > @ THEN v ELSE @]
  /\ dropped' = dropped \ {m}
  /\ UNCHANGED <<value, attempts, failed, persisted, task, faults>>

\* SADD raises, before or after it took effect: 503, and the value stays in
\* the cache.
WriteFails(m, v) ==
  /\ <<m, v>> \in writing
  /\ redisErrors < MaxRedisErrors
  /\ redisErrors' = redisErrors + 1
  /\ writing' = writing \ {<<m, v>>}
  /\ dirty' \in {dirty, dirty \cup {m}}
  /\ UNCHANGED <<value, attempts, failed, persisted, acked, task, dropped, stops>>

----------------------------------------------------------------------------
(* flusher(): the try block.                                                *)

\* SPOP returns at most FLUSH_BATCH members, any of them.
Batches ==
  {ids \in (SUBSET dirty) \ {{}} :
     Cardinality(ids) = FlushBatch \/ (ids = dirty /\ Cardinality(ids) < FlushBatch)}

Pop(ids) ==
  /\ flusher = "sleep"
  /\ ids \in Batches
  /\ dirty' = dirty \ ids
  /\ held' = ids
  /\ rows' = Unread
  /\ flusher' = "flush"
  /\ UNCHANGED <<value, attempts, failed, persisted, writing, acked, current,
                 dropped, faults>>

\* Redis pops the ids and the reply is lost: ids is [] in the except clause.
PopLost(ids) ==
  /\ flusher = "sleep"
  /\ ids \in Batches
  /\ redisErrors < MaxRedisErrors
  /\ redisErrors' = redisErrors + 1
  /\ dirty' = dirty \ ids
  /\ dropped' = dropped \cup ids
  /\ UNCHANGED <<value, attempts, failed, persisted, writing, acked, task, stops>>

\* HGETALL of one id.  The keys have no expiry, so there is a value.
ReadRow(m) ==
  /\ flusher = "flush"
  /\ m \in held
  /\ rows[m] = 0
  /\ rows' = [rows EXCEPT ![m] = value[m]]
  /\ UNCHANGED <<redis, persisted, writing, acked, flusher, held, current,
                 dropped, faults>>

AllRead == flusher = "flush" /\ \A m \in held : rows[m] # 0
Persist ==
  persisted' = [m \in Metrics |-> IF m \in held THEN rows[m] ELSE persisted[m]]

\* executemany of the upsert: one transaction for the batch.
Upsert ==
  /\ AllRead
  /\ Persist
  /\ flusher' = "persisted"
  /\ UNCHANGED <<redis, writing, acked, held, rows, current, dropped, faults>>

\* Postgres is away, or is lost after it has committed.
UpsertFails ==
  /\ AllRead
  /\ UNCHANGED persisted \/ Persist
  /\ flusher' = "requeue"
  /\ UNCHANGED <<redis, writing, acked, held, rows, current, dropped, faults>>

\* Mutant: dirty is cleared after the flush, as if nothing was written during it.
ForgetAttempts_ClearsDirty ==
  /\ flusher = "persisted"
  /\ attempts' = [m \in Metrics |-> IF m \in held THEN 0 ELSE attempts[m]]
  /\ dirty' = dirty \ held
  /\ held' = {}
  /\ rows' = Unread
  /\ flusher' = "sleep"
  /\ UNCHANGED <<value, failed, persisted, writing, acked, current, dropped, faults>>

\* HDEL metric:attempts of the batch, and back to sleep.
ForgetAttempts ==
  /\ flusher = "persisted"
  /\ attempts' = [m \in Metrics |-> IF m \in held THEN 0 ELSE attempts[m]]
  /\ held' = {}
  /\ rows' = Unread
  /\ flusher' = "sleep"
  /\ UNCHANGED <<value, dirty, failed, persisted, writing, acked, current,
                 dropped, faults>>

\* A Redis call of the try block raises: the whole batch is re-queued.
FlushFails ==
  /\ flusher = "persisted" \/ (flusher = "flush" /\ ~AllRead)
  /\ redisErrors < MaxRedisErrors
  /\ redisErrors' = redisErrors + 1
  /\ flusher' = "requeue"
  /\ UNCHANGED <<redis, persisted, writing, acked, held, rows, current, dropped, stops>>

----------------------------------------------------------------------------
(* requeue(ids): HINCRBY, then SADD dirty, or SADD failed and HDEL.         *)

\* Mutant: the attempt is not counted.
CountAttempt_NotCounted(m) ==
  /\ flusher = "requeue"
  /\ m \in held
  /\ current' = m
  /\ flusher' = "counted"
  /\ UNCHANGED <<redis, persisted, writing, acked, held, rows, dropped, faults>>

CountAttempt(m) ==
  /\ flusher = "requeue"
  /\ m \in held
  /\ attempts' = [attempts EXCEPT ![m] = @ + 1]
  /\ current' = m
  /\ flusher' = "counted"
  /\ UNCHANGED <<value, dirty, failed, persisted, writing, acked, held, rows,
                 dropped, faults>>

\* The id leaves the flusher's hands.
Release ==
  /\ held' = held \ {current}
  /\ rows' = [rows EXCEPT ![current] = 0]

Requeue ==
  /\ flusher = "counted"
  /\ attempts[current] < MaxAttempts
  /\ dirty' = dirty \cup {current}
  /\ Release
  /\ current' = NoMetric
  /\ flusher' = "requeue"
  /\ UNCHANGED <<value, attempts, failed, persisted, writing, acked, dropped, faults>>

\* Mutant: the count is added to metric:failed instead of the id.
Park_AddsCount ==
  /\ flusher = "counted"
  /\ attempts[current] >= MaxAttempts
  /\ failed' = failed \cup {attempts[current]}
  /\ Release
  /\ flusher' = "parked"
  /\ UNCHANGED <<value, dirty, attempts, persisted, writing, acked, current,
                 dropped, faults>>

Park ==
  /\ flusher = "counted"
  /\ attempts[current] >= MaxAttempts
  /\ failed' = failed \cup {current}
  /\ Release
  /\ flusher' = "parked"
  /\ UNCHANGED <<value, dirty, attempts, persisted, writing, acked, current,
                 dropped, faults>>

\* Mutant: the count of a parked id is kept.
ForgetParked_KeepsCount ==
  /\ flusher = "parked"
  /\ current' = NoMetric
  /\ flusher' = "requeue"
  /\ UNCHANGED <<redis, persisted, writing, acked, held, rows, dropped, faults>>

ForgetParked ==
  /\ flusher = "parked"
  /\ attempts' = [attempts EXCEPT ![current] = 0]
  /\ current' = NoMetric
  /\ flusher' = "requeue"
  /\ UNCHANGED <<value, dirty, failed, persisted, writing, acked, held, rows,
                 dropped, faults>>

Requeued ==
  /\ flusher = "requeue"
  /\ held = {}
  /\ flusher' = "sleep"
  /\ UNCHANGED <<redis, persisted, writing, acked, held, rows, current, dropped, faults>>

\* What a flusher that ends has in hand is in no set of Redis any more.
TaskEnds(state) ==
  /\ flusher' = state
  /\ dropped' = dropped \cup held
  /\ held' = {}
  /\ rows' = Unread
  /\ current' = NoMetric

\* A Redis call of requeue() raises: requeue() is called from the except
\* clause, so the exception ends the task; the process goes on serving.
RequeueFails ==
  /\ flusher \in {"requeue", "counted", "parked"}
  /\ flusher = "requeue" => held # {}
  /\ redisErrors < MaxRedisErrors
  /\ redisErrors' = redisErrors + 1
  /\ TaskEnds("dead")
  /\ UNCHANGED <<redis, persisted, writing, acked, stops>>

\* The process stops and is started again: lifespan cancels the task, and
\* CancelledError is not an Exception, so nothing is re-queued.
Restart ==
  /\ stops < MaxStops
  /\ stops' = stops + 1
  /\ TaskEnds("sleep")
  /\ writing' = {}
  /\ UNCHANGED <<redis, persisted, acked, redisErrors>>

----------------------------------------------------------------------------
Flush ==
  \/ \E ids \in Batches : Pop(ids)
  \/ \E m \in Metrics : ReadRow(m)
  \/ Upsert \/ UpsertFails \/ ForgetAttempts
  \/ \E m \in Metrics : CountAttempt(m)
  \/ Requeue \/ Park \/ ForgetParked \/ Requeued

Next ==
  \/ \E m \in Metrics : SetValue(m)
  \/ \E w \in writing : MarkDirty(w[1], w[2]) \/ WriteFails(w[1], w[2])
  \/ Flush
  \/ \E ids \in Batches : PopLost(ids)
  \/ FlushFails \/ RequeueFails \/ Restart

Spec == Init /\ [][Next]_vars

\* The event loop runs the flusher.  Postgres owes nothing: it may fail every
\* upsert.
FairSpec == Spec /\ WF_vars(Flush)

----------------------------------------------------------------------------
(* Correctness.                                                             *)

\* The shape of every variable.
TypeOK ==
  /\ value \in [Metrics -> Nat]
  /\ dirty \in SUBSET Metrics
  /\ attempts \in [Metrics -> Nat]
  /\ failed \in SUBSET Metrics
  /\ persisted \in [Metrics -> Nat]
  /\ writing \in SUBSET (Metrics \X Nat)
  /\ acked \in [Metrics -> Nat]
  /\ flusher \in {"sleep", "flush", "persisted", "requeue", "counted", "parked", "dead"}
  /\ held \in SUBSET Metrics
  /\ rows \in [Metrics -> Nat]
  /\ current \in Metrics \cup {NoMetric}
  /\ dropped \in SUBSET Metrics
  /\ stops \in Nat
  /\ redisErrors \in Nat

\* A write that was answered 202 is in the table, or its id is where someone
\* will find it: dirty, parked on metric:failed, or in the flusher's hands -
\* unless a flusher died with the id in hand or SPOP lost its reply (HSET before
\* SADD, HGETALL after SPOP, requeue).
Pending(m) == m \in dirty \cup failed \cup held
AckedWritesKept ==
  \A m \in Metrics : acked[m] > persisted[m] => Pending(m) \/ m \in dropped

\* The count of an id stays within MAX_FLUSH_ATTEMPTS, whatever stops the
\* flusher between two steps of requeue(): only a stop or an error between SADD
\* failed and HDEL leaves one attempt too many behind.
AttemptsBounded ==
  \A m \in Metrics : attempts[m] <= MaxAttempts + stops + redisErrors

\* However long Postgres is away, an acknowledged write ends up in the table
\* or parked: no id is re-queued for ever (MAX_FLUSH_ATTEMPTS), and a new
\* process goes on with what is dirty.  A Redis error can end the flusher.
AckedWritesSettle ==
  \A m \in Metrics :
    acked[m] > persisted[m] ~>
      \/ acked[m] <= persisted[m]
      \/ m \in failed \cup dropped
      \/ redisErrors > 0

\* Appendix L, lines 749-752: "A failed flush re-queues its entries": an id that
\* requeue() was called with ends up dirty or parked.
FailedFlushRequeues ==
  [][\A m \in held \ held' :
       flusher \in {"requeue", "counted", "parked"} => m \in dirty' \cup failed']_vars
=============================================================================
