----------------------------- MODULE ConsumerCpp -----------------------------
(***************************************************************************)
(* A C++ consumer of order.placed (shipping and notification are alike):   *)
(* it takes one message at a time, retries the insert for as long as the   *)
(* database fails, skips what is not an order, and commits the offset of   *)
(* that message.                                                           *)
(***************************************************************************)
EXTENDS Naturals, Sequences

CONSTANTS
  Orders,        \* ids that valid messages carry
  Poison,        \* a message that is not JSON or has no id
  Partitions,
  NoPartition,   \* no message in hand
  MaxMessages,   \* bound: length of a partition
  MaxInsertErrors,   \* bound: inserts that fail
  MaxStops       \* bound: crashes, SIGTERMs and failing commits

Messages == Orders \cup {Poison}

ASSUME PoisonAssumption == Poison \notin Orders
ASSUME NoPartitionAssumption == NoPartition \notin Partitions
ASSUME ConsumerBounds ==
  MaxMessages \in Nat /\ MaxInsertErrors \in Nat /\ MaxStops \in Nat

VARIABLES
  topic,      \* the log of each partition
  committed,  \* committed offset of the group
  position,   \* next offset consume() returns
  tp,         \* partition of the message in hand
  consumer,   \* "down", "consume", "process", "commit"
  shutdown,   \* g_shutdown
  table,      \* order ids with a row
  insertErrors, stops

consumerVars == <<topic, committed, position, tp, consumer, shutdown, table, insertErrors, stops>>

ConsumerInit ==
  /\ topic = [p \in Partitions |-> <<>>]
  /\ committed = [p \in Partitions |-> 0]
  /\ position = [p \in Partitions |-> 0]
  /\ tp = NoPartition
  /\ consumer = "down"
  /\ shutdown = FALSE
  /\ table = {}
  /\ insertErrors = 0
  /\ stops = 0

\* The order service, or anyone, publishes.
Publish(p, m) ==
  /\ Len(topic[p]) < MaxMessages
  /\ topic' = [topic EXCEPT ![p] = Append(@, m)]
  /\ UNCHANGED <<committed, position, tp, consumer, shutdown, table, insertErrors, stops>>

\* Mutant: without a committed offset the group starts at the end.
Start_Latest ==
  /\ consumer = "down"
  /\ consumer' = "consume"
  /\ position' = [p \in Partitions |->
       IF committed[p] = 0 THEN Len(topic[p]) ELSE committed[p]]
  /\ tp' = NoPartition
  /\ shutdown' = FALSE
  /\ UNCHANGED <<topic, committed, table, insertErrors, stops>>

\* A new process: the group resumes at its committed offsets.
Start ==
  /\ consumer = "down"
  /\ consumer' = "consume"
  /\ position' = committed
  /\ tp' = NoPartition
  /\ shutdown' = FALSE
  /\ UNCHANGED <<topic, committed, table, insertErrors, stops>>

Consume(p) ==
  /\ consumer = "consume"
  /\ ~shutdown
  /\ position[p] < Len(topic[p])
  /\ position' = [position EXCEPT ![p] = @ + 1]
  /\ tp' = p
  /\ consumer' = "process"
  /\ UNCHANGED <<topic, committed, shutdown, table, insertErrors, stops>>

Message == topic[tp][position[tp]]

\* Outcome::Done, a row or a conflict with one; Outcome::Skip, nothing to do.
Process ==
  /\ consumer = "process"
  /\ table' = IF Message = Poison THEN table ELSE table \cup {Message}
  /\ consumer' = "commit"
  /\ UNCHANGED <<topic, committed, position, tp, shutdown, insertErrors, stops>>

\* Mutant: a failed insert is logged and the message given up.
InsertFails_GivesUp ==
  /\ consumer = "process"
  /\ Message # Poison
  /\ insertErrors < MaxInsertErrors
  /\ insertErrors' = insertErrors + 1
  /\ consumer' = "commit"
  /\ UNCHANGED <<topic, committed, position, tp, shutdown, table, stops>>

\* Outcome::Retry: try again, unless the process is to stop.  The row may be
\* there all the same when the connection is lost after the insert.
InsertFails ==
  /\ consumer = "process"
  /\ Message # Poison
  /\ insertErrors < MaxInsertErrors
  /\ insertErrors' = insertErrors + 1
  /\ table' \in {table, table \cup {Message}}
  /\ consumer' = IF shutdown THEN "down" ELSE "process"
  /\ UNCHANGED <<topic, committed, position, tp, shutdown, stops>>

\* Mutant: one past the message's next offset.
Commit_OffByOne ==
  /\ consumer = "commit"
  /\ committed' = [committed EXCEPT ![tp] = position[tp] + 1]
  /\ consumer' = "consume"
  /\ tp' = NoPartition
  /\ UNCHANGED <<topic, position, shutdown, table, insertErrors, stops>>

\* commitSync(msg) commits the offset after this message.
Commit ==
  /\ consumer = "commit"
  /\ committed' = [committed EXCEPT ![tp] = position[tp]]
  /\ consumer' = "consume"
  /\ tp' = NoPartition
  /\ UNCHANGED <<topic, position, shutdown, table, insertErrors, stops>>

\* It fails: that is logged, and the loop goes on.
CommitFails ==
  /\ consumer = "commit"
  /\ stops < MaxStops
  /\ stops' = stops + 1
  /\ consumer' = "consume"
  /\ tp' = NoPartition
  /\ UNCHANGED <<topic, committed, position, shutdown, table, insertErrors>>

Sigterm ==
  /\ consumer # "down"
  /\ ~shutdown
  /\ stops < MaxStops
  /\ stops' = stops + 1
  /\ shutdown' = TRUE
  /\ UNCHANGED <<topic, committed, position, tp, consumer, table, insertErrors>>

\* The loop ends at its head; close() commits nothing.
LeaveLoop ==
  /\ consumer = "consume"
  /\ shutdown
  /\ consumer' = "down"
  /\ UNCHANGED <<topic, committed, position, tp, shutdown, table, insertErrors, stops>>

ConsumerCrash ==
  /\ consumer # "down"
  /\ stops < MaxStops
  /\ stops' = stops + 1
  /\ consumer' = "down"
  /\ UNCHANGED <<topic, committed, position, tp, shutdown, table, insertErrors>>

Loop ==
  \/ Start \/ Process \/ Commit \/ LeaveLoop
  \/ \E p \in Partitions : Consume(p)

ConsumerNext ==
  \/ \E p \in Partitions, m \in Messages : Publish(p, m)
  \/ Loop
  \/ InsertFails \/ CommitFails \/ Sigterm \/ ConsumerCrash

ConsumerSpec == ConsumerInit /\ [][ConsumerNext]_consumerVars

\* A consumer that stopped is started again, and it runs; the database fails
\* finitely often (MaxInsertErrors).
ConsumerFairSpec == ConsumerSpec /\ WF_consumerVars(Loop)

----------------------------------------------------------------------------
(* Correctness.                                                             *)

\* The shape of every variable.
ConsumerTypeOK ==
  /\ topic \in [Partitions -> Seq(Messages)]
  /\ committed \in [Partitions -> Nat]
  /\ position \in [Partitions -> Nat]
  /\ \A p \in Partitions :
       /\ committed[p] <= Len(topic[p])
       /\ position[p] <= Len(topic[p])
  /\ tp \in Partitions \cup {NoPartition}
  /\ consumer \in {"down", "consume", "process", "commit"}
  /\ consumer \in {"process", "commit"} => tp \in Partitions
  /\ shutdown \in BOOLEAN
  /\ table \in SUBSET Orders
  /\ insertErrors \in 0..MaxInsertErrors
  /\ stops \in 0..MaxStops

\* "Commit only after the side effect, so a crash redelivers rather than
\* loses": every order before a committed offset has its row.
Done(p, k) ==
  \A i \in 1..k : topic[p][i] \in table \cup {Poison}
CommitAfterSideEffect == \A p \in Partitions : Done(p, committed[p])

\* The consumer implements at-least-once delivery.
Delivery == INSTANCE AtLeastOnce WITH handled <- table, Skipped <- {Poison}
ImplementsAtLeastOnce == Delivery!Spec

\* Every order that is published gets its row, through any finite number of
\* stops, failing inserts and failing commits.
EveryOrderHandled == Delivery!AllHandled
=============================================================================
