----------------------------- MODULE OrderEvents -----------------------------
(***************************************************************************)
(* The Python event pipeline of example 05: POST /orders inserts a row and *)
(* hands an order.placed event to the Kafka producer; the shipping and the *)
(* notification consumer, each a group of its own, insert a row per event  *)
(* and commit their offsets by hand.  A consumer takes a batch from all    *)
(* partitions at once, inserts message by message and calls commit() after *)
(* each - and commit() without offsets commits the position of the whole   *)
(* batch.                                                                  *)
(***************************************************************************)
EXTENDS Integers, Sequences, FiniteSets, Functions

CONSTANTS
  Orders,         \* order ids (uuid4), one per POST
  Groups,         \* shipping-group and notification-group
  Partitions,     \* of the topic order.placed
  NoPartition,    \* no partition of the batch is being worked on
  MaxRecords,     \* max_records of getmany
  MaxDuplicates,  \* bound: sends the producer repeats
  MaxLosses,      \* bound: sends and producers that fail
  MaxFaults       \* bound: consumer crashes and statements that raise

VARIABLES
  request,     \* POST of each order: "none", "inserted", "answered", "failed"
  orders,      \* the orders table
  buffer,      \* events the producer has accepted and not delivered
  topic,       \* the log of each partition
  committed,   \* committed offset of each group and partition
  position,    \* where the next getmany of the consumer starts
  cursor,      \* its messages before this offset have been inserted
  tp,          \* the partition of the batch it is working on
  consumer,    \* "down", "poll" (between batches), "insert" or "commit"
  table,       \* shipments, notifications: order_id is UNIQUE
  duplicates, losses, faults

producerVars == <<request, orders, buffer>>
consumerVars == <<committed, position, cursor, tp, consumer, table>>
bounds == <<duplicates, losses, faults>>
vars == <<producerVars, topic, consumerVars, bounds>>

Zero == [g \in Groups |-> [p \in Partitions |-> 0]]

Init ==
  /\ request = [o \in Orders |-> "none"]
  /\ orders = {}
  /\ buffer = {}
  /\ topic = [p \in Partitions |-> <<>>]
  /\ committed = Zero
  /\ position = Zero
  /\ cursor = Zero
  /\ tp = [g \in Groups |-> NoPartition]
  /\ consumer = [g \in Groups |-> "down"]
  /\ table = [g \in Groups |-> {}]
  /\ duplicates = 0
  /\ losses = 0
  /\ faults = 0

----------------------------------------------------------------------------
(* place_order and the producer behind it.                                  *)

\* Mutant: the event is handed over before the row is inserted.
InsertOrder_SendFirst(o) ==
  /\ request[o] = "none"
  /\ request' = [request EXCEPT ![o] = "inserted"]
  /\ buffer' = buffer \cup {o}
  /\ UNCHANGED <<orders, topic, consumerVars, bounds>>

InsertOrder(o) ==
  /\ request[o] = "none"
  /\ request' = [request EXCEPT ![o] = "inserted"]
  /\ orders' = orders \cup {o}
  /\ UNCHANGED <<buffer, topic, consumerVars, bounds>>

\* send() returns when the event is in the producer's buffer; its delivery
\* future is dropped.  201.
SendEvent(o) ==
  /\ request[o] = "inserted"
  /\ request' = [request EXCEPT ![o] = "answered"]
  /\ buffer' = buffer \cup {o}
  /\ UNCHANGED <<orders, topic, consumerVars, bounds>>

\* send() raises, 500: the order is in the table, its event nowhere.
SendFails(o) ==
  /\ request[o] = "inserted"
  /\ losses < MaxLosses
  /\ losses' = losses + 1
  /\ request' = [request EXCEPT ![o] = "failed"]
  /\ UNCHANGED <<orders, buffer, topic, consumerVars, duplicates, faults>>

\* The broker appends the event, sent without a key, to some partition.
Deliver(o, p) ==
  /\ o \in buffer
  /\ topic' = [topic EXCEPT ![p] = Append(@, o)]
  /\ buffer' = buffer \ {o}
  /\ UNCHANGED <<request, orders, consumerVars, bounds>>

\* It does, and the acknowledgement is lost: the producer sends it again.
DeliverAgain(o, p) ==
  /\ o \in buffer
  /\ duplicates < MaxDuplicates
  /\ duplicates' = duplicates + 1
  /\ topic' = [topic EXCEPT ![p] = Append(@, o)]
  /\ UNCHANGED <<producerVars, consumerVars, losses, faults>>

\* The service dies: what it buffered is gone, open requests never answer.
OrderServiceCrash ==
  /\ losses < MaxLosses
  /\ losses' = losses + 1
  /\ buffer' = {}
  /\ request' = [o \in Orders |->
                   IF request[o] = "inserted" THEN "failed" ELSE request[o]]
  /\ UNCHANGED <<orders, topic, consumerVars, duplicates, faults>>

----------------------------------------------------------------------------
(* main() of a consumer.                                                    *)

\* Mutant: auto_offset_reset is "latest".
StartConsumer_Latest(g) ==
  /\ consumer[g] = "down"
  /\ consumer' = [consumer EXCEPT ![g] = "poll"]
  /\ position' = [position EXCEPT ![g] = [p \in Partitions |->
       IF committed[g][p] = 0 THEN Len(topic[p]) ELSE committed[g][p]]]
  /\ cursor' = [cursor EXCEPT ![g] = position'[g]]
  /\ tp' = [tp EXCEPT ![g] = NoPartition]
  /\ UNCHANGED <<producerVars, topic, committed, table, bounds>>

\* It starts where its group has committed, "earliest" if it has not.
StartConsumer(g) ==
  /\ consumer[g] = "down"
  /\ consumer' = [consumer EXCEPT ![g] = "poll"]
  /\ position' = [position EXCEPT ![g] = committed[g]]
  /\ cursor' = [cursor EXCEPT ![g] = committed[g]]
  /\ tp' = [tp EXCEPT ![g] = NoPartition]
  /\ UNCHANGED <<producerVars, topic, committed, table, bounds>>

Available(g, p) == Len(topic[p]) - position[g][p]
\* How many messages of each partition a batch has.
Batches(g) ==
  {n \in [Partitions -> 0..MaxRecords] : \A p \in Partitions : n[p] <= Available(g, p)}
Size(n) == SumFunctionOnSet(n, Partitions)

\* Mutant: max_records holds for each partition instead of the batch.
Poll_PerPartition(g, n) ==
  /\ consumer[g] = "poll"
  /\ n \in Batches(g)
  /\ Size(n) > 0
  /\ position' = [position EXCEPT ![g] = [p \in Partitions |-> @[p] + n[p]]]
  /\ consumer' = [consumer EXCEPT ![g] = "insert"]
  /\ UNCHANGED <<producerVars, topic, committed, cursor, tp, table, bounds>>

\* getmany: the position moves past the batch at once.
Poll(g, n) ==
  /\ consumer[g] = "poll"
  /\ n \in Batches(g)
  /\ Size(n) \in 1..MaxRecords
  /\ position' = [position EXCEPT ![g] = [p \in Partitions |-> @[p] + n[p]]]
  /\ consumer' = [consumer EXCEPT ![g] = "insert"]
  /\ UNCHANGED <<producerVars, topic, committed, cursor, tp, table, bounds>>

\* The loop takes partition by partition, message by message.
AtMessage(g, p) ==
  /\ consumer[g] = "insert"
  /\ tp[g] \in {NoPartition, p}
  /\ cursor[g][p] < position[g][p]
Inserted(g, p) == [table EXCEPT ![g] = @ \cup {topic[p][cursor[g][p] + 1]}]

\* INSERT, or a UniqueViolationError: there is a row for the order.
Insert(g, p) ==
  /\ AtMessage(g, p)
  /\ table' = Inserted(g, p)
  /\ cursor' = [cursor EXCEPT ![g][p] = @ + 1]
  /\ tp' = [tp EXCEPT ![g] = p]
  /\ consumer' = [consumer EXCEPT ![g] = "commit"]
  /\ UNCHANGED <<producerVars, topic, committed, position, bounds>>

\* Any other exception leaves the loop: the process ends.
InsertFails(g, p) ==
  /\ AtMessage(g, p)
  /\ faults < MaxFaults
  /\ faults' = faults + 1
  /\ table' \in {table, Inserted(g, p)}
  /\ consumer' = [consumer EXCEPT ![g] = "down"]
  /\ UNCHANGED <<producerVars, topic, committed, position, cursor, tp,
                 duplicates, losses>>

Remaining(g) == \E p \in Partitions : cursor[g][p] < position[g][p]

\* Mutant: one past the position, as if it were the offset of the last message.
Commit_OffByOne(g) ==
  /\ consumer[g] = "commit"
  /\ committed' = [committed EXCEPT ![g] = [p \in Partitions |-> position[g][p] + 1]]
  /\ tp' = [tp EXCEPT ![g] = IF cursor[g][@] < position[g][@] THEN @ ELSE NoPartition]
  /\ consumer' = [consumer EXCEPT ![g] = IF Remaining(g) THEN "insert" ELSE "poll"]
  /\ UNCHANGED <<producerVars, topic, position, cursor, table, bounds>>

\* commit() commits the position of every partition.
Commit(g) ==
  /\ consumer[g] = "commit"
  /\ committed' = [committed EXCEPT ![g] = position[g]]
  /\ tp' = [tp EXCEPT ![g] = IF cursor[g][@] < position[g][@] THEN @ ELSE NoPartition]
  /\ consumer' = [consumer EXCEPT ![g] = IF Remaining(g) THEN "insert" ELSE "poll"]
  /\ UNCHANGED <<producerVars, topic, position, cursor, table, bounds>>

\* A crash, or commit() raises.
ConsumerCrash(g) ==
  /\ consumer[g] # "down"
  /\ faults < MaxFaults
  /\ faults' = faults + 1
  /\ consumer' = [consumer EXCEPT ![g] = "down"]
  /\ UNCHANGED <<producerVars, topic, committed, position, cursor, tp, table,
                 duplicates, losses>>

----------------------------------------------------------------------------
Produce(o) ==
  \/ InsertOrder(o) \/ SendEvent(o) \/ SendFails(o)
  \/ \E p \in Partitions : Deliver(o, p) \/ DeliverAgain(o, p)

Consume(g) ==
  \/ StartConsumer(g)
  \/ \E n \in Batches(g) : Poll(g, n)
  \/ \E p \in Partitions : Insert(g, p)
  \/ Commit(g)

Next ==
  \/ \E o \in Orders : Produce(o)
  \/ OrderServiceCrash
  \/ \E g \in Groups :
       Consume(g) \/ ConsumerCrash(g) \/ \E p \in Partitions : InsertFails(g, p)

Spec == Init /\ [][Next]_vars

\* An accepted request is worked on, the producer's sender and the consumers
\* run, and a consumer that ended is started again.
Fairness ==
  /\ \A o \in Orders :
       /\ WF_vars(SendEvent(o))
       /\ WF_vars(\E p \in Partitions : Deliver(o, p))
  /\ \A g \in Groups : WF_vars(Consume(g))

FairSpec == Spec /\ Fairness

----------------------------------------------------------------------------
(* Correctness.                                                             *)

\* The shape of every variable.
TypeOK ==
  /\ request \in [Orders -> {"none", "inserted", "answered", "failed"}]
  /\ orders \in SUBSET Orders
  /\ buffer \in SUBSET Orders
  /\ topic \in [Partitions -> Seq(Orders)]
  /\ \A g \in Groups, p \in Partitions :
       /\ committed[g][p] \in 0 .. Len(topic[p])
       /\ position[g][p] \in committed[g][p] .. Len(topic[p])
       /\ cursor[g][p] \in 0 .. position[g][p]
  /\ tp \in [Groups -> Partitions \cup {NoPartition}]
  /\ consumer \in [Groups -> {"down", "poll", "insert", "commit"}]
  /\ table \in [Groups -> SUBSET Orders]
  /\ duplicates \in 0..MaxDuplicates
  /\ losses \in 0..MaxLosses
  /\ faults \in 0..MaxFaults

\* Nothing is shipped or notified for an order that is not in the orders table
\* (the row is inserted before the event is handed over).
NoPhantomOrders == \A g \in Groups : table[g] \subseteq orders

\* What a fault can cost: the messages of one batch after the first.  The
\* events a group has committed and not handled, and is not about to handle,
\* are at most MaxRecords - 1 for every fault so far.
Unhandled(g, p) ==
  {i \in 1..committed[g][p] :
     /\ topic[p][i] \notin table[g]
     /\ consumer[g] # "down" => i <= cursor[g][p]}
LossBounded ==
  \A g \in Groups :
    SumFunctionOnSet([p \in Partitions |-> Cardinality(Unhandled(g, p))], Partitions)
      <= faults * (MaxRecords - 1)

\* The pipeline neither invents orders nor loses more than its faults cost.
PipelineKeepsOrders == NoPhantomOrders /\ LossBounded

\* While no consumer fails, every order that was answered 201 and whose event
\* the producer did not lose reaches both groups, in spite of duplicates and
\* of consumers that start late.
AnsweredOrdersReachEveryGroup ==
  \A o \in Orders, g \in Groups :
    request[o] = "answered" ~> (o \in table[g] \/ losses + faults > 0)

\* README of the Python edition: the offset is committed only after the DB
\* write succeeds.
CommitAfterSideEffect ==
  \A g \in Groups, p \in Partitions :
    \A i \in 1..committed[g][p] : topic[p][i] \in table[g]
=============================================================================
