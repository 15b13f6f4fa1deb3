---------------------------- MODULE RevenueStream ----------------------------
(* Example 06: orders are stored and published; a Faust agent regroups the   *)
(* topic by merchant and keeps, per merchant and tumbling window, a running  *)
(* count and total, which it publishes after each record.                    *)
(* Faust delivers at least once: offsets are committed from time to time,    *)
(* and the table comes back from its changelog (both external).              *)
EXTENDS Naturals, Sequences, FiniteSets

CONSTANTS
  Merchants, Windows,
  MaxRecords,  \* bound: records in order.placed
  MaxCrashes   \* bound: crashes of the stream processor

(* What a record's value can be: an order, something parse() gives None for, *)
(* an order whose total is no number, one whose total is too large to round. *)
Kinds == {"order", "unreadable", "not a number", "out of range"}
Record == [merchant : Merchants, window : Windows, kind : Kinds]

VARIABLES
  stored,     \* orders in the database whose event is not sent yet
  topic,      \* order.placed
  grouped,    \* the repartition topic
  position, committed,   \* [topic |-> ..., grouped |-> ...]
  revenue,    \* [merchant][window]: the records counted in the table
  emitting,   \* the result the agent is about to send, <<>> if none
  output,     \* revenue.by-merchant
  crashes

vars == <<stored, topic, grouped, position, committed, revenue, emitting, output, crashes>>

Init ==
  /\ stored = {} /\ topic = <<>> /\ grouped = <<>> /\ output = <<>> /\ emitting = <<>>
  /\ position = [topic |-> 0, grouped |-> 0] /\ committed = position
  /\ revenue = [m \in Merchants |-> [w \in Windows |-> 0]]
  /\ crashes = 0

-----------------------------------------------------------------------------
(* The order service and other producers.                                    *)

InsertOrder(r) ==
  /\ r.kind = "order" /\ stored = {} /\ Len(topic) < MaxRecords
  /\ stored' = {r}
  /\ UNCHANGED <<topic, grouped, position, committed, revenue, emitting, output, crashes>>

SendOrder ==
  /\ \E r \in stored : topic' = Append(topic, r)
  /\ stored' = {}
  /\ UNCHANGED <<grouped, position, committed, revenue, emitting, output, crashes>>

OtherRecord(r) ==
  /\ r.kind # "order" /\ Len(topic) + Cardinality(stored) < MaxRecords
  /\ topic' = Append(topic, r)
  /\ UNCHANGED <<stored, grouped, position, committed, revenue, emitting, output, crashes>>

-----------------------------------------------------------------------------
(* The stream processor.                                                     *)

(* merchant_of: what cannot be parsed keeps an empty key and goes along.     *)
GroupBy ==
  /\ position.topic < Len(topic)
  /\ grouped' = Append(grouped, topic[position.topic + 1])
  /\ position' = [position EXCEPT !.topic = @ + 1]
  /\ UNCHANGED <<stored, topic, committed, revenue, emitting, output, crashes>>

(* Mutant: the table is written before the total is rounded.                 *)
Aggregate_BeforeRounding ==
  /\ emitting = <<>> /\ position.grouped < Len(grouped)
  /\ LET r == grouped[position.grouped + 1] IN
       /\ r.kind \in {"order", "out of range"}
       /\ revenue' = [revenue EXCEPT ![r.merchant][r.window] = @ + 1]
       /\ emitting' = <<r.merchant, r.window, revenue'[r.merchant][r.window]>>
  /\ UNCHANGED <<stored, topic, grouped, position, committed, output, crashes>>

(* One round of the agent up to the send.                                    *)
Aggregate ==
  /\ emitting = <<>> /\ position.grouped < Len(grouped)
  /\ LET r == grouped[position.grouped + 1] IN
       /\ r.kind = "order"
       /\ revenue' = [revenue EXCEPT ![r.merchant][r.window] = @ + 1]
       /\ emitting' = <<r.merchant, r.window, revenue'[r.merchant][r.window]>>
  /\ UNCHANGED <<stored, topic, grouped, position, committed, output, crashes>>

(* Mutant: an unusable record ends the loop.                                 *)
Skip_Dies ==
  /\ emitting = <<>> /\ position.grouped < Len(grouped)
  /\ grouped[position.grouped + 1].kind = "unreadable"
  /\ position' = [position EXCEPT !.grouped = @ + 1]
  /\ UNCHANGED <<stored, topic, grouped, committed, revenue, emitting, output, crashes>>

Skip ==
  /\ emitting = <<>> /\ position.grouped < Len(grouped)
  /\ grouped[position.grouped + 1].kind # "order"
  /\ position' = [position EXCEPT !.grouped = @ + 1]
  /\ UNCHANGED <<stored, topic, grouped, committed, revenue, emitting, output, crashes>>

Emit ==
  /\ emitting # <<>>
  /\ output' = Append(output, emitting) /\ emitting' = <<>>
  /\ position' = [position EXCEPT !.grouped = @ + 1]
  /\ UNCHANGED <<stored, topic, grouped, committed, revenue, crashes>>

(* Mutant: what was fetched is committed, not what was processed.            *)
Commit_Fetched ==
  /\ committed' = [topic |-> position.topic, grouped |-> Len(grouped)] /\ committed' # committed
  /\ UNCHANGED <<stored, topic, grouped, position, revenue, emitting, output, crashes>>

Commit ==
  /\ committed' = position /\ committed' # committed
  /\ UNCHANGED <<stored, topic, grouped, position, revenue, emitting, output, crashes>>

(* Mutant: a restart begins with an empty table.                             *)
Crash_EmptyTable ==
  /\ crashes < MaxCrashes /\ crashes' = crashes + 1
  /\ position' = committed /\ emitting' = <<>>
  /\ revenue' = [m \in Merchants |-> [w \in Windows |-> 0]]
  /\ UNCHANGED <<stored, topic, grouped, committed, output>>

Crash ==
  /\ crashes < MaxCrashes /\ crashes' = crashes + 1
  /\ position' = committed /\ emitting' = <<>>
  /\ UNCHANGED <<stored, topic, grouped, committed, revenue, output>>

Next ==
  \/ \E r \in Record : InsertOrder(r) \/ OtherRecord(r)
  \/ SendOrder \/ GroupBy \/ Aggregate \/ Skip \/ Emit \/ Commit \/ Crash

Spec == Init /\ [][Next]_vars

(* The agent runs on; a crashed processor is restarted (Crash includes it).  *)
Fairness == WF_vars(GroupBy) /\ WF_vars(Aggregate) /\ WF_vars(Skip) /\ WF_vars(Emit)
FairSpec == Spec /\ Fairness

-----------------------------------------------------------------------------
OrdersIn(records, m, w) == Cardinality({k \in DOMAIN records : records[k] = [merchant |-> m, window |-> w, kind |-> "order"]})

(* No processed order is missing from its window, however often the          *)
(* processor crashes; without a crash each is counted once, and records that *)
(* are not usable orders are never counted.                                  *)
WindowsComplete ==
  \A m \in Merchants, w \in Windows :
    LET processed == OrdersIn(SubSeq(grouped, 1, position.grouped), m, w)
        open == IF emitting # <<>> /\ emitting[1] = m /\ emitting[2] = w THEN 1 ELSE 0 IN
    /\ revenue[m][w] >= processed + open
    /\ crashes = 0 => revenue[m][w] = processed + open
    /\ OrdersIn(topic, m, w) = 0 => revenue[m][w] = 0

(* The published figures of a window only grow, across crashes, too.         *)
FiguresGrow ==
  \A j, k \in DOMAIN output :
    j < k /\ output[j][1] = output[k][1] /\ output[j][2] = output[k][2] => output[j][3] < output[k][3]

(* Every order that was published is in a published figure in the end: no    *)
(* unusable record before it stops the agent.                                *)
OrdersReachOutput ==
  \A k \in 1..MaxRecords :
    (k <= Len(topic) /\ topic[k].kind = "order")
      ~> k \in DOMAIN topic /\ \E j \in DOMAIN output : output[j][1] = topic[k].merchant /\ output[j][2] = topic[k].window
=============================================================================
