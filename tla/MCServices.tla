------------------------------ MODULE MCServices ------------------------------
(* Small instances of the services of the examples. Services of different    *)
(* examples never interact: a behaviour is one of exactly one of them,       *)
(* chosen at the start, and the others rest in an initial state.             *)
EXTENDS Integers, Sequences, FiniteSets, TLC

CONSTANTS
  Requests,   \* of each service that is asked by several at once (12, 18, 21, 24)
  Pods, Clients, All, NumConnections, Targets, NumMessages, BufferSize,    \* 16
  PoolSize, DrainDelay, Graceful, DrainWait, GracePeriod,                  \* 21
  Quantities, InitialStock, MaxRestarts, MaxFailures,                      \* 02, 11, 18
  Ids, Limits,                                                             \* 02, pages
  Tenants, Acme, MaxRules,                                                 \* 24
  Callers, NoIdentity, BulkheadLimit, NumOrders,                           \* 12
  Queries, Stock, Skus, MaxOrders,                                         \* 03
  Calls, Kinds, MaxAttempts, FailMax, Successes, Bulkhead,                 \* 26
  Readers, Writers, Gets, Puts, MaxVersion, MaxRedisErrors,                \* 25
  Orders, Groups, Partitions, NoPartition, MaxRecords, MaxDuplicates,
  MaxLosses, MaxFaults                                                     \* 05

(* Requests are many, but not without end; a pod's grace period outlasts the *)
(* delay and uvicorn's timeout together (21, the manifest beside the code).  *)
ASSUME DrainAssumption ==
  /\ IsFiniteSet(Requests)
  /\ DrainDelay \in Nat /\ Graceful \in Nat /\ DrainWait \in Nat /\ GracePeriod \in Nat
  /\ DrainDelay + Graceful < GracePeriod

ASSUME OrderingAssumption ==
  /\ IsFiniteSet(Requests) /\ Quantities \subseteq Nat
  /\ InitialStock \in Nat /\ MaxRestarts \in Nat /\ MaxFailures \in Nat

ASSUME CachingAssumption ==
  /\ MaxVersion \in Nat \ {0} /\ MaxRedisErrors \in Nat
  /\ Gets \subseteq {"ca", "rt", "wt", "ra"} /\ Puts \subseteq {"ca", "wt"}

ASSUME PipelineAssumption ==
  /\ IsFiniteSet(Partitions) /\ NoPartition \notin Partitions
  /\ MaxRecords \in Nat \ {0}
  /\ MaxDuplicates \in Nat /\ MaxLosses \in Nat /\ MaxFaults \in Nat

ASSUME EdgeAssumption ==
  /\ IsFiniteSet(Calls)
  /\ MaxAttempts \in Nat \ {0} /\ FailMax \in Nat /\ Successes \in Nat /\ Bulkhead \in Nat

ASSUME BulkheadsAssumption == IsFiniteSet(Requests) /\ BulkheadLimit \in Nat

ASSUME WebSocketsAssumption ==
  /\ NumConnections \in Nat /\ NumMessages \in Nat /\ BufferSize \in Nat \ {0}
  /\ Targets \subseteq Clients \cup {All}

ASSUME PagesAssumption == IsFiniteSet(Ids) /\ Ids \subseteq Nat \ {0} /\ Limits \subseteq Nat

VARIABLE service   \* the one that runs

-------------------------------------------------------------------------------
(* Example 16: two pods, one client that reconnects.                         *)
VARIABLES clients, seq_counters, message_buffers, place, link, missed, inbox,
          lastSeq, sent, channel, local, todo

websockets == <<clients, seq_counters, message_buffers, place, link, missed,
                inbox, lastSeq, sent, channel, local, todo>>
WS == INSTANCE WebSockets

-------------------------------------------------------------------------------
(* Example 21: three requests around one SIGTERM.                            *)
VARIABLES shutting_down, drainIn_flight, server, pool, drainAge, since,
          handler, drainOrders, drainAnswer

drain == <<shutting_down, drainIn_flight, server, pool, drainAge, since,
           handler, drainOrders, drainAnswer>>
DR == INSTANCE Drain WITH
  in_flight <- drainIn_flight, age <- drainAge, orders <- drainOrders,
  answer <- drainAnswer

-------------------------------------------------------------------------------
(* Examples 02, 11, 18: three orders that compete for a stock of three.      *)
VARIABLES edition, fail_mode, stock, epoch, order, rows, events,
          orderingAnswer, failures

ordering == <<edition, fail_mode, stock, epoch, order, rows, events,
              orderingAnswer, failures>>
ST == INSTANCE Stock WITH answer <- orderingAnswer
orderingRests ==
  /\ edition = "02"

-------------------------------------------------------------------------------
(* Example 02: pages of up to two of five orders.                            *)
VARIABLES placed, limit, first, after, seen, walk

orderpages == <<placed, limit, first, after, seen, walk>>
OP == INSTANCE OrderPages
orderpagesRests ==
  /\ placed = {}
  /\ limit = 0

-------------------------------------------------------------------------------
(* Example 24, router: two tenants, one change of the rules.                 *)
VARIABLES routes, stranglerOrders, stranglerRequest, moved, changes

strangler == <<routes, stranglerOrders, stranglerRequest, moved, changes>>
SR == INSTANCE Strangler WITH
  orders <- stranglerOrders, request <- stranglerRequest

-------------------------------------------------------------------------------
(* Example 12: two tenants with one permit each.                             *)
VARIABLES bulkheadsIn_flight, bulkheadsOrders, bulkheadsRequest

bulkheads == <<bulkheadsIn_flight, bulkheadsOrders, bulkheadsRequest>>
TO == INSTANCE TenantOrders WITH
  in_flight <- bulkheadsIn_flight, orders <- bulkheadsOrders,
  request <- bulkheadsRequest

-------------------------------------------------------------------------------
(* Example 03: two queries over up to three orders.                          *)
Available == [sku \in {"s1", "s2"} |-> IF sku = "s1" THEN 5 ELSE 7]   \* for Stock

VARIABLES gatewayOrders, query, loader, calls

gateway == <<gatewayOrders, query, loader, calls>>
GW == INSTANCE Gateway WITH orders <- gatewayOrders
gatewayRests ==
  /\ gatewayOrders = <<>>

-------------------------------------------------------------------------------
(* Example 26: two requests to any of the six endpoints.                     *)
VARIABLES mode, breaker, cooled, edgeRequest

edge == <<mode, breaker, cooled, edgeRequest>>
EG == INSTANCE Edge WITH Requests <- Calls, request <- edgeRequest

-------------------------------------------------------------------------------
(* Example 25: two readers and two writers of one row.                       *)
VARIABLES version, cache, cachingAge, hot, get, put, refresher, answered,
          lapsed, redisErrors

caching == <<version, cache, cachingAge, hot, get, put, refresher, answered,
             lapsed, redisErrors>>
PC == INSTANCE ProductCache WITH age <- cachingAge

-------------------------------------------------------------------------------
(* Example 05: three orders, two partitions, one group.                      *)
VARIABLES pipelineRequest, pipelineOrders, buffer, topic, committed, position,
          cursor, tp, consumer, table, duplicates, losses, faults

pipeline == <<pipelineRequest, pipelineOrders, buffer, topic, committed,
              position, cursor, tp, consumer, table, duplicates, losses, faults>>
OE == INSTANCE OrderEvents WITH
  request <- pipelineRequest, orders <- pipelineOrders

-------------------------------------------------------------------------------
vars == <<service, websockets, drain, ordering, orderpages, strangler, bulkheads,
         gateway, edge, caching, pipeline>>

Init ==
  /\ service \in {"websockets", "drain", "ordering", "orderpages", "strangler",
               "bulkheads", "gateway", "edge", "caching", "pipeline"}
  /\ service = "ordering" \/ orderingRests
  /\ service = "orderpages" \/ orderpagesRests
  /\ service = "gateway" \/ gatewayRests
  /\ WS!Init /\ DR!Init /\ ST!Init /\ OP!Init /\ SR!Init
  /\ TO!Init /\ GW!Init /\ EG!Init /\ PC!Init /\ OE!Init

Next ==
  \/ /\ service = "websockets" /\ WS!Next
     /\ UNCHANGED <<service, drain, ordering, orderpages, strangler, bulkheads, gateway,
                   edge, caching, pipeline>>
  \/ /\ service = "drain" /\ DR!Next
     /\ UNCHANGED <<service, websockets, ordering, orderpages, strangler, bulkheads,
                   gateway, edge, caching, pipeline>>
  \/ /\ service = "ordering" /\ ST!Next
     /\ UNCHANGED <<service, websockets, drain, orderpages, strangler, bulkheads,
                   gateway, edge, caching, pipeline>>
  \/ /\ service = "orderpages" /\ OP!Next
     /\ UNCHANGED <<service, websockets, drain, ordering, strangler, bulkheads, gateway,
                   edge, caching, pipeline>>
  \/ /\ service = "strangler" /\ SR!Next
     /\ UNCHANGED <<service, websockets, drain, ordering, orderpages, bulkheads, gateway,
                   edge, caching, pipeline>>
  \/ /\ service = "bulkheads" /\ TO!Next
     /\ UNCHANGED <<service, websockets, drain, ordering, orderpages, strangler, gateway,
                   edge, caching, pipeline>>
  \/ /\ service = "gateway" /\ GW!Next
     /\ UNCHANGED <<service, websockets, drain, ordering, orderpages, strangler,
                   bulkheads, edge, caching, pipeline>>
  \/ /\ service = "edge" /\ EG!Next
     /\ UNCHANGED <<service, websockets, drain, ordering, orderpages, strangler,
                   bulkheads, gateway, caching, pipeline>>
  \/ /\ service = "caching" /\ PC!Next
     /\ UNCHANGED <<service, websockets, drain, ordering, orderpages, strangler,
                   bulkheads, gateway, edge, pipeline>>
  \/ /\ service = "pipeline" /\ OE!Next
     /\ UNCHANGED <<service, websockets, drain, ordering, orderpages, strangler,
                   bulkheads, gateway, edge, caching>>

Spec == Init /\ [][Next]_vars

-------------------------------------------------------------------------------
(* The variables of every service keep their shape.                          *)
TypeOK ==
  /\ service = "websockets" => WS!TypeOK
  /\ service = "drain" => DR!TypeOK
  /\ service = "ordering" => ST!TypeOK
  /\ service = "edge" => EG!TypeOK
  /\ service = "caching" => PC!TypeOK
  /\ service = "pipeline" => OE!TypeOK

(* A websocket pod's buffers have no gap, no client receives a frame twice.   *)
FramesInOrder == service = "websockets" => WS!FramesInOrder

(* The shutdown answers truly, waits for open requests and exits in time.    *)
OrderlyShutdown == service = "drain" => DR!OrderlyShutdown

(* No process gives away more than its stock, stock that was taken belongs   *)
(* to an order or a failed request, events speak of stored orders.           *)
StockAccountedFor == service = "ordering" => ST!StockAccountedFor

(* No PUT leaves an entry of its pattern that was there before it, but for a *)
(* race with a GET or an error of Redis.                                     *)
PutsReachTheirEntry == service = "caching" => PC!PutsReachTheirEntry

(* Nothing is shipped for an order that is not stored, and a fault costs at  *)
(* most the messages of one batch after the first.                           *)
PipelineKeepsOrders == service = "pipeline" => OE!PipelineKeepsOrders

(* Limits are exact under races and cancellations: calls through a bulkhead  *)
(* never exceed its size (26), a tenant uses no more than its permits (12),  *)
(* and a tenant with a free permit gets it, whoever else fills his.          *)
LimitsHold ==
  /\ [](service = "edge" => EG!BulkheadHolds)
  /\ [](service = "bulkheads" => TO!PermitsExact)
  /\ TO!RefusedByOwnRequests

(* What a client reads is complete: pages show each order once and miss none *)
(* (02), a tenant that was never moved reads its own orders (24), a composed *)
(* answer shows each order with the stock of its own sku (03).               *)
AnswersComplete ==
  /\ service = "orderpages" => OP!PagesAreComplete
  /\ service = "strangler" => SR!OwnOrderIsRead
  /\ service = "gateway" => GW!ComposedRight
===============================================================================
