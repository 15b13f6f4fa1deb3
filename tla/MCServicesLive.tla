---------------------------- MODULE MCServicesLive ----------------------------
(* The services again, where something must happen in the end: small         *)
(* instances, one of them in each behaviour, as in MCServices.               *)
EXTENDS Integers, Sequences, FiniteSets, TLC

CONSTANTS
  Requests, MaxOrders, MaxFailures,              \* 24, decorator
  Merchants, Windows, MaxRecords, MaxCrashes,    \* 06
  Orders, Cancels                                \* 04, 19, 28

ASSUME DecoratorAssumption == IsFiniteSet(Requests) /\ MaxOrders \in Nat /\ MaxFailures \in Nat
ASSUME RevenuesAssumption == MaxRecords \in Nat /\ MaxCrashes \in Nat
ASSUME StoringAssumption == IsFiniteSet(Cancels)

VARIABLE service   \* the one that runs

-------------------------------------------------------------------------------
(* Example 05: two orders, two partitions, one group.                        *)
VARIABLES pipelineRequest, orders, buffer, pipelineTopic, pipelineCommitted,
          pipelinePosition, cursor, tp, consumer, table, duplicates, losses,
          faults

pipeline == <<pipelineRequest, orders, buffer, pipelineTopic,
              pipelineCommitted, pipelinePosition, cursor, tp, consumer, table,
              duplicates, losses, faults>>
OE == INSTANCE OrderEvents WITH
  Orders <- {"o1", "o2"}, Groups <- {"shipping"}, Partitions <- {"p1", "p2"},
  NoPartition <- "none", MaxRecords <- 2, MaxDuplicates <- 1, MaxLosses <- 1,
  MaxFaults <- 1, request <- pipelineRequest, topic <- pipelineTopic,
  committed <- pipelineCommitted, position <- pipelinePosition

-------------------------------------------------------------------------------
(* Example 25: one reader, one writer, the refresher.                        *)
VARIABLES version, cachingCache, age, hot, get, put, refresher, answered,
          lapsed, redisErrors

caching == <<version, cachingCache, age, hot, get, put, refresher, answered,
             lapsed, redisErrors>>
PC == INSTANCE ProductCache WITH
  Readers <- {"r1"}, Writers <- {"w1"}, Gets <- {"ca", "ra"},
  Puts <- {"ca", "wt"}, MaxVersion <- 2, MaxRedisErrors <- 1,
  cache <- cachingCache

-------------------------------------------------------------------------------
(* Example 16: two pods, two clients, one broadcast.                         *)
VARIABLES clients, seq_counters, message_buffers, place, link, missed, inbox,
          lastSeq, sent, channel, local, todo

websockets == <<clients, seq_counters, message_buffers, place, link, missed,
                inbox, lastSeq, sent, channel, local, todo>>
WS == INSTANCE WebSockets WITH
  Pods <- {"p1", "p2"}, Clients <- {"c1", "c2"}, All <- "all",
  NumConnections <- 2, Targets <- {"all"}, NumMessages <- 1, BufferSize <- 1

-------------------------------------------------------------------------------
(* Example 24, decorator: three requests, one order, one failure.            *)
VARIABLES counter, decoratorCache, decoratorRequest, published_events,
          decoratorTopic, failures

decorator == <<counter, decoratorCache, decoratorRequest, published_events,
               decoratorTopic, failures>>
DC == INSTANCE Decorator WITH
  cache <- decoratorCache, request <- decoratorRequest, topic <- decoratorTopic

-------------------------------------------------------------------------------
(* Example 06: one merchant, two records, one crash.                         *)
VARIABLES stored, revenuesTopic, grouped, revenuesPosition, revenuesCommitted,
          revenue, emitting, output, crashes

revenues == <<stored, revenuesTopic, grouped, revenuesPosition,
              revenuesCommitted, revenue, emitting, output, crashes>>
RS == INSTANCE RevenueStream WITH
  topic <- revenuesTopic, position <- revenuesPosition,
  committed <- revenuesCommitted

-------------------------------------------------------------------------------
(* Example 26: two requests.                                                 *)
VARIABLES mode, breaker, cooled, edgeRequest

edge == <<mode, breaker, cooled, edgeRequest>>
EG == INSTANCE Edge WITH
  Requests <- {"r1", "r2"}, Kinds <- {"breaker", "retry"}, MaxAttempts <- 3,
  FailMax <- 2, Successes <- 2, Bulkhead <- 1, request <- edgeRequest

-------------------------------------------------------------------------------
(* Examples 04, 19, 28: two orders, two cancellations, one failure.          *)
VARIABLES edition, pc, rows, outbox, relayed, answers, failed

storing == <<edition, pc, rows, outbox, relayed, answers, failed>>
OC == INSTANCE OrderCrud
storingRests ==
  /\ edition = "04"

-------------------------------------------------------------------------------
vars == <<service, pipeline, caching, websockets, decorator, revenues, edge, storing>>

Init ==
  /\ service \in {"pipeline", "caching", "websockets", "decorator", "revenues",
               "edge", "storing"}
  /\ service = "storing" \/ storingRests
  /\ OE!Init /\ PC!Init /\ WS!Init /\ DC!Init
  /\ RS!Init /\ EG!Init /\ OC!Init

Next ==
  \/ /\ service = "pipeline" /\ OE!Next
     /\ UNCHANGED <<service, caching, websockets, decorator, revenues, edge, storing>>
  \/ /\ service = "caching" /\ PC!Next
     /\ UNCHANGED <<service, pipeline, websockets, decorator, revenues, edge, storing>>
  \/ /\ service = "websockets" /\ WS!Next
     /\ UNCHANGED <<service, pipeline, caching, decorator, revenues, edge, storing>>
  \/ /\ service = "decorator" /\ DC!Next
     /\ UNCHANGED <<service, pipeline, caching, websockets, revenues, edge, storing>>
  \/ /\ service = "revenues" /\ RS!Next
     /\ UNCHANGED <<service, pipeline, caching, websockets, decorator, edge, storing>>
  \/ /\ service = "edge" /\ EG!Next
     /\ UNCHANGED <<service, pipeline, caching, websockets, decorator, revenues, storing>>
  \/ /\ service = "storing" /\ OC!Next
     /\ UNCHANGED <<service, pipeline, caching, websockets, decorator, revenues, edge>>

Spec == Init /\ [][Next]_vars

(* What was accepted is worked on, brokers, caches and timers go on; see the *)
(* Fairness of each module.                                                  *)
Fairness ==
  /\ \A o \in {"o1", "o2"} :
       /\ WF_pipeline(service = "pipeline" /\ OE!SendEvent(o))
       /\ WF_pipeline(service = "pipeline" /\ \E p \in {"p1", "p2"} : OE!Deliver(o, p))
  /\ WF_pipeline(service = "pipeline" /\ OE!Consume("shipping"))
  /\ WF_caching(service = "caching" /\ PC!GoOn("r1"))
  /\ WF_caching(service = "caching" /\ PC!Finish("w1"))
  /\ WF_caching(service = "caching" /\ PC!Refresh)
  /\ \A k \in {"ca", "rt", "wt", "ra"} : WF_caching(service = "caching" /\ PC!Lifetime(k))
  /\ WF_websockets(service = "websockets" /\ WS!SendLocal(1))
  /\ \A p \in {"p1", "p2"} : WF_websockets(service = "websockets" /\ WS!Listen(p)) /\ WF_websockets(service = "websockets" /\ WS!SendNext(1, p))
  /\ \A i \in 1..MaxOrders : WF_decorator(service = "decorator" /\ DC!Expire(i))
  /\ \A r \in Requests : WF_decorator(service = "decorator" /\ DC!AskLegacy(r)) /\ WF_decorator(service = "decorator" /\ DC!Fill(r))
  /\ WF_revenues(service = "revenues" /\ RS!GroupBy)
  /\ WF_revenues(service = "revenues" /\ RS!Aggregate)
  /\ WF_revenues(service = "revenues" /\ RS!Skip)
  /\ WF_revenues(service = "revenues" /\ RS!Emit)
  /\ \A r \in {"r1", "r2"} :
       /\ WF_edge(service = "edge" /\ EG!Result(r)) /\ WF_edge(service = "edge" /\ EG!Leave(r))
       /\ SF_edge(service = "edge" /\ EG!Arrive(r, "breaker"))
  /\ WF_edge(service = "edge" /\ EG!Cool)
  /\ \A o \in Orders : WF_storing(service = "storing" /\ OC!Relay(o)) /\ WF_storing(service = "storing" /\ OC!CommitBoth(o))

FairSpec == Spec /\ Fairness

-------------------------------------------------------------------------------
(* Events and figures agree with the orders: an order placed by the decorator *)
(* has one event unless its request is open or met a failure (24), an event  *)
(* speaks of a stored order and in 04 each order has one with it, one client *)
(* only is told that it cancelled (28), no processed order is missing from   *)
(* its window, and published figures only grow (06).                         *)
EventsAgreeWithOrders ==
  /\ service = "decorator" => DC!EventPerOrder
  /\ service = "storing" => OC!EventIffOrder /\ OC!CancelledOnce
  /\ service = "revenues" => RS!WindowsComplete /\ RS!FiguresGrow

(* What was accepted arrives: without a fault every order answered 201        *)
(* reaches the group (05), every order sent to the stream is in a published  *)
(* figure in the end (06), and no stored order stays without its event (04). *)
RecordsArrive ==
  /\ OE!AnsweredOrdersReachEveryGroup
  /\ RS!OrdersReachOutput
  /\ OC!OutboxDelivered

(* Once the updates are over no entry stays stale (25), and "no such order"  *)
(* hides an order only until its entry expires (24).                         *)
StaleCopiesHeal == PC!StalenessHeals /\ DC!StubExpires

(* A message reaches each client registered at the pod, as long as its       *)
(* connection lasts and stays registered.                                    *)
ConnectedClientsHear == WS!ConnectedClientsHear

(* Every call ends, whatever the backend does meanwhile; a backend that stays *)
(* bad keeps the breaker from closing, one that stays well has it closed.    *)
CallsSettle == EG!CallsEnd /\ EG!BreakerFollowsBackend
===============================================================================
