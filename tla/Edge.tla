--------------------------------- MODULE Edge ---------------------------------
(* Example 26: an edge service that calls one backend in six ways, each with *)
(* its own protection: none, a timeout, retries, a circuit breaker, a        *)
(* deadline, a bulkhead.  The backend's mode is switched while calls are out. *)
(* Breaker and bulkhead are shared by the requests of their endpoint.        *)
EXTENDS Naturals, FiniteSets

CONSTANTS
  Requests,
  Kinds,        \* bound: the endpoints that are called
  MaxAttempts,  \* stop_after_attempt
  FailMax,      \* fail_max of the breaker
  Successes,    \* success_threshold
  Bulkhead      \* BULKHEAD

Modes == {"healthy", "slow", "failing", "flaky"}
(* What is left of a caller's budget: less than 50 ms, less than 100, less   *)
(* than the five seconds of a slow call, or more.                            *)
Budgets == {"none", "small", "short", "long"}

VARIABLES
  mode,       \* of the backend
  breaker,    \* [state, fail_counter, successes]
  cooled,     \* reset_timeout has passed since the breaker opened
  request     \* [request]: [kind, pc, attempts, entered, budget, answer]

vars == <<mode, breaker, cooled, request>>

Idle == [kind |-> "none", pc |-> "idle", attempts |-> 0, entered |-> "closed", budget |-> "long", answer |-> ""]

Init ==
  /\ mode = "healthy" /\ cooled = FALSE
  /\ breaker = [state |-> "closed", fail_counter |-> 0, successes |-> 0]
  /\ request = [r \in Requests |-> Idle]

Calling(kind) == {r \in Requests : request[r].kind = kind /\ request[r].pc = "call"}
Call(r, kind, entered, budget) ==
  request' = [request EXCEPT ![r] = [Idle EXCEPT !.kind = kind, !.pc = "call", !.attempts = 1,
                                                 !.entered = entered, !.budget = budget]]
Answer(r, kind, answer) ==
  request' = [request EXCEPT ![r] = [@ EXCEPT !.kind = kind, !.pc = "done", !.answer = answer]]

-----------------------------------------------------------------------------
(* The endpoints up to the call.                                             *)

NoProtection(r, kind) ==
  /\ kind \in {"no-timeout", "timeout", "retry"} /\ Call(r, kind, "closed", "long")
  /\ UNCHANGED <<breaker, cooled>>

(* breaker.calling(): refused while open, a trial call once it has cooled.   *)
WithBreaker(r) ==
  \/ /\ breaker.state = "open" /\ ~cooled
     /\ Answer(r, "breaker", "circuit_open") /\ UNCHANGED <<breaker, cooled>>
  \/ /\ breaker.state = "open" /\ cooled
     /\ breaker' = [breaker EXCEPT !.state = "half-open", !.successes = 0]
     /\ Call(r, "breaker", "half-open", "long") /\ UNCHANGED cooled
  \/ /\ breaker.state # "open"
     /\ Call(r, "breaker", breaker.state, "long") /\ UNCHANGED <<breaker, cooled>>

WithDeadline(r) ==
  /\ \E budget \in Budgets :
       IF budget = "none" THEN Answer(r, "deadline", "insufficient") ELSE Call(r, "deadline", "closed", budget)
  /\ UNCHANGED <<breaker, cooled>>

(* Mutant: one call too many.                                                *)
WithBulkhead_OffByOne(r) ==
  /\ IF Cardinality(Calling("bulkhead")) > Bulkhead
       THEN Answer(r, "bulkhead", "429") ELSE Call(r, "bulkhead", "closed", "long")
  /\ UNCHANGED <<breaker, cooled>>

(* Between the test of the semaphore and taking it there is no await.        *)
WithBulkhead(r) ==
  /\ IF Cardinality(Calling("bulkhead")) = Bulkhead
       THEN Answer(r, "bulkhead", "429") ELSE Call(r, "bulkhead", "closed", "long")
  /\ UNCHANGED <<breaker, cooled>>

Arrive(r, kind) ==
  /\ request[r].pc = "idle"
  /\ \/ NoProtection(r, kind)
     \/ kind = "breaker" /\ WithBreaker(r)
     \/ kind = "deadline" /\ WithDeadline(r)
     \/ kind = "bulkhead" /\ WithBulkhead(r)
  /\ UNCHANGED mode

-----------------------------------------------------------------------------
(* The backend, and what a call makes of it.                                 *)

(* process(): a deadline that is too small is refused in every mode.         *)
Process(budget) ==
  IF budget = "small" THEN {"rejected"}
  ELSE CASE mode = "healthy" -> {"ok"}
         [] mode = "failing" -> {"500"}
         [] mode = "flaky" -> {"ok", "500"}
         [] mode = "slow" -> {"slow"}

Outcomes(r) ==
  LET patient == request[r].kind = "no-timeout" \/ (request[r].kind = "deadline" /\ request[r].budget = "long")
  IN  {IF o # "slow" THEN o ELSE IF patient THEN "ok" ELSE "timeout" : o \in Process(request[r].budget)}

(* Mutant: a refused attempt is not counted.                                 *)
Retry_NotCounted(r, outcome) ==
  IF outcome = "ok" THEN Answer(r, "retry", "ok")
  ELSE UNCHANGED request

Retry(r, outcome) ==
  IF outcome = "ok" THEN Answer(r, "retry", "ok")
  ELSE IF request[r].attempts = MaxAttempts THEN Answer(r, "retry", "retry-exhausted")
  ELSE request' = [request EXCEPT ![r].attempts = @ + 1]

(* A result counts in the state in which its call began: a late one, too.    *)
Failed(entered) ==
  LET counted == [breaker EXCEPT !.fail_counter = IF @ < FailMax THEN @ + 1 ELSE @] IN
  IF entered = "half-open" \/ counted.fail_counter = FailMax
    THEN breaker' = [counted EXCEPT !.state = "open"] /\ cooled' = FALSE
    ELSE breaker' = counted /\ UNCHANGED cooled
Succeeded(entered) ==
  /\ breaker' = IF entered = "half-open" /\ breaker.successes + 1 >= Successes
                  THEN [state |-> "closed", fail_counter |-> 0, successes |-> 0]
                  ELSE [breaker EXCEPT !.fail_counter = 0,
                                       !.successes = IF entered = "half-open" THEN @ + 1 ELSE @]
  /\ UNCHANGED cooled

(* Mutant: a 500 is an answer like any other (no raise_for_status).          *)
BreakerResult_StatusIgnored(r, outcome) ==
  /\ IF outcome = "timeout" THEN Failed(request[r].entered) ELSE Succeeded(request[r].entered)
  /\ Answer(r, "breaker", IF outcome = "timeout" THEN "fallback" ELSE "live")

BreakerResult(r, outcome) ==
  /\ IF outcome = "ok" THEN Succeeded(request[r].entered) ELSE Failed(request[r].entered)
  /\ Answer(r, "breaker", IF outcome = "ok" THEN "live" ELSE "fallback")

Result(r) ==
  /\ request[r].pc = "call"
  /\ \E outcome \in Outcomes(r) :
       CASE request[r].kind = "retry" -> Retry(r, outcome) /\ UNCHANGED <<breaker, cooled>>
         [] request[r].kind = "breaker" -> BreakerResult(r, outcome)
         [] OTHER -> Answer(r, request[r].kind, outcome) /\ UNCHANGED <<breaker, cooled>>
  /\ UNCHANGED mode

Leave(r) ==
  /\ request[r].pc = "done"
  /\ request' = [request EXCEPT ![r] = Idle]
  /\ UNCHANGED <<mode, breaker, cooled>>

SetMode(m) == mode' = m /\ m # mode /\ UNCHANGED <<breaker, cooled, request>>

Cool == breaker.state = "open" /\ ~cooled /\ cooled' = TRUE /\ UNCHANGED <<mode, breaker, request>>

Next ==
  \/ \E r \in Requests : (\E kind \in Kinds : Arrive(r, kind)) \/ Result(r) \/ Leave(r)
  \/ \E m \in Modes : SetMode(m)
  \/ Cool

Spec == Init /\ [][Next]_vars

(* Calls come back, time passes and clients of the breaker's endpoint return. *)
Fairness ==
  /\ \A r \in Requests : WF_vars(Result(r)) /\ WF_vars(Leave(r)) /\ SF_vars(Arrive(r, "breaker"))
  /\ WF_vars(Cool)
FairSpec == Spec /\ Fairness

-----------------------------------------------------------------------------
TypeOK ==
  /\ mode \in Modes /\ cooled \in BOOLEAN
  /\ breaker.state \in {"closed", "open", "half-open"}
  /\ breaker.fail_counter \in 0..FailMax /\ breaker.successes \in 0..Successes
  /\ \A r \in Requests : request[r].attempts \in 0..MaxAttempts

(* The bulkhead holds exactly: the calls through it never exceed its size,   *)
(* and what the semaphore has left is what they leave.                       *)
BulkheadHolds == Cardinality(Calling("bulkhead")) <= Bulkhead

(* The endpoints that bound their work end it, in whatever mode the backend  *)
(* is and however often that changes: three attempts, then an answer.        *)
CallsEnd == \A r \in Requests : (request[r].pc = "call") ~> (request[r].pc = "done")

(* A backend that stays bad keeps tripping the breaker and never gets it     *)
(* closed again; one that stays well has it closed for good - although late  *)
(* results of older calls count, too.                                        *)
BreakerFollowsBackend ==
  /\ <>[](mode = "failing") => <>[](breaker.state # "closed") /\ []<>(breaker.state = "open")
  /\ <>[](mode = "healthy") => <>[](breaker.state = "closed")
=============================================================================
