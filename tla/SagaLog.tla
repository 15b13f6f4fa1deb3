------------------------------ MODULE SagaLog ------------------------------
(* What every edition of the saga orchestrator shares: the steps of a saga, *)
(* the values of sagas.status, and the rows of saga_log with the shapes a   *)
(* saga's log can have.                                                     *)
EXTENDS Naturals, Sequences

CONSTANTS
  NumSteps,     \* len(STEPS)
  FailingStep   \* the step that raises when the saga asks it to (book_shipping)

ASSUME NumStepsAssumption == NumSteps \in Nat
ASSUME FailingStepAssumption == FailingStep \in 1..NumSteps

Steps == 1..NumSteps
Statuses == {"none", "RUNNING", "COMPENSATING", "COMPLETED", "COMPENSATED"}
GoingForward == {"none", "RUNNING", "COMPLETED"}
Unwinding == {"COMPENSATING", "COMPENSATED"}
Terminal == {"COMPLETED", "COMPENSATED"}

\* A row of saga_log: the action and the step it was for.
Entry(act, i) == [action |-> act, step |-> i]
Entries == [action : {"execute", "failed", "compensate"}, step : Steps]
Compensations(k) == {Entry("compensate", i) : i \in 1..k}

\* A log of k committed steps, in order and once each.
ForwardLog(l, k) ==
  /\ Len(l) = k
  /\ \A j \in 1..k : l[j] = Entry("execute", j)

\* A log of k committed steps, the failure of the next and compensations.
UnwindLog(l, k) ==
  /\ Len(l) > k
  /\ \A j \in 1..k : l[j] = Entry("execute", j)
  /\ l[k + 1] = Entry("failed", k + 1)
  /\ \A j \in k + 2 .. Len(l) : l[j] \in Compensations(k)

\* After the k steps and the failure: at most one compensation of each step,
\* the last step first.
ReverseLog(l, k) ==
  /\ Len(l) <= 2 * k + 1
  /\ \A j \in k + 2 .. Len(l) : l[j] = Entry("compensate", 2 * k + 2 - j)
=============================================================================
