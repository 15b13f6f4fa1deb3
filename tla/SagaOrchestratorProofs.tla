----------------------- MODULE SagaOrchestratorProofs -----------------------
(***************************************************************************)
(* Proofs about the Python saga orchestrator, for any number of sagas,     *)
(* steps, crashes and failing statements.  The first part holds for any    *)
(* number of processes; what relies on there being one says so.            *)
(***************************************************************************)
EXTENDS SagaOrchestrator, TLAPS

----------------------------------------------------------------------------
(* What appending a row does to the shape of a saga's log.                  *)

\* Log rows of different steps differ.
LEMMA EntryInjective ==
  ASSUME NEW i, NEW j, NEW act, Entry(act, i) = Entry(act, j)
  PROVE  i = j
<1>1. Entry(act, i).step = i /\ Entry(act, j).step = j
  BY DEF Entry
<1>2. QED
  BY <1>1

\* A committed step extends the forward log by one.
LEMMA AppendExecute ==
  ASSUME NEW k \in Nat, NEW l \in Seq(Entries), ForwardLog(l, k)
  PROVE  ForwardLog(Append(l, Entry("execute", k + 1)), k + 1)
  BY DEF ForwardLog

\* The failure of a step turns the forward log into an unwinding one, with
\* nothing compensated yet.
LEMMA AppendFailed ==
  ASSUME NEW k \in Nat, NEW l \in Seq(Entries), ForwardLog(l, k)
  PROVE  LET m == Append(l, Entry("failed", k + 1)) IN
         UnwindLog(m, k) /\ ReverseLog(m, k) /\ Len(m) = k + 1
  BY DEF ForwardLog, UnwindLog, ReverseLog

\* The compensation of a committed step keeps an unwinding log one.
LEMMA AppendCompensate ==
  ASSUME NEW k \in Nat, NEW l \in Seq(Entries), UnwindLog(l, k), NEW i \in 1..k
  PROVE  UnwindLog(Append(l, Entry("compensate", i)), k)
  BY DEF UnwindLog, Compensations

\* Compensating the highest step that is left keeps the order reversed.
LEMMA AppendReverse ==
  ASSUME NEW k \in Nat, NEW l \in Seq(Entries), ReverseLog(l, k),
         NEW i \in 1..k, Len(l) = 2 * k + 1 - i
  PROVE  LET m == Append(l, Entry("compensate", i)) IN
         ReverseLog(m, k) /\ Len(m) = 2 * k + 1 - (i - 1)
<1> DEFINE e == Entry("compensate", i)
           m == Append(l, e)
<1>1. Len(m) = Len(l) + 1 /\ m[Len(l) + 1] = e
  OBVIOUS
<1>2. \A j \in 1..Len(l) : m[j] = l[j]
  OBVIOUS
<1>3. \A j \in k + 2 .. Len(l) : l[j] = Entry("compensate", 2 * k + 2 - j)
  BY DEF ReverseLog
<1>4. ASSUME NEW j \in k + 2 .. Len(m)
      PROVE  m[j] = Entry("compensate", 2 * k + 2 - j)
  <2>1. CASE j = Len(l) + 1
    <3>1. 2 * k + 2 - j = i
      BY <2>1
    <3>2. QED
      BY <1>1, <2>1, <3>1
  <2>2. CASE j # Len(l) + 1
    <3>1. j \in k + 2 .. Len(l) /\ j \in 1..Len(l)
      BY <1>1, <2>2
    <3>2. QED
      BY <1>2, <1>3, <3>1
  <2>3. QED
    BY <2>1, <2>2
<1>5. Len(m) = 2 * k + 1 - (i - 1)
  BY <1>1
<1>6. QED
  BY <1>1, <1>4, <1>5 DEF ReverseLog

----------------------------------------------------------------------------
(* The inductive invariant.                                                 *)

\* What a driver's program counter says of the row it works on.
DriverInv ==
  \A p \in Processes, s \in Sagas :
    /\ pc[p][s] \in InTransaction => lock[s] = p /\ status[s] = "RUNNING"
    /\ pc[p][s] = "executed" => step_index[s] < NumSteps
    /\ pc[p][s] \in {"comp", "undo", "sent"} => status[s] \in Unwinding
    /\ pc[p][s] \in {"undo", "sent"} => left[p][s] <= step_index[s]
    /\ pc[p][s] = "sent" => left[p][s] > 0

\* INSERT INTO sagas starts at step 0.
FreshRow == \A s \in Sagas : status[s] = "none" => step_index[s] = 0

LogInv == FreshRow /\ ForwardLogExact /\ UnwindsOnlyCommitted

\* The command of a committed step, and of one about to commit, was sent.
CommandsSent ==
  \A s \in Sagas :
    /\ \A i \in 1..step_index[s] : done[s][i] > 0
    /\ \A p \in Processes :
         pc[p][s] = "executed" => done[s][step_index[s] + 1] > 0

EffectInv == CommandsSent /\ UndoFollowsDo

IInv == TypeOK /\ DriverInv /\ LogInv /\ EffectInv

----------------------------------------------------------------------------
\* Every action keeps the type invariant.
LEMMA TypeStep ==
  ASSUME TypeOK, DriverInv, [Next]_vars
  PROVE  TypeOK'
<1> USE NumStepsAssumption, BoundsAssumption, FailingStepAssumption
<1> USE DEF TypeOK, PCs, Statuses, Steps, row, InTransaction, Goto, faults, effects
<1>1. CASE UNCHANGED vars
  BY <1>1 DEF vars
<1>2. ASSUME NEW p \in Processes, Boot(p)
      PROVE  TypeOK'
  BY <1>2 DEF Boot
<1>3. ASSUME NEW p \in Processes, StartServing(p)
      PROVE  TypeOK'
  BY <1>3 DEF StartServing
<1>4. ASSUME NEW p \in Processes, Crash(p)
      PROVE  TypeOK'
  <2>1. lock' \in [Sagas -> Processes \cup {NoProc}]
    BY <1>4 DEF Crash, Stop, Freed
  <2>2. crashes' \in 0..MaxCrashes
    BY <1>4 DEF Crash
  <2>3. QED
    BY <1>4, <2>1, <2>2 DEF Crash, Stop
<1>5. ASSUME NEW p \in Processes, NEW s \in Sagas, ResumeNext(p, s)
      PROVE  TypeOK'
  BY <1>5 DEF ResumeNext
<1>6. ASSUME NEW p \in Processes, NEW s \in Sagas, CreateSaga(p, s)
      PROVE  TypeOK'
  BY <1>6 DEF CreateSaga
<1>7. ASSUME NEW p \in Processes, NEW s \in Sagas, FindNotRunning(p, s)
      PROVE  TypeOK'
  BY <1>7 DEF FindNotRunning
<1>8. ASSUME NEW p \in Processes, NEW s \in Sagas, LockRow(p, s)
      PROVE  TypeOK'
  BY <1>8 DEF LockRow
<1>9. ASSUME NEW p \in Processes, NEW s \in Sagas, CompleteSaga(p, s)
      PROVE  TypeOK'
  BY <1>9 DEF CompleteSaga
<1>10. ASSUME NEW p \in Processes, NEW s \in Sagas, ExecuteStep(p, s)
      PROVE  TypeOK'
  <2>1. step_index[s] + 1 \in Steps
    BY <1>10 DEF ExecuteStep, AllDone
  <2>2. [done[s] EXCEPT ![step_index[s] + 1] = done[s][step_index[s] + 1] + 1] \in [Steps -> Nat]
    BY <2>1
  <2>3. done' \in [Sagas -> [Steps -> Nat]]
    BY <1>10, <2>2 DEF ExecuteStep
  <2>4. QED
    BY <1>10, <2>3 DEF ExecuteStep
<1>11. ASSUME NEW p \in Processes, NEW s \in Sagas, CommitStep(p, s)
      PROVE  TypeOK'
  <2>1. step_index[s] + 1 \in Steps
    BY <1>11 DEF CommitStep, DriverInv
  <2>2. Entry("execute", step_index[s] + 1) \in Entries
    BY <2>1 DEF Entry, Entries
  <2>3. Append(log[s], Entry("execute", step_index[s] + 1)) \in Seq(Entries)
    BY <2>2
  <2>4. log' \in [Sagas -> Seq(Entries)]
    BY <1>11, <2>3 DEF CommitStep
  <2>5. step_index' \in [Sagas -> 0..NumSteps]
    BY <1>11, <2>1 DEF CommitStep
  <2>6. QED
    BY <1>11, <2>4, <2>5 DEF CommitStep
<1>12. ASSUME NEW p \in Processes, NEW s \in Sagas, FailStep(p, s)
      PROVE  TypeOK'
  <2>1. step_index[s] + 1 \in Steps
    BY <1>12 DEF FailStep, AllDone
  <2>2. Entry("failed", step_index[s] + 1) \in Entries
    BY <2>1 DEF Entry, Entries
  <2>3. log' \in [Sagas -> Seq(Entries)]
    BY <1>12, <2>2 DEF FailStep
  <2>4. QED
    BY <1>12, <2>3 DEF FailStep
<1>13. ASSUME NEW p \in Processes, NEW s \in Sagas, CheckStatus(p, s)
      PROVE  TypeOK'
  BY <1>13 DEF CheckStatus
<1>14. ASSUME NEW p \in Processes, NEW s \in Sagas, StartCompensation(p, s)
      PROVE  TypeOK'
  BY <1>14 DEF StartCompensation
<1>15. ASSUME NEW p \in Processes, NEW s \in Sagas, SendCompensation(p, s)
      PROVE  TypeOK'
  <2>1. left[p][s] \in Steps
    BY <1>15 DEF SendCompensation
  <2>2. [undone[s] EXCEPT ![left[p][s]] = undone[s][left[p][s]] + 1] \in [Steps -> Nat]
    BY <2>1
  <2>3. undone' = [undone EXCEPT ![s] =
                   [undone[s] EXCEPT ![left[p][s]] = undone[s][left[p][s]] + 1]]
    BY <1>15 DEF SendCompensation
  <2>4. undone' \in [Sagas -> [Steps -> Nat]]
    BY <2>2, <2>3
  <2>5. QED
    BY <1>15, <2>4 DEF SendCompensation
<1>16. ASSUME NEW p \in Processes, NEW s \in Sagas, LogCompensation(p, s)
      PROVE  TypeOK'
  <2>1. left[p][s] \in Steps /\ left[p][s] - 1 \in 0..NumSteps
    BY <1>16 DEF LogCompensation, DriverInv
  <2>2. Entry("compensate", left[p][s]) \in Entries
    BY <2>1 DEF Entry, Entries
  <2>3. log' \in [Sagas -> Seq(Entries)]
    BY <1>16, <2>2 DEF LogCompensation
  <2>4. left' \in [Processes -> [Sagas -> 0..NumSteps]]
    BY <1>16, <2>1 DEF LogCompensation
  <2>5. QED
    BY <1>16, <2>3, <2>4 DEF LogCompensation
<1>17. ASSUME NEW p \in Processes, NEW s \in Sagas, FinishCompensation(p, s)
      PROVE  TypeOK'
  BY <1>17 DEF FinishCompensation
<1>18. ASSUME NEW p \in Processes, NEW s \in Sagas, RequestFails(p, s)
      PROVE  TypeOK'
  <2>1. lock' \in [Sagas -> Processes \cup {NoProc}]
    BY <1>18 DEF RequestFails
  <2>2. dbErrors' \in 0..MaxDbErrors
    BY <1>18 DEF RequestFails
  <2>3. QED
    BY <1>18, <2>1, <2>2 DEF RequestFails
<1>19. ASSUME NEW p \in Processes, NEW s \in Sagas, StartupFails(p, s)
      PROVE  TypeOK'
  <2>1. lock' \in [Sagas -> Processes \cup {NoProc}]
    BY <1>19 DEF StartupFails, Stop, Freed
  <2>2. dbErrors' \in 0..MaxDbErrors
    BY <1>19 DEF StartupFails
  <2>3. QED
    BY <1>19, <2>1, <2>2 DEF StartupFails, Stop
<1>20. QED
  BY <1>1, <1>2, <1>3, <1>4, <1>5, <1>6, <1>7, <1>8, <1>9, <1>10, <1>11, <1>12, <1>13, <1>14, <1>15, <1>16, <1>17, <1>18, <1>19
  DEF Next, Startup, Drive, Fault

\* The row lock keeps the drivers apart.
LEMMA DriverStep ==
  ASSUME TypeOK, DriverInv, [Next]_vars
  PROVE  DriverInv'
<1> USE NoProcAssumption, NumStepsAssumption
<1> USE DEF TypeOK, DriverInv, PCs, InTransaction, Unwinding, row, Goto, faults, effects, AllDone
<1>1. CASE UNCHANGED vars
  BY <1>1 DEF vars
<1>2. ASSUME NEW p \in Processes, Boot(p)
      PROVE  DriverInv'
  BY <1>2 DEF Boot
<1>3. ASSUME NEW p \in Processes, StartServing(p)
      PROVE  DriverInv'
  BY <1>3 DEF StartServing
<1>4. ASSUME NEW p \in Processes, Crash(p)
      PROVE  DriverInv'
  BY <1>4 DEF Crash, Stop, Freed
<1>5. ASSUME NEW p \in Processes, NEW s \in Sagas, ResumeNext(p, s)
      PROVE  DriverInv'
  BY <1>5 DEF ResumeNext
<1>6. ASSUME NEW p \in Processes, NEW s \in Sagas, CreateSaga(p, s)
      PROVE  DriverInv'
  BY <1>6 DEF CreateSaga
<1>7. ASSUME NEW p \in Processes, NEW s \in Sagas, FindNotRunning(p, s)
      PROVE  DriverInv'
  BY <1>7 DEF FindNotRunning
<1>8. ASSUME NEW p \in Processes, NEW s \in Sagas, LockRow(p, s)
      PROVE  DriverInv'
  BY <1>8 DEF LockRow
<1>9. ASSUME NEW p \in Processes, NEW s \in Sagas, CompleteSaga(p, s)
      PROVE  DriverInv'
  BY <1>9 DEF CompleteSaga
<1>10. ASSUME NEW p \in Processes, NEW s \in Sagas, ExecuteStep(p, s)
      PROVE  DriverInv'
  BY <1>10 DEF ExecuteStep
<1>11. ASSUME NEW p \in Processes, NEW s \in Sagas, CommitStep(p, s)
      PROVE  DriverInv'
  BY <1>11 DEF CommitStep
<1>12. ASSUME NEW p \in Processes, NEW s \in Sagas, FailStep(p, s)
      PROVE  DriverInv'
  BY <1>12 DEF FailStep
<1>13. ASSUME NEW p \in Processes, NEW s \in Sagas, CheckStatus(p, s)
      PROVE  DriverInv'
  BY <1>13 DEF CheckStatus
<1>14. ASSUME NEW p \in Processes, NEW s \in Sagas, StartCompensation(p, s)
      PROVE  DriverInv'
  BY <1>14 DEF StartCompensation
<1>15. ASSUME NEW p \in Processes, NEW s \in Sagas, SendCompensation(p, s)
      PROVE  DriverInv'
  BY <1>15 DEF SendCompensation
<1>16. ASSUME NEW p \in Processes, NEW s \in Sagas, LogCompensation(p, s)
      PROVE  DriverInv'
  BY <1>16 DEF LogCompensation
<1>17. ASSUME NEW p \in Processes, NEW s \in Sagas, FinishCompensation(p, s)
      PROVE  DriverInv'
  BY <1>17 DEF FinishCompensation
<1>18. ASSUME NEW p \in Processes, NEW s \in Sagas, RequestFails(p, s)
      PROVE  DriverInv'
  BY <1>18 DEF RequestFails
<1>19. ASSUME NEW p \in Processes, NEW s \in Sagas, StartupFails(p, s)
      PROVE  DriverInv'
  BY <1>19 DEF StartupFails, Stop, Freed
<1>20. QED
  BY <1>1, <1>2, <1>3, <1>4, <1>5, <1>6, <1>7, <1>8, <1>9, <1>10, <1>11, <1>12, <1>13, <1>14, <1>15, <1>16, <1>17, <1>18, <1>19
  DEF Next, Startup, Drive, Fault

\* Committed steps and compensations are recorded as they should be.
LEMMA LogStep ==
  ASSUME TypeOK, DriverInv, LogInv, [Next]_vars
  PROVE  LogInv'
<1> USE NumStepsAssumption
<1> USE DEF TypeOK, LogInv, FreshRow, ForwardLogExact, UnwindsOnlyCommitted,
           GoingForward, Unwinding, row
<1>1. CASE UNCHANGED <<row, log>>
  BY <1>1
<1>2. ASSUME NEW p \in Processes, NEW s \in Sagas, CreateSaga(p, s)
      PROVE  LogInv'
  BY <1>2 DEF CreateSaga
<1>3. ASSUME NEW p \in Processes, NEW s \in Sagas, CompleteSaga(p, s)
      PROVE  LogInv'
  BY <1>3 DEF CompleteSaga, AllDone, InTransaction, DriverInv
<1>4. ASSUME NEW p \in Processes, NEW s \in Sagas, CommitStep(p, s)
      PROVE  LogInv'
  BY <1>4, AppendExecute DEF CommitStep, InTransaction, DriverInv
<1>5. ASSUME NEW p \in Processes, NEW s \in Sagas, FailStep(p, s)
      PROVE  LogInv'
  BY <1>5, AppendFailed DEF FailStep, AllDone, InTransaction, DriverInv
<1>6. ASSUME NEW p \in Processes, NEW s \in Sagas, LogCompensation(p, s)
      PROVE  LogInv'
  BY <1>6, AppendCompensate DEF LogCompensation, DriverInv
<1>7. ASSUME NEW p \in Processes, NEW s \in Sagas, FinishCompensation(p, s)
      PROVE  LogInv'
  BY <1>7 DEF FinishCompensation, DriverInv
<1>8. QED
  BY <1>1, <1>2, <1>3, <1>4, <1>5, <1>6, <1>7
  DEF Next, Startup, Drive, Fault, vars,
      Boot, ResumeNext, StartServing, FindNotRunning, LockRow, ExecuteStep,
      CheckStatus, StartCompensation, SendCompensation, Crash, RequestFails, StartupFails

\* A step that sends no command and starts no transaction's last leg.
Quiet ==
  /\ UNCHANGED <<row, effects>>
  /\ \A q \in Processes, t \in Sagas :
       pc'[q][t] = "executed" => pc[q][t] = "executed"

LEMMA QuietProcess ==
  ASSUME TypeOK, NEW p \in Processes, Startup(p) \/ Fault(p)
  PROVE  Quiet
<1>1. pc \in [Processes -> [Sagas -> PCs]]
  BY DEF TypeOK
<1>2. CASE Boot(p) \/ StartServing(p)
  BY <1>2 DEF Boot, StartServing, Quiet
<1>3. ASSUME NEW s \in Sagas, ResumeNext(p, s)
      PROVE  Quiet
  BY <1>1, <1>3 DEF ResumeNext, Goto, Quiet
<1>4. CASE Crash(p)
  BY <1>1, <1>4 DEF Crash, Stop, Quiet
<1>5. ASSUME NEW s \in Sagas, RequestFails(p, s)
      PROVE  Quiet
  BY <1>1, <1>5 DEF RequestFails, Goto, Quiet
<1>6. ASSUME NEW s \in Sagas, StartupFails(p, s)
      PROVE  Quiet
  BY <1>1, <1>6 DEF StartupFails, Stop, Quiet
<1>7. QED
  BY <1>2, <1>3, <1>4, <1>5, <1>6 DEF Startup, Fault

LEMMA QuietDriver ==
  ASSUME TypeOK, NEW p \in Processes, NEW s \in Sagas,
         \/ FindNotRunning(p, s) \/ LockRow(p, s) \/ CheckStatus(p, s)
         \/ StartCompensation(p, s) \/ LogCompensation(p, s)
  PROVE  Quiet
<1>1. pc \in [Processes -> [Sagas -> PCs]]
  BY DEF TypeOK
<1>2. CASE FindNotRunning(p, s)
  BY <1>1, <1>2 DEF FindNotRunning, Goto, Quiet
<1>3. CASE LockRow(p, s)
  BY <1>1, <1>3 DEF LockRow, Goto, Quiet
<1>4. CASE CheckStatus(p, s)
  BY <1>1, <1>4 DEF CheckStatus, Goto, Quiet
<1>5. CASE StartCompensation(p, s)
  BY <1>1, <1>5 DEF StartCompensation, Goto, Quiet
<1>6. CASE LogCompensation(p, s)
  BY <1>1, <1>6 DEF LogCompensation, Goto, Quiet
<1>7. QED
  BY <1>2, <1>3, <1>4, <1>5, <1>6

\* The step a driver has executed and not committed yet is one of STEPS.
LEMMA NextStepExists ==
  ASSUME TypeOK, DriverInv, NEW p \in Processes, NEW s \in Sagas,
         pc[p][s] = "executed"
  PROVE  step_index[s] + 1 \in Steps
<1>1. step_index[s] \in 0..NumSteps /\ step_index[s] < NumSteps
  BY DEF TypeOK, DriverInv
<1>2. QED
  BY <1>1, NumStepsAssumption DEF Steps

\* A command is undone only after it was sent.
LEMMA EffectStep ==
  ASSUME TypeOK, DriverInv, LogInv, EffectInv, [Next]_vars
  PROVE  EffectInv'
<1> USE NumStepsAssumption
<1> USE DEF TypeOK, EffectInv, CommandsSent, UndoFollowsDo
<1>1. CASE Quiet
  BY <1>1 DEF Quiet, row, effects
<1>2. CASE UNCHANGED vars
  BY <1>2 DEF vars, row, effects
<1>3. ASSUME NEW p \in Processes, Startup(p) \/ Fault(p)
      PROVE  Quiet
  BY <1>3, QuietProcess
<1>4. ASSUME NEW p \in Processes, NEW s \in Sagas, CreateSaga(p, s)
      PROVE  EffectInv'
  <2>1. status[s] = "none" /\ step_index[s] = 0
    BY <1>4 DEF CreateSaga, LogInv, FreshRow
  <2>2. \A i \in Steps : ~(undone[s][i] > 0)
    BY <2>1 DEF Unwinding
  <2>3. \A q \in Processes, t \in Sagas :
          pc'[q][t] = "executed" => pc[q][t] = "executed"
    BY <1>4 DEF CreateSaga, Goto
  <2>4. CommandsSent'
    BY <1>4, <2>3 DEF CreateSaga, effects
  <2>5. UndoFollowsDo'
    BY <1>4, <2>2 DEF CreateSaga, effects
  <2>6. QED
    BY <2>4, <2>5
<1>5. ASSUME NEW p \in Processes, NEW s \in Sagas,
             \/ FindNotRunning(p, s) \/ LockRow(p, s) \/ CheckStatus(p, s)
             \/ StartCompensation(p, s) \/ LogCompensation(p, s)
      PROVE  Quiet
  BY <1>5, QuietDriver
<1>6. ASSUME NEW p \in Processes, NEW s \in Sagas, CompleteSaga(p, s)
      PROVE  EffectInv'
  <2>1. status[s] = "RUNNING"
    BY <1>6 DEF CompleteSaga, DriverInv, InTransaction
  <2>2. \A q \in Processes, t \in Sagas :
          pc'[q][t] = "executed" => pc[q][t] = "executed"
    BY <1>6 DEF CompleteSaga, Goto
  <2>3. QED
    BY <1>6, <2>1, <2>2 DEF CompleteSaga, effects, Unwinding
<1>7. ASSUME NEW p \in Processes, NEW s \in Sagas, ExecuteStep(p, s)
      PROVE  EffectInv'
  <2>1. step_index[s] + 1 \in Steps
    BY <1>7 DEF ExecuteStep, AllDone, Steps
  <2>2. \A t \in Sagas, i \in Steps :
          /\ done[t][i] > 0 => done'[t][i] > 0
          /\ t = s /\ i = step_index[s] + 1 => done'[t][i] > 0
    BY <1>7, <2>1 DEF ExecuteStep
  <2>3. \A q \in Processes, t \in Sagas :
          pc'[q][t] = "executed" => pc[q][t] = "executed" \/ t = s
    BY <1>7 DEF ExecuteStep, Goto
  <2>4. UndoFollowsDo'
    BY <1>7, <2>2 DEF ExecuteStep, row
  <2>5. ASSUME NEW t \in Sagas, NEW i \in 1..step_index[t]
        PROVE  done'[t][i] > 0
    <3>1. i \in Steps
      BY DEF Steps
    <3>2. done[t][i] > 0
      OBVIOUS
    <3>3. QED
      BY <2>2, <3>1, <3>2
  <2>6. \A q \in Processes, t \in Sagas :
          pc'[q][t] = "executed" => done'[t][step_index[t] + 1] > 0
    <3> SUFFICES ASSUME NEW q \in Processes, NEW t \in Sagas,
                        pc'[q][t] = "executed"
                 PROVE  done'[t][step_index[t] + 1] > 0
      OBVIOUS
    <3>1. CASE t = s
      BY <3>1, <2>1, <2>2
    <3>2. CASE pc[q][t] = "executed"
      <4>1. step_index[t] + 1 \in Steps
        BY <3>2, NextStepExists
      <4>2. QED
        BY <3>2, <4>1, <2>2
    <3>3. QED
      BY <2>3, <3>1, <3>2
  <2>7. QED
    BY <1>7, <2>4, <2>5, <2>6 DEF ExecuteStep, row
<1>8. ASSUME NEW p \in Processes, NEW s \in Sagas, CommitStep(p, s)
      PROVE  EffectInv'
  <2>1. done[s][step_index[s] + 1] > 0
    BY <1>8 DEF CommitStep
  <2>2. \A q \in Processes, t \in Sagas :
          pc'[q][t] = "executed" => pc[q][t] = "executed" /\ t # s
    BY <1>8, NoProcAssumption DEF CommitStep, Goto, DriverInv, InTransaction
  <2>3. \A t \in Sagas :
          \A i \in 1..step_index'[t] : i \in 1..step_index[t] \/ (t = s /\ i = step_index[s] + 1)
    BY <1>8 DEF CommitStep
  <2>4. CommandsSent'
    <3>1. \A t \in Sagas : \A i \in 1..step_index'[t] : done'[t][i] > 0
      BY <1>8, <2>1, <2>3 DEF CommitStep, effects
    <3>2. \A q \in Processes, t \in Sagas :
            pc'[q][t] = "executed" => done'[t][step_index'[t] + 1] > 0
      BY <1>8, <2>2 DEF CommitStep, effects
    <3>3. QED
      BY <3>1, <3>2
  <2>5. UndoFollowsDo'
    BY <1>8 DEF CommitStep, effects
  <2>6. QED
    BY <2>4, <2>5
<1>9. ASSUME NEW p \in Processes, NEW s \in Sagas, FailStep(p, s)
      PROVE  EffectInv'
  <2>1. \A q \in Processes, t \in Sagas :
          pc'[q][t] = "executed" => pc[q][t] = "executed"
    BY <1>9 DEF FailStep, Goto
  <2>2. QED
    BY <1>9, <2>1 DEF FailStep, effects, Unwinding
<1>10. ASSUME NEW p \in Processes, NEW s \in Sagas, SendCompensation(p, s)
       PROVE  EffectInv'
  <2>1. left[p][s] \in 1..step_index[s] /\ status[s] \in Unwinding
    BY <1>10 DEF SendCompensation, DriverInv
  <2>2. done[s][left[p][s]] > 0
    BY <2>1
  <2>3. \A t \in Sagas, i \in Steps :
          undone'[t][i] > 0 => undone[t][i] > 0 \/ (t = s /\ i = left[p][s])
    BY <1>10 DEF SendCompensation
  <2>4. UndoFollowsDo'
    BY <1>10, <2>1, <2>2, <2>3 DEF SendCompensation, row
  <2>5. \A q \in Processes, t \in Sagas :
          pc'[q][t] = "executed" => pc[q][t] = "executed"
    BY <1>10 DEF SendCompensation, Goto
  <2>6. CommandsSent'
    BY <1>10, <2>5 DEF SendCompensation, row
  <2>7. QED
    BY <2>4, <2>6
<1>11. ASSUME NEW p \in Processes, NEW s \in Sagas, FinishCompensation(p, s)
       PROVE  EffectInv'
  <2>1. \A q \in Processes, t \in Sagas :
          pc'[q][t] = "executed" => pc[q][t] = "executed"
    BY <1>11 DEF FinishCompensation, Goto
  <2>2. QED
    BY <1>11, <2>1 DEF FinishCompensation, effects, Unwinding
<1>12. QED
  BY <1>1, <1>2, <1>3, <1>4, <1>5, <1>6, <1>7, <1>8, <1>9, <1>10, <1>11
  DEF Next, Drive

LEMMA InitIInv == Init => IInv
  BY NumStepsAssumption, BoundsAssumption
  DEF Init, IInv, TypeOK, DriverInv, LogInv, FreshRow, ForwardLogExact,
      UnwindsOnlyCommitted, EffectInv, CommandsSent, UndoFollowsDo, PCs,
      Statuses, GoingForward, Unwinding, InTransaction, Steps, ForwardLog

LEMMA NextIInv == IInv /\ [Next]_vars => IInv'
  BY TypeStep, DriverStep, LogStep, EffectStep DEF IInv

----------------------------------------------------------------------------
\* IInv is an invariant, whatever the number of processes.
THEOREM Invariance == Spec => []IInv
  BY InitIInv, NextIInv, PTL DEF Spec

\* Every variable keeps its type.
THEOREM TypeCorrect == Spec => []TypeOK
  BY Invariance, PTL DEF IInv

\* A RUNNING or COMPLETED saga has logged its steps exactly once, in order.
THEOREM ForwardLogCorrect == Spec => []ForwardLogExact
  BY Invariance, PTL DEF IInv, LogInv

\* A failed saga compensates committed steps only.
THEOREM UnwindCorrect == Spec => []UnwindsOnlyCommitted
  BY Invariance, PTL DEF IInv, LogInv

\* A compensating command follows the command it undoes.
THEOREM UndoCorrect == Spec => []UndoFollowsDo
  BY Invariance, PTL DEF IInv, EffectInv

\* The command of a step whose row is committed is never sent again.
THEOREM NotRepeated == Spec => CommittedStepsNotRepeated
<1> DEFINE A == \A s \in Sagas, i \in Steps :
                  Committed(s, i) => done'[s][i] = done[s][i]
<1>1. ASSUME IInv, [Next]_vars
      PROVE  A
  <2> USE <1>1, NumStepsAssumption
  <2>1. CASE UNCHANGED done
    BY <2>1
  <2>2. ASSUME NEW p \in Processes, NEW t \in Sagas, ExecuteStep(p, t)
        PROVE  A
    <3>1. status[t] = "RUNNING" /\ step_index[t] + 1 \in Steps
      BY <2>2 DEF ExecuteStep, AllDone, Steps, IInv, TypeOK, DriverInv,
                  InTransaction
    <3>2. ForwardLog(log[t], step_index[t]) /\ log[t] \in Seq(Entries)
      BY <3>1 DEF IInv, TypeOK, LogInv, ForwardLogExact, GoingForward
    <3>3. step_index[t] \in Nat
      BY DEF IInv, TypeOK
    <3>4. \A j \in DOMAIN log[t] :
            j <= step_index[t] /\ log[t][j] = Entry("execute", j)
      BY <3>2, <3>3 DEF ForwardLog
    <3>5. ~Committed(t, step_index[t] + 1)
      <4>1. SUFFICES ASSUME NEW j \in DOMAIN log[t],
                            log[t][j] = Entry("execute", step_index[t] + 1)
                     PROVE  FALSE
        BY DEF Committed
      <4>2. j <= step_index[t] /\ j = step_index[t] + 1
        BY <3>4, <4>1, EntryInjective
      <4>3. QED
        BY <3>3, <4>2
    <3>6. \A s \in Sagas, i \in Steps :
            s # t \/ i # step_index[t] + 1 => done'[s][i] = done[s][i]
      BY <2>2, <3>1 DEF ExecuteStep, IInv, TypeOK
    <3>7. QED
      BY <3>5, <3>6
  <2>3. QED
    BY <2>1, <2>2
    DEF Next, Startup, Drive, Fault, vars, effects, Boot, ResumeNext,
        StartServing, CreateSaga, FindNotRunning, LockRow, CompleteSaga,
        CommitStep, FailStep, CheckStatus, StartCompensation,
        SendCompensation, LogCompensation, FinishCompensation, Crash,
        RequestFails, StartupFails
<1>2. IInv /\ [Next]_vars => [A]_vars
  BY <1>1
<1>3. QED
  BY <1>2, Invariance, PTL DEF Spec, CommittedStepsNotRepeated

----------------------------------------------------------------------------
\* What one driver per saga knows of the log it unwinds.
UnwindAt(p, s) ==
  /\ pc[p][s] \in {"comp", "undo", "sent"} => status[s] = "COMPENSATING"
  /\ status[s] = "COMPENSATING" /\ pc[p][s] \in {"check", "comp"} =>
       Len(log[s]) = step_index[s] + 1
  /\ pc[p][s] \in {"undo", "sent"} =>
       Len(log[s]) = 2 * step_index[s] + 1 - left[p][s]

UnwindInv == \A p \in Processes, s \in Sagas : UnwindAt(p, s)

ReverseInv == CompensatedOnceInReverse /\ UnwindInv

LEMMA UnwindUnchanged ==
  ASSUME NEW q \in Processes, NEW t \in Sagas, UnwindAt(q, t),
         status'[t] = status[t], step_index'[t] = step_index[t],
         log'[t] = log[t], pc'[q][t] = pc[q][t], left'[q][t] = left[q][t]
  PROVE  UnwindAt(q, t)'
  BY DEF UnwindAt

LEMMA ReverseStep ==
  ASSUME \A p, q \in Processes : p = q, IInv, ReverseInv, [Next]_vars
  PROVE  ReverseInv'
<1> USE NumStepsAssumption
<1> USE DEF ReverseInv, CompensatedOnceInReverse, UnwindInv, UnwindAt, IInv, TypeOK,
           Unwinding
<1>1. CASE UNCHANGED <<row, log, pc, left>>
  BY <1>1 DEF row
<1>2. ASSUME NEW p \in Processes, NEW s \in Sagas, ResumeNext(p, s)
      PROVE  ReverseInv'
  BY <1>2 DEF ResumeNext, Goto, row
<1>3. ASSUME NEW p \in Processes, NEW s \in Sagas, CreateSaga(p, s)
      PROVE  ReverseInv'
  BY <1>3 DEF CreateSaga, Goto
<1>4. ASSUME NEW p \in Processes, NEW s \in Sagas,
             FindNotRunning(p, s) \/ LockRow(p, s)
      PROVE  ReverseInv'
  <2>1. CASE FindNotRunning(p, s)
    BY <2>1 DEF FindNotRunning, Goto, row
  <2>2. CASE LockRow(p, s)
    BY <2>2 DEF LockRow, Goto, row
  <2>3. QED
    BY <1>4, <2>1, <2>2
<1>5. ASSUME NEW p \in Processes, NEW s \in Sagas, CompleteSaga(p, s)
      PROVE  ReverseInv'
  BY <1>5 DEF CompleteSaga, Goto, DriverInv, InTransaction
<1>6. ASSUME NEW p \in Processes, NEW s \in Sagas, ExecuteStep(p, s)
      PROVE  ReverseInv'
  BY <1>6 DEF ExecuteStep, Goto, row
<1>7. ASSUME NEW p \in Processes, NEW s \in Sagas, CommitStep(p, s)
      PROVE  ReverseInv'
  <2>1. status[s] = "RUNNING" /\ status' = status
    BY <1>7 DEF CommitStep, DriverInv, InTransaction
  <2>2. \A t \in Sagas : t # s =>
          /\ log'[t] = log[t] /\ step_index'[t] = step_index[t]
          /\ \A q \in Processes : pc'[q][t] = pc[q][t] /\ left'[q][t] = left[q][t]
    BY <1>7 DEF CommitStep, Goto
  <2>3. \A q \in Processes : pc'[q][s] = "check"
    BY <1>7 DEF CommitStep, Goto
  <2>4. CompensatedOnceInReverse'
    BY <2>1, <2>2
  <2>5. ASSUME NEW q \in Processes, NEW t \in Sagas
        PROVE  UnwindAt(q, t)'
    <3>1. CASE t = s
      BY <2>1, <2>3, <3>1
    <3>2. CASE t # s
      <4>1. UnwindAt(q, t)
        BY DEF UnwindInv
      <4>2. /\ log'[t] = log[t] /\ step_index'[t] = step_index[t]
            /\ pc'[q][t] = pc[q][t] /\ left'[q][t] = left[q][t]
            /\ status'[t] = status[t]
        BY <2>1, <2>2, <3>2
      <4>3. QED
        BY ONLY <4>1, <4>2, UnwindUnchanged
    <3>3. QED
      BY <3>1, <3>2
  <2>6. QED
    BY <2>4, <2>5
<1>8. ASSUME NEW p \in Processes, NEW s \in Sagas, FailStep(p, s)
      PROVE  ReverseInv'
  BY <1>8, AppendFailed DEF FailStep, Goto, DriverInv, InTransaction, LogInv, ForwardLogExact, GoingForward
<1>9. ASSUME NEW p \in Processes, NEW s \in Sagas, CheckStatus(p, s)
      PROVE  ReverseInv'
  BY <1>9 DEF CheckStatus, Goto, row
<1>10. ASSUME NEW p \in Processes, NEW s \in Sagas, StartCompensation(p, s)
       PROVE  ReverseInv'
  BY <1>10 DEF StartCompensation, Goto, row
<1>11. ASSUME NEW p \in Processes, NEW s \in Sagas, SendCompensation(p, s)
       PROVE  ReverseInv'
  BY <1>11 DEF SendCompensation, Goto, row
<1>12. ASSUME NEW p \in Processes, NEW s \in Sagas, LogCompensation(p, s)
       PROVE  ReverseInv'
  <2> DEFINE l == log[s]
             k == step_index[s]
             i == left[p][s]
  <2>1. /\ status[s] = "COMPENSATING"
        /\ i \in 1..k /\ Len(l) = 2 * k + 1 - i
        /\ ReverseLog(l, k) /\ l \in Seq(Entries) /\ k \in Nat
    BY <1>12 DEF LogCompensation, DriverInv
  <2>2. ReverseLog(Append(l, Entry("compensate", i)), k)
    BY <2>1, AppendReverse
  <2>3. Len(Append(l, Entry("compensate", i))) = 2 * k + 1 - (i - 1)
    BY <2>1, AppendReverse
  <2>4. /\ log'[s] = Append(l, Entry("compensate", i))
        /\ left'[p][s] = i - 1 /\ pc'[p][s] = "undo"
        /\ status' = status /\ step_index' = step_index
    BY <1>12 DEF LogCompensation, Goto, row
  <2>5. \A t \in Sagas : t # s =>
          /\ log'[t] = log[t]
          /\ \A q \in Processes : pc'[q][t] = pc[q][t] /\ left'[q][t] = left[q][t]
    BY <1>12 DEF LogCompensation, Goto
  <2>6. CompensatedOnceInReverse'
    BY <2>1, <2>2, <2>4, <2>5
  <2>7. ASSUME NEW q \in Processes, NEW t \in Sagas
        PROVE  UnwindAt(q, t)'
    <3>1. CASE t = s
      <4>1. q = p
        OBVIOUS
      <4>2. QED
        BY <2>1, <2>3, <2>4, <3>1, <4>1
    <3>2. CASE t # s
      <4>1. UnwindAt(q, t)
        BY DEF UnwindInv
      <4>2. /\ log'[t] = log[t] /\ step_index'[t] = step_index[t]
            /\ pc'[q][t] = pc[q][t] /\ left'[q][t] = left[q][t]
            /\ status'[t] = status[t]
        BY <2>4, <2>5, <3>2
      <4>3. QED
        BY ONLY <4>1, <4>2, UnwindUnchanged
    <3>3. QED
      BY <3>1, <3>2
  <2>8. QED
    BY <2>6, <2>7
<1>13. ASSUME NEW p \in Processes, NEW s \in Sagas, FinishCompensation(p, s)
       PROVE  ReverseInv'
  BY <1>13 DEF FinishCompensation, Goto
<1>14. ASSUME NEW p \in Processes, Fault(p)
       PROVE  ReverseInv'
  BY <1>14 DEF Fault, Crash, RequestFails, StartupFails, Stop, Goto, row
<1>15. QED
  BY <1>1, <1>2, <1>3, <1>4, <1>5, <1>6, <1>7, <1>8, <1>9, <1>10, <1>11,
     <1>12, <1>13, <1>14
  DEF Next, Startup, Drive, vars, Boot, StartServing

\* With one process, the log of a failed saga is also an invariant's.
THEOREM OneProcessInvariance ==
  ASSUME \A p, q \in Processes : p = q
  PROVE  Spec => [](IInv /\ ReverseInv)
<1>1. Init => ReverseInv
  BY DEF Init, ReverseInv, CompensatedOnceInReverse, UnwindInv, UnwindAt,
         Unwinding
<1>2. IInv /\ ReverseInv /\ [Next]_vars => ReverseInv'
  BY ReverseStep
<1>3. QED
  BY <1>1, <1>2, Invariance, PTL DEF Spec

\* With one process the compensations run once each, in reverse order, before
\* COMPENSATED is recorded.
THEOREM ReverseCorrect ==
  ASSUME \A p, q \in Processes : p = q
  PROVE  Spec => []CompensatedOnceInReverse
<1>1. IInv /\ ReverseInv => CompensatedOnceInReverse
  BY DEF ReverseInv
<1>2. QED
  BY <1>1, OneProcessInvariance, PTL

----------------------------------------------------------------------------
(* Refinement: every step of one process is a step of the abstract saga or  *)
(* a stutter.                                                               *)

\* What the refinement mapping calls compensated.
Undone == [s \in Sagas |->
  IF status[s] \in Unwinding THEN Len(log[s]) - step_index[s] - 1 ELSE 0]

\* A saga whose row and log a step leaves alone has as many compensations.
LEMMA UndoneElsewhere ==
  ASSUME NEW s \in Sagas, NEW n,
         \A t \in Sagas : t # s => /\ status'[t] = status[t]
                                   /\ step_index'[t] = step_index[t]
                                   /\ log'[t] = log[t],
         Undone'[s] = n
  PROVE  Undone' = [Undone EXCEPT ![s] = n]
<1>1. \A t \in Sagas : t # s => Undone'[t] = Undone[t]
  BY DEF Undone
<1>2. Undone' = [t \in Sagas |-> Undone'[t]]
  BY DEF Undone
<1>3. [Undone EXCEPT ![s] = n] = [t \in Sagas |-> IF t = s THEN n ELSE Undone[t]]
  BY DEF Undone
<1>4. QED
  BY <1>1, <1>2, <1>3

\* A step that leaves every log and every step_index alone, and no saga
\* enters or leaves the unwinding states by it, compensates nothing.
LEMMA UndoneUnchanged ==
  ASSUME UNCHANGED <<step_index, log>>,
         \A s \in Sagas : status'[s] \in Unwinding <=> status[s] \in Unwinding
  PROVE  Undone' = Undone
  BY DEF Undone

LEMMA InitRefines == Init => Promise!Init
  BY DEF Init, Promise!Init, Unwinding

\* A step that commits, completes or fails a saga does so for a RUNNING one.
LEMMA ForwardRefines ==
  ASSUME IInv, NEW p \in Processes, NEW s \in Sagas
  PROVE  /\ CreateSaga(p, s) => Promise!Start(s)
         /\ CompleteSaga(p, s) => Promise!Complete(s)
         /\ CommitStep(p, s) => Promise!Commit(s)
         /\ FailStep(p, s) => Promise!Fail(s)
<1> USE NumStepsAssumption
<1>1. ASSUME CreateSaga(p, s)
      PROVE  Promise!Start(s)
  <2>1. Undone' = Undone
    BY <1>1, UndoneUnchanged DEF CreateSaga, Unwinding, IInv, TypeOK
  <2>2. QED
    BY <1>1, <2>1 DEF CreateSaga, Promise!Start, Undone
<1>2. ASSUME CompleteSaga(p, s)
      PROVE  Promise!Complete(s)
  <2>1. status[s] = "RUNNING" /\ step_index[s] = NumSteps
    BY <1>2 DEF CompleteSaga, AllDone, IInv, TypeOK, DriverInv, InTransaction
  <2>2. Undone' = Undone
    BY <1>2, <2>1, UndoneUnchanged DEF CompleteSaga, Unwinding, IInv, TypeOK
  <2>3. QED
    BY <1>2, <2>1, <2>2 DEF CompleteSaga, Promise!Complete, Undone
<1>3. ASSUME CommitStep(p, s)
      PROVE  Promise!Commit(s)
  <2>1. status[s] = "RUNNING" /\ step_index[s] < NumSteps
    BY <1>3 DEF CommitStep, IInv, DriverInv, InTransaction
  <2>2. \A t \in Sagas : t # s => /\ status'[t] = status[t]
                                  /\ step_index'[t] = step_index[t]
                                  /\ log'[t] = log[t]
    BY <1>3 DEF CommitStep, row, IInv, TypeOK
  <2>3. Undone'[s] = 0 /\ Undone[s] = 0
    BY <1>3, <2>1 DEF CommitStep, row, Undone, Unwinding
  <2>4. Undone' = [Undone EXCEPT ![s] = 0]
    BY <2>2, <2>3, UndoneElsewhere
  <2>5. Undone' = Undone
    BY <2>3, <2>4 DEF Undone
  <2>6. QED
    BY <1>3, <2>1, <2>5 DEF CommitStep, Promise!Commit, Undone
<1>4. ASSUME FailStep(p, s)
      PROVE  Promise!Fail(s)
  <2>1. status[s] = "RUNNING" /\ step_index[s] < NumSteps
    BY <1>4 DEF FailStep, AllDone, IInv, TypeOK, DriverInv, InTransaction
  <2>2. \A t \in Sagas : t # s => /\ status'[t] = status[t]
                                  /\ step_index'[t] = step_index[t]
                                  /\ log'[t] = log[t]
    BY <1>4 DEF FailStep, IInv, TypeOK
  <2>3. Len(log'[s]) = step_index'[s] + 1
    <3>1. ForwardLog(log[s], step_index[s]) /\ log[s] \in Seq(Entries)
      BY <2>1 DEF IInv, TypeOK, LogInv, ForwardLogExact, GoingForward
    <3>2. log'[s] = Append(log[s], Entry("failed", step_index[s] + 1))
      BY <1>4 DEF FailStep, IInv, TypeOK
    <3>3. step_index'[s] = step_index[s] /\ step_index[s] \in Nat
      BY <1>4 DEF FailStep, IInv, TypeOK
    <3>4. QED
      BY <3>1, <3>2, <3>3, AppendFailed
  <2>4. Undone'[s] = 0 /\ Undone[s] = 0
    <3>1. step_index'[s] \in Nat
      BY <1>4 DEF FailStep, IInv, TypeOK
    <3>2. QED
      BY <2>1, <2>3, <3>1 DEF Undone, Unwinding
  <2>5. Undone' = [Undone EXCEPT ![s] = 0]
    BY <2>2, <2>4, UndoneElsewhere
  <2>6. Undone' = Undone
    BY <2>4, <2>5 DEF Undone
  <2>7. QED
    BY <1>4, <2>1, <2>6 DEF FailStep, Promise!Fail, Undone
<1>5. QED
  BY <1>1, <1>2, <1>3, <1>4

\* A compensation that is logged is one more; when the loop has ended, all
\* the committed steps are compensated.
LEMMA UnwindRefines ==
  ASSUME IInv, ReverseInv, NEW p \in Processes, NEW s \in Sagas
  PROVE  /\ LogCompensation(p, s) => Promise!Compensate(s)
         /\ FinishCompensation(p, s) => Promise!Finish(s)
<1> USE NumStepsAssumption
<1> DEFINE k == step_index[s]
           i == left[p][s]
<1>1. k \in Nat /\ i \in Nat /\ log[s] \in Seq(Entries)
  BY DEF IInv, TypeOK
<1>2. UnwindAt(p, s)
  BY DEF ReverseInv, UnwindInv
<1>3. ASSUME LogCompensation(p, s)
      PROVE  Promise!Compensate(s)
  <2>1. /\ status[s] = "COMPENSATING" /\ i \in 1..k
        /\ Len(log[s]) = 2 * k + 1 - i
    BY <1>1, <1>2, <1>3 DEF LogCompensation, UnwindAt, IInv, DriverInv
  <2>2. Undone[s] = k - i
    BY <1>1, <2>1 DEF Undone, Unwinding
  <2>3. \A t \in Sagas : t # s => /\ status'[t] = status[t]
                                  /\ step_index'[t] = step_index[t]
                                  /\ log'[t] = log[t]
    BY <1>3 DEF LogCompensation, row, IInv, TypeOK
  <2>4. /\ log'[s] = Append(log[s], Entry("compensate", i))
        /\ status' = status /\ step_index' = step_index
    BY <1>3 DEF LogCompensation, row, IInv, TypeOK
  <2>5. Len(log'[s]) = 2 * k + 1 - i + 1
    BY <1>1, <2>1, <2>4
  <2>6. Undone'[s] = k - i + 1
    <3>1. Undone'[s] = Len(log'[s]) - k - 1
      BY <2>1, <2>4 DEF Undone, Unwinding
    <3>2. QED
      BY <1>1, <2>1, <2>5, <3>1
  <2>7. Undone' = [Undone EXCEPT ![s] = k - i + 1]
    BY <2>3, <2>6, UndoneElsewhere
  <2>8. k - i + 1 \in Undone[s] .. step_index[s]
    BY <1>1, <2>1, <2>2
  <2>9. QED
    BY <2>1, <2>4, <2>7, <2>8 DEF Promise!Compensate, Undone
<1>4. ASSUME FinishCompensation(p, s)
      PROVE  Promise!Finish(s)
  <2>1. /\ status[s] = "COMPENSATING" /\ i = 0
        /\ Len(log[s]) = 2 * k + 1 - i
    BY <1>1, <1>2, <1>4 DEF FinishCompensation, UnwindAt
  <2>2. /\ status' = [status EXCEPT ![s] = "COMPENSATED"]
        /\ step_index' = step_index /\ log' = log
    BY <1>4 DEF FinishCompensation
  <2>3. status'[s] = "COMPENSATED"
    BY <2>2 DEF IInv, TypeOK
  <2>4. Undone'[s] = step_index[s]
    BY <1>1, <2>1, <2>2, <2>3 DEF Undone, Unwinding
  <2>5. \A t \in Sagas : t # s => /\ status'[t] = status[t]
                                  /\ step_index'[t] = step_index[t]
                                  /\ log'[t] = log[t]
    BY <2>2 DEF IInv, TypeOK
  <2>6. Undone' = [Undone EXCEPT ![s] = step_index[s]]
    BY <2>4, <2>5, UndoneElsewhere
  <2>7. QED
    BY <2>1, <2>2, <2>6 DEF Promise!Finish, Undone
<1>5. QED
  BY <1>3, <1>4

LEMMA NextRefines ==
  ASSUME IInv, ReverseInv, [Next]_vars
  PROVE  [Promise!Next]_(Promise!vars)
<1>1. CASE UNCHANGED <<row, log>>
  BY <1>1 DEF row, Promise!vars
<1>2. ASSUME NEW p \in Processes, NEW s \in Sagas,
             \/ CreateSaga(p, s) \/ CompleteSaga(p, s)
             \/ CommitStep(p, s) \/ FailStep(p, s)
      PROVE  Promise!Next
  BY <1>2, ForwardRefines DEF Promise!Next
<1>3. ASSUME NEW p \in Processes, NEW s \in Sagas,
             LogCompensation(p, s) \/ FinishCompensation(p, s)
      PROVE  Promise!Next
  BY <1>3, UnwindRefines DEF Promise!Next
<1>4. QED
  BY <1>1, <1>2, <1>3
  DEF row, Next, Startup, Drive, Fault, vars, Boot, ResumeNext, StartServing,
      FindNotRunning, LockRow, ExecuteStep, CheckStatus, StartCompensation,
      SendCompensation, Crash, RequestFails, StartupFails

\* One Python process implements the abstract saga, through any number of
\* crashes and failing statements.
THEOREM Refinement ==
  ASSUME \A p, q \in Processes : p = q
  PROVE  Spec => ImplementsSaga
<1>1. IInv /\ ReverseInv /\ [Next]_vars => [Promise!Next]_(Promise!vars)
  BY NextRefines
<1>2. QED
  BY <1>1, InitRefines, OneProcessInvariance, PTL
  DEF Spec, ImplementsSaga, Promise!Spec
=============================================================================
