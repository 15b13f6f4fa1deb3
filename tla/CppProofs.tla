------------------------------ MODULE CppProofs ------------------------------
(***************************************************************************)
(* Proofs about the two C++ programs, each of its own specification.  The  *)
(* saga orchestrator, for any number of sagas, steps, crashes and failing  *)
(* statements: its log is a function of the saga's row and it implements   *)
(* the abstract saga.  The consumer, for any number of partitions,         *)
(* messages, failures and stops: it never commits what it has not handled. *)
(***************************************************************************)
EXTENDS SagaCpp, ConsumerCpp, TLAPS

----------------------------------------------------------------------------
(* The saga orchestrator.                                                  *)

\* What a driver's program counter says of the row it has locked.
DriverInv ==
  \A d \in Drivers, s \in Sagas :
    /\ pc[d][s] \in InTransaction => lock[s] = d
    /\ pc[d][s] = "executed" => status[s] = "RUNNING" /\ step_index[s] < NumSteps
    /\ pc[d][s] = "undone" => status[s] = "COMPENSATING"

\* INSERT INTO sagas starts at step 0.
FreshRow == \A s \in Sagas : status[s] = "none" => step_index[s] = 0

IInv == TypeOK /\ DriverInv /\ FreshRow /\ LogMatchesRow

----------------------------------------------------------------------------
(* What a commit does to the log of a row.                                  *)

LEMMA RowLogStep ==
  ASSUME NEW k \in Nat, NEW l \in Seq(Entries), RowLog("RUNNING", k, l)
  PROVE  RowLog("RUNNING", k + 1, Append(l, Entry("execute", k + 1)))
  BY DEF RowLog, GoingForward, Unwinding, ForwardLog

LEMMA RowLogFail ==
  ASSUME NEW k \in Nat, NEW l \in Seq(Entries), RowLog("RUNNING", k, l)
  PROVE  RowLog("COMPENSATING", k, Append(l, Entry("failed", k + 1)))
<1>1. ForwardLog(l, k)
  BY DEF RowLog, GoingForward
<1> DEFINE m == Append(l, Entry("failed", k + 1))
<1>2. UnwindLog(m, k) /\ ReverseLog(m, k) /\ Len(m) = k + 1
  BY <1>1 DEF ForwardLog, UnwindLog, ReverseLog
<1>3. QED
  BY <1>2 DEF RowLog, GoingForward, Unwinding

\* All compensations at once, from the last step to the first, complete it.
LEMMA ConcatCompensations ==
  ASSUME NEW k \in Nat, k <= NumSteps, NEW l \in Seq(Entries),
         UnwindLog(l, k), Len(l) = k + 1
  PROVE  LET m == l \o [j \in 1..k |-> Entry("compensate", k + 1 - j)] IN
         /\ m \in Seq(Entries)
         /\ UnwindLog(m, k)
         /\ ReverseLog(m, k)
         /\ Len(m) = 2 * k + 1
<1> DEFINE c == [j \in 1..k |-> Entry("compensate", k + 1 - j)]
           m == l \o c
<1>1. \A j \in 1..k : Entry("compensate", k + 1 - j) \in Entries
  BY NumStepsAssumption DEF Entry, Entries, Steps
<1>2. c \in Seq(Entries) /\ Len(c) = k
  BY <1>1
<1>3. m \in Seq(Entries) /\ Len(m) = 2 * k + 1
  BY <1>2
<1>4. \A j \in 1..k + 1 : m[j] = l[j]
  BY <1>2
<1>5. \A j \in k + 2 .. 2 * k + 1 : m[j] = Entry("compensate", 2 * k + 2 - j)
  BY <1>2
<1>6. ReverseLog(m, k)
  BY <1>3, <1>5 DEF ReverseLog
<1>7. UnwindLog(m, k)
  BY <1>3, <1>4, <1>5 DEF UnwindLog, Compensations
<1>8. QED
  BY <1>3, <1>6, <1>7

LEMMA RowLogCompensate ==
  ASSUME NEW k \in 0..NumSteps, NEW l \in Seq(Entries),
         RowLog("COMPENSATING", k, l)
  PROVE  /\ l \o CompensationRows(k) \in Seq(Entries)
         /\ RowLog("COMPENSATED", k, l \o CompensationRows(k))
<1>1. k \in Nat /\ k <= NumSteps /\ UnwindLog(l, k) /\ Len(l) = k + 1
  BY NumStepsAssumption DEF RowLog, Unwinding
<1>2. /\ l \o CompensationRows(k) \in Seq(Entries)
      /\ UnwindLog(l \o CompensationRows(k), k)
      /\ ReverseLog(l \o CompensationRows(k), k)
      /\ Len(l \o CompensationRows(k)) = 2 * k + 1
  BY ONLY <1>1, ConcatCompensations DEF CompensationRows
<1>3. QED
  BY <1>2 DEF RowLog, GoingForward

----------------------------------------------------------------------------
\* Every action keeps the type invariant.
LEMMA TypeStep ==
  ASSUME TypeOK, DriverInv, LogMatchesRow, [Next]_vars
  PROVE  TypeOK'
<1> USE NumStepsAssumption, BoundsAssumption
<1> USE DEF TypeOK, PCs, InTransaction, Statuses, Drivers, row, faults, Goto, Release
<1>1. CASE UNCHANGED vars
  BY <1>1 DEF vars
<1>2. CASE Boot
  BY <1>2 DEF Boot
<1>3. CASE Scan
  BY <1>3 DEF Scan
<1>4. CASE ScanFails
  <2>1. dbErrors' \in 0..MaxDbErrors
    BY <1>4 DEF ScanFails
  <2>2. QED
    BY <1>4, <2>1 DEF ScanFails
<1>5. ASSUME NEW s \in Sagas, ResumeNext(s)
      PROVE  TypeOK'
  BY <1>5 DEF ResumeNext
<1>6. CASE ResumeDone
  BY <1>6 DEF ResumeDone
<1>7. ASSUME NEW s \in Sagas, CreateSaga(s)
      PROVE  TypeOK'
  BY <1>7 DEF CreateSaga
<1>8. ASSUME NEW d \in Drivers, NEW s \in Sagas, LockRow(d, s)
      PROVE  TypeOK'
  BY <1>8 DEF LockRow
<1>9. ASSUME NEW d \in Drivers, NEW s \in Sagas, FindTerminal(d, s)
      PROVE  TypeOK'
  BY <1>9 DEF FindTerminal
<1>10. ASSUME NEW d \in Drivers, NEW s \in Sagas, CompleteSaga(d, s)
       PROVE  TypeOK'
  BY <1>10 DEF CompleteSaga
<1>11. ASSUME NEW d \in Drivers, NEW s \in Sagas, ExecuteStep(d, s)
       PROVE  TypeOK'
  BY <1>11 DEF ExecuteStep
<1>12. ASSUME NEW d \in Drivers, NEW s \in Sagas, CommitStep(d, s)
       PROVE  TypeOK'
  <2>1. step_index[s] + 1 \in Steps
    BY <1>12 DEF CommitStep, DriverInv, Steps
  <2>2. Entry("execute", step_index[s] + 1) \in Entries
    BY <2>1 DEF Entry, Entries
  <2>3. Append(log[s], Entry("execute", step_index[s] + 1)) \in Seq(Entries)
    BY <2>2
  <2>4. log' \in [Sagas -> Seq(Entries)]
    BY <1>12, <2>3 DEF CommitStep
  <2>5. step_index' \in [Sagas -> 0..NumSteps]
    BY <1>12, <2>1 DEF CommitStep, Steps
  <2>6. QED
    BY <1>12, <2>4, <2>5 DEF CommitStep
<1>13. ASSUME NEW d \in Drivers, NEW s \in Sagas, FailStep(d, s)
       PROVE  TypeOK'
  <2>1. step_index[s] + 1 \in Steps
    BY <1>13 DEF FailStep, Steps
  <2>2. Entry("failed", step_index[s] + 1) \in Entries
    BY <2>1 DEF Entry, Entries
  <2>3. Append(log[s], Entry("failed", step_index[s] + 1)) \in Seq(Entries)
    BY <2>2
  <2>4. log' \in [Sagas -> Seq(Entries)]
    BY <1>13, <2>3 DEF FailStep
  <2>5. step_index' \in [Sagas -> 0..NumSteps]
    BY <1>13, <2>1 DEF FailStep, Steps
  <2>6. QED
    BY <1>13, <2>4, <2>5 DEF FailStep
<1>14. ASSUME NEW d \in Drivers, NEW s \in Sagas, RunCompensations(d, s)
       PROVE  TypeOK'
  BY <1>14 DEF RunCompensations
<1>15. ASSUME NEW d \in Drivers, NEW s \in Sagas, CommitCompensation(d, s)
       PROVE  TypeOK'
  <2>1. log[s] \o CompensationRows(step_index[s]) \in Seq(Entries)
    BY <1>15, RowLogCompensate DEF CommitCompensation, DriverInv, LogMatchesRow
  <2>2. log' \in [Sagas -> Seq(Entries)]
    BY <1>15, <2>1 DEF CommitCompensation
  <2>3. QED
    BY <1>15, <2>2 DEF CommitCompensation
<1>16. ASSUME NEW d \in Drivers, NEW s \in Sagas, StatementFails(d, s)
       PROVE  TypeOK'
  <2>1. dbErrors' \in 0..MaxDbErrors
    BY <1>16 DEF StatementFails
  <2>2. lock' \in [Sagas -> Drivers \cup {NoDriver}]
    BY <1>16 DEF StatementFails
  <2>3. QED
    BY <1>16, <2>1, <2>2 DEF StatementFails
<1>17. CASE Crash
  <2>1. crashes' \in 0..MaxCrashes
    BY <1>17 DEF Crash
  <2>2. QED
    BY <1>17, <2>1 DEF Crash
<1>18. QED
  BY <1>1, <1>2, <1>3, <1>4, <1>5, <1>6, <1>7, <1>8, <1>9,
     <1>10, <1>11, <1>12, <1>13, <1>14, <1>15, <1>16, <1>17
  DEF Next, Advance, ResumeThread

\* The row lock keeps the two threads apart.
LEMMA DriverStep ==
  ASSUME TypeOK, DriverInv, [Next]_vars
  PROVE  DriverInv'
<1> USE DriversAssumption, NumStepsAssumption
<1> USE DEF TypeOK, DriverInv, InTransaction, Drivers, row, faults, Goto, Release,
           Terminal
<1>1. CASE UNCHANGED vars
  BY <1>1 DEF vars
<1>2. CASE Boot
  BY <1>2 DEF Boot
<1>3. CASE Scan
  BY <1>3 DEF Scan
<1>4. CASE ScanFails
  BY <1>4 DEF ScanFails
<1>5. ASSUME NEW s \in Sagas, ResumeNext(s)
      PROVE  DriverInv'
  BY <1>5 DEF ResumeNext
<1>6. CASE ResumeDone
  BY <1>6 DEF ResumeDone
<1>7. ASSUME NEW s \in Sagas, CreateSaga(s)
      PROVE  DriverInv'
  BY <1>7 DEF CreateSaga
<1>8. ASSUME NEW d \in Drivers, NEW s \in Sagas, LockRow(d, s)
      PROVE  DriverInv'
  BY <1>8 DEF LockRow
<1>9. ASSUME NEW d \in Drivers, NEW s \in Sagas, FindTerminal(d, s)
      PROVE  DriverInv'
  BY <1>9 DEF FindTerminal
<1>10. ASSUME NEW d \in Drivers, NEW s \in Sagas, CompleteSaga(d, s)
       PROVE  DriverInv'
  BY <1>10 DEF CompleteSaga
<1>11. ASSUME NEW d \in Drivers, NEW s \in Sagas, ExecuteStep(d, s)
       PROVE  DriverInv'
  BY <1>11 DEF ExecuteStep
<1>12. ASSUME NEW d \in Drivers, NEW s \in Sagas, CommitStep(d, s)
       PROVE  DriverInv'
  BY <1>12 DEF CommitStep
<1>13. ASSUME NEW d \in Drivers, NEW s \in Sagas, FailStep(d, s)
       PROVE  DriverInv'
  BY <1>13 DEF FailStep
<1>14. ASSUME NEW d \in Drivers, NEW s \in Sagas, RunCompensations(d, s)
       PROVE  DriverInv'
  BY <1>14 DEF RunCompensations
<1>15. ASSUME NEW d \in Drivers, NEW s \in Sagas, CommitCompensation(d, s)
       PROVE  DriverInv'
  BY <1>15 DEF CommitCompensation
<1>16. ASSUME NEW d \in Drivers, NEW s \in Sagas, StatementFails(d, s)
       PROVE  DriverInv'
  BY <1>16 DEF StatementFails
<1>17. CASE Crash
  BY <1>17 DEF Crash
<1>18. QED
  BY <1>1, <1>2, <1>3, <1>4, <1>5, <1>6, <1>7, <1>8, <1>9,
     <1>10, <1>11, <1>12, <1>13, <1>14, <1>15, <1>16, <1>17
  DEF Next, Advance, ResumeThread

\* A commit changes the row and the log of one saga together.
LEMMA LogStep ==
  ASSUME TypeOK, DriverInv, FreshRow, LogMatchesRow, [Next]_vars
  PROVE  (FreshRow /\ LogMatchesRow)'
<1> USE NumStepsAssumption
<1> USE DEF TypeOK, FreshRow, LogMatchesRow
<1>1. CASE UNCHANGED <<row, log>>
  BY <1>1 DEF row
<1>2. ASSUME NEW s \in Sagas, CreateSaga(s)
      PROVE  (FreshRow /\ LogMatchesRow)'
  BY <1>2 DEF CreateSaga, RowLog, GoingForward, Unwinding
<1>3. ASSUME NEW d \in Drivers, NEW s \in Sagas, CompleteSaga(d, s)
      PROVE  (FreshRow /\ LogMatchesRow)'
  BY <1>3 DEF CompleteSaga, RowLog, GoingForward, Unwinding
<1>4. ASSUME NEW d \in Drivers, NEW s \in Sagas, CommitStep(d, s)
      PROVE  (FreshRow /\ LogMatchesRow)'
  BY <1>4, RowLogStep DEF CommitStep, DriverInv
<1>5. ASSUME NEW d \in Drivers, NEW s \in Sagas, FailStep(d, s)
      PROVE  (FreshRow /\ LogMatchesRow)'
  BY <1>5, RowLogFail DEF FailStep
<1>6. ASSUME NEW d \in Drivers, NEW s \in Sagas, CommitCompensation(d, s)
      PROVE  (FreshRow /\ LogMatchesRow)'
  BY <1>6, RowLogCompensate DEF CommitCompensation, DriverInv
<1>7. QED
  BY <1>1, <1>2, <1>3, <1>4, <1>5, <1>6
  DEF Next, Advance, ResumeThread, vars, Boot, Scan, ScanFails, ResumeNext,
      ResumeDone, LockRow, FindTerminal, ExecuteStep, RunCompensations,
      StatementFails, Crash

LEMMA InitIInv == Init => IInv
<1> SUFFICES ASSUME Init
             PROVE  IInv
  OBVIOUS
<1>1. TypeOK
  <2>1. up \in BOOLEAN /\ failing \in SUBSET Sagas /\ todo \in SUBSET Sagas
    BY DEF Init
  <2>2. pc \in [Drivers -> [Sagas -> PCs]]
    BY DEF Init, PCs
  <2>3. QED
    BY <2>1, <2>2, NumStepsAssumption, BoundsAssumption
    DEF Init, TypeOK, Statuses
<1>2. DriverInv /\ FreshRow
  BY DEF Init, DriverInv, FreshRow, InTransaction
<1>3. LogMatchesRow
  BY DEF Init, LogMatchesRow, RowLog, ForwardLog, GoingForward, Unwinding
<1>4. QED
  BY <1>1, <1>2, <1>3 DEF IInv

LEMMA NextIInv == IInv /\ [Next]_vars => IInv'
  BY TypeStep, DriverStep, LogStep DEF IInv

THEOREM Invariance == Spec => []IInv
  BY InitIInv, NextIInv, PTL DEF Spec

\* Every variable keeps its type.
THEOREM TypeCorrect == Spec => []TypeOK
  BY Invariance, PTL DEF IInv

\* The log of a saga is a function of its row.
THEOREM LogCorrect == Spec => []LogMatchesRow
  BY Invariance, PTL DEF IInv

----------------------------------------------------------------------------
(* Refinement: every step is a step of the abstract saga or a stutter.      *)

Compensated == [s \in Sagas |->
  IF status[s] \in Unwinding THEN Len(log[s]) - step_index[s] - 1 ELSE 0]

AllCompensated == [s \in Sagas |->
  IF status[s] = "COMPENSATED" THEN step_index[s] ELSE 0]

\* All the committed steps of a COMPENSATED saga are compensated.
LEMMA CompensatedValue == IInv => Compensated = AllCompensated
<1> SUFFICES ASSUME IInv
             PROVE  Compensated = AllCompensated
  OBVIOUS
<1>1. \A s \in Sagas : status[s] = "COMPENSATED" =>
                        Len(log[s]) - step_index[s] - 1 = step_index[s]
  BY NumStepsAssumption DEF IInv, TypeOK, LogMatchesRow, RowLog
<1>2. \A s \in Sagas : status[s] = "COMPENSATING" =>
                        Len(log[s]) - step_index[s] - 1 = 0
  BY NumStepsAssumption DEF IInv, TypeOK, LogMatchesRow, RowLog
<1>3. QED
  BY <1>1, <1>2 DEF Compensated, AllCompensated, Unwinding

LEMMA InitRefines == Init => Promise!Init
  BY DEF Init, Promise!Init, Unwinding

LEMMA NextRefines ==
  ASSUME IInv, IInv', [Next]_vars
  PROVE  [Promise!Next]_(Promise!vars)
<1> USE NumStepsAssumption
<1>a. Compensated = AllCompensated
  BY CompensatedValue
<1>b. (Compensated = AllCompensated)'
  BY CompensatedValue, PTL
<1>1. CASE UNCHANGED <<row, log>>
  BY <1>1 DEF row, Promise!vars
<1>2. ASSUME NEW s \in Sagas, CreateSaga(s)
      PROVE  Promise!Start(s)
  BY <1>a, <1>b, <1>2 DEF CreateSaga, Promise!Start, Compensated,
         AllCompensated, IInv, TypeOK
<1>3. ASSUME NEW d \in Drivers, NEW s \in Sagas, CompleteSaga(d, s)
      PROVE  Promise!Complete(s)
  BY <1>a, <1>b, <1>3 DEF CompleteSaga, Promise!Complete, Compensated,
         AllCompensated, IInv, TypeOK
<1>4. ASSUME NEW d \in Drivers, NEW s \in Sagas, CommitStep(d, s)
      PROVE  Promise!Commit(s)
  BY <1>a, <1>b, <1>4 DEF CommitStep, Promise!Commit, Compensated,
         AllCompensated, IInv, TypeOK, DriverInv
<1>5. ASSUME NEW d \in Drivers, NEW s \in Sagas, FailStep(d, s)
      PROVE  Promise!Fail(s)
  BY <1>a, <1>b, <1>5 DEF FailStep, Promise!Fail, Compensated,
         AllCompensated, IInv, TypeOK
<1>6. ASSUME NEW d \in Drivers, NEW s \in Sagas, CommitCompensation(d, s)
      PROVE  Promise!Finish(s)
  <2>1. status[s] = "COMPENSATING" /\ status \in [Sagas -> Statuses]
    BY <1>6 DEF CommitCompensation, IInv, TypeOK, DriverInv
  <2>2. /\ status' = [status EXCEPT ![s] = "COMPENSATED"]
        /\ step_index' = step_index
    BY <1>6 DEF CommitCompensation
  <2>3. AllCompensated' = [AllCompensated EXCEPT ![s] = step_index[s]]
    BY <2>1, <2>2 DEF AllCompensated
  <2>4. Compensated' = [Compensated EXCEPT ![s] = step_index[s]]
    BY <1>a, <1>b, <2>3
  <2>5. QED
    BY <2>1, <2>2, <2>4 DEF Promise!Finish, Compensated
<1>7. QED
  BY <1>1, <1>2, <1>3, <1>4, <1>5, <1>6
  DEF Promise!Next, Next, Advance, ResumeThread, vars, Boot, Scan, ScanFails,
      ResumeNext, ResumeDone, LockRow, FindTerminal, ExecuteStep,
      RunCompensations, StatementFails, Crash

\* The C++ orchestrator implements the abstract saga.
THEOREM Refinement == Spec => ImplementsSaga
  BY InitRefines, NextRefines, Invariance, PTL DEF Spec, ImplementsSaga, Promise!Spec

----------------------------------------------------------------------------
(* The consumer.                                                           *)
USE PoisonAssumption, NoPartitionAssumption, ConsumerBounds

\* How far the running consumer has handled a partition.
Reached(p) ==
  IF consumer = "process" /\ p = tp THEN position[p] - 1 ELSE position[p]

Progress(p) ==
  /\ committed[p] <= position[p]
  /\ Done(p, committed[p])
  /\ consumer \in {"process", "commit"} /\ p = tp => committed[p] < position[p]
  /\ consumer # "down" => Done(p, Reached(p))

ConsumerInv == ConsumerTypeOK /\ \A p \in Partitions : Progress(p)

----------------------------------------------------------------------------
\* Appending to a partition and adding rows keep what is done.
LEMMA DoneKept ==
  ASSUME ConsumerTypeOK, NEW p \in Partitions, NEW k \in Nat, k <= Len(topic[p]), Done(p, k),
         table \subseteq table',
         topic'[p] = topic[p] \/ \E m \in Messages : topic'[p] = Append(topic[p], m)
  PROVE  \A i \in 1..k : topic'[p][i] \in table' \cup {Poison}
<1>1. topic[p] \in Seq(Messages)
  BY DEF ConsumerTypeOK
<1>2. \A i \in 1..k : topic'[p][i] = topic[p][i]
  BY <1>1
<1> QED
  BY <1>2 DEF Done

LEMMA ConsumerInitially == ConsumerInit => ConsumerInv
<1> SUFFICES ASSUME ConsumerInit PROVE ConsumerInv
  OBVIOUS
<1>1. ConsumerTypeOK
  <2>1. topic \in [Partitions -> Seq(Messages)]
    BY DEF ConsumerInit
  <2>2. \A p \in Partitions :
          committed[p] = 0 /\ position[p] = 0 /\ Len(topic[p]) = 0
    BY DEF ConsumerInit
  <2>3. committed \in [Partitions -> Nat] /\ position \in [Partitions -> Nat]
    BY DEF ConsumerInit
  <2>4. 0 \in 0..MaxInsertErrors /\ 0 \in 0..MaxStops
    OBVIOUS
  <2>5. /\ tp = NoPartition /\ consumer = "down" /\ shutdown = FALSE
        /\ table = {} /\ insertErrors = 0 /\ stops = 0
    BY DEF ConsumerInit
  <2>6. \A p \in Partitions : committed[p] <= Len(topic[p]) /\ position[p] <= Len(topic[p])
    BY <2>2
  <2> QED BY <2>1, <2>3, <2>4, <2>5, <2>6 DEF ConsumerTypeOK
<1>2. ASSUME NEW p \in Partitions PROVE Progress(p)
  BY DEF ConsumerInit, Progress, Done
<1> QED
  BY <1>1, <1>2 DEF ConsumerInv

\* A message in hand is a message.
LEMMA MessageType ==
  ASSUME ConsumerInv, consumer \in {"process", "commit"}
  PROVE  Message \in Messages
<1>1. tp \in Partitions /\ topic[tp] \in Seq(Messages)
  BY DEF ConsumerInv, ConsumerTypeOK
<1>2. position[tp] \in 1 .. Len(topic[tp])
  BY <1>1 DEF ConsumerInv, ConsumerTypeOK, Progress
<1> QED
  BY <1>1, <1>2 DEF Message

LEMMA ConsumerTypeStep == ConsumerInv /\ [ConsumerNext]_consumerVars => ConsumerTypeOK'
<1> SUFFICES ASSUME ConsumerTypeOK, ConsumerInv, [ConsumerNext]_consumerVars PROVE ConsumerTypeOK'
  BY DEF ConsumerInv
<1> USE DEF ConsumerTypeOK, Messages
<1>1. ASSUME NEW p \in Partitions, NEW m \in Messages, Publish(p, m) PROVE ConsumerTypeOK'
  BY <1>1 DEF Publish
<1>2. CASE Start
  BY <1>2 DEF Start
<1>3. CASE Process
  <2>1. Message \in Messages
    BY <1>3, MessageType DEF Process
  <2> QED BY <1>3, <2>1 DEF Process
<1>4. CASE Commit
  BY <1>4 DEF Commit
<1>5. CASE LeaveLoop
  BY <1>5 DEF LeaveLoop
<1>6. ASSUME NEW p \in Partitions, Consume(p) PROVE ConsumerTypeOK'
  BY <1>6 DEF Consume
<1>7. CASE InsertFails
  <2>1. Message \in Messages
    BY <1>7, MessageType DEF InsertFails
  <2> QED BY <1>7, <2>1 DEF InsertFails
<1>8. CASE CommitFails
  BY <1>8 DEF CommitFails
<1>9. CASE Sigterm
  BY <1>9 DEF Sigterm
<1>10. CASE ConsumerCrash
  BY <1>10 DEF ConsumerCrash
<1>11. CASE UNCHANGED consumerVars
  BY <1>11 DEF consumerVars
<1> QED
  BY <1>1, <1>2, <1>3, <1>4, <1>5, <1>6, <1>7, <1>8, <1>9, <1>10, <1>11 DEF ConsumerNext, Loop

\* Every action keeps the progress of each partition.
LEMMA ProgressStep ==
  ASSUME ConsumerInv, ConsumerTypeOK', [ConsumerNext]_consumerVars, NEW p \in Partitions
  PROVE  Progress(p)'
<1>t. ConsumerTypeOK /\ Progress(p)
  BY DEF ConsumerInv
<1> USE <1>t DEF ConsumerTypeOK
<1>1. ASSUME NEW q \in Partitions, NEW m \in Messages, Publish(q, m) PROVE Progress(p)'
  <2>1. topic'[p] = topic[p] \/ topic'[p] = Append(topic[p], m)
    BY <1>1 DEF Publish
  <2>2. ASSUME NEW k \in Nat, k <= Len(topic[p]), Done(p, k)
        PROVE  \A i \in 1..k : topic'[p][i] \in table' \cup {Poison}
    BY <1>1, <2>1, <2>2, DoneKept DEF Publish
  <2>3. Reached(p) \in Nat /\ Reached(p) <= Len(topic[p]) /\ Reached(p)' = Reached(p)
    BY <1>1 DEF Publish, Progress, Reached
  <2> QED BY <1>1, <2>2, <2>3 DEF Publish, Progress, Done
<1>2. CASE Start
  BY <1>2 DEF Start, Progress, Reached, Done
<1>3. CASE Process
  BY <1>3 DEF Process, Progress, Reached, Done, Message
<1>4. CASE Commit
  BY <1>4 DEF Commit, Progress, Reached, Done
<1>5. CASE LeaveLoop
  BY <1>5 DEF LeaveLoop, Progress, Reached, Done
<1>6. ASSUME NEW q \in Partitions, Consume(q) PROVE Progress(p)'
  BY <1>6 DEF Consume, Progress, Reached, Done
<1>7. CASE InsertFails
  BY <1>7 DEF InsertFails, Progress, Reached, Done
<1>8. CASE CommitFails
  BY <1>8 DEF CommitFails, Progress, Reached, Done
<1>9. CASE Sigterm
  BY <1>9 DEF Sigterm, Progress, Reached, Done
<1>10. CASE ConsumerCrash
  BY <1>10 DEF ConsumerCrash, Progress, Reached, Done
<1>11. CASE UNCHANGED consumerVars
  BY <1>11 DEF consumerVars, Progress, Reached, Done
<1> QED
  BY <1>1, <1>2, <1>3, <1>4, <1>5, <1>6, <1>7, <1>8, <1>9, <1>10, <1>11 DEF ConsumerNext, Loop

LEMMA ConsumerStep == ConsumerInv /\ [ConsumerNext]_consumerVars => ConsumerInv'
  BY ConsumerTypeStep, ProgressStep DEF ConsumerInv

THEOREM ConsumerInvariance == ConsumerSpec => []ConsumerInv
<1>1. ConsumerInit => ConsumerInv
  BY ConsumerInitially
<1>2. ConsumerInv /\ [ConsumerNext]_consumerVars => ConsumerInv'
  BY ConsumerStep
<1> QED
  BY <1>1, <1>2, PTL DEF ConsumerSpec

----------------------------------------------------------------------------
\* Every variable keeps its shape.
THEOREM ConsumerTypeCorrect == ConsumerSpec => []ConsumerTypeOK
<1>1. ConsumerInv => ConsumerTypeOK
  BY DEF ConsumerInv
<1> QED
  BY <1>1, ConsumerInvariance, PTL

\* No order before a committed offset is without its row.
THEOREM CommitCorrect == ConsumerSpec => []CommitAfterSideEffect
<1>1. ConsumerInv => CommitAfterSideEffect
  BY DEF ConsumerInv, CommitAfterSideEffect, Progress
<1> QED
  BY <1>1, ConsumerInvariance, PTL

\* The consumer implements at-least-once delivery.
THEOREM ConsumerRefinement == ConsumerSpec => ImplementsAtLeastOnce
<1>1. ConsumerInit => Delivery!Init
  BY DEF ConsumerInit, Delivery!Init
<1>2. ConsumerInv /\ ConsumerInv' /\ [ConsumerNext]_consumerVars => [Delivery!Next]_(Delivery!vars)
  <2> SUFFICES ASSUME ConsumerInv, ConsumerInv', [ConsumerNext]_consumerVars
               PROVE  Delivery!Next \/ UNCHANGED Delivery!vars
    OBVIOUS
  <2> USE DEF Delivery!vars
  <2>1. ASSUME NEW p \in Partitions, NEW m \in Messages, Publish(p, m)
        PROVE  Delivery!Next
    BY <2>1 DEF Publish, Delivery!Next, Delivery!Publish
  <2>2. CASE Start
    BY <2>2 DEF Start
  <2>3. ASSUME Message # Poison => table' = table \cup {Message},
               Message = Poison => table' = table,
               consumer = "process", UNCHANGED <<topic, committed>>
        PROVE  Delivery!Next \/ UNCHANGED Delivery!vars
    <3>1. CASE Message = Poison
      BY <2>3, <3>1
    <3>2. CASE Message # Poison
      <4>1. tp \in Partitions /\ position[tp] \in DOMAIN topic[tp]
        BY <2>3 DEF ConsumerInv, ConsumerTypeOK, Progress
      <4>2. Delivery!Handle(tp, position[tp])
        BY <2>3, <3>2, <4>1 DEF Delivery!Handle, Message
      <4> QED BY <4>1, <4>2 DEF Delivery!Next
    <3> QED BY <3>1, <3>2
  <2>4. CASE Process
    BY <2>3, <2>4 DEF Process
  <2>5. CASE InsertFails
    <3>1. CASE table' = table
      BY <2>5, <3>1 DEF InsertFails
    <3>2. CASE table' # table
      BY <2>3, <2>5, <3>2 DEF InsertFails
    <3> QED BY <3>1, <3>2
  <2>6. CASE Commit
    <3>1. tp \in Partitions /\ position[tp] \in committed[tp] .. Len(topic[tp])
      BY <2>6 DEF Commit, ConsumerInv, ConsumerTypeOK, Progress
    <3>2. Done(tp, position[tp])
      BY <2>6, <3>1 DEF Commit, ConsumerInv, Progress, Reached
    <3>3. Delivery!Commit(tp, position[tp])
      BY <2>6, <3>1, <3>2 DEF Commit, Done, Delivery!Commit, Delivery!HandledUpTo
    <3> QED BY <3>1, <3>3 DEF Delivery!Next
  <2>7. ASSUME NEW p \in Partitions, Consume(p) PROVE UNCHANGED Delivery!vars
    BY <2>7 DEF Consume
  <2>8. CASE LeaveLoop \/ CommitFails \/ Sigterm \/ ConsumerCrash \/ UNCHANGED consumerVars
    BY <2>8 DEF LeaveLoop, CommitFails, Sigterm, ConsumerCrash, consumerVars
  <2> QED
    BY <2>1, <2>2, <2>4, <2>5, <2>6, <2>7, <2>8 DEF ConsumerNext, Loop
<1> QED
  BY <1>1, <1>2, ConsumerInvariance, PTL DEF ConsumerSpec, ImplementsAtLeastOnce, Delivery!Spec
=============================================================================
