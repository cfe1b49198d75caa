-------------------------- MODULE FileQueueProofs --------------------------
(***************************************************************************)
(* Theorems about the file queue for every number of operations, consumer  *)
(* tasks, restarts and deaths.  One inductive invariant carries them all;  *)
(* its parts are named for what they contribute.                           *)
(***************************************************************************)
EXTENDS FileQueue, PlaceFileProofs

\* A task that is past the pick has an operation.
CurInv == \A t \in Tasks : pc[t] \in Holding => cur[t] \in Ops

\* The two signals _ensure_consumer consults are never wrong about a live
\* consumer: it is the one the handle names, and the flag is up.
ConsumerInv == \A t \in Tasks : pc[t] # "idle" => active /\ handle = t

\* Whoever is about to write the row of an operation finds it in memory, and
\* what was answered or started has been written.
TraceInv ==
  /\ \A o \in Ops : add[o] \in {"record", "ensure"} => status[o] # "none"
  /\ \A t \in Tasks : pc[t] \in Holding => status[cur[t]] # "none"
  /\ lock # None => status[lock] # "none"
  /\ \A o \in Ops : add[o] \in {"ensure", "replied"} => row[o].status # "none"
  /\ \A o \in Ops : step[o] # "unstarted" => row[o].status # "none"

IInv == TypeOK /\ CurInv /\ ConsumerInv /\ TraceInv /\ DataInv /\ WriteInv

-----------------------------------------------------------------------------
\* Whatever happens to the queue, the variables of the worker change only by an
\* action of the worker's module on one operation, or by a restart.
LEMMA PFChanges ==
  ASSUME TypeOK, CurInv, [Next]_vars
  PROVE  (\E o \in Ops : PFAction(o)) \/ UNCHANGED pfVars \/ Restart
<1>1. CASE UNCHANGED vars
  BY <1>1 DEF vars
<1>2. CASE Restart
  BY <1>2
<1>3. ASSUME NEW o \in Ops, CancelRunning(o) PROVE PFAction(o)
  BY <1>3 DEF CancelRunning, PFAction
<1>4. ASSUME NEW t \in Tasks, RecordStart(t) \/ Work(t) \/ WorkRaises(t) PROVE cur[t] \in Ops /\ PFAction(cur[t])
  BY <1>4 DEF RecordStart, Work, WorkRaises, PFAction, WorkerStep, CurInv, Holding, PC
<1>5. CASE \E o \in Ops : HandlerStep(o)
  BY <1>5 DEF HandlerStep, AddRecord, AddEnsure, CompleteRowWrite
<1>6. ASSUME NEW o \in Ops, Operator(o), ~CancelRunning(o) PROVE UNCHANGED pfVars
  BY <1>6 DEF Operator, Add, CancelPending, Complete, CompleteRowRead
<1>7. ASSUME NEW t \in Tasks, Pick(t) \/ Drain(t) \/ Die(t) \/ Finish(t) \/ FinishInterrupted(t) \/
              FinishFailed(t) \/ RecordFailed(t) \/ RecordEnd(t) \/ StartImport(t) \/ ImportAnswered(t) \/ ImportRaised(t) \/ RecordImport(t)
      PROVE  UNCHANGED pfVars
  BY <1>7 DEF Pick, Drain, Die, Finish, FinishInterrupted, FinishFailed, RecordFailed, RecordEnd, StartImport, ImportAnswered, ImportRaised, RecordImport
<1>8. CASE WriteAndUnlock
  BY <1>8 DEF WriteAndUnlock
<1>9. QED
  BY <1>1, <1>2, <1>3, <1>4, <1>5, <1>6, <1>7, <1>8 DEF Next, TaskStep, Operator

\* The counters stay natural numbers.
LEMMA CountersStep ==
  ASSUME TypeOK
  PROVE  crashes + 1 \in Nat /\ deaths + 1 \in Nat /\ \A o \in Ops : arrived[o] + 1 \in Nat
BY DEF TypeOK

\* Every step keeps the variables in their types and a busy task its operation.
LEMMA TypeStep ==
  ASSUME TypeOK, CurInv, [Next]_vars
  PROVE  TypeOK' /\ CurInv'
<1> USE FQAssumption DEF TypeOK, CurInv, Status, Active, Import, PC, Holding
<1>1. PFTypeOK'
  <2>1. CASE \E o \in Ops : PFAction(o)
    BY <2>1, PFTypeStep
  <2>2. CASE UNCHANGED pfVars
    BY <2>2 DEF pfVars, PFTypeOK
  <2>3. CASE Restart
    BY <2>3 DEF Restart, PFTypeOK, Working, Returned
  <2>4. QED
    BY <2>1, <2>2, <2>3, PFChanges
<1> DEFINE Rest ==
   /\ queue \subseteq Ops /\ arrived \in [Ops -> Nat]
   /\ status \in [Ops -> Status] /\ imp \in [Ops -> Import]
   /\ add \in [Ops -> {"idle", "record", "ensure", "replied", "killed"}]
   /\ lock \in Ops \union {None} /\ rowEdits \subseteq Ops
   /\ row \in [Ops -> [status : Status, imp : Import]]
   /\ active \in BOOLEAN /\ handle \in Tasks \union {None}
   /\ pc \in [Tasks -> PC] /\ cur \in [Tasks -> Ops \union {None}]
   /\ crashes \in Nat /\ deaths \in Nat
<1>2. Rest' /\ CurInv'
  <2>1. ASSUME NEW o \in Ops, Add(o) PROVE Rest' /\ CurInv'
    <3>1. queue' \subseteq Ops
      <4>1. queue \union {o} \subseteq Ops
        BY <2>1
      <4>2. QED
        BY <4>1, <2>1 DEF Add, Trimmed
    <3>2. arrived' \in [Ops -> Nat]
      <4>1. PICK n \in {arrived[p] + 1 : p \in Ops} : arrived' = [arrived EXCEPT ![o] = n]
        BY <2>1 DEF Add
      <4>2. PICK p \in Ops : n = arrived[p] + 1
        BY <4>1
      <4>3. n \in Nat
        BY <4>2, CountersStep
      <4>4. QED
        BY <4>1, <4>3
    <3>3. QED
      BY <2>1, <3>1, <3>2 DEF Add
  <2>2. ASSUME NEW o \in Ops, AddRecord(o) PROVE Rest' /\ CurInv'
    BY <2>2 DEF AddRecord, Record
  <2>3. ASSUME NEW o \in Ops, AddEnsure(o) PROVE Rest' /\ CurInv'
    BY <2>3 DEF AddEnsure
  <2>4. ASSUME NEW o \in Ops, CancelPending(o) PROVE Rest' /\ CurInv'
    BY <2>4 DEF CancelPending, Pending
  <2>5. ASSUME NEW o \in Ops, CancelRunning(o) PROVE Rest' /\ CurInv'
    BY <2>5 DEF CancelRunning, fqVars
  <2>6. ASSUME NEW o \in Ops, Complete(o) PROVE Rest' /\ CurInv'
    BY <2>6 DEF Complete
  <2>7. ASSUME NEW o \in Ops, CompleteRowRead(o) PROVE Rest' /\ CurInv'
    BY <2>7 DEF CompleteRowRead
  <2>8. ASSUME NEW o \in Ops, CompleteRowWrite(o) PROVE Rest' /\ CurInv'
    BY <2>8 DEF CompleteRowWrite
  <2>9. ASSUME NEW t \in Tasks, Pick(t) PROVE Rest' /\ CurInv'
    <3>1. PICK o \in Ops : /\ status' = [status EXCEPT ![o] = "running"]
                           /\ cur' = [cur EXCEPT ![t] = o]
      BY <2>9 DEF Pick
    <3>2. pc' = [pc EXCEPT ![t] = "recordStart"]
      BY <2>9 DEF Pick
    <3>3. CurInv'
      BY <3>1, <3>2
    <3>4. Rest'
      BY <2>9, <3>1, <3>2 DEF Pick
    <3>5. QED
      BY <3>3, <3>4
  <2>10. ASSUME NEW t \in Tasks, Drain(t) PROVE Rest' /\ CurInv'
    BY <2>10 DEF Drain
  <2>11. ASSUME NEW t \in Tasks, RecordStart(t) PROVE Rest' /\ CurInv'
    BY <2>11 DEF RecordStart, Record, Call
  <2>12. ASSUME NEW t \in Tasks, Die(t) PROVE Rest' /\ CurInv'
    <3>1. CurInv'
      BY <2>12 DEF Die
    <3>2. deaths' = deaths + 1
      BY <2>12 DEF Die
    <3>3. deaths' \in Nat
      BY <3>2, CountersStep
    <3>4. QED
      BY <2>12, <3>1, <3>3 DEF Die
  <2>13. ASSUME NEW t \in Tasks, Work(t) PROVE Rest' /\ CurInv'
    BY <2>13 DEF Work, fqVars
  <2>14. ASSUME NEW t \in Tasks, WorkRaises(t) PROVE Rest' /\ CurInv'
    BY <2>14 DEF WorkRaises, fqVars
  <2>15. ASSUME NEW t \in Tasks, Finish(t) PROVE Rest' /\ CurInv'
    BY <2>15 DEF Finish
  <2>16. ASSUME NEW t \in Tasks, FinishInterrupted(t) PROVE Rest' /\ CurInv'
    BY <2>16 DEF FinishInterrupted, NextRound
  <2>17. ASSUME NEW t \in Tasks, FinishFailed(t) PROVE Rest' /\ CurInv'
    BY <2>17 DEF FinishFailed
  <2>18. ASSUME NEW t \in Tasks, RecordFailed(t) PROVE Rest' /\ CurInv'
    BY <2>18 DEF RecordFailed, Record, NextRound
  <2>19. ASSUME NEW t \in Tasks, RecordEnd(t) PROVE Rest' /\ CurInv'
    <3>1. row' \in [Ops -> [status : Status, imp : Import]]
      BY <2>19 DEF RecordEnd, Record
    <3>2. CASE ~cancelled[cur[t]] /\ req[cur[t]].arr
      BY <2>19, <3>1, <3>2 DEF RecordEnd
    <3>3. CASE ~(~cancelled[cur[t]] /\ req[cur[t]].arr)
      BY <2>19, <3>1, <3>3 DEF RecordEnd, NextRound
    <3>4. QED
      BY <3>2, <3>3
  <2>20. ASSUME NEW t \in Tasks, StartImport(t) PROVE Rest' /\ CurInv'
    BY <2>20 DEF StartImport
  <2>21. ASSUME NEW t \in Tasks, ImportAnswered(t) PROVE Rest' /\ CurInv'
    <3>1. PICK r \in {"imported", "import_failed"} : imp' = [imp EXCEPT ![cur[t]] = r]
      BY <2>21 DEF ImportAnswered
    <3>2. QED
      BY <2>21, <3>1 DEF ImportAnswered
  <2>22. ASSUME NEW t \in Tasks, ImportRaised(t) PROVE Rest' /\ CurInv'
    BY <2>22 DEF ImportRaised, NextRound
  <2>23. ASSUME NEW t \in Tasks, RecordImport(t) PROVE Rest' /\ CurInv'
    BY <2>23 DEF RecordImport, Record, NextRound
  <2>24. CASE WriteAndUnlock
    BY <2>24 DEF WriteAndUnlock, Record
  <2>25. CASE Restart
    <3>1. \A o \in Ops : Interrupted(row[o]) \in [status : Status, imp : Import]
      BY DEF Interrupted
    <3>2. crashes' \in Nat
      <4>1. crashes' = crashes + 1
        BY <2>25 DEF Restart
      <4>2. QED
        BY <4>1, CountersStep
    <3>3. QED
      BY <2>25, <3>1, <3>2 DEF Restart
  <2>26. CASE UNCHANGED vars
    BY <2>26 DEF vars, fqVars
  <2>27. QED
    BY <2>1, <2>2, <2>3, <2>4, <2>5, <2>6, <2>7, <2>8, <2>9, <2>10, <2>11, <2>12, <2>13, <2>14, <2>15, <2>16, <2>17, <2>18, <2>19, <2>20, <2>21, <2>22, <2>23, <2>24, <2>25, <2>26
       DEF Next, HandlerStep, Operator, TaskStep
<1>3. QED
  BY <1>1, <1>2

-----------------------------------------------------------------------------
\* A live consumer is the one both signals name.
LEMMA ConsumerStep ==
  ASSUME TypeOK, CurInv, ConsumerInv, [Next]_vars
  PROVE  ConsumerInv'
<1> USE DEF TypeOK, ConsumerInv, PC
<1>1. CASE Next
  <2>1. ASSUME NEW o \in Ops, Add(o) PROVE ConsumerInv'
    BY <2>1 DEF Add
  <2>2. ASSUME NEW o \in Ops, AddRecord(o) PROVE ConsumerInv'
    BY <2>2 DEF AddRecord, Record
  <2>3. ASSUME NEW o \in Ops, AddEnsure(o) PROVE ConsumerInv'
    <3>1. CASE ConsumerAlive
      BY <2>3, <3>1 DEF AddEnsure
    <3>2. CASE ~ConsumerAlive
      <4>1. \A u \in Tasks : pc[u] = "idle"
        BY <3>2, FQAssumption DEF ConsumerAlive
      <4>2. PICK t \in Tasks : handle' = t /\ pc' = [pc EXCEPT ![t] = "pick"]
        BY <2>3, <3>2 DEF AddEnsure
      <4>3. active'
        BY <2>3, <3>2 DEF AddEnsure
      <4>4. QED
        BY <4>1, <4>2, <4>3
    <3>3. QED
      BY <3>1, <3>2
  <2>4. ASSUME NEW o \in Ops, CancelPending(o) PROVE ConsumerInv'
    BY <2>4 DEF CancelPending, Pending
  <2>5. ASSUME NEW o \in Ops, CancelRunning(o) PROVE ConsumerInv'
    BY <2>5 DEF CancelRunning, fqVars
  <2>6. ASSUME NEW o \in Ops, Complete(o) PROVE ConsumerInv'
    BY <2>6 DEF Complete
  <2>7. ASSUME NEW o \in Ops, CompleteRowRead(o) PROVE ConsumerInv'
    BY <2>7 DEF CompleteRowRead
  <2>8. ASSUME NEW o \in Ops, CompleteRowWrite(o) PROVE ConsumerInv'
    BY <2>8 DEF CompleteRowWrite
  <2>9. ASSUME NEW t \in Tasks, Pick(t) PROVE ConsumerInv'
    BY <2>9 DEF Pick, Oldest
  <2>10. ASSUME NEW t \in Tasks, Drain(t) PROVE ConsumerInv'
    BY <2>10 DEF Drain
  <2>11. ASSUME NEW t \in Tasks, RecordStart(t) PROVE ConsumerInv'
    BY <2>11 DEF RecordStart, Record, Call
  <2>12. ASSUME NEW t \in Tasks, Die(t) PROVE ConsumerInv'
    BY <2>12 DEF Die
  <2>13. ASSUME NEW t \in Tasks, Work(t) PROVE ConsumerInv'
    BY <2>13 DEF Work, fqVars
  <2>14. ASSUME NEW t \in Tasks, WorkRaises(t) PROVE ConsumerInv'
    BY <2>14 DEF WorkRaises, fqVars
  <2>15. ASSUME NEW t \in Tasks, Finish(t) PROVE ConsumerInv'
    BY <2>15 DEF Finish
  <2>16. ASSUME NEW t \in Tasks, FinishInterrupted(t) PROVE ConsumerInv'
    BY <2>16 DEF FinishInterrupted, NextRound
  <2>17. ASSUME NEW t \in Tasks, FinishFailed(t) PROVE ConsumerInv'
    BY <2>17 DEF FinishFailed
  <2>18. ASSUME NEW t \in Tasks, RecordFailed(t) PROVE ConsumerInv'
    BY <2>18 DEF RecordFailed, Record, NextRound
  <2>19. ASSUME NEW t \in Tasks, RecordEnd(t) PROVE ConsumerInv'
    BY <2>19 DEF RecordEnd, Record, NextRound
  <2>20. ASSUME NEW t \in Tasks, StartImport(t) PROVE ConsumerInv'
    BY <2>20 DEF StartImport
  <2>21. ASSUME NEW t \in Tasks, ImportAnswered(t) PROVE ConsumerInv'
    BY <2>21 DEF ImportAnswered
  <2>22. ASSUME NEW t \in Tasks, ImportRaised(t) PROVE ConsumerInv'
    BY <2>22 DEF ImportRaised, NextRound
  <2>23. ASSUME NEW t \in Tasks, RecordImport(t) PROVE ConsumerInv'
    BY <2>23 DEF RecordImport, Record, NextRound
  <2>24. CASE WriteAndUnlock
    BY <2>24 DEF WriteAndUnlock, Record
  <2>25. CASE Restart
    BY <2>25 DEF Restart, Interrupted
  <2>26. QED
    BY <1>1, <2>1, <2>2, <2>3, <2>4, <2>5, <2>6, <2>7, <2>8, <2>9, <2>10, <2>11, <2>12, <2>13, <2>14, <2>15, <2>16, <2>17, <2>18, <2>19, <2>20, <2>21, <2>22, <2>23, <2>24, <2>25
       DEF Next, HandlerStep, Operator, TaskStep
<1>2. CASE UNCHANGED vars
  BY <1>2 DEF vars, fqVars, pfVars
<1>3. QED
  BY <1>1, <1>2

\* A restart changes nothing on disk, it only stops the workers.
LEMMA RestartKeepsData ==
  ASSUME PFTypeOK, DataInv, WriteInv, Restart
  PROVE  DataInv' /\ WriteInv'
BY DEF Restart, PFTypeOK, DataInv, WriteInv, IsDir, Working, Returned

\* Rows are written before they are needed.
LEMMA TraceStep ==
  ASSUME TypeOK, CurInv, TraceInv, [Next]_vars
  PROVE  TraceInv'
<1> USE DEF TypeOK, PFTypeOK, CurInv, TraceInv, PC, Holding, Status, Active
<1>1. CASE Next
  <2>1. ASSUME NEW o \in Ops, Add(o) PROVE TraceInv'
    BY <2>1 DEF Add, pfVars
  <2>2. ASSUME NEW o \in Ops, AddRecord(o) PROVE TraceInv'
    BY <2>2 DEF AddRecord, Record, pfVars
  <2>3. ASSUME NEW o \in Ops, AddEnsure(o) PROVE TraceInv'
    BY <2>3 DEF AddEnsure, ConsumerAlive, pfVars
  <2>4. ASSUME NEW o \in Ops, CancelPending(o) PROVE TraceInv'
    BY <2>4 DEF CancelPending, Pending, pfVars
  <2>5. ASSUME NEW o \in Ops, CancelRunning(o) PROVE TraceInv'
    BY <2>5 DEF CancelRunning, RaiseCancel, fqVars
  <2>6. ASSUME NEW o \in Ops, Complete(o) PROVE TraceInv'
    BY <2>6 DEF Complete, pfVars
  <2>7. ASSUME NEW o \in Ops, CompleteRowRead(o) PROVE TraceInv'
    BY <2>7 DEF CompleteRowRead, pfVars
  <2>8. ASSUME NEW o \in Ops, CompleteRowWrite(o) PROVE TraceInv'
    BY <2>8 DEF CompleteRowWrite, pfVars
  <2>9. ASSUME NEW t \in Tasks, Pick(t) PROVE TraceInv'
    BY <2>9 DEF Pick, Oldest, pfVars
  <2>10. ASSUME NEW t \in Tasks, Drain(t) PROVE TraceInv'
    BY <2>10 DEF Drain, pfVars
  <2>11. ASSUME NEW t \in Tasks, RecordStart(t) PROVE TraceInv'
    <3>1. cur[t] \in Ops /\ status[cur[t]] # "none"
      BY <2>11 DEF RecordStart
    <3>2. /\ step' = [step EXCEPT ![cur[t]] = "called"]
          /\ pc' = [pc EXCEPT ![t] = "run"]
          /\ UNCHANGED <<status, add, lock, cur>>
      BY <2>11 DEF RecordStart, Call, Goto
    <3>3. \A o \in Ops : row'[o].status = IF o = cur[t] THEN status[o] ELSE row[o].status
      BY <2>11, <3>1 DEF RecordStart, Record
    <3>4. \A o \in Ops : add'[o] \in {"ensure", "replied"} => row'[o].status # "none"
      BY <3>1, <3>2, <3>3
    <3>5. \A o \in Ops : step'[o] # "unstarted" => row'[o].status # "none"
      BY <3>1, <3>2, <3>3
    <3>6. \A u \in Tasks : pc'[u] \in Holding => status'[cur'[u]] # "none"
      BY <3>1, <3>2
    <3>7. QED
      BY <3>2, <3>4, <3>5, <3>6
  <2>12. ASSUME NEW t \in Tasks, Die(t) PROVE TraceInv'
    BY <2>12 DEF Die, pfVars
  <2>13. ASSUME NEW t \in Tasks, Work(t) PROVE TraceInv'
    BY <2>13 DEF Work, WorkerProgress, AlreadyPlaced, Link, StartChunks, Rename, StartTree, TreeRefused, FinishTree, Interrupt, LastChunk, Publish, Cleanup, RemoveSome, RemoveSource, Goto, fqVars
  <2>14. ASSUME NEW t \in Tasks, WorkRaises(t) PROVE TraceInv'
    BY <2>14 DEF WorkRaises, Raise, Goto, Working, fqVars
  <2>15. ASSUME NEW t \in Tasks, Finish(t) PROVE TraceInv'
    BY <2>15 DEF Finish, pfVars
  <2>16. ASSUME NEW t \in Tasks, FinishInterrupted(t) PROVE TraceInv'
    BY <2>16 DEF FinishInterrupted, NextRound, pfVars
  <2>17. ASSUME NEW t \in Tasks, FinishFailed(t) PROVE TraceInv'
    BY <2>17 DEF FinishFailed, pfVars
  <2>18. ASSUME NEW t \in Tasks, RecordFailed(t) PROVE TraceInv'
    BY <2>18 DEF RecordFailed, Record, NextRound, pfVars
  <2>19. ASSUME NEW t \in Tasks, RecordEnd(t) PROVE TraceInv'
    <3>1. cur[t] \in Ops /\ status[cur[t]] # "none"
      BY <2>19 DEF RecordEnd
    <3>2. UNCHANGED <<status, add, lock, step>>
      BY <2>19 DEF RecordEnd, pfVars
    <3>3. \A o \in Ops : row'[o].status = IF o = cur[t] THEN status[o] ELSE row[o].status
      BY <2>19, <3>1 DEF RecordEnd, Record
    <3>4. \A u \in Tasks : pc'[u] \in Holding => pc[u] \in Holding /\ cur'[u] = cur[u]
      BY <2>19 DEF RecordEnd, NextRound
    <3>5. \A o \in Ops : add'[o] \in {"ensure", "replied"} => row'[o].status # "none"
      BY <3>1, <3>2, <3>3
    <3>6. \A o \in Ops : step'[o] # "unstarted" => row'[o].status # "none"
      BY <3>1, <3>2, <3>3
    <3>7. \A u \in Tasks : pc'[u] \in Holding => status'[cur'[u]] # "none"
      BY <3>2, <3>4
    <3>8. QED
      BY <3>2, <3>5, <3>6, <3>7
  <2>20. ASSUME NEW t \in Tasks, StartImport(t) PROVE TraceInv'
    BY <2>20 DEF StartImport, pfVars
  <2>21. ASSUME NEW t \in Tasks, ImportAnswered(t) PROVE TraceInv'
    BY <2>21 DEF ImportAnswered, pfVars
  <2>22. ASSUME NEW t \in Tasks, ImportRaised(t) PROVE TraceInv'
    BY <2>22 DEF ImportRaised, NextRound, pfVars
  <2>23. ASSUME NEW t \in Tasks, RecordImport(t) PROVE TraceInv'
    BY <2>23 DEF RecordImport, Record, NextRound, pfVars
  <2>24. CASE WriteAndUnlock
    BY <2>24 DEF WriteAndUnlock, Record, pfVars
  <2>25. CASE Restart
    <3>1. \A o \in Ops : row'[o].status = "none" => row[o].status = "none"
      BY <2>25 DEF Restart, Interrupted
    <3>2. /\ \A o \in Ops : add'[o] \notin {"record", "ensure"}
          /\ \A o \in Ops : add'[o] = "replied" => add[o] = "replied"
          /\ \A t \in Tasks : pc'[t] = "idle"
          /\ lock' = None
      BY <2>25 DEF Restart
    <3>3. \A o \in Ops : step'[o] # "unstarted" => step[o] # "unstarted"
      BY <2>25 DEF Restart, Working
    <3>4. QED
      BY <3>1, <3>2, <3>3
  <2>26. QED
    BY <1>1, <2>1, <2>2, <2>3, <2>4, <2>5, <2>6, <2>7, <2>8, <2>9, <2>10, <2>11, <2>12, <2>13, <2>14, <2>15, <2>16, <2>17, <2>18, <2>19, <2>20, <2>21, <2>22, <2>23, <2>24, <2>25
       DEF Next, HandlerStep, Operator, TaskStep
<1>2. CASE UNCHANGED vars
  BY <1>2 DEF vars, fqVars, pfVars
<1>3. QED
  BY <1>1, <1>2

\* The invariant of the queue.
THEOREM Invariance == Spec => []IInv
<1>1. Init => IInv
  <2> SUFFICES ASSUME Init PROVE IInv
    OBVIOUS
  <2>1. PFTypeOK /\ DataInv /\ WriteInv
    BY PFInitInv DEF Init
  <2>2. TypeOK
    BY <2>1 DEF Init, TypeOK, Status, Import, PC
  <2>3. CurInv /\ ConsumerInv
    BY DEF Init, CurInv, ConsumerInv, Holding
  <2>4. TraceInv
    BY DEF Init, PFInit, TraceInv, Holding
  <2>5. QED
    BY <2>1, <2>2, <2>3, <2>4 DEF IInv
<1>2. IInv /\ [Next]_vars => IInv'
  <2> SUFFICES ASSUME IInv, [Next]_vars PROVE IInv'
    OBVIOUS
  <2>1. TypeOK' /\ CurInv'
    BY TypeStep DEF IInv
  <2>2. ConsumerInv'
    BY ConsumerStep DEF IInv
  <2>3. TraceInv'
    BY TraceStep DEF IInv
  <2>4. DataInv' /\ WriteInv'
    <3>1. CASE \E o \in Ops : PFAction(o)
      BY <3>1, PFStepInv DEF IInv, TypeOK
    <3>2. CASE UNCHANGED pfVars
      BY <3>2 DEF IInv, pfVars, DataInv, WriteInv, IsDir
    <3>3. CASE Restart
      BY <3>3, RestartKeepsData DEF IInv, TypeOK
    <3>4. QED
      BY <3>1, <3>2, <3>3, PFChanges DEF IInv
  <2>5. QED
    BY <2>1, <2>2, <2>3, <2>4 DEF IInv
<1>3. QED
  BY <1>1, <1>2, PTL DEF Spec

-----------------------------------------------------------------------------
\* The variables of the queue, its table and its workers keep their types.
THEOREM TypeCorrect == Spec => []TypeOK
<1>1. IInv => TypeOK
  BY DEF IInv
<1>2. QED
  BY <1>1, Invariance, PTL

\* _ensure_consumer and _consume_queue: never two consumers at once.
THEOREM SingleConsumer == Spec => []OneConsumer
<1>1. IInv => OneConsumer
  BY DEF IInv, ConsumerInv, OneConsumer
<1>2. QED
  BY <1>1, Invariance, PTL

\* place_file under the queue: no cancel, failure, hand completion, death or
\* restart ever leaves an operation without a complete copy of its data.
THEOREM QueueNeverLosesData == Spec => []DataNeverLost
<1>1. IInv => DataNeverLost
  BY DEF IInv, DataInv, DataNeverLost
<1>2. QED
  BY <1>1, Invariance, PTL

\* queue_add: what was answered or has touched the disk has a row.
THEOREM AcceptedStaysDurable == Spec => []AcceptedIsDurable
<1>1. IInv => AcceptedIsDurable
  BY DEF IInv, TraceInv, AcceptedIsDurable
<1>2. QED
  BY <1>1, Invariance, PTL

-----------------------------------------------------------------------------

\* What an operation that nobody added is, and where an operation in hand is: the
\* queue holds whatever is pending or running, and a row that is completed by hand
\* is of none that it holds.
KeepInv ==
  /\ \A o \in Ops : add[o] = "idle" => status[o] = "none" /\ arrived[o] = 0 /\ row[o].status = "none"
  /\ \A o \in Ops : status[o] \in Active => o \in queue
  /\ \A o \in queue : status[o] # "none"
  /\ \A o \in rowEdits : o \notin queue /\ add[o] # "idle"
  /\ \A t \in Tasks : pc[t] \in Holding => status[cur[t]] # "pending"
  /\ \A t \in Tasks : pc[t] = "recordFailed" => step[cur[t]] = "error"

\* The outcome of o is still to be written, or nothing will write it.
Owed(o) ==
  \/ lock = o
  \/ add[o] = "record"
  \/ \E t \in Tasks : cur[t] = o /\ pc[t] \in {"recordEnd", "recordFailed"}
  \/ Unwritten(o)

\* Why the table tells the truth: an outcome in memory is in the table or owed to
\* it, and so is that of an operation that the queue dropped.
OweInv ==
  \A o \in Ops :
    /\ o \in queue /\ status[o] \in Terminal => row[o].status = status[o] \/ Owed(o)
    /\ o \notin queue /\ row[o].status \in Active => Owed(o)

-----------------------------------------------------------------------------
\* What record_operation leaves in the table.
LEMMA Writes ==
  ASSUME TypeOK, NEW o \in Ops, Record(o)
  PROVE  \A p \in Ops : row'[p].status = IF p = o THEN status[o] ELSE row[p].status
BY DEF TypeOK, Record

LEMMA KeepStep ==
  ASSUME TypeOK, CurInv, ConsumerInv, TraceInv, KeepInv, [Next]_vars
  PROVE  KeepInv'
<1> USE FQAssumption DEF TypeOK, PFTypeOK, CurInv, ConsumerInv, TraceInv, KeepInv, PC, Holding, Status, Active, Terminal
<1>1. CASE Next
  <2>1. ASSUME NEW o \in Ops, Add(o) PROVE KeepInv'
    BY <2>1 DEF Add, Trimmed, pfVars
  <2>2. ASSUME NEW o \in Ops, AddRecord(o) PROVE KeepInv'
    BY <2>2, Writes DEF AddRecord, pfVars
  <2>3. ASSUME NEW o \in Ops, AddEnsure(o) PROVE KeepInv'
    BY <2>3 DEF AddEnsure, ConsumerAlive, pfVars
  <2>4. ASSUME NEW o \in Ops, CancelPending(o) PROVE KeepInv'
    BY <2>4 DEF CancelPending, Pending, pfVars
  <2>5. ASSUME NEW o \in Ops, CancelRunning(o) PROVE KeepInv'
    BY <2>5 DEF CancelRunning, RaiseCancel, fqVars
  <2>6. ASSUME NEW o \in Ops, Complete(o) PROVE KeepInv'
    BY <2>6 DEF Complete, pfVars
  <2>7. ASSUME NEW o \in Ops, CompleteRowRead(o) PROVE KeepInv'
    BY <2>7 DEF CompleteRowRead, pfVars
  <2>8. ASSUME NEW o \in Ops, CompleteRowWrite(o) PROVE KeepInv'
    BY <2>8 DEF CompleteRowWrite, pfVars
  <2>9. ASSUME NEW t \in Tasks, Pick(t) PROVE KeepInv'
    BY <2>9 DEF Pick, Oldest, Pending, pfVars
  <2>10. ASSUME NEW t \in Tasks, Drain(t) PROVE KeepInv'
    BY <2>10 DEF Drain, Pending, pfVars
  <2>11. ASSUME NEW t \in Tasks, RecordStart(t) PROVE KeepInv'
    <3>1. cur[t] \in Ops /\ status[cur[t]] # "none" /\ \A u \in Tasks : pc[u] # "idle" => u = t
      BY <2>11 DEF RecordStart
    <3>2. \A o \in Ops : row'[o].status = IF o = cur[t] THEN status[o] ELSE row[o].status
      BY <2>11, <3>1, Writes DEF RecordStart
    <3>3. /\ pc' = [pc EXCEPT ![t] = "run"]
          /\ UNCHANGED <<queue, arrived, status, add, rowEdits, cur>>
      BY <2>11 DEF RecordStart
    <3>4. \A u \in Tasks : pc'[u] \in Holding => pc[u] \in Holding /\ pc'[u] # "recordFailed"
      BY <2>11, <3>1, <3>3 DEF RecordStart
    <3>5. \A o \in Ops : add'[o] = "idle" => row'[o].status = "none"
      BY <3>1, <3>2, <3>3
    <3>6. QED
      BY <3>3, <3>4, <3>5
  <2>12. ASSUME NEW t \in Tasks, Die(t) PROVE KeepInv'
    BY <2>12 DEF Die, pfVars
  <2>13. ASSUME NEW t \in Tasks, Work(t) PROVE KeepInv'
    <3>1. step[cur[t]] \notin {"unstarted", "error"} /\ \A o \in Ops \ {cur[t]} : step'[o] = step[o]
      BY <2>13 DEF Work, WorkerProgress, AlreadyPlaced, Link, StartChunks, Rename, StartTree, TreeRefused, FinishTree, Interrupt, LastChunk, Publish, Cleanup, RemoveSome, RemoveSource, Goto
    <3>2. UNCHANGED fqVars
      BY <2>13 DEF Work
    <3>3. QED
      BY <2>13, <3>1, <3>2 DEF fqVars
  <2>14. ASSUME NEW t \in Tasks, WorkRaises(t) PROVE KeepInv'
    BY <2>14 DEF WorkRaises, Raise, Goto, Working, fqVars
  <2>15. ASSUME NEW t \in Tasks, Finish(t) PROVE KeepInv'
    BY <2>15 DEF Finish, pfVars
  <2>16. ASSUME NEW t \in Tasks, FinishInterrupted(t) PROVE KeepInv'
    BY <2>16 DEF FinishInterrupted, NextRound, pfVars
  <2>17. ASSUME NEW t \in Tasks, FinishFailed(t) PROVE KeepInv'
    BY <2>17 DEF FinishFailed, pfVars
  <2>18. ASSUME NEW t \in Tasks, RecordFailed(t) PROVE KeepInv'
    BY <2>18, Writes DEF RecordFailed, NextRound, pfVars
  <2>19. ASSUME NEW t \in Tasks, RecordEnd(t) PROVE KeepInv'
    <3>1. cur[t] \in Ops /\ status[cur[t]] # "none"
      BY <2>19 DEF RecordEnd
    <3>2. \A o \in Ops : row'[o].status = IF o = cur[t] THEN status[o] ELSE row[o].status
      BY <2>19, <3>1, Writes DEF RecordEnd
    <3>3. UNCHANGED <<queue, arrived, status, add, rowEdits, step>>
      BY <2>19 DEF RecordEnd, pfVars
    <3>4. \A u \in Tasks : pc'[u] \in Holding => pc[u] \in Holding /\ cur'[u] = cur[u]
                                              /\ (pc'[u] = "recordFailed" => pc[u] = "recordFailed")
      BY <2>19 DEF RecordEnd, NextRound
    <3>5. \A o \in Ops : add'[o] = "idle" => row'[o].status = "none"
      BY <3>1, <3>2, <3>3
    <3>6. QED
      BY <3>3, <3>4, <3>5
  <2>20. ASSUME NEW t \in Tasks, StartImport(t) PROVE KeepInv'
    BY <2>20 DEF StartImport, pfVars
  <2>21. ASSUME NEW t \in Tasks, ImportAnswered(t) PROVE KeepInv'
    BY <2>21 DEF ImportAnswered, pfVars
  <2>22. ASSUME NEW t \in Tasks, ImportRaised(t) PROVE KeepInv'
    BY <2>22 DEF ImportRaised, NextRound, pfVars
  <2>23. ASSUME NEW t \in Tasks, RecordImport(t) PROVE KeepInv'
    <3>1. cur[t] \in Ops /\ status[cur[t]] # "none"
      BY <2>23 DEF RecordImport
    <3>2. \A o \in Ops : row'[o].status = IF o = cur[t] THEN status[o] ELSE row[o].status
      BY <2>23, <3>1, Writes DEF RecordImport
    <3>3. UNCHANGED <<queue, arrived, status, add, rowEdits, step>>
      BY <2>23 DEF RecordImport, pfVars
    <3>4. \A u \in Tasks : pc'[u] \in Holding => pc[u] \in Holding /\ cur'[u] = cur[u]
                                              /\ (pc'[u] = "recordFailed" => pc[u] = "recordFailed")
      BY <2>23 DEF RecordImport, NextRound
    <3>5. \A o \in Ops : add'[o] = "idle" => row'[o].status = "none"
      BY <3>1, <3>2, <3>3
    <3>6. QED
      BY <3>3, <3>4, <3>5
  <2>24. CASE WriteAndUnlock
    BY <2>24, Writes DEF WriteAndUnlock, pfVars
  <2>25. CASE Restart
    BY <2>25 DEF Restart, Interrupted, Working
  <2>26. QED
    BY <1>1, <2>1, <2>2, <2>3, <2>4, <2>5, <2>6, <2>7, <2>8, <2>9, <2>10, <2>11, <2>12, <2>13,
       <2>14, <2>15, <2>16, <2>17, <2>18, <2>19, <2>20, <2>21, <2>22, <2>23, <2>24, <2>25
       DEF Next, HandlerStep, Operator, TaskStep
<1>2. CASE UNCHANGED vars
  BY <1>2 DEF vars, fqVars, pfVars
<1>3. QED
  BY <1>1, <1>2

LEMMA OweStep ==
  ASSUME TypeOK, CurInv, ConsumerInv, TraceInv, KeepInv, OweInv, [Next]_vars
  PROVE  OweInv'
<1> USE FQAssumption DEF TypeOK, PFTypeOK, CurInv, ConsumerInv, TraceInv, KeepInv, OweInv, Owed, Unwritten, PC, Holding, Status, Active, Terminal
<1>1. CASE Next
  <2>1. ASSUME NEW o \in Ops, Add(o) PROVE OweInv'
    BY <2>1 DEF Add, Trimmed, pfVars
  <2>2. ASSUME NEW o \in Ops, AddRecord(o) PROVE OweInv'
    BY <2>2, Writes DEF AddRecord, pfVars
  <2>3. ASSUME NEW o \in Ops, AddEnsure(o) PROVE OweInv'
    BY <2>3 DEF AddEnsure, ConsumerAlive, pfVars
  <2>4. ASSUME NEW o \in Ops, CancelPending(o) PROVE OweInv'
    <3>1. lock = None /\ lock' = o /\ UNCHANGED <<queue, add, row, pc, cur, deaths, step>>
      BY <2>4 DEF CancelPending, LockFree, pfVars
    <3>2. \A p \in Ops \ {o} : status'[p] = status[p] /\ (Owed(p) => Owed(p)')
      BY <2>4, <3>1 DEF CancelPending
    <3>3. Owed(o)'
      BY <3>1
    <3> HIDE DEF Owed
    <3>4. QED
      BY <3>1, <3>2, <3>3
  <2>5. ASSUME NEW o \in Ops, CancelRunning(o) PROVE OweInv'
    BY <2>5 DEF CancelRunning, RaiseCancel, fqVars
  <2>6. ASSUME NEW o \in Ops, Complete(o) PROVE OweInv'
    <3>1. lock = None /\ lock' = o /\ UNCHANGED <<queue, add, row, pc, cur, deaths, step>>
      BY <2>6 DEF Complete, LockFree, pfVars
    <3>2. \A p \in Ops \ {o} : status'[p] = status[p] /\ (Owed(p) => Owed(p)')
      BY <2>6, <3>1 DEF Complete
    <3>3. Owed(o)'
      BY <3>1
    <3> HIDE DEF Owed
    <3>4. QED
      BY <3>1, <3>2, <3>3
  <2>7. ASSUME NEW o \in Ops, CompleteRowRead(o) PROVE OweInv'
    BY <2>7 DEF CompleteRowRead, pfVars
  <2>8. ASSUME NEW o \in Ops, CompleteRowWrite(o) PROVE OweInv'
    BY <2>8 DEF CompleteRowWrite, pfVars
  <2>9. ASSUME NEW t \in Tasks, Pick(t) PROVE OweInv'
    BY <2>9 DEF Pick, Oldest, Pending, pfVars
  <2>10. ASSUME NEW t \in Tasks, Drain(t) PROVE OweInv'
    BY <2>10 DEF Drain, Pending, pfVars
  <2>11. ASSUME NEW t \in Tasks, RecordStart(t) PROVE OweInv'
    BY <2>11, Writes DEF RecordStart, Call, Goto
  <2>12. ASSUME NEW t \in Tasks, Die(t) PROVE OweInv'
    BY <2>12 DEF Die, pfVars
  <2>13. ASSUME NEW t \in Tasks, Work(t) PROVE OweInv'
    <3>1. \A o \in Ops : Unwritten(o) => Unwritten(o)'
      BY <2>13 DEF Work, WorkerProgress, AlreadyPlaced, Link, StartChunks, Rename, StartTree, TreeRefused, FinishTree, Interrupt, LastChunk, Publish, Cleanup, RemoveSome, RemoveSource, Goto, fqVars
    <3>2. UNCHANGED fqVars
      BY <2>13 DEF Work
    <3> HIDE DEF Unwritten
    <3>3. QED
      BY <3>1, <3>2 DEF fqVars
  <2>14. ASSUME NEW t \in Tasks, WorkRaises(t) PROVE OweInv'
    BY <2>14 DEF WorkRaises, Raise, Goto, Working, fqVars
  <2>15. ASSUME NEW t \in Tasks, Finish(t) PROVE OweInv'
    BY <2>15 DEF Finish, pfVars
  <2>16. ASSUME NEW t \in Tasks, FinishInterrupted(t) PROVE OweInv'
    BY <2>16 DEF FinishInterrupted, NextRound, pfVars
  <2>17. ASSUME NEW t \in Tasks, FinishFailed(t) PROVE OweInv'
    BY <2>17 DEF FinishFailed, pfVars
  <2>18. ASSUME NEW t \in Tasks, RecordFailed(t) PROVE OweInv'
    BY <2>18, Writes DEF RecordFailed, NextRound, pfVars
  <2>19. ASSUME NEW t \in Tasks, RecordEnd(t) PROVE OweInv'
    BY <2>19, Writes DEF RecordEnd, NextRound, pfVars
  <2>20. ASSUME NEW t \in Tasks, StartImport(t) PROVE OweInv'
    BY <2>20 DEF StartImport, pfVars
  <2>21. ASSUME NEW t \in Tasks, ImportAnswered(t) PROVE OweInv'
    BY <2>21 DEF ImportAnswered, pfVars
  <2>22. ASSUME NEW t \in Tasks, ImportRaised(t) PROVE OweInv'
    BY <2>22 DEF ImportRaised, NextRound, pfVars
  <2>23. ASSUME NEW t \in Tasks, RecordImport(t) PROVE OweInv'
    BY <2>23, Writes DEF RecordImport, NextRound, pfVars
  <2>24. CASE WriteAndUnlock
    BY <2>24, Writes DEF WriteAndUnlock, pfVars
  <2>25. CASE Restart
    <3>1. \A o \in Ops : Interrupted(row[o]).status \notin Active
      BY DEF Interrupted
    <3>2. queue' = {} /\ \A o \in Ops : row'[o] = Interrupted(row[o])
      BY <2>25 DEF Restart
    <3>3. QED
      BY <3>1, <3>2
  <2>26. QED
    BY <1>1, <2>1, <2>2, <2>3, <2>4, <2>5, <2>6, <2>7, <2>8, <2>9, <2>10, <2>11, <2>12, <2>13,
       <2>14, <2>15, <2>16, <2>17, <2>18, <2>19, <2>20, <2>21, <2>22, <2>23, <2>24, <2>25
       DEF Next, HandlerStep, Operator, TaskStep
<1>2. CASE UNCHANGED vars
  BY <1>2 DEF vars, fqVars, pfVars
<1>3. QED
  BY <1>1, <1>2

LEMMA WakeStep ==
  ASSUME TypeOK, CurInv, ConsumerInv, NoLostWakeup, [Next]_vars
  PROVE  NoLostWakeup'
<1> USE FQAssumption DEF TypeOK, ConsumerInv, NoLostWakeup, Pending, PC, Holding, Status, Active
<1>1. CASE Next
  <2>1. ASSUME NEW o \in Ops, Add(o) PROVE NoLostWakeup'
    BY <2>1 DEF Add, Trimmed, pfVars
  <2>2. ASSUME NEW o \in Ops, AddRecord(o) PROVE NoLostWakeup'
    BY <2>2, Writes DEF AddRecord, pfVars
  <2>3. ASSUME NEW o \in Ops, AddEnsure(o) PROVE NoLostWakeup'
    <3>1. \E t \in Tasks : pc'[t] # "idle"
      <4>1. CASE ConsumerAlive
        BY <2>3, <4>1 DEF AddEnsure, ConsumerAlive
      <4>2. CASE ~ConsumerAlive
        BY <2>3, <4>2 DEF AddEnsure
      <4>3. QED
        BY <4>1, <4>2
    <3>2. QED
      BY <3>1
  <2>4. ASSUME NEW o \in Ops, CancelPending(o) PROVE NoLostWakeup'
    BY <2>4 DEF CancelPending, Pending, pfVars
  <2>5. ASSUME NEW o \in Ops, CancelRunning(o) PROVE NoLostWakeup'
    BY <2>5 DEF CancelRunning, RaiseCancel, fqVars
  <2>6. ASSUME NEW o \in Ops, Complete(o) PROVE NoLostWakeup'
    BY <2>6 DEF Complete, pfVars
  <2>7. ASSUME NEW o \in Ops, CompleteRowRead(o) PROVE NoLostWakeup'
    BY <2>7 DEF CompleteRowRead, pfVars
  <2>8. ASSUME NEW o \in Ops, CompleteRowWrite(o) PROVE NoLostWakeup'
    BY <2>8 DEF CompleteRowWrite, pfVars
  <2>9. ASSUME NEW t \in Tasks, Pick(t) PROVE NoLostWakeup'
    BY <2>9 DEF Pick, Oldest, Pending, pfVars
  <2>10. ASSUME NEW t \in Tasks, Drain(t) PROVE NoLostWakeup'
    BY <2>10 DEF Drain, Pending, pfVars
  <2>11. ASSUME NEW t \in Tasks, RecordStart(t) PROVE NoLostWakeup'
    BY <2>11, Writes DEF RecordStart, Call, Goto
  <2>12. ASSUME NEW t \in Tasks, Die(t) PROVE NoLostWakeup'
    <3>1. active' /\ deaths' = deaths + 1 /\ deaths \in Nat
      BY <2>12 DEF Die
    <3>2. deaths' > 0
      BY <3>1
    <3>3. QED
      BY <3>1, <3>2
  <2>13. ASSUME NEW t \in Tasks, Work(t) PROVE NoLostWakeup'
    BY <2>13 DEF Work, fqVars
  <2>14. ASSUME NEW t \in Tasks, WorkRaises(t) PROVE NoLostWakeup'
    BY <2>14 DEF WorkRaises, Raise, Goto, Working, fqVars
  <2>15. ASSUME NEW t \in Tasks, Finish(t) PROVE NoLostWakeup'
    BY <2>15 DEF Finish, pfVars
  <2>16. ASSUME NEW t \in Tasks, FinishInterrupted(t) PROVE NoLostWakeup'
    BY <2>16 DEF FinishInterrupted, NextRound, pfVars
  <2>17. ASSUME NEW t \in Tasks, FinishFailed(t) PROVE NoLostWakeup'
    BY <2>17 DEF FinishFailed, pfVars
  <2>18. ASSUME NEW t \in Tasks, RecordFailed(t) PROVE NoLostWakeup'
    BY <2>18, Writes DEF RecordFailed, NextRound, pfVars
  <2>19. ASSUME NEW t \in Tasks, RecordEnd(t) PROVE NoLostWakeup'
    BY <2>19, Writes DEF RecordEnd, NextRound, pfVars
  <2>20. ASSUME NEW t \in Tasks, StartImport(t) PROVE NoLostWakeup'
    BY <2>20 DEF StartImport, pfVars
  <2>21. ASSUME NEW t \in Tasks, ImportAnswered(t) PROVE NoLostWakeup'
    BY <2>21 DEF ImportAnswered, pfVars
  <2>22. ASSUME NEW t \in Tasks, ImportRaised(t) PROVE NoLostWakeup'
    BY <2>22 DEF ImportRaised, NextRound, pfVars
  <2>23. ASSUME NEW t \in Tasks, RecordImport(t) PROVE NoLostWakeup'
    BY <2>23, Writes DEF RecordImport, NextRound, pfVars
  <2>24. CASE WriteAndUnlock
    BY <2>24, Writes DEF WriteAndUnlock, pfVars
  <2>25. CASE Restart
    BY <2>25 DEF Restart, Interrupted, Working
  <2>26. QED
    BY <1>1, <2>1, <2>2, <2>3, <2>4, <2>5, <2>6, <2>7, <2>8, <2>9, <2>10, <2>11, <2>12, <2>13,
       <2>14, <2>15, <2>16, <2>17, <2>18, <2>19, <2>20, <2>21, <2>22, <2>23, <2>24, <2>25
       DEF Next, HandlerStep, Operator, TaskStep
<1>2. CASE UNCHANGED vars
  BY <1>2 DEF vars, fqVars, pfVars
<1>3. QED
  BY <1>1, <1>2

LEMMA TrimStep ==
  ASSUME TypeOK, [Next]_vars, crashes' = crashes, NEW o \in queue, status[o] \in Active
  PROVE  o \in queue'
<1>1. crashes + 1 # crashes
  BY DEF TypeOK
<1>2. ASSUME NEW p \in Ops, Add(p) PROVE o \in queue'
  <2>1. status'[o] \in Active
    BY <1>2 DEF Add, TypeOK, Active
  <2>2. QED
    BY <1>2, <2>1 DEF Add, Trimmed
<1>3. ~Restart
  BY <1>1 DEF Restart
<1>4. CASE queue' = queue
  BY <1>4
<1>5. (\E p \in Ops : Add(p)) \/ queue' = queue
  BY <1>3 DEF Next, HandlerStep, Operator, TaskStep, vars, fqVars, AddRecord, AddEnsure,
     CompleteRowWrite, CancelPending, CancelRunning, Complete, CompleteRowRead, Pick, Drain,
     RecordStart, Work, Finish, FinishInterrupted, FinishFailed, RecordEnd, RecordFailed,
     StartImport, ImportAnswered, RecordImport, WorkRaises, ImportRaised, Die, WriteAndUnlock
<1>6. QED
  BY <1>2, <1>4, <1>5

\* The invariant that keeps the queue and the table together.
LEMMA Keeping == Spec => [](IInv /\ KeepInv /\ OweInv /\ NoLostWakeup)
<1>1. Init => KeepInv /\ OweInv /\ NoLostWakeup
  <2> SUFFICES ASSUME Init PROVE KeepInv /\ OweInv /\ NoLostWakeup
    OBVIOUS
  <2>1. KeepInv
    BY DEF Init, KeepInv, Holding, Active
  <2>2. OweInv
    BY DEF Init, OweInv, Active
  <2>3. NoLostWakeup
    BY DEF Init, NoLostWakeup, Pending
  <2>4. QED
    BY <2>1, <2>2, <2>3
<1>2. IInv /\ KeepInv /\ OweInv /\ NoLostWakeup /\ [Next]_vars => (KeepInv /\ OweInv /\ NoLostWakeup)'
  BY KeepStep, OweStep, WakeStep DEF IInv
<1>3. QED
  BY <1>1, <1>2, Invariance, PTL DEF Spec

\* An operation that is at rest owes nothing but what is never written.
LEMMA RestOwes ==
  ASSUME CurInv, NEW o \in Ops, Owed(o), AtRest(o)
  PROVE  Unwritten(o)
BY DEF Owed, AtRest

\* The queue keeps what it accepted: a pending operation has its consumer, the table
\* has the outcome of each one, an active row has its operation, and the trim drops
\* none that is active.
THEOREM QueueKeepsAll == Spec => QueueKeeps
<1>1. IInv /\ KeepInv /\ OweInv /\ NoLostWakeup => TypeOK /\ NoLostWakeup /\ OutcomeRecorded /\ NoOrphanRow
  <2> SUFFICES ASSUME IInv, KeepInv, OweInv, NoLostWakeup PROVE OutcomeRecorded /\ NoOrphanRow
    BY DEF IInv
  <2>1. OutcomeRecorded
    <3> SUFFICES ASSUME NEW o \in queue, AtRest(o), status[o] \in Terminal, ~Unwritten(o)
                 PROVE  row[o].status = status[o]
      BY DEF OutcomeRecorded
    <3>1. o \in Ops
      BY DEF IInv, TypeOK
    <3>2. QED
      BY <3>1, RestOwes DEF OweInv, IInv
  <2>2. NoOrphanRow
    <3> SUFFICES ASSUME NEW o \in Ops, row[o].status \in Active, ~Unwritten(o), o \notin queue, AtRest(o)
                 PROVE  FALSE
      BY DEF NoOrphanRow
    <3>1. QED
      BY RestOwes DEF OweInv, IInv
  <2>3. QED
    BY <2>1, <2>2
<1>2. IInv /\ [Next]_vars =>
        [\A o \in queue : status[o] \in Active /\ crashes' = crashes => o \in queue']_vars
  <2> SUFFICES ASSUME IInv, [Next]_vars, NEW o \in queue, status[o] \in Active, crashes' = crashes
               PROVE  o \in queue'
    OBVIOUS
  <2>1. QED
    BY TrimStep DEF IInv
<1>3. QED
  BY <1>1, <1>2, Keeping, PTL DEF Spec, QueueKeeps, TrimKeepsActive

-----------------------------------------------------------------------------
\* The queue as a serial executor: what each step is to it.

\* Only the one consumer executes.
LEMMA OneExecutes ==
  ASSUME CurInv, ConsumerInv, NEW t \in Tasks, pc[t] # "idle"
  PROVE  /\ pc[t] \in {"recordStart", "run"} => Executing = {cur[t]}
         /\ pc[t] \notin {"recordStart", "run"} => Executing = {}
<1>1. \A u \in Tasks : pc[u] # "idle" => u = t
  BY DEF ConsumerInv
<1>2. QED
  BY <1>1 DEF Executing

\* Nobody that executes afterwards did not before.
LEMMA StillExecutes ==
  ASSUME \A u \in Tasks : pc'[u] \in {"recordStart", "run"} <=> pc[u] \in {"recordStart", "run"},
         \A u \in Tasks : pc[u] \in {"recordStart", "run"} => cur'[u] = cur[u]
  PROVE  Executing' = Executing
BY DEF Executing

\* Adding is accepting, whatever the trim drops.
LEMMA AddAccepts ==
  ASSUME TypeOK, KeepInv, NEW o \in Ops, Add(o)
  PROVE  Serial!Accept(o)
<1>1. arrived[o] = 0
  BY DEF Add, KeepInv
<1>2. Pending' = Pending \union {o}
  <2>1. /\ queue' = Trimmed(queue \union {o}, status') /\ status' = [status EXCEPT ![o] = "pending"]
        /\ status \in [Ops -> Status] /\ queue \subseteq Ops
    BY DEF Add, TypeOK
  <2>2. \A p \in queue' : p \in queue \union {o}
    BY <2>1 DEF Trimmed
  <2>3. \A p \in queue \union {o} : status'[p] = "pending" => p \in queue'
    BY <2>1 DEF Trimmed, Active
  <2>4. \A p : p \in Pending' <=> p \in Pending \union {o}
    BY <2>1, <2>2, <2>3, KeepInv DEF Pending
  <2>5. QED
    BY <2>4
<1>3. Executing' = Executing
  BY StillExecutes DEF Add
<1>4. QED
  BY <1>1, <1>2, <1>3 DEF Serial!Accept, Add

\* Taking the oldest pending operation is beginning it.
LEMMA PickBegins ==
  ASSUME TypeOK, CurInv, ConsumerInv, NEW t \in Tasks, Pick(t)
  PROVE  \E o \in Ops : Serial!Begin(o)
<1>1. PICK o \in Ops : /\ Oldest(o) /\ status' = [status EXCEPT ![o] = "running"]
                       /\ cur' = [cur EXCEPT ![t] = o]
  BY DEF Pick
<1>2. pc' = [pc EXCEPT ![t] = "recordStart"] /\ pc[t] = "pick" /\ queue' = queue /\ arrived' = arrived
  BY DEF Pick
<1>3. Executing = {}
  BY <1>2, OneExecutes
<1>4. \A u \in Tasks : pc[u] # "idle" => u = t
  BY <1>2 DEF ConsumerInv
<1>5. Executing' = {o}
  <2>1. \A u \in Tasks : pc'[u] \in {"recordStart", "run"} <=> u = t
    BY <1>2, <1>4 DEF TypeOK
  <2>2. cur'[t] = o
    BY <1>1 DEF TypeOK
  <2>3. QED
    BY <2>1, <2>2 DEF Executing
<1>6. Pending' = Pending \ {o}
  BY <1>1, <1>2 DEF Pending, TypeOK
<1>7. QED
  BY <1>1, <1>2, <1>3, <1>5, <1>6 DEF Serial!Begin, Oldest

\* Leaving the worker, whatever for, is ending.
LEMMA Ends ==
  ASSUME TypeOK, CurInv, ConsumerInv, NEW t \in Tasks, pc[t] \in {"recordStart", "run"},
         pc'[t] \notin {"recordStart", "run"}, \A u \in Tasks \ {t} : pc'[u] = pc[u],
         Pending' = Pending, arrived' = arrived
  PROVE  \E o \in Ops : Serial!End(o)
<1>1. Executing = {cur[t]} /\ cur[t] \in Ops
  BY OneExecutes DEF CurInv, Holding, PC
<1>2. \A u \in Tasks \ {t} : pc[u] = "idle"
  BY DEF ConsumerInv
<1>3. Executing' = {}
  BY <1>2 DEF Executing
<1>4. QED
  BY <1>1, <1>3 DEF Serial!End

\* Every step of the queue is one of the serial executor's, or none.
LEMMA StepIsSerial ==
  ASSUME IInv, KeepInv, [Next]_vars
  PROVE  Serial!SQNext \/ (Pending' = Pending /\ Executing' = Executing /\ arrived' = arrived)
<1> USE DEF TypeOK
<1> DEFINE Same == Pending' = Pending /\ Executing' = Executing /\ arrived' = arrived
<1>0. TypeOK /\ CurInv /\ ConsumerInv /\ TraceInv
  BY DEF IInv
<1>1. ASSUME NEW o \in Ops, Add(o) PROVE Serial!SQNext
  BY <1>0, <1>1, AddAccepts DEF Serial!SQNext
<1>2. ASSUME NEW o \in Ops, CancelPending(o) \/ (Complete(o) /\ o \in Pending) PROVE Serial!SQNext
  <2>1. o \in Pending /\ Pending' = Pending \ {o}
    BY <1>0, <1>2 DEF CancelPending, Complete, Pending
  <2>2. Executing' = Executing /\ arrived' = arrived
    BY <1>2, StillExecutes DEF CancelPending, Complete
  <2>3. QED
    BY <2>1, <2>2 DEF Serial!SQNext, Serial!Withdraw
<1>3. ASSUME NEW o \in Ops, Complete(o), o \notin Pending PROVE Same
  <2>1. status[o] # "pending"
    BY <1>3 DEF Complete, Pending
  <2>2. Pending' = Pending
    BY <1>0, <1>3, <2>1 DEF Complete, Pending
  <2>3. QED
    BY <1>3, <2>2, StillExecutes DEF Complete
<1>4. ASSUME NEW o \in Ops, AddRecord(o) \/ CompleteRowWrite(o) \/ CompleteRowRead(o) \/ CancelRunning(o) PROVE Same
  BY <1>4, StillExecutes DEF AddRecord, CompleteRowWrite, CompleteRowRead, CancelRunning, fqVars, Pending
<1>5. ASSUME NEW o \in Ops, AddEnsure(o) PROVE Same
  <2>1. \A u \in Tasks : pc'[u] \in {"recordStart", "run"} <=> pc[u] \in {"recordStart", "run"}
    <3>1. CASE ConsumerAlive
      BY <1>5, <3>1 DEF AddEnsure, ConsumerAlive
    <3>2. CASE ~ConsumerAlive
      <4>1. PICK t \in Tasks : pc[t] = "idle" /\ pc' = [pc EXCEPT ![t] = "pick"]
        BY <1>5, <3>2 DEF AddEnsure
      <4>2. QED
        BY <1>0, <4>1
    <3>3. QED
      BY <3>1, <3>2
  <2>2. cur' = cur /\ queue' = queue /\ status' = status /\ arrived' = arrived
    BY <1>5 DEF AddEnsure
  <2>3. QED
    BY <2>1, <2>2, StillExecutes DEF Pending
<1>6. ASSUME NEW t \in Tasks, Pick(t) PROVE Serial!SQNext
  BY <1>0, <1>6, PickBegins DEF Serial!SQNext
<1>7. ASSUME NEW t \in Tasks, Drain(t) PROVE Same
  BY <1>0, <1>7, StillExecutes DEF Drain, Pending
<1>8. ASSUME NEW t \in Tasks, RecordStart(t) PROVE Same
  BY <1>0, <1>8, StillExecutes DEF RecordStart, Pending
<1>9. ASSUME NEW t \in Tasks, Work(t) \/ WorkRaises(t) PROVE Same
  BY <1>9, StillExecutes DEF Work, WorkRaises, fqVars, Pending
<1>10. ASSUME NEW t \in Tasks, Finish(t) \/ FinishInterrupted(t) \/ FinishFailed(t) PROVE Serial!SQNext
  <2>1. /\ pc[t] = "run" /\ pc'[t] \notin {"recordStart", "run"} /\ \A u \in Tasks \ {t} : pc'[u] = pc[u]
        /\ queue' = queue /\ arrived' = arrived
    BY <1>0, <1>10 DEF Finish, FinishInterrupted, FinishFailed, NextRound
  <2>2. cur[t] \in Ops /\ status[cur[t]] # "pending"
    BY <1>0, <2>1 DEF KeepInv, CurInv, Holding, PC
  <2>3. /\ status'[cur[t]] # "pending"
        /\ \A p \in Ops \ {cur[t]} : status'[p] = status[p]
    BY <1>0, <1>10, <2>2 DEF Finish, FinishInterrupted, FinishFailed
  <2>4. Pending' = Pending
    BY <1>0, <2>1, <2>2, <2>3 DEF Pending
  <2>5. QED
    BY <1>0, <2>1, <2>4, Ends DEF Serial!SQNext
<1>11. ASSUME NEW t \in Tasks, Die(t) PROVE Serial!SQNext \/ Same
  <2>1. /\ pc' = [pc EXCEPT ![t] = "idle"] /\ cur' = [cur EXCEPT ![t] = None]
        /\ Pending' = Pending /\ arrived' = arrived /\ pc[t] \in {"recordStart", "recordFailed"}
    BY <1>11 DEF Die, Pending
  <2>2. CASE pc[t] = "recordStart"
    BY <1>0, <2>1, <2>2, Ends DEF Serial!SQNext
  <2>3. CASE pc[t] = "recordFailed"
    BY <1>0, <2>1, <2>3, StillExecutes
  <2>4. QED
    BY <2>1, <2>2, <2>3
<1>12. ASSUME NEW t \in Tasks, RecordFailed(t) \/ ImportRaised(t) \/ RecordImport(t) PROVE Same
  BY <1>0, <1>12, StillExecutes DEF RecordFailed, ImportRaised, RecordImport, NextRound, Pending
<1>13. ASSUME NEW t \in Tasks, RecordEnd(t) PROVE Same
  <2>1. pc[t] = "recordEnd" /\ queue' = queue /\ status' = status /\ arrived' = arrived
    BY <1>13 DEF RecordEnd
  <2>2. CASE ~cancelled[cur[t]] /\ req[cur[t]].arr
    BY <1>0, <1>13, <2>1, <2>2, StillExecutes DEF RecordEnd, Pending
  <2>3. CASE ~(~cancelled[cur[t]] /\ req[cur[t]].arr)
    BY <1>0, <1>13, <2>1, <2>3, StillExecutes DEF RecordEnd, NextRound, Pending
  <2>4. QED
    BY <2>2, <2>3
<1>14. ASSUME NEW t \in Tasks, StartImport(t) \/ ImportAnswered(t) PROVE Same
  BY <1>0, <1>14, StillExecutes DEF StartImport, ImportAnswered, Pending
<1>15. CASE WriteAndUnlock
  BY <1>15, StillExecutes DEF WriteAndUnlock, Pending
<1>16. CASE Restart
  <2>1. Pending' = {} /\ Executing' = {} /\ arrived' = arrived
    BY <1>16 DEF Restart, Pending, Executing
  <2>2. QED
    BY <2>1 DEF Serial!SQNext, Serial!Lose
<1>17. CASE UNCHANGED vars
  BY <1>17, StillExecutes DEF vars, fqVars, Pending
<1>18. QED
  BY <1>1, <1>2, <1>3, <1>4, <1>5, <1>6, <1>7, <1>8, <1>9, <1>10, <1>11, <1>12, <1>13, <1>14, <1>15, <1>16, <1>17
     DEF Next, HandlerStep, Operator, TaskStep

\* The file queue implements the serial executor: "ejecuta operaciones de la cola
\* secuencialmente", oldest first, each at most once, whatever was withdrawn never.
THEOREM QueueIsSerial == Spec => ImplementsSerialQueue
<1>1. Init => Serial!SQInit
  BY DEF Init, Serial!SQInit, Pending, Executing
<1>2. IInv /\ KeepInv /\ [Next]_vars => [Serial!SQNext]_(Serial!sqVars)
  BY StepIsSerial DEF Serial!sqVars
<1>3. QED
  BY <1>1, <1>2, Keeping, PTL DEF Spec, ImplementsSerialQueue, Serial!SQSpec
=============================================================================
