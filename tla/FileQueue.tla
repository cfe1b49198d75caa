----------------------------- MODULE FileQueue -----------------------------
(***************************************************************************)
(* The background file queue (interfaces/http/routes/files.py, state.py):  *)
(* handlers add, cancel and hand-complete operations under queue_lock, a   *)
(* consumer task takes them one at a time and has a worker thread carry    *)
(* them out (PlaceFile), and every milestone is written to the operations  *)
(* table (sqlite_history.record_operation) outside the lock, from whatever *)
(* the op dict holds when the write runs.  A restart loses everything in   *)
(* memory and turns active rows into failed ones (mark_interrupted).       *)
(*                                                                         *)
(* file_queue is only appended to and filtered, so it is the set `queue'   *)
(* ordered by `arrived'.  Each operation has its own id: two adds in the   *)
(* same millisecond, which would share one, are not modelled.  A write to  *)
(* the table is assumed to succeed.                                        *)
(***************************************************************************)
EXTENDS PlaceFile, Naturals, FiniteSets

CONSTANTS
  Tasks,          \* identities of consumer tasks
  None,           \* no operation, no task
  QueueLimit,     \* placement.QUEUE_LIMIT
  MaxCrashes,     \* bound: restarts of the process
  MaxDeaths       \* bound: consumer tasks that die of an exception

ASSUME FQAssumption ==
  /\ None \notin Ops
  /\ None \notin Tasks
  /\ QueueLimit \in Nat /\ MaxCrashes \in Nat /\ MaxDeaths \in Nat

VARIABLES
  queue,          \* the operations in file_queue
  arrived,        \* arrived[o]: order of the append
  status,         \* status[o]: op["status"] of the in-memory dict
  imp,            \* imp[o]: op["import_status"]
  add,            \* add[o]: where the queue_add handler of o is
  lock,           \* the op whose handler holds queue_lock across its write
  rowEdits,       \* ops whose durable row queue_complete has read
  row,            \* row[o]: the durable row of o
  active,         \* state.consumer_active
  handle,         \* state.queue_consumer_task
  pc,             \* pc[t]: where consumer task t is; "idle" is not running
  cur,            \* cur[t]: the operation task t holds
  crashes, deaths \* how many faults happened so far

fqVars == <<queue, arrived, status, imp, add, lock, rowEdits, row,
            active, handle, pc, cur, crashes, deaths>>
vars == <<fqVars, pfVars>>

-----------------------------------------------------------------------------
Status   == {"none", "pending", "running", "done", "failed", "cancelled"}
Active   == {"pending", "running"}     \* placement.ACTIVE_QUEUE_STATUSES
Terminal == {"done", "failed", "cancelled"}
Import   == {"", "importing", "imported", "import_failed"}
PC == {"idle", "pick", "recordStart", "run", "recordEnd", "recordFailed",
       "import", "importing", "recordImport"}
Holding == PC \ {"idle", "pick"}       \* where a task has an operation

TypeOK ==
  /\ PFTypeOK
  /\ queue \subseteq Ops
  /\ arrived \in [Ops -> Nat]
  /\ status \in [Ops -> Status]
  /\ imp \in [Ops -> Import]
  /\ add \in [Ops -> {"idle", "record", "ensure", "replied", "killed"}]
  /\ lock \in Ops \union {None}
  /\ rowEdits \subseteq Ops
  /\ row \in [Ops -> [status : Status, imp : Import]]
  /\ active \in BOOLEAN
  /\ handle \in Tasks \union {None}
  /\ pc \in [Tasks -> PC]
  /\ cur \in [Tasks -> Ops \union {None}]
  /\ crashes \in Nat /\ deaths \in Nat

Init ==
  /\ PFInit
  /\ queue = {}
  /\ arrived = [o \in Ops |-> 0]
  /\ status = [o \in Ops |-> "none"]
  /\ imp = [o \in Ops |-> ""]
  /\ add = [o \in Ops |-> "idle"]
  /\ lock = None
  /\ rowEdits = {}
  /\ row = [o \in Ops |-> [status |-> "none", imp |-> ""]]
  /\ active = FALSE /\ handle = None
  /\ pc = [t \in Tasks |-> "idle"]
  /\ cur = [t \in Tasks |-> None]
  /\ crashes = 0 /\ deaths = 0

-----------------------------------------------------------------------------
\* asyncio.Lock is not reentrant and not shared: no handler inside.
LockFree == lock = None

\* record_operation upserts the columns the dict holds now; COALESCE keeps a
\* stored import_status while the dict has none.
Record(o) ==
  row' = [row EXCEPT ![o] =
            [status |-> status[o], imp |-> IF imp[o] = "" THEN @.imp ELSE imp[o]]]

\* placement.retained_queue, applied when over_queue_limit.
Trimmed_DropsRunning(ops, st) ==
  IF Cardinality(ops) > QueueLimit THEN {o \in ops : st[o] = "pending"} ELSE ops
Trimmed(ops, st) ==
  IF Cardinality(ops) > QueueLimit THEN {o \in ops : st[o] \in Active} ELSE ops

\* queue_add, first part: append and trim under the lock.
Add(o) ==
  /\ add[o] = "idle" /\ LockFree
  /\ status' = [status EXCEPT ![o] = "pending"]
  /\ \E n \in {arrived[p] + 1 : p \in Ops} :
       /\ \A p \in Ops : arrived[p] < n
       /\ arrived' = [arrived EXCEPT ![o] = n]
  /\ queue' = Trimmed(queue \union {o}, status')
  /\ add' = [add EXCEPT ![o] = "record"]
  /\ UNCHANGED <<imp, lock, rowEdits, row, active, handle, pc, cur, crashes, deaths, pfVars>>

\* queue_add: the durable write, outside the lock.
AddRecord(o) ==
  /\ add[o] = "record"
  /\ Record(o)
  /\ add' = [add EXCEPT ![o] = "ensure"]
  /\ UNCHANGED <<queue, arrived, status, imp, lock, rowEdits, active, handle, pc, cur, crashes, deaths, pfVars>>

\* A consumer is believed alive when both signals say so.
ConsumerAlive_NeverAsks == FALSE
ConsumerAlive_AnyHandle == active \/ handle # None
ConsumerAlive == active /\ handle # None /\ pc[handle] # "idle"

\* _ensure_consumer, then the reply to the client.
AddEnsure(o) ==
  /\ add[o] = "ensure" /\ LockFree
  /\ \/ /\ ConsumerAlive
        /\ UNCHANGED <<active, handle, pc>>
     \/ /\ ~ConsumerAlive
        /\ \E t \in Tasks :
             /\ pc[t] = "idle"
             /\ handle' = t
             /\ pc' = [pc EXCEPT ![t] = "pick"]
        /\ active' = TRUE
  /\ add' = [add EXCEPT ![o] = "replied"]
  /\ UNCHANGED <<queue, arrived, status, imp, lock, rowEdits, row, cur, crashes, deaths, pfVars>>

-----------------------------------------------------------------------------
Pending == {o \in queue : status[o] = "pending"}

\* pending[0]
Oldest_Newest(o) == o \in Pending /\ \A p \in Pending : arrived[o] >= arrived[p]
Oldest(o) == o \in Pending /\ \A p \in Pending : arrived[o] <= arrived[p]

\* _consume_queue, top of the loop, under the lock.
Pick(t) ==
  /\ pc[t] = "pick" /\ LockFree
  /\ \E o \in Ops :
       /\ Oldest(o)
       /\ status' = [status EXCEPT ![o] = "running"]
       /\ cur' = [cur EXCEPT ![t] = o]
  /\ pc' = [pc EXCEPT ![t] = "recordStart"]
  /\ UNCHANGED <<queue, arrived, imp, add, lock, rowEdits, row, active, handle, crashes, deaths, pfVars>>

\* Nothing pending: the flag falls under the same lock and the task returns.
Drain(t) ==
  /\ pc[t] = "pick" /\ LockFree
  /\ Pending = {}
  /\ active' = FALSE
  /\ pc' = [pc EXCEPT ![t] = "idle"]
  /\ UNCHANGED <<queue, arrived, status, imp, add, lock, rowEdits, row, handle, cur, crashes, deaths, pfVars>>

\* The write of the start, then the worker is called.
RecordStart_NoWrite(t) ==
  /\ pc[t] = "recordStart"
  /\ Call(cur[t])
  /\ pc' = [pc EXCEPT ![t] = "run"]
  /\ UNCHANGED <<queue, arrived, status, imp, add, lock, rowEdits, row, active, handle, cur, crashes, deaths>>
RecordStart(t) ==
  /\ pc[t] = "recordStart"
  /\ Record(cur[t])
  /\ Call(cur[t])
  /\ pc' = [pc EXCEPT ![t] = "run"]
  /\ UNCHANGED <<queue, arrived, status, imp, add, lock, rowEdits, active, handle, cur, crashes, deaths>>

\* The writes of the start and of a failure are outside the try: an exception
\* there (no thread to be had) ends the task, flag and handle stay.
Die(t) ==
  /\ pc[t] \in {"recordStart", "recordFailed"} /\ deaths < MaxDeaths
  /\ pc' = [pc EXCEPT ![t] = "idle"]
  /\ cur' = [cur EXCEPT ![t] = None]
  /\ deaths' = deaths + 1
  /\ UNCHANGED <<queue, arrived, status, imp, add, lock, rowEdits, row, active, handle, crashes, pfVars>>

\* The worker thread proceeds while its task awaits it.
Work(t) ==
  /\ pc[t] = "run"
  /\ WorkerProgress(cur[t])
  /\ UNCHANGED fqVars

WorkRaises(t) ==
  /\ pc[t] = "run"
  /\ Raise(cur[t])
  /\ UNCHANGED fqVars

\* The task drops its operation and goes back to the top of the loop.
NextRound(t) ==
  /\ pc' = [pc EXCEPT ![t] = "pick"]
  /\ cur' = [cur EXCEPT ![t] = None]

\* The worker returned: the flag decides between cancelled and done.
Finish(t) ==
  /\ pc[t] = "run" /\ LockFree
  /\ LET o == cur[t] IN
       /\ step[o] = "ok"
       /\ status' = [status EXCEPT ![o] = IF cancelled[o] THEN "cancelled" ELSE "done"]
  /\ pc' = [pc EXCEPT ![t] = "recordEnd"]
  /\ UNCHANGED <<queue, arrived, imp, add, lock, rowEdits, row, active, handle, cur, crashes, deaths, pfVars>>

\* except InterruptedError: nothing is written to the table.
FinishInterrupted_KeepsStatus(t) ==
  /\ pc[t] = "run" /\ LockFree
  /\ step[cur[t]] = "interrupted"
  /\ NextRound(t)
  /\ UNCHANGED <<queue, arrived, status, imp, add, lock, rowEdits, row, active, handle, crashes, deaths, pfVars>>
FinishInterrupted(t) ==
  /\ pc[t] = "run" /\ LockFree
  /\ step[cur[t]] = "interrupted"
  /\ status' = [status EXCEPT ![cur[t]] = "cancelled"]
  /\ NextRound(t)
  /\ UNCHANGED <<queue, arrived, imp, add, lock, rowEdits, row, active, handle, crashes, deaths, pfVars>>

\* except Exception.
FinishFailed(t) ==
  /\ pc[t] = "run" /\ LockFree
  /\ step[cur[t]] = "error"
  /\ status' = [status EXCEPT ![cur[t]] = "failed"]
  /\ pc' = [pc EXCEPT ![t] = "recordFailed"]
  /\ UNCHANGED <<queue, arrived, imp, add, lock, rowEdits, row, active, handle, cur, crashes, deaths, pfVars>>

RecordFailed_NoWrite(t) ==
  /\ pc[t] = "recordFailed"
  /\ NextRound(t)
  /\ UNCHANGED <<queue, arrived, status, imp, add, lock, rowEdits, row, active, handle, crashes, deaths, pfVars>>
RecordFailed(t) ==
  /\ pc[t] = "recordFailed"
  /\ Record(cur[t])
  /\ NextRound(t)
  /\ UNCHANGED <<queue, arrived, status, imp, add, lock, rowEdits, active, handle, crashes, deaths, pfVars>>

\* The write of the outcome; an operation of an arr that nobody cancelled is
\* then imported.
RecordEnd(t) ==
  /\ pc[t] = "recordEnd"
  /\ Record(cur[t])
  /\ IF ~cancelled[cur[t]] /\ req[cur[t]].arr
       THEN pc' = [pc EXCEPT ![t] = "import"] /\ UNCHANGED cur
       ELSE NextRound(t)
  /\ UNCHANGED <<queue, arrived, status, imp, add, lock, rowEdits, active, handle, crashes, deaths, pfVars>>

StartImport(t) ==
  /\ pc[t] = "import" /\ LockFree
  /\ imp' = [imp EXCEPT ![cur[t]] = "importing"]
  /\ pc' = [pc EXCEPT ![t] = "importing"]
  /\ UNCHANGED <<queue, arrived, status, add, lock, rowEdits, row, active, handle, cur, crashes, deaths, pfVars>>

\* post_move_import answered.
ImportAnswered(t) ==
  /\ pc[t] = "importing" /\ LockFree
  /\ \E r \in {"imported", "import_failed"} : imp' = [imp EXCEPT ![cur[t]] = r]
  /\ pc' = [pc EXCEPT ![t] = "recordImport"]
  /\ UNCHANGED <<queue, arrived, status, add, lock, rowEdits, row, active, handle, cur, crashes, deaths, pfVars>>

\* The import block raised: import_failed in memory, nothing in the table.
ImportRaised(t) ==
  /\ pc[t] = "importing" /\ LockFree
  /\ imp' = [imp EXCEPT ![cur[t]] = "import_failed"]
  /\ NextRound(t)
  /\ UNCHANGED <<queue, arrived, status, add, lock, rowEdits, row, active, handle, crashes, deaths, pfVars>>

RecordImport(t) ==
  /\ pc[t] = "recordImport"
  /\ Record(cur[t])
  /\ NextRound(t)
  /\ UNCHANGED <<queue, arrived, status, imp, add, lock, rowEdits, active, handle, crashes, deaths, pfVars>>

-----------------------------------------------------------------------------
\* queue_cancel of a pending operation: the write happens inside the lock.
CancelPending(o) ==
  /\ LockFree /\ o \in Pending
  /\ status' = [status EXCEPT ![o] = "cancelled"]
  /\ lock' = o
  /\ UNCHANGED <<queue, arrived, imp, add, rowEdits, row, active, handle, pc, cur, crashes, deaths, pfVars>>

\* queue_cancel of a running one only raises the flag.
CancelRunning(o) ==
  /\ LockFree /\ o \in queue /\ status[o] = "running"
  /\ RaiseCancel(o)
  /\ UNCHANGED fqVars

\* queue_complete of an operation in memory, pending or running alike.
Complete(o) ==
  /\ LockFree /\ o \in queue /\ status[o] \in Active
  /\ status' = [status EXCEPT ![o] = "done"]
  /\ lock' = o
  /\ UNCHANGED <<queue, arrived, imp, add, rowEdits, row, active, handle, pc, cur, crashes, deaths, pfVars>>

\* The write those two await, then the lock is released.
WriteAndUnlock ==
  /\ lock # None
  /\ Record(lock)
  /\ lock' = None
  /\ UNCHANGED <<queue, arrived, status, imp, add, rowEdits, active, handle, pc, cur, crashes, deaths, pfVars>>

\* queue_complete of a row without an operation in memory: read, then write.
CompleteRowRead(o) ==
  /\ LockFree /\ o \notin queue
  /\ row[o].status \in Active
  /\ rowEdits' = rowEdits \union {o}
  /\ UNCHANGED <<queue, arrived, status, imp, add, lock, row, active, handle, pc, cur, crashes, deaths, pfVars>>

CompleteRowWrite(o) ==
  /\ o \in rowEdits
  /\ row' = [row EXCEPT ![o].status = "done"]
  /\ rowEdits' = rowEdits \ {o}
  /\ UNCHANGED <<queue, arrived, status, imp, add, lock, active, handle, pc, cur, crashes, deaths, pfVars>>

-----------------------------------------------------------------------------
\* history.mark_interrupted, in the lifespan before anything is served.
Interrupted_OnlyRunning(r) == IF r.status = "running" THEN [r EXCEPT !.status = "failed"] ELSE r
Interrupted_NewWord(r) == IF r.status \in Active THEN [r EXCEPT !.status = "interrupted"] ELSE r
Interrupted(r) == IF r.status \in Active THEN [r EXCEPT !.status = "failed"] ELSE r

\* The process is killed and started again.
Restart ==
  /\ crashes < MaxCrashes
  /\ crashes' = crashes + 1
  /\ queue' = {}
  /\ status' = [o \in Ops |-> "none"]
  /\ imp' = [o \in Ops |-> ""]
  /\ add' = [o \in Ops |-> IF add[o] \in {"record", "ensure"} THEN "killed" ELSE add[o]]
  /\ lock' = None
  /\ rowEdits' = {}
  /\ row' = [o \in Ops |-> Interrupted(row[o])]
  /\ active' = FALSE /\ handle' = None
  /\ pc' = [t \in Tasks |-> "idle"]
  /\ cur' = [t \in Tasks |-> None]
  /\ step' = [o \in Ops |-> IF step[o] \in Working THEN "killed" ELSE step[o]]
  /\ UNCHANGED <<arrived, deaths, req, cancelled, src, dst, tmp>>

HandlerStep(o) == AddRecord(o) \/ AddEnsure(o) \/ CompleteRowWrite(o)

TaskStep(t) ==
  \/ Pick(t) \/ Drain(t) \/ RecordStart(t) \/ Work(t)
  \/ Finish(t) \/ FinishInterrupted(t) \/ FinishFailed(t)
  \/ RecordEnd(t) \/ RecordFailed(t)
  \/ StartImport(t) \/ ImportAnswered(t) \/ RecordImport(t)

Operator(o) ==
  \/ Add(o) \/ CancelPending(o) \/ CancelRunning(o) \/ Complete(o) \/ CompleteRowRead(o)

Next ==
  \/ \E o \in Ops : HandlerStep(o) \/ Operator(o)
  \/ \E t \in Tasks : TaskStep(t) \/ WorkRaises(t) \/ ImportRaised(t) \/ Die(t)
  \/ WriteAndUnlock
  \/ Restart

Spec == Init /\ [][Next]_vars

\* The event loop runs every ready callback and the executor every submitted
\* call; operators, faults and their timing are free.
Fairness ==
  /\ \A o \in Ops : WF_vars(HandlerStep(o))
  /\ \A t \in Tasks : WF_vars(TaskStep(t))
  /\ WF_vars(WriteAndUnlock)

FairSpec == Spec /\ Fairness
-----------------------------------------------------------------------------
\* _consume_queue: "Ejecuta operaciones de la cola secuencialmente".  However
\* adds, drains, dead consumers and restarts interleave, there is one consumer.
OneConsumer ==
  \A t, u \in Tasks : pc[t] # "idle" /\ pc[u] # "idle" => t = u

\* _ensure_consumer: "un POST que llega justo cuando la cola se vacia no se
\* pierde".  A pending operation whose add was answered has a consumer, or one
\* that died with the flag up, which the next add detects.
NoLostWakeup ==
  \A o \in Pending : add[o] = "replied" =>
    \/ \E t \in Tasks : pc[t] # "idle"
    \/ active /\ deaths > 0

\* placement.retained_queue: "Pending and running operations are never
\* discarded".
TrimKeepsActive ==
  [][\A o \in queue : status[o] \in Active /\ crashes' = crashes => o \in queue']_vars

\* Whoever answers for o has finished with it.
AtRest(o) ==
  /\ lock # o
  /\ add[o] \notin {"record", "ensure"}
  /\ \A t \in Tasks : cur[t] # o

\* queue_add: "Durable from the moment it is accepted, so a restart still shows
\* it"; and nothing touches the disk before its row exists, even when the
\* consumer overtakes the handler that was to write it.
AcceptedIsDurable ==
  \A o \in Ops : add[o] = "replied" \/ step[o] # "unstarted" => row[o].status # "none"

\* Ended with nothing to write its outcome: after an interrupted copy the code
\* has no write, and after a failure the consumer may die before it.
Unwritten(o) == step[o] = "interrupted" \/ (step[o] = "error" /\ deaths > 0)

\* The outcome in memory is the outcome in the table once everyone is done with
\* the operation, except where nothing is written.
OutcomeRecorded ==
  \A o \in queue :
    AtRest(o) /\ status[o] \in Terminal /\ ~Unwritten(o)
      => row[o].status = status[o]

\* mark_interrupted: leaving a row active "forever would be a lie".  An active
\* row belongs to an operation in memory, or nothing was written for it.
NoOrphanRow ==
  \A o \in Ops :
    row[o].status \in Active /\ ~Unwritten(o)
      => o \in queue \/ ~AtRest(o)

\* The queue keeps what it accepted: a pending operation is not forgotten, the
\* table says how each one ended, and nothing active is dropped.
QueueKeeps == [](TypeOK /\ NoLostWakeup /\ OutcomeRecorded /\ NoOrphanRow) /\ TrimKeepsActive

\* Every accepted operation reaches an outcome, whatever the operator does to it
\* or to the others, as long as no consumer dies.
EveryOpSettles ==
  \A o \in Ops : o \in queue ~> status[o] \notin Active

\* The queue is a serial executor: oldest first, one at a time, each at most
\* once, and what was withdrawn before its turn never executes.
Executing == {cur[t] : t \in {u \in Tasks : pc[u] \in {"recordStart", "run"}}}

Serial == INSTANCE SerialQueue WITH waiting <- Pending, executing <- Executing
ImplementsSerialQueue == Serial!SQSpec
=============================================================================
