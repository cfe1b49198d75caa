------------------------------ MODULE CopyTask ------------------------------
(***************************************************************************)
(* The background copies of copy_engine.py: the record of each copy in the *)
(* task registry (task_manager.py), the coroutine run_copy_background with *)
(* verify_import, and the worker thread under it (use case copy_files over *)
(* LocalFileStorage.copy_file).                                            *)
(*                                                                         *)
(* A handler or a stretch of the coroutine between two awaits is one       *)
(* action; the worker thread has one action per call that can fail or that *)
(* changes the disk, and per look at the cancel flag.  A download is the   *)
(* set of its files; a destination holds each file "none", "partial" or    *)
(* "whole".                                                                *)
(***************************************************************************)
EXTENDS Naturals, FiniteSets

CONSTANTS
  Downloads,      \* what can be copied
  FilesOf,        \* FilesOf[d]: the files of download d
  Trees,          \* the downloads that are directories
  CopyTasks,      \* identities of background copies
  Asked,          \* the copies asked for: pairs of a download and a place
  NoDownload

Places == {"library", "foreign"}

ASSUME CTAssumption ==
  /\ NoDownload \notin Downloads
  /\ Trees \subseteq Downloads /\ Asked \subseteq Downloads \X Places
  /\ FilesOf \in [Downloads -> SUBSET UNION {FilesOf[d] : d \in Downloads}]
  /\ \A d \in Downloads : IsFiniteSet(FilesOf[d]) /\ FilesOf[d] # {}

AllFiles == UNION {FilesOf[d] : d \in Downloads}

VARIABLES
  disk,           \* disk[d][p][f]: file f of d under its final name at p
  of, dst,        \* of[t], dst[t]: what task t copies, and where to
  status,         \* status[t]: task["status"]; "none" is not in the registry
  cancelled,      \* cancelled[t]: task["cancelled"]
  old,            \* old[t]: created_at is further back than the TTL
  at,             \* at[t]: where the coroutine or its worker is
  todo,           \* todo[t]: files the worker still has to copy
  temp            \* temp[t]: the worker's .copy_ temporary exists

ctVars == <<disk, of, dst, status, cancelled, old, at, todo, temp>>

-----------------------------------------------------------------------------
\* The statuses TaskManager.cleanup may forget.
Terminal == {"done", "error", "cancelled", "imported", "import_timeout", "renamed_needed"}
Status   == {"none", "running", "importing"} \union Terminal
Copied   == {"done", "importing", "imported", "import_timeout", "renamed_needed"}

\* How copy_files_to_root came back: result or exception.
Result  == {"ok", "stopped", "not_found", "CopyCancelled", "Exception"}
Working == {"scan", "next", "chunks"}
At      == {"idle", "launched", "command", "verify"} \union Working \union Result

CTTypeOK ==
  /\ disk \in [Downloads -> [Places -> [AllFiles -> {"none", "partial", "whole"}]]]
  /\ of \in [CopyTasks -> Downloads \union {NoDownload}]
  /\ dst \in [CopyTasks -> Places]
  /\ status \in [CopyTasks -> Status]
  /\ cancelled \in [CopyTasks -> BOOLEAN]
  /\ old \in [CopyTasks -> BOOLEAN]
  /\ at \in [CopyTasks -> At]
  /\ todo \in [CopyTasks -> SUBSET AllFiles]
  /\ temp \in [CopyTasks -> BOOLEAN]

CTInit ==
  /\ disk = [d \in Downloads |-> [p \in Places |-> [f \in AllFiles |-> "none"]]]
  /\ of = [t \in CopyTasks |-> NoDownload]
  /\ dst = [t \in CopyTasks |-> "library"]
  /\ status = [t \in CopyTasks |-> "none"]
  /\ cancelled = [t \in CopyTasks |-> FALSE]
  /\ old = [t \in CopyTasks |-> FALSE]
  /\ at = [t \in CopyTasks |-> "idle"]
  /\ todo = [t \in CopyTasks |-> {}]
  /\ temp = [t \in CopyTasks |-> FALSE]

-----------------------------------------------------------------------------
Goto(t, a) == at' = [at EXCEPT ![t] = a]

\* TaskManager.update: a task the registry forgot is left alone.
Update(t, s) == status' = [status EXCEPT ![t] = IF @ = "none" THEN @ ELSE s]

On(t, f) == disk[of[t]][dst[t]][f]
Write(t, f, w) == disk' = [disk EXCEPT ![of[t]][dst[t]][f] = w]

\* A task of the model can stand for another copy once its own is over.
Unused(t) == at[t] = "idle" /\ status[t] \in Terminal \union {"none"}

\* TaskManager.create, and create_task(run_copy_background).
Create(t, d, p) ==
  /\ Unused(t)
  /\ of' = [of EXCEPT ![t] = d]
  /\ dst' = [dst EXCEPT ![t] = p]
  /\ status' = [status EXCEPT ![t] = "running"]
  /\ cancelled' = [cancelled EXCEPT ![t] = FALSE]
  /\ old' = [old EXCEPT ![t] = FALSE]
  /\ Goto(t, "launched")
  /\ UNCHANGED <<disk, todo, temp>>

\* First stretch of the coroutine: a detail, then to_thread.
Launch(t) ==
  /\ at[t] = "launched"
  /\ Goto(t, "scan")
  /\ UNCHANGED <<disk, of, dst, status, cancelled, old, todo, temp>>

\* copy_files_to_root tells the record at once that the source is missing.
SourceMissing(t) ==
  /\ at[t] = "scan"
  /\ Update(t, "error")
  /\ Goto(t, "not_found")
  /\ UNCHANGED <<disk, of, dst, cancelled, old, todo, temp>>

\* copy_files looks at the source: a tree skips the files whose name exists
\* at the destination, a single file is copied whatever lives there.
ToCopy(t) ==
  IF of[t] \in Trees THEN {f \in FilesOf[of[t]] : On(t, f) = "none"} ELSE FilesOf[of[t]]
Scan(t) ==
  /\ at[t] = "scan"
  /\ todo' = [todo EXCEPT ![t] = ToCopy(t)]
  /\ Goto(t, "next")
  /\ UNCHANGED <<disk, of, dst, status, cancelled, old, temp>>

\* Between two files of a tree the flag is looked at; a single file has no
\* such boundary.
StopBetweenFiles(t) ==
  /\ at[t] = "next" /\ of[t] \in Trees /\ todo[t] # {}
  /\ cancelled[t]
  /\ Goto(t, "stopped")
  /\ todo' = [todo EXCEPT ![t] = {}]
  /\ UNCHANGED <<disk, of, dst, status, cancelled, old, temp>>

MayStart(t) == at[t] = "next" /\ (of[t] \in Trees => ~cancelled[t])

\* LocalFileStorage.copy_file: a hardlink, which fails over an existing name.
Link(t, f) ==
  /\ MayStart(t) /\ f \in todo[t]
  /\ On(t, f) = "none"
  /\ Write(t, f, "whole")
  /\ todo' = [todo EXCEPT ![t] = @ \ {f}]
  /\ UNCHANGED <<of, dst, status, cancelled, old, at, temp>>

\* Another filesystem, or the name exists: bytes, through a temporary.
StartChunks_InPlace(t) ==
  /\ MayStart(t) /\ todo[t] # {}
  /\ \E f \in todo[t] : Write(t, f, "partial")
  /\ Goto(t, "chunks")
  /\ UNCHANGED <<of, dst, status, cancelled, old, todo, temp>>
StartChunks(t) ==
  /\ MayStart(t) /\ todo[t] # {}
  /\ temp' = [temp EXCEPT ![t] = TRUE]
  /\ Goto(t, "chunks")
  /\ UNCHANGED <<disk, of, dst, status, cancelled, old, todo>>

\* The flag is looked at before every chunk; the temporary goes with the
\* exception.
StopBetweenChunks(t) ==
  /\ at[t] = "chunks" /\ cancelled[t]
  /\ temp' = [temp EXCEPT ![t] = FALSE]
  /\ Goto(t, "CopyCancelled")
  /\ todo' = [todo EXCEPT ![t] = {}]
  /\ UNCHANGED <<disk, of, dst, status, cancelled, old>>

\* The last byte is written and os.rename publishes the file.
Publish(t, f) ==
  /\ at[t] = "chunks" /\ f \in todo[t]
  /\ Write(t, f, "whole")
  /\ temp' = [temp EXCEPT ![t] = FALSE]
  /\ todo' = [todo EXCEPT ![t] = @ \ {f}]
  /\ Goto(t, "next")
  /\ UNCHANGED <<of, dst, status, cancelled, old>>

\* Any call of the worker raises.
CopyRaises_Swallowed(t) ==
  /\ at[t] \in Working
  /\ temp' = [temp EXCEPT ![t] = FALSE]
  /\ Goto(t, "ok")
  /\ todo' = [todo EXCEPT ![t] = {}]
  /\ UNCHANGED <<disk, of, dst, status, cancelled, old>>
CopyRaises(t) ==
  /\ at[t] \in Working
  /\ temp' = [temp EXCEPT ![t] = FALSE]
  /\ Goto(t, "Exception")
  /\ todo' = [todo EXCEPT ![t] = {}]
  /\ UNCHANGED <<disk, of, dst, status, cancelled, old>>

CopiedAll(t) ==
  /\ at[t] = "next" /\ todo[t] = {}
  /\ Goto(t, "ok")
  /\ UNCHANGED <<disk, of, dst, status, cancelled, old, todo, temp>>

WorkerStep(t) ==
  \/ SourceMissing(t) \/ Scan(t) \/ StopBetweenFiles(t)
  \/ \E f \in AllFiles : Link(t, f) \/ Publish(t, f)
  \/ StartChunks(t) \/ StopBetweenChunks(t) \/ CopyRaises(t) \/ CopiedAll(t)

-----------------------------------------------------------------------------
\* The coroutine resumes with what the worker left.  The flag goes first,
\* whatever the result; an exception of the worker goes to its own clause.
Settle(t, s, a) ==
  /\ Update(t, s)
  /\ Goto(t, a)
  /\ UNCHANGED <<disk, of, dst, cancelled, old, todo, temp>>

SettleCancelled(t) ==
  /\ \/ at[t] \in {"ok", "stopped", "not_found"} /\ cancelled[t]
     \/ at[t] = "CopyCancelled"
  /\ Settle(t, "cancelled", "idle")

SettleError_NotCaught(t) ==
  /\ at[t] = "not_found" /\ ~cancelled[t]
  /\ Settle(t, "error", "idle")
SettleError(t) ==
  /\ \/ at[t] = "not_found" /\ ~cancelled[t]
     \/ at[t] = "Exception"
  /\ Settle(t, "error", "idle")

\* A foreign folder: the arr is asked nothing.
SettleForeign(t) ==
  /\ at[t] = "ok" /\ ~cancelled[t] /\ dst[t] = "foreign"
  /\ Settle(t, "done", "idle")

\* "done", then "importing", in one stretch; then the arr's command.
SettleImport_NoFlag(t) ==
  /\ at[t] = "ok" /\ dst[t] = "library"
  /\ Settle(t, "importing", "command")
SettleImport(t) ==
  /\ at[t] = "ok" /\ ~cancelled[t] /\ dst[t] = "library"
  /\ Settle(t, "importing", "command")

\* arr_command answers, good or bad: its answer is not looked at.
CommandAnswered(t) ==
  /\ at[t] = "command"
  /\ Goto(t, "verify")
  /\ UNCHANGED <<disk, of, dst, status, cancelled, old, todo, temp>>

\* verify_import: no id to ask about, an import seen, a rename still due, or
\* the deadline; anything else asks again after a pause.
VerifyEnds(t) ==
  /\ at[t] = "verify"
  /\ \E s \in {"done", "imported", "renamed_needed", "import_timeout"} : Settle(t, s, "idle")

\* A question to the arr raises past the clients' own handling.
VerifyRaises(t) ==
  /\ at[t] \in {"command", "verify"}
  /\ Settle(t, "error", "idle")

CoroutineStep(t) ==
  \/ Launch(t) \/ SettleCancelled(t) \/ SettleError(t) \/ SettleForeign(t)
  \/ SettleImport(t) \/ CommandAnswered(t) \/ VerifyEnds(t) \/ VerifyRaises(t)

-----------------------------------------------------------------------------
\* POST /api/tasks/{id}/cancel.  A copy is never pending, paused or queued.
Cancel(t) ==
  /\ status[t] = "running" /\ ~cancelled[t]
  /\ cancelled' = [cancelled EXCEPT ![t] = TRUE]
  /\ UNCHANGED <<disk, of, dst, status, old, at, todo, temp>>

\* Long after its creation; while the copy runs nobody asks how old it is.
Age(t) ==
  /\ status[t] \in Terminal /\ ~old[t]
  /\ old' = [old EXCEPT ![t] = TRUE]
  /\ UNCHANGED <<disk, of, dst, status, cancelled, at, todo, temp>>

\* Every read of a task cleans the registry first.
Expired(t) == status[t] \in Terminal /\ old[t]
Poll ==
  /\ \E t \in CopyTasks : Expired(t)
  /\ status' = [t \in CopyTasks |-> IF Expired(t) THEN "none" ELSE status[t]]
  /\ UNCHANGED <<disk, of, dst, cancelled, old, at, todo, temp>>

\* A restart forgets the registry and kills the threads; files stay.
Forget ==
  /\ of' = [t \in CopyTasks |-> NoDownload]
  /\ dst' = [t \in CopyTasks |-> "library"]
  /\ status' = [t \in CopyTasks |-> "none"]
  /\ cancelled' = [t \in CopyTasks |-> FALSE]
  /\ old' = [t \in CopyTasks |-> FALSE]
  /\ at' = [t \in CopyTasks |-> "idle"]
  /\ todo' = [t \in CopyTasks |-> {}]
  /\ temp' = [t \in CopyTasks |-> FALSE]
  /\ UNCHANGED disk

TaskStep ==
  \/ \E t \in CopyTasks : WorkerStep(t) \/ CoroutineStep(t) \/ Cancel(t) \/ Age(t)
  \/ Poll

\* Whoever asks for copies: the operator here, the sweep in AutoCopy.
CTNext ==
  \/ \E t \in CopyTasks, a \in Asked : Create(t, a[1], a[2])
  \/ TaskStep \/ Forget

\* Threads and the event loop make progress; nobody has to cancel or to poll.
CTFairness ==
  \A t \in CopyTasks : WF_ctVars(WorkerStep(t)) /\ WF_ctVars(CoroutineStep(t))

CTSpec == CTInit /\ [][CTNext]_ctVars /\ CTFairness

-----------------------------------------------------------------------------
\* A final name never holds half a file, whatever is cancelled, raises or
\* crashes: copy_files skips an existing name on the strength of it.
NothingHalfCopied ==
  \A d \in Downloads, p \in Places, f \in AllFiles : disk[d][p][f] # "partial"

\* A cancel that was accepted is honoured: the copy is not then imported or
\* reported as done, however late in the copy the flag came.
CancelIsHonoured ==
  \A t \in CopyTasks : cancelled[t] => status[t] \in {"none", "running", "cancelled", "error"}

\* A copy that reports success left every file of the download, whole, where
\* it was asked to, also when it only added what an earlier try left out and
\* when another copy of the same download runs.
SuccessIsComplete ==
  \A t \in CopyTasks :
    status[t] \in Copied => \A f \in FilesOf[of[t]] : disk[of[t]][dst[t]][f] = "whole"

\* Every copy comes to an end the registry may forget, whatever fails.
CopyEnds == \A t \in CopyTasks : at[t] = "launched" ~> status[t] \in Terminal \union {"none"}

\* A copy is whole wherever it says it is, and nowhere half.
CopiesAreWhole == CTTypeOK /\ NothingHalfCopied /\ SuccessIsComplete
=============================================================================
