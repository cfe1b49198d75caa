-------------------------------- MODULE Mixer --------------------------------
(***************************************************************************)
(* The media mixer (media_mixer.py, POST /api/mixer/mux and the task       *)
(* routes).  Handlers and run coroutines share one event loop, each of     *)
(* their steps between two awaits is atomic; ffmpeg is driven by a worker  *)
(* thread (_run_ffmpeg) that polls the task's flags between two lines of   *)
(* output.  One mux at a time: a job that finds the slot taken waits.      *)
(*                                                                         *)
(* A job substitutes its destination (ffmpeg writes a temporary beside it, *)
(* os.replace is the last step) or writes a new file under a chosen name.  *)
(* Subtitle extraction is one await; the expiry of finished tasks, which   *)
(* no other step looks at, is left out.                                    *)
(***************************************************************************)
EXTENDS Naturals

CONSTANTS
  Jobs,           \* identities of mux requests
  Paths,          \* destinations
  Requests,       \* the requests a job may be
  None,           \* no job
  MaxCrashes      \* bound: restarts of the process

Request == [replace : BOOLEAN, path : Paths]

ASSUME MXAssumption ==
  /\ Requests \subseteq Request
  /\ None \notin Jobs
  /\ Jobs \intersect {"none", "original", "partial"} = {}
  /\ MaxCrashes \in Nat

VARIABLES
  req,            \* req[j]: what the job asks for
  status,         \* status[j]: task["status"]; "none" and "asked" precede the task
  cancelled,      \* cancelled[j]: task["cancelled"]
  paused,         \* paused[j]: task["paused"]
  event,          \* event[j]: task["pause_event"] is set, the worker goes on
  run,            \* run[j]: where the job's coroutine and its worker are
  active,         \* _mux_active
  fifo,           \* the jobs in _mux_queue, in the order of arrived
  arrived,        \* arrived[j]: order of the start_mux calls
  file,           \* file[p]: what the path holds; a job's name is its whole output
  temp,           \* temp[j]: the hidden temporary of a substitution
  crashes

handles == <<cancelled, paused, event>>
files == <<file, temp>>
slot == <<active, fifo, arrived>>
vars == <<req, status, handles, run, slot, files, crashes>>

Status == {"none", "asked", "queued", "running", "paused", "done", "error", "cancelled", "lost"}
Terminal == {"done", "error", "cancelled", "lost"}
Run == {"none", "launched", "ffmpeg", "exit", "cancelled", "paused", "error", "done"}

TypeOK ==
  /\ req \in [Jobs -> Request]
  /\ status \in [Jobs -> Status]
  /\ cancelled \in [Jobs -> BOOLEAN]
  /\ paused \in [Jobs -> BOOLEAN]
  /\ event \in [Jobs -> BOOLEAN]
  /\ run \in [Jobs -> Run]
  /\ active \in Jobs \union {None}
  /\ fifo \subseteq Jobs
  /\ arrived \in [Jobs -> Nat]
  /\ file \in [Paths -> {"none", "original", "partial"} \union Jobs]
  /\ temp \in [Jobs -> {"none", "partial", "whole"}]
  /\ crashes \in Nat

Substitutes(p) == \E j \in Jobs : req[j].replace /\ req[j].path = p

Init ==
  /\ req \in [Jobs -> Requests]
  /\ status = [j \in Jobs |-> "none"]
  /\ cancelled = [j \in Jobs |-> FALSE]
  /\ paused = [j \in Jobs |-> FALSE]
  /\ event = [j \in Jobs |-> TRUE]
  /\ run = [j \in Jobs |-> "none"]
  /\ active = None /\ fifo = {} /\ arrived = [j \in Jobs |-> 0]
  /\ file = [p \in Paths |-> IF Substitutes(p) THEN "original" ELSE "none"]
  /\ temp = [j \in Jobs |-> "none"]
  /\ crashes = 0

-----------------------------------------------------------------------------
\* What ffmpeg and the clean-up do to write_path.
Written_InPlace(j, t, f) == file' = [file EXCEPT ![req[j].path] = f] /\ UNCHANGED temp
Written(j, t, f) ==
  IF req[j].replace
    THEN temp' = [temp EXCEPT ![j] = t] /\ UNCHANGED file
    ELSE file' = [file EXCEPT ![req[j].path] = f] /\ UNCHANGED temp

CleanUp(j) == Written(j, "none", "none")

\* _release_slot: what may still start, the oldest first.
InLine_WhoeverIsThere == fifo
InLine == {k \in fifo : status[k] = "queued" /\ ~cancelled[k]}

\* A job ends with an outcome and releases the slot, if it holds it.
Leave_KeepsSlotOnError(j, outcome) ==
  /\ status' = [status EXCEPT ![j] = outcome]
  /\ run' = [run EXCEPT ![j] = "none"]
  /\ IF active = j /\ outcome # "error" THEN active' = None ELSE UNCHANGED active
  /\ UNCHANGED <<fifo, arrived>>
Leave(j, outcome) ==
  /\ \/ /\ active # j
        /\ status' = [status EXCEPT ![j] = outcome]
        /\ run' = [run EXCEPT ![j] = "none"]
        /\ UNCHANGED <<active, fifo>>
     \/ /\ active = j /\ InLine = {}
        /\ status' = [status EXCEPT ![j] = outcome]
        /\ run' = [run EXCEPT ![j] = "none"]
        /\ active' = None /\ fifo' = {}
     \/ /\ active = j
        /\ \E k \in InLine :
             /\ \A l \in InLine : arrived[k] <= arrived[l]
             /\ status' = [status EXCEPT ![j] = outcome, ![k] = "running"]
             /\ run' = [run EXCEPT ![j] = "none", ![k] = "launched"]
             /\ active' = k
             /\ fifo' = {l \in fifo : arrived[l] > arrived[k]}
  /\ UNCHANGED arrived

-----------------------------------------------------------------------------
\* mixer_mux: a new file must not exist yet; then the probes are awaited.
Ask(j) ==
  /\ status[j] = "none"
  /\ ~req[j].replace => file[req[j].path] = "none"
  /\ status' = [status EXCEPT ![j] = "asked"]
  /\ UNCHANGED <<req, handles, run, slot, files, crashes>>

\* start_mux.
Start_Barges(j) ==
  /\ status[j] = "asked"
  /\ arrived' = [arrived EXCEPT ![j] = 1]
  /\ status' = [status EXCEPT ![j] = "running"]
  /\ run' = [run EXCEPT ![j] = "launched"]
  /\ active' = j
  /\ UNCHANGED <<req, handles, fifo, files, crashes>>
Start(j) ==
  /\ status[j] = "asked"
  /\ \E n \in {arrived[k] + 1 : k \in Jobs} :
       /\ \A k \in Jobs : arrived[k] < n
       /\ arrived' = [arrived EXCEPT ![j] = n]
  /\ \/ /\ active = None /\ active' = j
        /\ status' = [status EXCEPT ![j] = "running"]
        /\ run' = [run EXCEPT ![j] = "launched"]
        /\ UNCHANGED fifo
     \/ /\ active # None /\ fifo' = fifo \union {j}
        /\ status' = [status EXCEPT ![j] = "queued"]
        /\ UNCHANGED <<run, active>>
  /\ UNCHANGED <<req, handles, files, crashes>>

\* _run_mux_background up to its await; ffmpeg -y opens its output.
Begin(j) ==
  /\ run[j] = "launched"
  /\ event' = [event EXCEPT ![j] = ~paused[j]]
  /\ Written(j, "partial", "partial")
  /\ run' = [run EXCEPT ![j] = "ffmpeg"]
  /\ UNCHANGED <<req, status, cancelled, paused, slot, crashes>>

\* The worker goes from one point to the next and touches nothing else.
Worker(j, from, to) ==
  /\ run[j] = from
  /\ run' = [run EXCEPT ![j] = to]
  /\ UNCHANGED <<req, status, handles, slot, crashes>>

SeeCancel(j) == cancelled[j] /\ Worker(j, "ffmpeg", "cancelled") /\ UNCHANGED files
SeePause(j) == ~cancelled[j] /\ ~event[j] /\ Worker(j, "ffmpeg", "paused") /\ UNCHANGED files

\* progress=end, or no more output: from here on the flags are not looked at.
OutputEnds(j) == Worker(j, "ffmpeg", "exit") /\ UNCHANGED files

ExitOk(j) == Worker(j, "exit", "done") /\ Written(j, "whole", j)
ExitError(j) == Worker(j, "exit", "error") /\ UNCHANGED files

-----------------------------------------------------------------------------
\* _run_mux_background after its await, by the worker's result.
SettleCancelled(j) ==
  /\ run[j] = "cancelled"
  /\ CleanUp(j)
  /\ Leave(j, "cancelled")
  /\ UNCHANGED <<req, handles, crashes>>

SettlePaused_FreesSlot(j) ==
  /\ run[j] = "paused"
  /\ Leave(j, "paused")
  /\ UNCHANGED <<req, handles, files, crashes>>
SettlePaused(j) ==
  /\ run[j] = "paused"
  /\ status' = [status EXCEPT ![j] = "paused"]
  /\ run' = [run EXCEPT ![j] = "none"]
  /\ UNCHANGED <<req, handles, slot, files, crashes>>
SettleError(j) ==
  /\ run[j] = "error"
  /\ CleanUp(j)
  /\ Leave(j, "error")
  /\ UNCHANGED <<req, handles, crashes>>

\* After the subtitles: a cancelled substitution consumes nothing.
SettleDropped(j) ==
  /\ run[j] = "done" /\ req[j].replace /\ cancelled[j]
  /\ CleanUp(j)
  /\ Leave(j, "cancelled")
  /\ UNCHANGED <<req, handles, crashes>>

\* _finalize_replace: os.replace.
SettleReplaced_AnywayCancelled(j) ==
  /\ run[j] = "done" /\ req[j].replace
  /\ file' = [file EXCEPT ![req[j].path] = j]
  /\ temp' = [temp EXCEPT ![j] = "none"]
  /\ Leave(j, IF cancelled[j] THEN "cancelled" ELSE "done")
  /\ UNCHANGED <<req, handles, crashes>>
SettleReplaced(j) ==
  /\ run[j] = "done" /\ req[j].replace /\ ~cancelled[j]
  /\ file' = [file EXCEPT ![req[j].path] = j]
  /\ temp' = [temp EXCEPT ![j] = "none"]
  /\ Leave(j, "done")
  /\ UNCHANGED <<req, handles, crashes>>

\* ... or it is refused.
SettleRefused(j) ==
  /\ run[j] = "done" /\ req[j].replace /\ ~cancelled[j]
  /\ CleanUp(j)
  /\ Leave(j, "error")
  /\ UNCHANGED <<req, handles, crashes>>

SettleKept(j) ==
  /\ run[j] = "done" /\ ~req[j].replace
  /\ Leave(j, "done")
  /\ UNCHANGED <<req, handles, files, crashes>>

-----------------------------------------------------------------------------
\* cancel_task of a running job: flags and a signal, the run settles it.
CancelRunning_FreesSlot(j) ==
  /\ status[j] = "running"
  /\ cancelled' = [cancelled EXCEPT ![j] = TRUE]
  /\ event' = [event EXCEPT ![j] = TRUE]
  /\ \/ UNCHANGED <<status, run, active, fifo>>
     \/ \E k \in InLine :
          /\ active' = k /\ fifo' = fifo \ {k}
          /\ status' = [status EXCEPT ![k] = "running"]
          /\ run' = [run EXCEPT ![k] = "launched"]
  /\ UNCHANGED <<req, paused, arrived, files, crashes>>
CancelRunning(j) ==
  /\ status[j] = "running"
  /\ cancelled' = [cancelled EXCEPT ![j] = TRUE]
  /\ event' = [event EXCEPT ![j] = TRUE]
  /\ UNCHANGED <<req, status, paused, run, slot, files, crashes>>

\* cancel_task of a queued or paused one: nothing else would settle it.
CancelAtRest_NewWord(j) ==
  /\ status[j] \in {"queued", "paused"}
  /\ cancelled' = [cancelled EXCEPT ![j] = TRUE]
  /\ event' = [event EXCEPT ![j] = TRUE]
  /\ Leave(j, "interrupted")
  /\ UNCHANGED <<req, paused, files, crashes>>
CancelAtRest(j) ==
  /\ status[j] \in {"queued", "paused"}
  /\ cancelled' = [cancelled EXCEPT ![j] = TRUE]
  /\ event' = [event EXCEPT ![j] = TRUE]
  /\ Leave(j, "cancelled")
  /\ UNCHANGED <<req, paused, files, crashes>>

Pause(j) ==
  /\ status[j] = "running"
  /\ paused' = [paused EXCEPT ![j] = TRUE]
  /\ event' = [event EXCEPT ![j] = FALSE]
  /\ UNCHANGED <<req, status, cancelled, run, slot, files, crashes>>

Resume(j) ==
  /\ status[j] = "paused"
  /\ paused' = [paused EXCEPT ![j] = FALSE]
  /\ event' = [event EXCEPT ![j] = TRUE]
  /\ status' = [status EXCEPT ![j] = "running"]
  /\ run' = IF active = j THEN [run EXCEPT ![j] = "launched"] ELSE run
  /\ UNCHANGED <<req, cancelled, slot, files, crashes>>

\* Tasks, slot and line live in memory; the files stay as they are.
Crash ==
  /\ crashes < MaxCrashes
  /\ crashes' = crashes + 1
  /\ status' = [j \in Jobs |-> IF status[j] \in {"none", "done", "error", "cancelled"} THEN status[j] ELSE "lost"]
  /\ run' = [j \in Jobs |-> "none"]
  /\ active' = None /\ fifo' = {}
  /\ UNCHANGED <<req, handles, arrived, files>>

RunStep(j) ==
  \/ Begin(j) \/ SeeCancel(j) \/ SeePause(j) \/ OutputEnds(j) \/ ExitOk(j) \/ ExitError(j)
  \/ SettleCancelled(j) \/ SettlePaused(j) \/ SettleError(j)
  \/ SettleDropped(j) \/ SettleReplaced(j) \/ SettleRefused(j) \/ SettleKept(j)

Client(j) ==
  Ask(j) \/ Start(j) \/ CancelRunning(j) \/ CancelAtRest(j) \/ Pause(j) \/ Resume(j)

Next == (\E j \in Jobs : RunStep(j) \/ Client(j)) \/ Crash

Spec == Init /\ [][Next]_vars

\* ffmpeg ends and the event loop resumes whoever awaited it; clients are free.
FairSpec == Spec /\ \A j \in Jobs : WF_vars(RunStep(j))

-----------------------------------------------------------------------------
\* S11-4: "one mux at a time", through pauses, resumes and cancels.
OneMux == \A j, k \in Jobs : run[j] # "none" /\ run[k] # "none" => j = k

\* The slot belongs to the job that runs or is paused and to nobody else, and
\* nobody waits for a free slot: "the single mux slot is freed when the run
\* settles - a paused task keeps it until resumed or cancelled".
SlotNeverLeaks ==
  \A j \in Jobs :
    /\ status[j] \in {"running", "paused"} <=> active = j
    /\ status[j] = "queued" => active # None

\* A task shown as running is being run by something.
RunningHasARun == \A j \in Jobs : status[j] = "running" <=> run[j] # "none"

\* One mux at a time, and the slot goes with it.
OneSlot == TypeOK /\ OneMux /\ SlotNeverLeaks /\ RunningHasARun

\* S11-2: "a cancelled substitution never consumes the original", nor does one
\* that failed or that the process did not survive.
OnlyDoneConsumesOriginal ==
  \A j, k \in Jobs : file[req[j].path] = k /\ req[j].replace => status[k] = "done"

\* S11-1: "si algo falla, el original queda intacto": a destination is never
\* missing or half-written, whenever the process stops.
DestinationIntact ==
  \A p \in Paths : Substitutes(p) => file[p] \notin {"none", "partial"}

\* What was in the library is there, or a finished mux is in its place.
OriginalsKept == OnlyDoneConsumesOriginal /\ DestinationIntact

\* "cancelar una queued la retira sin ejecutarla": an outcome is final, nobody
\* runs a job that has one.
OutcomesAreFinal ==
  [][\A j \in Jobs : status[j] \in Terminal => status'[j] = status[j]]_vars

\* The line moves: whoever waits gets its turn or is withdrawn, unless a job in
\* front of it was paused.
QueueMoves ==
  \A j \in Jobs : status[j] = "queued" ~> (status[j] # "queued" \/ \E k \in Jobs : status[k] = "paused")

\* S11-4: one slot, first come first served, no barging.
Slot == INSTANCE FifoSlot WITH holder <- active, waiting <- {j \in Jobs : status[j] = "queued"}
ImplementsFifoSlot == Slot!FSSpec

\* cancel_task: "Cancel a running, paused or queued task": once it answered, the
\* job reaches an outcome by itself.
CancelSettles == \A j \in Jobs : cancelled[j] ~> status[j] \in Terminal
=============================================================================
