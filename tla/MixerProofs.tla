----------------------------- MODULE MixerProofs -----------------------------
(***************************************************************************)
(* Proofs about Mixer: type correctness, the slot and the originals.       *)
(*                                                                         *)
(* SlotInv strengthens SlotNeverLeaks and RunningHasARun with what the     *)
(* hand-over needs: every queued job is in the line, not cancelled, and    *)
(* arrivals are distinct, so that dropping the entries in front of the     *)
(* chosen one drops nobody who waits.  FileInv strengthens                 *)
(* OnlyDoneConsumesOriginal and DestinationIntact with what Ask settled:   *)
(* a new file never has the name of a destination to substitute.           *)
(***************************************************************************)
EXTENDS Mixer, TLAPS

Fresh == {"none", "asked"}

SlotInv ==
  /\ \A j \in Jobs : status[j] = "running" <=> run[j] # "none"
  /\ \A j \in Jobs : status[j] \in {"running", "paused"} <=> active = j
  /\ \A j \in Jobs : status[j] = "queued" => j \in fifo /\ ~cancelled[j] /\ arrived[j] # 0 /\ active # None
  /\ \A j \in Jobs : status[j] \in Fresh => ~cancelled[j] /\ arrived[j] = 0
  /\ \A j, k \in Jobs : arrived[j] = arrived[k] /\ arrived[j] # 0 => j = k

FileInv ==
  /\ \A j \in Jobs : status[j] # "none" /\ ~req[j].replace => ~Substitutes(req[j].path)
  /\ \A j \in Jobs : ~req[j].replace => temp[j] = "none"
  /\ OnlyDoneConsumesOriginal
  /\ DestinationIntact

IInv == TypeOK /\ SlotInv /\ FileInv

-----------------------------------------------------------------------------
\* Leaving the slot: the job gets its outcome, at most one other job is started,
\* and that one was queued.
LEMMA LeaveChanges ==
  ASSUME TypeOK, NEW j \in Jobs, NEW outcome \in Status, Leave(j, outcome), status[j] # "queued" \/ active # j
  PROVE  /\ status' \in [Jobs -> Status] /\ run' \in [Jobs -> Run]
         /\ active' \in Jobs \union {None} /\ fifo' \subseteq Jobs
         /\ status'[j] = outcome /\ run'[j] = "none"
         /\ \A l \in Jobs \ {j} :
              \/ status'[l] = status[l] /\ run'[l] = run[l]
              \/ status[l] = "queued" /\ status'[l] = "running" /\ run'[l] = "launched"
<1>1. CASE \/ active # j \/ InLine = {}
  BY <1>1 DEF Leave, TypeOK, Run, InLine
<1>2. CASE active = j /\ InLine # {}
  <2>1. PICK k \in InLine :
          /\ status' = [status EXCEPT ![j] = outcome, ![k] = "running"]
          /\ run' = [run EXCEPT ![j] = "none", ![k] = "launched"]
          /\ active' = k
          /\ fifo' = {l \in fifo : arrived[l] > arrived[k]}
    BY <1>2 DEF Leave
  <2>2. k \in Jobs /\ status[k] = "queued" /\ k # j
    BY <1>2, <2>1 DEF InLine, TypeOK
  <2>3. QED
    BY <2>1, <2>2 DEF TypeOK, Status, Run
<1>3. QED
  BY <1>1, <1>2

\* The hand-over keeps the slot's invariant.
LEMMA LeaveKeepsSlot ==
  ASSUME TypeOK, SlotInv, MXAssumption,
         NEW j \in Jobs, NEW outcome \in Terminal, Leave(j, outcome),
         status[j] \in {"running", "paused", "queued"},
         \A l \in Jobs \ {j} : cancelled'[l] = cancelled[l]
  PROVE  SlotInv'
<1>1. arrived' = arrived
  BY DEF Leave
<1>2. CASE active # j
  <2>1. /\ status' = [status EXCEPT ![j] = outcome]
        /\ run' = [run EXCEPT ![j] = "none"]
        /\ active' = active /\ fifo' = fifo
    BY <1>2 DEF Leave
  <2>2. QED
    BY <1>1, <1>2, <2>1 DEF SlotInv, TypeOK, Terminal, Fresh
<1>3. CASE active = j /\ InLine = {}
  <2>1. /\ status' = [status EXCEPT ![j] = outcome]
        /\ run' = [run EXCEPT ![j] = "none"]
        /\ active' = None /\ fifo' = {}
    BY <1>3 DEF Leave
  <2>2. \A l \in Jobs : status[l] # "queued"
    BY <1>3 DEF InLine, SlotInv
  <2>3. QED
    BY <1>1, <1>3, <2>1, <2>2 DEF SlotInv, TypeOK, Terminal, Fresh, MXAssumption
<1>4. CASE active = j /\ InLine # {}
  <2>1. PICK k \in InLine :
          /\ \A l \in InLine : arrived[k] <= arrived[l]
          /\ status' = [status EXCEPT ![j] = outcome, ![k] = "running"]
          /\ run' = [run EXCEPT ![j] = "none", ![k] = "launched"]
          /\ active' = k
          /\ fifo' = {l \in fifo : arrived[l] > arrived[k]}
    BY <1>4 DEF Leave
  <2>2. k \in Jobs /\ status[k] = "queued" /\ k # j /\ status[j] \in {"running", "paused"}
    BY <1>4, <2>1 DEF InLine, TypeOK, SlotInv
  <2>3. /\ status'[j] = outcome /\ status'[k] = "running"
        /\ run'[j] = "none" /\ run'[k] = "launched"
        /\ \A l \in Jobs \ {j, k} : status'[l] = status[l] /\ run'[l] = run[l]
    BY <2>1, <2>2 DEF TypeOK
  <2>4. \A l \in Jobs : status'[l] = "queued" => l \in fifo'
    <3>1. SUFFICES ASSUME NEW l \in Jobs, status'[l] = "queued" PROVE l \in fifo'
      OBVIOUS
    <3>2. l # j /\ l # k /\ status[l] = "queued"
      BY <2>3, <3>1 DEF Terminal
    <3>3. l \in InLine
      BY <3>2 DEF InLine, SlotInv
    <3>4. arrived[k] <= arrived[l] /\ arrived[k] # arrived[l] /\ arrived[k] \in Nat /\ arrived[l] \in Nat
      BY <2>1, <2>2, <3>2, <3>3 DEF SlotInv, TypeOK
    <3>5. arrived[l] > arrived[k]
      BY <3>4
    <3>6. QED
      BY <2>1, <3>3, <3>5 DEF InLine
  <2>5. active' # None
    BY <2>1, <2>2 DEF MXAssumption
  <2>6. \A l \in Jobs : status'[l] = "running" <=> run'[l] # "none"
    BY <2>2, <2>3 DEF SlotInv, Terminal
  <2>7. \A l \in Jobs : status'[l] \in {"running", "paused"} <=> active' = l
    BY <1>4, <2>1, <2>2, <2>3 DEF SlotInv, Terminal
  <2>8. \A l \in Jobs : status'[l] = "queued" => ~cancelled'[l] /\ arrived'[l] # 0
    BY <1>1, <2>2, <2>3 DEF SlotInv, Terminal
  <2>9. \A l \in Jobs : status'[l] \in Fresh => ~cancelled'[l] /\ arrived'[l] = 0
    BY <1>1, <2>2, <2>3 DEF SlotInv, Terminal, Fresh
  <2>10. \A l, i \in Jobs : arrived'[l] = arrived'[i] /\ arrived'[l] # 0 => l = i
    BY <1>1 DEF SlotInv
  <2>11. QED
    BY <2>4, <2>5, <2>6, <2>7, <2>8, <2>9, <2>10 DEF SlotInv
<1>5. QED
  BY <1>2, <1>3, <1>4

\* Who may leave, and with what.
LEMMA LeavesBySlot ==
  ASSUME TypeOK, SlotInv, NEW j \in Jobs, run[j] # "none"
  PROVE  status[j] = "running" /\ active = j
  BY DEF SlotInv

LEMMA CleanUpTyped ==
  ASSUME TypeOK, NEW j \in Jobs, NEW t \in {"none", "partial", "whole"},
         NEW f \in {"none", "original", "partial"} \union Jobs, Written(j, t, f)
  PROVE  /\ file' \in [Paths -> {"none", "original", "partial"} \union Jobs]
         /\ temp' \in [Jobs -> {"none", "partial", "whole"}]
  BY DEF TypeOK, Written, Request

-----------------------------------------------------------------------------
LEMMA TypeInit == MXAssumption /\ Init => TypeOK
<1> SUFFICES ASSUME MXAssumption, Init PROVE TypeOK
  OBVIOUS
<1>1. req \in [Jobs -> Request]
  BY DEF Init, MXAssumption
<1>2. QED
  BY <1>1 DEF Init, TypeOK, Status, Run

LEMMA TypeNext == MXAssumption /\ TypeOK /\ SlotInv /\ [Next]_vars => TypeOK'
<1> SUFFICES ASSUME MXAssumption, TypeOK, SlotInv, [Next]_vars PROVE TypeOK'
  OBVIOUS
<1> USE DEF handles, files, slot
<1>1. ASSUME NEW j \in Jobs, RunStep(j) PROVE TypeOK'
  <2>1. CASE Begin(j)
    BY <2>1, CleanUpTyped DEF Begin, TypeOK, Run
  <2>2. CASE SeeCancel(j)
    BY <2>2 DEF SeeCancel, Worker, TypeOK, Run
  <2>3. CASE SeePause(j)
    BY <2>3 DEF SeePause, Worker, TypeOK, Run
  <2>4. CASE OutputEnds(j)
    BY <2>4 DEF OutputEnds, Worker, TypeOK, Run
  <2>5. CASE ExitOk(j)
    BY <2>5, CleanUpTyped DEF ExitOk, Worker, TypeOK, Run
  <2>6. CASE ExitError(j)
    BY <2>6 DEF ExitError, Worker, TypeOK, Run
  <2>7. CASE SettlePaused(j)
    BY <2>7 DEF SettlePaused, TypeOK, Status, Run
  <2>8. CASE SettleCancelled(j) \/ SettleDropped(j)
    <3>1. CleanUp(j) /\ Leave(j, "cancelled") /\ run[j] # "none" /\ UNCHANGED <<req, handles, crashes>>
      BY <2>8 DEF SettleCancelled, SettleDropped
    <3>2. QED
      BY <3>1, CleanUpTyped, LeaveChanges, LeavesBySlot DEF CleanUp, TypeOK, Status, Leave
  <2>9. CASE SettleError(j) \/ SettleRefused(j)
    <3>1. CleanUp(j) /\ Leave(j, "error") /\ run[j] # "none" /\ UNCHANGED <<req, handles, crashes>>
      BY <2>9 DEF SettleError, SettleRefused
    <3>2. QED
      BY <3>1, CleanUpTyped, LeaveChanges, LeavesBySlot DEF CleanUp, TypeOK, Status, Leave
  <2>10. CASE SettleReplaced(j)
    <3>1. Leave(j, "done") /\ run[j] # "none" /\ UNCHANGED <<req, handles, crashes>>
      BY <2>10 DEF SettleReplaced
    <3>2. /\ file' \in [Paths -> {"none", "original", "partial"} \union Jobs]
          /\ temp' \in [Jobs -> {"none", "partial", "whole"}]
      BY <2>10 DEF SettleReplaced, TypeOK, Request
    <3>3. QED
      BY <3>1, <3>2, LeaveChanges, LeavesBySlot DEF TypeOK, Status, Leave
  <2>11. CASE SettleKept(j)
    BY <2>11, LeaveChanges, LeavesBySlot DEF SettleKept, TypeOK, Status, Leave
  <2>12. QED
    BY <1>1, <2>1, <2>2, <2>3, <2>4, <2>5, <2>6, <2>7, <2>8, <2>9, <2>10, <2>11 DEF RunStep
<1>2. ASSUME NEW j \in Jobs, Client(j) PROVE TypeOK'
  <2>1. CASE Ask(j)
    BY <2>1 DEF Ask, TypeOK, Status
  <2>2. CASE Start(j)
    BY <2>2 DEF Start, TypeOK, Status, Run
  <2>3. CASE CancelRunning(j)
    BY <2>3 DEF CancelRunning, TypeOK
  <2>4. CASE CancelAtRest(j)
    <3>1. status[j] # "queued" \/ active # j
      BY DEF SlotInv
    <3>2. QED
      BY <2>4, <3>1, LeaveChanges DEF CancelAtRest, TypeOK, Status, Leave
  <2>5. CASE Pause(j)
    BY <2>5 DEF Pause, TypeOK
  <2>6. CASE Resume(j)
    BY <2>6 DEF Resume, TypeOK, Status, Run
  <2>7. QED
    BY <1>2, <2>1, <2>2, <2>3, <2>4, <2>5, <2>6 DEF Client
<1>3. CASE Crash
  BY <1>3 DEF Crash, TypeOK, Status, Run
<1>4. CASE UNCHANGED vars
  BY <1>4 DEF vars, TypeOK
<1>5. QED
  BY <1>1, <1>2, <1>3, <1>4 DEF Next

-----------------------------------------------------------------------------
LEMMA SlotInit == MXAssumption /\ Init => SlotInv
  BY DEF MXAssumption, Init, SlotInv, Fresh

LEMMA SlotNext == MXAssumption /\ TypeOK /\ SlotInv /\ [Next]_vars => SlotInv'
<1> SUFFICES ASSUME MXAssumption, TypeOK, SlotInv, [Next]_vars PROVE SlotInv'
  OBVIOUS
<1> USE DEF handles, files, slot
<1>1. ASSUME NEW j \in Jobs, RunStep(j) PROVE SlotInv'
  <2>1. CASE Begin(j)
    BY <2>1 DEF Begin, TypeOK, SlotInv, Fresh
  <2>2. CASE SeeCancel(j)
    BY <2>2 DEF SeeCancel, Worker, TypeOK, SlotInv, Fresh
  <2>3. CASE SeePause(j)
    BY <2>3 DEF SeePause, Worker, TypeOK, SlotInv, Fresh
  <2>4. CASE OutputEnds(j)
    BY <2>4 DEF OutputEnds, Worker, TypeOK, SlotInv, Fresh
  <2>5. CASE ExitOk(j)
    BY <2>5 DEF ExitOk, Worker, TypeOK, SlotInv, Fresh
  <2>6. CASE ExitError(j)
    BY <2>6 DEF ExitError, Worker, TypeOK, SlotInv, Fresh
  <2>7. CASE SettlePaused(j)
    BY <2>7 DEF SettlePaused, TypeOK, SlotInv, Fresh
  <2>8. ASSUME NEW outcome \in Terminal, Leave(j, outcome), run[j] # "none", UNCHANGED handles
        PROVE  SlotInv'
    BY <2>8, LeaveKeepsSlot, LeavesBySlot
  <2>9. CASE SettleCancelled(j) \/ SettleDropped(j)
    BY <2>8, <2>9 DEF SettleCancelled, SettleDropped, Terminal
  <2>10. CASE SettleError(j) \/ SettleRefused(j)
    BY <2>8, <2>10 DEF SettleError, SettleRefused, Terminal
  <2>11. CASE SettleReplaced(j) \/ SettleKept(j)
    BY <2>8, <2>11 DEF SettleReplaced, SettleKept, Terminal
  <2>12. QED
    BY <1>1, <2>1, <2>2, <2>3, <2>4, <2>5, <2>6, <2>7, <2>9, <2>10, <2>11 DEF RunStep
<1>2. ASSUME NEW j \in Jobs, Client(j) PROVE SlotInv'
  <2>1. CASE Ask(j)
    BY <2>1 DEF Ask, TypeOK, SlotInv, Fresh
  <2>2. CASE Start(j)
    <3>1. PICK n \in {arrived[k] + 1 : k \in Jobs} :
            /\ \A k \in Jobs : arrived[k] < n
            /\ arrived' = [arrived EXCEPT ![j] = n]
      BY <2>2 DEF Start
    <3>2. n \in Nat /\ n # 0 /\ \A k \in Jobs : arrived[k] # n
      BY <3>1 DEF TypeOK
    <3>3. /\ arrived'[j] = n
          /\ \A k \in Jobs \ {j} : arrived'[k] = arrived[k]
      BY <3>1 DEF TypeOK
    <3>4. \A l, k \in Jobs : arrived'[l] = arrived'[k] /\ arrived'[l] # 0 => l = k
      BY <3>2, <3>3 DEF SlotInv
    <3>5. status[j] = "asked" /\ ~cancelled[j] /\ cancelled' = cancelled
      BY <2>2 DEF Start, SlotInv, Fresh
    <3>6. CASE active = None
      <4>1. /\ active' = j /\ fifo' = fifo
            /\ status' = [status EXCEPT ![j] = "running"]
            /\ run' = [run EXCEPT ![j] = "launched"]
        BY <2>2, <3>6 DEF Start
      <4>2. QED
        BY <3>2, <3>3, <3>4, <3>5, <3>6, <4>1 DEF TypeOK, SlotInv, Fresh, MXAssumption
    <3>7. CASE active # None
      <4>1. /\ active' = active /\ fifo' = fifo \union {j}
            /\ status' = [status EXCEPT ![j] = "queued"]
            /\ run' = run
        BY <2>2, <3>7 DEF Start
      <4>2. QED
        BY <3>2, <3>3, <3>4, <3>5, <3>7, <4>1 DEF TypeOK, SlotInv, Fresh
    <3>8. QED
      BY <3>6, <3>7
  <2>3. CASE CancelRunning(j)
    BY <2>3 DEF CancelRunning, TypeOK, SlotInv, Fresh
  <2>4. CASE CancelAtRest(j)
    <3>1. \A l \in Jobs \ {j} : cancelled'[l] = cancelled[l]
      BY <2>4 DEF CancelAtRest, TypeOK
    <3>2. "cancelled" \in Terminal /\ Leave(j, "cancelled") /\ status[j] \in {"running", "paused", "queued"}
      BY <2>4 DEF CancelAtRest, Terminal
    <3>3. QED
      BY <3>1, <3>2, LeaveKeepsSlot
  <2>5. CASE Pause(j)
    BY <2>5 DEF Pause, TypeOK, SlotInv, Fresh
  <2>6. CASE Resume(j)
    BY <2>6 DEF Resume, TypeOK, SlotInv, Fresh
  <2>7. QED
    BY <1>2, <2>1, <2>2, <2>3, <2>4, <2>5, <2>6 DEF Client
<1>3. CASE Crash
  BY <1>3 DEF Crash, TypeOK, SlotInv, Fresh, MXAssumption
<1>4. CASE UNCHANGED vars
  BY <1>4 DEF vars, SlotInv, Fresh
<1>5. QED
  BY <1>1, <1>2, <1>3, <1>4 DEF Next

-----------------------------------------------------------------------------
LEMMA FileInit == MXAssumption /\ Init => FileInv
<1> SUFFICES ASSUME MXAssumption, Init PROVE FileInv
  OBVIOUS
<1>1. \A j \in Jobs : req[j] \in Request /\ req[j].path \in Paths
  <2>1. \A j \in Jobs : req[j] \in Request
    BY DEF Init, MXAssumption
  <2>2. QED
    BY <2>1 DEF Request
<1>2. \A p \in Paths : file[p] \in {"none", "original"} /\ (Substitutes(p) => file[p] = "original")
  BY DEF Init
<1>3. OnlyDoneConsumesOriginal
  BY <1>1, <1>2 DEF OnlyDoneConsumesOriginal, MXAssumption, Substitutes
<1>4. DestinationIntact
  BY <1>2 DEF DestinationIntact
<1>5. QED
  BY <1>3, <1>4 DEF Init, FileInv

\* A step that leaves the destinations to substitute alone keeps the invariant.
LEMMA FilesStay ==
  ASSUME TypeOK, FileInv, req' = req,
         \A p \in Paths : Substitutes(p) => file'[p] = file[p],
         \A k \in Jobs : ~req[k].replace => temp'[k] = "none",
         \A k \in Jobs : status[k] = "done" => status'[k] = "done",
         \A k \in Jobs : status'[k] # "none" => status[k] # "none"
  PROVE  FileInv'
<1>1. \A p : Substitutes(p)' <=> Substitutes(p)
  BY DEF Substitutes
<1>2. \A j \in Jobs : req[j].replace => req[j].path \in Paths /\ Substitutes(req[j].path)
  BY DEF Substitutes, TypeOK, Request
<1>3. OnlyDoneConsumesOriginal'
  BY <1>2 DEF FileInv, OnlyDoneConsumesOriginal
<1>4. DestinationIntact'
  BY <1>1 DEF FileInv, DestinationIntact
<1>5. QED
  BY <1>1, <1>3, <1>4 DEF FileInv

\* What a run writes before its last step is its temporary or its own new file.
LEMMA WrittenAside ==
  ASSUME TypeOK, FileInv, NEW j \in Jobs, NEW t, NEW f, status[j] # "none", Written(j, t, f)
  PROVE  /\ \A p \in Paths : Substitutes(p) => file'[p] = file[p]
         /\ \A k \in Jobs : ~req[k].replace => temp'[k] = "none"
<1>1. CASE req[j].replace
  BY <1>1 DEF Written, FileInv, TypeOK
<1>2. CASE ~req[j].replace
  <2>1. ~Substitutes(req[j].path)
    BY <1>2 DEF FileInv
  <2>2. QED
    BY <1>2, <2>1 DEF Written, FileInv, TypeOK
<1>3. QED
  BY <1>1, <1>2

LEMMA FileNext == MXAssumption /\ TypeOK /\ SlotInv /\ FileInv /\ [Next]_vars => FileInv'
<1> SUFFICES ASSUME MXAssumption, TypeOK, SlotInv, FileInv, [Next]_vars PROVE FileInv'
  OBVIOUS
<1> USE DEF handles, files, slot
<1>0. ASSUME UNCHANGED <<req, files>>,
             \A k \in Jobs : status[k] = "done" => status'[k] = "done",
             \A k \in Jobs : status'[k] # "none" => status[k] # "none"
      PROVE  FileInv'
  BY <1>0, FilesStay DEF FileInv
<1>1. ASSUME NEW j \in Jobs, RunStep(j) PROVE FileInv'
  <2>1. CASE Begin(j)
    <3>1. status[j] # "none" /\ Written(j, "partial", "partial") /\ UNCHANGED <<req, status>>
      BY <2>1 DEF Begin, SlotInv
    <3>2. QED
      BY <3>1, WrittenAside, FilesStay
  <2>2. CASE SeeCancel(j) \/ SeePause(j) \/ OutputEnds(j) \/ ExitError(j)
    BY <2>2, <1>0 DEF SeeCancel, SeePause, OutputEnds, ExitError, Worker
  <2>3. CASE ExitOk(j)
    <3>1. status[j] # "none" /\ Written(j, "whole", j) /\ UNCHANGED <<req, status>>
      BY <2>3 DEF ExitOk, Worker, SlotInv
    <3>2. QED
      BY <3>1, WrittenAside, FilesStay
  <2>4. CASE SettlePaused(j)
    <3>1. /\ status[j] = "running" /\ status' = [status EXCEPT ![j] = "paused"]
          /\ UNCHANGED <<req, files>>
      BY <2>4 DEF SettlePaused, SlotInv
    <3>2. QED
      BY <1>0, <3>1 DEF TypeOK
  <2>5. ASSUME NEW outcome \in Terminal, Leave(j, outcome), run[j] # "none"
        PROVE  /\ status[j] = "running" /\ status'[j] = outcome
               /\ \A k \in Jobs : status[k] = "done" => status'[k] = "done"
               /\ \A k \in Jobs : status'[k] # "none" => status[k] # "none"
    <3>1. outcome \in Status
      BY DEF Terminal, Status
    <3>2. status[j] = "running"
      BY <2>5, LeavesBySlot
    <3>3. status'[j] = outcome
      BY <2>5, <3>1, <3>2, LeaveChanges
    <3>4. \A k \in Jobs \ {j} : status'[k] = status[k] \/ (status[k] = "queued" /\ status'[k] = "running")
      BY <2>5, <3>1, <3>2, LeaveChanges
    <3>5. QED
      BY <3>2, <3>3, <3>4
  <2>6. CASE SettleCancelled(j) \/ SettleDropped(j) \/ SettleError(j) \/ SettleRefused(j)
    <3>1. PICK outcome \in {"cancelled", "error"} :
            Leave(j, outcome) /\ CleanUp(j) /\ run[j] # "none" /\ req' = req
      BY <2>6 DEF SettleCancelled, SettleDropped, SettleError, SettleRefused
    <3>2. outcome \in Terminal
      BY DEF Terminal
    <3>3. QED
      BY <2>5, <3>1, <3>2, WrittenAside, FilesStay DEF CleanUp
  <2>7. CASE SettleKept(j)
    BY <1>0, <2>5, <2>7 DEF SettleKept, Terminal
  <2>8. CASE SettleReplaced(j)
    <3>1. /\ Leave(j, "done") /\ run[j] # "none" /\ req' = req
          /\ file' = [file EXCEPT ![req[j].path] = j]
          /\ temp' = [temp EXCEPT ![j] = "none"]
      BY <2>8 DEF SettleReplaced
    <3>2. /\ status'[j] = "done"
          /\ \A k \in Jobs : status[k] = "done" => status'[k] = "done"
          /\ \A k \in Jobs : status'[k] # "none" => status[k] # "none"
      BY <2>5, <3>1 DEF Terminal
    <3>3. \A p : Substitutes(p)' <=> Substitutes(p)
      BY <3>1 DEF Substitutes
    <3>4. \A p \in Paths : file'[p] = file[p] \/ file'[p] = j
      BY <3>1 DEF TypeOK
    <3>5. OnlyDoneConsumesOriginal'
      BY <3>1, <3>2, <3>4 DEF FileInv, OnlyDoneConsumesOriginal, TypeOK, Request
    <3>6. DestinationIntact'
      BY <3>3, <3>4 DEF FileInv, DestinationIntact, MXAssumption
    <3>7. \A k \in Jobs : ~req[k].replace => temp'[k] = "none"
      BY <3>1 DEF FileInv, TypeOK
    <3>8. QED
      BY <3>1, <3>2, <3>3, <3>5, <3>6, <3>7 DEF FileInv
  <2>9. QED
    BY <1>1, <2>1, <2>2, <2>3, <2>4, <2>6, <2>7, <2>8 DEF RunStep
<1>2. ASSUME NEW j \in Jobs, Client(j) PROVE FileInv'
  <2>1. CASE Ask(j)
    <3>1. /\ status[j] = "none" /\ status' = [status EXCEPT ![j] = "asked"]
          /\ ~req[j].replace => file[req[j].path] = "none"
          /\ UNCHANGED <<req, files>>
      BY <2>1 DEF Ask
    <3>2. ~req[j].replace => ~Substitutes(req[j].path)
      BY <3>1 DEF FileInv, DestinationIntact, TypeOK, Request
    <3>3. \A p : Substitutes(p)' <=> Substitutes(p)
      BY <3>1 DEF Substitutes
    <3>4. OnlyDoneConsumesOriginal' /\ DestinationIntact'
      BY <3>1, <3>3 DEF FileInv, OnlyDoneConsumesOriginal, DestinationIntact, TypeOK
    <3>5. QED
      BY <3>1, <3>2, <3>3, <3>4 DEF FileInv, TypeOK
  <2>2. CASE Start(j)
    <3>1. /\ status[j] = "asked" /\ UNCHANGED <<req, files>>
          /\ \/ status' = [status EXCEPT ![j] = "running"]
             \/ status' = [status EXCEPT ![j] = "queued"]
      BY <2>2 DEF Start
    <3>2. QED
      BY <1>0, <3>1 DEF TypeOK
  <2>3. CASE CancelRunning(j) \/ Pause(j)
    BY <1>0, <2>3 DEF CancelRunning, Pause
  <2>4. CASE CancelAtRest(j)
    <3>1. Leave(j, "cancelled") /\ status[j] \in {"queued", "paused"} /\ UNCHANGED <<req, files>>
      BY <2>4 DEF CancelAtRest
    <3>2. status[j] # "queued" \/ active # j
      BY DEF SlotInv
    <3>3. /\ status'[j] = "cancelled"
          /\ \A k \in Jobs \ {j} : status'[k] = status[k] \/ (status[k] = "queued" /\ status'[k] = "running")
      BY <3>1, <3>2, LeaveChanges DEF Status
    <3>4. QED
      BY <1>0, <3>1, <3>3
  <2>5. CASE Resume(j)
    <3>1. /\ status[j] = "paused" /\ status' = [status EXCEPT ![j] = "running"]
          /\ UNCHANGED <<req, files>>
      BY <2>5 DEF Resume
    <3>2. QED
      BY <1>0, <3>1 DEF TypeOK
  <2>6. QED
    BY <1>2, <2>1, <2>2, <2>3, <2>4, <2>5 DEF Client
<1>3. CASE Crash
  <2>1. /\ UNCHANGED <<req, files>>
        /\ status' = [j \in Jobs |-> IF status[j] \in {"none", "done", "error", "cancelled"}
                                       THEN status[j] ELSE "lost"]
    BY <1>3 DEF Crash
  <2>2. QED
    BY <1>0, <2>1
<1>4. CASE UNCHANGED vars
  BY <1>0, <1>4 DEF vars
<1>5. QED
  BY <1>1, <1>2, <1>3, <1>4 DEF Next

-----------------------------------------------------------------------------
\* The inductive invariant.
THEOREM MixerInvariant == Spec => []IInv
<1>1. Init => IInv
  BY MXAssumption, TypeInit, SlotInit, FileInit DEF IInv
<1>2. IInv /\ [Next]_vars => IInv'
  BY MXAssumption, TypeNext, SlotNext, FileNext DEF IInv
<1>3. QED
  BY <1>1, <1>2, PTL DEF Spec

\* Type correctness of the mixer: "_run_mux_background" and the handlers leave
\* every task in one of its statuses, the slot with a job or with nobody.
THEOREM MixerTypeCorrect == Spec => []TypeOK
<1>1. IInv => TypeOK
  BY DEF IInv
<1>2. QED
  BY <1>1, MixerInvariant, PTL

\* S11-4, "one mux at a time", and the slot goes with the job that runs or is
\* paused: for any number of jobs, pauses, cancels, errors and restarts.
THEOREM OneMuxAlways == Spec => []OneSlot
<1>1. IInv => OneSlot
  BY DEF IInv, SlotInv, OneSlot, OneMux, SlotNeverLeaks, RunningHasARun
<1>2. QED
  BY <1>1, MixerInvariant, PTL

\* S11-1 and S11-2: a destination is whole at every moment, and only a mux that
\* ended as done has taken its place.
THEOREM OriginalsAreSafe == Spec => []OriginalsKept
<1>1. IInv => OriginalsKept
  BY DEF IInv, FileInv, OriginalsKept
<1>2. QED
  BY <1>1, MixerInvariant, PTL

-----------------------------------------------------------------------------
\* Only a job with a run, a queued or a paused one changes its status by leaving.
LEMMA LeaveKeepsOutcomes ==
  ASSUME TypeOK, SlotInv, NEW j \in Jobs, NEW outcome \in Terminal, Leave(j, outcome),
         status[j] \in {"running", "paused", "queued"}
  PROVE  \A k \in Jobs : status[k] \in Terminal => status'[k] = status[k]
<1>1. outcome \in Status /\ (status[j] # "queued" \/ active # j)
  BY DEF Terminal, Status, SlotInv
<1>2. \A k \in Jobs \ {j} : status'[k] = status[k] \/ status[k] = "queued"
  BY <1>1, LeaveChanges
<1>3. QED
  BY <1>2 DEF Terminal

\* "Cancelar una queued la retira sin ejecutarla": a task that has an outcome
\* keeps it, whatever the line, a late worker or a restart do.
THEOREM OutcomesStayFinal == Spec => OutcomesAreFinal
<1> DEFINE Kept == \A j \in Jobs : status[j] \in Terminal => status'[j] = status[j]
<1>1. ASSUME TypeOK, SlotInv, Next PROVE Kept
  <2>1. ASSUME NEW j \in Jobs, RunStep(j) PROVE Kept
    <3>1. status[j] = "running"
      BY <1>1, <2>1, LeavesBySlot
         DEF RunStep, Begin, SeeCancel, SeePause, OutputEnds, ExitOk, ExitError, Worker, SettleCancelled,
             SettlePaused, SettleError, SettleDropped, SettleReplaced, SettleRefused, SettleKept
    <3>2. \/ status' = status
          \/ status' = [status EXCEPT ![j] = "paused"]
          \/ \E outcome \in Terminal : Leave(j, outcome)
      BY <2>1
         DEF RunStep, Begin, SeeCancel, SeePause, OutputEnds, ExitOk, ExitError, Worker, SettleCancelled,
             SettlePaused, SettleError, SettleDropped, SettleReplaced, SettleRefused, SettleKept, Terminal
    <3>3. CASE \E outcome \in Terminal : Leave(j, outcome)
      BY <1>1, <3>1, <3>3, LeaveKeepsOutcomes
    <3>4. CASE status' = status \/ status' = [status EXCEPT ![j] = "paused"]
      BY <1>1, <3>1, <3>4 DEF TypeOK, Terminal
    <3>5. QED
      BY <3>2, <3>3, <3>4
  <2>2. ASSUME NEW j \in Jobs, Client(j) PROVE Kept
    <3>1. CASE CancelAtRest(j)
      <4>1. "cancelled" \in Terminal /\ Leave(j, "cancelled") /\ status[j] \in {"running", "paused", "queued"}
        BY <3>1 DEF CancelAtRest, Terminal
      <4>2. QED
        BY <1>1, <4>1, LeaveKeepsOutcomes
    <3>2. CASE Ask(j) \/ Start(j) \/ CancelRunning(j) \/ Pause(j) \/ Resume(j)
      <4>1. /\ status' = status \/ status[j] \notin Terminal
            /\ \A k \in Jobs \ {j} : status'[k] = status[k]
        BY <1>1, <3>2 DEF Ask, Start, CancelRunning, Pause, Resume, TypeOK, Terminal
      <4>2. QED
        BY <4>1
    <3>3. QED
      BY <2>2, <3>1, <3>2 DEF Client
  <2>3. CASE Crash
    BY <2>3 DEF Crash, Terminal
  <2>4. QED
    BY <1>1, <2>1, <2>2, <2>3 DEF Next
<1>2. IInv /\ [Next]_vars => [Kept]_vars
  BY <1>1 DEF IInv
<1>3. QED
  BY <1>2, MixerInvariant, PTL DEF Spec, OutcomesAreFinal

-----------------------------------------------------------------------------
Queued == {j \in Jobs : status[j] = "queued"}

LEMMA LeaveRefines ==
  ASSUME TypeOK, SlotInv, NEW j \in Jobs, NEW outcome \in Terminal, Leave(j, outcome),
         status[j] \in {"running", "paused", "queued"}
  PROVE  Slot!Pass \/ Slot!GiveUp(j)
<1>1. arrived' = arrived
  BY DEF Leave
<1>2. CASE active # j
  <2>1. status[j] = "queued" /\ status' = [status EXCEPT ![j] = outcome] /\ active' = active
    BY <1>2 DEF Leave, SlotInv
  <2>2. j \in Queued /\ Queued' = Queued \ {j}
    BY <2>1 DEF Queued, TypeOK, Terminal
  <2>3. QED
    BY <1>1, <2>1, <2>2 DEF Slot!GiveUp, Queued
<1>3. CASE active = j /\ InLine = {}
  <2>1. status' = [status EXCEPT ![j] = outcome] /\ active' = None
    BY <1>3 DEF Leave
  <2>2. Queued = {} /\ Queued' = Queued
    BY <1>3, <2>1 DEF Queued, InLine, SlotInv, TypeOK, Terminal
  <2>3. active # None
    BY <1>3, MXAssumption DEF MXAssumption
  <2>4. QED
    BY <1>1, <2>1, <2>2, <2>3 DEF Slot!Pass, Queued
<1>4. CASE active = j /\ InLine # {}
  <2>1. PICK k \in InLine :
          /\ \A l \in InLine : arrived[k] <= arrived[l]
          /\ status' = [status EXCEPT ![j] = outcome, ![k] = "running"]
          /\ active' = k
    BY <1>4 DEF Leave
  <2>2. Queued \subseteq InLine /\ k \in Queued /\ j \notin Queued
    BY <1>4, <2>1 DEF Queued, InLine, SlotInv, TypeOK
  <2>3. Queued' = Queued \ {k}
    BY <2>1, <2>2 DEF Queued, TypeOK, Terminal
  <2>4. active # None
    BY <1>4, MXAssumption DEF MXAssumption
  <2>5. QED
    BY <1>1, <2>1, <2>2, <2>3, <2>4 DEF Slot!Pass, Queued
<1>5. QED
  BY <1>2, <1>3, <1>4

LEMMA StartRefines ==
  ASSUME TypeOK, SlotInv, NEW j \in Jobs, Start(j)
  PROVE  Slot!Arrive(j)
<1>1. status[j] = "asked" /\ arrived[j] = 0
  BY DEF Start, SlotInv, Fresh
<1>2. \E n \in {arrived[k] + 1 : k \in Jobs} :
        (\A k \in Jobs : arrived[k] < n) /\ arrived' = [arrived EXCEPT ![j] = n]
  BY DEF Start
<1>3. CASE active = None
  <2>1. active' = j /\ status' = [status EXCEPT ![j] = "running"]
    BY <1>3 DEF Start
  <2>2. Queued' = Queued
    BY <1>1, <2>1 DEF Queued, TypeOK
  <2>3. QED
    BY <1>1, <1>2, <1>3, <2>1, <2>2 DEF Slot!Arrive, Queued
<1>4. CASE active # None
  <2>1. active' = active /\ status' = [status EXCEPT ![j] = "queued"]
    BY <1>4 DEF Start
  <2>2. Queued' = Queued \union {j}
    BY <1>1, <2>1 DEF Queued, TypeOK
  <2>3. QED
    BY <1>1, <1>2, <1>4, <2>1, <2>2 DEF Slot!Arrive, Queued
<1>5. QED
  BY <1>3, <1>4

LEMMA StepRefines ==
  ASSUME TypeOK, SlotInv, [Next]_vars
  PROVE  Slot!FSNext \/ UNCHANGED <<active, Queued, arrived>>
<1> USE DEF handles, files, slot
<1>1. ASSUME NEW j \in Jobs, RunStep(j) PROVE Slot!Pass \/ UNCHANGED <<active, Queued, arrived>>
  <2>1. status[j] = "running" /\ active = j
    BY <1>1, LeavesBySlot
       DEF RunStep, Begin, SeeCancel, SeePause, OutputEnds, ExitOk, ExitError, Worker, SettleCancelled,
           SettlePaused, SettleError, SettleDropped, SettleReplaced, SettleRefused, SettleKept
  <2>2. CASE \/ Begin(j) \/ SeeCancel(j) \/ SeePause(j) \/ OutputEnds(j) \/ ExitOk(j) \/ ExitError(j)
    BY <2>2 DEF Begin, SeeCancel, SeePause, OutputEnds, ExitOk, ExitError, Worker, Queued
  <2>3. CASE SettlePaused(j)
    BY <2>1, <2>3 DEF SettlePaused, Queued, TypeOK
  <2>4. CASE \/ SettleCancelled(j) \/ SettleError(j) \/ SettleDropped(j) \/ SettleReplaced(j)
             \/ SettleRefused(j) \/ SettleKept(j)
    <3>1. PICK outcome \in Terminal : Leave(j, outcome)
      BY <2>4 DEF SettleCancelled, SettleError, SettleDropped, SettleReplaced, SettleRefused, SettleKept, Terminal
    <3>2. Slot!Pass \/ Slot!GiveUp(j)
      BY <2>1, <3>1, LeaveRefines
    <3>3. ~Slot!GiveUp(j)
      BY <2>1 DEF Slot!GiveUp
    <3>4. QED
      BY <3>2, <3>3
  <2>5. QED
    BY <1>1, <2>2, <2>3, <2>4 DEF RunStep
<1>2. ASSUME NEW j \in Jobs, Client(j)
      PROVE  Slot!Arrive(j) \/ Slot!GiveUp(j) \/ Slot!Pass \/ UNCHANGED <<active, Queued, arrived>>
  <2>1. CASE Ask(j) \/ CancelRunning(j) \/ Pause(j) \/ Resume(j)
    BY <2>1 DEF Ask, CancelRunning, Pause, Resume, Queued, TypeOK
  <2>2. CASE Start(j)
    BY <2>2, StartRefines
  <2>3. CASE CancelAtRest(j)
    <3>1. "cancelled" \in Terminal /\ Leave(j, "cancelled") /\ status[j] \in {"running", "paused", "queued"}
      BY <2>3 DEF CancelAtRest, Terminal
    <3>2. QED
      BY <3>1, LeaveRefines
  <2>4. QED
    BY <1>2, <2>1, <2>2, <2>3 DEF Client
<1>3. CASE Crash
  <2>1. Queued' = {} /\ active' = None /\ arrived' = arrived
    BY <1>3 DEF Crash, Queued
  <2>2. QED
    BY <2>1 DEF Slot!FSNext, Slot!Forget, Queued
<1>4. CASE UNCHANGED vars
  BY <1>4 DEF vars, Queued
<1>5. QED
  BY <1>1, <1>2, <1>3, <1>4 DEF Next, Slot!FSNext

\* The mixer implements the first-come-first-served slot: S11-4, "arrancan en
\* orden FIFO", for every set of jobs.
THEOREM MixerImplementsSlot == Spec => ImplementsFifoSlot
<1>1. Init => Slot!FSInit
  BY DEF Init, Slot!FSInit
<1>2. IInv /\ [Next]_vars => [Slot!FSNext]_(Slot!fsVars)
  BY StepRefines DEF IInv, Slot!fsVars, Queued
<1>3. QED
  BY <1>1, <1>2, MixerInvariant, PTL DEF Spec, ImplementsFifoSlot, Slot!FSSpec
=============================================================================
