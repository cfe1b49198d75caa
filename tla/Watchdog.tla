------------------------------ MODULE Watchdog ------------------------------
(***************************************************************************)
(* The aMule watchdog (infrastructure/amule_watchdog.py): one asyncio task *)
(* probes aMule with a real search, confirms a hang after two failures in  *)
(* a row, restarts the container through the Docker engine and, after      *)
(* MaxAttempts restarts without a recovery, raises an alert.  The world    *)
(* (aMule, its settings, the Docker channel) changes under it at any time. *)
(*                                                                         *)
(* Time is what the cooldown needs of it: the age of last_restart_at up to *)
(* Cooldown, which also stands for "never".  consecutive_failures counts   *)
(* up to the threshold, the only value it is compared with.                *)
(***************************************************************************)
EXTENDS Naturals

CONSTANTS
  Threshold,      \* CONFIRM_THRESHOLD
  MaxAttempts,    \* services.amule.watchdog_max_restarts
  Cooldown,       \* services.amule.watchdog_cooldown, in ticks of the clock
  MaxFaults       \* bound: process restarts and exceptions of a cycle

ASSUME WDAssumption ==
  /\ Threshold \in Nat \ {0}
  /\ MaxAttempts \in Nat /\ Cooldown \in Nat /\ MaxFaults \in Nat

VARIABLES
  amule,          \* "up" or "hung"
  enabled,        \* the watchdog_enabled setting
  configured,     \* aMule's address and password are set
  channel,        \* the Docker engine answers and names one container
  snapshot,       \* _state, what the API shows
  age,            \* time since snapshot's last_restart_at
  pc,             \* where tick() is
  draft,          \* new_state, while the restart is awaited
  streak,         \* history: canaries that failed in a row
  sent,           \* history: restarts requested since the last good canary
  faults

env == <<amule, enabled, configured, channel>>
history == <<streak, sent>>
vars == <<env, snapshot, age, pc, draft, history, faults>>

States == {"sin-datos", "sin-configurar", "sano", "recuperado", "colgado", "reiniciando", "alerta"}
Snapshot == [state : States, failures : 0..Threshold, attempts : Nat]

TypeOK ==
  /\ amule \in {"up", "hung"}
  /\ enabled \in BOOLEAN /\ configured \in BOOLEAN /\ channel \in BOOLEAN
  /\ snapshot \in Snapshot /\ draft \in Snapshot
  /\ age \in 0..Cooldown
  /\ pc \in {"asleep", "canary", "restart"}
  /\ streak \in 0..Threshold
  /\ sent \in Nat
  /\ faults \in Nat

InitialState == [state |-> "sin-datos", failures |-> 0, attempts |-> 0]

Init ==
  /\ amule \in {"up", "hung"}
  /\ enabled \in BOOLEAN /\ configured \in BOOLEAN /\ channel \in BOOLEAN
  /\ snapshot = InitialState /\ draft = InitialState
  /\ age = Cooldown
  /\ pc = "asleep"
  /\ streak = 0 /\ sent = 0
  /\ faults = 0

OneMore(n, limit) == IF n < limit THEN n + 1 ELSE n

-----------------------------------------------------------------------------
\* Mutation.
Unconfigured_KeepsFailures(s) == [s EXCEPT !.state = "sin-configurar"]
\* process_cycle, one operator per row of its table.
Unconfigured(s) == [state |-> "sin-configurar", failures |-> 0, attempts |-> s.attempts]

Healthy_KeepsAttempts(s) ==
  [s EXCEPT !.state = IF s.state \in {"colgado", "reiniciando", "recuperado"} THEN "recuperado" ELSE "sano",
            !.failures = 0]
Healthy(s) ==
  [state |-> IF s.state \in {"colgado", "reiniciando", "recuperado"} THEN "recuperado" ELSE "sano",
   failures |-> 0, attempts |-> 0]

Exhausted_OffByOne(s) == s.attempts > MaxAttempts
Exhausted(s) == s.attempts >= MaxAttempts

Failed_NeverAlerts(s) ==
  LET n == OneMore(s.failures, Threshold)
      f == [s EXCEPT !.failures = n]
  IN IF n < Threshold THEN f ELSE [f EXCEPT !.state = "colgado"]
Failed(s) ==
  LET n == OneMore(s.failures, Threshold)
      f == [s EXCEPT !.failures = n]
  IN IF s.state = "alerta" \/ n < Threshold
       THEN f
       ELSE [f EXCEPT !.state = IF Exhausted(s) THEN "alerta" ELSE "colgado"]

\* The second result of process_cycle, of a failed canary.
WantsRestart(s) ==
  /\ s.state # "alerta"
  /\ OneMore(s.failures, Threshold) = Threshold
  /\ ~Exhausted(s)
  /\ age = Cooldown

-----------------------------------------------------------------------------
\* tick(): disabled means nothing is monitored and the trail is dropped.
WakeDisabled ==
  /\ pc = "asleep" /\ ~enabled
  /\ snapshot' = InitialState /\ age' = Cooldown
  /\ streak' = 0 /\ sent' = 0
  /\ UNCHANGED <<env, pc, draft, faults>>

Wake ==
  /\ pc = "asleep" /\ enabled
  /\ pc' = "canary"
  /\ UNCHANGED <<env, snapshot, age, draft, history, faults>>

\* run_canary answered and process_cycle decided, nothing to restart.
CanaryUnconfigured ==
  /\ pc = "canary" /\ ~configured
  /\ snapshot' = Unconfigured(snapshot)
  /\ pc' = "asleep"
  /\ streak' = 0
  /\ UNCHANGED <<env, age, draft, sent, faults>>

CanaryOk ==
  /\ pc = "canary" /\ configured /\ amule = "up"
  /\ snapshot' = Healthy(snapshot)
  /\ pc' = "asleep"
  /\ streak' = 0 /\ sent' = 0
  /\ UNCHANGED <<env, age, draft, faults>>

\* A canary also fails on an aMule that is merely slow.
CanaryFailed ==
  /\ pc = "canary" /\ configured
  /\ streak' = OneMore(streak, Threshold)
  /\ IF WantsRestart(snapshot)
       THEN draft' = Failed(snapshot) /\ pc' = "restart" /\ UNCHANGED snapshot
       ELSE snapshot' = Failed(snapshot) /\ pc' = "asleep" /\ UNCHANGED draft
  /\ UNCHANGED <<env, age, sent, faults>>

\* _restart_once could not resolve the container: nothing was attempted.
RestartNoChannel ==
  /\ pc = "restart" /\ ~channel
  /\ snapshot' = draft
  /\ pc' = "asleep"
  /\ UNCHANGED <<env, age, draft, history, faults>>

Counted(s) == [s EXCEPT !.attempts = @ + 1]

\* The engine was asked; whatever it does to aMule, its answer may get lost.
Requested ==
  /\ pc = "restart" /\ channel
  /\ sent' = sent + 1
  /\ amule' \in {"up", "hung"}
  /\ pc' = "asleep"
  /\ UNCHANGED <<enabled, configured, channel, draft, streak, faults>>

RestartOk ==
  /\ Requested
  /\ snapshot' = [Counted(draft) EXCEPT !.state = "reiniciando"]
  /\ age' = 0

RestartFailed_NotCounted ==
  /\ Requested
  /\ snapshot' = draft
  /\ UNCHANGED age
RestartFailed ==
  /\ Requested
  /\ snapshot' = Counted(draft)
  /\ UNCHANGED age

\* watchdog_loop: an exception out of tick() costs the cycle, draft included.
CycleRaises ==
  /\ pc \in {"canary", "restart"} /\ faults < MaxFaults
  /\ pc' = "asleep"
  /\ faults' = faults + 1
  /\ UNCHANGED <<env, snapshot, age, draft, history>>

\* _state lives in the process.
ProcessRestart ==
  /\ faults < MaxFaults
  /\ faults' = faults + 1
  /\ snapshot' = InitialState /\ age' = Cooldown
  /\ pc' = "asleep"
  /\ streak' = 0 /\ sent' = 0
  /\ UNCHANGED <<env, draft>>

Elapse ==
  /\ age < Cooldown
  /\ age' = OneMore(age, Cooldown)
  /\ UNCHANGED <<env, snapshot, pc, draft, streak, sent, faults>>

\* aMule hangs or comes back, the operator edits settings, Docker comes and goes.
WorldChanges ==
  /\ amule' \in {"up", "hung"}
  /\ enabled' \in BOOLEAN /\ configured' \in BOOLEAN /\ channel' \in BOOLEAN
  /\ UNCHANGED <<snapshot, age, pc, draft, history, faults>>

Cycle ==
  \/ WakeDisabled \/ Wake
  \/ CanaryUnconfigured \/ CanaryOk \/ CanaryFailed
  \/ RestartNoChannel \/ RestartOk \/ RestartFailed

Next == Cycle \/ CycleRaises \/ ProcessRestart \/ Elapse \/ WorldChanges

Spec == Init /\ [][Next]_vars

\* The event loop keeps running the task and time passes; the world owes nothing.
FairSpec == Spec /\ WF_vars(Cycle) /\ WF_vars(Elapse)

-----------------------------------------------------------------------------
\* "Dos fallos consecutivos confirman colgado; UNO nunca confirma ni reinicia",
\* and "two failures split by a gap can never fake a confirmation": when a
\* restart is about to be asked, that many canaries failed with nothing between
\* them, whatever was reconfigured, disabled or lost meanwhile.
ConfirmedByFailuresInARow == pc = "restart" => streak = Threshold

\* S5: "a cap of restarts without recovery": however the requests fail, no more
\* than MaxAttempts of them without a healthy canary in between.
RestartsAreCapped == sent <= MaxAttempts

\* S6: "todo reinicio automatico deja rastro visible, nunca silencioso": between
\* cycles what the API shows counts every restart requested.
EveryRestartShows == pc = "asleep" => snapshot.attempts = sent

\* S5: the alert is raised only when the cap was really spent.
AlertIsEarned == snapshot.state = "alerta" => sent = MaxAttempts

\* An aMule that stays hung within reach ends in the alert that calls a human.
OutOfHelp == amule = "hung" /\ enabled /\ configured /\ channel
HangEndsInAlert == <>[]OutOfHelp => <>[](snapshot.state = "alerta")

\* What the operator sees is what the watchdog did.
RestartsShow == TypeOK /\ EveryRestartShows /\ AlertIsEarned
=============================================================================
