---------------------------- MODULE AlertsProofs ----------------------------
(***************************************************************************)
(* What the watchdog, the notices and the blocked acks promise the         *)
(* operator, for every threshold, cap and cooldown, any retries, and any   *)
(* number of incidents.                                                    *)
(***************************************************************************)
EXTENDS Watchdog, Notices, BlockedAcks, TLAPS

-----------------------------------------------------------------------------
(* The guardrails of the watchdog. The counters of the snapshot are tied to what really
   happened: consecutive_failures never exceeds the failures in a row (it may lag, when
   an exception lost a cycle), restart_attempts equals the requests sent, and the draft
   that waits for a restart was built from the snapshot that is still published. *)
CountersInv ==
  /\ snapshot.failures <= streak
  /\ snapshot.attempts = sent
  /\ sent <= MaxAttempts
  /\ snapshot.state = "alerta" => sent = MaxAttempts

DraftInv ==
  pc = "restart" =>
    /\ streak = Threshold
    /\ draft.state = "colgado"
    /\ draft.failures = Threshold
    /\ draft.attempts = snapshot.attempts
    /\ sent < MaxAttempts

IInv == TypeOK /\ CountersInv /\ DraftInv

\* A saturating counter stays within its limit and never steps back.
LEMMA OneMoreBounds ==
  ASSUME NEW limit \in Nat, NEW n \in 0..limit
  PROVE  /\ OneMore(n, limit) \in 0..limit
         /\ n <= OneMore(n, limit)
         /\ \A m \in 0..limit : m <= n => OneMore(m, limit) <= OneMore(n, limit)
BY DEF OneMore

\* What a failed canary makes of a snapshot.
LEMMA FailedShape ==
  ASSUME NEW s \in Snapshot
  PROVE  /\ Failed(s) \in Snapshot
         /\ Failed(s).failures = OneMore(s.failures, Threshold)
         /\ Failed(s).attempts = s.attempts
         /\ Failed(s).state = "alerta" => s.state = "alerta" \/ s.attempts >= MaxAttempts
         /\ WantsRestart(s) => /\ Failed(s).state = "colgado"
                               /\ Failed(s).failures = Threshold
                               /\ s.attempts < MaxAttempts
<1>1. OneMore(s.failures, Threshold) \in 0..Threshold
  BY OneMoreBounds, WDAssumption DEF Snapshot
<1>2. s.state \in States /\ s.attempts \in Nat
  BY DEF Snapshot
<1>3. CASE s.state = "alerta" \/ OneMore(s.failures, Threshold) < Threshold
  <2>1. Failed(s) = [s EXCEPT !.failures = OneMore(s.failures, Threshold)]
    BY <1>3 DEF Failed
  <2>2. ~WantsRestart(s)
    BY <1>1, <1>3, WDAssumption DEF WantsRestart
  <2>3. QED
    BY <1>1, <1>2, <2>1, <2>2 DEF Snapshot
<1>4. CASE ~(s.state = "alerta" \/ OneMore(s.failures, Threshold) < Threshold)
  <2>1. Failed(s) = [s EXCEPT !.failures = OneMore(s.failures, Threshold),
                              !.state = IF Exhausted(s) THEN "alerta" ELSE "colgado"]
    BY <1>4, Zenon DEF Failed, Snapshot
  <2>2. OneMore(s.failures, Threshold) = Threshold
    BY <1>1, <1>4, WDAssumption
  <2>3. Failed(s).failures = Threshold /\ Failed(s).attempts = s.attempts
    BY <2>1, <2>2 DEF Snapshot
  <2>4. Failed(s).state = IF Exhausted(s) THEN "alerta" ELSE "colgado"
    BY <2>1 DEF Snapshot
  <2>5. Failed(s) \in Snapshot
    BY <1>1, <1>2, <2>1, <2>2 DEF Snapshot, States
  <2>6. Exhausted(s) <=> ~(s.attempts < MaxAttempts)
    BY <1>2, WDAssumption DEF Exhausted
  <2>7. QED
    BY <1>2, <2>2, <2>3, <2>4, <2>5, <2>6 DEF WantsRestart, Exhausted
<1>5. QED
  BY <1>3, <1>4

\* What a configuration gap, and a counted attempt, make of a snapshot.
LEMMA UnconfiguredShape ==
  ASSUME NEW s \in Snapshot
  PROVE  /\ Unconfigured(s) \in Snapshot
         /\ Unconfigured(s).failures = 0
         /\ Unconfigured(s).attempts = s.attempts
         /\ Unconfigured(s).state = "sin-configurar"
<1>1. s.attempts \in Nat /\ 0 \in 0..Threshold /\ "sin-configurar" \in States
  BY WDAssumption DEF Snapshot, States
<1>2. QED
  BY <1>1 DEF Unconfigured, Snapshot

LEMMA CountedShape ==
  ASSUME NEW s \in Snapshot
  PROVE  /\ Counted(s) \in Snapshot
         /\ Counted(s).failures = s.failures
         /\ Counted(s).attempts = s.attempts + 1
         /\ Counted(s).state = s.state
<1>1. Counted(s) = [state |-> s.state, failures |-> s.failures, attempts |-> s.attempts + 1]
  BY DEF Counted, Snapshot
<1>2. s.state \in States /\ s.failures \in 0..Threshold /\ s.attempts + 1 \in Nat
  BY DEF Snapshot
<1>3. QED
  BY <1>1, <1>2 DEF Snapshot

\* Every step of the watchdog keeps the invariant.
LEMMA StepInv == IInv /\ [Next]_vars => IInv'
<1> SUFFICES ASSUME IInv, [Next]_vars PROVE IInv'
  OBVIOUS
<1> USE WDAssumption DEF IInv, TypeOK, CountersInv, DraftInv
<1>1. CASE WakeDisabled
  BY <1>1 DEF WakeDisabled, env, InitialState, Snapshot, States
<1>2. CASE Wake
  BY <1>2 DEF Wake, env, history
<1>3. CASE CanaryUnconfigured
  BY <1>3, UnconfiguredShape DEF CanaryUnconfigured, env
<1>4. CASE CanaryOk
  BY <1>4 DEF CanaryOk, env, Healthy, Snapshot, States
<1>5. CASE CanaryFailed
  <2>1. /\ streak' \in 0..Threshold
        /\ OneMore(snapshot.failures, Threshold) <= streak'
    BY <1>5, OneMoreBounds DEF CanaryFailed, Snapshot
  <2>2. CASE WantsRestart(snapshot)
    <3>1. streak' = Threshold
      BY <2>1, <2>2 DEF WantsRestart
    <3>2. snapshot.failures <= streak'
      BY <3>1 DEF Snapshot
    <3>3. QED
      BY <1>5, <2>1, <2>2, <3>1, <3>2, FailedShape DEF CanaryFailed, env
  <2>3. CASE ~WantsRestart(snapshot)
    BY <1>5, <2>1, <2>3, FailedShape DEF CanaryFailed, env, Snapshot
  <2>4. QED
    BY <2>2, <2>3
<1>6. CASE RestartNoChannel
  BY <1>6 DEF RestartNoChannel, env, history
<1>7. CASE RestartOk
  BY <1>7, CountedShape DEF RestartOk, Requested, Snapshot, States
<1>8. CASE RestartFailed
  BY <1>8, CountedShape DEF RestartFailed, Requested
<1>9. CASE CycleRaises
  BY <1>9 DEF CycleRaises, env, history
<1>10. CASE ProcessRestart
  BY <1>10 DEF ProcessRestart, env, InitialState, Snapshot, States
<1>11. CASE Elapse
  <2>1. age' \in 0..Cooldown
    BY <1>11, OneMoreBounds DEF Elapse
  <2>2. QED
    BY <1>11, <2>1 DEF Elapse, env
<1>12. CASE WorldChanges
  BY <1>12 DEF WorldChanges, history
<1>13. CASE UNCHANGED vars
  BY <1>13 DEF vars, env, history
<1>14. QED
  BY <1>1, <1>2, <1>3, <1>4, <1>5, <1>6, <1>7, <1>8, <1>9, <1>10, <1>11, <1>12, <1>13
     DEF Next, Cycle

\* The invariant of the watchdog.
THEOREM WatchdogInvariant == Spec => []IInv
<1>1. Init => IInv
  BY WDAssumption DEF Init, IInv, TypeOK, CountersInv, DraftInv, InitialState, Snapshot, States
<1>2. QED
  BY <1>1, StepInv, PTL DEF Spec

\* Every value stays within its type, the published snapshot included.
THEOREM WatchdogTypeCorrect == Spec => []TypeOK
<1>1. IInv => TypeOK
  BY DEF IInv
<1>2. QED
  BY <1>1, WatchdogInvariant, PTL

\* A restart is asked only after Threshold canaries failed in a row.
THEOREM RestartIsConfirmed == Spec => []ConfirmedByFailuresInARow
<1>1. IInv => ConfirmedByFailuresInARow
  BY DEF IInv, DraftInv, ConfirmedByFailuresInARow
<1>2. QED
  BY <1>1, WatchdogInvariant, PTL

\* No more than MaxAttempts requests without a healthy canary in between.
THEOREM RestartsStayCapped == Spec => []RestartsAreCapped
<1>1. IInv => RestartsAreCapped
  BY DEF IInv, CountersInv, RestartsAreCapped
<1>2. QED
  BY <1>1, WatchdogInvariant, PTL

\* The snapshot counts every request, and the alert means the cap was spent.
THEOREM TrailIsHonest == Spec => []RestartsShow
<1>1. IInv => RestartsShow
  BY DEF IInv, CountersInv, RestartsShow, EveryRestartShows, AlertIsEarned
<1>2. QED
  BY <1>1, WatchdogInvariant, PTL

-----------------------------------------------------------------------------
(* The notices. What is counted of a notice: its posts that arrived, those that are
   recorded as delivered, and the posts whose outcome was lost in between. *)
\* The notice whose post is awaited, or was and is not recorded yet.
Pending(k) == post # NoPost /\ post.key = k
Delivered(k) == Pending(k) /\ post.state = "ok"
Owed == dark + lost

\* An awaited post is of the plan, and a poller that sleeps plans nothing.
PlanInv == /\ post # NoPost => post.key \in plan
           /\ poll = "sleeps" => plan = {}
           /\ told \in [NoticeKeys -> Nat] /\ posts \in [NoticeKeys -> Nat]
           /\ dark \in Nat /\ lost \in Nat

\* What was told of a notice whose row does not say so, or that is about to be
\* posted, is owed to something the sender could not know.
ToldInv == \A k \in NoticeKeys :
  /\ told[k] <= 1 + Owed
  /\ ~tried[k].ok /\ ~Delivered(k) => told[k] <= Owed
  /\ k \in plan /\ ~Pending(k) => told[k] <= Owed

\* The row counts the posts, but for the one that is awaited and those owed.
CountInv == \A k \in NoticeKeys :
  /\ posts[k] <= MaxTries + Owed
  /\ k \in plan /\ ~Pending(k) => posts[k] < MaxTries + Owed
  /\ posts[k] <= tried[k].tries + Owed + (IF Pending(k) THEN 1 ELSE 0)
  /\ tried[k].tries + (IF Pending(k) THEN 1 ELSE 0) <= posts[k]

NoticesInv == NoticesTypeOK /\ PlanInv /\ ToldInv /\ CountInv

-----------------------------------------------------------------------------
LEMMA KeysOfPlans ==
  ASSUME NoticesTypeOK
  PROVE  DownloadNotices \subseteq NoticeKeys /\ FolderNotices \subseteq NoticeKeys
BY NoticesAssumption DEF NoticesTypeOK, DownloadNotices, FolderNotices, NoticeKeys, NoticeA, NoticeB

LEMMA TriedRows ==
  ASSUME NoticesTypeOK, NEW k \in NoticeKeys
  PROVE  tried[k].ok \in BOOLEAN /\ tried[k].tries \in Nat /\ tried[k].tries <= MaxTries + MaxBlind
BY NoticesAssumption DEF NoticesTypeOK

LEMMA NoticesStart == ASSUME NoticesInit PROVE NoticesInv
<1> USE NoticesAssumption DEF NoticesInit, Untried
<1>1. NoticesTypeOK
  BY DEF NoticesTypeOK
<1>2. PlanInv
  BY DEF PlanInv
<1>3. ToldInv
  BY DEF ToldInv, Owed, Delivered, Pending
<1>4. CountInv
  BY DEF CountInv, Owed, Pending
<1>5. QED
  BY <1>1, <1>2, <1>3, <1>4 DEF NoticesInv

\* A tick plans what was not told and not tried too often, as far as the table says.
LEMMA Planning ==
  ASSUME NoticesInv, NEW keys \in SUBSET NoticeKeys, Plans(keys), plan = {},
         UNCHANGED <<tried, post, told, posts>>
  PROVE  /\ plan' \subseteq NoticeKeys /\ dark' \in Nat /\ lost' \in Nat
         /\ dark' + lost' \in 0..MaxBlind
         /\ post' = NoPost /\ ToldInv' /\ CountInv'
<1> USE NoticesAssumption DEF NoticesInv
<1>1. post = NoPost /\ post' = NoPost
  BY DEF PlanInv
<1>2. dark' \in Nat /\ lost' \in Nat /\ dark' + lost' \in 0..MaxBlind /\ Owed' >= Owed
      /\ Owed \in Nat /\ Owed' \in Nat
  BY DEF Plans, InTheDark, PlanInv, NoticesTypeOK, Owed
<1>3. ASSUME NEW k \in NoticeKeys
      PROVE  /\ told[k] \in Nat /\ posts[k] \in Nat /\ tried[k].tries \in Nat
             /\ told[k] <= 1 + Owed /\ posts[k] <= MaxTries + Owed
             /\ ~tried[k].ok => told[k] <= Owed
             /\ posts[k] <= tried[k].tries + Owed /\ tried[k].tries <= posts[k]
  <2>1. ~Pending(k) /\ ~Delivered(k)
    BY <1>1 DEF Pending, Delivered
  <2>2. told[k] \in Nat /\ posts[k] \in Nat /\ tried[k].tries \in Nat
    BY TriedRows DEF PlanInv
  <2>3. told[k] <= 1 + Owed /\ (~tried[k].ok => told[k] <= Owed)
    BY <2>1 DEF ToldInv
  <2>4. /\ posts[k] <= MaxTries + Owed
        /\ posts[k] <= tried[k].tries + Owed /\ tried[k].tries <= posts[k]
    BY <1>2, <2>1, <2>2 DEF CountInv
  <2>5. QED
    BY <2>2, <2>3, <2>4
<1>4. ASSUME NEW k \in NoticeKeys, k \in plan'
      PROVE  told[k] <= Owed' /\ posts[k] < MaxTries + Owed'
  <2>1. WantedNotice(k)
    BY <1>4 DEF Plans
  <2>2. CASE table
    BY <1>2, <1>3, <2>1, <2>2 DEF WantedNotice, Known
  <2>3. CASE ~table
    <3>1. Owed' = Owed + 1
      BY <2>3 DEF Plans, InTheDark, Owed, PlanInv
    <3>2. QED
      BY <1>2, <1>3, <3>1
  <2>4. QED
    BY <2>2, <2>3
<1>5. ToldInv'
  BY <1>1, <1>2, <1>3, <1>4 DEF ToldInv, Pending, Delivered
<1>6. CountInv'
  BY <1>1, <1>2, <1>3, <1>4 DEF CountInv, Pending
<1>7. plan' \subseteq NoticeKeys
  BY DEF Plans
<1>8. QED
  BY <1>1, <1>2, <1>5, <1>6, <1>7

LEMMA Ticking ==
  ASSUME NoticesInv, TickDownloads \/ TickFolder
  PROVE  NoticesInv'
<1> USE NoticesAssumption DEF NoticesInv
<1>1. plan = {}
  BY DEF TickDownloads, TickFolder, PlanInv
<1>2. PICK keys \in SUBSET NoticeKeys : Plans(keys)
  BY KeysOfPlans DEF TickDownloads, TickFolder
<1>3. UNCHANGED <<tried, post, told, posts, subject, download, size, whole, ntfy, table>>
      /\ poll' \in {"downloads", "folder"} /\ previous' \in {previous, size}
  BY DEF TickDownloads, TickFolder
<1>4. /\ plan' \subseteq NoticeKeys /\ dark' \in Nat /\ lost' \in Nat
      /\ dark' + lost' \in 0..MaxBlind /\ post' = NoPost /\ ToldInv' /\ CountInv'
  BY <1>1, <1>2, <1>3, Planning
<1>5. NoticesTypeOK'
  BY <1>3, <1>4 DEF NoticesTypeOK
<1>6. PlanInv'
  BY <1>3, <1>4 DEF PlanInv
<1>7. QED
  BY <1>4, <1>5, <1>6

\* A post, heard of or not.
LEMMA Posting ==
  ASSUME NoticesInv, NEW key \in NoticeKeys, NEW arrives \in BOOLEAN, NEW result \in {"ok", "failed"},
         Posts(key, arrives, result),
         dark' = dark, lost' = IF arrives /\ result = "failed" THEN lost + 1 ELSE lost,
         arrives \/ result = "failed", dark' + lost' <= MaxBlind
  PROVE  NoticesInv'
<1> USE NoticesAssumption DEF NoticesInv
<1>1. /\ post = NoPost /\ key \in plan /\ post' = [state |-> result, key |-> key] /\ post' # NoPost
      /\ UNCHANGED <<subject, download, size, whole, previous, ntfy, table, tried, plan, poll>>
  BY DEF Posts, NoPost
<1>2. \A k \in NoticeKeys : /\ told'[k] = IF arrives /\ k = key THEN told[k] + 1 ELSE told[k]
                            /\ posts'[k] = IF k = key THEN posts[k] + 1 ELSE posts[k]
                            /\ told[k] \in Nat /\ posts[k] \in Nat
  BY DEF Posts, PlanInv
<1>3. Owed \in Nat /\ Owed' \in Nat /\ Owed' = IF arrives /\ result = "failed" THEN Owed + 1 ELSE Owed
  BY DEF PlanInv, Owed
<1>4. \A k \in NoticeKeys : /\ ~Pending(k) /\ ~Delivered(k)
                            /\ Pending(k)' <=> k = key
                            /\ Delivered(k)' <=> k = key /\ result = "ok"
  BY <1>1 DEF Pending, Delivered
<1>5. NoticesTypeOK'
  BY <1>1 DEF NoticesTypeOK, PlanInv
<1>6. PlanInv'
  BY <1>1 DEF PlanInv, Posts
<1>7. ToldInv'
  BY <1>1, <1>2, <1>3, <1>4 DEF ToldInv
<1>8. CountInv'
  <2> SUFFICES ASSUME NEW k \in NoticeKeys
               PROVE  /\ posts'[k] <= MaxTries + Owed'
                      /\ k \in plan' /\ ~Pending(k)' => posts'[k] < MaxTries + Owed'
                      /\ posts'[k] <= tried'[k].tries + Owed' + (IF Pending(k)' THEN 1 ELSE 0)
                      /\ tried'[k].tries + (IF Pending(k)' THEN 1 ELSE 0) <= posts'[k]
    BY DEF CountInv
  <2>1. tried'[k].tries = tried[k].tries /\ tried[k].tries \in Nat
    BY <1>1, TriedRows
  <2>2. QED
    BY <1>1, <1>2, <1>3, <1>4, <2>1 DEF CountInv
<1>9. QED
  BY <1>5, <1>6, <1>7, <1>8

LEMMA Recording ==
  ASSUME NoticesInv, Records
  PROVE  NoticesInv'
<1> USE NoticesAssumption DEF NoticesInv
<1> DEFINE key == post.key
<1>1. key \in NoticeKeys /\ key \in plan /\ post.state \in {"ok", "failed"} /\ Pending(key)
  BY DEF Records, NoticesTypeOK, PlanInv, NoPost, Pending
<1>2. /\ UNCHANGED <<subject, download, size, whole, previous, ntfy, table, poll, told, posts>>
      /\ plan' = plan \ {key} /\ post' = NoPost
  BY DEF Records
<1>3. \A k \in NoticeKeys : /\ Pending(k) <=> k = key
                            /\ Delivered(k) <=> k = key /\ post.state = "ok"
                            /\ ~Pending(k)' /\ ~Delivered(k)'
                            /\ told[k] \in Nat /\ posts[k] \in Nat
  BY <1>1, <1>2 DEF Pending, Delivered, PlanInv
<1>4. /\ dark' \in Nat /\ lost' \in Nat /\ dark' + lost' \in 0..MaxBlind
      /\ Owed \in Nat /\ Owed' = IF table THEN Owed ELSE Owed + 1
  <2>1. dark \in Nat /\ lost \in Nat /\ dark + lost \in 0..MaxBlind
    BY DEF PlanInv, NoticesTypeOK
  <2>2. IF table THEN dark' = dark /\ lost' = lost
                 ELSE dark + lost < MaxBlind /\ dark' = dark + 1 /\ lost' = lost
    BY DEF Records, InTheDark
  <2>3. QED
    BY <2>1, <2>2 DEF Owed
<1>5. CASE table
  <2>1. tried' = [tried EXCEPT ![key] = [ok |-> tried[key].ok \/ post.state = "ok",
                                         tries |-> tried[key].tries + 1]]
    BY <1>5 DEF Records, Attempted
  <2>2. ASSUME NEW k \in NoticeKeys
        PROVE  /\ tried'[k].tries = IF k = key THEN tried[k].tries + 1 ELSE tried[k].tries
               /\ tried'[k].ok => (tried[k].ok \/ (k = key /\ post.state = "ok"))
               /\ tried[k].ok \/ (k = key /\ post.state = "ok") => tried'[k].ok
               /\ tried[k].tries \in Nat
    BY <2>1, TriedRows DEF NoticesTypeOK
  <2>3. tried[key].tries + 1 \in 0..(MaxTries + MaxBlind)
    BY <1>1, <1>3, <1>4, TriedRows DEF CountInv, NoticesTypeOK, Owed
  <2>4. tried' \in [NoticeKeys -> [ok : BOOLEAN, tries : 0..(MaxTries + MaxBlind)]]
    BY <2>1, <2>3, TriedRows, <1>1 DEF NoticesTypeOK
  <2>5. NoticesTypeOK'
    BY <1>2, <1>4, <2>4 DEF NoticesTypeOK
  <2>6. PlanInv'
    BY <1>2, <1>4 DEF PlanInv
  <2>7. ToldInv'
    BY <1>2, <1>3, <1>4, <1>5, <2>2 DEF ToldInv
  <2>8. CountInv'
    BY <1>2, <1>3, <1>4, <1>5, <2>2 DEF CountInv
  <2>9. QED
    BY <2>5, <2>6, <2>7, <2>8
<1>6. CASE ~table
  <2>1. tried' = tried
    BY <1>6 DEF Records
  <2>2. \A k \in NoticeKeys : tried[k].tries \in Nat
    BY TriedRows
  <2>3. NoticesTypeOK'
    BY <1>2, <1>4, <2>1 DEF NoticesTypeOK
  <2>4. PlanInv'
    BY <1>2, <1>4 DEF PlanInv
  <2>5. ToldInv'
    BY <1>2, <1>3, <1>4, <1>6, <2>1 DEF ToldInv
  <2>6. CountInv'
    BY <1>2, <1>3, <1>4, <1>6, <2>1, <2>2 DEF CountInv
  <2>7. QED
    BY <2>3, <2>4, <2>5, <2>6
<1>7. QED
  BY <1>5, <1>6

LEMMA Crashing ==
  ASSUME NoticesInv, NoticesCrash
  PROVE  NoticesInv'
<1> USE NoticesAssumption DEF NoticesInv
<1>1. /\ UNCHANGED <<subject, download, size, whole, ntfy, table, tried, told, posts>>
      /\ plan' = {} /\ poll' = "sleeps" /\ post' = NoPost
      /\ previous' = [f \in Files |-> 0]
  BY DEF NoticesCrash
<1>2. /\ dark' \in Nat /\ lost' \in Nat /\ dark' + lost' \in 0..MaxBlind
      /\ Owed \in Nat /\ Owed' = Owed + 1
  <2>1. dark \in Nat /\ lost \in Nat
    BY DEF PlanInv
  <2>2. dark + lost < MaxBlind /\ lost' = lost + 1 /\ dark' = dark
    BY DEF NoticesCrash, Loses
  <2>3. QED
    BY <2>1, <2>2 DEF Owed
<1>3. \A k \in NoticeKeys : told[k] \in Nat /\ posts[k] \in Nat /\ tried[k].tries \in Nat
                            /\ ~Pending(k)' /\ ~Delivered(k)'
  BY <1>1, TriedRows DEF PlanInv, Pending, Delivered
<1>4. NoticesTypeOK'
  <2>1. previous' \in [Files -> 0..MaxGrowth]
    BY <1>1
  <2>2. QED
    BY <1>1, <1>2, <2>1 DEF NoticesTypeOK
<1>5. PlanInv'
  BY <1>1, <1>2 DEF PlanInv
<1>6. ToldInv'
  BY <1>1, <1>2, <1>3 DEF ToldInv
<1>7. CountInv'
  BY <1>1, <1>2, <1>3 DEF CountInv
<1>8. QED
  BY <1>4, <1>5, <1>6, <1>7

\* The world and the end of a tick touch none of the counts.
LEMMA WorldKeepsCounts ==
  ASSUME NoticesInv, UNCHANGED <<tried, plan, post, told, posts, dark, lost>>, NoticesTypeOK',
         poll' = "sleeps" => plan = {}
  PROVE  NoticesInv'
BY DEF NoticesInv, PlanInv, ToldInv, CountInv, Owed, Pending, Delivered

LEMMA NoticesStep == ASSUME NoticesInv, [NoticesNext]_noticeVars PROVE NoticesInv'
<1> USE NoticesAssumption DEF NoticesInv
<1>1. CASE TickDownloads \/ TickFolder
  BY <1>1, Ticking
<1>2. CASE TickEnds
  BY <1>2, WorldKeepsCounts DEF TickEnds, NoticesTypeOK
<1>3. CASE Records
  BY <1>3, Recording
<1>4. ASSUME NEW k \in NoticeKeys, PostArrives(k) PROVE NoticesInv'
  <2>1. Posts(k, TRUE, "ok") /\ UNCHANGED <<dark, lost>>
    BY <1>4 DEF PostArrives
  <2>2. dark + lost <= MaxBlind
    BY DEF NoticesTypeOK
  <2>3. QED
    BY <2>1, <2>2, Posting
<1>5. ASSUME NEW k \in NoticeKeys, PostFails(k) PROVE NoticesInv'
  <2>1. Posts(k, FALSE, "failed") /\ UNCHANGED <<dark, lost>>
    BY <1>5 DEF PostFails
  <2>2. dark + lost <= MaxBlind
    BY DEF NoticesTypeOK
  <2>3. QED
    BY <2>1, <2>2, Posting
<1>6. ASSUME NEW k \in NoticeKeys, PostUnheard(k) PROVE NoticesInv'
  <2>1. Posts(k, TRUE, "failed") /\ dark' = dark /\ lost' = lost + 1 /\ dark + lost < MaxBlind
    BY <1>6 DEF PostUnheard, Loses
  <2>2. dark' + lost' <= MaxBlind
    BY <2>1 DEF PlanInv
  <2>3. QED
    BY <2>1, <2>2, Posting
<1>7. CASE ChannelMoves
  BY <1>7, WorldKeepsCounts DEF ChannelMoves, tickVars, NoticesTypeOK, PlanInv
<1>8. CASE TableMoves
  BY <1>8, WorldKeepsCounts DEF TableMoves, tickVars, NoticesTypeOK, PlanInv
<1>9. CASE NoticesCrash
  BY <1>9, Crashing
<1>10. ASSUME NEW d \in Downloads, DownloadMoves(d) PROVE NoticesInv'
  BY <1>10, WorldKeepsCounts DEF DownloadMoves, tickVars, NoticesTypeOK, PlanInv
<1>11. ASSUME NEW f \in Files, FileMoves(f) PROVE NoticesInv'
  <2>1. size' \in [Files -> 0..MaxGrowth] /\ whole' \in [Files -> BOOLEAN]
    <3>1. size \in [Files -> 0..MaxGrowth] /\ whole \in [Files -> BOOLEAN]
      BY DEF NoticesTypeOK
    <3>2. CASE size[f] < MaxGrowth /\ size' = [size EXCEPT ![f] = @ + 1] /\ UNCHANGED whole
      BY <3>1, <3>2
    <3>3. CASE size[f] > 0 /\ whole' = [whole EXCEPT ![f] = TRUE] /\ UNCHANGED size
      BY <3>1, <3>3
    <3>4. QED
      BY <1>11, <3>2, <3>3 DEF FileMoves
  <2>2. QED
    BY <1>11, <2>1, WorldKeepsCounts DEF FileMoves, tickVars, NoticesTypeOK, PlanInv
<1>12. CASE UNCHANGED noticeVars
  BY <1>12, WorldKeepsCounts DEF noticeVars, tickVars, NoticesTypeOK, PlanInv
<1>13. QED
  BY <1>1, <1>2, <1>3, <1>4, <1>5, <1>6, <1>7, <1>8, <1>9, <1>10, <1>11, <1>12
  DEF NoticesNext, PollerStep

(* Nobody is told twice of a thing, nor for ever of one that cannot be sent, but once more
   for each row that was not read or not written and each answer that was lost
   (download_notices.py). *)
THEOREM NoticesComeToAnEnd == NoticesSpec => []NoticesEnd
<1>1. NoticesInv => NoticesEnd
  BY NoticesAssumption DEF NoticesInv, NoticesEnd, ToldOnce, AttemptsEnd, ToldInv, CountInv, Owed, PlanInv
<1>2. QED
  BY <1>1, NoticesStart, NoticesStep, PTL DEF NoticesSpec

-----------------------------------------------------------------------------
(* The acks. A number of the arr names one incident, in whatever page, cache or table
   it is held. *)
\* The incidents anybody has heard of.
Heard == Blocked(queueId) \cup Blocked(traceCache) \cup pageOf \cup dismissed

\* The arr gives a number once: a number names its incident.
NumbersAreUnique ==
  /\ \A i \in Heard : i[2] <= lastId
  /\ \A i, j \in Heard : i[2] = j[2] => i = j

\* The table holds what was dismissed, and the page hides what the table held.
AcksAreDismissed ==
  /\ \A a \in acks : \E i \in dismissed : a = IncidentKey(i[1], i[2])
  /\ \A i \in dismissed : Named(i[1]) /\ IncidentKey(i[1], i[2]) \in acks
  /\ page \subseteq pageOf

AcksInv == AcksTypeOK /\ NumbersAreUnique /\ AcksAreDismissed /\ OnlyDismissedIsHidden

LEMMA BlockedPairs ==
  ASSUME NEW e \in [Traces -> 0..MaxQueueId]
  PROVE  /\ Blocked(e) \subseteq Incidents
         /\ \A t \in Traces, q \in 1..MaxQueueId : <<t, q>> \in Blocked(e) <=> e[t] = q
BY AcksAssumption DEF Blocked, Incidents

LEMMA AcksStart == ASSUME AcksInit PROVE AcksInv
<1>1. Heard = {}
  BY DEF AcksInit, Heard, Blocked
<1>2. QED
  BY <1>1, AcksAssumption DEF AcksInit, AcksInv, AcksTypeOK, NumbersAreUnique, AcksAreDismissed, OnlyDismissedIsHidden

LEMMA AcksTypes == ASSUME AcksTypeOK, [AcksNext]_ackVars PROVE AcksTypeOK'
<1> USE AcksAssumption DEF AcksTypeOK
<1>1. CASE RefreshTraces
  BY <1>1 DEF RefreshTraces
<1>2. CASE AcksTableMoves
  BY <1>2 DEF AcksTableMoves
<1>3. CASE ShowPage
  <2>1. pageOf' \subseteq Incidents
    BY <1>3, BlockedPairs DEF ShowPage
  <2>2. QED
    BY <1>3, <2>1 DEF ShowPage, VisibleTraces
<1>4. ASSUME NEW t \in Traces, BlockImport(t) PROVE AcksTypeOK'
  BY <1>4 DEF BlockImport
<1>5. ASSUME NEW t \in Traces, MoveOn(t) PROVE AcksTypeOK'
  BY <1>5 DEF MoveOn
<1>6. ASSUME NEW t \in Traces, NEW q \in 1..MaxQueueId, AckBlocked(t, q) PROVE AcksTypeOK'
  <2>1. <<t, q>> \in Incidents /\ IncidentKey(t, q) \in {Identity[x] : x \in Traces} \X (1..MaxQueueId)
    BY DEF Incidents, IncidentKey
  <2>2. QED
    BY <1>6, <2>1 DEF AckBlocked
<1>7. CASE UNCHANGED ackVars
  BY <1>7 DEF ackVars
<1>8. QED
  BY <1>1, <1>2, <1>3, <1>4, <1>5, <1>6, <1>7 DEF AcksNext

\* What was heard of is heard of before, but for a block under the next number.
LEMMA HeardGrows ==
  ASSUME AcksInv, [AcksNext]_ackVars
  PROVE  /\ lastId' >= lastId
         /\ \/ Heard' \subseteq Heard
            \/ lastId' = lastId + 1 /\ \E t \in Traces : Heard' \subseteq Heard \cup {<<t, lastId'>>}
<1> USE AcksAssumption DEF AcksInv, Heard
<1>a. lastId \in 0..MaxQueueId
  BY DEF AcksTypeOK
<1>1. CASE RefreshTraces
  <2>1. Blocked(traceCache)' = Blocked(queueId)
    BY <1>1 DEF RefreshTraces, Blocked
  <2>2. Blocked(queueId)' = Blocked(queueId)
    BY <1>1 DEF RefreshTraces, Blocked
  <2>3. QED
    BY <1>1, <1>a, <2>1, <2>2 DEF RefreshTraces
<1>2. CASE AcksTableMoves
  BY <1>2, <1>a DEF AcksTableMoves, Blocked
<1>3. CASE ShowPage
  BY <1>3, <1>a DEF ShowPage, Blocked
<1>4. ASSUME NEW t \in Traces, BlockImport(t)
      PROVE  lastId' = lastId + 1 /\ Heard' \subseteq Heard \cup {<<t, lastId'>>}
  <2>1. Blocked(queueId)' \subseteq Blocked(queueId) \cup {<<t, lastId + 1>>}
    BY <1>4 DEF BlockImport, Blocked, AcksTypeOK
  <2>2. Blocked(traceCache)' = Blocked(traceCache)
    BY <1>4 DEF BlockImport, Blocked
  <2>3. QED
    BY <1>4, <2>1, <2>2 DEF BlockImport
<1>5. ASSUME NEW t \in Traces, MoveOn(t) PROVE lastId' = lastId /\ Heard' \subseteq Heard
  <2>1. Blocked(queueId)' \subseteq Blocked(queueId)
    BY <1>5 DEF MoveOn, Blocked, AcksTypeOK
  <2>2. Blocked(traceCache)' = Blocked(traceCache)
    BY <1>5 DEF MoveOn, Blocked
  <2>3. QED
    BY <1>5, <2>1, <2>2 DEF MoveOn
<1>6. ASSUME NEW t \in Traces, NEW q \in 1..MaxQueueId, AckBlocked(t, q)
      PROVE  lastId' = lastId /\ Heard' \subseteq Heard
  <2>1. Blocked(queueId)' = Blocked(queueId) /\ Blocked(traceCache)' = Blocked(traceCache)
    BY <1>6 DEF AckBlocked, Blocked
  <2>2. <<t, q>> \in pageOf
    BY <1>6 DEF AckBlocked, AcksAreDismissed
  <2>3. QED
    BY <1>6, <2>1, <2>2 DEF AckBlocked
<1>7. CASE UNCHANGED ackVars
  BY <1>7, <1>a DEF ackVars, Blocked
<1>8. QED
  BY <1>1, <1>2, <1>3, <1>4, <1>5, <1>6, <1>7, <1>a DEF AcksNext

LEMMA NumbersStayUnique ==
  ASSUME AcksInv, [AcksNext]_ackVars
  PROVE  NumbersAreUnique'
<1>1. lastId \in Nat /\ lastId' \in Nat
  BY AcksAssumption, AcksTypes DEF AcksInv, AcksTypeOK
<1>2. \A i \in Heard : i[2] \in Nat
  BY AcksAssumption, BlockedPairs DEF AcksInv, AcksTypeOK, Heard, Incidents
<1>3. CASE Heard' \subseteq Heard
  BY <1>1, <1>2, <1>3, HeardGrows DEF AcksInv, NumbersAreUnique
<1>4. ASSUME NEW t \in Traces, lastId' = lastId + 1, Heard' \subseteq Heard \cup {<<t, lastId'>>}
      PROVE  NumbersAreUnique'
  <2>1. \A i \in Heard : i[2] # lastId' /\ i[2] <= lastId'
    BY <1>1, <1>2, <1>4 DEF AcksInv, NumbersAreUnique
  <2>2. \A i \in Heard' : i \in Heard \/ i = <<t, lastId'>>
    BY <1>4
  <2>3. QED
    BY <1>1, <2>1, <2>2 DEF AcksInv, NumbersAreUnique
<1>5. QED
  BY <1>3, <1>4, HeardGrows

LEMMA AcksStayDismissed ==
  ASSUME AcksInv, [AcksNext]_ackVars
  PROVE  AcksAreDismissed' /\ OnlyDismissedIsHidden'
<1> USE DEF AcksInv, AcksAreDismissed, OnlyDismissedIsHidden, Named, IncidentKey
<1>1. CASE RefreshTraces
  BY <1>1 DEF RefreshTraces
<1>2. CASE AcksTableMoves
  BY <1>2 DEF AcksTableMoves
<1>3. CASE ShowPage
  <2>1. page' \subseteq pageOf' /\ UNCHANGED <<acks, dismissed>>
    BY <1>3 DEF ShowPage, VisibleTraces
  <2>2. ASSUME NEW i \in pageOf', i \notin page' PROVE i \in dismissed
    <3>1. i \in Blocked(traceCache) /\ i \in Heard
      BY <1>3 DEF ShowPage, Heard
    <3>2. IncidentKey(i[1], i[2]) \in acks
      BY <1>3, <2>2 DEF ShowPage, VisibleTraces, Acknowledged
    <3>3. PICK j \in dismissed : IncidentKey(i[1], i[2]) = IncidentKey(j[1], j[2])
      BY <3>2
    <3>4. j \in Heard /\ j[2] = i[2]
      BY <3>3 DEF Heard
    <3>5. QED
      BY <3>1, <3>3, <3>4 DEF NumbersAreUnique
  <2>3. QED
    BY <2>1, <2>2
<1>4. ASSUME NEW t \in Traces, BlockImport(t) PROVE AcksAreDismissed' /\ OnlyDismissedIsHidden'
  BY <1>4 DEF BlockImport
<1>5. ASSUME NEW t \in Traces, MoveOn(t) PROVE AcksAreDismissed' /\ OnlyDismissedIsHidden'
  BY <1>5 DEF MoveOn
<1>6. ASSUME NEW t \in Traces, NEW q \in 1..MaxQueueId, AckBlocked(t, q)
      PROVE  AcksAreDismissed' /\ OnlyDismissedIsHidden'
  <2>1. <<t, q>>[1] = t /\ <<t, q>>[2] = q
    OBVIOUS
  <2>2. acks' = acks \cup {IncidentKey(t, q)} /\ dismissed' = dismissed \cup {<<t, q>>}
        /\ UNCHANGED <<page, pageOf>> /\ Named(t)
    BY <1>6 DEF AckBlocked
  <2>3. QED
    BY <2>1, <2>2
<1>7. CASE UNCHANGED ackVars
  BY <1>7 DEF ackVars
<1>8. QED
  BY <1>1, <1>2, <1>3, <1>4, <1>5, <1>6, <1>7 DEF AcksNext

LEMMA AcksInvariant == AcksSpec => []AcksInv
<1>1. AcksInv /\ [AcksNext]_ackVars => AcksInv'
  BY AcksTypes, NumbersStayUnique, AcksStayDismissed DEF AcksInv
<1>2. QED
  BY <1>1, AcksStart, PTL DEF AcksSpec

(* The page hides what was dismissed and nothing else, not the same item blocked anew and
   not another of the same identity, whatever restarts in between (blocked_acks.py). *)
THEOREM DismissalsHold == AcksSpec => AcksHold
<1>1. AcksInv => AcksTypeOK /\ OnlyDismissedIsHidden
  BY DEF AcksInv
<1>2. AcksInv /\ [AcksNext]_ackVars => [page' # page /\ acksUp => page' \cap dismissed = {}]_ackVars
  <2> SUFFICES ASSUME AcksInv, AcksNext, page' # page, acksUp PROVE page' \cap dismissed = {}
    OBVIOUS
  <2>1. ShowPage
    BY DEF AcksNext, RefreshTraces, AcksTableMoves, BlockImport, MoveOn, AckBlocked
  <2>2. QED
    BY <2>1 DEF ShowPage, VisibleTraces, Acknowledged, AcksInv, AcksAreDismissed
<1>3. QED
  BY <1>1, <1>2, AcksInvariant, PTL DEF AcksSpec, AcksHold, DismissedStaysHidden
=============================================================================
