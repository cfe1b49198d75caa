--------------------------- MODULE AutoCopyProofs ---------------------------
(***************************************************************************)
(* The guarantees of the auto-copy sweep, for any number of downloads,     *)
(* sweeps, restarts and lost writes and any grace window.  At most once is *)
(* an account: what was dispatched, and what is about to be, is covered by *)
(* the claims in the store and the writes it lost.  The grace window rests *)
(* on ages that never overtake how long the torrent has been done.         *)
(***************************************************************************)
EXTENDS AutoCopy, TLAPS

Dispatching == {"removal", "root", "names"}
Pending(d) == \E c \in Sweepers : pc[c] \in Dispatching /\ cur[c] = d

\* One sweep at a time, and it knows which trace it is at.
LockInv ==
  \A c \in Sweepers :
    /\ pc[c] # "idle" => lock = c
    /\ cur[c] # NoDownload <=> pc[c] \in Dispatching \union {"probe"}
    /\ pc[c] = "probe" => marker[cur[c]] # "copy"

\* What was dispatched is covered by a claim or by a write that was lost.
Paid(d) == lost[d] + (IF marker[d] = "copy" THEN 1 ELSE 0)
CountInv == \A d \in Downloads : autos[d] + (IF Pending(d) THEN 1 ELSE 0) <= Paid(d)

\* The part of the types the account needs.
AccountType ==
  /\ marker \in [Downloads -> Marker]
  /\ lost \in [Downloads -> Nat]
  /\ autos \in [Downloads -> Nat]
  /\ lock \in Sweepers \union {NoDownload}
  /\ pc \in [Sweepers -> PCs]
  /\ cur \in [Sweepers -> Downloads \union {NoDownload}]

AccountInv == AccountType /\ LockInv /\ CountInv

-----------------------------------------------------------------------------
\* A copy is decided only for a trace that is ours and not handled.
LEMMA CopyIsUnhandled ==
  ASSUME NEW tr, NEW own \in BOOLEAN, NEW handled \in BOOLEAN, NEW hasFile, NEW foreign, NEW direct,
         NEW elapsed, DecideCopy(tr, own, handled, hasFile, foreign, direct, elapsed) = "copy"
  PROVE  own /\ ~handled
BY DEF DecideCopy

\* The sweep that moves to the next trace, as the account sees it.
LEMMA NextOneStep ==
  ASSUME AccountInv, NEW c \in Sweepers, NEW d \in Downloads, pc[c] # "idle", UNCHANGED <<lock, autos>>,
         Next1(c, d), AccountType', 
         \A e \in Downloads : Paid(e)' >= Paid(e) \/ (e = d /\ Paid(e)' >= autos[e])
  PROVE  AccountInv'
<1> USE DEF AccountInv, AccountType
<1>1. pc' = [pc EXCEPT ![c] = "loop"] /\ cur' = [cur EXCEPT ![c] = NoDownload]
  BY DEF Next1
<1>2. \A b \in Sweepers : b # c => pc[b] = "idle"
  BY ACAssumption DEF LockInv
<1>3. LockInv'
  BY <1>1, <1>2 DEF LockInv, Dispatching
<1>4. \A e \in Downloads : ~Pending(e)'
  BY <1>1, <1>2 DEF Pending, Dispatching
<1>5. CountInv'
  <2>1. \A e \in Downloads : autos[e] \in Nat /\ autos'[e] = autos[e] /\ Paid(e) \in Nat /\ Paid(e)' \in Nat
    BY DEF Paid
  <2>2. \A e \in Downloads : autos[e] <= Paid(e)
    BY <2>1 DEF CountInv
  <2>3. QED
    BY <1>4, <2>1, <2>2 DEF CountInv
<1>6. QED
  BY <1>3, <1>5

\* A claim, or its downgrade, changes the account of one download.
LEMMA WriteMarkerPays ==
  ASSUME AccountType, NEW d \in Downloads, NEW m \in Marker, WriteMarker(d, m)
  PROVE  /\ marker' \in [Downloads -> Marker] /\ lost' \in [Downloads -> Nat]
         /\ \A e \in Downloads \ {d} : Paid(e)' = Paid(e)
         /\ Paid(d)' >= lost[d]
         /\ marker[d] # "copy" => Paid(d)' >= Paid(d)
         /\ m = "copy" => Paid(d)' >= lost[d] + 1
         /\ marker[d] # "copy" => Paid(d) = lost[d]
         /\ Paid(d) <= lost[d] + 1
<1>1. CASE marker' = [marker EXCEPT ![d] = m] /\ UNCHANGED lost
  BY <1>1 DEF AccountType, Paid
<1>2. CASE lost' = [lost EXCEPT ![d] = @ + 1] /\ UNCHANGED marker
  BY <1>2 DEF AccountType, Paid
<1>3. QED
  BY <1>1, <1>2 DEF WriteMarker

\* A verdict: what it writes of a trace that is not handled is paid for.
LEMMA OutcomeStep ==
  ASSUME AccountInv, NEW c \in Sweepers, NEW d \in Downloads, pc[c] \in {"loop", "probe"},
         pc[c] = "probe" => cur[c] = d,
         NEW handled \in BOOLEAN, ~handled => marker[d] # "copy", NEW hasFile,
         Outcome(c, d, handled, hasFile), UNCHANGED <<lock, autos>>
  PROVE  AccountInv'
<1> DEFINE v == Decision(c, d, handled, hasFile)
<1>1. AccountType /\ LockInv /\ CountInv
  BY DEF AccountInv
<1>2. v = "copy" => marker[d] # "copy"
  BY CopyIsUnhandled DEF Decision, IsOwn
<1>3. pc[c] # "idle" /\ "loop" \in PCs
  BY DEF PCs
<1>4. \A m \in {"failed", "proposed", "copy"} : m \in Marker
  BY DEF Marker
<1>5. \A e \in Downloads : autos[e] \in Nat /\ lost[e] \in Nat /\ Paid(e) \in Nat /\ autos[e] <= Paid(e)
  BY <1>1 DEF AccountType, Paid, CountInv
<1>6. ASSUME Next1(c, d), NoWrite
      PROVE  AccountInv'
  <2>1. AccountType'
    BY <1>1, <1>3, <1>6 DEF AccountType, Next1, NoWrite
  <2>2. \A e \in Downloads : Paid(e)' = Paid(e)
    BY <1>6 DEF NoWrite, Paid
  <2>3. QED
    BY <1>3, <1>5, <1>6, <2>1, <2>2, NextOneStep
<1>7. ASSUME v = "copy", NEW m \in {"failed", "proposed"}, WriteMarker(d, m), Next1(c, d)
      PROVE  AccountInv'
  <2>1. AccountType' /\ \A e \in Downloads : Paid(e)' >= Paid(e)
    <3>1. /\ marker' \in [Downloads -> Marker] /\ lost' \in [Downloads -> Nat]
          /\ \A e \in Downloads \ {d} : Paid(e)' = Paid(e)
          /\ Paid(d)' >= Paid(d)
      BY <1>1, <1>2, <1>4, <1>7, WriteMarkerPays
    <3>2. AccountType'
      BY <1>1, <1>3, <1>7, <3>1 DEF AccountType, Next1
    <3>3. QED
      BY <1>5, <3>1, <3>2
  <2>2. QED
    BY <1>1, <1>3, <1>7, <2>1, NextOneStep DEF AccountInv
<1>8. ASSUME v = "copy", lost' = [lost EXCEPT ![d] = @ + 1], marker' = [marker EXCEPT ![d] = "copy"],
             Next1(c, d)
      PROVE  AccountInv'
  <2>1. AccountType'
    BY <1>1, <1>3, <1>8 DEF AccountType, Next1, Marker
  <2>2. \A e \in Downloads : Paid(e)' >= Paid(e)
    BY <1>1, <1>8 DEF AccountType, Paid
  <2>3. QED
    BY <1>1, <1>3, <1>8, <2>1, <2>2, NextOneStep DEF AccountInv
<1>9. ASSUME v = "copy", NEW r \in Dispatching, WriteMarker(d, "copy"), cur' = [cur EXCEPT ![c] = d],
             pc' = [pc EXCEPT ![c] = r]
      PROVE  AccountInv'
  <2>1. /\ marker' \in [Downloads -> Marker] /\ lost' \in [Downloads -> Nat]
        /\ \A e \in Downloads \ {d} : Paid(e)' = Paid(e)
        /\ Paid(d)' >= lost[d] + 1 /\ Paid(d) = lost[d]
    BY <1>1, <1>2, <1>4, <1>9, WriteMarkerPays
  <2>2. AccountType'
    BY <1>1, <1>9, <2>1 DEF AccountType, Dispatching, PCs
  <2>3. \A b \in Sweepers : b # c => pc[b] = "idle" /\ pc'[b] = "idle"
    BY <1>1, <1>3, <1>9, ACAssumption DEF LockInv, AccountType
  <2>4. LockInv'
    BY <1>1, <1>3, <1>9, <2>3, ACAssumption DEF LockInv, AccountType, Dispatching
  <2>5. \A e \in Downloads \ {d} : ~Pending(e)'
    BY <1>1, <1>9, <2>3 DEF Pending, Dispatching, AccountType
  <2>6. CountInv'
    <3>1. \A e \in Downloads : Paid(e)' \in Nat
      BY <2>2 DEF AccountType, Paid
    <3>2. QED
      BY <1>5, <2>1, <2>5, <3>1 DEF CountInv
  <2>7. QED
    BY <2>2, <2>4, <2>6 DEF AccountInv
<1>10. CASE v # "copy"
  BY <1>6, <1>10 DEF Outcome
<1>11. CASE v = "copy" /\ safe[c]
  BY <1>7, <1>11 DEF Outcome
<1>12. CASE v = "copy" /\ ~safe[c]
  <2>1. Act(c, d)
    BY <1>12 DEF Outcome
  <2>2. Route(d, snap[c][d]) \in Dispatching \union {"refused"}
    BY DEF Route, Dispatching
  <2>3. QED
    BY <1>7, <1>8, <1>9, <1>12, <2>1, <2>2 DEF Act
<1>13. QED
  BY <1>10, <1>11, <1>12

\* A step that writes nothing to the store and dispatches nothing.
LEMMA QuietStep ==
  ASSUME AccountInv, UNCHANGED <<marker, lost, autos>>, LockInv', AccountType',
         \A d \in Downloads : Pending(d)' => Pending(d)
  PROVE  AccountInv'
<1>1. \A d \in Downloads : Paid(d)' = Paid(d) /\ autos'[d] = autos[d]
  BY DEF Paid
<1>2. \A d \in Downloads : autos[d] \in Nat /\ Paid(d) \in Nat
  BY DEF AccountInv, AccountType, Paid
<1>3. QED
  BY <1>1, <1>2 DEF AccountInv, CountInv

\* A dispatch that fails gives its claim back.
LEMMA FailedStep ==
  ASSUME AccountInv, NEW c \in Sweepers, NEW d \in Downloads, cur[c] = d, pc[c] \in Dispatching,
         WriteMarker(d, "failed"), Next1(c, d), UNCHANGED <<lock, autos>>
  PROVE  AccountInv'
<1>1. AccountType /\ LockInv /\ CountInv
  BY DEF AccountInv
<1>2. pc[c] # "idle" /\ "failed" \in Marker
  BY <1>1 DEF Dispatching, Marker
<1>3. /\ marker' \in [Downloads -> Marker] /\ lost' \in [Downloads -> Nat]
      /\ \A e \in Downloads \ {d} : Paid(e)' = Paid(e)
      /\ Paid(d)' >= lost[d]
      /\ Paid(d) <= lost[d] + 1
  BY <1>1, <1>2, WriteMarkerPays
<1>4. autos[d] + 1 <= Paid(d)
  BY <1>1, <1>2 DEF CountInv, Pending
<1>5. Paid(d)' >= autos[d]
  <2>1. autos[d] \in Nat /\ lost[d] \in Nat /\ Paid(d) \in Nat
    BY <1>1 DEF AccountType, Paid
  <2>2. Paid(d)' \in Nat
    BY <1>3 DEF Paid
  <2>3. QED
    BY <1>3, <1>4, <2>1, <2>2
<1>6. \A e \in Downloads : Paid(e) \in Nat
  BY <1>1 DEF AccountType, Paid
<1>7. AccountType'
  BY <1>1, <1>3 DEF AccountType, Next1, PCs
<1>8. QED
  BY <1>2, <1>3, <1>5, <1>6, <1>7, NextOneStep

\* Every step keeps the account.
LEMMA AccountStep == AccountInv /\ [Next]_vars => AccountInv'
<1> SUFFICES ASSUME AccountInv, [Next]_vars PROVE AccountInv'
  OBVIOUS
<1>a. AccountType /\ LockInv /\ CountInv
  BY DEF AccountInv
<1> USE <1>a, ACAssumption
<1>1. CASE UNCHANGED <<marker, lost, autos, lock, pc, cur>>
  BY <1>1 DEF AccountInv, AccountType, LockInv, CountInv, Pending, Paid
<1>2. CASE Crash
  <2>1. LockInv' /\ AccountType' /\ \A d \in Downloads : ~Pending(d)'
    BY <1>2 DEF Crash, LockInv, AccountType, PCs, Dispatching, Pending, store
  <2>2. QED
    BY <1>2, <2>1, QuietStep DEF Crash, store
<1>3. ASSUME NEW c \in Sweepers, NEW mode \in BOOLEAN, Start(c, mode)
      PROVE  AccountInv'
  <2>1. \A b \in Sweepers : pc[b] = "idle"
    BY <1>3 DEF Start, Free, LockInv
  <2>2. LockInv' /\ AccountType'
    BY <1>3, <2>1 DEF Start, LockInv, AccountType, PCs, Dispatching, store
  <2>3. \A d \in Downloads : ~Pending(d)'
    BY <1>3, <2>1 DEF Start, AccountType, Dispatching, Pending
  <2>4. QED
    BY <1>3, <2>2, <2>3, QuietStep DEF Start, store
<1>4. ASSUME NEW c \in Sweepers, SweepStep(c)
      PROVE  AccountInv'
  <2>1. CASE ReadQueues(c) \/ ReadTorrents(c) \/ ReadRoots(c)
    <3>1. LockInv' /\ AccountType' /\ \A d \in Downloads : Pending(d)' => Pending(d)
      BY <2>1 DEF ReadQueues, ReadTorrents, ReadRoots, LockInv, AccountType, PCs, Dispatching,
         Pending, store
    <3>2. QED
      BY <2>1, <3>1, QuietStep DEF ReadQueues, ReadTorrents, ReadRoots, store
  <2>2. CASE TracesFail(c) \/ SweepEnds(c)
    <3>0. pc[c] # "idle" /\ Finish(c) /\ UNCHANGED <<marker, lost, autos>>
      BY <2>2 DEF TracesFail, SweepEnds, store
    <3>1. \A b \in Sweepers : b # c => pc[b] = "idle"
      BY <3>0 DEF LockInv
    <3>2. LockInv' /\ AccountType' /\ \A d \in Downloads : ~Pending(d)'
      BY <3>0, <3>1 DEF Finish, GoIdle, LockInv, AccountType, PCs, Dispatching, Pending
    <3>3. QED
      BY <3>0, <3>2, QuietStep
  <2>3. ASSUME NEW d \in Downloads, Judge(c, d)
        PROVE  AccountInv'
    <3>1. marker[d] # "copy"
      BY <2>3 DEF Judge, NeedsProbe, Handled
    <3>2. LockInv' /\ AccountType' /\ \A e \in Downloads : Pending(e)' => Pending(e)
      BY <2>3, <3>1 DEF Judge, LockInv, AccountType, PCs, Dispatching, Pending, store
    <3>3. QED
      BY <2>3, <3>2, QuietStep DEF Judge, store
  <2>4. ASSUME NEW d \in Downloads, JudgeAtOnce(c, d)
        PROVE  AccountInv'
    <3>1. /\ pc[c] = "loop" /\ Outcome(c, d, Handled(d), "unknown") /\ UNCHANGED <<lock, autos>>
          /\ Handled(d) \in BOOLEAN /\ (~Handled(d) => marker[d] # "copy")
      BY <2>4 DEF JudgeAtOnce, Handled
    <3>2. QED
      BY <3>1, OutcomeStep
  <2>5. ASSUME NEW d \in Downloads, Probed(c, d)
        PROVE  AccountInv'
    <3>1. /\ pc[c] = "probe" /\ cur[c] = d /\ UNCHANGED <<lock, autos>> /\ marker[d] # "copy"
          /\ \E h \in {"yes", "no", "unknown"} : Outcome(c, d, FALSE, h)
      BY <2>5 DEF Probed, LockInv
    <3>2. QED
      BY <3>1, OutcomeStep
  <2>6. ASSUME NEW d \in Downloads, BadTrace(c, d)
        PROVE  AccountInv'
    <3>1. pc[c] # "idle" /\ UNCHANGED <<lock, autos, marker, lost>> /\ Next1(c, d)
      BY <2>6 DEF BadTrace, NoWrite
    <3>2. AccountType'
      BY <3>1 DEF Next1, AccountType, PCs
    <3>3. \A e \in Downloads : Paid(e)' = Paid(e) /\ Paid(e) \in Nat
      BY <3>1 DEF Paid, AccountType
    <3>4. QED
      BY <3>1, <3>2, <3>3, NextOneStep
  <2>7. QED
    BY <1>4, <2>1, <2>2, <2>3, <2>4, <2>5, <2>6 DEF SweepStep
<1>5. ASSUME NEW c \in Sweepers, DispatchStep(c)
      PROVE  AccountInv'
  <2>1. CASE DispatchFails(c) \/ RemovalUnheard(c)
    <3>1. /\ pc[c] \in Dispatching /\ UNCHANGED <<lock, autos>>
          /\ WriteMarker(cur[c], "failed") /\ Next1(c, cur[c])
      BY <2>1 DEF DispatchFails, RemovalUnheard, Dispatching, Failed
    <3>2. cur[c] \in Downloads
      BY <3>1 DEF AccountType, LockInv
    <3>3. QED
      BY <3>1, <3>2, FailedStep
  <2>2. CASE Removed(c) \/ RootFound(c)
    <3>1. LockInv' /\ AccountType' /\ \A d \in Downloads : Pending(d)' => Pending(d)
      BY <2>2 DEF Removed, RootFound, LockInv, AccountType, PCs, Dispatching, Pending, store
    <3>2. QED
      BY <2>2, <3>1, QuietStep DEF Removed, RootFound, store
  <2>3. CASE Spawn(c)
    <3>1. /\ pc[c] = "names" /\ Next1(c, cur[c]) /\ autos' = [autos EXCEPT ![cur[c]] = @ + 1]
          /\ UNCHANGED <<marker, lost, lock>>
      BY <2>3 DEF Spawn, store
    <3>2. \A b \in Sweepers : b # c => pc[b] = "idle"
      BY <3>1 DEF LockInv
    <3>3. cur[c] \in Downloads
      BY <3>1 DEF AccountType, LockInv, Dispatching
    <3>4. LockInv' /\ AccountType' /\ \A d \in Downloads : ~Pending(d)'
      BY <3>1, <3>2, <3>3 DEF Next1, LockInv, AccountType, PCs, Dispatching, Pending
    <3>5. Pending(cur[c])
      BY <3>1 DEF Pending, Dispatching
    <3>6. \A d \in Downloads : Paid(d)' = Paid(d) /\ Paid(d) \in Nat /\ autos[d] \in Nat
      BY <3>1 DEF Paid, AccountType
    <3>7. CountInv'
      BY <3>1, <3>3, <3>4, <3>5, <3>6 DEF CountInv, AccountType
    <3>8. QED
      BY <3>4, <3>7 DEF AccountInv
  <2>4. QED
    BY <1>5, <2>1, <2>2, <2>3 DEF DispatchStep
<1>6. WorldStep \/ Tick \/ CopyOver \/ UNCHANGED vars => UNCHANGED <<marker, lost, autos, lock, pc, cur>>
  BY DEF WorldStep, Tick, CopyOver, vars, world, store, sweep
<1>7. QED
  BY <1>1, <1>2, <1>3, <1>4, <1>5, <1>6 DEF Next

\* It holds when the process starts for the first time.
LEMMA AccountInit == Init => AccountInv
<1> SUFFICES ASSUME Init PROVE AccountInv
  OBVIOUS
<1>1. AccountType /\ LockInv
  BY ACAssumption DEF Init, AccountType, LockInv, Dispatching, Marker, PCs
<1>2. \A d \in Downloads : ~Pending(d)
  BY DEF Init, Pending, Dispatching
<1>3. \A d \in Downloads : autos[d] = 0 /\ lost[d] = 0 /\ marker[d] = "none"
  BY DEF Init
<1>4. QED
  BY <1>1, <1>2, <1>3 DEF AccountInv, CountInv, Paid

\* The sweep copies a download at most once, for any number of sweeps, restarts
\* and failures, but for the claims the store lost.
THEOREM AtMostOneCopy == Spec => []CopiedAtMostOnce
<1>1. AccountInv => CopiedAtMostOnce
  <2> SUFFICES ASSUME AccountInv, NEW d \in Downloads PROVE autos[d] <= 1 + lost[d]
    BY DEF CopiedAtMostOnce
  <2>1. autos[d] \in Nat /\ lost[d] \in Nat /\ Paid(d) \in Nat /\ Paid(d) <= lost[d] + 1
    BY DEF AccountInv, AccountType, Paid
  <2>2. autos[d] <= Paid(d)
    BY <2>1 DEF AccountInv, CountInv
  <2>3. QED
    BY <2>1, <2>2
<1>2. QED
  BY <1>1, AccountInit, AccountStep, PTL DEF Spec

-----------------------------------------------------------------------------
\* The grace window.

Shown == [stage : Stage, warning : BOOLEAN, queued : BOOLEAN, path : BOOLEAN]
AgeType ==
  /\ torrent \in [Downloads -> Torrent]
  /\ queue \in [Downloads -> Queue]
  /\ doneAge \in [Downloads -> 0..Grace]
  /\ marker \in [Downloads -> Marker]
  /\ seen \in [Downloads -> [stage : Stage \union {""}, age : 0..Grace]]
  /\ snap \in [Sweepers -> [Downloads -> Shown]]
  /\ aged \in [Sweepers -> [Downloads -> 0..Grace]]

\* What is shown as finished is finished, and no age overtakes the torrent's.
AgeInv ==
  \A d \in Downloads :
    /\ queue[d] \in {"pending", "warning", "importing"} => torrent[d] = "done"
    /\ torrent[d] # "done" => doneAge[d] = 0
    /\ seen[d].stage # "" => torrent[d] = "done"
    /\ seen[d].stage = "" => seen[d].age = 0
    /\ seen[d].age <= doneAge[d]
    /\ \A c \in Sweepers :
         /\ snap[c][d].stage \in {"import_blocked", "downloaded"} => torrent[d] = "done"
         /\ snap[c][d].warning => snap[c][d].stage = "import_blocked"
         /\ aged[c][d] <= doneAge[d]

WindowInv == AgeType /\ AgeInv

\* The types, one element at a time.
LEMMA AgeElements ==
  ASSUME AgeType, NEW d \in Downloads
  PROVE  /\ torrent[d] \in Torrent /\ queue[d] \in Queue
         /\ doneAge[d] \in 0..Grace
         /\ seen[d].stage \in Stage \union {""} /\ seen[d].age \in 0..Grace
         /\ \A c \in Sweepers : snap[c][d] \in Shown /\ aged[c][d] \in 0..Grace
<1>1. torrent[d] \in Torrent /\ queue[d] \in Queue /\ doneAge[d] \in 0..Grace
  BY DEF AgeType
<1>2. seen[d].stage \in Stage \union {""} /\ seen[d].age \in 0..Grace
  <2>1. seen[d] \in [stage : Stage \union {""}, age : 0..Grace]
    BY DEF AgeType
  <2>2. QED
    BY <2>1
<1>3. ASSUME NEW c \in Sweepers
      PROVE  snap[c][d] \in Shown /\ aged[c][d] \in 0..Grace
  <2>1. snap[c] \in [Downloads -> Shown] /\ aged[c] \in [Downloads -> 0..Grace]
    BY DEF AgeType
  <2>2. QED
    BY <2>1
<1>4. QED
  BY <1>1, <1>2, <1>3

\* Time keeps the order of two ages.
LEMMA OlderKeepsOrder ==
  ASSUME NEW a \in 0..Grace
  PROVE  /\ Older(a) \in 0..Grace /\ a <= Older(a)
         /\ \A b \in 0..Grace : a <= b => Older(a) <= Older(b)
BY ACAssumption DEF Older

LEMMA AgesAreNumbers ==
  ASSUME AgeType, NEW d \in Downloads
  PROVE  /\ doneAge[d] \in Nat /\ seen[d].age \in Nat
         /\ \A c \in Sweepers : aged[c][d] \in Nat
<1>1. \A n \in 0..Grace : n \in Nat
  BY ACAssumption
<1>2. QED
  BY <1>1, AgeElements

\* A trace is of the right kind and says "finished" only of what is.
LEMMA TraceShape ==
  ASSUME NEW t \in Torrent, NEW q \in Queue
  PROVE  /\ Trace(t, q) \in Shown
         /\ Trace(t, q).stage \in {"import_blocked", "downloaded"} =>
              q \in {"pending", "warning"} \/ t = "done"
         /\ Trace(t, q).warning => Trace(t, q).stage = "import_blocked"
BY DEF Trace, DeriveStage, Shown, Torrent, Queue, Stage

LEMMA JoinedShape ==
  ASSUME NEW tr \in Shown, NEW t \in Torrent, tr.warning => tr.stage = "import_blocked"
  PROVE  /\ Joined(tr, t) \in Shown
         /\ Joined(tr, t).stage \in {"import_blocked", "downloaded"} =>
              tr.stage = "import_blocked" \/ t = "done"
         /\ Joined(tr, t).warning => Joined(tr, t).stage = "import_blocked"
<1> DEFINE q == IF tr.warning THEN "warning"
                ELSE CASE tr.stage = "import_blocked" -> "pending"
                       [] tr.stage = "importing"      -> "importing"
                       [] OTHER -> IF tr.queued THEN "tracked" ELSE "out"
<1>1. /\ q \in Queue
      /\ q \in {"pending", "warning"} => tr.stage = "import_blocked"
  BY DEF Queue, Shown
<1>2. Joined(tr, t) = Trace(t, q)
  BY DEF Joined
<1> HIDE DEF q
<1>3. QED
  BY <1>1, <1>2, TraceShape

\* What a sweep forgets.
LEMMA IdleForgets ==
  ASSUME WindowInv, NEW c \in Sweepers, GoIdle(c), UNCHANGED <<torrent, queue, doneAge, marker, seen>>
  PROVE  WindowInv'
<1>1. snap' = [snap EXCEPT ![c] = Nothing] /\ aged' = [aged EXCEPT ![c] = Young]
  BY DEF GoIdle
<1>2. \A d \in Downloads : /\ Nothing[d] \in Shown /\ Nothing[d].stage = "sent" /\ ~Nothing[d].warning
                           /\ Young[d] = 0
  BY DEF Nothing, NoTrace, Shown, Stage, Young
<1>3. Nothing \in [Downloads -> Shown] /\ Young \in [Downloads -> 0..Grace]
  BY ACAssumption DEF Nothing, NoTrace, Shown, Stage, Young
<1>4. AgeType'
  BY <1>1, <1>3 DEF WindowInv, AgeType
<1>5. AgeInv'
  <2> SUFFICES ASSUME NEW d \in Downloads, NEW b \in Sweepers
               PROVE  /\ snap'[b][d].stage \in {"import_blocked", "downloaded"} => torrent[d] = "done"
                      /\ snap'[b][d].warning => snap'[b][d].stage = "import_blocked"
                      /\ aged'[b][d] <= doneAge[d]
    BY DEF WindowInv, AgeInv
  <2>1. doneAge[d] \in 0..Grace
    BY AgeElements DEF WindowInv
  <2>2. CASE b = c
    <3>1. snap'[b] = Nothing /\ aged'[b] = Young
      BY <1>1, <2>2 DEF WindowInv, AgeType
    <3>2. QED
      BY <1>2, <2>1, <3>1
  <2>3. CASE b # c
    <3>1. snap'[b] = snap[b] /\ aged'[b] = aged[b]
      BY <1>1, <2>3 DEF WindowInv, AgeType
    <3>2. QED
      BY <3>1 DEF WindowInv, AgeInv
  <2>4. QED
    BY <2>2, <2>3
<1>6. QED
  BY <1>4, <1>5 DEF WindowInv

\* A first sighting starts at nought, of a download that is finished.
LEMMA VerdictAges ==
  ASSUME WindowInv, NEW c \in Sweepers, NEW d \in Downloads, NEW handled \in BOOLEAN, NEW hasFile,
         Outcome(c, d, handled, hasFile), UNCHANGED <<torrent, queue, doneAge, snap, aged>>
  PROVE  WindowInv'
<1> USE DEF WindowInv
<1>1. marker' \in [Downloads -> Marker]
  BY DEF AgeType, Outcome, NoWrite, WriteMarker, Act, Marker
<1>2. CASE UNCHANGED seen
  BY <1>1, <1>2 DEF AgeType, AgeInv
<1>3. CASE seen' = [seen EXCEPT ![d] = [stage |-> snap[c][d].stage, age |-> 0]] /\ GraceRelevant(snap[c][d])
  <2>1. snap[c][d].stage \in {"downloaded", "import_blocked"} /\ torrent[d] = "done"
    BY <1>3 DEF GraceRelevant, AgeInv
  <2>2. 0 \in 0..Grace /\ snap[c][d].stage \in Stage
    BY <2>1, ACAssumption DEF Stage
  <2>3. AgeType'
    BY <1>1, <1>3, <2>2 DEF AgeType
  <2>4. AgeInv'
    <3>1. \A e \in Downloads : seen'[e] = IF e = d THEN [stage |-> snap[c][d].stage, age |-> 0] ELSE seen[e]
      BY <1>3 DEF AgeType
    <3>2. seen'[d] = [stage |-> snap[c][d].stage, age |-> 0]
      BY <3>1
    <3>3. doneAge[d] \in Nat
      BY AgesAreNumbers
    <3>4. ASSUME NEW e \in Downloads
          PROVE  /\ seen'[e].stage # "" => torrent'[e] = "done"
                 /\ seen'[e].stage = "" => seen'[e].age = 0
                 /\ seen'[e].age <= doneAge'[e]
      <4>1. CASE e = d
        <5>1. seen'[e].stage = snap[c][d].stage /\ seen'[e].age = 0
          BY <3>2, <4>1
        <5>2. seen'[e].stage # ""
          BY <2>1, <5>1
        <5>3. torrent'[e] = "done"
          BY <2>1, <4>1
        <5>4. doneAge'[e] \in Nat
          BY <3>3, <4>1
        <5>5. seen'[e].age <= doneAge'[e]
          BY <5>1, <5>4
        <5>6. QED
          BY <5>1, <5>2, <5>3, <5>5
      <4>2. CASE e # d
        <5>1. seen'[e] = seen[e]
          BY <3>1, <4>2
        <5>2. QED
          BY <5>1 DEF AgeInv
      <4>3. QED
        BY <4>1, <4>2
    <3>5. QED
      BY <3>4 DEF AgeInv
  <2>5. QED
    BY <2>3, <2>4
<1>4. QED
  BY <1>2, <1>3 DEF Outcome, Note, Noted

\* Every step keeps the ages and the types.
LEMMA WindowStep == WindowInv /\ [Next]_vars => WindowInv'
<1> SUFFICES ASSUME WindowInv, [Next]_vars PROVE WindowInv'
  OBVIOUS
<1>a. AgeType /\ AgeInv
  BY DEF WindowInv
<1> USE <1>a, ACAssumption
<1>1. CASE UNCHANGED <<torrent, queue, doneAge, marker, seen, snap, aged>>
  BY <1>1 DEF WindowInv, AgeType, AgeInv
<1>2. CASE WorldStep
  <2>1. UNCHANGED <<doneAge, marker, seen, snap, aged>>
    BY <1>2 DEF WorldStep, Finishes, ArrLooks, ArrImports, store, sweep
  <2>2. PICK d \in Downloads : Finishes(d) \/ ArrLooks(d) \/ ArrImports(d)
    BY <1>2 DEF WorldStep
  <2>3. /\ torrent' \in [Downloads -> Torrent] /\ queue' \in [Downloads -> Queue]
        /\ \A e \in Downloads :
             /\ torrent[e] = "done" => torrent'[e] = "done"
             /\ queue'[e] \in {"pending", "warning", "importing"} => torrent'[e] = "done"
    <3>1. CASE Finishes(d)
      BY <3>1 DEF Finishes, AgeType, AgeInv, Torrent
    <3>2. CASE ArrLooks(d) \/ ArrImports(d)
      <4>1. torrent[d] = "done" /\ UNCHANGED torrent
        BY <3>2 DEF ArrLooks, ArrImports, AgeInv
      <4>2. PICK q \in Queue : queue' = [queue EXCEPT ![d] = q]
        BY <3>2 DEF ArrLooks, ArrImports, Queue
      <4>3. QED
        <5>1. queue' \in [Downloads -> Queue] /\ \A e \in Downloads : e # d => queue'[e] = queue[e]
          BY <4>2 DEF AgeType
        <5>2. QED
          BY <4>1, <5>1 DEF AgeType, AgeInv
    <3>3. QED
      BY <2>2, <3>1, <3>2
  <2>4. AgeType'
    BY <2>1, <2>3 DEF AgeType
  <2>5. AgeInv'
    BY <2>1, <2>3 DEF AgeInv
  <2>6. QED
    BY <2>4, <2>5 DEF WindowInv
<1>3. CASE Tick
  <2>1. /\ doneAge' = [d \in Downloads |-> IF torrent[d] = "done" THEN Older(doneAge[d]) ELSE 0]
        /\ seen' = [d \in Downloads |-> IF seen[d].stage = "" THEN seen[d]
                                        ELSE [seen[d] EXCEPT !.age = Older(@)]]
        /\ UNCHANGED <<torrent, queue, marker, snap, aged>>
    BY <1>3 DEF Tick, sweep
  <2>2. ASSUME NEW d \in Downloads
        PROVE  /\ doneAge'[d] = IF torrent[d] = "done" THEN Older(doneAge[d]) ELSE 0
               /\ seen'[d].stage = seen[d].stage
               /\ seen'[d].age = IF seen[d].stage = "" THEN seen[d].age ELSE Older(seen[d].age)
               /\ seen'[d] \in [stage : Stage \union {""}, age : 0..Grace]
    <3>1. seen[d] \in [stage : Stage \union {""}, age : 0..Grace] /\ Older(seen[d].age) \in 0..Grace
      BY AgeElements, OlderKeepsOrder DEF AgeType
    <3>2. seen'[d] = IF seen[d].stage = "" THEN seen[d] ELSE [seen[d] EXCEPT !.age = Older(@)]
      BY <2>1
    <3>3. QED
      BY <2>1, <3>1, <3>2
  <2>3. AgeType'
    <3>1. ASSUME NEW d \in Downloads
          PROVE  doneAge'[d] \in 0..Grace
      <4>1. doneAge[d] \in 0..Grace
        BY AgeElements
      <4>2. Older(doneAge[d]) \in 0..Grace
        BY <4>1, OlderKeepsOrder
      <4>3. 0 \in 0..Grace
        OBVIOUS
      <4>4. QED
        BY <2>2, <4>2, <4>3
    <3>2. QED
      BY <2>1, <2>2, <3>1 DEF AgeType
  <2>4. ASSUME NEW d \in Downloads
        PROVE  /\ torrent[d] # "done" => doneAge'[d] = 0
               /\ seen'[d].stage = "" => seen'[d].age = 0
               /\ seen'[d].age <= doneAge'[d]
               /\ \A c \in Sweepers : aged'[c][d] <= doneAge'[d]
    <3>1. /\ doneAge[d] \in 0..Grace /\ seen[d].age \in 0..Grace
          /\ \A c \in Sweepers : aged[c][d] \in 0..Grace
      BY AgeElements
    <3>2. /\ seen[d].age <= doneAge[d]
          /\ \A c \in Sweepers : aged[c][d] <= doneAge[d] /\ aged'[c][d] = aged[c][d]
          /\ torrent[d] # "done" => doneAge[d] = 0 /\ seen[d].stage = ""
          /\ seen[d].stage = "" => seen[d].age = 0
      BY <2>1 DEF AgeInv
    <3>3. CASE torrent[d] = "done"
      <4>1. doneAge'[d] = Older(doneAge[d]) /\ seen'[d].age \in {seen[d].age, Older(seen[d].age)}
        BY <2>2, <3>3
      <4>2. doneAge[d] <= Older(doneAge[d]) /\ Older(doneAge[d]) \in 0..Grace
        BY <3>1, OlderKeepsOrder
      <4>3. Older(seen[d].age) <= Older(doneAge[d]) /\ Older(seen[d].age) \in 0..Grace
        BY <3>1, <3>2, OlderKeepsOrder
      <4>4. Older(seen[d].age) \in Nat /\ Older(doneAge[d]) \in Nat
        BY <4>2, <4>3
      <4>5. doneAge[d] \in Nat /\ seen[d].age \in Nat /\ \A c \in Sweepers : aged[c][d] \in Nat
        BY AgesAreNumbers
      <4>6. /\ seen[d].age <= doneAge[d]
            /\ \A c \in Sweepers : aged[c][d] <= doneAge[d] /\ aged'[c][d] = aged[c][d]
        BY <3>2
      <4>7. seen'[d].age <= doneAge'[d]
        BY <4>1, <4>2, <4>3, <4>4, <4>5, <4>6
      <4>8. \A c \in Sweepers : aged'[c][d] <= doneAge'[d]
        BY <4>1, <4>2, <4>4, <4>5, <4>6
      <4>9. seen'[d].stage = "" => seen'[d].age = 0
        BY <2>2, <3>2
      <4>10. QED
        BY <3>3, <4>7, <4>8, <4>9
    <3>4. CASE torrent[d] # "done"
      <4>1. \A c \in Sweepers : aged[c][d] \in Nat
        BY AgesAreNumbers
      <4>2. QED
        BY <2>2, <3>2, <3>4, <4>1
    <3>5. QED
      BY <3>3, <3>4
  <2>5. AgeInv'
    <3>1. \A d \in Downloads : seen'[d].stage = seen[d].stage
      BY <2>2
    <3>2. QED
      BY <2>1, <2>4, <3>1 DEF AgeInv
  <2>6. QED
    BY <2>3, <2>5 DEF WindowInv
<1>4. ASSUME NEW c \in Sweepers, NEW mode \in BOOLEAN, Start(c, mode)
      PROVE  WindowInv'
  <2>1. /\ UNCHANGED <<torrent, queue, doneAge, marker, seen, snap>>
        /\ aged' = [aged EXCEPT ![c] = [d \in Downloads |-> seen[d].age]]
    BY <1>4 DEF Start, world, store
  <2>2. QED
    BY <2>1 DEF WindowInv, AgeType, AgeInv
<1>5. CASE Crash
  <2>1. /\ UNCHANGED <<torrent, queue, doneAge, marker, seen>>
        /\ snap' = [c \in Sweepers |-> Nothing] /\ aged' = [c \in Sweepers |-> Young]
    BY <1>5 DEF Crash, world, store
  <2>2. Nothing \in [Downloads -> Shown] /\ Young \in [Downloads -> 0..Grace]
    BY DEF Nothing, NoTrace, Shown, Stage, Young
  <2>3. \A d \in Downloads : Nothing[d].stage = "sent" /\ ~Nothing[d].warning /\ Young[d] = 0
    BY DEF Nothing, NoTrace, Young
  <2>4. QED
    <3>1. AgeType'
      BY <2>1, <2>2 DEF AgeType
    <3>2. \A d \in Downloads : doneAge[d] \in 0..Grace
      BY AgeElements
    <3>3. \A c \in Sweepers : snap'[c] = Nothing /\ aged'[c] = Young
      BY <2>1
    <3>4. AgeInv'
      <4> SUFFICES ASSUME NEW d \in Downloads, NEW c \in Sweepers
                   PROVE  /\ snap'[c][d].stage \in {"import_blocked", "downloaded"} => torrent[d] = "done"
                          /\ snap'[c][d].warning => snap'[c][d].stage = "import_blocked"
                          /\ aged'[c][d] <= doneAge[d]
        BY <2>1 DEF AgeInv
      <4>1. QED
        BY <2>3, <3>2, <3>3
    <3>5. QED
      BY <3>1, <3>4 DEF WindowInv
<1>6. ASSUME NEW c \in Sweepers, SweepStep(c)
      PROVE  WindowInv'
  <2>1. CASE ReadQueues(c)
    <3>1. UNCHANGED <<torrent, queue, doneAge, marker, seen, aged>>
      BY <2>1 DEF ReadQueues, world, store
    <3>2. CASE UNCHANGED snap
      BY <1>1, <3>1, <3>2
    <3>3. CASE snap' = [snap EXCEPT ![c] = [d \in Downloads |-> Trace("absent", queue[d])]]
      <4>1. "absent" \in Torrent /\ \A d \in Downloads : queue[d] \in Queue
        BY DEF AgeType, Torrent
      <4>2. \A d \in Downloads :
              /\ Trace("absent", queue[d]) \in Shown
              /\ Trace("absent", queue[d]).stage \in {"import_blocked", "downloaded"} => torrent[d] = "done"
              /\ Trace("absent", queue[d]).warning => Trace("absent", queue[d]).stage = "import_blocked"
        BY <4>1, TraceShape DEF AgeInv
      <4>3. AgeType'
        BY <3>1, <3>3, <4>2 DEF AgeType
      <4>4. AgeInv'
        BY <3>1, <3>3, <4>2 DEF AgeType, AgeInv
      <4>5. QED
        BY <4>3, <4>4 DEF WindowInv
    <3>4. QED
      BY <2>1, <3>2, <3>3 DEF ReadQueues
  <2>2. CASE ReadTorrents(c)
    <3>1. UNCHANGED <<torrent, queue, doneAge, marker, seen, aged>>
      BY <2>2 DEF ReadTorrents, world, store
    <3>2. CASE UNCHANGED snap
      BY <1>1, <3>1, <3>2
    <3>3. CASE snap' = [snap EXCEPT ![c] = [d \in Downloads |-> Joined(snap[c][d], torrent[d])]]
      <4>1. \A d \in Downloads : torrent[d] \in Torrent /\ snap[c][d] \in Shown
        BY AgeElements
      <4>2. \A d \in Downloads :
              /\ Joined(snap[c][d], torrent[d]) \in Shown
              /\ Joined(snap[c][d], torrent[d]).stage \in {"import_blocked", "downloaded"} => torrent[d] = "done"
              /\ Joined(snap[c][d], torrent[d]).warning => Joined(snap[c][d], torrent[d]).stage = "import_blocked"
        BY <4>1, JoinedShape DEF AgeInv
      <4>3. AgeType'
        BY <3>1, <3>3, <4>2 DEF AgeType
      <4>4. AgeInv'
        BY <3>1, <3>3, <4>2 DEF AgeType, AgeInv
      <4>5. QED
        BY <4>3, <4>4 DEF WindowInv
    <3>4. QED
      BY <2>2, <3>2, <3>3 DEF ReadTorrents
  <2>3. CASE TracesFail(c) \/ SweepEnds(c)
    BY <2>3, IdleForgets DEF TracesFail, SweepEnds, Finish, world, store
  <2>4. ASSUME NEW d \in Downloads, JudgeAtOnce(c, d)
        PROVE  WindowInv'
    BY <2>4, VerdictAges DEF JudgeAtOnce, Handled, world
  <2>5. ASSUME NEW d \in Downloads, Probed(c, d)
        PROVE  WindowInv'
    <3>1. /\ UNCHANGED <<torrent, queue, doneAge, snap, aged>>
          /\ \E h \in {"yes", "no", "unknown"} : Outcome(c, d, FALSE, h)
      BY <2>5 DEF Probed, world
    <3>2. QED
      BY <3>1, VerdictAges
  <2>6. ASSUME NEW d \in Downloads, Judge(c, d) \/ BadTrace(c, d) \/ ReadRoots(c)
        PROVE  WindowInv'
    BY <1>1, <2>6 DEF Judge, BadTrace, NoWrite, ReadRoots, world, store
  <2>7. CASE ReadRoots(c)
    BY <1>1, <2>7 DEF ReadRoots, world, store
  <2>8. QED
    BY <1>6, <2>1, <2>2, <2>3, <2>4, <2>5, <2>6, <2>7 DEF SweepStep
<1>7. ASSUME NEW c \in Sweepers, DispatchStep(c)
      PROVE  WindowInv'
  <2>1. /\ UNCHANGED <<torrent, doneAge, seen, snap, aged>>
        /\ queue' = queue \/ \E d : queue' = [queue EXCEPT ![d] = "out"]
        /\ marker' = marker \/ \E d : marker' = [marker EXCEPT ![d] = "failed"]
    BY <1>7 DEF DispatchStep, DispatchFails, Removed, RemovalUnheard, RootFound, Spawn, Failed,
       WriteMarker, world, store
  <2>2. AgeType'
    BY <2>1 DEF AgeType, Queue, Marker
  <2>3. AgeInv'
    BY <2>1 DEF AgeType, AgeInv
  <2>4. QED
    BY <2>2, <2>3 DEF WindowInv
<1>8. CopyOver \/ UNCHANGED vars => UNCHANGED <<torrent, queue, doneAge, marker, seen, snap, aged>>
  BY DEF CopyOver, vars, world, store, sweep
<1>9. QED
  BY <1>1, <1>2, <1>3, <1>4, <1>5, <1>6, <1>7, <1>8 DEF Next

\* It holds when the process starts for the first time.
LEMMA WindowInit == Init => WindowInv
<1> SUFFICES ASSUME Init PROVE WindowInv
  OBVIOUS
<1>1. \A d \in Downloads : Nothing[d] \in Shown /\ Nothing[d].stage = "sent" /\ ~Nothing[d].warning
  BY DEF Nothing, NoTrace, Shown, Stage
<1>2. Nothing \in [Downloads -> Shown] /\ Young \in [Downloads -> 0..Grace]
  BY ACAssumption DEF Nothing, NoTrace, Shown, Stage, Young
<1>3. \A d \in Downloads : torrent[d] = "downloading" /\ queue[d] \in {"out", "tracked"}
  BY DEF Init
<1>4. AgeType
  BY <1>2, ACAssumption DEF Init, AgeType, Torrent, Queue, Marker, Young
<1>5. AgeInv
  <2>1. \A d \in Downloads : seen[d].stage = "" /\ seen[d].age = 0 /\ doneAge[d] = 0
    BY DEF Init, Young
  <2>2. ASSUME NEW d \in Downloads, NEW c \in Sweepers
        PROVE  snap[c][d] = Nothing[d] /\ aged[c][d] = 0
    <3>1. snap[c] = Nothing /\ aged[c] = Young
      BY DEF Init
    <3>2. QED
      BY <3>1 DEF Young
  <2>3. ASSUME NEW d \in Downloads
        PROVE  seen[d].age <= doneAge[d] /\ \A c \in Sweepers : aged[c][d] <= doneAge[d]
    <3>1. seen[d].age = 0 /\ doneAge[d] = 0 /\ \A c \in Sweepers : aged[c][d] = 0
      BY <2>1, <2>2
    <3>2. QED
      BY <3>1
  <2>4. ASSUME NEW d \in Downloads, NEW c \in Sweepers
        PROVE  snap[c][d].stage = "sent" /\ ~snap[c][d].warning
    BY <1>1, <2>2
  <2>5. QED
    BY <1>3, <2>1, <2>3, <2>4 DEF AgeInv
<1>6. QED
  BY <1>4, <1>5 DEF WindowInv

Claims(d) == marker'[d] = "copy" /\ marker[d] # "copy"
HadItsChance(d) ==
  \/ doneAge[d] = Grace \/ OwnRow(d).direct
  \/ \E c \in Sweepers : pc[c] \in {"loop", "probe"} /\ snap[c][d].warning

\* A verdict to copy is a warning, a grab the arr never had, or a window that is over.
LEMMA CopyIsDue ==
  ASSUME WindowInv, NEW c \in Sweepers, NEW d \in Downloads, pc[c] \in {"loop", "probe"},
         NEW handled \in BOOLEAN, NEW hasFile, Decision(c, d, handled, hasFile) = "copy"
  PROVE  HadItsChance(d)
<1>1. \/ snap[c][d].warning
      \/ GraceGate(Elapsed(c, d), hasFile, Foreign(c, d), OwnRow(d).direct) = "copy"
  BY DEF Decision, DecideCopy
<1>2. GraceGate(Elapsed(c, d), hasFile, Foreign(c, d), OwnRow(d).direct) = "copy"
        => OwnRow(d).direct \/ Elapsed(c, d)
  BY DEF GraceGate
<1>3. Elapsed(c, d) => doneAge[d] = Grace
  <2>1. Elapsed(c, d) => aged[c][d] = Grace
    BY DEF Elapsed
  <2>2. aged[c][d] <= doneAge[d]
    BY DEF WindowInv, AgeInv
  <2>3. doneAge[d] \in 0..Grace
    BY AgeElements DEF WindowInv
  <2>4. QED
    BY <2>1, <2>2, <2>3, ACAssumption
<1>4. QED
  BY <1>1, <1>2, <1>3 DEF HadItsChance

\* Only a verdict to copy claims a download.
LEMMA ClaimIsVerdict ==
  ASSUME WindowInv, NEW c \in Sweepers, NEW d \in Downloads, NEW handled \in BOOLEAN, NEW hasFile,
         Outcome(c, d, handled, hasFile), NEW e \in Downloads, Claims(e)
  PROVE  e = d /\ Decision(c, d, handled, hasFile) = "copy"
<1>1. marker \in [Downloads -> Marker]
  BY DEF WindowInv, AgeType
<1>2. CASE Decision(c, d, handled, hasFile) # "copy"
  BY <1>2 DEF Outcome, NoWrite, Claims
<1>3. CASE Decision(c, d, handled, hasFile) = "copy"
  BY <1>1, <1>3 DEF Outcome, Act, WriteMarker, Claims
<1>4. QED
  BY <1>2, <1>3

LEMMA ChanceStep == WindowInv /\ [Next]_vars => \A d \in Downloads : Claims(d) => HadItsChance(d)
<1> SUFFICES ASSUME WindowInv, [Next]_vars, NEW e \in Downloads, Claims(e) PROVE HadItsChance(e)
  OBVIOUS
<1>1. ASSUME UNCHANGED marker PROVE FALSE
  BY <1>1 DEF Claims
<1>2. ASSUME NEW c \in Sweepers, SweepStep(c)
      PROVE  HadItsChance(e)
  <2>1. ASSUME NEW d \in Downloads, JudgeAtOnce(c, d)
        PROVE  HadItsChance(e)
    <3>1. pc[c] = "loop" /\ Outcome(c, d, Handled(d), "unknown") /\ Handled(d) \in BOOLEAN
      BY <2>1 DEF JudgeAtOnce, Handled
    <3>2. QED
      BY <3>1, ClaimIsVerdict, CopyIsDue
  <2>2. ASSUME NEW d \in Downloads, Probed(c, d)
        PROVE  HadItsChance(e)
    <3> DEFINE handled == FALSE
    <3>1. PICK h \in {"yes", "no", "unknown"} : pc[c] = "probe" /\ Outcome(c, d, handled, h)
      BY <2>2 DEF Probed
    <3>2. handled \in BOOLEAN
      OBVIOUS
    <3> HIDE DEF handled
    <3>3. e = d /\ Decision(c, d, handled, h) = "copy"
      BY <3>1, <3>2, ClaimIsVerdict
    <3>4. QED
      BY <3>1, <3>2, <3>3, CopyIsDue
  <2>3. QED
    BY <1>1, <1>2, <2>1, <2>2 DEF SweepStep, ReadQueues, ReadTorrents, TracesFail, ReadRoots,
       SweepEnds, Judge, BadTrace, NoWrite, store
<1>3. ASSUME NEW c \in Sweepers, DispatchStep(c)
      PROVE  FALSE
  <2>1. marker' = marker \/ \E d : marker' = [marker EXCEPT ![d] = "failed"]
    BY <1>3 DEF DispatchStep, DispatchFails, Removed, RemovalUnheard, RootFound, Spawn, Failed,
       WriteMarker, store
  <2>2. QED
    BY <2>1 DEF Claims, WindowInv, AgeType
<1>4. QED
  BY <1>1, <1>2, <1>3 DEF Next, WorldStep, Tick, CopyOver, Crash, Start, vars, store

\* The sweep never claims a download the arr may still be about to import: for any
\* grace window, however the sweeps, the arr and the client interleave.
THEOREM ArrKeepsItsChance == Spec => ArrHadItsChance
<1>1. (\A d \in Downloads : Claims(d) => HadItsChance(d))
        => \A d \in Downloads :
             marker'[d] = "copy" /\ marker[d] # "copy" =>
               \/ doneAge[d] = Grace \/ OwnRow(d).direct
               \/ \E c \in Sweepers : pc[c] \in {"loop", "probe"} /\ snap[c][d].warning
  BY DEF Claims, HadItsChance
<1>2. QED
  BY <1>1, WindowInit, WindowStep, ChanceStep, PTL DEF Spec, ArrHadItsChance

-----------------------------------------------------------------------------
\* The sweep and the arr.

\* No download is taken for another's grab: title and date tell them apart.
OwnRowsAreOwn ==
  \A p \in Plans, d \in Downloads :
    FindOwnGrab(p[d].title, p[d].date, {p[e] : e \in {x \in Downloads : p[x].own}}, NoRow)
      \in {p[d], NoRow}

RestType ==
  /\ running \subseteq Downloads \X Places
  /\ plan \in Plans
  /\ arrHas \in [Downloads -> BOOLEAN]
  /\ safe \in [Sweepers -> BOOLEAN]
  /\ roots \in [Sweepers -> BOOLEAN]
  /\ left \in [Sweepers -> SUBSET Downloads]
  /\ misses \in Nat /\ crashes \in Nat

\* A folder outside the library is copied to only when the entry is gone.
DetachInv ==
  \A d \in Downloads :
    /\ plan[d].direct => queue[d] = "out"
    /\ <<d, "foreign">> \in running => queue[d] = "out"
    /\ \A c \in Sweepers :
         cur[c] = d =>
           /\ pc[c] = "names" /\ OwnRow(d).dest = "foreign" => queue[d] = "out"
           /\ pc[c] = "root" => OwnRow(d).dest = "library"

LEMMA RowOfOwn ==
  ASSUME OwnRowsAreOwn, RestType, NEW d \in Downloads
  PROVE  OwnRow(d) \in {plan[d], NoRow} /\ OwnRow(d).dest \in Places
<1>1. OwnRow(d) \in {plan[d], NoRow}
  BY DEF OwnRowsAreOwn, OwnRow, Rows, RestType
<1>2. plan[d] \in Plan
  BY ACAssumption DEF RestType
<1>3. plan[d].dest \in Places
  BY <1>2 DEF Plan
<1>4. NoRow.dest \in Places
  BY DEF NoRow, Places
<1>5. QED
  BY <1>1, <1>3, <1>4

LEMMA RowStays == UNCHANGED plan => \A d \in Downloads : OwnRow(d)' = OwnRow(d)
BY DEF OwnRow, Rows

\* The entry of a download, once gone, does not come back.
LEMMA OutStays ==
  ASSUME AgeType, [Next]_vars, NEW d \in Downloads, queue[d] = "out"
  PROVE  queue'[d] = "out"
<1>1. queue \in [Downloads -> Queue]
  BY DEF AgeType
<1>2. CASE UNCHANGED queue
  BY <1>2
<1>3. CASE WorldStep
  <2>1. PICK e \in Downloads : Finishes(e) \/ ArrLooks(e) \/ ArrImports(e)
    BY <1>3 DEF WorldStep
  <2>2. UNCHANGED queue \/ (queue[e] # "out" /\ \E q : queue' = [queue EXCEPT ![e] = q])
    BY <2>1 DEF Finishes, ArrLooks, ArrImports
  <2>3. QED
    BY <1>1, <2>2
<1>4. ASSUME NEW c \in Sweepers, DispatchStep(c)
      PROVE  queue'[d] = "out"
  <2>1. UNCHANGED queue \/ \E e : queue' = [queue EXCEPT ![e] = "out"]
    BY <1>4 DEF DispatchStep, DispatchFails, Removed, RemovalUnheard, RootFound, Spawn, world
  <2>2. QED
    BY <1>1, <2>1
<1>5. ASSUME NEW c \in Sweepers, SweepStep(c)
      PROVE  UNCHANGED queue
  BY <1>5 DEF SweepStep, ReadQueues, ReadTorrents, TracesFail, ReadRoots, SweepEnds, Judge,
     JudgeAtOnce, Probed, BadTrace, world
<1>6. QED
  BY <1>2, <1>3, <1>4, <1>5 DEF Next, Tick, CopyOver, Crash, Start, vars, world

LEMMA RestStep ==
  ASSUME OwnRowsAreOwn, AccountInv, WindowInv, RestType, [Next]_vars
  PROVE  RestType'
<1> USE DEF RestType
<1>1. CASE UNCHANGED <<running, plan, arrHas, safe, roots, left, misses, crashes>>
  BY <1>1
<1>2. CASE WorldStep
  BY <1>2 DEF WorldStep, Finishes, ArrLooks, ArrImports, sweep
<1>3. CASE Tick \/ CopyOver
  BY <1>3 DEF Tick, CopyOver, world, sweep
<1>4. CASE Crash
  BY <1>4 DEF Crash, world
<1>5. ASSUME NEW c \in Sweepers, NEW mode \in BOOLEAN, Start(c, mode)
      PROVE  RestType'
  BY <1>5 DEF Start, world
<1>6. ASSUME NEW c \in Sweepers, SweepStep(c)
      PROVE  RestType'
  <2>1. misses' \in Nat /\ UNCHANGED <<running, plan, arrHas, crashes>>
    <3>1. UNCHANGED misses \/ Missed
      BY <1>6 DEF SweepStep, ReadQueues, ReadTorrents, TracesFail, ReadRoots, SweepEnds, Judge,
         JudgeAtOnce, Probed, BadTrace, Answered
    <3>2. misses' \in Nat
      BY <3>1 DEF Missed
    <3>3. UNCHANGED <<running, plan, arrHas, crashes>>
      BY <1>6 DEF SweepStep, ReadQueues, ReadTorrents, TracesFail, ReadRoots, SweepEnds, Judge,
         JudgeAtOnce, Probed, BadTrace, world
    <3>4. QED
      BY <3>2, <3>3
  <2>2. /\ UNCHANGED safe \/ safe' = [safe EXCEPT ![c] = FALSE]
        /\ UNCHANGED roots \/ \E b \in BOOLEAN : roots' = [roots EXCEPT ![c] = b]
    BY <1>6 DEF SweepStep, ReadQueues, ReadTorrents, TracesFail, ReadRoots, SweepEnds, Judge,
       JudgeAtOnce, Probed, BadTrace, Finish, GoIdle
  <2>3. UNCHANGED left \/ \E new \in SUBSET Downloads : left' = [left EXCEPT ![c] = new]
    <3>1. ASSUME NEW d \in Downloads, Next1(c, d)
          PROVE  \E new \in SUBSET Downloads : left' = [left EXCEPT ![c] = new]
      BY <3>1 DEF Next1
    <3>2. ASSUME NEW d \in Downloads, NEW handled, NEW hasFile, Outcome(c, d, handled, hasFile)
          PROVE  UNCHANGED left \/ Next1(c, d)
      BY <3>2 DEF Outcome, Act
    <3>3. ASSUME NEW d \in Downloads, JudgeAtOnce(c, d) \/ Probed(c, d) \/ BadTrace(c, d)
          PROVE  UNCHANGED left \/ Next1(c, d)
      BY <3>2, <3>3 DEF JudgeAtOnce, Probed, BadTrace
    <3>4. QED
      BY <1>6, <3>1, <3>3 DEF SweepStep, ReadQueues, ReadTorrents, TracesFail, ReadRoots, SweepEnds,
         Judge, Finish, GoIdle
  <2>4. QED
    BY <2>1, <2>2, <2>3
<1>7. ASSUME NEW c \in Sweepers, DispatchStep(c)
      PROVE  RestType'
  <2>1. cur[c] \in Downloads
    BY <1>7 DEF DispatchStep, DispatchFails, Removed, RemovalUnheard, RootFound, Spawn, AccountInv,
       AccountType, LockInv, Dispatching
  <2>2. misses' \in Nat /\ UNCHANGED <<plan, arrHas, safe, roots, crashes>>
    BY <1>7 DEF DispatchStep, DispatchFails, Removed, RemovalUnheard, RootFound, Spawn, Missed, world
  <2>3. UNCHANGED running \/ running' = running \union {<<cur[c], OwnRow(cur[c]).dest>>}
    BY <1>7 DEF DispatchStep, DispatchFails, Removed, RemovalUnheard, RootFound, Spawn
  <2>4. OwnRow(cur[c]).dest \in Places
    BY <2>1, RowOfOwn
  <2>5. UNCHANGED left \/ left' = [left EXCEPT ![c] = @ \ {cur[c]}]
    BY <1>7 DEF DispatchStep, DispatchFails, Removed, RemovalUnheard, RootFound, Spawn, Failed, Next1
  <2>6. QED
    BY <2>1, <2>2, <2>3, <2>4, <2>5
<1>8. QED
  BY <1>1, <1>2, <1>3, <1>4, <1>5, <1>6, <1>7 DEF Next, vars, world, sweep

LEMMA DetachStep ==
  ASSUME OwnRowsAreOwn, AccountInv, WindowInv, RestType, DetachInv, [Next]_vars
  PROVE  DetachInv'
<1>1. /\ AccountType /\ LockInv /\ AgeType
  BY DEF AccountInv, WindowInv
<1>2. UNCHANGED plan
  BY DEF Next, WorldStep, Finishes, ArrLooks, ArrImports, Tick, CopyOver, Crash, Start, SweepStep,
     ReadQueues, ReadTorrents, TracesFail, ReadRoots, SweepEnds, Judge, JudgeAtOnce, Probed,
     BadTrace, DispatchStep, DispatchFails, Removed, RemovalUnheard, RootFound, Spawn, vars, world
<1> SUFFICES ASSUME NEW d \in Downloads
             PROVE  /\ plan[d].direct => queue'[d] = "out"
                    /\ <<d, "foreign">> \in running' => queue'[d] = "out"
                    /\ \A c \in Sweepers :
                         cur'[c] = d =>
                           /\ pc'[c] = "names" /\ OwnRow(d).dest = "foreign" => queue'[d] = "out"
                           /\ pc'[c] = "root" => OwnRow(d).dest = "library"
  <2>1. \A d \in Downloads : OwnRow(d)' = OwnRow(d)
    BY <1>2, RowStays
  <2>2. QED
    BY <1>2, <2>1 DEF DetachInv
<1>3. queue[d] = "out" => queue'[d] = "out"
  BY <1>1, OutStays
<1>4. plan[d].direct => queue'[d] = "out"
  BY <1>3 DEF DetachInv
<1>5. <<d, "foreign">> \in running' => queue'[d] = "out"
  <2>1. CASE running' \subseteq running
    BY <1>3, <2>1 DEF DetachInv
  <2>2. ASSUME NEW c \in Sweepers, Spawn(c), <<d, "foreign">> \in running', <<d, "foreign">> \notin running
        PROVE  queue[d] = "out"
    <3>1. pc[c] = "names" /\ cur[c] = d /\ OwnRow(d).dest = "foreign"
      BY <2>2 DEF Spawn
    <3>2. QED
      BY <3>1 DEF DetachInv
  <2>3. running' \subseteq running \/ \E c \in Sweepers : Spawn(c)
    BY DEF Next, WorldStep, Tick, CopyOver, Crash, Start, SweepStep, ReadQueues, ReadTorrents,
       TracesFail, ReadRoots, SweepEnds, Judge, JudgeAtOnce, Probed, BadTrace, DispatchStep,
       DispatchFails, Removed, RemovalUnheard, RootFound, vars
  <2>4. QED
    BY <1>3, <2>1, <2>2, <2>3 DEF DetachInv
<1>6. ASSUME NEW c \in Sweepers, cur'[c] = d, pc'[c] \in {"names", "root"}
      PROVE  /\ pc'[c] = "names" /\ OwnRow(d).dest = "foreign" => queue'[d] = "out"
             /\ pc'[c] = "root" => OwnRow(d).dest = "library"
  <2>1. CASE pc'[c] = pc[c] /\ cur'[c] = cur[c]
    BY <1>3, <1>6, <2>1 DEF DetachInv
  <2>2. ASSUME NEW b \in Sweepers, NEW e \in Downloads, NEW handled \in BOOLEAN, NEW hasFile,
               Outcome(b, e, handled, hasFile), ~(pc'[c] = pc[c] /\ cur'[c] = cur[c])
        PROVE  /\ pc'[c] = "names" /\ OwnRow(d).dest = "foreign" => queue[d] = "out"
               /\ pc'[c] = "root" => OwnRow(d).dest = "library"
    <3>1. b = c /\ e = d /\ pc'[c] = Route(d, snap[b][d])
      BY <1>1, <1>6, <2>2 DEF Outcome, Act, Next1, AccountType
    <3>2. pc'[c] = "root" => OwnRow(d).dest = "library"
      BY <3>1 DEF Route
    <3>3. pc'[c] = "names" => OwnRow(d).direct
      BY <3>1 DEF Route
    <3>4. OwnRow(d).direct => plan[d].direct
      BY RowOfOwn DEF NoRow
    <3>5. QED
      BY <3>2, <3>3, <3>4 DEF DetachInv
  <2>3. ASSUME NEW b \in Sweepers, DispatchStep(b), ~(pc'[c] = pc[c] /\ cur'[c] = cur[c])
        PROVE  /\ pc'[c] = "names" /\ OwnRow(d).dest = "foreign" => queue'[d] = "out"
               /\ pc'[c] = "root" => OwnRow(d).dest = "library"
    <3>1. CASE Removed(b)
      <4>1. b = c /\ cur[c] = d /\ pc'[c] = "names" /\ queue' = [queue EXCEPT ![cur[b]] = "out"]
        BY <1>1, <1>6, <2>3, <3>1 DEF Removed, AccountType
      <4>2. QED
        BY <1>1, <4>1 DEF AgeType
    <3>2. CASE RootFound(b)
      <4>1. b = c /\ cur[c] = d /\ pc[c] = "root" /\ pc'[c] = "names"
        BY <1>1, <1>6, <2>3, <3>2 DEF RootFound, AccountType
      <4>2. QED
        BY <4>1 DEF DetachInv
    <3>3. CASE DispatchFails(b) \/ RemovalUnheard(b) \/ Spawn(b)
      BY <1>1, <1>6, <2>3, <3>3 DEF DispatchFails, RemovalUnheard, Spawn, Failed, Next1, AccountType
    <3>4. QED
      BY <2>3, <3>1, <3>2, <3>3 DEF DispatchStep
  <2>4. ASSUME NEW b \in Sweepers, SweepStep(b), ~(pc'[c] = pc[c] /\ cur'[c] = cur[c])
        PROVE  \E e \in Downloads, handled \in BOOLEAN, h \in {"yes", "no", "unknown"} :
                 Outcome(b, e, handled, h)
    <3>1. ASSUME NEW e \in Downloads, JudgeAtOnce(b, e)
          PROVE  \E handled \in BOOLEAN, h \in {"yes", "no", "unknown"} : Outcome(b, e, handled, h)
      BY <3>1 DEF JudgeAtOnce, Handled
    <3>2. ASSUME NEW e \in Downloads, Probed(b, e)
          PROVE  \E handled \in BOOLEAN, h \in {"yes", "no", "unknown"} : Outcome(b, e, handled, h)
      BY <3>2 DEF Probed
    <3>3. ASSUME NEW e \in Downloads, Judge(b, e) \/ BadTrace(b, e)
          PROVE  FALSE
      BY <1>1, <1>6, <2>4, <3>3 DEF Judge, BadTrace, Next1, AccountType
    <3>4. CASE ReadQueues(b) \/ ReadTorrents(b) \/ ReadRoots(b) \/ TracesFail(b) \/ SweepEnds(b)
      BY <1>1, <1>6, <2>4, <3>4 DEF ReadQueues, ReadTorrents, ReadRoots, TracesFail, SweepEnds, Finish,
         GoIdle, AccountType
    <3>5. QED
      BY <2>4, <3>1, <3>2, <3>3, <3>4 DEF SweepStep
  <2>5. ASSUME NEW b \in Sweepers, NEW mode \in BOOLEAN, Start(b, mode)
        PROVE  pc'[c] = pc[c] /\ cur'[c] = cur[c]
    BY <1>1, <1>6, <2>5 DEF Start, AccountType
  <2>6. CASE WorldStep \/ Tick \/ CopyOver \/ UNCHANGED vars
    BY <2>1, <2>6 DEF WorldStep, Tick, CopyOver, vars, sweep
  <2>7. ~Crash
    BY <1>6 DEF Crash
  <2>8. QED
    BY <1>3, <2>1, <2>2, <2>3, <2>4, <2>5, <2>6, <2>7 DEF Next
<1>7. QED
  BY <1>4, <1>5, <1>6

\* Over any folder outside the library, the arr and a copy never have the same
\* download in hand, as long as no download is taken for another's grab.
THEOREM NeverBothInHand ==
  ASSUME OwnRowsAreOwn
  PROVE  Spec => []NotBothAtOnce
<1> DEFINE Inv == AccountInv /\ WindowInv /\ RestType /\ DetachInv
<1>1. Init => Inv
  <2> SUFFICES ASSUME Init PROVE RestType /\ DetachInv
    BY AccountInit, WindowInit
  <2>1. RestType
    BY DEF Init, RestType
  <2>2. DetachInv
    BY DEF Init, DetachInv
  <2>3. QED
    BY <2>1, <2>2
<1>2. Inv /\ [Next]_vars => Inv'
  BY AccountStep, WindowStep, RestStep, DetachStep
<1>3. Inv => NotBothAtOnce
  <2>1. AccountInv /\ WindowInv /\ RestType => TypeOK
    BY ACAssumption DEF AccountInv, AccountType, WindowInv, AgeType, RestType, TypeOK, Shown
  <2>2. DetachInv => ForeignIsDetached
    BY DEF DetachInv, ForeignIsDetached
  <2>3. QED
    BY <2>1, <2>2 DEF NotBothAtOnce
<1> HIDE DEF Inv
<1>4. QED
  BY <1>1, <1>2, <1>3, PTL DEF Spec
=============================================================================
