------------------------------ MODULE AutoCopy ------------------------------
(***************************************************************************)
(* The auto-copy sweep (application/use_cases/sweep_downloads.py,          *)
(* auto_copy_driver.py): a sweep reads the traces, judges each one with    *)
(* CopyPolicy, writes its claim to the store and only then dispatches      *)
(* copy_files (copy_engine.do_action), which ends with a background copy   *)
(* (module CopyTask; here it runs, and some day is over).                  *)
(* Sweeps are started by the operator and by the timer.  The client, the   *)
(* arr and the settings change between any two awaits, every question may  *)
(* go unanswered, a write to the store may fail (it is logged and          *)
(* swallowed), and the process may restart.                                *)
(*                                                                         *)
(* Times are ages that stop at Grace.  The registry of own grabs is read   *)
(* through rows that do not change: a sweep looks 30 days back.            *)
(***************************************************************************)
EXTENDS CopyPolicy, FiniteSets

CONSTANTS
  Downloads,      \* what the app or somebody else grabbed
  NoDownload,
  Sweepers,       \* who can start a sweep: POST /api/auto-copy/sweep, sweep_loop
  Plans,          \* plans[d]: how d was grabbed, see Plan
  Grace,          \* the grace window
  MaxMisses,      \* bound: questions that go unanswered
  MaxLost,        \* bound: writes to the store that fail
  MaxCrashes      \* bound: restarts

\* A grab: own (this app launched it), its title, when, when the arr dates
\* it, where the operator wants it, and whether it was added to the client
\* behind the arr's back.
Places == {"library", "foreign"}
Plan == [own : BOOLEAN, title : {"movie", "other"}, at : Int, date : Int,
         dest : Places, direct : BOOLEAN]

ASSUME ACAssumption ==
  /\ Grace \in Nat \ {0} /\ MaxMisses \in Nat /\ MaxLost \in Nat /\ MaxCrashes \in Nat
  /\ NoDownload \notin Sweepers \union Downloads
  /\ Plans \subseteq [Downloads -> Plan]

VARIABLES
  plan,                             \* never changes
  torrent, queue, arrHas,           \* the client, the arr's queue, its library
  doneAge,                          \* how long the torrent has been done
  marker, seen,                     \* auto_copy_handled, auto_copy_seen
  running,                          \* the background copies: <<download, place>>
  lock,                             \* who holds _sweep_lock
  pc, safe, snap, aged, roots, left, cur,  \* where each caller is, and what it read
  autos, lost, misses, crashes      \* history and bounds

world == <<plan, torrent, queue, arrHas, doneAge>>
store == <<marker, seen>>
sweep == <<pc, safe, snap, aged, roots, left, cur>>
vars == <<running, world, store, lock, sweep, autos, lost, misses, crashes>>

-----------------------------------------------------------------------------
Marker  == {"none", "proposed", "failed", "copy"}
NoTrace == [stage |-> "sent", warning |-> FALSE, queued |-> FALSE, path |-> FALSE]
Nothing == [d \in Downloads |-> NoTrace]
Young   == [d \in Downloads |-> 0]
PCs == {"idle", "queues", "torrents", "roots", "loop", "probe", "removal", "root", "names"}

TypeOK ==
  /\ running \subseteq Downloads \X Places
  /\ plan \in [Downloads -> Plan]
  /\ torrent \in [Downloads -> Torrent]
  /\ queue \in [Downloads -> Queue]
  /\ arrHas \in [Downloads -> BOOLEAN]
  /\ doneAge \in [Downloads -> 0..Grace]
  /\ marker \in [Downloads -> Marker]
  /\ seen \in [Downloads -> [stage : Stage \union {""}, age : 0..Grace]]
  /\ lock \in Sweepers \union {NoDownload}
  /\ pc \in [Sweepers -> PCs]
  /\ safe \in [Sweepers -> BOOLEAN]
  /\ snap \in [Sweepers -> [Downloads -> [stage : Stage, warning : BOOLEAN,
                                         queued : BOOLEAN, path : BOOLEAN]]]
  /\ aged \in [Sweepers -> [Downloads -> 0..Grace]]
  /\ roots \in [Sweepers -> BOOLEAN]
  /\ left \in [Sweepers -> SUBSET Downloads]
  /\ cur \in [Sweepers -> Downloads \union {NoDownload}]
  /\ autos \in [Downloads -> Nat]
  /\ lost \in [Downloads -> Nat]
  /\ misses \in Nat /\ crashes \in Nat

Init ==
  /\ running = {}
  /\ plan \in Plans
  /\ torrent = [d \in Downloads |-> "downloading"]
  /\ queue = [d \in Downloads |-> IF plan[d].direct THEN "out" ELSE "tracked"]
  /\ arrHas \in [Downloads -> BOOLEAN]
  /\ doneAge = Young
  /\ marker = [d \in Downloads |-> "none"]
  /\ seen = [d \in Downloads |-> [stage |-> "", age |-> 0]]
  /\ lock = NoDownload
  /\ pc = [c \in Sweepers |-> "idle"]
  /\ safe = [c \in Sweepers |-> FALSE]
  /\ snap = [c \in Sweepers |-> Nothing]
  /\ aged = [c \in Sweepers |-> Young]
  /\ roots = [c \in Sweepers |-> FALSE]
  /\ left = [c \in Sweepers |-> {}]
  /\ cur = [c \in Sweepers |-> NoDownload]
  /\ autos = [d \in Downloads |-> 0]
  /\ lost = [d \in Downloads |-> 0]
  /\ misses = 0 /\ crashes = 0

-----------------------------------------------------------------------------
\* The world.  The arr looks at a finished download it tracks, blocks it,
\* tries to import it, or has imported it.
Finishes(d) ==
  /\ torrent[d] = "downloading"
  /\ torrent' = [torrent EXCEPT ![d] = "done"]
  /\ UNCHANGED <<plan, queue, arrHas, doneAge>>

ArrLooks(d) ==
  /\ torrent[d] = "done" /\ queue[d] # "out"
  /\ \E q \in {"pending", "warning", "importing"} \ {queue[d]} : queue' = [queue EXCEPT ![d] = q]
  /\ UNCHANGED <<plan, torrent, arrHas, doneAge>>

ArrImports(d) ==
  /\ queue[d] = "importing"
  /\ queue' = [queue EXCEPT ![d] = "out"]
  /\ arrHas' = [arrHas EXCEPT ![d] = TRUE]
  /\ UNCHANGED <<plan, torrent, doneAge>>

WorldStep ==
  /\ \E d \in Downloads : Finishes(d) \/ ArrLooks(d) \/ ArrImports(d)
  /\ UNCHANGED <<running, store, lock, sweep, autos, lost, misses, crashes>>

Older(a) == IF a < Grace THEN a + 1 ELSE a
Tick ==
  /\ doneAge' = [d \in Downloads |-> IF torrent[d] = "done" THEN Older(doneAge[d]) ELSE 0]
  /\ seen' = [d \in Downloads |-> IF seen[d].stage = "" THEN seen[d]
                                  ELSE [seen[d] EXCEPT !.age = Older(@)]]
  /\ <<doneAge', seen'>> # <<doneAge, seen>>
  /\ UNCHANGED <<running, plan, torrent, queue, arrHas, marker, lock, sweep,
                 autos, lost, misses, crashes>>

-----------------------------------------------------------------------------
\* list_own_grabs and find_own_grab: the row a trace is taken for.
NoRow == [own |-> FALSE, title |-> "other", at |-> 0, date |-> 0,
          dest |-> "library", direct |-> FALSE]
Rows == {plan[d] : d \in {e \in Downloads : plan[e].own}}
OwnRow(d) == FindOwnGrab(plan[d].title, plan[d].date, Rows, NoRow)
IsOwn(d) == OwnRow(d) # NoRow

\* A question that may go unanswered.
Answered == UNCHANGED misses
Missed   == misses < MaxMisses /\ misses' = misses + 1

\* mark_auto_copy: an upsert; one that fails is logged and forgotten.
WriteMarker(d, m) ==
  \/ marker' = [marker EXCEPT ![d] = m] /\ UNCHANGED lost
  \/ /\ lost[d] < MaxLost
     /\ lost' = [lost EXCEPT ![d] = @ + 1]
     /\ UNCHANGED marker
NoWrite == UNCHANGED <<marker, lost>>

\* SweepDownloads.run: one at a time, whoever asks; the other is refused.
\* config.SAFE_MODE, which the operator may change, is read here.
Free_NoLock == TRUE
Free == lock = NoDownload
Start(c, mode) ==
  /\ pc[c] = "idle" /\ Free
  /\ lock' = c
  /\ pc' = [pc EXCEPT ![c] = "queues"]
  /\ safe' = [safe EXCEPT ![c] = mode]
  /\ aged' = [aged EXCEPT ![c] = [d \in Downloads |-> seen[d].age]]
  /\ UNCHANGED <<running, world, store, snap, roots, left, cur, autos, lost,
                 misses, crashes>>

\* What a sweep read dies with it.
GoIdle(c) ==
  /\ pc' = [pc EXCEPT ![c] = "idle"]
  /\ safe' = [safe EXCEPT ![c] = FALSE]
  /\ snap' = [snap EXCEPT ![c] = Nothing]
  /\ aged' = [aged EXCEPT ![c] = Young]
  /\ roots' = [roots EXCEPT ![c] = FALSE]
  /\ left' = [left EXCEPT ![c] = {}]
  /\ cur' = [cur EXCEPT ![c] = NoDownload]

\* The end of a sweep, whichever way: the lock is released.
Finish_KeepsLock(c) == UNCHANGED lock /\ GoIdle(c)
Finish(c) == lock' = NoDownload /\ GoIdle(c)

\* build_traces asks the arr for its queue, then the client for its torrents.
\* An arr or a client that does not answer reads as an empty one.
ReadQueues(c) ==
  /\ pc[c] = "queues"
  /\ \/ Answered /\ snap' = [snap EXCEPT ![c] = [d \in Downloads |-> Trace("absent", queue[d])]]
     \/ Missed /\ UNCHANGED snap
  /\ pc' = [pc EXCEPT ![c] = "torrents"]
  /\ UNCHANGED <<running, world, store, lock, safe, aged, roots, left, cur,
                 autos, lost, crashes>>

\* The trace of d from the queue read before and the torrent read now.
Joined(tr, t) ==
  LET q == IF tr.warning THEN "warning"
           ELSE CASE tr.stage = "import_blocked" -> "pending"
                  [] tr.stage = "importing"      -> "importing"
                  [] OTHER -> IF tr.queued THEN "tracked" ELSE "out"
  IN  Trace(t, q)

Destined == {d \in Downloads : plan[d].own /\ plan[d].dest = "foreign"}

ReadTorrents(c) ==
  /\ pc[c] = "torrents"
  /\ \/ Answered /\ snap' = [snap EXCEPT ![c] =
                               [d \in Downloads |-> Joined(snap[c][d], torrent[d])]]
     \/ Missed /\ UNCHANGED snap
  /\ left' = [left EXCEPT ![c] = Downloads]
  /\ pc' = [pc EXCEPT ![c] = IF Destined = {} THEN "loop" ELSE "roots"]
  /\ UNCHANGED <<running, world, store, lock, safe, aged, roots, cur, autos,
                 lost, crashes>>

\* build_traces raises: a summary that says so, and nothing else.
TracesFail(c) ==
  /\ pc[c] \in {"queues", "torrents"}
  /\ Missed /\ Finish(c)
  /\ UNCHANGED <<running, world, store, autos, lost, crashes>>

\* _foreign_destinations: unknown roots prove no destination foreign.
ReadRoots(c) ==
  /\ pc[c] = "roots"
  /\ \/ Answered /\ roots' = [roots EXCEPT ![c] = TRUE]
     \/ Missed /\ UNCHANGED roots
  /\ pc' = [pc EXCEPT ![c] = "loop"]
  /\ UNCHANGED <<running, world, store, lock, safe, snap, aged, left, cur,
                 autos, lost, crashes>>

-----------------------------------------------------------------------------
\* handle_trace, between its two awaits.
Handled(d) == marker[d] = "copy"
Foreign(c, d) == OwnRow(d).dest = "foreign" /\ roots[c]
NeedsProbe(c, d) ==
  /\ IsOwn(d) /\ ~Handled(d) /\ ~Foreign(c, d)
  /\ snap[c][d].stage \in {"import_blocked", "downloaded"}

Judge(c, d) ==
  /\ pc[c] = "loop" /\ cur[c] = NoDownload /\ d \in left[c]
  /\ NeedsProbe(c, d)
  /\ cur' = [cur EXCEPT ![c] = d]
  /\ pc' = [pc EXCEPT ![c] = "probe"]
  /\ UNCHANGED <<running, world, store, lock, safe, snap, aged, roots, left,
                 autos, lost, misses, crashes>>

\* note_auto_copy_seen: the first sighting in this stage, or the stored one.
Noted(c, d) == IsOwn(d) /\ ~OwnRow(d).direct /\ GraceRelevant(snap[c][d])
Note(c, d) ==
  seen' = IF Noted(c, d) /\ seen[d].stage # snap[c][d].stage
          THEN [seen EXCEPT ![d] = [stage |-> snap[c][d].stage, age |-> 0]]
          ELSE seen
Elapsed(c, d) == seen[d].stage = snap[c][d].stage /\ aged[c][d] = Grace

Decision(c, d, handled, hasFile) ==
  DecideCopy(snap[c][d], IsOwn(d), handled, hasFile, Foreign(c, d), OwnRow(d).direct,
             Elapsed(c, d))

Next1(c, d) ==      \* on to the next trace
  /\ left' = [left EXCEPT ![c] = @ \ {d}]
  /\ cur' = [cur EXCEPT ![c] = NoDownload]
  /\ pc' = [pc EXCEPT ![c] = "loop"]

\* copy_files up to its first await: a destination needs the queue entry
\* gone first, which needs its id, unless the arr never had one.
Route(d, tr) ==
  IF OwnRow(d).dest = "library" THEN "root"
  ELSE IF OwnRow(d).direct THEN "names"
  ELSE IF tr.queued THEN "removal" ELSE "refused"

\* The claim is written before anything is dispatched; a refusal downgrades it
\* at once, and either write may be the one that is lost.
Act(c, d) ==
  LET r == Route(d, snap[c][d]) IN
  \/ /\ ~snap[c][d].path
     /\ WriteMarker(d, "failed") /\ Next1(c, d)
  \/ /\ snap[c][d].path /\ r = "refused"
     /\ \/ WriteMarker(d, "failed")
        \/ /\ lost[d] < MaxLost /\ lost' = [lost EXCEPT ![d] = @ + 1]
           /\ marker' = [marker EXCEPT ![d] = "copy"]
     /\ Next1(c, d)
  \/ /\ snap[c][d].path /\ r # "refused"
     /\ WriteMarker(d, "copy")
     /\ cur' = [cur EXCEPT ![c] = d]
     /\ pc' = [pc EXCEPT ![c] = r]
     /\ UNCHANGED left

Outcome(c, d, handled, hasFile) ==
  LET v == Decision(c, d, handled, hasFile) IN
  /\ IF handled THEN UNCHANGED seen ELSE Note(c, d)
  /\ \/ v # "copy" /\ NoWrite /\ Next1(c, d)
     \/ v = "copy" /\ safe[c] /\ WriteMarker(d, "proposed") /\ Next1(c, d)
     \/ v = "copy" /\ ~safe[c] /\ Act(c, d)

\* Nothing to ask: the verdict comes at once.
JudgeAtOnce(c, d) ==
  /\ pc[c] = "loop" /\ cur[c] = NoDownload /\ d \in left[c]
  /\ ~NeedsProbe(c, d)
  /\ Outcome(c, d, Handled(d), "unknown")
  /\ UNCHANGED <<running, world, lock, safe, snap, aged, roots, autos, misses, crashes>>

\* arr_has_file answers; the marker was read before the question.
Probed(c, d) ==
  /\ pc[c] = "probe" /\ cur[c] = d
  /\ \/ Answered /\ Outcome(c, d, FALSE, IF arrHas[d] THEN "yes" ELSE "no")
     \/ Missed /\ Outcome(c, d, FALSE, "unknown")
  /\ UNCHANGED <<running, world, lock, safe, snap, aged, roots, autos, crashes>>

\* The handler of one trace raises: the sweep goes on with the others.
BadTrace(c, d) ==
  /\ pc[c] = "loop" /\ cur[c] = NoDownload /\ d \in left[c]
  /\ Missed /\ NoWrite /\ Next1(c, d)
  /\ UNCHANGED <<running, world, seen, lock, safe, snap, aged, roots, autos, crashes>>

SweepEnds(c) ==
  /\ pc[c] = "loop" /\ left[c] = {}
  /\ Finish(c)
  /\ UNCHANGED <<running, world, store, autos, lost, misses, crashes>>

-----------------------------------------------------------------------------
\* A dispatch that failed downgrades its claim; the sweep goes on.
Failed(c) == WriteMarker(cur[c], "failed") /\ Next1(c, cur[c])

\* No removal, or no root folder.
DispatchFails(c) ==
  /\ pc[c] \in {"removal", "root"}
  /\ Missed /\ Failed(c)
  /\ UNCHANGED <<running, world, seen, lock, safe, snap, aged, roots, autos, crashes>>

Removed_NotSent(c) ==
  /\ pc[c] = "removal"
  /\ pc' = [pc EXCEPT ![c] = "names"]
  /\ UNCHANGED <<running, world, store, lock, safe, snap, aged, roots, left,
                 cur, autos, lost, misses, crashes>>
\* arr_delete_queue answers: the entry is gone, or was (404).
Removed(c) ==
  /\ pc[c] = "removal"
  /\ queue' = [queue EXCEPT ![cur[c]] = "out"]
  /\ UNCHANGED <<plan, torrent, arrHas, doneAge>>
  /\ pc' = [pc EXCEPT ![c] = "names"]
  /\ UNCHANGED <<running, store, lock, safe, snap, aged, roots, left, cur,
                 autos, lost, misses, crashes>>

\* The entry is gone and the answer is not: the action fails.
RemovalUnheard(c) ==
  /\ pc[c] = "removal"
  /\ queue' = [queue EXCEPT ![cur[c]] = "out"]
  /\ Missed /\ Failed(c)
  /\ UNCHANGED <<running, plan, torrent, arrHas, doneAge, seen, lock, safe, snap, aged, roots,
                 autos, crashes>>

\* The arr names the folder of the series or of the movie.
RootFound(c) ==
  /\ pc[c] = "root"
  /\ pc' = [pc EXCEPT ![c] = "names"]
  /\ UNCHANGED <<running, world, store, lock, safe, snap, aged, roots, left,
                 cur, autos, lost, misses, crashes>>

\* The arr's metadata names the file; the background copy is started.
Spawn(c) ==
  /\ pc[c] = "names"
  /\ running' = running \union {<<cur[c], OwnRow(cur[c]).dest>>}
  /\ Next1(c, cur[c])
  /\ autos' = [autos EXCEPT ![cur[c]] = @ + 1]
  /\ UNCHANGED <<world, store, lock, safe, snap, aged, roots, lost, misses, crashes>>

\* The process restarts: the store and the disk stay.
Crash ==
  /\ crashes < MaxCrashes /\ crashes' = crashes + 1
  /\ running' = {}
  /\ lock' = NoDownload
  /\ pc' = [c \in Sweepers |-> "idle"]
  /\ safe' = [c \in Sweepers |-> FALSE]
  /\ snap' = [c \in Sweepers |-> Nothing]
  /\ aged' = [c \in Sweepers |-> Young]
  /\ roots' = [c \in Sweepers |-> FALSE]
  /\ left' = [c \in Sweepers |-> {}]
  /\ cur' = [c \in Sweepers |-> NoDownload]
  /\ UNCHANGED <<world, store, autos, lost, misses>>

SweepStep(c) ==
  \/ ReadQueues(c) \/ ReadTorrents(c) \/ TracesFail(c) \/ ReadRoots(c) \/ SweepEnds(c)
  \/ \E d \in Downloads : Judge(c, d) \/ JudgeAtOnce(c, d) \/ Probed(c, d) \/ BadTrace(c, d)

DispatchStep(c) ==
  \/ DispatchFails(c) \/ Removed(c) \/ RemovalUnheard(c) \/ RootFound(c) \/ Spawn(c)

CopyOver ==
  /\ \E r \in running : running' = running \ {r}
  /\ UNCHANGED <<world, store, lock, sweep, autos, lost, misses, crashes>>

Next ==
  \/ WorldStep \/ Tick \/ CopyOver \/ Crash
  \/ \E c \in Sweepers : (\E mode \in BOOLEAN : Start(c, mode)) \/ SweepStep(c) \/ DispatchStep(c)

\* The timer sweeps for ever and what a sweep began goes on; among the sweeps
\* there is always one more with safe mode off.
Fairness ==
  /\ SF_vars(\E c \in Sweepers : Start(c, FALSE))
  /\ \A c \in Sweepers : WF_vars(SweepStep(c)) /\ WF_vars(DispatchStep(c))

Spec == Init /\ [][Next]_vars /\ Fairness

-----------------------------------------------------------------------------
\* A download is copied by the sweep at most once, however many sweeps, restarts
\* and failed dispatches there are, but for a claim the store lost.
CopiedAtMostOnce == \A d \in Downloads : autos[d] <= 1 + lost[d]

\* While a copy into a folder outside the library runs, the arr does not track
\* the download: it cannot move the source away or import the copy.
ForeignIsDetached ==
  \A d \in Downloads : <<d, "foreign">> \in running => queue[d] = "out"

\* The arr gets its whole window: the sweep claims a download the arr tracks,
\* and has not warned about, only when it has been finished for that long.
ArrHadItsChance ==
  [][\A d \in Downloads :
       marker'[d] = "copy" /\ marker[d] # "copy" =>
         \/ doneAge[d] = Grace \/ OwnRow(d).direct
         \/ \E c \in Sweepers : pc[c] \in {"loop", "probe"} /\ snap[c][d].warning]_vars

\* A download of ours the arr warns about does not wait for ever.
Stuck(d) == IsOwn(d) /\ torrent[d] = "done" /\ queue[d] = "warning"
LostClaim(d) == marker[d] = "copy" /\ (crashes > 0 \/ lost[d] > 0)
StuckIsCopied ==
  \A d \in Downloads :
    Stuck(d) ~> (autos[d] > 0 \/ arrHas[d] \/ queue[d] # "warning" \/ LostClaim(d))

\* A copy that could not be dispatched is retried by a later sweep: "a failure
\* must stay retryable".
FailureIsRetryable ==
  \A d \in Downloads :
    marker[d] = "failed" /\ OwnRow(d).dest = "foreign" /\ ~arrHas[d]
      => queue[d] # "out" \/ OwnRow(d).direct

\* The sweep and the arr do not have the same download in hand.
NotBothAtOnce == TypeOK /\ ForeignIsDetached
=============================================================================
