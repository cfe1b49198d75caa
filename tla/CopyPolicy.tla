----------------------------- MODULE CopyPolicy -----------------------------
(***************************************************************************)
(* The decisions of the auto-copy sweep: the stage a trace shows           *)
(* (traces.derive_stage), whose grab it is and whether to act on it        *)
(* (domain/policy).  Pure operators.  The reasons, which are text for the  *)
(* operator, are left out.                                                 *)
(***************************************************************************)
EXTENDS Integers

CONSTANTS
  GrabWindow,     \* DEFAULT_GRAB_WINDOW_SECONDS
  ClockSkew       \* GRAB_CLOCK_SKEW_SECONDS

ASSUME CPAssumption == GrabWindow \in Nat /\ ClockSkew \in Nat

\* What the client and the arr's queue say of a download.  "tracked": in the
\* queue with no state this code reads; "warning": whatever the state, the
\* status is a warning; "out": not in the queue.
Torrent == {"absent", "downloading", "done", "error"}
Queue   == {"tracked", "pending", "warning", "importing", "failed", "out"}
Stage   == {"sent", "downloading", "downloaded", "importing", "import_blocked", "failed"}

\* The queue is believed before the torrent.
DeriveStage(torrent, queue) ==
  IF queue \in {"pending", "warning"} THEN "import_blocked"
  ELSE IF queue \in {"importing", "failed"} THEN queue
  ELSE CASE torrent = "absent" -> "sent"
         [] torrent = "error"  -> "failed"
         [] torrent = "done"   -> "downloaded"
         [] OTHER              -> "downloading"

Trace(torrent, queue) ==
  [stage |-> DeriveStage(torrent, queue), warning |-> queue = "warning",
   queued |-> queue # "out", path |-> torrent # "absent"]

\* _grace_relevant: only here does the policy reach the grace gate.
GraceRelevant(tr) ==
  tr.stage = "downloaded" \/ (tr.stage = "import_blocked" /\ ~tr.warning)

\* _grace_gate.  hasFile is "yes", "no" or "unknown"; elapsed: the window,
\* measured from the stored first sighting, is over.
GraceGate_NoWindow(elapsed, hasFile, foreign, direct) ==
  IF foreign \/ hasFile # "unknown" THEN "copy" ELSE "wait"
GraceGate(elapsed, hasFile, foreign, direct) ==
  IF (direct \/ elapsed) /\ (foreign \/ hasFile # "unknown") THEN "copy" ELSE "wait"

\* decide_copy: the first rule that applies.
DecideCopy(tr, own, handled, hasFile, foreign, direct, elapsed) ==
  IF ~own \/ handled \/ (hasFile = "yes" /\ ~foreign) \/ tr.stage = "failed" THEN "skip"
  ELSE IF tr.stage \in {"sent", "downloading", "importing"} THEN "wait"
  ELSE IF tr.stage = "import_blocked" /\ tr.warning THEN "copy"
  ELSE GraceGate(elapsed, hasFile, foreign, direct)

\* find_own_grab: the newest row of the same title whose grab the trace's
\* date can be; NoRow when there is none.
Matching(title, date, rows) ==
  {r \in rows : /\ r.title = title
                /\ r.at - ClockSkew <= date /\ date <= r.at + GrabWindow}
FindOwnGrab(title, date, rows, NoRow) ==
  LET own == Matching(title, date, rows)
  IN  IF own = {} THEN NoRow ELSE CHOOSE r \in own : \A s \in own : s.at <= r.at

=============================================================================
