---------------------------- MODULE TasksProofs -----------------------------
(***************************************************************************)
(* What the background copies, the event bus and the cached pages          *)
(* promise, for any downloads, files, copies at once, readers, threads     *)
(* and bounds.                                                             *)
(***************************************************************************)
EXTENDS CopyTask, EventBus, Feed, SequenceTheorems, FiniteSetTheorems, TLAPS

-----------------------------------------------------------------------------
(* The copies, also several of the same download. The argument has two halves: the disk
   only ever gains whole files (a temporary is renamed, a hardlink appears at once), so
   what a worker has ticked off stays there; and the record of a copy says "running" for
   as long as a cancel can still be accepted. *)
\* Where the coroutine is, and what the record says meanwhile.
RecordOf(t) ==
  /\ at[t] # "idle" \/ status[t] # "none" => of[t] \in Downloads
  /\ at[t] \in Working \union {"launched", "ok", "stopped", "CopyCancelled", "Exception"}
       => status[t] = "running"
  /\ at[t] = "not_found" => status[t] \in {"error", "none"}
  /\ at[t] \in {"command", "verify"} => status[t] = "importing" /\ ~cancelled[t]
  /\ at[t] = "idle" => status[t] \in Terminal \union {"none"}
  /\ cancelled[t] => status[t] \in {"none", "running", "cancelled", "error"}

\* What is not on the worker's list is whole at the destination.
AllWhole(t) == \A f \in FilesOf[of[t]] : disk[of[t]][dst[t]][f] = "whole"
CopiedSoFar(t) ==
  /\ at[t] \in {"next", "chunks"} =>
       \A f \in FilesOf[of[t]] \ todo[t] : disk[of[t]][dst[t]][f] = "whole"
  /\ at[t] \in {"ok", "command", "verify"} => AllWhole(t)
  /\ status[t] \in Copied => AllWhole(t)

RecordInv == \A t \in CopyTasks : RecordOf(t)
CopiedInv == \A t \in CopyTasks : CopiedSoFar(t)
CopiesInv == CTTypeOK /\ NothingHalfCopied /\ RecordInv /\ CopiedInv

-----------------------------------------------------------------------------
\* The files of a download are among all files.
LEMMA FilesAreFiles == \A d \in Downloads : FilesOf[d] \subseteq AllFiles
BY CTAssumption DEF AllFiles

\* One file that becomes whole: the disk keeps its type, stays without halves
\* and loses nothing.
LEMMA OneMoreWhole ==
  ASSUME CTTypeOK, NothingHalfCopied, NEW t \in CopyTasks, NEW f \in AllFiles,
         of[t] \in Downloads, Write(t, f, "whole")
  PROVE  /\ disk' \in [Downloads -> [Places -> [AllFiles -> {"none", "partial", "whole"}]]]
         /\ NothingHalfCopied'
         /\ disk'[of[t]][dst[t]][f] = "whole"
         /\ \A d \in Downloads, p \in Places, g \in AllFiles :
              disk[d][p][g] = "whole" => disk'[d][p][g] = "whole"
BY DEF CTTypeOK, NothingHalfCopied, Write

\* Every step keeps the types.
LEMMA TypeStep == CTTypeOK /\ NothingHalfCopied /\ RecordInv /\ [CTNext]_ctVars => CTTypeOK'
<1> SUFFICES ASSUME CTTypeOK, NothingHalfCopied, RecordInv, [CTNext]_ctVars PROVE CTTypeOK'
  OBVIOUS
<1> USE DEF CTTypeOK, At, Result, Working, Status, Terminal, Goto
<1>1. CASE \E t \in CopyTasks, a \in Asked : Create(t, a[1], a[2])
  BY <1>1, CTAssumption DEF Create
<1>2. ASSUME NEW t \in CopyTasks, WorkerStep(t)
      PROVE  CTTypeOK'
  <2>1. CASE SourceMissing(t)
    BY <2>1 DEF SourceMissing, Update
  <2>2. CASE Scan(t)
    <3>1. of[t] \in Downloads /\ FilesOf[of[t]] \subseteq AllFiles
      BY <2>2, FilesAreFiles DEF Scan, RecordInv, RecordOf
    <3>2. ToCopy(t) \subseteq AllFiles
      BY <3>1 DEF ToCopy
    <3>3. QED
      BY <2>2, <3>2 DEF Scan
  <2>3. CASE StopBetweenFiles(t)
    BY <2>3 DEF StopBetweenFiles
  <2>4. ASSUME NEW f \in AllFiles, Link(t, f) \/ Publish(t, f)
        PROVE  CTTypeOK'
    <3>1. of[t] \in Downloads /\ Write(t, f, "whole")
      BY <2>4 DEF Link, Publish, MayStart, RecordInv, RecordOf
    <3>2. disk' \in [Downloads -> [Places -> [AllFiles -> {"none", "partial", "whole"}]]]
      BY <3>1, OneMoreWhole
    <3>3. CASE Link(t, f)
      BY <3>2, <3>3 DEF Link
    <3>4. CASE Publish(t, f)
      BY <3>2, <3>4 DEF Publish
    <3>5. QED
      BY <2>4, <3>3, <3>4
  <2>5. CASE StartChunks(t)
    BY <2>5 DEF StartChunks
  <2>6. CASE StopBetweenChunks(t)
    BY <2>6 DEF StopBetweenChunks
  <2>7. CASE CopyRaises(t)
    BY <2>7 DEF CopyRaises
  <2>8. CASE CopiedAll(t)
    BY <2>8 DEF CopiedAll
  <2>9. QED
    BY <1>2, <2>1, <2>2, <2>3, <2>4, <2>5, <2>6, <2>7, <2>8 DEF WorkerStep
<1>3. ASSUME NEW t \in CopyTasks, CoroutineStep(t)
      PROVE  CTTypeOK'
  <2> USE DEF Settle, Update
  <2>1. CASE Launch(t) \/ CommandAnswered(t)
    BY <2>1 DEF Launch, CommandAnswered
  <2>2. CASE SettleCancelled(t) \/ SettleError(t)
    BY <2>2 DEF SettleCancelled, SettleError
  <2>3. CASE SettleForeign(t) \/ SettleImport(t)
    BY <2>3 DEF SettleForeign, SettleImport
  <2>4. CASE VerifyEnds(t) \/ VerifyRaises(t)
    BY <2>4 DEF VerifyEnds, VerifyRaises
  <2>5. QED
    BY <1>3, <2>1, <2>2, <2>3, <2>4 DEF CoroutineStep
<1>4. ASSUME NEW t \in CopyTasks, Cancel(t) \/ Age(t)
      PROVE  CTTypeOK'
  BY <1>4 DEF Cancel, Age
<1>5. CASE Poll
  BY <1>5 DEF Poll
<1>6. CASE Forget
  BY <1>6 DEF Forget, Places
<1>7. CASE UNCHANGED ctVars
  BY <1>7 DEF ctVars
<1>8. QED
  BY <1>1, <1>2, <1>3, <1>4, <1>5, <1>6, <1>7 DEF CTNext, TaskStep

\* The disk only gains whole files.
LEMMA DiskStep ==
  CTTypeOK /\ NothingHalfCopied /\ RecordInv /\ [CTNext]_ctVars =>
    /\ NothingHalfCopied'
    /\ \A d \in Downloads, p \in Places, f \in AllFiles :
         disk[d][p][f] = "whole" => disk'[d][p][f] = "whole"
<1> SUFFICES ASSUME CTTypeOK, NothingHalfCopied, RecordInv, [CTNext]_ctVars
             PROVE  /\ NothingHalfCopied'
                    /\ \A d \in Downloads, p \in Places, f \in AllFiles :
                         disk[d][p][f] = "whole" => disk'[d][p][f] = "whole"
  OBVIOUS
<1>1. CASE \E t \in CopyTasks, f \in AllFiles : Link(t, f) \/ Publish(t, f)
  <2>1. PICK t \in CopyTasks, f \in AllFiles : Link(t, f) \/ Publish(t, f)
    BY <1>1
  <2>2. of[t] \in Downloads /\ Write(t, f, "whole")
    BY <2>1 DEF Link, Publish, MayStart, RecordInv, RecordOf, Working
  <2>3. QED
    BY <2>2, OneMoreWhole
<1>2. CASE UNCHANGED disk
  BY <1>2 DEF NothingHalfCopied
<1>3. QED
  <2>1. ASSUME NEW t \in CopyTasks, WorkerStep(t), ~(\E f \in AllFiles : Link(t, f) \/ Publish(t, f))
        PROVE  UNCHANGED disk
    BY <2>1 DEF WorkerStep, SourceMissing, Scan, StopBetweenFiles, StartChunks, StopBetweenChunks,
                CopyRaises, CopiedAll
  <2>2. ASSUME NEW t \in CopyTasks, CoroutineStep(t) \/ Cancel(t) \/ Age(t)
        PROVE  UNCHANGED disk
    BY <2>2 DEF CoroutineStep, Launch, SettleCancelled, SettleError, SettleForeign, SettleImport,
                CommandAnswered, VerifyEnds, VerifyRaises, Settle, Cancel, Age
  <2>3. ASSUME NEW t \in CopyTasks, NEW a \in Asked, Create(t, a[1], a[2])
        PROVE  UNCHANGED disk
    BY <2>3 DEF Create
  <2>4. Poll \/ Forget \/ UNCHANGED ctVars => UNCHANGED disk
    BY DEF Poll, Forget, ctVars
  <2>5. QED
    BY <1>1, <1>2, <2>1, <2>2, <2>3, <2>4 DEF CTNext, TaskStep

\* Every step keeps what is said of a copy.
LEMMA RecordStep == CTTypeOK /\ RecordInv /\ [CTNext]_ctVars => RecordInv'
<1> SUFFICES ASSUME CTTypeOK, RecordInv, [CTNext]_ctVars, NEW u \in CopyTasks
             PROVE  RecordOf(u)'
  BY DEF RecordInv
<1> USE DEF CTTypeOK, RecordInv, RecordOf, Working, Status, Terminal, Goto
<1>1. ASSUME NEW t \in CopyTasks, NEW a \in Asked, Create(t, a[1], a[2])
      PROVE  RecordOf(u)'
  BY <1>1, CTAssumption DEF Create
<1>2. ASSUME NEW t \in CopyTasks, WorkerStep(t)
      PROVE  RecordOf(u)'
  <2>1. CASE SourceMissing(t)
    BY <2>1 DEF SourceMissing, Update
  <2>2. CASE Scan(t)
    BY <2>2 DEF Scan
  <2>3. CASE StopBetweenFiles(t)
    BY <2>3 DEF StopBetweenFiles
  <2>4. ASSUME NEW f \in AllFiles, Link(t, f)
        PROVE  RecordOf(u)'
    BY <2>4 DEF Link
  <2>5. ASSUME NEW f \in AllFiles, Publish(t, f)
        PROVE  RecordOf(u)'
    BY <2>5 DEF Publish
  <2>6. CASE StartChunks(t) \/ StopBetweenChunks(t)
    BY <2>6 DEF StartChunks, StopBetweenChunks, MayStart
  <2>7. CASE CopyRaises(t) \/ CopiedAll(t)
    BY <2>7 DEF CopyRaises, CopiedAll
  <2>8. QED
    BY <1>2, <2>1, <2>2, <2>3, <2>4, <2>5, <2>6, <2>7 DEF WorkerStep
<1>3. ASSUME NEW t \in CopyTasks, CoroutineStep(t)
      PROVE  RecordOf(u)'
  <2> USE DEF Settle, Update
  <2>1. CASE Launch(t)
    BY <2>1 DEF Launch
  <2>2. CASE SettleCancelled(t)
    BY <2>2 DEF SettleCancelled
  <2>3. CASE SettleError(t)
    BY <2>3 DEF SettleError
  <2>4. CASE SettleForeign(t) \/ SettleImport(t)
    BY <2>4 DEF SettleForeign, SettleImport
  <2>5. CASE CommandAnswered(t) \/ VerifyEnds(t) \/ VerifyRaises(t)
    BY <2>5 DEF CommandAnswered, VerifyEnds, VerifyRaises
  <2>6. QED
    BY <1>3, <2>1, <2>2, <2>3, <2>4, <2>5 DEF CoroutineStep
<1>4. ASSUME NEW t \in CopyTasks, Cancel(t) \/ Age(t)
      PROVE  RecordOf(u)'
  BY <1>4 DEF Cancel, Age
<1>5. CASE Poll
  BY <1>5 DEF Poll, Expired
<1>6. CASE Forget
  BY <1>6 DEF Forget
<1>7. CASE UNCHANGED ctVars
  BY <1>7 DEF ctVars
<1>8. QED
  BY <1>1, <1>2, <1>3, <1>4, <1>5, <1>6, <1>7 DEF CTNext, TaskStep

\* Every step keeps what is said of the files of a copy.
LEMMA CopiedStep == CopiesInv /\ [CTNext]_ctVars => CopiedInv'
<1> SUFFICES ASSUME CopiesInv, [CTNext]_ctVars, NEW u \in CopyTasks
             PROVE  CopiedSoFar(u)'
  BY DEF CopiedInv
<1>1. /\ CTTypeOK /\ NothingHalfCopied /\ RecordInv
      /\ CopiedSoFar(u) /\ RecordOf(u)
  BY DEF CopiesInv, CopiedInv, RecordInv
\* What does not move u's record or its list keeps what is said of it.
<1>2. \A d \in Downloads, p \in Places, f \in AllFiles :
        disk[d][p][f] = "whole" => disk'[d][p][f] = "whole"
  BY <1>1, DiskStep
<1>3. ASSUME at'[u] \in {"next", "chunks"} => at[u] \in {"next", "chunks"},
             at'[u] \in {"ok", "command", "verify"} => at[u] \in {"ok", "command", "verify"},
             status'[u] \in Copied => status[u] \in Copied \/ at[u] \in {"ok", "command", "verify"},
             at'[u] \in {"next", "chunks", "ok", "command", "verify"} \/ status'[u] \in Copied
               => of'[u] = of[u] /\ dst'[u] = dst[u] /\ todo'[u] = todo[u]
      PROVE  CopiedSoFar(u)'
  <2>1. at[u] # "idle" \/ status[u] # "none" => of[u] \in Downloads /\ FilesOf[of[u]] \subseteq AllFiles
    BY <1>1, FilesAreFiles DEF RecordOf
  <2>2. dst[u] \in Places
    BY <1>1 DEF CTTypeOK
  <2>3. status[u] \in Copied => status[u] # "none"
    BY DEF Copied
  <2>4. QED
    BY <1>1, <1>2, <1>3, <2>1, <2>2, <2>3 DEF CopiedSoFar, AllWhole
<1> USE <1>1 DEF CTTypeOK, Goto
<1>4. ASSUME NEW t \in CopyTasks, NEW a \in Asked, Create(t, a[1], a[2])
      PROVE  CopiedSoFar(u)'
  <2>1. u = t => at'[u] = "launched" /\ status'[u] = "running"
    BY <1>4 DEF Create
  <2>2. u # t => UNCHANGED <<at[u], status[u], of[u], dst[u], todo[u]>>
    BY <1>4 DEF Create
  <2>3. QED
    BY <1>3, <2>1, <2>2 DEF Copied
<1>5. ASSUME NEW t \in CopyTasks, WorkerStep(t)
      PROVE  CopiedSoFar(u)'
  <2>1. CASE u # t
    <3>1. UNCHANGED <<at[u], status[u], of[u], dst[u], todo[u]>>
      BY <1>5, <2>1 DEF WorkerStep, SourceMissing, Scan, StopBetweenFiles, Link, Publish,
         StartChunks, StopBetweenChunks, CopyRaises, CopiedAll, Update
    <3>2. QED
      BY <1>3, <3>1
  <2>2. CASE u = t /\ SourceMissing(t)
    BY <1>3, <2>2 DEF SourceMissing, Update, Copied
  <2>3. CASE u = t /\ Scan(t)
    <3>1. of[t] \in Downloads /\ FilesOf[of[t]] \subseteq AllFiles /\ dst[t] \in Places
      BY <2>3, FilesAreFiles DEF RecordOf, Scan
    <3>2. \A f \in FilesOf[of[t]] \ ToCopy(t) : disk[of[t]][dst[t]][f] = "whole"
      BY <3>1 DEF ToCopy, On, NothingHalfCopied
    <3>3. status[t] = "running"
      BY <2>3 DEF RecordOf, Scan, Working
    <3>4. at'[t] = "next" /\ todo'[t] = ToCopy(t) /\ UNCHANGED <<disk, of, dst, status>>
      BY <2>3 DEF Scan
    <3>5. QED
      BY <2>3, <3>2, <3>3, <3>4 DEF CopiedSoFar, AllWhole, Copied
  <2>4. CASE u = t /\ (StopBetweenFiles(t) \/ StopBetweenChunks(t) \/ CopyRaises(t))
    <3>1. at'[t] \in {"stopped", "CopyCancelled", "Exception"} /\ UNCHANGED status /\ status[t] = "running"
      BY <2>4 DEF StopBetweenFiles, StopBetweenChunks, CopyRaises, RecordOf, Working
    <3>2. QED
      BY <1>3, <2>4, <3>1 DEF Copied
  <2>5. CASE u = t /\ StartChunks(t)
    BY <1>3, <2>5 DEF StartChunks, MayStart
  <2>6. ASSUME u = t, NEW f \in AllFiles, Link(t, f) \/ Publish(t, f)
        PROVE  CopiedSoFar(u)'
    <3>1. of[t] \in Downloads /\ dst[t] \in Places /\ FilesOf[of[t]] \subseteq AllFiles
      BY <2>6, FilesAreFiles DEF Link, Publish, MayStart, RecordOf
    <3>2. Write(t, f, "whole") /\ todo'[t] = todo[t] \ {f} /\ UNCHANGED <<of, dst, status>>
      BY <2>6 DEF Link, Publish
    <3>3. at[t] \in {"next", "chunks"} /\ at'[t] = "next" /\ status[t] = "running"
      BY <2>6 DEF Link, Publish, MayStart, RecordOf, Working
    <3>4. disk'[of[t]][dst[t]][f] = "whole"
      BY <3>1, <3>2, OneMoreWhole
    <3>5. \A g \in FilesOf[of[t]] \ todo'[t] : disk'[of[t]][dst[t]][g] = "whole"
      BY <1>2, <2>6, <3>1, <3>2, <3>3, <3>4 DEF CopiedSoFar
    <3>6. QED
      BY <2>6, <3>2, <3>3, <3>5 DEF CopiedSoFar, AllWhole, Copied
  <2>7. CASE u = t /\ CopiedAll(t)
    <3>1. AllWhole(t) /\ UNCHANGED <<disk, of, dst, status>> /\ at'[t] = "ok" /\ status[t] = "running"
      BY <2>7 DEF CopiedAll, CopiedSoFar, AllWhole, RecordOf, Working
    <3>2. QED
      BY <2>7, <3>1 DEF CopiedSoFar, AllWhole, Copied
  <2>8. QED
    BY <1>5, <2>1, <2>2, <2>3, <2>4, <2>5, <2>6, <2>7 DEF WorkerStep
<1>6. ASSUME NEW t \in CopyTasks, CoroutineStep(t)
      PROVE  CopiedSoFar(u)'
  <2> USE DEF Settle, Update
  <2>1. CASE Launch(t)
    BY <1>3, <2>1 DEF Launch
  <2>2. CASE SettleCancelled(t) \/ SettleError(t)
    BY <1>3, <2>2 DEF SettleCancelled, SettleError, Copied
  <2>3. CASE SettleForeign(t) \/ SettleImport(t)
    BY <1>3, <2>3 DEF SettleForeign, SettleImport, Copied
  <2>4. CASE CommandAnswered(t) \/ VerifyEnds(t) \/ VerifyRaises(t)
    BY <1>3, <2>4 DEF CommandAnswered, VerifyEnds, VerifyRaises, Copied
  <2>5. QED
    BY <1>6, <2>1, <2>2, <2>3, <2>4 DEF CoroutineStep
<1>7. ASSUME NEW t \in CopyTasks, Cancel(t) \/ Age(t)
      PROVE  CopiedSoFar(u)'
  BY <1>3, <1>7 DEF Cancel, Age
<1>8. CASE Poll
  BY <1>3, <1>8 DEF Poll, Copied
<1>9. CASE Forget
  BY <1>3, <1>9 DEF Forget, Copied
<1>10. CASE UNCHANGED ctVars
  BY <1>3, <1>10 DEF ctVars
<1>11. QED
  BY <1>4, <1>5, <1>6, <1>7, <1>8, <1>9, <1>10 DEF CTNext, TaskStep

\* The invariant holds from the start and in every step.
LEMMA CopiesStart == CTInit => CopiesInv
<1> SUFFICES ASSUME CTInit PROVE CopiesInv
  OBVIOUS
<1>1. CTTypeOK
  BY CTAssumption DEF CTInit, CTTypeOK, Places, At, Status, Terminal
<1>2. NothingHalfCopied
  BY DEF CTInit, NothingHalfCopied
<1>3. RecordInv
  BY DEF CTInit, RecordInv, RecordOf, Working
<1>4. CopiedInv
  BY DEF CTInit, CopiedInv, CopiedSoFar, Copied
<1>5. QED
  BY <1>1, <1>2, <1>3, <1>4 DEF CopiesInv

LEMMA CopiesStep == CopiesInv /\ [CTNext]_ctVars => CopiesInv'
BY TypeStep, DiskStep, RecordStep, CopiedStep DEF CopiesInv

-----------------------------------------------------------------------------
\* A copy is whole wherever it says it is and nowhere half, for any number of
\* files, downloads and copies that run at once.
THEOREM CopiesStayWhole == CTSpec => []CopiesAreWhole
<1>1. CopiesInv => CopiesAreWhole
  BY DEF CopiesInv, CopiesAreWhole, CopiedInv, CopiedSoFar, AllWhole, SuccessIsComplete
<1>2. QED
  BY <1>1, CopiesStart, CopiesStep, PTL DEF CTSpec

\* A cancel that was accepted never ends in a copy that counts as done, wherever
\* the worker was when the flag went up.
THEOREM CancelStaysHonoured == CTSpec => []CancelIsHonoured
<1>1. CopiesInv => CancelIsHonoured
  BY DEF CopiesInv, RecordInv, RecordOf, CancelIsHonoured
<1>2. QED
  BY <1>1, CopiesStart, CopiesStep, PTL DEF CTSpec

-----------------------------------------------------------------------------
(* The bus. The bound is an account: the events in a box and the threads that have
   tested it and not appended yet never exceed the bound by more than the threads. *)
\* The threads past the test of r's box.
Putting(r) == {t \in Threads : pub[t].at = "put" /\ pub[t].to = r}

Account == \A r \in Listeners : Len(box[r]) + Cardinality(Putting(r)) < Bound + Cardinality(Threads)

BusInv == BusTypeOK /\ Account /\ NeverSilenced

(* The loop alone can lose a copy, in an offer it was handed: the box it is about to
   pop is empty. Another thread emptied it then, and is about to put. *)
Refilling(t, r) == pub[t].at \in {"retry", "put"} /\ pub[t].to = r
Accompanied ==
    \A r \in Listeners : /\ pub[LoopThread].at \in {"full", "pop"} /\ pub[LoopThread].to = r
                         /\ box[r] = <<>>
                         => \E t \in Threads : Refilling(t, r)

-----------------------------------------------------------------------------
\* What a thread may be in the middle of.
LEMMA OfferShapes ==
  ASSUME BusTypeOK, NEW t \in Threads
  PROVE  \/ pub[t] = BusIdle
         \/ \E k \in EventKinds, s \in SUBSET Listeners : pub[t] = BusOffer(k, s)
         \/ \E k \in EventKinds, s \in SUBSET Listeners, a \in OfferPlace \ {"next"} :
              \E r \in s : pub[t] = OfferTo(k, s, a, r)
<1>1. pub[t] \in BusOffers
  BY DEF BusTypeOK
<1>2. ASSUME NEW k \in EventKinds, NEW s \in SUBSET Listeners, NEW a \in OfferPlace \ {"next"},
             NEW r \in Listeners, pub[t] = OfferTo(k, s, a, r)
      PROVE  r \in s
  <2>1. pub[t].at = a /\ pub[t].to = r /\ pub[t].todo = s
    BY <1>2 DEF OfferTo
  <2>2. a \notin {"idle", "next"}
    BY DEF OfferPlace
  <2>3. QED
    BY <2>1, <2>2 DEF BusTypeOK
<1>3. QED
  BY <1>1, <1>2 DEF BusOffers

\* A thread that has chosen a reader.
LEMMA Chosen ==
  ASSUME BusTypeOK, NEW t \in Threads, pub[t].at \in OfferPlace \ {"next"}
  PROVE  \E k \in EventKinds, s \in SUBSET Listeners, a \in OfferPlace \ {"next"} :
           \E r \in s : pub[t] = OfferTo(k, s, a, r)
<1>1. pub[t] # BusIdle
  BY DEF BusIdle, OfferPlace
<1>2. \A k \in EventKinds, s \in SUBSET Listeners : pub[t] # BusOffer(k, s)
  BY DEF BusOffer
<1>3. QED
  BY <1>1, <1>2, OfferShapes

LEMMA Choosing ==
  ASSUME BusTypeOK, NEW t \in Threads, pub[t].at = "next"
  PROVE  \E k \in EventKinds, s \in SUBSET Listeners : pub[t] = BusOffer(k, s)
<1>1. pub[t] # BusIdle
  BY DEF BusIdle
<1>2. \A k \in EventKinds, s \in SUBSET Listeners, a \in OfferPlace \ {"next"} :
        \A r \in s : pub[t] # OfferTo(k, s, a, r)
  BY DEF OfferTo
<1>3. QED
  BY <1>1, <1>2, OfferShapes

\* The kinds of offers are of the type the threads are in.
LEMMA OffersAreTyped ==
  ASSUME NEW k \in EventKinds, NEW s \in SUBSET Listeners
  PROVE  /\ BusIdle \in BusOffers /\ BusIdle.at = "idle"
         /\ BusOffer(k, s) \in BusOffers /\ BusOffer(k, s).at = "next"
         /\ BusOffer(k, s).kind = k /\ BusOffer(k, s).todo = s
         /\ \A a \in OfferPlace \ {"next"}, r \in Listeners :
              /\ OfferTo(k, s, a, r) \in BusOffers /\ OfferTo(k, s, a, r).at = a
              /\ OfferTo(k, s, a, r).kind = k /\ OfferTo(k, s, a, r).todo = s
              /\ OfferTo(k, s, a, r).to = r
              /\ \A b : [OfferTo(k, s, a, r) EXCEPT !.at = b] = OfferTo(k, s, b, r)
<1>1. BusIdle \in BusOffers /\ BusOffer(k, s) \in BusOffers
  BY DEF BusOffers
<1>2. BusIdle.at = "idle" /\ BusOffer(k, s).at = "next"
  BY DEF BusIdle, BusOffer
<1>3. BusOffer(k, s).kind = k /\ BusOffer(k, s).todo = s
  BY DEF BusOffer
<1>4. ASSUME NEW a \in OfferPlace \ {"next"}, NEW r \in Listeners
      PROVE  /\ OfferTo(k, s, a, r) \in BusOffers /\ OfferTo(k, s, a, r).at = a
             /\ OfferTo(k, s, a, r).kind = k /\ OfferTo(k, s, a, r).todo = s
             /\ OfferTo(k, s, a, r).to = r
             /\ \A b : [OfferTo(k, s, a, r) EXCEPT !.at = b] = OfferTo(k, s, b, r)
  <2>1. OfferTo(k, s, a, r) \in BusOffers
    BY DEF BusOffers
  <2>2. QED
    BY <2>1 DEF OfferTo
<1>5. QED
  BY <1>1, <1>2, <1>3, <1>4

\* A step of one thread to another offer keeps the types.
LEMMA PubTyped ==
  ASSUME BusTypeOK, NEW t \in Threads, NEW p \in BusOffers, pub' = [pub EXCEPT ![t] = p],
         p.at \notin {"idle", "next"} => p.to \in p.todo,
         queues' \subseteq Listeners, box' \in [Listeners -> Seq(EventKinds)],
         woken' \subseteq Listeners \X EventKinds, owed' \in [Listeners -> BOOLEAN],
         handed' \in BOOLEAN
  PROVE  BusTypeOK'
BY DEF BusTypeOK

\* What a step of a thread makes of its own offer.
LEMMA NextReaderShape ==
  ASSUME BusTypeOK, NEW t \in Threads, pub[t].at \in OfferPlace \ {"next"}, NextReader(t)
  PROVE  \E p \in BusOffers : /\ pub' = [pub EXCEPT ![t] = p]
                              /\ p.at = "next" /\ p.todo = pub[t].todo \ {pub[t].to}
                              /\ p # BusIdle
<1>1. PICK k \in EventKinds, s \in SUBSET Listeners, a \in OfferPlace \ {"next"} :
        \E r \in s : pub[t] = OfferTo(k, s, a, r)
  BY Chosen
<1>2. PICK r \in s : pub[t] = OfferTo(k, s, a, r)
  BY <1>1
<1>3. pub[t].kind = k /\ pub[t].todo = s /\ pub[t].to = r
  BY <1>2 DEF OfferTo
<1>4. pub' = [pub EXCEPT ![t] = BusOffer(k, s \ {r})]
  BY <1>3 DEF NextReader
<1>5. /\ BusOffer(k, s \ {r}) \in BusOffers /\ BusOffer(k, s \ {r}).at = "next"
      /\ BusOffer(k, s \ {r}).todo = s \ {r} /\ BusOffer(k, s \ {r}) # BusIdle
  BY OffersAreTyped DEF BusIdle
<1>6. QED
  BY <1>3, <1>4, <1>5

LEMMA GotoShape ==
  ASSUME BusTypeOK, NEW t \in Threads, pub[t].at \in OfferPlace \ {"next"},
         NEW b \in OfferPlace \ {"next"}, BusGoto(t, b)
  PROVE  \E p \in BusOffers : /\ pub' = [pub EXCEPT ![t] = p]
                              /\ p.at = b /\ p.todo = pub[t].todo /\ p.to = pub[t].to
                              /\ p # BusIdle
<1>1. PICK k \in EventKinds, s \in SUBSET Listeners, a \in OfferPlace \ {"next"} :
        \E r \in s : pub[t] = OfferTo(k, s, a, r)
  BY Chosen
<1>2. PICK r \in s : pub[t] = OfferTo(k, s, a, r)
  BY <1>1
<1>3. [pub[t] EXCEPT !.at = b] = OfferTo(k, s, b, r)
  BY <1>2, OffersAreTyped
<1>4. pub' = [pub EXCEPT ![t] = OfferTo(k, s, b, r)]
  BY <1>3 DEF BusGoto
<1>5. /\ OfferTo(k, s, b, r) \in BusOffers /\ OfferTo(k, s, b, r).at = b
      /\ OfferTo(k, s, b, r).todo = s /\ OfferTo(k, s, b, r).to = r
  BY OffersAreTyped
<1>6. OfferTo(k, s, b, r) # BusIdle
  BY <1>5 DEF OfferPlace, BusIdle
<1>7. pub[t].todo = s /\ pub[t].to = r
  BY <1>2 DEF OfferTo
<1>8. QED
  BY <1>4, <1>5, <1>6, <1>7

LEMMA TestShape ==
  ASSUME BusTypeOK, NEW t \in Threads, NEW r \in Listeners, TestBound(t, r)
  PROVE  \E p \in BusOffers : /\ pub' = [pub EXCEPT ![t] = p]
                              /\ p.at = (IF BoxFull(r) THEN "full" ELSE "put")
                              /\ p.todo = pub[t].todo /\ p.to = r /\ r \in pub[t].todo
                              /\ p # BusIdle
<1>1. PICK b \in OfferPlace \ {"next"} : b = IF BoxFull(r) THEN "full" ELSE "put"
  BY DEF OfferPlace
<1>2. pub[t].at = "next" /\ r \in pub[t].todo
  BY DEF TestBound, Where
<1>3. PICK k \in EventKinds, s \in SUBSET Listeners : pub[t] = BusOffer(k, s)
  BY <1>2, Choosing
<1>4. pub[t].kind = k /\ pub[t].todo = s
  BY <1>3 DEF BusOffer
<1>5. pub' = [pub EXCEPT ![t] = OfferTo(k, s, b, r)]
  BY <1>1, <1>4 DEF TestBound
<1>6. /\ OfferTo(k, s, b, r) \in BusOffers /\ OfferTo(k, s, b, r).at = b
      /\ OfferTo(k, s, b, r).todo = s /\ OfferTo(k, s, b, r).to = r
  BY OffersAreTyped
<1>7. OfferTo(k, s, b, r) # BusIdle
  BY <1>6 DEF OfferPlace, BusIdle
<1>8. QED
  BY <1>1, <1>2, <1>4, <1>5, <1>6, <1>7

-----------------------------------------------------------------------------
\* The three ways a step can treat the account of one reader.
LEMMA AccountKept ==
  ASSUME BusTypeOK, BusTypeOK', Account, NEW r \in Listeners,
         \/ Len(box'[r]) <= Len(box[r]) /\ Putting(r)' \subseteq Putting(r)
         \/ Len(box'[r]) < Bound
         \/ Len(box'[r]) = Len(box[r]) + 1 /\ \E t \in Putting(r) : Putting(r)' = Putting(r) \ {t}
  PROVE  Len(box'[r]) + Cardinality(Putting(r)') < Bound + Cardinality(Threads)
<1>1. Putting(r) \subseteq Threads /\ Putting(r)' \subseteq Threads
  BY DEF Putting
<1>2. IsFiniteSet(Threads) /\ Cardinality(Threads) \in Nat /\ Bound \in Nat \ {0}
  BY BusAssumption, FS_CardinalityType
<1>3. IsFiniteSet(Putting(r)) /\ IsFiniteSet(Putting(r)')
  BY <1>1, <1>2, FS_Subset
<1>4. /\ Cardinality(Putting(r)) \in Nat /\ Cardinality(Putting(r)') \in Nat
      /\ Cardinality(Putting(r)') <= Cardinality(Threads)
  BY <1>1, <1>2, <1>3, FS_CardinalityType, FS_Subset
<1>5. Len(box[r]) \in Nat /\ Len(box'[r]) \in Nat
  <2>1. box[r] \in Seq(EventKinds) /\ box'[r] \in Seq(EventKinds)
    BY DEF BusTypeOK
  <2>2. QED
    BY <2>1
<1>6. Len(box[r]) + Cardinality(Putting(r)) < Bound + Cardinality(Threads)
  BY DEF Account
<1>7. CASE Len(box'[r]) <= Len(box[r]) /\ Putting(r)' \subseteq Putting(r)
  <2>1. Cardinality(Putting(r)') <= Cardinality(Putting(r))
    BY <1>3, <1>7, FS_Subset
  <2>2. QED
    BY <1>2, <1>4, <1>5, <1>6, <1>7, <2>1
<1>8. CASE Len(box'[r]) < Bound
  BY <1>2, <1>4, <1>5, <1>8
<1>9. CASE Len(box'[r]) = Len(box[r]) + 1 /\ \E t \in Putting(r) : Putting(r)' = Putting(r) \ {t}
  <2>1. PICK t \in Putting(r) : Putting(r)' = Putting(r) \ {t}
    BY <1>9
  <2>2. Cardinality(Putting(r)') = Cardinality(Putting(r)) - 1
    BY <1>3, <2>1, FS_RemoveElement
  <2>3. QED
    BY <1>2, <1>4, <1>5, <1>6, <1>9, <2>2
<1>10. QED
  BY <1>7, <1>8, <1>9

\* A thread that moves away from "put", or was not there, adds nobody.
LEMMA PuttingShrinks ==
  ASSUME BusTypeOK, NEW t \in Threads, NEW p, pub' = [pub EXCEPT ![t] = p], p.at # "put",
         NEW r \in Listeners
  PROVE  Putting(r)' = Putting(r) \ {t}
BY DEF Putting, BusTypeOK

\* Who had something on its way still has, when a thread goes on with the same readers.
LEMMA StillOnItsWay ==
  ASSUME BusTypeOK, NEW t \in Threads, NEW p, pub' = [pub EXCEPT ![t] = p], p # BusIdle,
         NEW r \in Listeners, r \in pub[t].todo => r \in p.todo, woken \subseteq woken', OnItsWay(r)
  PROVE  OnItsWay(r)'
<1>1. \A u \in Threads : pub'[u] = IF u = t THEN p ELSE pub[u]
  BY DEF BusTypeOK
<1>2. CASE \E k \in EventKinds : <<r, k>> \in woken
  BY <1>2 DEF OnItsWay
<1>3. ASSUME NEW u \in Threads, pub[u] # BusIdle, r \in pub[u].todo
      PROVE  pub'[u] # BusIdle /\ r \in pub'[u].todo
  BY <1>1, <1>3
<1>4. QED
  BY <1>2, <1>3 DEF OnItsWay

-----------------------------------------------------------------------------
\* The reader's steps.
LEMMA ReaderStep ==
  ASSUME BusInv, NEW r \in Listeners, BusSubscribe(r) \/ BusUnsubscribe(r) \/ BusTake(r)
  PROVE  BusInv'
<1>1. BusTypeOK /\ Account /\ NeverSilenced
  BY DEF BusInv
<1>2. UNCHANGED <<pub, woken, handed>> /\ \A l \in Listeners : Putting(l)' = Putting(l) /\ OnItsWay(l)' = OnItsWay(l)
  BY DEF BusSubscribe, BusUnsubscribe, BusTake, Putting, OnItsWay
<1>3. \A l \in Listeners : box[l] \in Seq(EventKinds)
  BY <1>1 DEF BusTypeOK
<1>4. CASE BusSubscribe(r)
  <2>1. box' = [box EXCEPT ![r] = <<>>] /\ owed' = [owed EXCEPT ![r] = FALSE] /\ queues' = queues \union {r}
    BY <1>4 DEF BusSubscribe
  <2>2. BusTypeOK'
    BY <1>1, <1>2, <2>1 DEF BusTypeOK
  <2>3. \A l \in Listeners : box'[l] = (IF l = r THEN <<>> ELSE box[l]) /\ owed'[l] = (IF l = r THEN FALSE ELSE owed[l])
    BY <1>1, <2>1 DEF BusTypeOK
  <2>4. Account'
    <3>1. ASSUME NEW l \in Listeners
          PROVE  Len(box'[l]) <= Len(box[l])
      <4>1. Len(box[l]) \in Nat /\ Len(<<>>) = 0
        BY <1>3
      <4>2. box'[l] = <<>> \/ box'[l] = box[l]
        BY <2>3
      <4>3. QED
        BY <4>1, <4>2
    <3>2. QED
      BY <1>1, <1>2, <2>2, <3>1, AccountKept DEF Account
  <2>5. NeverSilenced'
    BY <1>1, <1>2, <2>3 DEF NeverSilenced
  <2>6. QED
    BY <2>2, <2>4, <2>5 DEF BusInv
<1>5. CASE BusUnsubscribe(r)
  <2>1. UNCHANGED <<box, owed>> /\ queues' \subseteq queues
    BY <1>5 DEF BusUnsubscribe
  <2>2. BusTypeOK'
    BY <1>1, <1>2, <2>1 DEF BusTypeOK
  <2>3. Account'
    BY <1>1, <1>2, <2>1 DEF Account
  <2>4. NeverSilenced'
    BY <1>1, <1>2, <2>1 DEF NeverSilenced
  <2>5. QED
    BY <2>2, <2>3, <2>4 DEF BusInv
<1>6. CASE BusTake(r)
  <2>1. /\ box[r] # <<>> /\ box' = [box EXCEPT ![r] = Tail(@)] /\ owed' = [owed EXCEPT ![r] = FALSE]
        /\ UNCHANGED queues
    BY <1>6 DEF BusTake
  <2>2. Tail(box[r]) \in Seq(EventKinds) /\ Len(Tail(box[r])) <= Len(box[r])
    BY <1>3, <2>1
  <2>3. BusTypeOK'
    BY <1>1, <1>2, <2>1, <2>2 DEF BusTypeOK
  <2>4. \A l \in Listeners : box'[l] = (IF l = r THEN Tail(box[r]) ELSE box[l]) /\ owed'[l] = (IF l = r THEN FALSE ELSE owed[l])
    BY <1>1, <2>1 DEF BusTypeOK
  <2>5. Account'
    <3>1. ASSUME NEW l \in Listeners
          PROVE  Len(box'[l]) <= Len(box[l])
      <4>1. Len(box[l]) \in Nat
        BY <1>3
      <4>2. CASE l = r
        BY <2>2, <2>4, <4>2
      <4>3. CASE l # r
        <5>1. box'[l] = box[l]
          BY <2>4, <4>3
        <5>2. QED
          BY <4>1, <5>1
      <4>4. QED
        BY <4>2, <4>3
    <3>2. QED
      BY <1>1, <1>2, <2>3, <3>1, AccountKept DEF Account
  <2>6. NeverSilenced'
    BY <1>1, <1>2, <2>4 DEF NeverSilenced
  <2>7. QED
    BY <2>3, <2>5, <2>6 DEF BusInv
<1>7. QED
  BY <1>4, <1>5, <1>6

\* A thread goes to another place and touches no box.
LEMMA MoveStep ==
  ASSUME BusInv, NEW t \in Threads, NEW p \in BusOffers, pub' = [pub EXCEPT ![t] = p],
         p.at \notin {"idle", "next"} => p.to \in p.todo,
         UNCHANGED <<box, owed>>, queues' = queues, handed' \in BOOLEAN,
         woken' \subseteq Listeners \X EventKinds,
         p.at = "put" => Len(box[p.to]) < Bound,
         \A r \in Listeners : owed[r] /\ OnItsWay(r) => box[r] # <<>> \/ OnItsWay(r)'
  PROVE  BusInv'
<1>1. BusTypeOK /\ Account /\ NeverSilenced
  BY DEF BusInv
<1>2. BusTypeOK'
  <2>1. queues \subseteq Listeners /\ box \in [Listeners -> Seq(EventKinds)] /\ owed \in [Listeners -> BOOLEAN]
    BY <1>1 DEF BusTypeOK
  <2>2. QED
    BY <1>1, <2>1, PubTyped
<1>3. Account'
  <2>1. ASSUME NEW r \in Listeners
        PROVE  Len(box'[r]) < Bound \/ Putting(r)' \subseteq Putting(r)
    BY <1>1 DEF Putting, BusTypeOK
  <2>2. \A r \in Listeners : Len(box'[r]) <= Len(box[r])
    <3>1. \A r \in Listeners : box[r] \in Seq(EventKinds)
      BY <1>1 DEF BusTypeOK
    <3>2. QED
      BY <3>1
  <2>3. QED
    BY <1>1, <1>2, <2>1, <2>2, AccountKept DEF Account
<1>4. NeverSilenced'
  BY <1>1 DEF NeverSilenced
<1>5. QED
  BY <1>2, <1>3, <1>4 DEF BusInv

\* The step that appends.
LEMMA AppendStep ==
  ASSUME BusInv, NEW t \in Threads, AppendCopy(t)
  PROVE  BusInv'
<1>1. BusTypeOK /\ Account /\ NeverSilenced
  BY DEF BusInv
<1>2. pub[t].at = "put" /\ pub[t].at \in OfferPlace \ {"next"}
  BY DEF AppendCopy, Where, OfferPlace
<1>3. PICK k \in EventKinds, s \in SUBSET Listeners, a \in OfferPlace \ {"next"} :
        \E r \in s : pub[t] = OfferTo(k, s, a, r)
  BY <1>1, <1>2, Chosen
<1>4. PICK r \in Listeners : r \in s /\ pub[t] = OfferTo(k, s, a, r)
  BY <1>3
<1>5. pub[t].kind = k /\ pub[t].todo = s /\ pub[t].to = r
  BY <1>4 DEF OfferTo
<1>6. /\ box' = [box EXCEPT ![r] = Append(@, k)] /\ owed' = [owed EXCEPT ![r] = TRUE]
      /\ UNCHANGED <<queues, woken, handed>>
  BY <1>5 DEF AppendCopy
<1>7. PICK p \in BusOffers : /\ pub' = [pub EXCEPT ![t] = p]
                             /\ p.at = "next" /\ p.todo = s \ {r} /\ p # BusIdle
  BY <1>1, <1>2, <1>5, NextReaderShape DEF AppendCopy
<1>8. /\ box[r] \in Seq(EventKinds) /\ Append(box[r], k) \in Seq(EventKinds)
      /\ Len(Append(box[r], k)) = Len(box[r]) + 1 /\ Append(box[r], k) # <<>>
  <2>1. box[r] \in Seq(EventKinds)
    BY <1>1 DEF BusTypeOK
  <2>2. QED
    BY <2>1
<1>9. \A l \in Listeners : /\ box'[l] = (IF l = r THEN Append(box[r], k) ELSE box[l])
                           /\ owed'[l] = (IF l = r THEN TRUE ELSE owed[l])
  BY <1>1, <1>6 DEF BusTypeOK
<1>10. BusTypeOK'
  <2>1. /\ box' \in [Listeners -> Seq(EventKinds)] /\ owed' \in [Listeners -> BOOLEAN]
        /\ queues' \subseteq Listeners /\ woken' \subseteq Listeners \X EventKinds
        /\ handed' \in BOOLEAN
    BY <1>1, <1>6, <1>8 DEF BusTypeOK
  <2>2. QED
    BY <1>1, <1>7, <2>1, PubTyped
<1>11. Account'
  <2>1. \A l \in Listeners : Putting(l)' = Putting(l) \ {t}
    BY <1>1, <1>7, PuttingShrinks
  <2>2. t \in Putting(r)
    BY <1>2, <1>5 DEF Putting
  <2>3. Len(box'[r]) = Len(box[r]) + 1 /\ \E u \in Putting(r) : Putting(r)' = Putting(r) \ {u}
    BY <1>8, <1>9, <2>1, <2>2
  <2>4. ASSUME NEW l \in Listeners, l # r
        PROVE  Len(box'[l]) <= Len(box[l]) /\ Putting(l)' \subseteq Putting(l)
    <3>1. box[l] \in Seq(EventKinds) /\ box'[l] = box[l]
      BY <1>1, <1>9, <2>4 DEF BusTypeOK
    <3>2. QED
      BY <2>1, <3>1
  <2>5. QED
    BY <1>1, <1>10, <2>3, <2>4, AccountKept DEF Account
<1>12. NeverSilenced'
  <2>1. ASSUME NEW l \in Listeners, owed'[l]
        PROVE  box'[l] # <<>> \/ OnItsWay(l)'
    <3>1. CASE l = r
      BY <1>8, <1>9, <3>1
    <3>2. CASE l # r
      <4>1. owed[l] /\ box'[l] = box[l]
        BY <1>9, <2>1, <3>2
      <4>2. l \in pub[t].todo => l \in p.todo
        BY <1>5, <1>7, <3>2
      <4>3. OnItsWay(l) => OnItsWay(l)'
        BY <1>1, <1>6, <1>7, <4>2, StillOnItsWay
      <4>4. QED
        BY <1>1, <4>1, <4>3 DEF NeverSilenced
    <3>3. QED
      BY <3>1, <3>2
  <2>2. QED
    BY <2>1 DEF NeverSilenced
<1>13. QED
  BY <1>10, <1>11, <1>12 DEF BusInv

\* The step that takes the oldest event out.
LEMMA DropStep ==
  ASSUME BusInv, NEW t \in Threads, DropOldest(t)
  PROVE  BusInv'
<1>1. BusTypeOK /\ Account /\ NeverSilenced
  BY DEF BusInv
<1>2. pub[t].at = "pop" /\ pub[t].at \in OfferPlace \ {"next"} /\ "retry" \in OfferPlace \ {"next"}
  BY DEF DropOldest, Where, OfferPlace
<1>3. PICK r \in Listeners : r = pub[t].to /\ r \in pub[t].todo
  <2>1. PICK k \in EventKinds, s \in SUBSET Listeners, a \in OfferPlace \ {"next"} :
          \E r \in s : pub[t] = OfferTo(k, s, a, r)
    BY <1>1, <1>2, Chosen
  <2>2. QED
    BY <2>1 DEF OfferTo
<1>4. PICK p \in BusOffers : /\ pub' = [pub EXCEPT ![t] = p]
                             /\ p.at = "retry" /\ p.todo = pub[t].todo /\ p.to = pub[t].to
                             /\ p # BusIdle
  BY <1>1, <1>2, GotoShape DEF DropOldest
<1>5. /\ box[r] # <<>> /\ box' = [box EXCEPT ![r] = Tail(@)]
      /\ UNCHANGED <<queues, woken, handed, owed>>
  BY <1>3 DEF DropOldest
<1>6. \A l \in Listeners : box[l] \in Seq(EventKinds) /\ Len(box[l]) \in Nat
  <2>1. \A l \in Listeners : box[l] \in Seq(EventKinds)
    BY <1>1 DEF BusTypeOK
  <2>2. QED
    BY <2>1
<1>7. Tail(box[r]) \in Seq(EventKinds) /\ Len(Tail(box[r])) <= Len(box[r])
  BY <1>5, <1>6
<1>8. \A l \in Listeners : box'[l] = IF l = r THEN Tail(box[r]) ELSE box[l]
  BY <1>1, <1>5 DEF BusTypeOK
<1>9. BusTypeOK'
  <2>1. /\ box' \in [Listeners -> Seq(EventKinds)] /\ owed' \in [Listeners -> BOOLEAN]
        /\ queues' \subseteq Listeners /\ woken' \subseteq Listeners \X EventKinds
        /\ handed' \in BOOLEAN
    BY <1>1, <1>5, <1>7 DEF BusTypeOK
  <2>2. QED
    BY <1>1, <1>3, <1>4, <2>1, PubTyped
<1>10. Account'
  <2>1. ASSUME NEW l \in Listeners
        PROVE  Len(box'[l]) <= Len(box[l])
    <3>1. CASE l = r
      BY <1>7, <1>8, <3>1
    <3>2. CASE l # r
      BY <1>6, <1>8, <3>2
    <3>3. QED
      BY <3>1, <3>2
  <2>2. \A l \in Listeners : Putting(l)' \subseteq Putting(l)
    BY <1>1, <1>4, PuttingShrinks
  <2>3. QED
    BY <1>1, <1>9, <2>1, <2>2, AccountKept DEF Account
<1>11. NeverSilenced'
  <2>1. ASSUME NEW l \in Listeners, owed'[l]
        PROVE  box'[l] # <<>> \/ OnItsWay(l)'
    <3>1. OnItsWay(l) => OnItsWay(l)'
      BY <1>1, <1>4, <1>5, StillOnItsWay
    <3>2. OnItsWay(r)
      <4>1. pub[t] # BusIdle
        BY <1>2 DEF BusIdle
      <4>2. QED
        BY <1>3, <4>1 DEF OnItsWay
    <3>3. l # r => box'[l] = box[l]
      BY <1>8
    <3>4. QED
      BY <1>1, <1>5, <2>1, <3>1, <3>2, <3>3 DEF NeverSilenced
  <2>2. QED
    BY <2>1 DEF NeverSilenced
<1>12. QED
  BY <1>9, <1>10, <1>11 DEF BusInv

\* The step that finds a full box again and gives the copy up.
LEMMA DroppedStep ==
  ASSUME BusInv, NEW t \in Threads, CopyDropped(t)
  PROVE  BusInv'
<1>1. BusTypeOK /\ Account /\ NeverSilenced
  BY DEF BusInv
<1>2. pub[t].at = "retry" /\ pub[t].at \in OfferPlace \ {"next"}
  BY DEF CopyDropped, Where, OfferPlace
<1>3. PICK r \in Listeners : r = pub[t].to
  <2>1. PICK k \in EventKinds, s \in SUBSET Listeners, a \in OfferPlace \ {"next"} :
          \E r \in s : pub[t] = OfferTo(k, s, a, r)
    BY <1>1, <1>2, Chosen
  <2>2. QED
    BY <2>1 DEF OfferTo
<1>4. PICK p \in BusOffers : /\ pub' = [pub EXCEPT ![t] = p]
                             /\ p.at = "next" /\ p.todo = pub[t].todo \ {pub[t].to}
                             /\ p # BusIdle
  BY <1>1, <1>2, NextReaderShape DEF CopyDropped
<1>5. owed' = [owed EXCEPT ![r] = TRUE] /\ UNCHANGED <<queues, box, woken, handed>> /\ BoxFull(r)
  BY <1>3 DEF CopyDropped
<1>6. BusTypeOK'
  <2>1. /\ box' \in [Listeners -> Seq(EventKinds)] /\ owed' \in [Listeners -> BOOLEAN]
        /\ queues' \subseteq Listeners /\ woken' \subseteq Listeners \X EventKinds
        /\ handed' \in BOOLEAN
    BY <1>1, <1>5 DEF BusTypeOK
  <2>2. QED
    BY <1>1, <1>4, <2>1, PubTyped
<1>7. Account'
  <2>1. \A l \in Listeners : Putting(l)' \subseteq Putting(l)
    <3>1. p.at # "put" /\ pub' = [pub EXCEPT ![t] = p]
      BY <1>4
    <3>2. \A l \in Listeners : Putting(l)' = Putting(l) \ {t}
      BY <1>1, <3>1, PuttingShrinks
    <3>3. QED
      BY <3>2
  <2>2. \A l \in Listeners : Len(box'[l]) <= Len(box[l])
    <3>1. \A l \in Listeners : box[l] \in Seq(EventKinds)
      BY <1>1 DEF BusTypeOK
    <3>2. QED
      BY <1>5, <3>1
  <2>3. QED
    BY <1>1, <1>6, <2>1, <2>2, AccountKept DEF Account
<1>8. box[r] # <<>>
  <2>1. Bound \in Nat \ {0} /\ Len(box[r]) >= Bound
    BY <1>5, BusAssumption DEF BoxFull
  <2>2. Len(<<>>) = 0
    OBVIOUS
  <2>3. QED
    BY <2>1, <2>2
<1>9. NeverSilenced'
  <2>1. ASSUME NEW l \in Listeners, owed'[l]
        PROVE  box'[l] # <<>> \/ OnItsWay(l)'
    <3>1. CASE l = r
      BY <1>5, <1>8, <3>1
    <3>2. CASE l # r
      <4>1. owed[l]
        BY <1>1, <1>5, <2>1, <3>2 DEF BusTypeOK
      <4>2. l \in pub[t].todo => l \in p.todo
        BY <1>3, <1>4, <3>2
      <4>3. OnItsWay(l) => OnItsWay(l)'
        BY <1>1, <1>4, <1>5, <4>2, StillOnItsWay
      <4>4. QED
        BY <1>1, <1>5, <4>1, <4>3 DEF NeverSilenced
    <3>3. QED
      BY <3>1, <3>2
  <2>2. QED
    BY <2>1 DEF NeverSilenced
<1>10. QED
  BY <1>6, <1>7, <1>9 DEF BusInv

-----------------------------------------------------------------------------
\* A publish begins, with a list that may be empty: whoever had something on its
\* way has it still, for the thread was idle.
LEMMA BeginStep ==
  ASSUME BusInv, NEW t \in Threads, NEW k \in EventKinds, NEW s \in SUBSET Listeners,
         pub[t] = BusIdle, pub' = [pub EXCEPT ![t] = BusOffer(k, s)],
         UNCHANGED <<queues, box, owed>>, woken' \subseteq woken, handed' \in BOOLEAN,
         \A r \in Listeners, e \in EventKinds : <<r, e>> \in woken => <<r, e>> \in woken' \/ r \in s
  PROVE  BusInv'
<1>1. BusTypeOK
  BY DEF BusInv
<1>2. /\ BusOffer(k, s) \in BusOffers /\ BusOffer(k, s).at = "next" /\ BusOffer(k, s).todo = s
      /\ BusOffer(k, s) # BusIdle
  BY OffersAreTyped DEF BusIdle
<1>3. \A u \in Threads : pub'[u] = IF u = t THEN BusOffer(k, s) ELSE pub[u]
  BY <1>1 DEF BusTypeOK
<1>4. ASSUME NEW r \in Listeners, OnItsWay(r)
      PROVE  OnItsWay(r)'
  <2>1. CASE r \in s
    BY <1>2, <1>3, <2>1 DEF OnItsWay
  <2>2. CASE \E e \in EventKinds : <<r, e>> \in woken'
    BY <2>2 DEF OnItsWay
  <2>3. CASE r \notin s /\ ~(\E e \in EventKinds : <<r, e>> \in woken')
    <3>1. PICK u \in Threads : pub[u] # BusIdle /\ r \in pub[u].todo
      BY <1>4, <2>3 DEF OnItsWay
    <3>2. pub'[u] = pub[u]
      BY <1>3, <3>1
    <3>3. QED
      BY <3>1, <3>2 DEF OnItsWay
  <2>4. QED
    BY <2>1, <2>2, <2>3
<1>5. woken' \subseteq Listeners \X EventKinds
  BY <1>1 DEF BusTypeOK
<1>6. QED
  BY <1>2, <1>4, <1>5, MoveStep

\* The steps in which a thread only goes on.
LEMMA GoOnStep ==
  ASSUME BusInv, NEW t \in Threads,
         Published(t) \/ TestEmpty(t) \/ RetryPut(t) \/ OfferRaises(t) \/ \E r \in Listeners : TestBound(t, r)
  PROVE  BusInv'
<1>1. BusTypeOK /\ NeverSilenced
  BY DEF BusInv
<1>2. CASE Published(t)
  <2>1. /\ pub[t].todo = {} /\ pub' = [pub EXCEPT ![t] = BusIdle]
        /\ UNCHANGED <<queues, box, woken, owed>> /\ handed' \in BOOLEAN
    BY <1>1, <1>2 DEF Published, BusTypeOK
  <2>2. BusIdle \in BusOffers /\ BusIdle.at = "idle"
    BY DEF BusOffers, BusIdle
  <2>3. \A u \in Threads : pub'[u] = IF u = t THEN BusIdle ELSE pub[u]
    BY <1>1, <2>1 DEF BusTypeOK
  <2>4. ASSUME NEW r \in Listeners, OnItsWay(r)
        PROVE  OnItsWay(r)'
    <3>1. CASE \E e \in EventKinds : <<r, e>> \in woken
      BY <2>1, <3>1 DEF OnItsWay
    <3>2. ASSUME NEW u \in Threads, pub[u] # BusIdle, r \in pub[u].todo
          PROVE  pub'[u] # BusIdle /\ r \in pub'[u].todo
      BY <2>1, <2>3, <3>2
    <3>3. QED
      BY <2>4, <3>1, <3>2 DEF OnItsWay
  <2>5. woken' \subseteq Listeners \X EventKinds
    BY <1>1, <2>1 DEF BusTypeOK
  <2>6. QED
    BY <2>1, <2>2, <2>4, <2>5, MoveStep
<1>3. CASE TestEmpty(t)
  <2>1. pub[t].at = "full" /\ pub[t].at \in OfferPlace \ {"next"}
    BY <1>3 DEF TestEmpty, Where, OfferPlace
  <2>2. PICK b \in {"retry", "pop"} : BusGoto(t, b)
    BY <1>3 DEF TestEmpty
  <2>3. b \in OfferPlace \ {"next"}
    BY DEF OfferPlace
  <2>4. PICK p \in BusOffers : /\ pub' = [pub EXCEPT ![t] = p]
                               /\ p.at = b /\ p.todo = pub[t].todo /\ p.to = pub[t].to
                               /\ p # BusIdle
    BY <1>1, <2>1, <2>2, <2>3, GotoShape
  <2>5. UNCHANGED <<queues, box, woken, owed>> /\ handed' \in BOOLEAN
    BY <1>1, <1>3 DEF TestEmpty, BusTypeOK
  <2>6. p.to \in p.todo
    BY <1>1, <2>1, <2>4 DEF BusTypeOK
  <2>7. woken' \subseteq Listeners \X EventKinds
    BY <1>1, <2>5 DEF BusTypeOK
  <2>8. \A r \in Listeners : OnItsWay(r) => OnItsWay(r)'
    BY <1>1, <2>4, <2>5, StillOnItsWay
  <2>9. p.at # "put"
    BY <2>4
  <2>10. QED
    BY <2>4, <2>5, <2>6, <2>7, <2>8, <2>9, MoveStep
<1>4. CASE RetryPut(t)
  <2>1. pub[t].at = "retry" /\ pub[t].at \in OfferPlace \ {"next"} /\ "put" \in OfferPlace \ {"next"}
    BY <1>4 DEF RetryPut, Where, OfferPlace
  <2>2. PICK p \in BusOffers : /\ pub' = [pub EXCEPT ![t] = p]
                               /\ p.at = "put" /\ p.todo = pub[t].todo /\ p.to = pub[t].to
                               /\ p # BusIdle
    BY <1>1, <1>4, <2>1, GotoShape DEF RetryPut
  <2>3. UNCHANGED <<queues, box, woken, owed>> /\ handed' \in BOOLEAN /\ ~BoxFull(p.to)
    BY <1>1, <1>4, <2>2 DEF RetryPut, BusTypeOK
  <2>4. p.to \in p.todo /\ p.to \in Listeners
    <3>1. PICK k \in EventKinds, s \in SUBSET Listeners, a \in OfferPlace \ {"next"} :
            \E r \in s : pub[t] = OfferTo(k, s, a, r)
      BY <1>1, <2>1, Chosen
    <3>2. QED
      BY <2>2, <3>1 DEF OfferTo
  <2>5. Len(box[p.to]) < Bound
    <3>1. box[p.to] \in Seq(EventKinds)
      BY <1>1, <2>4 DEF BusTypeOK
    <3>2. Len(box[p.to]) \in Nat /\ Bound \in Nat
      BY <3>1, BusAssumption
    <3>3. QED
      BY <2>3, <3>2 DEF BoxFull
  <2>6. woken' \subseteq Listeners \X EventKinds
    BY <1>1, <2>3 DEF BusTypeOK
  <2>7. \A r \in Listeners : OnItsWay(r) => OnItsWay(r)'
    BY <1>1, <2>2, <2>3, StillOnItsWay
  <2>8. QED
    BY <2>2, <2>3, <2>4, <2>5, <2>6, <2>7, MoveStep
<1>5. CASE OfferRaises(t)
  <2>1. pub[t].at = "pop" /\ pub[t].at \in OfferPlace \ {"next"}
    BY <1>5 DEF OfferRaises, Where, OfferPlace
  <2>2. PICK k \in EventKinds, to \in Listeners : pub[t].kind = k /\ pub[t].to = to
    <3>1. PICK k \in EventKinds, s \in SUBSET Listeners, a \in OfferPlace \ {"next"} :
            \E r \in s : pub[t] = OfferTo(k, s, a, r)
      BY <1>1, <2>1, Chosen
    <3>2. QED
      BY <3>1 DEF OfferTo
  <2>3. PICK p \in BusOffers : /\ pub' = [pub EXCEPT ![t] = p]
                               /\ p.at = "next" /\ p.todo = pub[t].todo \ {pub[t].to}
                               /\ p # BusIdle
    BY <1>1, <1>5, <2>1, NextReaderShape DEF OfferRaises
  <2>4. UNCHANGED <<queues, box, owed>> /\ handed' \in BOOLEAN /\ woken' = woken \union {<<to, k>>}
    BY <1>1, <1>5, <2>2 DEF OfferRaises, BusTypeOK
  <2>5. woken' \subseteq Listeners \X EventKinds
    BY <1>1, <2>4 DEF BusTypeOK
  <2>6. ASSUME NEW r \in Listeners, OnItsWay(r)
        PROVE  OnItsWay(r)'
    <3>1. CASE r = to
      BY <2>4, <3>1 DEF OnItsWay
    <3>2. CASE r # to
      <4>1. r \in pub[t].todo => r \in p.todo
        BY <2>2, <2>3, <3>2
      <4>2. QED
        BY <1>1, <2>3, <2>4, <2>6, <4>1, StillOnItsWay
    <3>3. QED
      BY <3>1, <3>2
  <2>7. QED
    BY <2>3, <2>4, <2>5, <2>6, MoveStep
<1>6. ASSUME NEW r \in Listeners, TestBound(t, r)
      PROVE  BusInv'
  <2>1. PICK p \in BusOffers : /\ pub' = [pub EXCEPT ![t] = p]
                               /\ p.at = (IF BoxFull(r) THEN "full" ELSE "put")
                               /\ p.todo = pub[t].todo /\ p.to = r /\ r \in pub[t].todo
                               /\ p # BusIdle
    BY <1>1, <1>6, TestShape
  <2>2. UNCHANGED <<queues, box, woken, owed>> /\ handed' \in BOOLEAN
    BY <1>1, <1>6 DEF TestBound, BusTypeOK
  <2>3. p.at = "put" => ~BoxFull(r)
    BY <2>1
  <2>4. ~BoxFull(r) => Len(box[r]) < Bound
    <3>1. box[r] \in Seq(EventKinds)
      BY <1>1 DEF BusTypeOK
    <3>2. Len(box[r]) \in Nat /\ Bound \in Nat
      BY <3>1, BusAssumption
    <3>3. QED
      BY <3>2 DEF BoxFull
  <2>5. woken' \subseteq Listeners \X EventKinds
    BY <1>1, <2>2 DEF BusTypeOK
  <2>6. \A l \in Listeners : OnItsWay(l) => OnItsWay(l)'
    BY <1>1, <2>1, <2>2, StillOnItsWay
  <2>7. p.at = "put" => Len(box[p.to]) < Bound
    BY <2>1, <2>3, <2>4
  <2>8. QED
    BY <2>1, <2>2, <2>5, <2>6, <2>7, MoveStep
<1>7. QED
  BY <1>2, <1>3, <1>4, <1>5, <1>6

-----------------------------------------------------------------------------
\* A thread moves on: the box of a reader is not empty, or who was about to put still
\* is, or the thread itself is.
LEMMA StillAccompanied ==
  ASSUME BusTypeOK, Accompanied, NEW t \in Threads, NEW p, pub' = [pub EXCEPT ![t] = p],
         \A r \in Listeners : \/ box'[r] # <<>>
                              \/ Refilling(t, r)'
                              \/ (box'[r] = box[r] /\ ~Refilling(t, r)),
         t = LoopThread => p.at \notin {"full", "pop"} \/ box'[p.to] # <<>>
  PROVE  Accompanied'
<1>1. \A u \in Threads : pub'[u] = IF u = t THEN p ELSE pub[u]
  BY DEF BusTypeOK
<1>2. ASSUME NEW r \in Listeners, pub'[LoopThread].at \in {"full", "pop"}, pub'[LoopThread].to = r,
             box'[r] = <<>>
      PROVE  \E u \in Threads : Refilling(u, r)'
  <2>1. LoopThread \in Threads /\ LoopThread # t
    BY <1>1, <1>2, BusAssumption
  <2>2. CASE Refilling(t, r)'
    BY <2>2
  <2>3. CASE box[r] = <<>> /\ ~Refilling(t, r)
    <3>1. PICK u \in Threads : Refilling(u, r)
      BY <1>1, <1>2, <2>1, <2>3 DEF Accompanied
    <3>2. u # t /\ pub'[u] = pub[u]
      BY <1>1, <2>3, <3>1
    <3>3. QED
      BY <3>1, <3>2 DEF Refilling
  <2>4. QED
    BY <1>2, <2>2, <2>3
<1>3. QED
  BY <1>2 DEF Accompanied

LEMMA CompanyStep ==
  ASSUME BusTypeOK, Accompanied, [BusNext]_busVars
  PROVE  Accompanied'
<1>1. ASSUME NEW r \in Listeners, BusSubscribe(r) \/ BusUnsubscribe(r) \/ BusTake(r)
      PROVE  Accompanied'
  <2>1. pub[LoopThread] = BusIdle /\ UNCHANGED pub
    BY <1>1 DEF BusSubscribe, BusUnsubscribe, BusTake, LoopFree
  <2>2. QED
    BY <2>1 DEF Accompanied, BusIdle
<1>2. ASSUME NEW t \in Threads, NEW p, pub' = [pub EXCEPT ![t] = p], p.at \in {"idle", "next"},
             pub[t].at \notin {"retry", "put"}, UNCHANGED box
      PROVE  Accompanied'
  BY <1>2, StillAccompanied DEF Refilling
<1>3. ASSUME NEW t \in Threads, NEW k \in EventKinds, BusPublish(t, k)
      PROVE  Accompanied'
  <2>1. BusOffer(k, queues).at = "next" /\ BusIdle.at = "idle"
    BY DEF BusOffer, BusIdle
  <2>2. pub[t] = BusIdle /\ pub' = [pub EXCEPT ![t] = BusOffer(k, queues)] /\ UNCHANGED box
    BY <1>3 DEF BusPublish
  <2>3. QED
    BY <1>2, <2>1, <2>2
<1>4. ASSUME NEW r \in Listeners, NEW k \in EventKinds, Woken(r, k)
      PROVE  Accompanied'
  <2>1. BusOffer(k, {r}).at = "next" /\ BusIdle.at = "idle" /\ LoopThread \in Threads
    BY BusAssumption DEF BusOffer, BusIdle
  <2>2. /\ pub[LoopThread] = BusIdle /\ pub' = [pub EXCEPT ![LoopThread] = BusOffer(k, {r})]
        /\ UNCHANGED box
    BY <1>4 DEF Woken, LoopFree
  <2>3. QED
    BY <1>2, <2>1, <2>2
<1>5. ASSUME NEW t \in Threads, Published(t)
      PROVE  Accompanied'
  <2>1. pub[t].at = "next" /\ pub' = [pub EXCEPT ![t] = BusIdle] /\ UNCHANGED box /\ BusIdle.at = "idle"
    BY <1>5 DEF Published, Where, BusIdle
  <2>2. QED
    BY <1>2, <2>1
<1>6. ASSUME NEW t \in Threads, NEW r \in Listeners, TestBound(t, r)
      PROVE  Accompanied'
  <2>1. PICK p \in BusOffers : /\ pub' = [pub EXCEPT ![t] = p] /\ p.to = r
                               /\ p.at = IF BoxFull(r) THEN "full" ELSE "put"
    BY <1>6, TestShape
  <2>2. pub[t].at = "next" /\ UNCHANGED box
    BY <1>6 DEF TestBound, Where
  <2>3. BoxFull(r) => box[r] # <<>>
    <3>1. Bound \in Nat \ {0} /\ Len(<<>>) = 0
      BY BusAssumption
    <3>2. QED
      BY <3>1 DEF BoxFull
  <2>4. p.at \notin {"full", "pop"} \/ box'[p.to] # <<>>
    BY <2>1, <2>2, <2>3
  <2>5. \A l \in Listeners : box'[l] = box[l] /\ ~Refilling(t, l)
    BY <2>2 DEF Refilling
  <2>6. QED
    BY <2>1, <2>4, <2>5, StillAccompanied
<1>7. ASSUME NEW t \in Threads, pub[t].at \in OfferPlace \ {"next"}, NextReader(t),
             \A l \in Listeners : box'[l] # <<>> \/ (box'[l] = box[l] /\ ~Refilling(t, l))
      PROVE  Accompanied'
  <2>1. PICK p \in BusOffers : pub' = [pub EXCEPT ![t] = p] /\ p.at = "next"
    BY <1>7, NextReaderShape
  <2>2. QED
    BY <1>7, <2>1, StillAccompanied
<1>8. ASSUME NEW t \in Threads, OfferRaises(t) \/ CopyLost(t)
      PROVE  Accompanied'
  <2>1. pub[t].at = "pop" /\ "pop" \in OfferPlace \ {"next"} /\ NextReader(t) /\ UNCHANGED box
    BY <1>8 DEF OfferRaises, CopyLost, Where, OfferPlace
  <2>2. \A l \in Listeners : ~Refilling(t, l)
    BY <2>1 DEF Refilling
  <2>3. QED
    BY <1>7, <2>1, <2>2
<1>9. ASSUME NEW t \in Threads, CopyDropped(t)
      PROVE  Accompanied'
  <2>1. pub[t].at = "retry" /\ "retry" \in OfferPlace \ {"next"} /\ NextReader(t) /\ UNCHANGED box
        /\ BoxFull(pub[t].to)
    BY <1>9 DEF CopyDropped, Where, OfferPlace
  <2>2. Bound \in Nat \ {0} /\ Len(<<>>) = 0
    BY BusAssumption
  <2>3. box[pub[t].to] # <<>>
    BY <2>1, <2>2 DEF BoxFull
  <2>4. \A l \in Listeners : box'[l] # <<>> \/ (box'[l] = box[l] /\ ~Refilling(t, l))
    BY <2>1, <2>3 DEF Refilling
  <2>5. QED
    BY <1>7, <2>1, <2>4
<1>10. ASSUME NEW t \in Threads, AppendCopy(t)
       PROVE  Accompanied'
  <2>1. pub[t].at = "put" /\ "put" \in OfferPlace \ {"next"} /\ NextReader(t)
    BY <1>10 DEF AppendCopy, Where, OfferPlace
  <2>2. PICK k \in EventKinds, s \in SUBSET Listeners, a \in OfferPlace \ {"next"} :
          \E r \in s : pub[t] = OfferTo(k, s, a, r)
    BY <2>1, Chosen
  <2>3. PICK r \in Listeners : pub[t].to = r /\ pub[t].kind = k
    BY <2>2 DEF OfferTo
  <2>4. box[r] \in Seq(EventKinds) /\ box' = [box EXCEPT ![r] = Append(@, k)]
    BY <1>10, <2>3 DEF AppendCopy, BusTypeOK
  <2>5. Append(box[r], k) # <<>>
    BY <2>4
  <2>6. \A l \in Listeners : box'[l] = IF l = r THEN Append(box[r], k) ELSE box[l]
    BY <2>4 DEF BusTypeOK
  <2>7. \A l \in Listeners : box'[l] # <<>> \/ (box'[l] = box[l] /\ ~Refilling(t, l))
    BY <2>3, <2>5, <2>6 DEF Refilling
  <2>8. QED
    BY <1>7, <2>1, <2>7
<1>11. ASSUME NEW t \in Threads, pub[t].at \in OfferPlace \ {"next"}, NEW b \in OfferPlace \ {"next"},
              BusGoto(t, b),
              \A l \in Listeners : \/ pub[t].to = l /\ b \in {"retry", "put"}
                                   \/ (box'[l] = box[l] /\ ~Refilling(t, l)),
              b \notin {"full", "pop"} \/ box'[pub[t].to] # <<>>
       PROVE  Accompanied'
  <2>1. PICK p \in BusOffers : pub' = [pub EXCEPT ![t] = p] /\ p.at = b /\ p.to = pub[t].to
    BY <1>11, GotoShape
  <2>2. pub'[t] = p
    BY <2>1 DEF BusTypeOK
  <2>3. \A l \in Listeners : Refilling(t, l)' \/ (box'[l] = box[l] /\ ~Refilling(t, l))
    BY <1>11, <2>1, <2>2 DEF Refilling
  <2>4. QED
    BY <1>11, <2>1, <2>3, StillAccompanied
<1>12. ASSUME NEW t \in Threads, TestEmpty(t)
       PROVE  Accompanied'
  <2>1. /\ pub[t].at = "full" /\ "full" \in OfferPlace \ {"next"} /\ UNCHANGED box
        /\ "retry" \in OfferPlace \ {"next"} /\ "pop" \in OfferPlace \ {"next"}
    BY <1>12 DEF TestEmpty, Where, OfferPlace
  <2>2. PICK b \in {"retry", "pop"} : BusGoto(t, b) /\ (b = "pop" => box[pub[t].to] # <<>>)
    BY <1>12 DEF TestEmpty
  <2>3. b \in OfferPlace \ {"next"} /\ (b \notin {"full", "pop"} \/ box'[pub[t].to] # <<>>)
    BY <2>1, <2>2
  <2>4. \A l \in Listeners : box'[l] = box[l] /\ ~Refilling(t, l)
    BY <2>1 DEF Refilling
  <2>5. QED
    BY <1>11, <2>1, <2>2, <2>3, <2>4
<1>13. ASSUME NEW t \in Threads, DropOldest(t)
       PROVE  Accompanied'
  <2>1. /\ pub[t].at = "pop" /\ "pop" \in OfferPlace \ {"next"} /\ "retry" \in OfferPlace \ {"next"}
        /\ BusGoto(t, "retry") /\ box' = [box EXCEPT ![pub[t].to] = Tail(@)]
    BY <1>13 DEF DropOldest, Where, OfferPlace
  <2>2. \A l \in Listeners : pub[t].to = l \/ (box'[l] = box[l] /\ ~Refilling(t, l))
    BY <2>1 DEF Refilling, BusTypeOK
  <2>3. QED
    BY <1>11, <2>1, <2>2
<1>14. ASSUME NEW t \in Threads, RetryPut(t)
       PROVE  Accompanied'
  <2>1. /\ pub[t].at = "retry" /\ "put" \in OfferPlace \ {"next"} /\ "retry" \in OfferPlace \ {"next"}
        /\ BusGoto(t, "put") /\ UNCHANGED box
    BY <1>14 DEF RetryPut, Where, OfferPlace
  <2>2. \A l \in Listeners : pub[t].to = l \/ (box'[l] = box[l] /\ ~Refilling(t, l))
    BY <2>1 DEF Refilling
  <2>3. QED
    BY <1>11, <2>1, <2>2
<1>15. CASE UNCHANGED busVars
  BY <1>15 DEF busVars, Accompanied, Refilling
<1>16. QED
  BY <1>1, <1>3, <1>4, <1>5, <1>6, <1>8, <1>9, <1>10, <1>12, <1>13, <1>14, <1>15 DEF BusNext, OfferStep

\* The loop loses its copy of an event: another thread is about to put one.
LEMMA LostStep ==
  ASSUME BusInv, Accompanied, NEW t \in Threads, CopyLost(t)
  PROVE  BusInv'
<1>1. BusTypeOK /\ Account /\ NeverSilenced
  BY DEF BusInv
<1>2. pub[t].at = "pop" /\ pub[t].at \in OfferPlace \ {"next"} /\ t = LoopThread
  BY DEF CopyLost, Where, OfferPlace, InHandedOffer
<1>3. PICK r \in Listeners : r = pub[t].to
  <2>1. PICK k \in EventKinds, s \in SUBSET Listeners, a \in OfferPlace \ {"next"} :
          \E r \in s : pub[t] = OfferTo(k, s, a, r)
    BY <1>1, <1>2, Chosen
  <2>2. QED
    BY <2>1 DEF OfferTo
<1>4. PICK p \in BusOffers : /\ pub' = [pub EXCEPT ![t] = p]
                             /\ p.at = "next" /\ p.todo = pub[t].todo \ {pub[t].to}
                             /\ p # BusIdle
  BY <1>1, <1>2, NextReaderShape DEF CopyLost
<1>5. /\ owed' = [owed EXCEPT ![r] = TRUE] /\ UNCHANGED <<queues, box, woken, handed>>
      /\ box[r] = <<>>
  BY <1>3 DEF CopyLost
<1>6. BusTypeOK'
  <2>1. /\ box' \in [Listeners -> Seq(EventKinds)] /\ owed' \in [Listeners -> BOOLEAN]
        /\ queues' \subseteq Listeners /\ woken' \subseteq Listeners \X EventKinds
        /\ handed' \in BOOLEAN
    BY <1>1, <1>5 DEF BusTypeOK
  <2>2. QED
    BY <1>1, <1>4, <2>1, PubTyped
<1>7. Account'
  <2>1. \A l \in Listeners : Putting(l)' \subseteq Putting(l)
    BY <1>1, <1>4, PuttingShrinks
  <2>2. \A l \in Listeners : Len(box'[l]) <= Len(box[l])
    <3>1. \A l \in Listeners : box[l] \in Seq(EventKinds)
      BY <1>1 DEF BusTypeOK
    <3>2. QED
      BY <1>5, <3>1
  <2>3. QED
    BY <1>1, <1>6, <2>1, <2>2, AccountKept DEF Account
<1>8. OnItsWay(r)'
  <2>1. PICK u \in Threads : Refilling(u, r)
    BY <1>2, <1>3, <1>5 DEF Accompanied
  <2>2. u # t /\ pub[u].at \notin {"idle", "next"}
    BY <1>2, <2>1 DEF Refilling
  <2>3. r \in pub[u].todo /\ pub'[u] = pub[u] /\ pub[u] # BusIdle
    BY <1>1, <1>4, <2>1, <2>2 DEF BusTypeOK, Refilling, BusIdle
  <2>4. QED
    BY <2>3 DEF OnItsWay
<1>9. NeverSilenced'
  <2>1. ASSUME NEW l \in Listeners, owed'[l]
        PROVE  box'[l] # <<>> \/ OnItsWay(l)'
    <3>1. CASE l = r
      BY <1>8, <3>1
    <3>2. CASE l # r
      <4>1. owed[l]
        BY <1>1, <1>5, <2>1, <3>2 DEF BusTypeOK
      <4>2. l \in pub[t].todo => l \in p.todo
        BY <1>3, <1>4, <3>2
      <4>3. OnItsWay(l) => OnItsWay(l)'
        BY <1>1, <1>4, <1>5, <4>2, StillOnItsWay
      <4>4. QED
        BY <1>1, <1>5, <4>1, <4>3 DEF NeverSilenced
    <3>3. QED
      BY <3>1, <3>2
  <2>2. QED
    BY <2>1 DEF NeverSilenced
<1>10. QED
  BY <1>6, <1>7, <1>9 DEF BusInv

-----------------------------------------------------------------------------
LEMMA BusStarts == BusInit => BusInv /\ Accompanied
<1> SUFFICES ASSUME BusInit
             PROVE  BusInv /\ Accompanied
  OBVIOUS
<1>1. BusTypeOK
  <2>1. BusIdle \in BusOffers /\ BusIdle.at = "idle"
    BY DEF BusOffers, BusIdle
  <2>2. <<>> \in Seq(EventKinds)
    OBVIOUS
  <2>3. QED
    BY <2>1, <2>2 DEF BusInit, BusTypeOK
<1>2. ASSUME NEW r \in Listeners
      PROVE  Len(box[r]) + Cardinality(Putting(r)) < Bound + Cardinality(Threads)
  <2>1. Putting(r) = {} /\ Len(box[r]) = 0
    BY DEF BusInit, BusIdle, Putting
  <2>2. Cardinality(Putting(r)) = 0
    BY <2>1, FS_EmptySet
  <2>3. Bound \in Nat \ {0} /\ Cardinality(Threads) \in Nat
    BY BusAssumption, FS_CardinalityType
  <2>4. QED
    BY <2>1, <2>2, <2>3
<1>3. NeverSilenced
  BY DEF BusInit, NeverSilenced
<1>4. Accompanied
  BY BusAssumption DEF BusInit, BusIdle, Accompanied
<1>5. QED
  BY <1>1, <1>2, <1>3, <1>4 DEF BusInv, Account

LEMMA BusStep == BusInv /\ Accompanied /\ [BusNext]_busVars => BusInv' /\ Accompanied'
<1> SUFFICES ASSUME BusInv, Accompanied, [BusNext]_busVars
             PROVE  BusInv'
  BY CompanyStep DEF BusInv
<1>1. BusTypeOK
  BY DEF BusInv
<1>2. ASSUME NEW r \in Listeners, BusSubscribe(r) \/ BusUnsubscribe(r) \/ BusTake(r)
      PROVE  BusInv'
  BY <1>2, ReaderStep
<1>3. ASSUME NEW t \in Threads, NEW k \in EventKinds, BusPublish(t, k)
      PROVE  BusInv'
  <2>1. queues \in SUBSET Listeners
    BY <1>1 DEF BusTypeOK
  <2>2. /\ pub[t] = BusIdle /\ pub' = [pub EXCEPT ![t] = BusOffer(k, queues)]
        /\ UNCHANGED <<queues, box, woken, owed>> /\ handed' \in BOOLEAN
    BY <1>1, <1>3 DEF BusPublish, BusTypeOK
  <2>3. QED
    BY <2>1, <2>2, BeginStep
<1>4. ASSUME NEW t \in Threads, OfferStep(t)
      PROVE  BusInv'
  BY <1>4, GoOnStep, AppendStep, DropStep, DroppedStep, LostStep DEF OfferStep
<1>5. ASSUME NEW r \in Listeners, NEW k \in EventKinds, Woken(r, k)
      PROVE  BusInv'
  <2>1. LoopThread \in Threads /\ {r} \in SUBSET Listeners
    BY BusAssumption
  <2>2. /\ pub[LoopThread] = BusIdle /\ pub' = [pub EXCEPT ![LoopThread] = BusOffer(k, {r})]
        /\ UNCHANGED <<queues, box, owed>> /\ woken' = woken \ {<<r, k>>} /\ handed' \in BOOLEAN
    BY <1>5 DEF Woken, LoopFree
  <2>3. \A l \in Listeners, e \in EventKinds : <<l, e>> \in woken => <<l, e>> \in woken' \/ l \in {r}
    BY <2>2
  <2>4. QED
    BY <2>1, <2>2, <2>3, BeginStep
<1>6. CASE UNCHANGED busVars
  BY <1>6 DEF busVars, BusInv, BusTypeOK, Account, Putting, NeverSilenced, OnItsWay
<1>7. QED
  BY <1>2, <1>3, <1>4, <1>5, <1>6 DEF BusNext

\* The account bounds every box.
LEMMA AccountBounds == BusInv => BusHolds
<1> SUFFICES ASSUME BusInv
             PROVE  BusHolds
  OBVIOUS
<1>1. BusTypeOK /\ Account /\ NeverSilenced
  BY DEF BusInv
<1>2. ASSUME NEW r \in Listeners
      PROVE  Len(box[r]) < Bound + Cardinality(Threads)
  <2>1. IsFiniteSet(Putting(r))
    <3>1. Putting(r) \subseteq Threads
      BY DEF Putting
    <3>2. QED
      BY <3>1, BusAssumption, FS_Subset
  <2>2. Cardinality(Putting(r)) \in Nat /\ Cardinality(Threads) \in Nat /\ Bound \in Nat
    BY <2>1, BusAssumption, FS_CardinalityType
  <2>3. Len(box[r]) \in Nat
    <3>1. box[r] \in Seq(EventKinds)
      BY <1>1 DEF BusTypeOK
    <3>2. QED
      BY <3>1
  <2>4. Len(box[r]) + Cardinality(Putting(r)) < Bound + Cardinality(Threads)
    BY <1>1 DEF Account
  <2>5. QED
    BY <2>2, <2>3, <2>4
<1>3. QED
  BY <1>1, <1>2 DEF BusHolds, StaysBounded

\* However many threads publish at once and whoever reads or never reads: no
\* reader's queue passes its bound by as many events as there are threads, and
\* no reader to whom something was offered is left with nothing to read and
\* nothing on its way (EventBus.publish, _offer).
THEOREM ReadersAreServed == BusSpec => []BusHolds
<1>1. BusInit => BusInv /\ Accompanied
  BY BusStarts
<1>2. BusInv /\ Accompanied /\ [BusNext]_busVars => BusInv' /\ Accompanied'
  BY BusStep
<1>3. BusInv => BusHolds
  BY AccountBounds
<1>4. QED
  BY <1>1, <1>2, <1>3, PTL DEF BusSpec

-----------------------------------------------------------------------------
(* The pages. One whose events were all heard, that is not stale and that fetches
   nothing shows the snapshot there is, subscribed or not. *)
PageInv(r) == covered[r] /\ Owns(queue[r]) = 0 /\ ~stale[r] /\ fetch[r] = Resting => view[r] = cache.v

FeedInv == /\ FeedTypeOK /\ CheckingIsTrue /\ (checking => surface = "status")
           /\ \A r \in Readers : PageInv(r)

Events == {Own, Other}
-----------------------------------------------------------------------------
(* A queue counts its own events: none in an empty one, and what is at its head or
   its end counts. *)
LEMMA Counting ==
  ASSUME NEW q \in Seq(Events)
  PROVE  Owns(q) = 0 <=> \A i \in 1..Len(q) : q[i] # Own
<1>1. Len(q) \in Nat
  BY LenProperties
<1>2. IsFiniteSet(1..Len(q))
  BY <1>1, FS_Interval
<1>3. IsFiniteSet({i \in 1..Len(q) : q[i] = Own})
  BY <1>2, FS_Subset
<1>4. QED
  BY <1>3, FS_EmptySet DEF Owns

LEMMA Pushing ==
  ASSUME NEW q \in Seq(Events), Len(q) <= MaxSize, NEW event \in Events
  PROVE  /\ Push(q, event) \in Seq(Events) /\ Len(Push(q, event)) <= MaxSize
         /\ event = Own => Owns(Push(q, event)) # 0
<1> USE FeedAssumption
<1> DEFINE p == IF Len(q) < MaxSize THEN q ELSE Tail(q)
<1>1. p \in Seq(Events) /\ Len(p) \in Nat /\ Len(p) < MaxSize
  <2>1. CASE Len(q) < MaxSize
    BY <2>1, LenProperties
  <2>2. CASE ~(Len(q) < MaxSize)
    <3>1. Len(q) = MaxSize /\ q # <<>>
      BY <2>2, LenProperties, EmptySeq
    <3>2. Tail(q) \in Seq(Events) /\ Len(Tail(q)) = Len(q) - 1
      BY <3>1, HeadTailProperties
    <3>3. Len(Tail(q)) \in Nat /\ Len(Tail(q)) < MaxSize
      BY <3>1, <3>2
    <3>4. QED
      BY <2>2, <3>2, <3>3
  <2>3. QED
    BY <2>1, <2>2
<1> HIDE DEF p
<1>2. /\ Append(p, event) \in Seq(Events) /\ Len(Append(p, event)) = Len(p) + 1
      /\ Append(p, event)[Len(p) + 1] = event
  BY <1>1, AppendProperties
<1>3. Push(q, event) = Append(p, event)
  BY DEF Push, p
<1>4. event = Own => Owns(Append(p, event)) # 0
  <2>1. Len(p) + 1 \in 1..Len(Append(p, event))
    BY <1>1, <1>2
  <2>2. QED
    BY <1>2, <2>1, Counting
<1>5. QED
  BY <1>1, <1>2, <1>3, <1>4

LEMMA Hearing ==
  ASSUME NEW q \in Seq(Events), q # <<>>
  PROVE  /\ Tail(q) \in Seq(Events) /\ Len(Tail(q)) <= Len(q)
         /\ Head(q) # Own /\ Owns(Tail(q)) = 0 => Owns(q) = 0
<1>1. /\ Tail(q) \in Seq(Events) /\ Len(Tail(q)) = Len(q) - 1 /\ Len(q) \in Nat \ {0}
      /\ Head(q) = q[1] /\ \A i \in 1..Len(Tail(q)) : Tail(q)[i] = q[i + 1]
  BY HeadTailProperties, LenProperties, EmptySeq
<1>2. ASSUME Head(q) # Own, Owns(Tail(q)) = 0, NEW i \in 1..Len(q) PROVE q[i] # Own
  <2>1. CASE i = 1
    BY <1>1, <1>2, <2>1
  <2>2. CASE i # 1
    <3>1. i - 1 \in 1..Len(Tail(q)) /\ Tail(q)[i - 1] = q[i]
      BY <1>1, <2>2
    <3>2. QED
      BY <1>1, <1>2, <3>1, Counting
  <2>3. QED
    BY <2>1, <2>2
<1>3. QED
  BY <1>1, <1>2, Counting

(* An event reaches a queue as a copy, or is lost there. *)
LEMMA Publishing ==
  ASSUME FeedInv, NEW event \in Events, FeedPublishes(event)
  PROVE  /\ queue' \in [Readers -> Seq(Events)] /\ subscribed' = subscribed
         /\ \A r \in Readers : /\ Len(queue'[r]) <= MaxSize
                               /\ event = Own => queue'[r] = queue[r] \/ Owns(queue'[r]) # 0
<1>1. /\ queue \in [Readers -> Seq(Events)] /\ \A r \in Readers : Len(queue[r]) <= MaxSize
  BY DEF FeedInv, FeedTypeOK, Events
<1>2. PICK lost \in SUBSET {r \in subscribed : Len(queue[r]) = MaxSize} :
         queue' = [r \in Readers |-> IF r \in subscribed \ lost THEN Push(queue[r], event) ELSE queue[r]]
  BY DEF FeedPublishes
<1>3. ASSUME NEW r \in Readers
      PROVE  /\ queue'[r] \in Seq(Events) /\ Len(queue'[r]) <= MaxSize
             /\ event = Own => queue'[r] = queue[r] \/ Owns(queue'[r]) # 0
  BY <1>1, <1>2, Pushing
<1>4. queue' \in [Readers -> Seq(Events)]
  BY <1>2, <1>3
<1>5. QED
  BY <1>3, <1>4 DEF FeedPublishes

-----------------------------------------------------------------------------
LEMMA States ==
  ASSUME NEW v
  PROVE  /\ Resting.at = "idle" /\ Reading(v).at = "reading" /\ Read(v).at = "read"
         /\ Reading(v).had = v /\ Read(v).v = v /\ Resting # Reading(v) /\ Resting # Read(v)
BY DEF Resting, Reading, Read

(* What a fetcher is at. *)
FetchStates == {Resting} \cup {Reading(v) : v \in Seen} \cup {Read(v) : v \in Seen \ {Never}}
LEMMA FetchTypes ==
  ASSUME NEW s \in FetchStates
  PROVE  /\ s.at \in {"idle", "reading", "read"}
         /\ s.at = "reading" => s.had \in Seen /\ s # Resting
         /\ s.at = "read" => s.v \in Seen \ {Never} /\ s # Resting
         /\ s.at = "idle" => s = Resting
BY States DEF FetchStates

(* A step that leaves the snapshot, the reads and what is checked. *)
LEMMA PagesApart ==
  ASSUME FeedInv, FeedTypeOK', UNCHANGED <<cache.v, fetch, checking, surface>>, \A r \in Readers : PageInv(r)'
  PROVE  FeedInv'
BY DEF FeedInv, CheckingIsTrue

LEMMA Starting ==
  ASSUME FeedInv, NEW f \in Fetchers, StartRead(f)
  PROVE  FeedInv'
<1> USE FeedAssumption
<1> DEFINE new == Reading(IF surface = "downloads" THEN cache.v ELSE Never)
<1>1. /\ fetch[f] = Resting /\ fetch' = [fetch EXCEPT ![f] = new]
      /\ checking' = (surface = "status")
      /\ stale' = [r \in Readers |-> stale[r] /\ r # f]
      /\ UNCHANGED <<surface, truth, up, cache, streamVars, view, covered, budget>>
  BY DEF StartRead, Now, Clears
<1>2. FeedTypeOK /\ fetch \in [Fetchers -> FetchStates]
  BY DEF FeedInv, FeedTypeOK, FetchStates
<1>3. new \in FetchStates /\ new.at = "reading" /\ new # Resting
  <2>1. cache.v \in Seen /\ Never \in Seen
    BY <1>2 DEF FeedTypeOK, Seen
  <2>2. QED
    BY <2>1, States DEF FetchStates
<1> HIDE DEF new
<1>4. FeedTypeOK'
  <2>1. fetch' \in [Fetchers -> FetchStates]
    BY <1>1, <1>2, <1>3
  <2>2. stale' \in [Readers -> BOOLEAN]
    BY <1>1, <1>2 DEF FeedTypeOK
  <2>3. checking' \in BOOLEAN
    BY <1>1
  <2>4. QED
    BY <1>1, <1>2, <2>1, <2>2, <2>3 DEF FeedTypeOK, FetchStates, streamVars
<1>5. ASSUME NEW r \in Readers PROVE PageInv(r)'
  <2>1. fetch'[r] = IF r = f THEN new ELSE fetch[r]
    BY <1>1, <1>2 DEF Fetchers
  <2>2. r # f => (stale'[r] <=> stale[r])
    BY <1>1, <1>2 DEF FeedTypeOK
  <2>3. QED
    BY <1>1, <1>3, <2>1, <2>2 DEF FeedInv, PageInv, streamVars
<1>6. CheckingIsTrue'
  BY <1>1, <1>2, <1>3 DEF CheckingIsTrue
<1>7. QED
  BY <1>1, <1>4, <1>5, <1>6 DEF FeedInv

LEMMA Answering ==
  ASSUME FeedInv, NEW f \in Fetchers, Answer(f)
  PROVE  FeedInv'
<1> USE FeedAssumption
<1> DEFINE new == Read(IF up \/ surface = "status" THEN truth ELSE Empty)
<1>1. /\ fetch[f].at = "reading" /\ fetch' = [fetch EXCEPT ![f] = new]
      /\ UNCHANGED <<surface, truth, up, cache, checking, streamVars, pageVars, budget>>
  BY DEF Answer, Now
<1>2. FeedTypeOK /\ fetch \in [Fetchers -> FetchStates]
  BY DEF FeedInv, FeedTypeOK, FetchStates
<1>3. new \in FetchStates /\ new.at = "read" /\ new # Resting
  <2>1. truth \in Seen \ {Never} /\ Empty \in Seen \ {Never}
    BY <1>2 DEF FeedTypeOK, Seen, Versions, Never, Empty
  <2>2. QED
    BY <2>1, States DEF FetchStates
<1> HIDE DEF new
<1>4. FeedTypeOK'
  <2>1. fetch' \in [Fetchers -> FetchStates]
    BY <1>1, <1>2, <1>3
  <2>2. QED
    BY <1>1, <1>2, <2>1 DEF FeedTypeOK, FetchStates, streamVars, pageVars
<1>5. ASSUME NEW r \in Readers PROVE PageInv(r)'
  <2>1. fetch'[r] = IF r = f THEN new ELSE fetch[r]
    BY <1>1, <1>2 DEF Fetchers
  <2>2. QED
    BY <1>1, <1>3, <2>1 DEF FeedInv, PageInv, streamVars, pageVars
<1>6. CheckingIsTrue'
  BY <1>1, <1>2, <1>3 DEF FeedInv, CheckingIsTrue
<1>7. QED
  BY <1>1, <1>4, <1>5, <1>6 DEF FeedInv

LEMMA Storing ==
  ASSUME FeedInv, NEW f \in Fetchers, Store(f)
  PROVE  FeedInv'
<1> USE FeedAssumption
<1>1. /\ fetch[f].at = "read" /\ cache' = [v |-> fetch[f].v, fresh |-> TRUE]
      /\ fetch' = [fetch EXCEPT ![f] = Resting] /\ checking' = FALSE
      /\ view' = IF f \in Readers THEN [view EXCEPT ![f] = fetch[f].v] ELSE view
      /\ FeedPublishes(Own)
      /\ covered' = [r \in Readers |-> r \in subscribed /\ Owns(queue'[r]) > 0]
      /\ UNCHANGED <<surface, truth, up, stale, budget>>
  BY DEF Store, Now, Shows
<1>2. FeedTypeOK /\ fetch \in [Fetchers -> FetchStates] /\ fetch[f].v \in Seen
  BY <1>1, FetchTypes DEF FeedInv, FeedTypeOK, FetchStates
<1>3. /\ queue' \in [Readers -> Seq(Events)] /\ subscribed' = subscribed
      /\ \A r \in Readers : Len(queue'[r]) <= MaxSize
  BY <1>1, Publishing DEF Events
<1>4. FeedTypeOK'
  <2>1. fetch' \in [Fetchers -> FetchStates]
    BY <1>1, <1>2 DEF FetchStates
  <2>2. view' \in [Readers -> Seen]
    BY <1>1, <1>2 DEF FeedTypeOK
  <2>3. covered' \in [Readers -> BOOLEAN]
    BY <1>1
  <2>4. cache' \in [v : Seen, fresh : BOOLEAN]
    BY <1>1, <1>2
  <2>5. QED
    BY <1>1, <1>2, <1>3, <2>1, <2>2, <2>3, <2>4 DEF FeedTypeOK, FetchStates, Events
<1>5. ASSUME NEW r \in Readers PROVE PageInv(r)'
  <2>1. covered'[r] => Owns(queue'[r]) > 0
    BY <1>1
  <2>2. ~(0 > 0)
    OBVIOUS
  <2>3. QED
    BY <2>1, <2>2 DEF PageInv, Owns
<1>6. QED
  BY <1>1, <1>4, <1>5 DEF FeedInv, CheckingIsTrue

LEMMA Raising ==
  ASSUME FeedInv, NEW f \in Fetchers, ReadRaises(f)
  PROVE  FeedInv'
<1> USE FeedAssumption
<1>1. /\ fetch[f].at = "reading" /\ fetch' = [fetch EXCEPT ![f] = Resting]
      /\ \/ view' = view
         \/ f \in Readers /\ view' = [view EXCEPT ![f] = fetch[f].had]
      /\ IF surface = "status" THEN FeedPublishes(Own) /\ checking' = FALSE
         ELSE UNCHANGED <<streamVars, checking>>
      /\ covered' = [r \in Readers |-> covered[r] /\ r # f]
      /\ UNCHANGED <<surface, truth, up, cache, stale>>
  BY DEF ReadRaises, Now, Shows
<1>2. FeedTypeOK /\ fetch \in [Fetchers -> FetchStates] /\ fetch[f].had \in Seen
  BY <1>1, FetchTypes DEF FeedInv, FeedTypeOK, FetchStates
<1>3. /\ queue' \in [Readers -> Seq(Events)] /\ subscribed' = subscribed
      /\ \A r \in Readers : Len(queue'[r]) <= MaxSize /\ (queue'[r] = queue[r] \/ Owns(queue'[r]) # 0)
  <2>1. CASE surface = "status"
    BY <1>1, <2>1, Publishing DEF Events
  <2>2. CASE surface # "status"
    BY <1>1, <1>2, <2>2 DEF FeedTypeOK, Events, streamVars
  <2>3. QED
    BY <2>1, <2>2
<1>4. FeedTypeOK'
  <2>1. fetch' \in [Fetchers -> FetchStates]
    BY <1>1, <1>2 DEF FetchStates
  <2>2. view' \in [Readers -> Seen]
    BY <1>1, <1>2 DEF FeedTypeOK
  <2>3. covered' \in [Readers -> BOOLEAN]
    BY <1>1, <1>2 DEF FeedTypeOK
  <2>4. checking' \in BOOLEAN
    BY <1>1, <1>2 DEF FeedTypeOK
  <2>5. QED
    BY <1>1, <1>2, <1>3, <2>1, <2>2, <2>3, <2>4 DEF FeedTypeOK, FetchStates, Events
<1>5. ASSUME NEW r \in Readers PROVE PageInv(r)'
  <2>1. r \in Fetchers /\ (r # f => fetch'[r] = fetch[r] /\ view'[r] = view[r])
    BY <1>1, <1>2 DEF Fetchers, FeedTypeOK
  <2>2. covered'[r] => covered[r] /\ r # f
    BY <1>1
  <2>3. CASE queue'[r] = queue[r]
    BY <1>1, <2>1, <2>2, <2>3 DEF FeedInv, PageInv, Owns
  <2>4. CASE Owns(queue'[r]) # 0
    BY <2>4 DEF PageInv, Owns
  <2>5. QED
    BY <1>3, <2>3, <2>4
<1>6. ~checking'
  BY <1>1 DEF FeedInv
<1>7. QED
  BY <1>4, <1>5, <1>6 DEF FeedInv, CheckingIsTrue

LEMMA FeedStart == FeedInit => FeedInv
<1> USE FeedAssumption DEF FeedInit
<1> SUFFICES ASSUME FeedInit PROVE FeedInv
  OBVIOUS
<1>1. FeedTypeOK
  <2>1. <<>> \in Seq({Own, Other}) /\ Len(<<>>) = 0
    BY EmptySeq
  <2>2. fetch \in [Fetchers -> FetchStates] /\ truth \in Versions /\ Never \in Seen
    BY DEF FetchStates, Versions, Seen
  <2>3. queue \in [Readers -> Seq({Own, Other})] /\ \A r \in Readers : Len(queue[r]) <= MaxSize
    BY <2>1
  <2>4. QED
    BY <2>2, <2>3 DEF FeedTypeOK, FetchStates
<1>2. QED
  BY <1>1 DEF FeedInv, PageInv, CheckingIsTrue

LEMMA FeedSteps == FeedInv /\ [FeedNext]_feedVars => FeedInv'
<1> USE FeedAssumption
<1> SUFFICES ASSUME FeedInv, [FeedNext]_feedVars PROVE FeedInv'
  OBVIOUS
<1>0. /\ FeedTypeOK /\ \A r \in Readers : PageInv(r)
      /\ queue \in [Readers -> Seq(Events)] /\ \A r \in Readers : Len(queue[r]) <= MaxSize
  BY DEF FeedInv, FeedTypeOK, Events
<1>1. CASE Change \/ Outage \/ Recover \/ Lapse
  <2>1. UNCHANGED <<surface, fetch, checking, streamVars, pageVars>> /\ cache'.v = cache.v
        /\ cache' \in [v : Seen, fresh : BOOLEAN] /\ truth' \in Versions /\ up' \in BOOLEAN
    <3>1. CASE Change
      BY <1>0, <3>1 DEF Change, FeedTypeOK, Versions, snapshotVars
    <3>2. CASE Outage \/ Recover
      BY <1>0, <3>2 DEF Outage, Recover, FeedTypeOK, snapshotVars
    <3>3. CASE Lapse
      <4>1. cache' = [cache EXCEPT !.fresh = FALSE] /\ cache \in [v : Seen, fresh : BOOLEAN]
        BY <1>0, <3>3 DEF Lapse, FeedTypeOK
      <4>2. cache'.v = cache.v /\ cache' \in [v : Seen, fresh : BOOLEAN]
        BY <4>1
      <4>3. QED
        BY <1>0, <3>3, <4>2 DEF Lapse, FeedTypeOK
    <3>4. QED
      BY <1>1, <3>1, <3>2, <3>3
  <2>2. FeedTypeOK'
    BY <1>0, <2>1 DEF FeedTypeOK, streamVars, pageVars
  <2>3. \A r \in Readers : PageInv(r)'
    BY <1>0, <2>1 DEF PageInv, streamVars, pageVars, Owns
  <2>4. QED
    BY <2>1, <2>2, <2>3, PagesApart
<1>2. CASE Announce
  <2>1. /\ FeedPublishes(Other)
        /\ covered' = [r \in Readers |-> covered[r] /\ Owns(queue'[r]) = Owns(queue[r])]
        /\ UNCHANGED <<surface, truth, up, cache, fetch, checking, view, stale>>
    BY <1>2 DEF Announce, snapshotVars
  <2>2. /\ queue' \in [Readers -> Seq(Events)] /\ subscribed' = subscribed
        /\ \A r \in Readers : Len(queue'[r]) <= MaxSize
    BY <2>1, Publishing DEF Events
  <2>3. FeedTypeOK'
    <3>1. covered' \in [Readers -> BOOLEAN]
      BY <1>0, <2>1 DEF FeedTypeOK
    <3>2. QED
      BY <1>0, <2>1, <2>2, <3>1 DEF FeedTypeOK, Events
  <2>4. ASSUME NEW r \in Readers PROVE PageInv(r)'
    <3>1. covered'[r] => covered[r] /\ Owns(queue'[r]) = Owns(queue[r])
      BY <2>1
    <3>2. Owns(queue[r])' = Owns(queue'[r])
      BY DEF Owns
    <3>3. QED
      BY <1>0, <2>1, <3>1, <3>2 DEF PageInv
  <2>5. QED
    BY <2>1, <2>3, <2>4, PagesApart
<1>3. CASE Tick
  BY <1>3, Starting DEF Tick, Fetchers
<1>4. ASSUME NEW r \in Readers, Join(r) PROVE FeedInv'
  <2>1. /\ subscribed' = subscribed \cup {r} /\ queue' = [queue EXCEPT ![r] = <<>>]
        /\ covered' = [covered EXCEPT ![r] = FALSE]
        /\ UNCHANGED <<surface, truth, up, cache, fetch, checking, view, stale>>
    BY <1>4 DEF Join, snapshotVars
  <2>2. /\ queue' \in [Readers -> Seq(Events)]
        /\ \A o \in Readers : Len(queue'[o]) <= MaxSize
        /\ \A o \in Readers \ {r} : queue'[o] = queue[o] /\ covered'[o] = covered[o]
        /\ covered'[r] = FALSE /\ covered' \in [Readers -> BOOLEAN]
    BY <1>0, <2>1, EmptySeq DEF FeedTypeOK
  <2>3. FeedTypeOK'
    BY <1>0, <2>1, <2>2 DEF FeedTypeOK, Events
  <2>4. \A o \in Readers : PageInv(o)'
    BY <1>0, <2>1, <2>2 DEF PageInv, Owns
  <2>5. QED
    BY <2>1, <2>3, <2>4, PagesApart
<1>5. ASSUME NEW r \in Readers, Leave(r) PROVE FeedInv'
  <2>1. subscribed' \subseteq subscribed /\ UNCHANGED <<surface, truth, up, cache, fetch, checking, queue, pageVars>>
    BY <1>5 DEF Leave, snapshotVars
  <2>2. FeedTypeOK'
    BY <1>0, <2>1 DEF FeedTypeOK, pageVars
  <2>3. \A o \in Readers : PageInv(o)'
    BY <1>0, <2>1 DEF PageInv, Owns, pageVars
  <2>4. QED
    BY <2>1, <2>2, <2>3, PagesApart
<1>6. ASSUME NEW r \in Readers, Hear(r) PROVE FeedInv'
  <2>1. /\ queue[r] # <<>> /\ queue' = [queue EXCEPT ![r] = Tail(queue[r])]
        /\ stale' = [stale EXCEPT ![r] = stale[r] \/ Head(queue[r]) = Own]
        /\ UNCHANGED <<surface, truth, up, cache, fetch, checking, subscribed, view, covered>>
    BY <1>6 DEF Hear, snapshotVars
  <2>2. /\ Tail(queue[r]) \in Seq(Events) /\ Len(Tail(queue[r])) <= Len(queue[r])
        /\ Head(queue[r]) # Own /\ Owns(Tail(queue[r])) = 0 => Owns(queue[r]) = 0
    BY <1>0, <2>1, Hearing
  <2>3. /\ queue' \in [Readers -> Seq(Events)] /\ queue'[r] = Tail(queue[r])
        /\ stale'[r] = (stale[r] \/ Head(queue[r]) = Own)
        /\ \A o \in Readers \ {r} : queue'[o] = queue[o] /\ stale'[o] = stale[o]
    BY <1>0, <2>1, <2>2 DEF FeedTypeOK
  <2>4. \A o \in Readers : Len(queue'[o]) <= MaxSize
    <3>1. Len(Tail(queue[r])) \in Nat /\ Len(queue[r]) \in Nat
      BY <1>0, <2>2, LenProperties
    <3>2. QED
      BY <1>0, <2>2, <2>3, <3>1
  <2>5. FeedTypeOK'
    <3>1. stale' \in [Readers -> BOOLEAN]
      BY <1>0, <2>1 DEF FeedTypeOK
    <3>2. QED
      BY <1>0, <2>1, <2>3, <2>4, <3>1 DEF FeedTypeOK, Events
  <2>6. ASSUME NEW o \in Readers PROVE PageInv(o)'
    <3>1. CASE o = r
      BY <1>0, <2>1, <2>2, <2>3, <3>1 DEF PageInv, Owns
    <3>2. CASE o # r
      BY <1>0, <2>1, <2>3, <3>2 DEF PageInv, Owns
    <3>3. QED
      BY <3>1, <3>2
  <2>7. QED
    BY <2>1, <2>5, <2>6, PagesApart
<1>7. ASSUME NEW r \in Readers, Hit(r) PROVE FeedInv'
  <2>1. /\ view' = [view EXCEPT ![r] = cache.v] /\ stale' = [o \in Readers |-> stale[o] /\ o # r]
        /\ UNCHANGED <<surface, truth, up, cache, fetch, checking, streamVars, covered>>
    BY <1>7 DEF Hit, Shows, Clears, snapshotVars
  <2>2. FeedTypeOK'
    <3>1. cache.v \in Seen
      BY <1>0 DEF FeedTypeOK
    <3>2. view' \in [Readers -> Seen] /\ stale' \in [Readers -> BOOLEAN]
      BY <1>0, <2>1, <3>1 DEF FeedTypeOK
    <3>3. QED
      BY <1>0, <2>1, <3>2 DEF FeedTypeOK, streamVars
  <2>3. ASSUME NEW o \in Readers PROVE PageInv(o)'
    <3>1. CASE o = r
      BY <1>0, <2>1, <3>1 DEF PageInv, FeedTypeOK
    <3>2. CASE o # r
      <4>1. view'[o] = view[o] /\ (stale'[o] <=> stale[o])
        BY <1>0, <2>1, <3>2 DEF FeedTypeOK
      <4>2. QED
        BY <1>0, <2>1, <4>1 DEF PageInv, Owns, streamVars
    <3>3. QED
      BY <3>1, <3>2
  <2>4. QED
    BY <2>1, <2>2, <2>3, PagesApart
<1>8. ASSUME NEW r \in Readers, Miss(r) \/ RefreshStatus(r) PROVE FeedInv'
  BY <1>8, Starting DEF Miss, RefreshStatus, Fetchers
<1>9. ASSUME NEW f \in Fetchers, Answer(f) PROVE FeedInv'
  BY <1>9, Answering
<1>10. ASSUME NEW f \in Fetchers, Store(f) PROVE FeedInv'
  BY <1>10, Storing
<1>11. ASSUME NEW f \in Fetchers, ReadRaises(f) PROVE FeedInv'
  BY <1>11, Raising
<1>12. CASE UNCHANGED feedVars
  BY <1>12 DEF feedVars, snapshotVars, streamVars, pageVars, FeedInv, FeedTypeOK, CheckingIsTrue, PageInv, Owns
<1>13. QED
  BY <1>1, <1>2, <1>3, <1>4, <1>5, <1>6, <1>7, <1>8, <1>9, <1>10, <1>11, <1>12 DEF FeedNext

(* A quiet page shows the snapshot there is, and a check that is shown is run. *)
THEOREM PagesShowWhatIsKnown == FeedSpec => []FeedHolds
<1>1. FeedInit => FeedInv
  BY FeedStart
<1>2. FeedInv => FeedHolds
  BY DEF FeedInv, PageInv, FeedHolds, QuietPageIsCurrent, Quiet
<1>3. QED
  BY <1>1, <1>2, FeedSteps, PTL DEF FeedSpec
=============================================================================
