----------------------------- MODULE PlaceFile -----------------------------
(***************************************************************************)
(* The worker thread that carries out one operation of the file queue      *)
(* (application/use_cases/place_file.py with the decisions of              *)
(* domain/policy/placement.py): place_path for "copy", move_path for       *)
(* "move".  Every system call that can fail or that changes what a crash   *)
(* leaves on disk is a step of its own; the operator's cancel flag may be  *)
(* raised between any two of them.                                         *)
(*                                                                         *)
(* Each operation has its own source and destination path.  What a path    *)
(* holds is abstracted to whether the data is complete there:              *)
(*   src: "whole", "partial" (a tree being deleted), "gone"                *)
(*   dst: "absent", "other" (something else lives there), "linked"         *)
(*        (another name of the source's inode), "partial" (a tree being    *)
(*        copied), "whole"                                                 *)
(***************************************************************************)

CONSTANTS
  Ops,            \* identities of queued operations
  Requests,       \* the requests an operation may carry
  Destinations    \* what may already live at a destination

VARIABLES
  req,            \* req[o]: what the operation asks for
  cancelled,      \* cancelled[o]: op["cancelled"], the flag the worker polls
  step,           \* step[o]: where the worker is, or how it ended
  src,            \* src[o]: the data under the source path
  dst,            \* dst[o]: the data under the destination path
  tmp             \* tmp[o]: a .copy_*.part temporary exists beside dst

pfVars == <<req, cancelled, step, src, dst, tmp>>

-----------------------------------------------------------------------------
\* kind: op["type"]; dir: the source is a directory; torrent: the source lies
\* in the torrent folder; arr: op["arr_source"] names a configured arr.
Request == [kind : {"copy", "move"}, dir : BOOLEAN, torrent : BOOLEAN, arr : BOOLEAN]

ASSUME PFAssumption ==
  /\ Requests \subseteq Request
  /\ Destinations \subseteq {"absent", "other", "linked"}

Working  == {"called", "chunks", "publish", "tree", "cleanup", "remove"}
Returned == {"ok", "interrupted", "error"}

PFTypeOK ==
  /\ req \in [Ops -> Request]
  /\ cancelled \in [Ops -> BOOLEAN]
  /\ step \in [Ops -> {"unstarted", "killed"} \union Working \union Returned]
  /\ src \in [Ops -> {"whole", "partial", "gone"}]
  /\ dst \in [Ops -> {"absent", "other", "linked", "partial", "whole"}]
  /\ tmp \in [Ops -> BOOLEAN]

IsCopy(o) == req[o].kind = "copy"
IsMove(o) == req[o].kind = "move"
IsDir(o)  == req[o].dir

\* The guard of POST /api/files/queue/add: a move out of the torrent folder is
\* refused (placement.seed_block_reason), a copy is not.
Admissible_NoGuard(r) == TRUE
Admissible(r) == ~(r.kind = "move" /\ r.torrent)

PFInit ==
  /\ req \in [Ops -> {r \in Requests : Admissible(r)}]
  /\ cancelled = [o \in Ops |-> FALSE]
  /\ step = [o \in Ops |-> "unstarted"]
  /\ src = [o \in Ops |-> "whole"]
  /\ dst \in [Ops -> Destinations]
  /\ \A o \in Ops : IsDir(o) => dst[o] # "linked"
  /\ tmp = [o \in Ops |-> FALSE]

-----------------------------------------------------------------------------
Goto(o, s) == step' = [step EXCEPT ![o] = s]

\* to_thread hands the operation to a worker.
Call(o) ==
  /\ step[o] = "unstarted"
  /\ Goto(o, "called")
  /\ UNCHANGED <<req, cancelled, src, dst, tmp>>

\* queue_cancel on a running operation; the worker notices only where it looks.
RaiseCancel(o) ==
  /\ ~cancelled[o]
  /\ cancelled' = [cancelled EXCEPT ![o] = TRUE]
  /\ UNCHANGED <<req, step, src, dst, tmp>>

\* Any system call of the step may raise: the temporary is unlinked by the
\* finally clause, a half-copied tree stays where it is.
Raise_CleansUpAnyway(o) ==
  /\ step[o] \in Working \ {"cleanup"}
  /\ tmp' = [tmp EXCEPT ![o] = FALSE]
  /\ Goto(o, IF IsMove(o) /\ step[o] \in {"tree", "chunks", "publish"} THEN "cleanup" ELSE "error")
  /\ UNCHANGED <<req, cancelled, src, dst>>
Raise(o) ==
  /\ step[o] \in Working \ {"cleanup"}
  /\ tmp' = [tmp EXCEPT ![o] = FALSE]
  /\ Goto(o, "error")
  /\ UNCHANGED <<req, cancelled, src, dst>>

\* _place_file: both names already share an inode, nothing may be written.
AlreadyPlaced(o) ==
  /\ step[o] = "called" /\ IsCopy(o) /\ ~IsDir(o)
  /\ dst[o] = "linked"
  /\ Goto(o, "ok")
  /\ UNCHANGED <<req, cancelled, src, dst, tmp>>

\* _place_file: os.link succeeds, which it cannot over an existing name.
Link(o) ==
  /\ step[o] = "called" /\ IsCopy(o) /\ ~IsDir(o)
  /\ dst[o] = "absent"
  /\ dst' = [dst EXCEPT ![o] = "linked"]
  /\ Goto(o, "ok")
  /\ UNCHANGED <<req, cancelled, src, tmp>>

\* os.link (copy) or os.rename (move) was refused: bytes into a temporary.
StartChunks_InPlace(o) ==
  /\ step[o] = "called" /\ ~IsDir(o)
  /\ IsCopy(o) => dst[o] # "linked"
  /\ dst' = [dst EXCEPT ![o] = "partial"]
  /\ Goto(o, "chunks")
  /\ UNCHANGED <<req, cancelled, src, tmp>>
StartChunks(o) ==
  /\ step[o] = "called" /\ ~IsDir(o)
  /\ IsCopy(o) => dst[o] # "linked"
  /\ tmp' = [tmp EXCEPT ![o] = TRUE]
  /\ Goto(o, "chunks")
  /\ UNCHANGED <<req, cancelled, src, dst>>

\* move_path: os.rename succeeds.  Over another link of the same inode POSIX
\* makes it a no-op that leaves both names.
Rename(o) ==
  /\ step[o] = "called" /\ IsMove(o)
  /\ IsDir(o) => dst[o] = "absent"
  /\ IF dst[o] = "linked"
       THEN UNCHANGED <<src, dst>>
       ELSE /\ src' = [src EXCEPT ![o] = "gone"]
            /\ dst' = [dst EXCEPT ![o] = "whole"]
  /\ Goto(o, "ok")
  /\ UNCHANGED <<req, cancelled, tmp>>

\* _copytree_with_progress: shutil.copytree creates dst, so it must not exist.
StartTree(o) ==
  /\ step[o] = "called" /\ IsDir(o)
  /\ dst[o] = "absent"
  /\ dst' = [dst EXCEPT ![o] = "partial"]
  /\ Goto(o, "tree")
  /\ UNCHANGED <<req, cancelled, src, tmp>>

\* Where a finished transfer goes next: a move still owes the source's removal.
AfterTransfer(o) == IF IsMove(o) THEN "cleanup" ELSE "ok"

\* shutil.copytree over something that exists raises FileExistsError.
TreeRefused(o) ==
  /\ step[o] = "called" /\ IsDir(o)
  /\ dst[o] # "absent"
  /\ Goto(o, "error")
  /\ UNCHANGED <<req, cancelled, src, dst, tmp>>

\* copytree never looks at the cancel flag.
FinishTree(o) ==
  /\ step[o] = "tree"
  /\ dst' = [dst EXCEPT ![o] = "whole"]
  /\ Goto(o, AfterTransfer(o))
  /\ UNCHANGED <<req, cancelled, src, tmp>>

\* _copy_with_progress, the poll before each chunk.
Interrupt_LeavesTemp(o) ==
  /\ step[o] = "chunks" /\ cancelled[o]
  /\ Goto(o, "interrupted")
  /\ UNCHANGED <<req, cancelled, src, dst, tmp>>
Interrupt(o) ==
  /\ step[o] = "chunks" /\ cancelled[o]
  /\ tmp' = [tmp EXCEPT ![o] = FALSE]
  /\ Goto(o, "interrupted")
  /\ UNCHANGED <<req, cancelled, src, dst>>

\* The last poll found no cancel and the read found the end of the file.
LastChunk(o) ==
  /\ step[o] = "chunks" /\ ~cancelled[o]
  /\ Goto(o, "publish")
  /\ UNCHANGED <<req, cancelled, src, dst, tmp>>

\* os.rename(tmp_path, dst): the destination appears complete or not at all.
Publish(o) ==
  /\ step[o] = "publish"
  /\ dst' = [dst EXCEPT ![o] = "whole"]
  /\ tmp' = [tmp EXCEPT ![o] = FALSE]
  /\ Goto(o, AfterTransfer(o))
  /\ UNCHANGED <<req, cancelled, src>>

\* placement.fallback_source_cleanup: the flag is read once, here.
Cleanup(o) ==
  /\ step[o] = "cleanup"
  /\ Goto(o, IF cancelled[o] THEN "ok" ELSE "remove")
  /\ UNCHANGED <<req, cancelled, src, dst, tmp>>

\* shutil.rmtree deletes a tree entry by entry.
RemoveSome(o) ==
  /\ step[o] = "remove" /\ IsDir(o)
  /\ src[o] = "whole"
  /\ src' = [src EXCEPT ![o] = "partial"]
  /\ UNCHANGED <<req, cancelled, step, dst, tmp>>

RemoveSource(o) ==
  /\ step[o] = "remove"
  /\ src' = [src EXCEPT ![o] = "gone"]
  /\ Goto(o, "ok")
  /\ UNCHANGED <<req, cancelled, dst, tmp>>

WorkerProgress(o) ==
  \/ AlreadyPlaced(o) \/ Link(o) \/ StartChunks(o)
  \/ Rename(o) \/ StartTree(o) \/ TreeRefused(o) \/ FinishTree(o)
  \/ Interrupt(o) \/ LastChunk(o) \/ Publish(o)
  \/ Cleanup(o) \/ RemoveSome(o) \/ RemoveSource(o)

WorkerStep(o) == WorkerProgress(o) \/ Raise(o)

PFNext == \E o \in Ops : Call(o) \/ RaiseCancel(o) \/ WorkerStep(o)

PFSpec == PFInit /\ [][PFNext]_pfVars /\ \A o \in Ops : WF_pfVars(WorkerProgress(o))

-----------------------------------------------------------------------------
\* "_place_file ... sin destruir nunca src", "the source is then removed only
\* when the transfer completed": whatever fails, is cancelled or is killed, the
\* data is complete under at least one of the two names.
DataNeverLost ==
  \A o \in Ops : src[o] = "whole" \/ dst[o] \in {"linked", "whole"}

\* "a cancelled fallback never leaves half a file behind", "a failure
\* mid-transfer can never publish a half-written file under the real name":
\* a file's destination is never half-written, and no temporary outlives a
\* worker that ended by itself.
NothingHalfWritten ==
  \A o \in Ops :
    /\ dst[o] = "partial" => IsDir(o)
    /\ step[o] \in Returned => ~tmp[o]

\* placement.seed_block_reason: "Placing an extra name (a hardlink or a copy)
\* never touches it": what a torrent client is seeding keeps its path.
SeedKeepsItsPath ==
  \A o \in Ops : req[o].torrent => src[o] = "whole"

\* A copy that ended in InterruptedError changed nothing the operator can see:
\* "a cancelled move keeps the download" and "must not publish".
InterruptedChangesNothing ==
  [][\A o \in Ops : step'[o] = "interrupted" =>
        /\ src'[o] = "whole"
        /\ dst'[o] \notin {"partial", "whole"}
        /\ ~tmp'[o]]_pfVars

\* Once called, the worker always ends: no cancel, failure or retry leaves it
\* turning.
WorkerEnds == \A o \in Ops : step[o] = "called" ~> step[o] \in Returned

\* A seed stays where its client looks for it.
SeedIsKept == PFTypeOK /\ SeedKeepsItsPath
=============================================================================
