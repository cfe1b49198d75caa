-------------------------- MODULE PlaceFileProofs --------------------------
(***************************************************************************)
(* What the worker thread of the file queue guarantees for every set of    *)
(* operations, requests and destinations.                                  *)
(***************************************************************************)
EXTENDS PlaceFile, TLAPS

\* The worker's own steps and the two its environment takes on its variables.
PFAction(o) == Call(o) \/ RaiseCancel(o) \/ WorkerStep(o)

\* Why no data is lost: until a transfer is complete the source is untouched,
\* and the steps that remove the source come after a complete destination.
DataInv ==
  \A o \in Ops :
    /\ step[o] \in {"unstarted", "called", "chunks", "publish", "tree"} => src[o] = "whole"
    /\ step[o] \in {"cleanup", "remove"} => dst[o] = "whole"
    /\ src[o] = "whole" \/ dst[o] \in {"linked", "whole"}

\* Why nothing is half-written: only the tree copy writes under the final name,
\* and a temporary exists only while its worker is copying or was killed.
WriteInv ==
  \A o \in Ops :
    /\ step[o] = "tree" => IsDir(o)
    /\ dst[o] = "partial" => IsDir(o)
    /\ tmp[o] => step[o] \in {"chunks", "publish", "killed"}

-----------------------------------------------------------------------------
\* The initial states satisfy the three invariants.
LEMMA PFInitInv == PFInit => PFTypeOK /\ DataInv /\ WriteInv
<1> SUFFICES ASSUME PFInit PROVE PFTypeOK /\ DataInv /\ WriteInv
  OBVIOUS
<1>1. PFTypeOK
  <2>1. req \in [Ops -> Request]
    BY PFAssumption DEF PFInit, PFAssumption
  <2>2. dst \in [Ops -> {"absent", "other", "linked", "partial", "whole"}]
    <3>1. dst \in [Ops -> Destinations]
      BY DEF PFInit
    <3>2. Destinations \subseteq {"absent", "other", "linked", "partial", "whole"}
      BY PFAssumption DEF PFAssumption
    <3>3. QED
      BY <3>1, <3>2
  <2>3. QED
    BY <2>1, <2>2 DEF PFInit, PFTypeOK
<1>2. DataInv
  BY DEF PFInit, DataInv
<1>3. WriteInv
  BY PFAssumption DEF PFInit, WriteInv
<1>4. QED
  BY <1>1, <1>2, <1>3

\* Every action on an operation keeps the variables in their types.
LEMMA PFTypeStep ==
  ASSUME PFTypeOK, NEW o \in Ops, PFAction(o)
  PROVE  PFTypeOK'
<1> USE DEF PFTypeOK, Working, Returned, Goto
<1>1. CASE Call(o) BY <1>1 DEF Call
<1>2. CASE RaiseCancel(o) BY <1>2 DEF RaiseCancel
<1>3. CASE Raise(o) BY <1>3 DEF Raise
<1>4. CASE AlreadyPlaced(o) BY <1>4 DEF AlreadyPlaced
<1>5. CASE Link(o) BY <1>5 DEF Link
<1>6. CASE StartChunks(o) BY <1>6 DEF StartChunks
<1>7. CASE Rename(o) BY <1>7 DEF Rename
<1>8. CASE StartTree(o) BY <1>8 DEF StartTree
<1>9. CASE TreeRefused(o) BY <1>9 DEF TreeRefused
<1>10. CASE FinishTree(o) BY <1>10 DEF FinishTree, AfterTransfer
<1>11. CASE Interrupt(o) BY <1>11 DEF Interrupt
<1>12. CASE LastChunk(o) BY <1>12 DEF LastChunk
<1>13. CASE Publish(o) BY <1>13 DEF Publish, AfterTransfer
<1>14. CASE Cleanup(o) BY <1>14 DEF Cleanup
<1>15. CASE RemoveSome(o) BY <1>15 DEF RemoveSome
<1>16. CASE RemoveSource(o) BY <1>16 DEF RemoveSource
<1>17. QED
  BY <1>1, <1>2, <1>3, <1>4, <1>5, <1>6, <1>7, <1>8, <1>9, <1>10, <1>11,
     <1>12, <1>13, <1>14, <1>15, <1>16
     DEF PFAction, WorkerStep, WorkerProgress

\* Every action on an operation preserves DataInv and WriteInv.
LEMMA PFStepInv ==
  ASSUME PFTypeOK, DataInv, WriteInv, NEW o \in Ops, PFAction(o)
  PROVE  DataInv' /\ WriteInv'
<1> USE DEF PFTypeOK, Working, Returned, Goto, DataInv, WriteInv, IsDir, IsCopy, IsMove
<1>1. CASE Call(o) BY <1>1 DEF Call
<1>2. CASE RaiseCancel(o) BY <1>2 DEF RaiseCancel
<1>3. CASE Raise(o) BY <1>3 DEF Raise
<1>4. CASE AlreadyPlaced(o) BY <1>4 DEF AlreadyPlaced
<1>5. CASE Link(o) BY <1>5 DEF Link
<1>6. CASE StartChunks(o) BY <1>6 DEF StartChunks
<1>7. CASE Rename(o) BY <1>7 DEF Rename
<1>8. CASE StartTree(o) BY <1>8 DEF StartTree
<1>9. CASE TreeRefused(o) BY <1>9 DEF TreeRefused
<1>10. CASE FinishTree(o) BY <1>10 DEF FinishTree, AfterTransfer
<1>11. CASE Interrupt(o) BY <1>11 DEF Interrupt
<1>12. CASE LastChunk(o) BY <1>12 DEF LastChunk
<1>13. CASE Publish(o) BY <1>13 DEF Publish, AfterTransfer
<1>14. CASE Cleanup(o) BY <1>14 DEF Cleanup
<1>15. CASE RemoveSome(o) BY <1>15 DEF RemoveSome
<1>16. CASE RemoveSource(o) BY <1>16 DEF RemoveSource
<1>17. QED
  BY <1>1, <1>2, <1>3, <1>4, <1>5, <1>6, <1>7, <1>8, <1>9, <1>10, <1>11,
     <1>12, <1>13, <1>14, <1>15, <1>16
     DEF PFAction, WorkerStep, WorkerProgress

-----------------------------------------------------------------------------
\* The worker alone, under any cancellation and any failure of a system call,
\* keeps the three invariants.
THEOREM PFInvariant == PFSpec => [](PFTypeOK /\ DataInv /\ WriteInv)
<1>1. PFTypeOK /\ DataInv /\ WriteInv /\ [PFNext]_pfVars => (PFTypeOK /\ DataInv /\ WriteInv)'
  <2> SUFFICES ASSUME PFTypeOK, DataInv, WriteInv, [PFNext]_pfVars
               PROVE  (PFTypeOK /\ DataInv /\ WriteInv)'
    OBVIOUS
  <2>1. CASE PFNext
    BY <2>1, PFTypeStep, PFStepInv DEF PFNext, PFAction
  <2>2. CASE UNCHANGED pfVars
    BY <2>2 DEF pfVars, PFTypeOK, DataInv, WriteInv, IsDir
  <2>3. QED
    BY <2>1, <2>2
<1>2. QED
  BY <1>1, PFInitInv, PTL DEF PFSpec

\* place_file: whatever fails or is cancelled, the data of an operation is
\* complete under its source or its destination.
THEOREM PFDataNeverLost == PFSpec => []DataNeverLost
<1>1. DataInv => DataNeverLost
  BY DEF DataInv, DataNeverLost
<1>2. QED
  BY <1>1, PFInvariant, PTL

\* place_file: no file is ever visible half-written, and a worker that ended by
\* itself leaves no temporary behind.
THEOREM PFNothingHalfWritten == PFSpec => []NothingHalfWritten
<1>1. WriteInv => NothingHalfWritten
  BY DEF WriteInv, NothingHalfWritten, Returned
<1>2. QED
  BY <1>1, PFInvariant, PTL

-----------------------------------------------------------------------------
\* Why a seed keeps its path: nothing that lies in the torrent folder is moved,
\* and a copy never comes to where a source is removed.
SeedInv ==
  \A o \in Ops :
    /\ req[o].torrent => IsCopy(o)
    /\ IsCopy(o) => step[o] \notin {"cleanup", "remove"} /\ src[o] = "whole"

\* Why an interrupted copy shows nothing: bytes go to a temporary until the name
\* is published, and after that no poll is left that could interrupt.
ShownInv ==
  \A o \in Ops :
    /\ step[o] \in {"unstarted", "called", "chunks", "publish", "interrupted"} =>
         dst[o] \notin {"partial", "whole"}
    /\ step[o] = "interrupted" => src[o] = "whole"

LEMMA PFInitMore == PFInit => SeedInv /\ ShownInv
<1> SUFFICES ASSUME PFInit PROVE SeedInv /\ ShownInv
  OBVIOUS
<1>1. SeedInv
  <2> SUFFICES ASSUME NEW o \in Ops
               PROVE  (req[o].torrent => IsCopy(o)) /\ step[o] = "unstarted" /\ src[o] = "whole"
    BY DEF SeedInv
  <2>1. req[o] \in Request /\ Admissible(req[o])
    BY PFAssumption DEF PFInit, PFAssumption
  <2>2. QED
    BY <2>1 DEF PFInit, Admissible, IsCopy, Request
<1>2. ShownInv
  <2> SUFFICES ASSUME NEW o \in Ops
               PROVE  step[o] = "unstarted" /\ dst[o] \notin {"partial", "whole"}
    BY DEF ShownInv
  <2>1. dst[o] \in Destinations
    BY DEF PFInit
  <2>2. QED
    BY <2>1, PFAssumption DEF PFInit, PFAssumption
<1>3. QED
  BY <1>1, <1>2

\* Every action on an operation preserves both.
LEMMA PFStepMore ==
  ASSUME PFTypeOK, DataInv, SeedInv, ShownInv, NEW o \in Ops, PFAction(o)
  PROVE  SeedInv' /\ ShownInv'
<1> USE DEF PFTypeOK, Working, Returned, Goto, DataInv, SeedInv, ShownInv, IsDir, IsCopy, IsMove, Request
<1>1. CASE Call(o) BY <1>1 DEF Call
<1>2. CASE RaiseCancel(o) BY <1>2 DEF RaiseCancel
<1>3. CASE Raise(o) BY <1>3 DEF Raise
<1>4. CASE AlreadyPlaced(o) BY <1>4 DEF AlreadyPlaced
<1>5. CASE Link(o) BY <1>5 DEF Link
<1>6. CASE StartChunks(o) BY <1>6 DEF StartChunks
<1>7. CASE Rename(o) BY <1>7 DEF Rename
<1>8. CASE StartTree(o) BY <1>8 DEF StartTree
<1>9. CASE TreeRefused(o) BY <1>9 DEF TreeRefused
<1>10. CASE FinishTree(o) BY <1>10 DEF FinishTree, AfterTransfer
<1>11. CASE Interrupt(o) BY <1>11 DEF Interrupt
<1>12. CASE LastChunk(o) BY <1>12 DEF LastChunk
<1>13. CASE Publish(o) BY <1>13 DEF Publish, AfterTransfer
<1>14. CASE Cleanup(o) BY <1>14 DEF Cleanup
<1>15. CASE RemoveSome(o) BY <1>15 DEF RemoveSome
<1>16. CASE RemoveSource(o) BY <1>16 DEF RemoveSource
<1>17. QED
  BY <1>1, <1>2, <1>3, <1>4, <1>5, <1>6, <1>7, <1>8, <1>9, <1>10, <1>11,
     <1>12, <1>13, <1>14, <1>15, <1>16
     DEF PFAction, WorkerStep, WorkerProgress

LEMMA PFInvariantMore == PFSpec => [](PFTypeOK /\ DataInv /\ WriteInv /\ SeedInv /\ ShownInv)
<1>1. PFTypeOK /\ DataInv /\ SeedInv /\ ShownInv /\ [PFNext]_pfVars => (SeedInv /\ ShownInv)'
  <2> SUFFICES ASSUME PFTypeOK, DataInv, SeedInv, ShownInv, [PFNext]_pfVars
               PROVE  (SeedInv /\ ShownInv)'
    OBVIOUS
  <2>1. CASE PFNext
    BY <2>1, PFStepMore DEF PFNext, PFAction
  <2>2. CASE UNCHANGED pfVars
    BY <2>2 DEF pfVars, SeedInv, ShownInv, IsCopy
  <2>3. QED
    BY <2>1, <2>2
<1>2. QED
  BY <1>1, PFInitMore, PFInvariant, PTL DEF PFSpec

\* placement.seed_block_reason: whatever is asked for, what a torrent client is
\* seeding keeps its path and its data.
THEOREM SeedsStay == PFSpec => []SeedIsKept
<1>1. PFTypeOK /\ SeedInv => SeedIsKept
  BY DEF SeedInv, SeedIsKept, SeedKeepsItsPath
<1>2. QED
  BY <1>1, PFInvariantMore, PTL

\* _copy_with_progress: a copy that ended in InterruptedError left its source
\* whole, nothing new under the destination and no temporary.
THEOREM InterruptedShowsNothing == PFSpec => InterruptedChangesNothing
<1> DEFINE Clean == \A o \in Ops : step[o] = "interrupted" =>
                       src[o] = "whole" /\ dst[o] \notin {"partial", "whole"} /\ ~tmp[o]
<1>1. WriteInv /\ ShownInv => Clean
  BY DEF WriteInv, ShownInv
<1>2. Clean' => [\A o \in Ops : step'[o] = "interrupted" =>
                   /\ src'[o] = "whole"
                   /\ dst'[o] \notin {"partial", "whole"}
                   /\ ~tmp'[o]]_pfVars
  OBVIOUS
<1>3. PFSpec => []Clean
  BY <1>1, PFInvariantMore, PTL
<1> HIDE DEF Clean
<1>4. QED
  BY <1>2, <1>3, PTL DEF InterruptedChangesNothing
=============================================================================
