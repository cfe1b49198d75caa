---------------------------- MODULE MCFileQueue ----------------------------
\* Two operations through the queue.  The kinds of request are the ones whose
\* paths through the worker differ; MCPlaceFile covers the others.
EXTENDS FileQueue, TLC

FileCopyOfArr == [kind |-> "copy", dir |-> FALSE, torrent |-> FALSE, arr |-> TRUE]
FileMove      == [kind |-> "move", dir |-> FALSE, torrent |-> FALSE, arr |-> FALSE]
TreeMove      == [kind |-> "move", dir |-> TRUE, torrent |-> FALSE, arr |-> FALSE]

MixedRequests == {FileCopyOfArr, TreeMove}
MovesOfArr == {[FileMove EXCEPT !.arr = TRUE]}
FreeDestination == {"absent"}

Symmetry == Permutations(Ops) \union Permutations(Tasks)
=============================================================================
