------------------------------- MODULE MCLive -------------------------------
\* What must end: every operation of the file queue settles, every mux makes room
\* for the next.  A behaviour is one of the two, the other stays at its initial
\* state, where nothing its fairness is about is enabled.
EXTENDS FileQueue

CONSTANTS Jobs, Paths

VARIABLES machine, mixReq, mixStatus, mixCancelled, paused, event, run, mixActive, fifo,
          mixArrived, file, temp, mixCrashes

mixVars == <<mixReq, mixStatus, mixCancelled, paused, event, run, mixActive, fifo,
             mixArrived, file, temp, mixCrashes>>

Mix == INSTANCE Mixer WITH Requests <- [replace : BOOLEAN, path : Paths],
           MaxCrashes <- 0, req <- mixReq, cancelled <- mixCancelled,
           status <- mixStatus, active <- mixActive,
           arrived <- mixArrived, crashes <- mixCrashes

FileMoveOfArr == {[kind |-> "move", dir |-> FALSE, torrent |-> FALSE, arr |-> TRUE]}
FreeDestination == {"absent"}

MCInit == /\ Init /\ Mix!Init
          /\ \/ machine = "queue" /\ \A j \in Jobs : mixReq[j].replace
             \/ machine = "mixer"
MCNext == /\ \/ machine = "queue" /\ Next /\ UNCHANGED mixVars
             \/ machine = "mixer" /\ Mix!Next /\ UNCHANGED vars
          /\ UNCHANGED machine

MCSpec == /\ MCInit /\ [][MCNext]_<<machine, vars, mixVars>>
          /\ Fairness
          /\ \A j \in Jobs : WF_mixVars(Mix!RunStep(j))

\* Mixer's QueueMoves.
MuxesMove == Mix!QueueMoves
=============================================================================
