------------------------------ MODULE MCWorkers ------------------------------
(* Four machines, a behaviour is one of them: the worker of one operation of the
   file queue, the watchdog of aMule, what the operator is told of a download, and
   what the operator dismisses. Each has the fairness of its own module, and the
   others stay at an initial state of theirs. *)
EXTENDS PlaceFile, Watchdog, Notices, BlockedAcks
CONSTANTS download1, file1, trace1, trace2, trace3, key, none

AllRequests == Request
AllDestinations == {"absent", "other", "linked"}
MCIdentity == [t \in {trace1, trace2, trace3} |-> IF t = trace3 THEN none ELSE key]

VARIABLE machine
Plays(name) == machine = name /\ UNCHANGED machine

AnyRequest == [kind |-> "copy", dir |-> FALSE, torrent |-> FALSE, arr |-> FALSE]
Still == /\ machine # "place" => \A o \in Ops : req[o] = AnyRequest /\ dst[o] = "absent"
         /\ machine # "watchdog" => amule = "up" /\ enabled /\ configured /\ channel
         /\ machine # "notices" => subject = download1

MCInit == /\ PFInit /\ Init /\ NoticesInit /\ AcksInit
          /\ machine \in {"place", "watchdog", "notices", "acks"}
          /\ Still

MCNext == \/ Plays("place") /\ PFNext /\ UNCHANGED <<vars, noticeVars, ackVars>>
          \/ Plays("watchdog") /\ Next /\ UNCHANGED <<pfVars, noticeVars, ackVars>>
          \/ Plays("notices") /\ NoticesNext /\ UNCHANGED <<pfVars, vars, ackVars>>
          \/ Plays("acks") /\ AcksNext /\ UNCHANGED <<pfVars, vars, noticeVars>>

MCSpec == /\ MCInit /\ [][MCNext]_<<machine, pfVars, vars, noticeVars, ackVars>>
          /\ \A o \in Ops : WF_pfVars(machine = "place" /\ WorkerProgress(o))
          /\ WF_vars(machine = "watchdog" /\ Cycle) /\ WF_vars(machine = "watchdog" /\ Elapse)
          /\ SF_noticeVars(machine = "notices" /\ PollerStep)
          /\ WF_noticeVars(machine = "notices" /\ ~table /\ TableMoves)
=============================================================================
