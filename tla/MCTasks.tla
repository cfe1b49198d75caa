------------------------------- MODULE MCTasks -------------------------------
(* Three machines, a behaviour is one of them: two copies at once, of a directory of
   two files into the library and of a file beside it, any of which may be asked for
   again; the snapshots with their pages; and the threads inside one publish. Each
   has the fairness of its own module, and the others stay at an initial state. *)
EXTENDS CopyTask, Feed, EventBus
CONSTANTS tree, file, page, poller, loop, worker, stream, other

MCFilesOf == [d \in Downloads |-> IF d = tree THEN {"f1", "f2"} ELSE {"f1"}]
MCAsked == {<<tree, "library">>, <<file, "foreign">>}

VARIABLE machine
Plays(name) == machine = name /\ UNCHANGED machine

MCInit == /\ CTInit /\ FeedInit /\ BusInit
          /\ machine \in {"copies", "feed", "bus"}
          /\ machine # "feed" => surface = "trace"

MCNext == \/ Plays("copies") /\ CTNext /\ UNCHANGED <<feedVars, busVars>>
          \/ Plays("feed") /\ FeedNext /\ UNCHANGED <<ctVars, busVars>>
          \/ Plays("bus") /\ BusNext /\ UNCHANGED <<ctVars, feedVars>>

MCFairness ==
  /\ \A t \in CopyTasks : /\ WF_ctVars(machine = "copies" /\ WorkerStep(t))
                          /\ WF_ctVars(machine = "copies" /\ CoroutineStep(t))
  /\ WF_feedVars(machine = "feed" /\ Recover) /\ WF_feedVars(machine = "feed" /\ Lapse)
  /\ WF_feedVars(machine = "feed" /\ Tick)
  /\ \A f \in Fetchers : WF_feedVars(machine = "feed" /\ (Answer(f) \/ Store(f)))
  /\ \A r \in Readers : /\ WF_feedVars(machine = "feed" /\ Hear(r))
                        /\ WF_feedVars(machine = "feed" /\ stale[r] /\ (Hit(r) \/ Miss(r)))

MCSpec == MCInit /\ [][MCNext]_<<machine, ctVars, feedVars, busVars>> /\ MCFairness
=============================================================================
