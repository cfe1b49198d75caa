---------------------------- MODULE SerialQueue ----------------------------
(***************************************************************************)
(* What the file queue promises, without lock, consumer task, worker or    *)
(* database: accepted operations wait, at most one executes at any time,   *)
(* the oldest waiting one first, each at most once; one that was withdrawn *)
(* or lost with the process never executes.                                *)
(***************************************************************************)
EXTENDS Naturals

CONSTANTS Ops

VARIABLES
  arrived,        \* arrived[o]: position in order of acceptance, 0 before it
  waiting,        \* accepted and not yet started
  executing       \* in the hands of the worker

sqVars == <<arrived, waiting, executing>>

SQInit ==
  /\ arrived = [o \in Ops |-> 0]
  /\ waiting = {}
  /\ executing = {}

Accept(o) ==
  /\ arrived[o] = 0
  /\ \E n \in {arrived[p] + 1 : p \in Ops} :
       /\ \A p \in Ops : arrived[p] < n
       /\ arrived' = [arrived EXCEPT ![o] = n]
  /\ waiting' = waiting \union {o}
  /\ UNCHANGED executing

Begin(o) ==
  /\ executing = {}
  /\ o \in waiting
  /\ \A p \in waiting : arrived[o] <= arrived[p]
  /\ waiting' = waiting \ {o}
  /\ executing' = {o}
  /\ UNCHANGED arrived

End(o) ==
  /\ o \in executing
  /\ executing' = executing \ {o}
  /\ UNCHANGED <<arrived, waiting>>

Withdraw(o) ==
  /\ o \in waiting
  /\ waiting' = waiting \ {o}
  /\ UNCHANGED <<arrived, executing>>

\* A restart loses everything the process held in memory.
Lose ==
  /\ waiting' = {}
  /\ executing' = {}
  /\ UNCHANGED arrived

SQNext ==
  \/ \E o \in Ops : Accept(o) \/ Begin(o) \/ End(o) \/ Withdraw(o)
  \/ Lose

SQSpec == SQInit /\ [][SQNext]_sqVars
=============================================================================
