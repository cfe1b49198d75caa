------------------------------ MODULE FifoSlot ------------------------------
(***************************************************************************)
(* What the mixer promises about its slot: one holder, newcomers wait      *)
(* while there is one, and whoever leaves hands it to the one that has     *)
(* waited longest, who holds it from that moment.                          *)
(***************************************************************************)
EXTENDS Naturals

CONSTANTS Jobs, None

VARIABLES
  holder,         \* the job that holds the slot, or None
  waiting,        \* jobs in line
  arrived         \* arrived[j]: order of arrival, 0 before it

fsVars == <<holder, waiting, arrived>>

FSInit ==
  /\ holder = None
  /\ waiting = {}
  /\ arrived = [j \in Jobs |-> 0]

Arrive(j) ==
  /\ arrived[j] = 0
  /\ \E n \in {arrived[k] + 1 : k \in Jobs} :
       /\ \A k \in Jobs : arrived[k] < n
       /\ arrived' = [arrived EXCEPT ![j] = n]
  /\ \/ holder = None /\ holder' = j /\ UNCHANGED waiting
     \/ holder # None /\ waiting' = waiting \union {j} /\ UNCHANGED holder

Pass ==
  /\ holder # None
  /\ \/ waiting = {} /\ holder' = None /\ UNCHANGED waiting
     \/ \E k \in waiting :
          /\ \A l \in waiting : arrived[k] <= arrived[l]
          /\ holder' = k
          /\ waiting' = waiting \ {k}
  /\ UNCHANGED arrived

GiveUp(j) ==
  /\ j \in waiting
  /\ waiting' = waiting \ {j}
  /\ UNCHANGED <<holder, arrived>>

\* A restart of the process forgets everyone.
Forget ==
  /\ holder' = None
  /\ waiting' = {}
  /\ UNCHANGED arrived

FSNext ==
  \/ \E j \in Jobs : Arrive(j) \/ GiveUp(j)
  \/ Pass
  \/ Forget

FSSpec == FSInit /\ [][FSNext]_fsVars
=============================================================================
