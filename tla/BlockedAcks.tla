---------------------------- MODULE BlockedAcks ----------------------------
(* The operator dismisses a blocked import: blocked_acks.py, the two routes of
   routes/status.py over it and the table of acknowledgements. What the operator
   clicks is what the page showed, which comes from a cache of what the arr said:
   by then the block may be gone, or be another one. *)
EXTENDS Naturals, FiniteSets

CONSTANTS Traces,       \* entries of the column
          Identity,     \* Identity[t]: its auto_copy_key
          Unidentified, \* the key all traces without an identifier share
          MaxQueueId    \* bound of the model: the arr numbers its entries

ASSUME AcksAssumption == MaxQueueId \in Nat

VARIABLES queueId,      \* queueId[t]: the arr's entry of the warning; 0 is not blocked
          lastId,       \* the last number the arr gave
          traceCache,   \* what the cache of the traces holds of it
          acks,         \* the table blocked_acks
          acksUp,       \* whether it can be read and written
          page,         \* the incidents the page shows
          pageOf,       \* the ones it was made from
          dismissed     \* history: the incidents the operator was told were dismissed

ackVars == <<queueId, lastId, traceCache, acks, acksUp, page, pageOf, dismissed>>

Incidents == Traces \X (1..MaxQueueId)
Blocked(entries) == {<<t, entries[t]>> : t \in {x \in Traces : entries[x] > 0}}

AcksTypeOK == /\ queueId \in [Traces -> 0..MaxQueueId] /\ lastId \in 0..MaxQueueId
              /\ traceCache \in [Traces -> 0..MaxQueueId]
              /\ acks \subseteq {Identity[t] : t \in Traces} \X (1..MaxQueueId)
              /\ acksUp \in BOOLEAN
              /\ page \subseteq Incidents /\ pageOf \subseteq Incidents
              /\ dismissed \subseteq Incidents

AcksInit == /\ queueId = [t \in Traces |-> 0] /\ lastId = 0
            /\ traceCache = queueId
            /\ acks = {} /\ acksUp = TRUE
            /\ page = {} /\ pageOf = {} /\ dismissed = {}

(* incident_key: none for a trace without an identity, the same on both sides. *)
Named(t) == Identity[t] # Unidentified
\* Mutation.
IncidentKey_NoQueue(t, q) == <<Identity[t], 1>>

IncidentKey(t, q) == <<Identity[t], q>>

(* visible_traces: an ack hides its own incident and nothing else, and a table
   that cannot be read hides nothing. *)
Acknowledged == IF acksUp THEN acks ELSE {}
VisibleTraces(incidents) ==
    {i \in incidents : ~(Named(i[1]) /\ IncidentKey(i[1], i[2]) \in Acknowledged)}

-----------------------------------------------------------------------------
(* The arr blocks a download under a new entry, and moves on from it. *)
BlockImport(t) == /\ lastId < MaxQueueId /\ lastId' = lastId + 1
                  /\ queueId' = [queueId EXCEPT ![t] = lastId + 1]
                  /\ UNCHANGED <<traceCache, acks, acksUp, page, pageOf, dismissed>>

MoveOn(t) == /\ queueId[t] > 0 /\ queueId' = [queueId EXCEPT ![t] = 0]
             /\ UNCHANGED <<lastId, traceCache, acks, acksUp, page, pageOf, dismissed>>

RefreshTraces == /\ traceCache' = queueId
                 /\ UNCHANGED <<queueId, lastId, acks, acksUp, page, pageOf, dismissed>>

AcksTableMoves == /\ acksUp' = ~acksUp
                  /\ UNCHANGED <<queueId, lastId, traceCache, acks, page, pageOf, dismissed>>

(* get_trace. *)
ShowPage == /\ pageOf' = Blocked(traceCache) /\ page' = VisibleTraces(pageOf')
            /\ UNCHANGED <<queueId, lastId, traceCache, acks, acksUp, dismissed>>

\* Mutation.
AckBlocked_NotWritten(t, q) == /\ <<t, q>> \in page /\ Named(t)
                               /\ acks' = IF acksUp THEN acks \cup {IncidentKey(t, q)} ELSE acks
                               /\ dismissed' = dismissed \cup {<<t, q>>}
                               /\ UNCHANGED <<queueId, lastId, traceCache, acksUp, page, pageOf>>

(* ack_blocked: refused for a trace that cannot be named and by a table that is
   away; a dismissed incident answers ok. *)
AckBlocked(t, q) == /\ <<t, q>> \in page /\ Named(t) /\ acksUp
                    /\ acks' = acks \cup {IncidentKey(t, q)}
                    /\ dismissed' = dismissed \cup {<<t, q>>}
                    /\ UNCHANGED <<queueId, lastId, traceCache, acksUp, page, pageOf>>

AcksNext == \/ RefreshTraces \/ AcksTableMoves \/ ShowPage
            \/ \E t \in Traces : BlockImport(t) \/ MoveOn(t)
            \/ \E t \in Traces, q \in 1..MaxQueueId : AckBlocked(t, q)

AcksSpec == AcksInit /\ [][AcksNext]_ackVars

-----------------------------------------------------------------------------
(* Nothing is hidden that nobody dismissed: not another download of the same
   identity, not the same one blocked again, not one that cannot be named. *)
OnlyDismissedIsHidden == pageOf \ page \subseteq dismissed

(* What the operator was told is dismissed stays so on every page made while the
   table can be read, whatever restarts in between. *)
DismissedStaysHidden ==
    [][page' # page /\ acksUp => page' \cap dismissed = {}]_ackVars

(* The page hides what was dismissed and nothing else. *)
AcksHold == [](AcksTypeOK /\ OnlyDismissedIsHidden) /\ DismissedStaysHidden
=============================================================================
