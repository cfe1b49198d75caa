-------------------------------- MODULE Feed --------------------------------
(* What the dashboards see: the snapshots of trace_cache.py, downloads_cache.py
   and routes/status.py, refreshed by a poller each and by the requests that find
   them stale, announced on the bus and read again by whoever the announcement
   reaches. One surface is watched at a time: they share only the bus, where the
   events of the others are other events. The grain is the await: what a request
   knew before it asked the services is still what it knows after. An offer to a
   queue is one step here; EventBus has the threads inside it, and what a race
   there can do to a copy is a choice here. *)
EXTENDS Naturals, Sequences, FiniteSets

CONSTANTS Readers,      \* the pages, with a stream each
          Poller,       \* the loop of lifespan that refreshes the surface
          MaxSize,      \* DEFAULT_MAXSIZE
          MaxTruth, MaxOthers, MaxJoins, MaxFeedFaults   \* bounds of the model

ASSUME FeedAssumption == MaxSize \in Nat \ {0} /\ MaxTruth \in Nat \ {0, 1}

Surfaces == {"trace", "downloads", "status"}
Own == "refreshed"      \* the event of the surface watched
Other == "other"        \* any other event: a task, another surface
Never == 0              \* no snapshot yet
Empty == 1              \* a snapshot of nothing at all
Versions == 2..MaxTruth
Seen == {Never, Empty} \cup Versions
Fetchers == {Poller} \cup Readers

VARIABLES surface,      \* which snapshot is watched
          truth,        \* the services' state, a version
          up,           \* whether they answer
          cache,        \* the snapshot, and whether its window is open
          fetch,        \* fetch[f]: the request or the poller's tick of f
          checking,     \* status_cache["checking"]
          subscribed,   \* _queues: the pages whose stream is open
          queue,        \* queue[r]: the events r has not taken
          view,         \* view[r]: what the page shows
          stale,        \* stale[r]: the page is to read again
          covered,      \* history: a refresh was announced to r, no copy of the event
                        \* was dropped since and no read of r failed
          budget        \* what is left of the model's bounds

snapshotVars == <<cache, fetch, checking>>
streamVars == <<subscribed, queue>>
pageVars == <<view, stale, covered>>
feedVars == <<surface, truth, up, snapshotVars, streamVars, pageVars, budget>>

Resting == [at |-> "idle"]
Reading(had) == [at |-> "reading", had |-> had]
Read(v) == [at |-> "read", v |-> v]

FeedTypeOK == /\ surface \in Surfaces /\ truth \in Versions /\ up \in BOOLEAN
              /\ cache \in [v : Seen, fresh : BOOLEAN]
              /\ fetch \in [Fetchers -> {Resting} \cup {Reading(v) : v \in Seen}
                                        \cup {Read(v) : v \in Seen \ {Never}}]
              /\ checking \in BOOLEAN
              /\ subscribed \subseteq Readers
              /\ queue \in [Readers -> Seq({Own, Other})]
              /\ \A r \in Readers : Len(queue[r]) <= MaxSize
              /\ view \in [Readers -> Seen]
              /\ stale \in [Readers -> BOOLEAN] /\ covered \in [Readers -> BOOLEAN]

FeedInit == /\ surface \in Surfaces /\ truth = 2 /\ up = TRUE
            /\ cache = [v |-> Never, fresh |-> FALSE]
            /\ fetch = [f \in Fetchers |-> Resting]
            /\ checking = FALSE
            /\ subscribed = {} /\ queue = [r \in Readers |-> <<>>]
            /\ view = [r \in Readers |-> Never]
            /\ stale = [r \in Readers |-> FALSE] /\ covered = [r \in Readers |-> FALSE]
            /\ budget = [others |-> MaxOthers, joins |-> MaxJoins, faults |-> MaxFeedFaults]

Now(f, state) == fetch' = [fetch EXCEPT ![f] = state]
Spend(what) == budget[what] > 0 /\ budget' = [budget EXCEPT ![what] = @ - 1]
Shows(f, v) == view' = IF f \in Readers THEN [view EXCEPT ![f] = v] ELSE view

\* Mutation.
Served_Ever(f) == cache.v # Never      \* the window never closes

(* get_traces and get_downloads serve the window; /api/status serves whatever
   there is, be it nothing yet, and only its poller and the refresh button read anew. *)
Served(f) == IF surface = "status" THEN f # Poller ELSE cache.v # Never /\ cache.fresh

(* An offer to a queue at its bound: the oldest goes. *)
Push(q, event) == Append(IF Len(q) < MaxSize THEN q ELSE Tail(q), event)
Owns(q) == Cardinality({i \in 1..Len(q) : q[i] = Own})

(* The copies that are lost are those of queues another producer fills first. *)
FeedPublishes(event) ==
    /\ \E lost \in SUBSET {r \in subscribed : Len(queue[r]) = MaxSize} :
           queue' = [r \in Readers |-> IF r \in subscribed \ lost THEN Push(queue[r], event)
                                                                 ELSE queue[r]]
    /\ UNCHANGED subscribed

-----------------------------------------------------------------------------
(* The world. *)

Change == /\ truth < MaxTruth /\ truth' = truth + 1
          /\ UNCHANGED <<surface, up, snapshotVars, streamVars, pageVars, budget>>

Outage == /\ up /\ up' = FALSE /\ Spend("faults")
          /\ UNCHANGED <<surface, truth, snapshotVars, streamVars, pageVars>>

Recover == /\ ~up /\ up' = TRUE
           /\ UNCHANGED <<surface, truth, snapshotVars, streamVars, pageVars, budget>>

(* The window of the snapshot closes: time passes. *)
Lapse == /\ cache.fresh /\ cache' = [cache EXCEPT !.fresh = FALSE]
         /\ UNCHANGED <<surface, truth, up, fetch, checking, streamVars, pageVars, budget>>

(* An event of another surface or of a task takes its room in the queues. *)
Announce == /\ Spend("others") /\ FeedPublishes(Other)
            /\ covered' = [r \in Readers |-> covered[r] /\ Owns(queue'[r]) = Owns(queue[r])]
            /\ UNCHANGED <<surface, truth, up, snapshotVars, view, stale>>

-----------------------------------------------------------------------------
(* The stream: subscribed before the first byte, unsubscribed however it ends. *)

Join(r) == /\ Spend("joins") /\ r \notin subscribed
           /\ subscribed' = subscribed \cup {r}
           /\ queue' = [queue EXCEPT ![r] = <<>>]
           /\ covered' = [covered EXCEPT ![r] = FALSE]
           /\ UNCHANGED <<surface, truth, up, snapshotVars, view, stale>>

Leave(r) == /\ r \in subscribed /\ subscribed' = subscribed \ {r}
            /\ UNCHANGED <<surface, truth, up, snapshotVars, queue, pageVars, budget>>

Hear(r) == /\ r \in subscribed /\ queue[r] # <<>>
           /\ queue' = [queue EXCEPT ![r] = Tail(@)]
           /\ stale' = [stale EXCEPT ![r] = @ \/ Head(queue[r]) = Own]
           /\ UNCHANGED <<surface, truth, up, snapshotVars, subscribed, view, covered, budget>>

-----------------------------------------------------------------------------
(* get_traces, get_downloads, check_all and the routes over them. A page reads
   because it heard of a refresh, or of its own accord; the poller of the traces
   builds for a reader or not at all. *)

Clears(f) == stale' = [r \in Readers |-> stale[r] /\ r # f]

Hit(r) == /\ fetch[r] = Resting /\ Served(r)
          /\ Shows(r, cache.v) /\ Clears(r)
          /\ UNCHANGED <<surface, truth, up, snapshotVars, streamVars, covered, budget>>

StartRead(f) == /\ fetch[f] = Resting
                /\ Now(f, Reading(IF surface = "downloads" THEN cache.v ELSE Never))
                /\ checking' = (surface = "status")
                /\ Clears(f)
                /\ UNCHANGED <<surface, truth, up, cache, streamVars, view, covered, budget>>

Miss(r) == ~Served(r) /\ StartRead(r)
RefreshStatus(r) == surface = "status" /\ StartRead(r)
Tick == /\ ~Served(Poller)
        /\ surface = "trace" => subscribed # {}
        /\ StartRead(Poller)

(* The services answer. The queue of an arr that does not answer is an empty list
   for fetch_arr_queue; a service that does not answer is a status like another. *)
Answer(f) == /\ fetch[f].at = "reading"
             /\ Now(f, Read(IF up \/ surface = "status" THEN truth ELSE Empty))
             /\ UNCHANGED <<surface, truth, up, cache, checking, streamVars, pageVars, budget>>

\* Mutation.
Store_PollerOnly(f) ==      \* only the poller's refresh is announced
    /\ fetch[f].at = "read"
    /\ cache' = [v |-> fetch[f].v, fresh |-> TRUE]
    /\ Now(f, Resting) /\ Shows(f, fetch[f].v)
    /\ checking' = FALSE
    /\ IF f = Poller THEN FeedPublishes(Own) ELSE UNCHANGED streamVars
    /\ covered' = [r \in Readers |-> r \in subscribed]
    /\ UNCHANGED <<surface, truth, up, stale, budget>>

Store(f) == /\ fetch[f].at = "read"
            /\ cache' = [v |-> fetch[f].v, fresh |-> TRUE]
            /\ Now(f, Resting) /\ Shows(f, fetch[f].v)
            /\ checking' = FALSE
            /\ FeedPublishes(Own)
            /\ covered' = [r \in Readers |-> r \in subscribed /\ Owns(queue'[r]) > 0]
            /\ UNCHANGED <<surface, truth, up, stale, budget>>

\* Mutation.
ReadRaises_NoFinally(f) ==  \* a check that fails leaves its flag
    /\ fetch[f].at = "reading" /\ Spend("faults")
    /\ Now(f, Resting)
    /\ covered' = [r \in Readers |-> covered[r] /\ r # f]
    /\ UNCHANGED <<surface, truth, up, cache, checking, streamVars, view, stale>>

(* A read that raises, for an answer that cannot be parsed: the downloads serve
   the snapshot they had when they asked, the traces pass the error on, the status
   announces that it ended. The pollers sleep and come back. *)
ReadRaises(f) == /\ fetch[f].at = "reading" /\ Spend("faults")
                 /\ Now(f, Resting)
                 /\ IF surface = "downloads" /\ fetch[f].had # Never
                      THEN Shows(f, fetch[f].had) ELSE UNCHANGED view
                 /\ IF surface = "status"
                      THEN FeedPublishes(Own) /\ checking' = FALSE
                      ELSE UNCHANGED <<streamVars, checking>>
                 /\ covered' = [r \in Readers |-> covered[r] /\ r # f]
                 /\ UNCHANGED <<surface, truth, up, cache, stale>>

-----------------------------------------------------------------------------
FeedNext == \/ Change \/ Outage \/ Recover \/ Lapse \/ Announce \/ Tick
            \/ \E r \in Readers : \/ Join(r) \/ Leave(r) \/ Hear(r)
                                  \/ Hit(r) \/ Miss(r) \/ RefreshStatus(r)
            \/ \E f \in Fetchers : Answer(f) \/ Store(f) \/ ReadRaises(f)

(* The loop runs whatever is ready, a request to a service has a timeout, time
   passes, and a page that has heard of a refresh reads again. *)
FeedFairness ==
    /\ WF_feedVars(Recover) /\ WF_feedVars(Lapse) /\ WF_feedVars(Tick)
    /\ \A f \in Fetchers : WF_feedVars(Answer(f) \/ Store(f))
    /\ \A r \in Readers : WF_feedVars(Hear(r)) /\ WF_feedVars(stale[r] /\ (Hit(r) \/ Miss(r)))

FeedSpec == FeedInit /\ [][FeedNext]_feedVars /\ FeedFairness

-----------------------------------------------------------------------------
(* While the stream is open the page does not poll: what it shows is what the last
   refresh left, whoever made it, unless it has just heard of a newer one, an event
   waits for it, it lost its copy of one or its own read failed. *)
Quiet(r) == /\ r \in subscribed /\ covered[r] /\ Owns(queue[r]) = 0
            /\ ~stale[r] /\ fetch[r] = Resting
QuietPageIsCurrent == \A r \in Readers : Quiet(r) => view[r] = cache.v

(* "checking" is shown only while a check runs. *)
CheckingIsTrue == checking => \E f \in Fetchers : fetch[f].at \in {"reading", "read"}

(* A page on the stream ends up showing what is true, whatever was dropped, failed
   or raced before. *)
PagesCatchUp == \A r \in Readers : <>[](r \in subscribed) => <>[](view[r] = truth)

(* What a quiet page shows, and what it shows as being checked, is so. *)
FeedHolds == FeedTypeOK /\ QuietPageIsCurrent /\ CheckingIsTrue
=============================================================================
