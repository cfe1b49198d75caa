------------------------------ MODULE EventBus ------------------------------
(* The fan-out bus of backend/event_bus.py and the stream that reads it
   (routes/events.py). Every reader of the stream owns a bounded queue. A
   publish runs in the thread that calls it: the event loop, or a worker thread
   in which TaskManager.update ran. asyncio.Queue has no lock, so put_nowait and
   get_nowait are two steps each, the test and the change, and a second thread
   may come between them. The loop runs one thing at a time: while it publishes
   no reader runs. *)
EXTENDS Naturals, Sequences, FiniteSets

CONSTANTS Listeners,      \* who opens the stream
          Threads,      \* the threads that publish
          LoopThread,         \* the one of them that is the event loop
          EventKinds,        \* what an event invalidates
          Bound       \* DEFAULT_MAXSIZE

ASSUME BusAssumption == /\ LoopThread \in Threads /\ IsFiniteSet(Threads)
                        /\ Bound \in Nat \ {0}

VARIABLES queues,   \* _queues: the readers whose queue is registered
          box,        \* box[r]: the events reader r has not taken
          pub,          \* pub[t]: the publish thread t is in
          woken,        \* offers handed over to the loop by call_soon_threadsafe
          handed,       \* the loop is in an offer it was handed over
          owed          \* owed[r]: an offer to r has ended and r took nothing since

busVars == <<queues, box, pub, woken, handed, owed>>

(* Where a thread is in _offer: before it chooses a reader, about to append, about
   to take the oldest out, having found a queue that had something to take out,
   and back for the second put. *)
OfferPlace == {"next", "put", "full", "pop", "retry"}

BusIdle == [at |-> "idle"]
BusOffer(kind, todo) == [at |-> "next", kind |-> kind, todo |-> todo]
OfferTo(kind, todo, place, r) == [at |-> place, kind |-> kind, todo |-> todo, to |-> r]

BusOffers == {BusIdle} \cup {BusOffer(k, s) : k \in EventKinds, s \in SUBSET Listeners}
                 \cup {OfferTo(k, s, a, r) : k \in EventKinds, s \in SUBSET Listeners,
                                        a \in OfferPlace \ {"next"}, r \in Listeners}

BusTypeOK == /\ queues \subseteq Listeners
             /\ box \in [Listeners -> Seq(EventKinds)]
             /\ pub \in [Threads -> BusOffers]
             /\ \A t \in Threads : pub[t].at \notin {"idle", "next"} => pub[t].to \in pub[t].todo
             /\ woken \subseteq Listeners \X EventKinds
             /\ handed \in BOOLEAN /\ owed \in [Listeners -> BOOLEAN]

BusInit == /\ queues = {}
           /\ box = [r \in Listeners |-> <<>>]
           /\ pub = [t \in Threads |-> BusIdle]
           /\ woken = {} /\ handed = FALSE
           /\ owed = [r \in Listeners |-> FALSE]

LoopFree == pub[LoopThread] = BusIdle
Where(t, place) == pub[t].at = place
BoxFull(r) == Len(box[r]) >= Bound
BusGoto(t, place) == pub' = [pub EXCEPT ![t].at = place]

(* The offer to the reader is over: on to the next of the copied list. *)
NextReader(t) == LET p == pub[t]
                 IN pub' = [pub EXCEPT ![t] = BusOffer(p.kind, p.todo \ {p.to})]

-----------------------------------------------------------------------------
(* The reader: the generator subscribes before its first yield, takes what is
   there, and unsubscribes in its finally however it is closed. A connection is
   a reader: its name serves again when nobody holds its old queue. *)

OnItsWay(r) == \/ \E t \in Threads : pub[t] # BusIdle /\ r \in pub[t].todo
               \/ \E k \in EventKinds : <<r, k>> \in woken

BusSubscribe(r) == /\ LoopFree /\ r \notin queues /\ ~OnItsWay(r)
                /\ queues' = queues \cup {r}
                /\ box' = [box EXCEPT ![r] = <<>>]
                /\ owed' = [owed EXCEPT ![r] = FALSE]
                /\ UNCHANGED <<pub, woken, handed>>

BusUnsubscribe(r) == /\ LoopFree /\ r \in queues
                  /\ queues' = queues \ {r}
                  /\ UNCHANGED <<box, pub, woken, handed, owed>>

BusTake(r) == /\ LoopFree /\ r \in queues /\ box[r] # <<>>
           /\ box' = [box EXCEPT ![r] = Tail(@)]
           /\ owed' = [owed EXCEPT ![r] = FALSE]
           /\ UNCHANGED <<queues, pub, woken, handed>>

-----------------------------------------------------------------------------
(* The publisher. *)

BusPublish(t, kind) == /\ pub[t] = BusIdle
                    /\ pub' = [pub EXCEPT ![t] = BusOffer(kind, queues)]
                    /\ UNCHANGED <<queues, box, woken, handed, owed>>

Published(t) == /\ Where(t, "next") /\ pub[t].todo = {}
                /\ pub' = [pub EXCEPT ![t] = BusIdle]
                /\ handed' = (handed /\ t # LoopThread)
                /\ UNCHANGED <<queues, box, woken, owed>>

\* Mutation.
TestBound_Never(t, r) ==
    /\ Where(t, "next") /\ r \in pub[t].todo
    /\ pub' = [pub EXCEPT ![t] = OfferTo(@.kind, @.todo, "put", r)]
    /\ UNCHANGED <<queues, box, woken, handed, owed>>

(* The first put_nowait tests the bound. *)
TestBound(t, r) ==
    /\ Where(t, "next") /\ r \in pub[t].todo
    /\ pub' = [pub EXCEPT ![t] = OfferTo(@.kind, @.todo, IF BoxFull(r) THEN "full" ELSE "put", r)]
    /\ UNCHANGED <<queues, box, woken, handed, owed>>

AppendCopy(t) == /\ Where(t, "put")
              /\ box' = [box EXCEPT ![pub[t].to] = Append(@, pub[t].kind)]
              /\ owed' = [owed EXCEPT ![pub[t].to] = TRUE]
              /\ NextReader(t)
              /\ UNCHANGED <<queues, woken, handed>>

(* get_nowait: QueueEmpty is passed over, and a reader that empties the queue
   between the test and the change makes the change raise. *)
TestEmpty(t) == /\ Where(t, "full")
                /\ BusGoto(t, IF box[pub[t].to] = <<>> THEN "retry" ELSE "pop")
                /\ UNCHANGED <<queues, box, woken, handed, owed>>

DropOldest(t) == /\ Where(t, "pop") /\ box[pub[t].to] # <<>>
                 /\ box' = [box EXCEPT ![pub[t].to] = Tail(@)]
                 /\ BusGoto(t, "retry")
                 /\ UNCHANGED <<queues, woken, handed, owed>>

InHandedOffer(t) == t = LoopThread /\ handed

(* An offer that raises is handed to the loop. *)
OfferRaises(t) == /\ Where(t, "pop") /\ box[pub[t].to] = <<>> /\ ~InHandedOffer(t)
                  /\ woken' = woken \cup {<<pub[t].to, pub[t].kind>>}
                  /\ NextReader(t)
                  /\ UNCHANGED <<queues, box, handed, owed>>

(* One that the loop was handed and that raises again is lost with its copy. *)
CopyLost(t) == /\ Where(t, "pop") /\ box[pub[t].to] = <<>> /\ InHandedOffer(t)
               /\ owed' = [owed EXCEPT ![pub[t].to] = TRUE]
               /\ NextReader(t)
               /\ UNCHANGED <<queues, box, woken, handed>>

\* Mutation.
RetryPut_Forgets(t) == /\ Where(t, "retry") /\ ~BoxFull(pub[t].to)
                    /\ owed' = [owed EXCEPT ![pub[t].to] = TRUE]
                    /\ NextReader(t)
                    /\ UNCHANGED <<queues, box, woken, handed>>

RetryPut(t) == /\ Where(t, "retry") /\ ~BoxFull(pub[t].to)
            /\ BusGoto(t, "put")
            /\ UNCHANGED <<queues, box, woken, handed, owed>>

(* Another producer filled the gap: this copy is dropped. *)
CopyDropped(t) == /\ Where(t, "retry") /\ BoxFull(pub[t].to)
                  /\ owed' = [owed EXCEPT ![pub[t].to] = TRUE]
                  /\ NextReader(t)
                  /\ UNCHANGED <<queues, box, woken, handed>>

(* The loop runs an offer it was handed. *)
Woken(r, k) == /\ LoopFree /\ <<r, k>> \in woken
               /\ woken' = woken \ {<<r, k>>}
               /\ pub' = [pub EXCEPT ![LoopThread] = BusOffer(k, {r})] /\ handed' = TRUE
               /\ UNCHANGED <<queues, box, owed>>

OfferStep(t) == \/ Published(t) \/ AppendCopy(t) \/ TestEmpty(t) \/ DropOldest(t)
                \/ OfferRaises(t) \/ CopyLost(t) \/ RetryPut(t) \/ CopyDropped(t)
                \/ \E r \in Listeners : TestBound(t, r)

BusNext == \/ \E r \in Listeners : BusSubscribe(r) \/ BusUnsubscribe(r) \/ BusTake(r)
           \/ \E t \in Threads, k \in EventKinds : BusPublish(t, k)
           \/ \E t \in Threads : OfferStep(t)
           \/ \E r \in Listeners, k \in EventKinds : Woken(r, k)

BusSpec == BusInit /\ [][BusNext]_busVars

-----------------------------------------------------------------------------
(* "A queue at its bound drops its own oldest event": the queue of a reader that
   never reads stays near its bound. Threads that meet between the test and the
   append pass it by one each, never by more. *)
StaysBounded ==
    \A r \in Listeners : Len(box[r]) < Bound + Cardinality(Threads)

(* "The newest state is what an invalidation is for": whatever was dropped, a
   reader to whom something was offered since it last read has an event waiting,
   or there is a publish that has not done with it. *)
NeverSilenced == \A r \in Listeners : owed[r] => box[r] # <<>> \/ OnItsWay(r)

(* What a reader has waiting is bounded, and never nothing when it should be something. *)
BusHolds == BusTypeOK /\ StaysBounded /\ NeverSilenced
=============================================================================
