------------------------------ MODULE Actions ------------------------------
(* The operator's actions: do_action of copy_engine.py, the calls it makes to the
   arr and to the client of downloads (arr_client.py), and what both do meanwhile.
   Requests run at the same time, each built from a page (or from the sweep) that
   may be older than what it acts upon. A call is one step: what it does there, and
   whether the answer is heard. How a client is reached, aMule's own protocol or
   aMuTorrent, and the copy itself are in AmuleEC and CopyTask. *)
EXTENDS Naturals, Sequences

CONSTANTS Items,        \* downloads
          Direct,       \* those that never entered a queue of the arr
          ActionIds,    \* requests, each of one action
          MaxNumber,    \* numbers the arr gives to entries of its queue: a bound
          MaxLosses     \* calls that fail or whose answer is lost: a bound

ASSUME ActAssumption == Direct \subseteq Items /\ MaxNumber \in Nat /\ MaxLosses \in Nat

NoNumber == 0           \* not in the queue; no queue_id in a payload

VARIABLES queue, owner,     \* the arr: queue[f], and owner[n] of every number given so far
          held,             \* the client: the downloads it holds
          mappings,         \* its remote path mappings that are the one asked for, up to 2
          payload, todo,    \* payload[r], and the calls r still has to make
          good, heard,      \* good[r]: no step failed; heard[r]: what the answers say was done
          launched,         \* copies begun to a folder that is not the arr's, by entry
          catalogued,       \* history: those the arr imported afterwards
          blind,            \* history: a mapping was added without knowing of the others
          losses

actVars == <<queue, owner, held, mappings, payload, todo, good, heard,
             launched, catalogued, blind, losses>>

Payloads == [kind : {"pause", "fix_category", "delete_torrent", "cancel_download",
                     "retry_import", "remove_queue", "fix_path_mapping",
                     "copy_library", "copy_foreign"},
             f : Items, number : NoNumber..MaxNumber, hash : BOOLEAN, service : BOOLEAN]
NoPayload == [kind |-> "none"]
Effects == {"command", "entry", "client", "category", "pause", "mapping", "launch"}
Calls == {"command", "detach", "remove", "category", "pause", "discard",
          "mappings", "map", "root", "names", "launch"}

ActTypeOK == /\ queue \in [Items -> NoNumber..Len(owner)] /\ Len(owner) <= MaxNumber
             /\ \A f \in Items : queue[f] # NoNumber => owner[queue[f]] = f
             /\ held \subseteq Items /\ mappings \in 0..2
             /\ payload \in [ActionIds -> Payloads \cup {NoPayload}]
             /\ \A r \in ActionIds : todo[r] \in Seq(Calls) /\ heard[r] \subseteq Effects
             /\ \A r \in ActionIds : payload[r] = NoPayload => todo[r] = <<>> /\ heard[r] = {}
             /\ good \in [ActionIds -> BOOLEAN]
             /\ catalogued \subseteq launched

ActInit == /\ queue = [f \in Items |-> NoNumber] /\ owner = <<>>
           /\ held = Items /\ mappings = 0
           /\ payload = [r \in ActionIds |-> NoPayload]
           /\ todo = [r \in ActionIds |-> <<>>]
           /\ good = [r \in ActionIds |-> TRUE] /\ heard = [r \in ActionIds |-> {}]
           /\ launched = {} /\ catalogued = {} /\ blind = FALSE /\ losses = 0

requestVars == <<payload, todo, good, heard>>

-----------------------------------------------------------------------------
(* The arr: it follows what it finds in the client, under a new number each time,
   and imports what is complete. *)
ArrTracks(f) == /\ f \in held \ Direct /\ queue[f] = NoNumber /\ Len(owner) < MaxNumber
                /\ owner' = Append(owner, f) /\ queue' = [queue EXCEPT ![f] = Len(owner')]
                /\ UNCHANGED <<held, mappings, requestVars, launched, catalogued, blind, losses>>

ArrImports(f) == /\ f \in held /\ queue[f] # NoNumber
                 /\ catalogued' = catalogued \cup ({<<f, queue[f]>>} \cap launched)
                 /\ queue' = [queue EXCEPT ![f] = NoNumber]
                 /\ UNCHANGED <<owner, held, mappings, requestVars, launched, blind, losses>>

-----------------------------------------------------------------------------
(* do_action: what is refused before anything is called ... *)
NeedsService == {"retry_import", "remove_queue", "fix_path_mapping",
                 "copy_library", "copy_foreign"}
NeedsHash == {"pause", "fix_category", "delete_torrent"}
NeedsNumber(p) == p.kind = "remove_queue" \/ (p.kind = "copy_foreign" /\ p.f \notin Direct)

Refused(p) == \/ p.kind \in NeedsService /\ ~p.service
              \/ p.kind \in NeedsHash /\ ~p.hash
              \/ NeedsNumber(p) /\ p.number = NoNumber
              \/ p.kind = "cancel_download" /\ ~p.hash /\ p.number = NoNumber

\* Mutation.
CancelEntry_ClientLeft(p) == IF p.number = NoNumber \/ ~p.service THEN <<>> ELSE <<"detach">>

(* cancel_download: the arr first, and through it the client when its hash is not known. *)
CancelEntry(p) == IF p.number = NoNumber \/ ~p.service THEN <<>>
                  ELSE IF p.hash THEN <<"detach">> ELSE <<"remove">>

\* Mutation.
CopyForeign_CopyFirst(p) == IF p.f \in Direct THEN <<"names", "launch">>
                            ELSE <<"names", "launch", "detach">>

(* copy_files to a folder that is not the arr's: out of its queue first. *)
CopyForeign(p) == IF p.f \in Direct THEN <<"names", "launch">>
                  ELSE <<"detach", "names", "launch">>

(* ... and the calls that are made, in order. *)
Plan(p) == CASE p.kind = "retry_import" -> <<"command">>
             [] p.kind = "fix_category" -> <<"category">> \o (IF p.service THEN <<"command">> ELSE <<>>)
             [] p.kind = "pause" -> <<"pause">>
             [] p.kind = "remove_queue" -> <<"remove">>
             [] p.kind = "delete_torrent" -> <<"discard">>
             [] p.kind = "cancel_download" -> CancelEntry(p) \o (IF p.hash THEN <<"discard">> ELSE <<>>)
             [] p.kind = "fix_path_mapping" -> <<"mappings", "map", "command">>
             [] p.kind = "copy_library" -> <<"root", "names", "launch">>
             [] OTHER -> CopyForeign(p)

(* What a payload holds is of consequence only where the action reads it, and a
   direct download differs only in the copy; pause is also resume, retry_import is
   also research. *)
Tells(p) == /\ p.kind \in {"remove_queue", "cancel_download", "copy_foreign"} \/ p.number = NoNumber
            /\ p.kind \in NeedsHash \cup {"cancel_download"} \/ p.hash
            /\ p.kind \in {"pause", "delete_torrent"} => p.service
            /\ p.f \in Direct => p.kind = "copy_foreign"

(* A page shows the entry of an item as it was once, or none, and its hash if the
   client and the arr could be matched. *)
ActRequest(r, p) == /\ payload[r] = NoPayload /\ Tells(p)
                    /\ p.number # NoNumber => p.number <= Len(owner) /\ owner[p.number] = p.f
                    /\ payload' = [payload EXCEPT ![r] = p]
                    /\ todo' = [todo EXCEPT ![r] = IF Refused(p) THEN <<>> ELSE Plan(p)]
                    /\ good' = [good EXCEPT ![r] = ~Refused(p) /\
                                  ~(p.kind = "cancel_download" /\ p.number # NoNumber /\ ~p.service)]
                    /\ UNCHANGED <<queue, owner, held, mappings, heard, launched, catalogued, blind, losses>>

-----------------------------------------------------------------------------
(* A call of r: what it finds ... *)
Found(r, c) == LET p == payload[r] IN
    CASE c \in {"detach", "remove"} -> queue[p.f] = p.number
      [] c \in {"category", "pause", "discard"} -> p.f \in held
      [] OTHER -> TRUE

(* ... and what it does. *)
Serve(r, c) == LET p == payload[r] IN
    /\ queue' = IF c \in {"detach", "remove"} THEN [queue EXCEPT ![p.f] = NoNumber] ELSE queue
    /\ held' = IF c \in {"discard", "remove"} THEN held \ {p.f} ELSE held
    /\ mappings' = IF c = "map" /\ mappings < 2 THEN mappings + 1 ELSE mappings
    /\ launched' = IF c = "launch" /\ p.kind = "copy_foreign"
                     THEN launched \cup {<<p.f, p.number>>} ELSE launched
EffectsOf(c) == CASE c = "detach" -> {"entry"}
                  [] c = "remove" -> {"entry", "client"}
                  [] c = "discard" -> {"client"}
                  [] c = "map" -> {"mapping"}
                  [] c \in {"command", "category", "pause", "launch"} -> {c}
                  [] OTHER -> {}

\* Mutation.
Rest_AddsAgain(r, c) == Tail(todo[r])

(* A mapping that is there already is not added again: the call after the look is
   passed over. *)
Rest(r, c) == IF c = "mappings" /\ mappings > 0 THEN Tail(Tail(todo[r])) ELSE Tail(todo[r])
Adding(r) == \E i \in 1..Len(todo[r]) : todo[r][i] = "map"

Calling(r) == todo[r] # <<>>

ActAnswered(r) ==
    LET c == Head(todo[r]) IN
    /\ Calling(r) /\ Found(r, c) /\ Serve(r, c)
    /\ todo' = [todo EXCEPT ![r] = Rest(r, c)]
    /\ heard' = [heard EXCEPT ![r] = @ \cup EffectsOf(c)
                   \cup IF c = "mappings" /\ mappings > 0 THEN {"mapping"} ELSE {}]
    /\ blind' = (blind \/ (c = "mappings" /\ mappings = 0 /\
                           \E o \in ActionIds \ {r} : Adding(o)))
    /\ UNCHANGED <<owner, payload, good, catalogued, losses>>

(* copy_files goes on after a 404 of the arr, which means that there is nothing to
   prevent, and without the names it asked for; the list of mappings is empty when
   it could not be read. Anything else that fails stops a copy. *)
Tolerates(c, notFound) == c \in {"names", "mappings"} \/ (c = "detach" /\ notFound)

(* A step that failed. The rest of the steps is still made, but for a copy. *)
Failed(r, c, notFound) ==
    LET copies == payload[r].kind \in {"copy_library", "copy_foreign"}
        goesOn == IF copies THEN Tolerates(c, notFound) ELSE c \in {"names", "mappings"}
    IN /\ good' = [good EXCEPT ![r] = @ /\ goesOn]
       /\ todo' = [todo EXCEPT ![r] = IF copies /\ ~goesOn THEN <<>> ELSE Tail(@)]
       /\ UNCHANGED <<owner, payload, catalogued>>

ActNotFound(r) == LET c == Head(todo[r]) IN
    /\ Calling(r) /\ ~Found(r, c) /\ Failed(r, c, TRUE)
    /\ UNCHANGED <<queue, held, mappings, heard, launched, blind, losses>>

(* No answer, or one that is an error: the call may have been served. *)
ActLost(r) == LET c == Head(todo[r]) IN
    /\ Calling(r) /\ c # "launch" /\ losses < MaxLosses /\ losses' = losses + 1
    /\ Failed(r, c, FALSE)
    /\ blind' = (blind \/ c = "mappings")
    /\ \/ Found(r, c) /\ Serve(r, c) /\ UNCHANGED heard
       \/ UNCHANGED <<queue, held, mappings, launched, heard>>

\* Mutation.
Ok_LastStep(r) == good[r] \/ "client" \in heard[r] \/ "command" \in heard[r]

(* {"ok": all(...)}, once every step is made. *)
Ok(r) == good[r]
AnswersOk(r) == payload[r] # NoPayload /\ todo[r] = <<>> /\ Ok(r)

ActNext == \/ \E f \in Items : ArrTracks(f) \/ ArrImports(f)
           \/ \E r \in ActionIds : ActAnswered(r) \/ ActNotFound(r) \/ ActLost(r)
           \/ \E r \in ActionIds, p \in Payloads : ActRequest(r, p)

ActSpec == ActInit /\ [][ActNext]_actVars

-----------------------------------------------------------------------------
(* "A folder outside the arr's roots is never catalogued by the arr": once a copy to
   one has begun, the entry it was begun for is not imported any more. *)
ForeignNeverCatalogued == catalogued = {}

(* "Cancel an in-flight download: BOTH halves": after a cancel that answers ok, the
   entry it named is out of the queue and the client holds nothing. *)
CancelMeansGone == \A r \in ActionIds :
    AnswersOk(r) /\ payload[r].kind = "cancel_download" =>
        LET p == payload[r] IN /\ p.f \notin held
                               /\ p.number # NoNumber => queue[p.f] # p.number

(* An answer of ok is honest: every effect that the action names did take place, and
   the answer to it was heard. *)
Promised(p) == CASE p.kind = "retry_import" -> {"command"}
                 [] p.kind = "fix_category" -> IF p.service THEN {"category", "command"} ELSE {"category"}
                 [] p.kind = "pause" -> {"pause"}
                 [] p.kind = "remove_queue" -> {"entry"}
                 [] p.kind = "delete_torrent" -> {"client"}
                 [] p.kind = "cancel_download" -> 
                      {"client"} \cup (IF p.number # NoNumber THEN {"entry"} ELSE {})
                 [] p.kind = "fix_path_mapping" -> {"mapping", "command"}
                 [] OTHER -> {"launch"}
OkIsDone == \A r \in ActionIds : AnswersOk(r) => Promised(payload[r]) \subseteq heard[r]

(* The mapping is added once, however often the action is repeated after answers
   that got lost, unless two requests look at the same time or cannot look. *)
MappedOnce == blind \/ mappings <= 1

(* An action that answers ok did it, once and for good. *)
ActionsHold == ActTypeOK /\ ForeignNeverCatalogued /\ CancelMeansGone /\ OkIsDone /\ MappedOnce
=============================================================================
