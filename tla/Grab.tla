-------------------------------- MODULE Grab --------------------------------
(* Grabs of releases: the background job of grab_release.py, the batch of
   calendar.py, the dispatch of a row by its shape (indexers.py), the registry of
   own grabs (sqlite_history.py) and the traces that join it with the downloads of
   the clients (traces.py). Grabs of one or several rows run at the same time; a
   client may accept what our side believes it did not; the store may be down and
   the process may stop between the add and the row. *)
EXTENDS Naturals, Sequences

CONSTANTS Releases,     \* rows of a search
          Shape,        \* Shape[r]: "ed2k", "hash", "magnet", "http" or "other"
          NameOf,       \* NameOf[r]: how the client names the download
          TitleOf,      \* TitleOf[r]: the title the row carries
          IdsOf,        \* IdsOf[r]: source, movie and episode of the request, 0 if none
          Series,       \* the series of the episodes
          Grabs,        \* requests, one each while the process runs
          Batches,      \* the lists of rows a batch may ask for
          EcDirect,     \* what _ec_direct may answer, call by call
          MaxRows,      \* rows of the registry within the look back of its readers
          MaxMishaps    \* failures of the store and of the arr, and stops of the process: a bound

Nobody == ""            \* no name; falsy in the code
NoHash == "none"
Unknown == 0            \* no id

(* A batch of no rows does nothing; a client gives every download a name. *)
ASSUME GrabAssumption ==
    /\ Shape \in [Releases -> {"ed2k", "hash", "magnet", "http", "other"}]
    /\ MaxRows \in Nat \ {0} /\ MaxMishaps \in Nat /\ Series \in Nat
    /\ \A b \in Batches : b \in Seq(Releases) \ {<<>>}
    /\ \A r \in Releases : NameOf[r] # Nobody
    /\ EcDirect \subseteq BOOLEAN
    /\ NoHash \notin Releases
    /\ IdsOf \in [Releases -> [source : {"radarr", "sonarr"}, movie : Nat, episode : Nat]]

VARIABLES has,          \* has[r]: the category a client holds r in, "absent" if it does not
          registry,     \* own_grabs, oldest first
          slid,         \* history: a row is older than the readers look back
          wanted,       \* history: wanted[r]: the place r took its category for
          batch, todo,  \* batch[g]: the rows of a batch, <<>> of a single grab; the rows to do
          place,        \* place[g]: "library" or a folder of the operator's
          step,         \* step[g] in the row it is at
          serial,       \* serial[g]: the series of the episode, when it was found
          downloaded,   \* downloaded[g]: the rows that were answered ok
          unstored,     \* history: those of them whose row the store did not take
          status,       \* status[g]: of its task
          mishaps

grabVars == <<has, wanted, registry, slid, batch, todo, place, step, serial, downloaded,
              unstored, status, mishaps>>

Places == {"library", "folder"}
OwnGrabs == [row : Releases, movie : Nat, episode : Nat, series : Nat, place : Places,
             name : {Nobody} \cup {NameOf[r] : r \in Releases} \cup {TitleOf[r] : r \in Releases},
             hash : {NoHash} \cup Releases]

GrabTypeOK == /\ has \in [Releases -> {"absent", "none", "watched", "flow"}]
              /\ registry \in Seq(OwnGrabs) /\ Len(registry) <= MaxRows
              /\ batch \in [Grabs -> {<<>>} \cup Batches]
              /\ todo \in [Grabs -> Seq(Releases)] /\ place \in [Grabs -> Places]
              /\ step \in [Grabs -> {"free", "dispatch", "record", "over"}]
              /\ \A g \in Grabs : step[g] \in {"dispatch", "record"} => todo[g] # <<>>
              /\ status \in [Grabs -> {"none", "running", "done", "error"}]
              /\ mishaps \in 0..MaxMishaps

GrabInit == /\ has = [r \in Releases |-> "absent"] /\ registry = <<>> /\ slid = FALSE
            /\ wanted = [r \in Releases |-> "library"] /\ mishaps = 0
            /\ batch = [g \in Grabs |-> <<>>] /\ todo = [g \in Grabs |-> <<>>]
            /\ place = [g \in Grabs |-> "library"] /\ step = [g \in Grabs |-> "free"]
            /\ serial = [g \in Grabs |-> Unknown]
            /\ downloaded = [g \in Grabs |-> {}] /\ unstored = [g \in Grabs |-> {}]
            /\ status = [g \in Grabs |-> "none"]

-----------------------------------------------------------------------------
\* Mutation.
CategoryFor_Watched(p) == "watched"

(* category_for: the one the arr watches for the library, our own for a folder. The
   EC add takes none; the bridge that AMULE_EC_DIRECT=0 brings back takes it. *)
CategoryFor(p) == IF p = "library" THEN "watched" ELSE "flow"
CategoryTaken(r, p, direct) == IF Shape[r] \in {"ed2k", "hash"} /\ direct THEN "none" ELSE CategoryFor(p)

\* Mutation.
IdentityOf_NameOnly(r, fallback) ==
    CASE Shape[r] = "magnet" -> [name |-> fallback, hash |-> NoHash]
      [] OTHER -> [name |-> fallback, hash |-> NoHash]

(* direct_link_identity. *)
IdentityOf(r, fallback) ==
    CASE Shape[r] = "ed2k" -> [name |-> NameOf[r], hash |-> NoHash]
      [] Shape[r] = "magnet" -> [name |-> NameOf[r], hash |-> r]
      [] OTHER -> [name |-> fallback, hash |-> NoHash]

(* One title is what a request is about, and the title it gives its rows; a batch
   has no titles for them. *)
IdsFor(g) == IdsOf[IF batch[g] = <<>> THEN Head(todo[g]) ELSE Head(batch[g])]
Fallback(g, r) == IF batch[g] = <<>> THEN TitleOf[r] ELSE Nobody

Starts(g, b, rows, p) == /\ status[g] = "none"
                         /\ batch' = [batch EXCEPT ![g] = b]
                         /\ todo' = [todo EXCEPT ![g] = rows] /\ place' = [place EXCEPT ![g] = p]
                         /\ step' = [step EXCEPT ![g] = "dispatch"]
                         /\ status' = [status EXCEPT ![g] = "running"]
                         /\ UNCHANGED <<has, wanted, registry, slid, serial, downloaded, unstored, mishaps>>
StartGrab(g, r, p) == Starts(g, <<>>, <<r>>, p)
StartBatch(g, b, p) == Starts(g, b, b, p)

\* Mutation.
SettledAs_Never(g, how) == IF how = "error" THEN status[g] ELSE how

(* The batch goes on with its next row; a job is settled. *)
SettledAs(g, how) == how
RowOver(g, how) ==
    /\ todo' = [todo EXCEPT ![g] = Tail(@)]
    /\ IF Len(todo[g]) > 1
         THEN step' = [step EXCEPT ![g] = "dispatch"] /\ UNCHANGED <<serial, status>>
         ELSE /\ step' = [step EXCEPT ![g] = "over"] /\ serial' = [serial EXCEPT ![g] = Unknown]
              /\ status' = [status EXCEPT ![g] =
                              IF batch[g] = <<>> THEN SettledAs(g, how) ELSE "done"]

(* dispatch_direct: the bridge has no way in for a hash. A client that has the
   download already keeps it as it is. *)
Takes(r, direct) == Shape[r] # "other" /\ (Shape[r] = "hash" => direct)
Holds(r, category, p) == IF has[r] = "absent"
    THEN /\ has' = [has EXCEPT ![r] = category]
         /\ wanted' = IF category = "none" THEN wanted ELSE [wanted EXCEPT ![r] = p]
    ELSE UNCHANGED <<has, wanted>>
Accepted(g) == LET r == Head(todo[g]) IN
    \E direct \in EcDirect : Takes(r, direct) /\ Holds(r, CategoryTaken(r, place[g], direct), place[g])

(* A refusal, or an answer that did not come in time from a client that accepted. *)
DispatchRefused(g) == /\ step[g] = "dispatch"
                      /\ Accepted(g) \/ UNCHANGED <<has, wanted>>
                      /\ RowOver(g, "done")
                      /\ UNCHANGED <<registry, slid, batch, place, downloaded,
                                     unstored, mishaps>>

(* Something raised, after the client accepted or before it was asked. *)
GrabRaises(g) == /\ step[g] = "dispatch"
                 /\ Accepted(g) \/ UNCHANGED <<has, wanted>>
                 /\ RowOver(g, "error")
                 /\ UNCHANGED <<registry, slid, batch, place, downloaded,
                                unstored, mishaps>>

(* The client has it. _resolve_series_id then asks the arr, which answers or not, and
   never raises; a batch asks once. *)
Asked(g) == /\ IdsFor(g).episode # Unknown /\ IdsFor(g).source = "sonarr"
            /\ batch[g] = <<>> \/ downloaded[g] = {}
Resolved(g) == \/ Asked(g) /\ serial' = [serial EXCEPT ![g] = Series] /\ UNCHANGED mishaps
               \/ Asked(g) /\ mishaps < MaxMishaps /\ mishaps' = mishaps + 1 /\ UNCHANGED serial
               \/ ~Asked(g) /\ UNCHANGED <<serial, mishaps>>
DispatchOk(g) == LET r == Head(todo[g]) IN
    /\ step[g] = "dispatch" /\ Accepted(g)
    /\ step' = [step EXCEPT ![g] = "record"]
    /\ Resolved(g)
    /\ downloaded' = [downloaded EXCEPT ![g] = @ \cup {r}]
    /\ UNCHANGED <<registry, slid, batch, todo, place, unstored, status>>

OwnGrab(g) == LET r == Head(todo[g]) IN
    [row |-> r, movie |-> IdsFor(g).movie, episode |-> IdsFor(g).episode, series |-> serial[g],
     place |-> place[g], name |-> IdentityOf(r, Fallback(g, r)).name,
     hash |-> IdentityOf(r, Fallback(g, r)).hash]

Recorded(rows, row) == IF Len(rows) < MaxRows THEN Append(rows, row) ELSE Append(Tail(rows), row)

(* record_own_grab never raises: a store that is down takes nothing. *)
RecordGrab(g) == /\ step[g] = "record" /\ RowOver(g, "done")
                 /\ registry' = Recorded(registry, OwnGrab(g))
                 /\ slid' = (slid \/ Len(registry) = MaxRows)
                 /\ UNCHANGED <<has, wanted, batch, place, downloaded, unstored, mishaps>>
StoreDown(g) == /\ step[g] = "record" /\ RowOver(g, "done")
                /\ mishaps < MaxMishaps /\ mishaps' = mishaps + 1
                /\ unstored' = [unstored EXCEPT ![g] = @ \cup {Head(todo[g])}]
                /\ UNCHANGED <<has, wanted, registry, slid, batch, place, downloaded>>

(* The process stops and starts: jobs are in memory, the registry and the clients are not. *)
GrabCrash == /\ mishaps < MaxMishaps /\ mishaps' = mishaps + 1
             /\ \E g \in Grabs : status[g] = "running"
             /\ batch' = [g \in Grabs |-> <<>>] /\ todo' = [g \in Grabs |-> <<>>]
             /\ place' = [g \in Grabs |-> "library"] /\ step' = [g \in Grabs |-> "free"]
             /\ serial' = [g \in Grabs |-> Unknown]
             /\ downloaded' = [g \in Grabs |-> {}] /\ unstored' = [g \in Grabs |-> {}]
             /\ status' = [g \in Grabs |-> "none"]
             /\ UNCHANGED <<has, wanted, registry, slid>>

(* The operator removes a download in the client. *)
ClientRemoves(r) == /\ has[r] # "absent" /\ has' = [has EXCEPT ![r] = "absent"]
                    /\ wanted' = [wanted EXCEPT ![r] = "library"]
                    /\ UNCHANGED <<registry, slid, batch, todo, place, step, serial, downloaded,
                                   unstored, status, mishaps>>

GrabNext == \/ \E g \in Grabs, p \in Places : \/ \E r \in Releases : StartGrab(g, r, p)
                                              \/ \E b \in Batches : StartBatch(g, b, p)
            \/ \E g \in Grabs : \/ DispatchOk(g) \/ DispatchRefused(g) \/ GrabRaises(g)
                                \/ RecordGrab(g) \/ StoreDown(g)
            \/ GrabCrash
            \/ \E r \in Releases : ClientRemoves(r)

GrabSpec == GrabInit /\ [][GrabNext]_grabVars

-----------------------------------------------------------------------------
(* _direct_traces: the downloads a row of the registry may be joined with. *)
Joined(o) == IF o.hash # NoHash /\ has[o.hash] # "absent" THEN {o.hash}
             ELSE {r \in Releases : has[r] # "absent" /\ o.name # Nobody /\ NameOf[r] = o.name}

(* The keys a row marks: own_grabs_latest_rows ... *)
KeysOf(o) == (IF o.movie # Unknown THEN {<<"movie", o.movie>>}
              ELSE IF o.episode # Unknown THEN {<<"episode", o.episode>>} ELSE {})
             \cup (IF o.series # Unknown THEN {<<"series", o.series>>} ELSE {})
(* ... where a later row overwrites an earlier one, for each key it has. *)
Newest(rows) == IF rows = {} THEN 0 ELSE CHOOSE i \in rows : \A j \in rows : i >= j
Mark(key) == Newest({i \in 1..Len(registry) : key \in KeysOf(registry[i])})

\* Mutation.
RowsFor_AnyEpisode(key) ==
    {i \in 1..Len(registry) : LET o == registry[i] IN
        CASE key[1] = "movie" -> o.movie = key[2]
          [] key[1] = "episode" -> o.episode = key[2]
          [] OTHER -> o.series = key[2]}

(* own_grabs_for: the rows of one title. *)
RowsFor(key) ==
    {i \in 1..Len(registry) : LET o == registry[i] IN
        CASE key[1] = "movie" -> o.movie = key[2]
          [] key[1] = "episode" -> o.movie = Unknown /\ o.episode = key[2]
          [] OTHER -> o.series = key[2]}

-----------------------------------------------------------------------------
(* The arr imports what is in its category: nothing that was added for a folder of
   the operator's is in one, as "the arr will neither see nor import
   it" promises. *)
FolderIsNotWatched == \A r \in Releases : has[r] = "watched" => wanted[r] = "library"

(* What a job answered ok, and the store took, has its trace while the client holds
   it: with the place that was asked for, and whatever else was grabbed meanwhile. *)
TracedOnceAdded == \A g \in Grabs : \A r \in downloaded[g] \ unstored[g] :
    /\ batch[g] = <<>> /\ step[g] = "over" /\ has[r] # "absent" /\ ~slid
    /\ Shape[r] \in {"hash", "http"} => TitleOf[r] = NameOf[r]
    => \E i \in 1..Len(registry) : /\ registry[i].row = r /\ registry[i].place = place[g]
                                   /\ r \in Joined(registry[i])

(* A job that says it is running is being worked at: a raise out of the worker would
   "leave the poller waiting on a running task forever". *)
RunningIsWorked == \A g \in Grabs : status[g] = "running" => step[g] # "over"

(* The mark of a title and its history are of the same rows: the mark is the newest
   of them, "the two surfaces can never disagree about which rows belong to a title". *)
MarksAgree == \A i \in 1..Len(registry) : LET o == registry[i] IN
    \A key \in {<<"movie", o.movie>>, <<"episode", o.episode>>, <<"series", o.series>>} :
        key[2] # Unknown => Mark(key) = Newest(RowsFor(key))

(* "Exactly like the single grab", "the client identity on every success": every row a
   batch answered ok has its trace. *)
BatchIsTraced == \A g \in Grabs : \A r \in downloaded[g] \ unstored[g] :
    /\ batch[g] # <<>> /\ step[g] = "over" /\ has[r] # "absent" /\ ~slid
    /\ Shape[r] \in {"hash", "http"} => TitleOf[r] = NameOf[r]
    => \E i \in 1..Len(registry) : registry[i].row = r /\ r \in Joined(registry[i])

(* A grab goes where it should and leaves its trace. *)
GrabsHold == GrabTypeOK /\ FolderIsNotWatched /\ TracedOnceAdded /\ RunningIsWorked /\ MarksAgree
=============================================================================
