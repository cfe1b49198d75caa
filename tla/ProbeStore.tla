----------------------------- MODULE ProbeStore -----------------------------
(* What is known of the library's files without reading them: the rows of
   probe_results (sqlite_history.py), the memory of the rename list
   (library_rename.cached_probe), and who fills them: the sweep of the library, one
   at a time (probe_library.py), single probes (routes_mixer.py) and the threads of
   the list. A read of the clock, of the file or of the store is one step; files are
   replaced meanwhile. The facts of a file are those of the version that was read;
   a version stands for mtime and size, which are never those of an earlier one. *)
EXTENDS Naturals, FiniteSets

CONSTANTS Videos,       \* paths
          Probes,       \* single probes, by request
          Readings,     \* threads of the rename list
          MaxVersions,  \* numbers of versions, one for each change of a file: a bound
          MaxConcurrentProbes,  \* MAX_CONCURRENT_PROBES
          MaxMemory,    \* _PROBE_CACHE_MAX
          MaxSweeps     \* sweeps that are started: a bound

ASSUME ProbeAssumption == /\ IsFiniteSet(Videos)
                          /\ MaxVersions \in Nat \ {0} /\ MaxSweeps \in Nat
                          /\ MaxConcurrentProbes \in Nat \ {0} /\ MaxMemory \in Nat \ {0}

NoFile == 0               \* there is no such file
Nothing == 0            \* no facts, no row

VARIABLES version,      \* version[v]: what the path holds, of
          last,         \* the number of the last change
          store,        \* store[v]: the row, its identity and its facts
          memory,       \* _PROBE_CACHE
          sweep,        \* sweep[v]: where the sweep is with v, and what it read
          probe,        \* probe[s]: a single probe
          row,          \* row[t]: a read of the rename list
          active,       \* _active
          due,          \* the task of a sweep that has not run yet: {}, or {its paths}
          status,       \* _status
          begun,        \* sweeps begun
          mixed         \* history: paths that were replaced between the read of their
                        \* facts and the save of them, and have not changed since

probeVars == <<version, last, store, memory, sweep, probe, row, active, due, status, begun, mixed>>

Idle == [at |-> "idle"]
States == {"idle", "waiting", "probing", "saving", "done", "keyed", "read"}
Count(s) == s.analyzed + s.skipped + s.failed
Ended == [running |-> FALSE, total |-> 0, analyzed |-> 0, skipped |-> 0, failed |-> 0]

ProbeTypeOK == /\ \A v \in Videos : /\ version[v] \in NoFile..last /\ sweep[v].at \in States
                                    /\ store[v].id <= last /\ store[v].facts <= store[v].id
               /\ last \in 1..MaxVersions
               /\ \A e \in memory : e.v \in Videos /\ e.id <= e.facts
               /\ Cardinality(memory) <= MaxMemory
               /\ begun \in 0..MaxSweeps /\ mixed \subseteq Videos
               /\ due \subseteq SUBSET Videos

ProbeInit == /\ version = [v \in Videos |-> 1] /\ last = 1
             /\ store = [v \in Videos |-> [id |-> Nothing, facts |-> Nothing]] /\ memory = {}
             /\ sweep = [v \in Videos |-> Idle]
             /\ probe = [s \in Probes |-> Idle] /\ row = [t \in Readings |-> Idle]
             /\ active = FALSE /\ due = {} /\ status = Ended /\ begun = 0 /\ mixed = {}

-----------------------------------------------------------------------------
(* The files: replaced by a better copy, or gone. *)

Holding(v) == \/ sweep[v].at = "saving"
              \/ \E s \in Probes : probe[s].at = "saving" /\ probe[s].v = v
Replaced(v) == /\ last < MaxVersions
               /\ last' = last + 1 /\ version' = [version EXCEPT ![v] = last']
               /\ mixed' = IF Holding(v) THEN mixed \cup {v} ELSE mixed \ {v}
               /\ UNCHANGED <<store, memory, sweep, probe, row, active, due, status, begun>>
Removed(v) == /\ version[v] # NoFile /\ version' = [version EXCEPT ![v] = NoFile]
              /\ last < MaxVersions /\ last' = last + 1 /\ mixed' = mixed \ {v}
              /\ UNCHANGED <<store, memory, sweep, probe, row, active, due, status, begun>>

-----------------------------------------------------------------------------
(* sqlite_history. *)

\* Mutation.
CacheGet_AnyRow(v) == IF version[v] = NoFile THEN Nothing ELSE store[v].facts

(* get_probe_result: the row, while the file is the one it was written of. *)
CacheGet(v) == IF version[v] # NoFile /\ store[v].id = version[v] THEN store[v].facts ELSE Nothing

(* save_probe_result: under the identity the file has now; not if it is gone, nor
   while the store is down. *)
CacheSave(v, facts) ==
    \/ version[v] # NoFile /\ store' = [store EXCEPT ![v] = [id |-> version[v], facts |-> facts]]
    \/ UNCHANGED store

-----------------------------------------------------------------------------
(* probe_library. *)

(* start: the gate closes and a task is made. Until it runs, the counts are those of
   the sweep before. The universe was collected before: some of it may have gone. *)
SweepStarts(vs) == /\ ~active /\ begun < MaxSweeps /\ begun' = begun + 1
                   /\ active' = TRUE /\ due' = {vs} /\ status' = [status EXCEPT !.running = TRUE]
                   /\ UNCHANGED <<version, last, store, memory, sweep, probe, row, mixed>>

(* run, at its first turn: the counts begin anew. *)
SweepRuns(vs) == /\ vs \in due /\ due' = {}
                 /\ status' = [Ended EXCEPT !.running = TRUE, !.total = Cardinality(vs)]
                 /\ sweep' = [v \in Videos |-> IF v \in vs THEN [at |-> "waiting"] ELSE Idle]
                 /\ UNCHANGED <<version, last, store, memory, probe, row, active, begun, mixed>>

InSlot == {v \in Videos : sweep[v].at \in {"probing", "saving"}}
Now(v, state) == sweep' = [sweep EXCEPT ![v] = state]
Bump(v, key) == /\ status' = [status EXCEPT ![key] = @ + 1]
                /\ Now(v, [at |-> "done"])

(* It waits for a slot, and then the store may know. *)
SweepLooks(v) == /\ sweep[v].at = "waiting" /\ Cardinality(InSlot) < MaxConcurrentProbes
                 /\ IF CacheGet(v) # Nothing THEN Bump(v, "skipped")
                                             ELSE Now(v, [at |-> "probing"]) /\ UNCHANGED status
                 /\ UNCHANGED <<version, last, store, memory, probe, row, active, due, begun, mixed>>

(* One bad file never aborts the sweep. *)
SweepProbes(v) == /\ sweep[v].at = "probing"
                  /\ \/ /\ version[v] # NoFile /\ UNCHANGED status
                        /\ Now(v, [at |-> "saving", facts |-> version[v]])
                     \/ Bump(v, "failed")
                  /\ UNCHANGED <<version, last, store, memory, probe, row, active, due, begun, mixed>>

SweepSaves(v) == /\ sweep[v].at = "saving" /\ CacheSave(v, sweep[v].facts) /\ Bump(v, "analyzed")
                 /\ UNCHANGED <<version, last, memory, probe, row, active, due, begun, mixed>>

\* Mutation.
Released_KeepsGate == UNCHANGED active

(* _run_and_release. *)
Released == active' = FALSE
SweepEnds == /\ active /\ due = {} /\ \A v \in Videos : sweep[v].at \in {"idle", "done"}
             /\ Released /\ status' = [status EXCEPT !.running = FALSE]
             /\ sweep' = [v \in Videos |-> Idle]
             /\ UNCHANGED <<version, last, store, memory, probe, row, due, begun, mixed>>

-----------------------------------------------------------------------------
(* mixer_probe_file: it is read anew, and persisted. *)

ProbeFile(s, v) == /\ probe[s].at = "idle" /\ version[v] # NoFile
                   /\ probe' = [probe EXCEPT ![s] = [at |-> "saving", v |-> v, facts |-> version[v]]]
                   /\ UNCHANGED <<version, last, store, memory, sweep, row, active, due, status, begun, mixed>>
ProbeSaved(s) == /\ probe[s].at = "saving" /\ CacheSave(probe[s].v, probe[s].facts)
                 /\ probe' = [probe EXCEPT ![s] = Idle]
                 /\ UNCHANGED <<version, last, memory, sweep, row, active, due, status, begun, mixed>>

-----------------------------------------------------------------------------
(* cached_probe, in a thread of _probe_all: the key is taken first. *)

ListKeyed(t, v) == /\ row[t].at = "idle" /\ version[v] # NoFile
                   /\ row' = [row EXCEPT ![t] = [at |-> "keyed", v |-> v, id |-> version[v]]]
                   /\ UNCHANGED <<version, last, store, memory, sweep, probe, active, due, status, begun, mixed>>

Known(v, id) == {e \in memory : e.v = v /\ e.id = id}
ListRead(t) == LET r == row[t] IN
    /\ r.at = "keyed"
    /\ row' = [row EXCEPT ![t] = IF Known(r.v, r.id) # {} \/ version[r.v] = NoFile THEN Idle
                                 ELSE [at |-> "read", v |-> r.v, id |-> r.id, facts |-> version[r.v]]]
    /\ UNCHANGED <<version, last, store, memory, sweep, probe, active, due, status, begun, mixed>>

(* A memory that is full is forgotten. *)
Memorized(entry) == IF Cardinality(memory) >= MaxMemory THEN {entry}
                    ELSE (memory \ Known(entry.v, entry.id)) \cup {entry}

\* Mutation.
KeyOf_After(t) == version[row[t].v]

KeyOf(t) == row[t].id
ListKeeps(t) == LET r == row[t] IN
    /\ r.at = "read" /\ memory' = Memorized([v |-> r.v, id |-> KeyOf(t), facts |-> r.facts])
    /\ row' = [row EXCEPT ![t] = Idle]
    /\ UNCHANGED <<version, last, store, sweep, probe, active, due, status, begun, mixed>>

ProbeNext == \/ \E v \in Videos : \/ Replaced(v) \/ Removed(v)
                                  \/ SweepLooks(v) \/ SweepProbes(v) \/ SweepSaves(v)
             \/ \E vs \in SUBSET Videos : SweepStarts(vs) \/ SweepRuns(vs)
             \/ SweepEnds
             \/ \E s \in Probes : (\E v \in Videos : ProbeFile(s, v)) \/ ProbeSaved(s)
             \/ \E t \in Readings : (\E v \in Videos : ListKeyed(t, v)) \/ ListRead(t) \/ ListKeeps(t)

ProbeSpec == ProbeInit /\ [][ProbeNext]_probeVars

-----------------------------------------------------------------------------
(* "Served only while its identity holds": what the store answers is what the file
   has. One case is excused: a file replaced between its probe and the save of it is
   served with the facts of the file before, and only until it changes again. *)
StoredIsCurrent == \A v \in Videos \ mixed : CacheGet(v) \in {Nothing, version[v]}

(* The rename list takes the key before it reads, and needs no such exception: what it
   remembers of a file as it is now is so. *)
MemoryIsCurrent == \A e \in memory : e.id = version[e.v] => e.facts = e.id

(* The progress adds up: a file of a sweep is counted once it is over, each file is at
   the end, and the status says that a sweep runs while one does. A sweep that is let
   in and has not run yet shows the complete counts of the one before. *)
ProgressAddsUp ==
    /\ Count(status) = IF active /\ due = {} THEN Cardinality({v \in Videos : sweep[v].at = "done"})
                                             ELSE status.total
    /\ active <=> status.running

(* What is known of the files is so, and so is what is said of the sweep. *)
ProbesHold == ProbeTypeOK /\ StoredIsCurrent /\ MemoryIsCurrent /\ ProgressAddsUp
=============================================================================
