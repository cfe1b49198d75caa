---------------------------- MODULE SourceSearch ----------------------------
(* A search for releases: the background job of release_search.py, its fetcher in
   calendar.py and the fan-out of indexers.py over our own sources, which answer or
   fail one by one in any order. aMule has one search at a time, whoever asked. *)
EXTENDS Naturals, FiniteSets

CONSTANTS Searches, Indexers,
          Wants,          \* Wants[s]: the selections of sources s may be asked with
          MaxRegistry     \* changes of the registry during the searches: a bound

Sources == {"torznab", "amule", "prowlarr"}
ASSUME SearchAssumption == /\ MaxRegistry \in Nat /\ Wants \in [Searches -> SUBSET SUBSET Sources]
                           /\ Sources \cap Indexers = {}

VARIABLES enabled, changes,     \* enabled rows of the registry, and how often they changed
          selected, filter,     \* selected[s]: sources; filter[s]: indexers
          asked,                \* asked[s]: the rows of the registry that s calls
          answered, skipped,    \* answered[s], skipped[s]: sources and indexers, once each
          kept,                 \* kept[s]: those whose rows are results of s
          current,              \* the search aMule is at
          ec,                   \* ec[s]: where s is with it
          settled               \* settled[s]: the task

srchVars == <<enabled, changes, selected, filter, asked, answered, skipped, kept,
              current, ec, settled>>

NoSearch == "nobody"
Parts == Sources \cup Indexers
SrchTypeOK == /\ enabled \subseteq Indexers /\ changes \in 0..MaxRegistry
              /\ selected \in [Searches -> SUBSET Sources]
              /\ \A s \in Searches :
                   /\ asked[s] \subseteq Indexers
                   /\ answered[s] \subseteq Parts /\ skipped[s] \subseteq Parts
                   /\ kept[s] \subseteq answered[s]
              /\ current \in Searches \cup {NoSearch}
              /\ ec \in [Searches -> {"no", "polling", "results", "over"}]
              /\ settled \in [Searches -> {"none", "running", "done", "error"}]

SrchInit == /\ enabled = Indexers /\ changes = 0
            /\ selected = [s \in Searches |-> {}] /\ filter = [s \in Searches |-> Indexers]
            /\ asked = [s \in Searches |-> {}]
            /\ answered = asked /\ skipped = asked /\ kept = asked
            /\ current = NoSearch /\ ec = [s \in Searches |-> "no"]
            /\ settled = [s \in Searches |-> "none"]

bookVars == <<selected, filter, settled>>
amuleVars == <<current, ec>>
-----------------------------------------------------------------------------
(* The route refuses an empty selection; absent is every source, and every row. *)
StartSearch(s, sources, rows) ==
    /\ settled[s] = "none" /\ sources # {}
    /\ settled' = [settled EXCEPT ![s] = "running"]
    /\ selected' = [selected EXCEPT ![s] = sources]
    /\ filter' = [filter EXCEPT ![s] = rows]
    /\ UNCHANGED <<enabled, changes, asked, answered, skipped, kept, amuleVars>>

Waits(s, part) == /\ settled[s] = "running"
                  /\ part \in selected[s] \cup asked[s]
                  /\ part \notin answered[s] \cup skipped[s]
(* relevant: some of its rows match the query. *)
Answer(s, part, relevant) ==
    /\ answered' = [answered EXCEPT ![s] = @ \cup {part}]
    /\ kept' = [kept EXCEPT ![s] = IF relevant THEN @ \cup {part} ELSE @]
    /\ UNCHANGED skipped
Skip(s, part) == /\ skipped' = [skipped EXCEPT ![s] = @ \cup {part}]
                 /\ UNCHANGED <<answered, kept>>

(* _search_torznab reads the rows that are enabled now; none that was asked for is an
   entry of its own. A store that is down reads none. *)
ReadRegistry(s) ==
    /\ Waits(s, "torznab") /\ asked[s] = {}
    /\ \E rows \in {enabled \cap filter[s], {}} :
         IF rows = {} THEN Skip(s, "torznab") /\ UNCHANGED asked
         ELSE /\ asked' = [asked EXCEPT ![s] = rows]
              /\ UNCHANGED <<answered, skipped, kept>>
    /\ UNCHANGED <<enabled, changes, bookVars, amuleVars>>

(* _torznab_row_call: rows, none, or a reason: no key to be read, no answer. *)
RowAnswers(s, i) == /\ i \in asked[s] /\ Waits(s, i)
                    /\ \/ \E relevant \in BOOLEAN : Answer(s, i, relevant)
                       \/ Skip(s, i)
                    /\ UNCHANGED <<enabled, changes, asked, bookVars, amuleVars>>

(* The source answered if one of its rows did. *)
Gathered(s) == asked[s] \cap answered[s] # {}
TorznabOver(s) ==
    /\ asked[s] # {} /\ Waits(s, "torznab") /\ asked[s] \subseteq answered[s] \cup skipped[s]
    /\ IF Gathered(s)
         THEN Answer(s, "torznab", asked[s] \cap kept[s] # {})
         ELSE Skip(s, "torznab")
    /\ UNCHANGED <<enabled, changes, asked, bookVars, amuleVars>>

(* _search_prowlarr; not configured, or not reached, is a reason too. *)
ProwlarrAnswers(s) ==
    /\ Waits(s, "prowlarr")
    /\ \/ \E relevant \in BOOLEAN : Answer(s, "prowlarr", relevant)
       \/ Skip(s, "prowlarr")
    /\ UNCHANGED <<enabled, changes, asked, bookVars, amuleVars>>

(* amule_search over EC: start, polls until it is over or the deadline, results, stop.
   A start replaces the search that was there, a stop ends the one that is. *)
EcStarts(s) == /\ Waits(s, "amule") /\ ec[s] = "no"
               /\ current' = s /\ ec' = [ec EXCEPT ![s] = "polling"]
               /\ UNCHANGED <<enabled, changes, asked, answered, skipped, kept, bookVars>>
EcPolled(s) == /\ ec[s] = "polling" /\ ec' = [ec EXCEPT ![s] = "results"]
               /\ UNCHANGED <<enabled, changes, asked, answered, skipped, kept, bookVars, current>>

(* Rows of another search are not relevant to this one. *)
Relevant(s) == current = s
EcResults(s) == /\ ec[s] = "results" /\ Waits(s, "amule")
                /\ \E rows \in BOOLEAN : Answer(s, "amule", rows /\ Relevant(s))
                /\ current' = NoSearch /\ ec' = [ec EXCEPT ![s] = "over"]
                /\ UNCHANGED <<enabled, changes, asked, bookVars>>

(* The connection fails; the search goes on in aMule. *)
EcFails(s) == /\ Waits(s, "amule") /\ Skip(s, "amule") /\ ec' = [ec EXCEPT ![s] = "over"]
              /\ UNCHANGED <<enabled, changes, asked, bookVars, current>>

\* Mutation.
Verdict_Done(s) == "done"

(* Every selected source failed, or not. *)
Verdict(s) == IF kept[s] # {} \/ selected[s] \cap answered[s] # {} THEN "done" ELSE "error"

\* Mutation.
Complete_First(s) == selected[s] \cap (answered[s] \cup skipped[s]) # {}

(* gather: when every one of them came back. *)
Complete(s) == selected[s] \subseteq answered[s] \cup skipped[s]
SearchOver(s) == /\ settled[s] = "running" /\ Complete(s)
                 /\ settled' = [settled EXCEPT ![s] = Verdict(s)]
                 /\ UNCHANGED <<enabled, changes, selected, filter, asked, answered, skipped, kept,
                                amuleVars>>

(* The task expires. *)
SearchForgotten(s) ==
    /\ settled[s] \in {"done", "error"} /\ settled' = [settled EXCEPT ![s] = "none"]
    /\ selected' = [selected EXCEPT ![s] = {}] /\ filter' = [filter EXCEPT ![s] = Indexers]
    /\ asked' = [asked EXCEPT ![s] = {}]
    /\ answered' = [answered EXCEPT ![s] = {}] /\ skipped' = [skipped EXCEPT ![s] = {}]
    /\ kept' = [kept EXCEPT ![s] = {}]
    /\ ec' = [ec EXCEPT ![s] = "no"]
    /\ UNCHANGED <<enabled, changes, current>>

(* Meanwhile an indexer is disabled, deleted, or enabled. *)
RegistryChanges(rows) == /\ changes < MaxRegistry /\ changes' = changes + 1 /\ enabled' = rows
                         /\ UNCHANGED <<asked, answered, skipped, kept, bookVars, amuleVars>>

SrchNext == \/ \E s \in Searches : \E sources \in Wants[s], rows \in SUBSET Indexers \ {{}} :
                 StartSearch(s, sources, rows)
            \/ \E s \in Searches : \/ ReadRegistry(s) \/ TorznabOver(s) \/ ProwlarrAnswers(s)
                                   \/ EcStarts(s) \/ EcPolled(s) \/ EcResults(s) \/ EcFails(s)
                                   \/ SearchOver(s) \/ SearchForgotten(s)
                                   \/ \E i \in Indexers : RowAnswers(s, i)
            \/ \E rows \in SUBSET Indexers : RegistryChanges(rows)

SrchSpec == SrchInit /\ [][SrchNext]_srchVars

-----------------------------------------------------------------------------
Over(s) == settled[s] \in {"done", "error"}

(* "Every absence is a skipped entry with an honest reason": a search that is over has
   from each selected source an answer or a reason, and from each indexer it called. *)
EachIsAccountedFor == \A s \in Searches : Over(s) =>
    selected[s] \cup asked[s] \subseteq answered[s] \cup skipped[s]

(* "Never releases: [] dressed as no results": a job without releases is done only if
   somebody was there to answer, and in error only if nobody was. *)
EmptyIsHonest == \A s \in Searches :
    /\ settled[s] = "done" => answered[s] # {}
    /\ settled[s] = "error" => kept[s] = {} /\ answered[s] = {} /\ selected[s] \subseteq skipped[s]

(* What a search shows, and what it says is missing, is what its sources said. *)
SearchesAreHonest == SrchTypeOK /\ EachIsAccountedFor /\ EmptyIsHonest
=============================================================================
