------------------------------ MODULE MCActions ------------------------------
(* Four machines of the request path, a behaviour is one of them: the actions of
   the operator, the line to aMule they use, renames in the library, and what is
   known of its files. *)
EXTENDS Actions, AmuleEC, LibraryRename, ProbeStore, TLC
CONSTANTS tracked, straight

VARIABLE machine
Plays(name) == machine = name /\ UNCHANGED machine

MCTitles == <<"all", "other", "tv">>

(* A loose copy with a subtitle, and a copy of the same movie that Radarr has. *)
MCFile(dir, stem, ext) == [dir |-> dir, stem |-> stem, ext |-> ext]
MCLibrary == {MCFile(<<"4k">>, <<"m">>, "mkv"), MCFile(<<"4k">>, <<"m", "es">>, "srt"),
              MCFile(<<"movies", "m">>, <<"m", "old">>, "mkv")}
MCIncoming == {MCFile(<<"4k", "m">>, <<"m", "quality", "es">>, "srt")}
MCTitle == [x \in Movies |-> <<x>>]
MCTyped == {<<"m", "alt">>}

MCInit == /\ ActInit /\ EcInit /\ RenameInit /\ ProbeInit
          /\ machine \in {"actions", "line", "renames", "probes"}
MCNext == \/ Plays("actions") /\ ActNext /\ UNCHANGED <<ecVars, renameVars, probeVars>>
          \/ Plays("line") /\ EcNext /\ UNCHANGED <<actVars, renameVars, probeVars>>
          \/ Plays("renames") /\ RenameNext /\ UNCHANGED <<actVars, ecVars, probeVars>>
          \/ Plays("probes") /\ ProbeNext /\ UNCHANGED <<actVars, ecVars, renameVars>>
MCSpec == MCInit /\ [][MCNext]_<<machine, actVars, ecVars, renameVars, probeVars>>

Sym == Permutations(ActionIds) \cup Permutations(EcThreads) \cup Permutations(Renames)
         \cup Permutations(Videos)
=============================================================================
