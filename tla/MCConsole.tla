------------------------------ MODULE MCConsole ------------------------------
(* Five machines of the operator's console, a behaviour is one of them: grabs of
   releases, searches over the sources, the budgets of the HTTP edge, the registry
   of indexers, and the settings. *)
EXTENDS Grab, SourceSearch, RateLimit, IndexerRegistry, Settings, TLC
CONSTANTS v1, a1

VARIABLES machine, used
Plays(name) == machine = name /\ UNCHANGED <<machine, used>>

MCShape == [r \in Releases |-> CASE r = "e" -> "ed2k" [] r = "m" -> "magnet" [] OTHER -> "http"]
MCNameOf == [r \in Releases |-> "N" \o r]
MCTitleOf == [r \in Releases |-> IF r = "e" THEN "Te" ELSE "N" \o r]
MCIdsOf == [r \in Releases |->
              CASE r = "e" -> [source |-> "sonarr", movie |-> 0, episode |-> 1]
                [] r = "m" -> [source |-> "radarr", movie |-> 1, episode |-> 1]
                [] OTHER -> [source |-> "radarr", movie |-> 1, episode |-> 0]]
MCBatches == {<<CHOOSE r \in Releases : r # "m", "m">>}
MCWants == [s \in Searches |-> IF s = "s1" THEN {Sources, {"torznab"}, {"prowlarr", "amule"}}
                              ELSE {{"amule"}}]

\* No variable, one of a service, the app's key; a file with a key in the clear, or
\* one left with a mask.
MCEnvs == {e \in [cred : {[f \in Variables |-> IF f = g THEN v1 ELSE Empty] : g \in Fields}, app : {Empty, a1}] :
             e.app = Empty \/ \A f \in Variables : e.cred[f] = Empty}
MCLegacy == {[cred |-> [f \in Fields |-> Clear(IF f = g THEN v1 ELSE Empty)], app |-> [how |-> h, of |-> a1]] :
               g \in Fields, h \in {"clear", "mask"}}
\* A behaviour is about one credential of the app's services, or about ec_password
\* and one that a page is shown as it is.
Uses == {u \in {{"radarr.api_key"}, {EcPassword, "opensubtitles.api_key"}} : u \subseteq Fields}
InUse(mem) == \A f \in Fields \ used : mem[f] = Empty

MCInit == /\ GrabInit /\ SrchInit /\ RateInit /\ RegInit /\ SetInit
          /\ machine \in {"grabs", "searches", "edge", "registry", "settings"}
          /\ used \in IF machine = "settings" THEN Uses ELSE {{}}
          /\ machine # "settings" => file = NoFile
          /\ InUse(last)
MCNext ==
  \/ Plays("grabs") /\ GrabNext /\ UNCHANGED <<srchVars, rateVars, regVars, setVars>>
  \/ Plays("searches") /\ SrchNext /\ UNCHANGED <<grabVars, rateVars, regVars, setVars>>
  \/ Plays("edge") /\ RateNext /\ UNCHANGED <<grabVars, srchVars, regVars, setVars>>
  \/ Plays("registry") /\ RegNext /\ UNCHANGED <<grabVars, srchVars, rateVars, setVars>>
  \/ Plays("settings") /\ SetNext /\ InUse(memory') /\ UNCHANGED <<grabVars, srchVars, rateVars, regVars>>
MCSpec == MCInit /\ [][MCNext]_<<machine, used, grabVars, srchVars, rateVars, regVars, setVars>>

\* The grabs, the indexers, the clients, the editors and the secrets are the same
\* two values: no two of these sets meet in one machine.
Sym == Permutations(Grabs)
=============================================================================
