-------------------------- MODULE IndexerRegistry --------------------------
(* The registry of Torznab indexers: the routes of indexers.py over the table of
   sqlite_history.py. A PUT reads its row, then every request looks for its name in
   the table, and writes: three calls, others run between them. Keys are sealed with
   the secret of the moment, and a form sends back, as the mask it was shown, the key
   it did not change. *)
EXTENDS Naturals

CONSTANTS Names,        \* a name, or a url: they are treated alike
          Keys,         \* keys an operator types
          Editors,      \* requests in flight
          MaxId,        \* rows ever created: a bound
          MaxSecrets    \* values FC_SECRET takes: a bound

ASSUME RegistryAssumption == MaxId \in Nat /\ MaxSecrets \in Nat

NoKey == "no key"
Mask == "mask"
NoRow == [name |-> "none"]
Ids == 1..MaxId
NewRow == 0             \* the target of a POST

VARIABLES table,        \* table[i]: the row, NoRow before its creation and after its deletion
          secret,       \* FC_SECRET
          lastId,
          edit, atEdit, \* edit[e] and where the request is
          typed,        \* history: typed[i]: the keys that were written for row i
          twins,        \* history: names two requests looked for before either wrote, or
                        \* one could not look for
          up            \* the store answers

regVars == <<table, secret, lastId, edit, atEdit, typed, twins, up>>

Rows == [name : Names, key : Keys \cup {NoKey}, sealed : 0..MaxSecrets]
(* A body: a name or none, and a key, a mask, or nothing. *)
NoName == "unchanged"
Edits == [id : {NewRow} \cup Ids, name : Names \cup {NoName}, key : Keys \cup {Mask, NoKey}]
NoEdit == [id |-> NewRow, name |-> NoName, key |-> NoKey]

RegTypeOK == /\ table \in [Ids -> Rows \cup {NoRow}]
             /\ secret \in 0..MaxSecrets /\ lastId \in 0..MaxId /\ twins \subseteq Names
             /\ \A i \in Ids : table[i] # NoRow => i <= lastId
             /\ edit \in [Editors -> Edits] /\ atEdit \in [Editors -> {"free", "found", "checked"}]
             /\ \A e \in Editors : atEdit[e] \in {"found", "checked"} => edit[e].name \in Names

RegInit == /\ table = [i \in Ids |-> NoRow] /\ secret = 0 /\ lastId = 0
           /\ edit = [e \in Editors |-> NoEdit] /\ atEdit = [e \in Editors |-> "free"]
           /\ typed = [i \in Ids |-> {}] /\ twins = {} /\ up = TRUE

-----------------------------------------------------------------------------
Listed == IF up THEN {i \in Ids : table[i] # NoRow} ELSE {}
Answers(e) == /\ atEdit' = [atEdit EXCEPT ![e] = "free"]
              /\ edit' = [edit EXCEPT ![e] = NoEdit]

\* Mutation.
Taken_OnlyNew(name, id) == \E i \in Listed : table[i].name = name /\ id = NewRow

(* A row other than its own has the name. *)
Taken(name, id) == \E i \in Listed \ {id} : table[i].name = name

(* The name the row will have: the stored one when the body has none. *)
Effective(b) == IF b.name # NoName THEN b.name
                ELSE IF b.id # NewRow THEN table[b.id].name ELSE NoName
Gone(b) == b.id # NewRow /\ b.id \notin Listed

BadBody(b) == b.id = NewRow /\ (b.name = NoName \/ b.key = Mask)
Overlaps(e, name) == \E o \in Editors \ {e} : atEdit[o] = "checked" /\ edit[o].name = name

(* A request comes, and what it will write is made up: the row of a PUT is read and
   the body completed from it, a POST has its own. A 404, a 422, or the 503 of a store
   that is down changes nothing. *)
RegFind(e, b) ==
    /\ atEdit[e] = "free"
    /\ b.id <= lastId /\ ~Gone(b) /\ ~BadBody(b)
    /\ edit' = [edit EXCEPT ![e] = [b EXCEPT !.name = Effective(b)]]
    /\ atEdit' = [atEdit EXCEPT ![e] = "found"]
    /\ UNCHANGED <<table, secret, lastId, typed, twins, up>>

(* _reject_duplicate reads the table again: a 409. *)
RegCheck(e) == LET b == edit[e] IN
    /\ atEdit[e] = "found"
    /\ IF Taken(b.name, b.id) THEN Answers(e) /\ UNCHANGED twins
       ELSE /\ atEdit' = [atEdit EXCEPT ![e] = "checked"]
            /\ twins' = IF Overlaps(e, b.name) \/ ~up THEN twins \cup {b.name} ELSE twins
            /\ UNCHANGED edit
    /\ UNCHANGED <<table, secret, lastId, typed, up>>

(* _seal_api_key: without a key there is nothing to seal. *)
Sealed(key) == [key |-> key, sealed |-> secret]

\* Mutation.
Incoming_Mask(b) == IF b.key = Mask THEN NoKey ELSE b.key
(* _incoming_key: a mask and nothing at all keep the stored key. *)
Keeps(b) == b.key \in {Mask, NoKey}

\* Mutation.
Write_LosesKey(e) == LET b == edit[e] IN
    [name |-> b.name, key |-> Incoming_Mask(b), sealed |-> secret]

(* indexer_update changes what it is given. *)
Write(e) == LET b == edit[e] IN
    IF Keeps(b) THEN [table[b.id] EXCEPT !.name = b.name]
    ELSE [name |-> b.name, key |-> Sealed(b.key).key, sealed |-> Sealed(b.key).sealed]

RegCreate(e) == LET b == edit[e] IN
    /\ atEdit[e] = "checked" /\ b.id = NewRow /\ up /\ lastId < MaxId
    /\ lastId' = lastId + 1
    /\ table' = [table EXCEPT ![lastId'] = [name |-> b.name, key |-> b.key, sealed |-> secret]]
    /\ typed' = [typed EXCEPT ![lastId'] = {b.key}]
    /\ Answers(e) /\ UNCHANGED <<secret, twins, up>>

RegUpdate(e) == LET b == edit[e] IN
    /\ atEdit[e] = "checked" /\ b.id # NewRow /\ up /\ table[b.id] # NoRow
    /\ table' = [table EXCEPT ![b.id] = Write(e)]
    /\ typed' = IF Keeps(b) THEN typed ELSE [typed EXCEPT ![b.id] = {b.key}]
    /\ Answers(e) /\ UNCHANGED <<secret, lastId, twins, up>>

(* The store is down, or the row went away since: both are a 503. *)
RegNotWritten(e) == /\ atEdit[e] = "checked"
                    /\ \/ ~up
                       \/ edit[e].id # NewRow /\ table[edit[e].id] = NoRow
                       \/ edit[e].id = NewRow /\ lastId = MaxId
                    /\ Answers(e)
                    /\ UNCHANGED <<table, secret, lastId, typed, twins, up>>

RegDelete(i) == /\ i \in Listed /\ table' = [table EXCEPT ![i] = NoRow]
                /\ typed' = [typed EXCEPT ![i] = {}]
                /\ UNCHANGED <<secret, lastId, edit, atEdit, twins, up>>

(* A restart with another secret; the requests end with the process. *)
Rotate == /\ secret < MaxSecrets /\ secret' = secret + 1
          /\ edit' = [e \in Editors |-> NoEdit] /\ atEdit' = [e \in Editors |-> "free"]
          /\ UNCHANGED <<table, lastId, typed, twins, up>>

StoreToggles == /\ up' = ~up
                /\ UNCHANGED <<table, secret, lastId, edit, atEdit, typed, twins>>

RegNext == \/ \E e \in Editors : \/ \E b \in Edits : RegFind(e, b)
                                 \/ RegCheck(e) \/ RegCreate(e) \/ RegUpdate(e) \/ RegNotWritten(e)
           \/ \E i \in Ids : RegDelete(i)
           \/ Rotate \/ StoreToggles

RegSpec == RegInit /\ [][RegNext]_regVars

-----------------------------------------------------------------------------
(* _open_api_key: what a call would send for a row; nothing when it cannot be read. *)
Opened(i) == IF table[i].key = NoKey \/ table[i].sealed = secret THEN {table[i].key} ELSE {}

(* The key of an indexer is the one that was last typed for it, whatever else was
   saved since and by whom: "saving that verbatim once destroyed every stored
   credential". What cannot be opened is not sent. *)
KeysSurvive == \A i \in Ids : table[i] # NoRow => 
                  table[i].key \in typed[i] /\ Opened(i) \subseteq typed[i]

(* "First-wins would silently register the same indexer twice": two rows have one
   name only if two requests looked for it before either wrote, or one could not
   look. That the check and the write are two calls is what the code is. *)
NoTwins == \A i, j \in Ids :
    table[i] # NoRow /\ table[j] # NoRow /\ table[i].name = table[j].name
      => i = j \/ table[i].name \in twins

(* An indexer is there once, with its own key. *)
RegistryHolds == RegTypeOK /\ KeysSurvive /\ NoTwins
=============================================================================
