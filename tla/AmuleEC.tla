------------------------------ MODULE AmuleEC ------------------------------
(* The direct line to aMule: AmuleECClient (amule_ec_client.py), the adapter that
   opens a connection for every operation (amule_service.py) and the operations of
   copy_engine.py over it, each in a thread of its own. aMule serves the requests of
   all connections one at a time; what it was sent it may still serve after the
   connection was given up. Frames are requests and replies here. *)
EXTENDS Naturals, Sequences

CONSTANTS EcThreads,    \* worker threads of to_thread, one for an operation
          EcFiles,      \* downloads, by hash
          Titles,       \* initial categories of aMule, in order: a sequence
          Expected,     \* EXPECTED_CATEGORY of the source
          MaxEcFaults, MaxListEdits     \* bounds of the model

ASSUME EcAssumption == /\ MaxEcFaults \in Nat /\ MaxListEdits \in Nat
                       /\ EcFiles # {} /\ Titles \in Seq(STRING) \ {<<>>}

EcOps == [kind : {"delete"}, f : EcFiles, disk : BOOLEAN]
           \cup [kind : {"category", "command"}, f : EcFiles]
NoOp == [kind |-> "none"]

VARIABLES parts, shared,    \* aMule's downloads, and its complete files
          list, edits,      \* its categories, and how often the list changed
          catOf, catFrom,   \* a file's category, and the list it was set from
          op, at,           \* op[t] and where t is in it
          ask, reply,       \* ask[t]: the next or pending request; reply[t]
          open,             \* the connections that hold a socket
          orphans,          \* requests sent whose connection is gone
          result,           \* result[t]: how the operation of t ended
          faults

coreVars == <<parts, shared, list, edits, catOf, catFrom>>
lineVars == <<op, at, ask, reply, open, orphans, result>>
ecVars == <<coreVars, lineVars, faults>>

Indices == 1..Len(Titles)
NotSet == MaxListEdits + 1
Asks(what, f) == [what |-> what, f |-> f]
SetCat(f, i, from) == [what |-> "setcat", f |-> f, index |-> i, from |-> from]
Requests == [what : {"shared", "known", "part", "cats", "cmd"}, f : EcFiles]
              \cup [what : {"setcat"}, f : EcFiles, index : Indices, from : 0..MaxListEdits]
Connected == {"hello", "salted", "ready", "waiting", "replied"}

EcTypeOK == /\ parts \subseteq EcFiles /\ shared \subseteq EcFiles
            /\ edits \in 0..MaxListEdits /\ Len(list) + edits = Len(Titles)
            /\ catOf \in [EcFiles -> Indices] /\ catFrom \in [EcFiles -> {NotSet} \cup (0..MaxListEdits)]
            /\ op \in [EcThreads -> EcOps \cup {NoOp}]
            /\ at \in [EcThreads -> {"idle", "closed"} \cup Connected]
            /\ \A t \in EcThreads : at[t] # "idle" => ask[t] \in Requests
            /\ open \subseteq EcThreads
            /\ orphans \subseteq Requests
            /\ result \in [EcThreads -> {"none", "ok", "failed", "refused"}]
            /\ faults \in 0..MaxEcFaults

EcInit == /\ parts = EcFiles /\ shared = {}
          /\ list = Titles /\ edits = 0
          /\ catOf = [f \in EcFiles |-> 1] /\ catFrom = [f \in EcFiles |-> NotSet]
          /\ op = [t \in EcThreads |-> NoOp] /\ at = [t \in EcThreads |-> "idle"]
          /\ ask = [t \in EcThreads |-> Asks("cmd", CHOOSE f \in EcFiles : TRUE)]
          /\ reply = [t \in EcThreads |-> [says |-> "none", list |-> <<>>, from |-> 0]]
          /\ open = {} /\ orphans = {}
          /\ result = [t \in EcThreads |-> "none"]
          /\ faults = 0

-----------------------------------------------------------------------------
(* aMule: a download completes, the operator edits the categories in aMule's own
   window, and requests are served. A file is a download or complete; what is asked
   of one that is not there fails. *)

Completes(f) == /\ f \in parts /\ parts' = parts \ {f} /\ shared' = shared \cup {f}
                /\ UNCHANGED <<list, edits, catOf, catFrom, lineVars, faults>>

(* The categories after the one that is removed move up. *)
Without(s, i) == [j \in 1..(Len(s) - 1) |-> IF j < i THEN s[j] ELSE s[j + 1]]
ListEdited(i) == /\ edits < MaxListEdits /\ i \in 2..Len(list)
                 /\ list' = Without(list, i) /\ edits' = edits + 1
                 /\ catOf' = [f \in EcFiles |-> IF catOf[f] = i THEN 1
                                                ELSE IF catOf[f] > i THEN catOf[f] - 1
                                                ELSE catOf[f]]
                 /\ UNCHANGED <<parts, shared, catFrom, lineVars, faults>>

Holds(r) == CASE r.what = "part" -> r.f \in parts
              [] r.what = "known" -> r.f \in shared
              [] r.what = "setcat" -> r.f \in parts /\ r.index <= Len(list)
              [] OTHER -> TRUE

Effect(r) == /\ parts' = IF r.what = "part" THEN parts \ {r.f} ELSE parts
             /\ shared' = IF r.what = "known" THEN shared \ {r.f} ELSE shared
             /\ IF r.what = "setcat"
                  THEN /\ catOf' = [catOf EXCEPT ![r.f] = r.index]
                       /\ catFrom' = [catFrom EXCEPT ![r.f] = r.from]
                  ELSE UNCHANGED <<catOf, catFrom>>
             /\ UNCHANGED <<list, edits>>

Says(x) == [says |-> x, list |-> <<>>, from |-> 0]

(* What the answer says: the complete files or the categories of that moment. *)
Answered(r) == CASE r.what = "shared" -> Says(IF r.f \in shared THEN "listed" ELSE "absent")
                 [] r.what = "cats" -> [says |-> "list", list |-> list, from |-> edits]
                 [] OTHER -> Says("noop")

EcServe(t) == /\ at[t] = "waiting"
              /\ IF Holds(ask[t])
                   THEN Effect(ask[t]) /\ reply' = [reply EXCEPT ![t] = Answered(ask[t])]
                   ELSE UNCHANGED coreVars /\ reply' = [reply EXCEPT ![t] = Says("FAILED")]
              /\ at' = [at EXCEPT ![t] = "replied"]
              /\ UNCHANGED <<op, ask, open, orphans, result, faults>>

ServeOrphan(r) == /\ r \in orphans /\ orphans' = orphans \ {r}
                  /\ IF Holds(r) THEN Effect(r) ELSE UNCHANGED coreVars
                  /\ UNCHANGED <<op, at, ask, reply, open, result, faults>>

-----------------------------------------------------------------------------
(* The client. *)

(* _client_delete, _ec_fix_category, _ec_step, add_ed2k: what is asked first. *)
FirstAsk(o) == CASE o.kind = "delete" -> Asks(IF o.disk THEN "shared" ELSE "part", o.f)
                 [] o.kind = "category" -> Asks("cats", o.f)
                 [] OTHER -> Asks("cmd", o.f)

EcBegin(t, o) == /\ op[t] = NoOp /\ op' = [op EXCEPT ![t] = o]
                 /\ at' = [at EXCEPT ![t] = "closed"]
                 /\ ask' = [ask EXCEPT ![t] = FirstAsk(o)]
                 /\ UNCHANGED <<coreVars, reply, open, orphans, result, faults>>

EcConnect(t) == /\ at[t] = "closed" /\ at' = [at EXCEPT ![t] = "hello"]
                /\ open' = open \cup {t}
                /\ UNCHANGED <<coreVars, op, ask, reply, orphans, result, faults>>

(* _authenticate: the salt, and then the digest. *)
Authenticate(t) == /\ at[t] \in {"hello", "salted"}
                   /\ at' = [at EXCEPT ![t] = IF @ = "hello" THEN "salted" ELSE "ready"]
                   /\ UNCHANGED <<coreVars, op, ask, reply, open, orphans, result, faults>>

EcSend(t) == /\ at[t] = "ready" /\ at' = [at EXCEPT ![t] = "waiting"]
             /\ UNCHANGED <<coreVars, op, ask, reply, open, orphans, result, faults>>

(* __exit__ closes however the operation ended. *)
EcEnds(t, how) == /\ at' = [at EXCEPT ![t] = "idle"]
                  /\ result' = [result EXCEPT ![t] = how]
                  /\ open' = open \ {t}

(* _ec_fix_category resolves the name in a connection and sets the index in the
   next one; a name that is not there is refused. *)
NoIndex == 0
IndexOf(r) == IF \E i \in 1..Len(r.list) : r.list[i] = Expected
                THEN CHOOSE i \in 1..Len(r.list) : r.list[i] = Expected
                ELSE NoIndex

Unknown(index) == index = NoIndex

\* Mutation.
NextAsk_FromZero(t) == LET r == reply[t] IN SetCat(op[t].f, IF IndexOf(r) = 1 THEN 1 ELSE IndexOf(r) - 1, r.from)

NextAsk(t) == LET r == reply[t] IN SetCat(op[t].f, IndexOf(r), r.from)

HearCategories(t) ==
    /\ at[t] = "replied" /\ ask[t].what = "cats"
    /\ IF Unknown(IndexOf(reply[t]))
         THEN EcEnds(t, "refused") /\ UNCHANGED ask
         ELSE /\ ask' = [ask EXCEPT ![t] = NextAsk(t)]
              /\ at' = [at EXCEPT ![t] = "closed"] /\ open' = open \ {t}
              /\ UNCHANGED result
    /\ UNCHANGED <<coreVars, op, reply, orphans, faults>>

(* delete_disk: only a complete file leaves the disk by its known identity, any
   other is discarded as a download. *)
HearShared(t) ==
    /\ at[t] = "replied" /\ ask[t].what = "shared"
    /\ ask' = [ask EXCEPT ![t] = Asks(IF reply[t].says = "listed" THEN "known" ELSE "part", op[t].f)]
    /\ at' = [at EXCEPT ![t] = "ready"]
    /\ UNCHANGED <<coreVars, op, reply, open, orphans, result, faults>>

\* Mutation.
Outcome_AnyReply(r) == "ok"

(* _await_ack: a FAILED is raised. *)
Outcome(r) == IF r.says = "FAILED" THEN "failed" ELSE "ok"
HearAck(t) == /\ at[t] = "replied" /\ ask[t].what \in {"known", "part", "cmd", "setcat"}
              /\ EcEnds(t, Outcome(reply[t]))
              /\ UNCHANGED <<coreVars, op, ask, reply, orphans, faults>>

\* Mutation.
GivesUp_NoClose(t) == /\ at' = [at EXCEPT ![t] = "idle"]
                       /\ result' = [result EXCEPT ![t] = "failed"]
                       /\ open' = IF at[t] \in {"hello", "salted"} THEN open ELSE open \ {t}

(* connect closes what it opened when the handshake fails. *)
GivesUp(t) == EcEnds(t, "failed")

(* No connection, a rejected password, a timeout, a connection that drops: a typed
   error, nothing is tried again. What was sent may have arrived. *)
EcBreaks(t) == /\ at[t] \in {"closed"} \cup Connected /\ faults < MaxEcFaults
               /\ faults' = faults + 1
               /\ IF at[t] = "waiting" THEN orphans' \in {orphans, orphans \cup {ask[t]}}
                                       ELSE UNCHANGED orphans
               /\ GivesUp(t)
               /\ UNCHANGED <<coreVars, op, ask, reply>>

EcStep(t) == \/ EcConnect(t) \/ Authenticate(t) \/ EcSend(t)
             \/ HearCategories(t) \/ HearShared(t) \/ HearAck(t)

EcNext == \/ \E f \in EcFiles : Completes(f)
          \/ \E i \in Indices : ListEdited(i)
          \/ \E r \in orphans : ServeOrphan(r)
          \/ \E t \in EcThreads : EcServe(t) \/ EcStep(t) \/ EcBreaks(t)
          \/ \E t \in EcThreads, o \in EcOps : EcBegin(t, o)

EcSpec == EcInit /\ [][EcNext]_ecVars

-----------------------------------------------------------------------------
(* A delete that answers ok has deleted, also when the download completed between
   the list and the request: with its files nothing of it is left, without them
   the download is gone. *)
DeletedIsGone == \A t \in EcThreads :
    result[t] = "ok" /\ op[t].kind = "delete" =>
        op[t].f \notin parts /\ (op[t].disk => op[t].f \notin shared)

(* "no manual map can drift": the category a file was put in is the one that was
   meant, as long as the list is the one the index was read from. *)
IndexIsName == \A f \in EcFiles :
    catFrom[f] = edits /\ f \in parts => list[catOf[f]] = Expected

(* An operation that is over, however it ended, leaves no connection behind. *)
SocketsClosed == \A t \in EcThreads : at[t] \in {"idle", "closed"} => t \notin open

(* What aMule is told is what was meant, and no line to it is left open. *)
EcHolds == EcTypeOK /\ DeletedIsGone /\ IndexIsName /\ SocketsClosed
=============================================================================
