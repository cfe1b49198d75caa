--------------------------- MODULE ConsoleProofs ----------------------------
(***************************************************************************)
(* What the pages' requests promise, for any releases, searches, clients,  *)
(* editors and settings, and for any number of them at once.               *)
(***************************************************************************)
EXTENDS Grab, SourceSearch, RateLimit, IndexerRegistry, Settings, SequenceTheorems, FiniteSetTheorems, TLAPS

-----------------------------------------------------------------------------
(* The grabs. What a job downloaded is in the registry, is about to be, or was lost to a
   store that was down. *)
GrabTypes ==
  /\ has \in [Releases -> {"absent", "none", "watched", "flow"}]
  /\ wanted \in [Releases -> Places]
  /\ registry \in Seq(OwnGrabs) /\ Len(registry) <= MaxRows
  /\ batch \in [Grabs -> {<<>>} \cup Batches]
  /\ todo \in [Grabs -> Seq(Releases)] /\ place \in [Grabs -> Places]
  /\ step \in [Grabs -> {"free", "dispatch", "record", "over"}]
  /\ serial \in [Grabs -> Nat]
  /\ downloaded \in [Grabs -> SUBSET Releases] /\ unstored \in [Grabs -> SUBSET Releases]
  /\ status \in [Grabs -> {"none", "running", "done", "error"}]
  /\ mishaps \in 0..MaxMishaps

(* The row that a single grab of r to p writes. *)
Traces(o, r, p) == /\ o.row = r /\ o.place = p
                   /\ o.name = IdentityOf(r, TitleOf[r]).name /\ o.hash = IdentityOf(r, TitleOf[r]).hash
Traced(rows, r, p) == \E i \in 1..Len(rows) : Traces(rows[i], r, p)

(* What a grab is at: the one row of a single grab is downloaded before it is to be
   recorded, and has its row of the registry afterwards. *)
JobInv(g) ==
  /\ status[g] = "running" <=> step[g] \in {"dispatch", "record"}
  /\ status[g] = "running" => todo[g] # <<>>
  /\ status[g] = "none" => downloaded[g] = {} /\ unstored[g] = {}
  /\ \A r \in downloaded[g] : Shape[r] # "other"
  /\ batch[g] = <<>> /\ status[g] = "running" => Len(todo[g]) = 1
  /\ batch[g] = <<>> /\ step[g] = "dispatch" => downloaded[g] = {}
  /\ batch[g] = <<>> /\ step[g] = "record" => downloaded[g] = {Head(todo[g])}
  /\ batch[g] = <<>> /\ step[g] = "over" /\ ~slid =>
       \A r \in downloaded[g] \ unstored[g] : Traced(registry, r, place[g])

GrabInv == GrabTypes /\ FolderIsNotWatched /\ \A g \in Grabs : JobInv(g)

-----------------------------------------------------------------------------
(* Rows are only added, until the oldest goes. *)
LEMMA Recording ==
  ASSUME GrabTypes, NEW o \in OwnGrabs, registry' = Recorded(registry, o),
         ~slid' => ~slid /\ Len(registry) # MaxRows
  PROVE  /\ registry' \in Seq(OwnGrabs) /\ Len(registry') <= MaxRows
         /\ ~slid' => /\ ~slid
                      /\ \A r, p : Traced(registry, r, p) => Traced(registry', r, p)
                      /\ \A r, p : Traces(o, r, p) => Traced(registry', r, p)
<1> USE GrabAssumption
<1>1. registry \in Seq(OwnGrabs) /\ Len(registry) \in Nat /\ Len(registry) <= MaxRows
  BY LenProperties DEF GrabTypes
<1>2. CASE Len(registry) < MaxRows
  <2>1. registry' = Append(registry, o)
    BY <1>2 DEF Recorded
  <2>2. /\ registry' \in Seq(OwnGrabs) /\ Len(registry') = Len(registry) + 1
        /\ \A i \in 1..Len(registry) : registry'[i] = registry[i]
        /\ registry'[Len(registry) + 1] = o
    BY <1>1, <2>1, AppendProperties
  <2>3. ASSUME NEW r, NEW p, Traced(registry, r, p) PROVE Traced(registry', r, p)
    <3>1. PICK i \in 1..Len(registry) : Traces(registry[i], r, p)
      BY <2>3 DEF Traced
    <3>2. i \in 1..Len(registry') /\ registry'[i] = registry[i]
      BY <1>1, <2>2
    <3>3. QED
      BY <3>1, <3>2 DEF Traced, Traces
  <2>4. ASSUME NEW r, NEW p, Traces(o, r, p) PROVE Traced(registry', r, p)
    <3>1. Len(registry) + 1 \in 1..Len(registry')
      BY <1>1, <2>2
    <3>2. QED
      BY <2>2, <2>4, <3>1 DEF Traced, Traces
  <2>5. Len(registry') <= MaxRows
    BY <1>1, <1>2, <2>2
  <2>6. QED
    BY <2>2, <2>3, <2>4, <2>5
<1>3. CASE ~(Len(registry) < MaxRows)
  <2>1. registry # <<>> /\ Len(registry) = MaxRows
    BY <1>1, <1>3, EmptySeq
  <2> DEFINE rest == Tail(registry)
  <2>2. rest \in Seq(OwnGrabs) /\ Len(rest) = Len(registry) - 1
    BY <1>1, <2>1, HeadTailProperties
  <2>3. registry' = Append(rest, o)
    BY <1>3 DEF Recorded
  <2> HIDE DEF rest
  <2>4. registry' \in Seq(OwnGrabs) /\ Len(registry') = Len(rest) + 1
    BY <2>2, <2>3, AppendProperties
  <2>5. Len(registry') <= MaxRows
    BY <1>1, <2>1, <2>2, <2>4
  <2>6. QED
    BY <2>1, <2>4, <2>5
<1>4. QED
  BY <1>2, <1>3

(* The grabs that a step leaves alone. *)
Alone(o) == /\ status'[o] = status[o] /\ step'[o] = step[o] /\ todo'[o] = todo[o]
            /\ batch'[o] = batch[o] /\ place'[o] = place[o]
            /\ downloaded'[o] = downloaded[o] /\ unstored'[o] = unstored[o]
LEMMA LeftAlone ==
  ASSUME GrabInv, NEW o \in Grabs, Alone(o),
         ~slid' => ~slid /\ \A r, p : Traced(registry, r, p) => Traced(registry', r, p)
  PROVE  JobInv(o)'
BY DEF GrabInv, JobInv, Alone

(* The row that was worked at is done with: the next one, or the end of the job. *)
LEMMA RowEnds ==
  ASSUME GrabInv, NEW g \in Grabs, status[g] = "running", NEW how \in {"done", "error"}, RowOver(g, how)
  PROVE  /\ todo' \in [Grabs -> Seq(Releases)] /\ serial' \in [Grabs -> Nat]
         /\ step' \in [Grabs -> {"free", "dispatch", "record", "over"}]
         /\ status' \in [Grabs -> {"none", "running", "done", "error"}]
         /\ \A o \in Grabs \ {g} : todo'[o] = todo[o] /\ step'[o] = step[o] /\ status'[o] = status[o]
         /\ IF Len(todo[g]) > 1
              THEN todo'[g] # <<>> /\ step'[g] = "dispatch" /\ status'[g] = "running"
              ELSE step'[g] = "over" /\ status'[g] \in {"done", "error"}
<1>1. /\ GrabTypes /\ todo[g] \in Seq(Releases) /\ todo[g] # <<>>
  BY DEF GrabInv, GrabTypes, JobInv
<1> DEFINE t == todo[g]
<1>2. Tail(t) \in Seq(Releases) /\ Len(Tail(t)) = Len(t) - 1 /\ Len(t) \in Nat
  BY <1>1, HeadTailProperties, LenProperties
<1>3. todo' = [todo EXCEPT ![g] = Tail(t)]
  BY DEF RowOver
<1>4. CASE Len(t) > 1
  <2> DEFINE rest == Tail(t)
             n == Len(t)
  <2>0. Len(rest) = n - 1 /\ n \in Nat /\ n > 1
    BY <1>2, <1>4
  <2>1. rest # <<>>
    <3> HIDE DEF rest, n
    <3>1. Len(rest) # 0
      BY <2>0
    <3>2. QED
      BY <3>1, EmptySeq
  <2>2. step' = [step EXCEPT ![g] = "dispatch"] /\ serial' = serial /\ status' = status
    BY <1>4 DEF RowOver
  <2>3. QED
    BY <1>1, <1>2, <1>3, <1>4, <2>1, <2>2 DEF GrabTypes
<1>5. CASE ~(Len(t) > 1)
  <2>1. /\ step' = [step EXCEPT ![g] = "over"] /\ serial' = [serial EXCEPT ![g] = Unknown]
        /\ status' = [status EXCEPT ![g] = IF batch[g] = <<>> THEN SettledAs(g, how) ELSE "done"]
    BY <1>5 DEF RowOver
  <2>2. (IF batch[g] = <<>> THEN SettledAs(g, how) ELSE "done") \in {"done", "error"}
    BY DEF SettledAs
  <2>3. QED
    BY <1>1, <1>2, <1>3, <1>5, <2>1, <2>2 DEF GrabTypes, Unknown
<1>6. QED
  BY <1>4, <1>5

(* A client that accepts keeps the arr's category for what is to be imported. *)
LEMMA Accepting ==
  ASSUME GrabInv, NEW g \in Grabs, status[g] = "running", Accepted(g) \/ UNCHANGED <<has, wanted>>
  PROVE  /\ has' \in [Releases -> {"absent", "none", "watched", "flow"}]
         /\ wanted' \in [Releases -> Places] /\ FolderIsNotWatched'
<1> DEFINE r == Head(todo[g])
           taken(direct) == CategoryTaken(r, place[g], direct)
<1>1. /\ has \in [Releases -> {"absent", "none", "watched", "flow"}]
      /\ wanted \in [Releases -> Places] /\ FolderIsNotWatched /\ place[g] \in Places
  BY DEF GrabInv, GrabTypes
<1>2. r \in Releases
  <2>1. todo[g] \in Seq(Releases) /\ todo[g] # <<>>
    BY DEF GrabInv, GrabTypes, JobInv
  <2>2. QED
    BY <2>1, HeadTailProperties
<1>3. ASSUME NEW direct
      PROVE  taken(direct) \in {"none", "watched", "flow"} /\ (taken(direct) = "watched" => place[g] = "library")
  BY DEF CategoryTaken, CategoryFor
<1>4. CASE UNCHANGED <<has, wanted>>
  BY <1>1, <1>4 DEF FolderIsNotWatched
<1>5. CASE Accepted(g) /\ has[r] = "absent"
  <2>1. PICK direct \in EcDirect : Holds(r, taken(direct), place[g])
    BY <1>5 DEF Accepted
  <2>2. /\ has' = [has EXCEPT ![r] = taken(direct)]
        /\ wanted' = IF taken(direct) = "none" THEN wanted ELSE [wanted EXCEPT ![r] = place[g]]
    BY <1>5, <2>1 DEF Holds
  <2>3. taken(direct) \in {"none", "watched", "flow"} /\ (taken(direct) = "watched" => place[g] = "library")
    BY <1>3
  <2> HIDE DEF r, taken
  <2>4. QED
    BY <1>1, <1>2, <2>2, <2>3 DEF FolderIsNotWatched
<1>6. CASE Accepted(g) /\ has[r] # "absent"
  <2>1. UNCHANGED <<has, wanted>>
    BY <1>6 DEF Accepted, Holds
  <2>2. QED
    BY <1>4, <2>1
<1>7. QED
  BY <1>4, <1>5, <1>6

LEMMA Beginning ==
  ASSUME GrabInv, NEW g \in Grabs, NEW b \in {<<>>} \cup Batches, NEW rows \in Seq(Releases), rows # <<>>,
         b = <<>> => Len(rows) = 1, NEW p \in Places, Starts(g, b, rows, p)
  PROVE  GrabInv'
<1>1. /\ status[g] = "none"
      /\ batch' = [batch EXCEPT ![g] = b] /\ todo' = [todo EXCEPT ![g] = rows]
      /\ place' = [place EXCEPT ![g] = p] /\ step' = [step EXCEPT ![g] = "dispatch"]
      /\ status' = [status EXCEPT ![g] = "running"]
      /\ UNCHANGED <<has, wanted, registry, slid, serial, downloaded, unstored, mishaps>>
  BY DEF Starts
<1>2. GrabTypes /\ JobInv(g)
  BY DEF GrabInv
<1>3. GrabTypes' /\ FolderIsNotWatched'
  BY <1>1, <1>2 DEF GrabTypes, GrabInv, FolderIsNotWatched
<1>4. JobInv(g)'
  BY <1>1, <1>2 DEF JobInv, GrabTypes
<1>5. ASSUME NEW o \in Grabs, o # g PROVE JobInv(o)'
  <2>1. Alone(o)
    BY <1>1, <1>2, <1>5 DEF Alone, GrabTypes
  <2>2. QED
    BY <1>1, <2>1, LeftAlone
<1>6. QED
  BY <1>3, <1>4, <1>5 DEF GrabInv

(* A row that the client did not take, as far as we know. *)
LEMMA NotTaken ==
  ASSUME GrabInv, NEW g \in Grabs, DispatchRefused(g) \/ GrabRaises(g)
  PROVE  GrabInv'
<1>1. PICK how \in {"done", "error"} : RowOver(g, how)
  BY DEF DispatchRefused, GrabRaises
<1>2. /\ step[g] = "dispatch" /\ (Accepted(g) \/ UNCHANGED <<has, wanted>>)
      /\ UNCHANGED <<registry, slid, batch, place, downloaded, unstored, mishaps>>
  BY DEF DispatchRefused, GrabRaises
<1>3. GrabTypes /\ JobInv(g) /\ status[g] = "running"
  BY <1>2 DEF GrabInv, JobInv
<1>4. /\ has' \in [Releases -> {"absent", "none", "watched", "flow"}]
      /\ wanted' \in [Releases -> Places] /\ FolderIsNotWatched'
  BY <1>2, <1>3, Accepting
<1>5. /\ todo' \in [Grabs -> Seq(Releases)] /\ serial' \in [Grabs -> Nat]
      /\ step' \in [Grabs -> {"free", "dispatch", "record", "over"}]
      /\ status' \in [Grabs -> {"none", "running", "done", "error"}]
      /\ \A o \in Grabs \ {g} : todo'[o] = todo[o] /\ step'[o] = step[o] /\ status'[o] = status[o]
      /\ IF Len(todo[g]) > 1
           THEN todo'[g] # <<>> /\ step'[g] = "dispatch" /\ status'[g] = "running"
           ELSE step'[g] = "over" /\ status'[g] \in {"done", "error"}
  BY <1>1, <1>3, RowEnds
<1>6. GrabTypes'
  BY <1>2, <1>3, <1>4, <1>5 DEF GrabTypes
<1>7. JobInv(g)'
  <2>1. batch[g] = <<>> => ~(Len(todo[g]) > 1) /\ downloaded[g] = {}
    <3>1. batch[g] = <<>> => Len(todo[g]) = 1 /\ downloaded[g] = {}
      BY <1>2, <1>3, Zenon DEF JobInv
    <3>2. Len(todo[g]) = 1 => ~(Len(todo[g]) > 1)
      OBVIOUS
    <3>3. QED
      BY <3>1, <3>2
  <2>2. QED
    BY <1>2, <1>3, <1>5, <2>1 DEF JobInv
<1>8. ASSUME NEW o \in Grabs, o # g PROVE JobInv(o)'
  <2>1. Alone(o)
    BY <1>2, <1>5, <1>8 DEF Alone
  <2>2. QED
    BY <1>2, <2>1, LeftAlone
<1>9. QED
  BY <1>4, <1>6, <1>7, <1>8 DEF GrabInv

LEMMA TakenAway ==
  ASSUME GrabInv, NEW g \in Grabs, DispatchOk(g)
  PROVE  GrabInv'
<1> USE GrabAssumption
<1> DEFINE r == Head(todo[g])
<1>1. /\ step[g] = "dispatch" /\ Accepted(g)
      /\ step' = [step EXCEPT ![g] = "record"] /\ Resolved(g)
      /\ downloaded' = [downloaded EXCEPT ![g] = downloaded[g] \cup {r}]
      /\ UNCHANGED <<registry, slid, batch, todo, place, unstored, status>>
  BY DEF DispatchOk
<1>2. GrabTypes /\ JobInv(g) /\ status[g] = "running"
  BY <1>1 DEF GrabInv, JobInv
<1>3. r \in Releases
  <2>1. todo[g] \in Seq(Releases) /\ todo[g] # <<>>
    BY <1>2 DEF GrabTypes, JobInv
  <2>2. QED
    BY <2>1, HeadTailProperties
<1>4. /\ has' \in [Releases -> {"absent", "none", "watched", "flow"}]
      /\ wanted' \in [Releases -> Places] /\ FolderIsNotWatched'
  BY <1>1, <1>2, Accepting
<1>5. serial' \in [Grabs -> Nat] /\ mishaps' \in 0..MaxMishaps
  <2>1. serial \in [Grabs -> Nat] /\ mishaps \in 0..MaxMishaps /\ MaxMishaps \in Nat
    BY <1>2 DEF GrabTypes
  <2>2. CASE serial' = [serial EXCEPT ![g] = Series] /\ mishaps' = mishaps
    BY <2>1, <2>2
  <2>3. CASE mishaps < MaxMishaps /\ mishaps' = mishaps + 1 /\ serial' = serial
    BY <2>1, <2>3
  <2>4. CASE serial' = serial /\ mishaps' = mishaps
    BY <2>1, <2>4
  <2>5. QED
    BY <1>1, <2>2, <2>3, <2>4 DEF Resolved
<1>6. /\ downloaded' \in [Grabs -> SUBSET Releases] /\ downloaded'[g] = downloaded[g] \cup {r}
      /\ step' \in [Grabs -> {"free", "dispatch", "record", "over"}] /\ step'[g] = "record"
      /\ \A o \in Grabs \ {g} : downloaded'[o] = downloaded[o] /\ step'[o] = step[o]
  BY <1>1, <1>2, <1>3 DEF GrabTypes
<1>7. GrabTypes'
  BY <1>1, <1>2, <1>4, <1>5, <1>6 DEF GrabTypes
<1>8. JobInv(g)'
  <2>1. Shape[r] # "other"
    BY <1>1 DEF Accepted, Takes
  <2>2. QED
    BY <1>1, <1>2, <1>6, <2>1 DEF JobInv
<1>9. ASSUME NEW o \in Grabs, o # g PROVE JobInv(o)'
  <2>1. Alone(o)
    BY <1>1, <1>6, <1>9 DEF Alone
  <2>2. QED
    BY <1>1, <2>1, LeftAlone
<1>10. QED
  BY <1>4, <1>7, <1>8, <1>9 DEF GrabInv

LEMMA Named ==
  ASSUME GrabInv, NEW g \in Grabs, status[g] = "running"
  PROVE  /\ OwnGrab(g) \in OwnGrabs
         /\ batch[g] = <<>> => Traces(OwnGrab(g), Head(todo[g]), place[g])
<1> USE GrabAssumption
<1> DEFINE r == Head(todo[g])
<1>1. GrabTypes /\ JobInv(g)
  BY DEF GrabInv
<1>2. r \in Releases
  <2>1. todo[g] \in Seq(Releases) /\ todo[g] # <<>>
    BY <1>1 DEF GrabTypes, JobInv
  <2>2. QED
    BY <2>1, HeadTailProperties
<1>3. IdsFor(g) \in [source : {"radarr", "sonarr"}, movie : Nat, episode : Nat]
  <2>1. CASE batch[g] = <<>>
    BY <1>2, <2>1 DEF IdsFor
  <2>2. CASE batch[g] # <<>>
    <3>1. batch[g] \in Seq(Releases) /\ batch[g] # <<>>
      BY <1>1, <2>2 DEF GrabTypes
    <3>2. Head(batch[g]) \in Releases
      BY <3>1, HeadTailProperties
    <3>3. QED
      BY <2>2, <3>2 DEF IdsFor
  <2>3. QED
    BY <2>1, <2>2
<1>4. serial[g] \in Nat /\ place[g] \in Places
  BY <1>1 DEF GrabTypes
<1> DEFINE it == IdentityOf(r, Fallback(g, r))
<1>5. /\ it.name \in {Nobody} \cup {NameOf[q] : q \in Releases} \cup {TitleOf[q] : q \in Releases}
      /\ it.hash \in {NoHash} \cup Releases
  BY <1>2 DEF IdentityOf, Fallback
<1>6. OwnGrab(g) = [row |-> r, movie |-> IdsFor(g).movie, episode |-> IdsFor(g).episode,
                    series |-> serial[g], place |-> place[g], name |-> it.name, hash |-> it.hash]
  BY DEF OwnGrab
<1>7. batch[g] = <<>> => Fallback(g, r) = TitleOf[r]
  BY DEF Fallback
<1> HIDE DEF r, it
<1>8. OwnGrab(g) \in OwnGrabs
  BY <1>2, <1>3, <1>4, <1>5, <1>6 DEF OwnGrabs
<1>9. batch[g] = <<>> => Traces(OwnGrab(g), r, place[g])
  BY <1>6, <1>7 DEF Traces, it
<1>10. QED
  BY <1>8, <1>9 DEF r

LEMMA Registered ==
  ASSUME GrabInv, NEW g \in Grabs, RecordGrab(g) \/ StoreDown(g)
  PROVE  GrabInv'
<1> USE GrabAssumption
<1> DEFINE r == Head(todo[g])
<1>1. step[g] = "record" /\ RowOver(g, "done") /\ UNCHANGED <<has, wanted, batch, place, downloaded>>
  BY DEF RecordGrab, StoreDown
<1>2. GrabTypes /\ JobInv(g) /\ status[g] = "running" /\ r \in Releases
  <2>1. GrabTypes /\ JobInv(g) /\ status[g] = "running"
    BY <1>1 DEF GrabInv, JobInv
  <2>2. todo[g] \in Seq(Releases) /\ todo[g] # <<>>
    BY <2>1 DEF GrabTypes, JobInv
  <2>3. QED
    BY <2>1, <2>2, HeadTailProperties
<1>3. /\ todo' \in [Grabs -> Seq(Releases)] /\ serial' \in [Grabs -> Nat]
      /\ step' \in [Grabs -> {"free", "dispatch", "record", "over"}]
      /\ status' \in [Grabs -> {"none", "running", "done", "error"}]
      /\ \A o \in Grabs \ {g} : todo'[o] = todo[o] /\ step'[o] = step[o] /\ status'[o] = status[o]
      /\ IF Len(todo[g]) > 1
           THEN todo'[g] # <<>> /\ step'[g] = "dispatch" /\ status'[g] = "running"
           ELSE step'[g] = "over" /\ status'[g] \in {"done", "error"}
  BY <1>1, <1>2, RowEnds
<1>4. /\ registry' \in Seq(OwnGrabs) /\ Len(registry') <= MaxRows
      /\ ~slid' => ~slid /\ \A q, p : Traced(registry, q, p) => Traced(registry', q, p)
      /\ unstored' \in [Grabs -> SUBSET Releases] /\ mishaps' \in 0..MaxMishaps
      /\ \A o \in Grabs \ {g} : unstored'[o] = unstored[o]
      /\ batch[g] = <<>> /\ ~slid' => r \in unstored'[g] \/ Traced(registry', r, place[g])
  <2>1. CASE RecordGrab(g)
    <3>1. /\ registry' = Recorded(registry, OwnGrab(g)) /\ slid' = (slid \/ Len(registry) = MaxRows)
          /\ UNCHANGED <<unstored, mishaps>>
      BY <2>1 DEF RecordGrab
    <3>2. ~slid' => ~slid /\ Len(registry) # MaxRows
      BY <3>1
    <3>3. OwnGrab(g) \in OwnGrabs /\ (batch[g] = <<>> => Traces(OwnGrab(g), r, place[g]))
      BY <1>2, Named
    <3> DEFINE o == OwnGrab(g)
    <3> HIDE DEF o
    <3>4. /\ registry' \in Seq(OwnGrabs) /\ Len(registry') <= MaxRows
          /\ ~slid' => /\ ~slid
                       /\ \A q, p : Traced(registry, q, p) => Traced(registry', q, p)
                       /\ \A q, p : Traces(o, q, p) => Traced(registry', q, p)
      BY <1>2, <3>1, <3>2, <3>3, Recording DEF o
    <3>5. QED
      BY <1>2, <3>1, <3>3, <3>4 DEF GrabTypes, o
  <2>2. CASE StoreDown(g)
    <3>1. /\ mishaps < MaxMishaps /\ mishaps' = mishaps + 1
          /\ unstored' = [unstored EXCEPT ![g] = unstored[g] \cup {r}]
          /\ UNCHANGED <<registry, slid>>
      BY <2>2 DEF StoreDown
    <3> HIDE DEF r
    <3>2. unstored' \in [Grabs -> SUBSET Releases] /\ r \in unstored'[g]
          /\ \A o \in Grabs \ {g} : unstored'[o] = unstored[o]
      BY <1>2, <3>1 DEF GrabTypes
    <3>3. mishaps' \in 0..MaxMishaps /\ registry \in Seq(OwnGrabs) /\ Len(registry) <= MaxRows
      BY <1>2, <3>1 DEF GrabTypes
    <3>4. QED
      BY <3>1, <3>2, <3>3
  <2>3. QED
    BY <2>1, <2>2
<1>5. GrabTypes' /\ FolderIsNotWatched'
  BY <1>1, <1>2, <1>3, <1>4 DEF GrabTypes, GrabInv, FolderIsNotWatched
<1>6. JobInv(g)'
  <2>1. batch[g] = <<>> => ~(Len(todo[g]) > 1) /\ downloaded[g] = {r}
    <3>1. batch[g] = <<>> => Len(todo[g]) = 1 /\ downloaded[g] = {r}
      BY <1>1, <1>2, Zenon DEF JobInv
    <3>2. Len(todo[g]) = 1 => ~(Len(todo[g]) > 1)
      OBVIOUS
    <3>3. QED
      BY <3>1, <3>2
  <2> HIDE DEF r
  <2>2. batch'[g] = batch[g] /\ downloaded'[g] = downloaded[g] /\ place'[g] = place[g]
    BY <1>1
  <2>3. batch[g] = <<>> /\ ~slid' =>
          \A q \in downloaded'[g] \ unstored'[g] : Traced(registry', q, place'[g])
    BY <1>4, <2>1, <2>2
  <2>4. QED
    BY <1>2, <1>3, <2>1, <2>2, <2>3 DEF JobInv
<1>7. ASSUME NEW o \in Grabs, o # g PROVE JobInv(o)'
  <2>1. Alone(o)
    BY <1>1, <1>3, <1>4, <1>7 DEF Alone
  <2>2. QED
    BY <1>4, <2>1, LeftAlone
<1>8. QED
  BY <1>5, <1>6, <1>7 DEF GrabInv

-----------------------------------------------------------------------------
LEMMA GrabStart == GrabInit => GrabInv
<1> USE GrabAssumption DEF GrabInit
<1> SUFFICES ASSUME GrabInit PROVE GrabInv
  OBVIOUS
<1>1. <<>> \in Seq(OwnGrabs) /\ <<>> \in Seq(Releases) /\ Len(<<>>) = 0
  BY EmptySeq
<1>2. GrabTypes
  BY <1>1 DEF GrabTypes, Places, Unknown
<1>3. QED
  BY <1>2 DEF GrabInv, JobInv, FolderIsNotWatched

LEMMA GrabSteps == GrabInv /\ [GrabNext]_grabVars => GrabInv'
<1> USE GrabAssumption
<1> SUFFICES ASSUME GrabInv, [GrabNext]_grabVars PROVE GrabInv'
  OBVIOUS
<1>0. GrabTypes
  BY DEF GrabInv
<1>1. ASSUME NEW g \in Grabs, NEW p \in Places, NEW r \in Releases, StartGrab(g, r, p) PROVE GrabInv'
  <2>1. Starts(g, <<>>, <<r>>, p)
    BY <1>1 DEF StartGrab
  <2>2. <<r>> \in Seq(Releases) /\ <<r>> # <<>> /\ Len(<<r>>) = 1
    OBVIOUS
  <2>3. QED
    BY <2>1, <2>2, Beginning
<1>2. ASSUME NEW g \in Grabs, NEW p \in Places, NEW b \in Batches, StartBatch(g, b, p) PROVE GrabInv'
  <2>1. Starts(g, b, b, p) /\ b \in Seq(Releases) /\ b # <<>>
    BY <1>2 DEF StartBatch
  <2>2. QED
    BY <2>1, Beginning
<1>3. ASSUME NEW g \in Grabs, DispatchOk(g) PROVE GrabInv'
  BY <1>3, TakenAway
<1>4. ASSUME NEW g \in Grabs, DispatchRefused(g) \/ GrabRaises(g) PROVE GrabInv'
  BY <1>4, NotTaken
<1>5. ASSUME NEW g \in Grabs, RecordGrab(g) \/ StoreDown(g) PROVE GrabInv'
  BY <1>5, Registered
<1>6. CASE GrabCrash
  <2>1. <<>> \in Seq(Releases)
    BY EmptySeq
  <2>2. GrabTypes' /\ FolderIsNotWatched'
    BY <1>0, <1>6, <2>1 DEF GrabCrash, GrabTypes, GrabInv, FolderIsNotWatched, Places, Unknown
  <2>3. \A g \in Grabs : JobInv(g)'
    BY <1>6 DEF GrabCrash, JobInv
  <2>4. QED
    BY <2>2, <2>3 DEF GrabInv
<1>7. ASSUME NEW r \in Releases, ClientRemoves(r) PROVE GrabInv'
  <2>1. GrabTypes' /\ FolderIsNotWatched'
    BY <1>0, <1>7 DEF ClientRemoves, GrabTypes, GrabInv, FolderIsNotWatched, Places
  <2>2. ASSUME NEW o \in Grabs PROVE JobInv(o)'
    <3>1. Alone(o) /\ UNCHANGED <<registry, slid>>
      BY <1>7 DEF ClientRemoves, Alone
    <3>2. QED
      BY <3>1, LeftAlone
  <2>3. QED
    BY <2>1, <2>2 DEF GrabInv
<1>8. CASE UNCHANGED grabVars
  <2>1. GrabTypes' /\ FolderIsNotWatched'
    BY <1>0, <1>8 DEF grabVars, GrabTypes, GrabInv, FolderIsNotWatched
  <2>2. ASSUME NEW o \in Grabs PROVE JobInv(o)'
    <3>1. Alone(o) /\ UNCHANGED <<registry, slid>>
      BY <1>8 DEF grabVars, Alone
    <3>2. QED
      BY <3>1, LeftAlone
  <2>3. QED
    BY <2>1, <2>2 DEF GrabInv
<1>9. QED
  BY <1>1, <1>2, <1>3, <1>4, <1>5, <1>6, <1>7, <1>8 DEF GrabNext

(* The row of a grab joins it with the download while the client holds it. *)
LEMMA Joins ==
  ASSUME NEW r \in Releases, NEW p, NEW o, Traces(o, r, p), has[r] # "absent", Shape[r] # "other",
         Shape[r] \in {"hash", "http"} => TitleOf[r] = NameOf[r]
  PROVE  r \in Joined(o)
<1> USE GrabAssumption
<1>1. CASE Shape[r] = "magnet"
  BY <1>1 DEF Traces, IdentityOf, Joined
<1>2. CASE Shape[r] # "magnet"
  <2>1. o.name = NameOf[r] /\ o.hash = NoHash
    BY <1>2 DEF Traces, IdentityOf
  <2>2. QED
    BY <2>1 DEF Joined
<1>3. QED
  BY <1>1, <1>2

LEMMA MarksAreOfTheRows == MarksAgree
<1>1. ASSUME NEW i \in 1..Len(registry),
             NEW key \in {<<"movie", registry[i].movie>>, <<"episode", registry[i].episode>>,
                          <<"series", registry[i].series>>},
             key[2] # Unknown
      PROVE  Mark(key) = Newest(RowsFor(key))
  <2>1. \A j \in 1..Len(registry) :
          key \in KeysOf(registry[j]) <=>
            CASE key[1] = "movie" -> registry[j].movie = key[2]
              [] key[1] = "episode" -> registry[j].movie = Unknown /\ registry[j].episode = key[2]
              [] OTHER -> registry[j].series = key[2]
    <3>1. CASE key = <<"movie", registry[i].movie>>
      BY <1>1, <3>1 DEF KeysOf
    <3>2. CASE key = <<"episode", registry[i].episode>>
      BY <1>1, <3>2 DEF KeysOf
    <3>3. CASE key = <<"series", registry[i].series>>
      BY <1>1, <3>3 DEF KeysOf
    <3>4. QED
      BY <1>1, <3>1, <3>2, <3>3
  <2>2. {j \in 1..Len(registry) : key \in KeysOf(registry[j])} = RowsFor(key)
    BY <2>1 DEF RowsFor
  <2>3. QED
    BY <2>2 DEF Mark
<1>2. QED
  BY <1>1 DEF MarksAgree

(* What is grabbed for a folder is not the arr's, a job ends with its work, and a
   single grab that was answered ok and recorded is traced while the client holds it;
   the marks of the listing and the rows behind them agree (grab_release.py). *)
THEOREM GrabsAreTraced == GrabSpec => []GrabsHold
<1>1. GrabInit => GrabInv
  BY GrabStart
<1>2. GrabInv => GrabsHold
  <2> USE GrabAssumption
  <2> SUFFICES ASSUME GrabInv PROVE GrabsHold
    OBVIOUS
  <2>1. GrabTypeOK /\ FolderIsNotWatched /\ RunningIsWorked
    BY DEF GrabInv, GrabTypes, JobInv, GrabTypeOK, RunningIsWorked
  <2>2. ASSUME NEW g \in Grabs, NEW r \in downloaded[g] \ unstored[g],
               batch[g] = <<>>, step[g] = "over", has[r] # "absent", ~slid,
               Shape[r] \in {"hash", "http"} => TitleOf[r] = NameOf[r]
        PROVE  \E i \in 1..Len(registry) : /\ registry[i].row = r /\ registry[i].place = place[g]
                                            /\ r \in Joined(registry[i])
    <3>1. PICK i \in 1..Len(registry) : Traces(registry[i], r, place[g])
      BY <2>2 DEF GrabInv, JobInv, Traced
    <3>2. r \in Releases /\ Shape[r] # "other"
      BY DEF GrabInv, GrabTypes, JobInv
    <3>3. r \in Joined(registry[i])
      BY <2>2, <3>1, <3>2, Joins
    <3>4. QED
      BY <3>1, <3>3 DEF Traces
  <2>3. TracedOnceAdded
    BY <2>2 DEF TracedOnceAdded
  <2>4. QED
    BY <2>1, <2>3, MarksAreOfTheRows DEF GrabsHold
<1>3. QED
  BY <1>1, <1>2, GrabSteps, PTL DEF GrabSpec

-----------------------------------------------------------------------------
(* The searches of the sources. *)
(* What holds of one search: who came back was asked, a source of several rows came
   back after all of them, and as an answer when one of them was. *)
Back(s) == answered[s] \cup skipped[s]
SearchInv(s) ==
  /\ settled[s] = "none" => selected[s] = {} /\ asked[s] = {} /\ Back(s) = {}
  /\ Back(s) \subseteq selected[s] \cup asked[s] /\ answered[s] \cap skipped[s] = {}
  /\ kept[s] \subseteq answered[s]
  /\ asked[s] # {} => "torznab" \in selected[s]
  /\ asked[s] # {} /\ "torznab" \in Back(s) =>
       asked[s] \subseteq Back(s) /\ (asked[s] \cap answered[s] # {} => "torznab" \in answered[s])
  /\ Over(s) => selected[s] \cup asked[s] \subseteq Back(s)
  /\ settled[s] = "done" => answered[s] # {}
  /\ settled[s] = "error" => kept[s] = {} /\ answered[s] = {} /\ selected[s] \subseteq skipped[s]

SearchTypes ==
  /\ enabled \subseteq Indexers /\ changes \in 0..MaxRegistry
  /\ selected \in [Searches -> SUBSET Sources] /\ filter \in [Searches -> SUBSET Indexers]
  /\ asked \in [Searches -> SUBSET Indexers]
  /\ answered \in [Searches -> SUBSET Parts] /\ skipped \in [Searches -> SUBSET Parts]
  /\ kept \in [Searches -> SUBSET Parts]
  /\ current \in Searches \cup {NoSearch}
  /\ ec \in [Searches -> {"no", "polling", "results", "over"}]
  /\ settled \in [Searches -> {"none", "running", "done", "error"}]

SearchesInv == SearchTypes /\ \A s \in Searches : SearchInv(s)

-----------------------------------------------------------------------------
(* The searches that a step does not touch. *)
Same(o) == /\ selected'[o] = selected[o] /\ asked'[o] = asked[o] /\ settled'[o] = settled[o]
           /\ answered'[o] = answered[o] /\ skipped'[o] = skipped[o] /\ kept'[o] = kept[o]

LEMMA Untouched ==
  ASSUME SearchesInv, SearchTypes', NEW s, s \in Searches, SearchInv(s)',
         \A o \in Searches \ {s} : Same(o)
  PROVE  SearchesInv'
<1>1. ASSUME NEW o \in Searches, o # s PROVE SearchInv(o)'
  BY <1>1 DEF SearchesInv, SearchInv, Same, Back, Over
<1>2. QED
  BY <1>1 DEF SearchesInv

LEMMA AllSame ==
  ASSUME SearchesInv, SearchTypes', \A o \in Searches : Same(o)
  PROVE  SearchesInv'
<1>1. ASSUME NEW o \in Searches PROVE SearchInv(o)'
  BY <1>1 DEF SearchesInv, SearchInv, Same, Back, Over
<1>2. QED
  BY <1>1 DEF SearchesInv

(* One that is waited for comes back: a source other than Torznab, a row, or Torznab
   after its rows, with an answer if one of them answered. *)
LEMMA ComesBack ==
  ASSUME SearchesInv, NEW s \in Searches, NEW part \in Parts, Waits(s, part),
         (\E relevant \in BOOLEAN : Answer(s, part, relevant)) \/ Skip(s, part),
         UNCHANGED <<enabled, changes, asked, bookVars>>,
         current' \in Searches \cup {NoSearch}, ec' \in [Searches -> {"no", "polling", "results", "over"}],
         part = "torznab" /\ asked[s] # {} =>
           /\ asked[s] \subseteq Back(s)
           /\ asked[s] \cap answered[s] # {} => part \in answered'[s]
  PROVE  SearchesInv'
<1> USE SearchAssumption
<1>1. /\ SearchTypes /\ SearchInv(s) /\ settled[s] = "running"
      /\ part \in selected[s] \cup asked[s] /\ part \notin Back(s)
  BY DEF SearchesInv, Waits, Back
<1>2. UNCHANGED <<enabled, changes, asked, selected, filter, settled>>
  BY DEF bookVars
<1>3. CASE \E relevant \in BOOLEAN : Answer(s, part, relevant)
  <2>1. /\ answered'[s] = answered[s] \cup {part} /\ skipped' = skipped
        /\ kept'[s] \in {kept[s], kept[s] \cup {part}}
        /\ answered' \in [Searches -> SUBSET Parts] /\ kept' \in [Searches -> SUBSET Parts]
        /\ \A o \in Searches \ {s} : answered'[o] = answered[o] /\ kept'[o] = kept[o]
    BY <1>1, <1>3 DEF Answer, SearchTypes
  <2>2. SearchTypes'
    BY <1>1, <1>2, <2>1 DEF SearchTypes
  <2>3. SearchInv(s)'
    <3>1. Back(s)' = Back(s) \cup {part} /\ asked'[s] = asked[s] /\ selected'[s] = selected[s]
          /\ settled'[s] = "running" /\ skipped'[s] = skipped[s]
      BY <1>1, <1>2, <2>1 DEF Back
    <3>2. answered'[s] \cap skipped'[s] = {} /\ kept'[s] \subseteq answered'[s]
      BY <1>1, <2>1, <3>1 DEF SearchInv, Back
    <3>3. ASSUME asked[s] # {}, "torznab" \in Back(s)'
          PROVE  asked[s] \subseteq Back(s)' /\ (asked[s] \cap answered'[s] # {} => "torznab" \in answered'[s])
      <4>1. CASE part = "torznab"
        BY <2>1, <3>1, <3>3, <4>1
      <4>2. CASE part # "torznab"
        <5>1. asked[s] \subseteq Back(s) /\ part \notin asked[s]
          BY <1>1, <3>1, <3>3, <4>2 DEF SearchInv
        <5>2. QED
          BY <1>1, <2>1, <3>1, <3>3, <4>2, <5>1 DEF SearchInv
      <4>3. QED
        BY <4>1, <4>2
    <3>4. Back(s)' \subseteq selected'[s] \cup asked'[s] /\ (asked'[s] # {} => "torznab" \in selected'[s])
      BY <1>1, <3>1 DEF SearchInv
    <3>5. QED
      BY <3>1, <3>2, <3>3, <3>4 DEF SearchInv, Over
  <2>4. \A o \in Searches \ {s} : Same(o)
    BY <1>2, <2>1 DEF Same
  <2>5. QED
    BY <2>2, <2>3, <2>4, Untouched
<1>4. CASE Skip(s, part)
  <2>1. /\ skipped'[s] = skipped[s] \cup {part} /\ answered' = answered /\ kept' = kept
        /\ skipped' \in [Searches -> SUBSET Parts]
        /\ \A o \in Searches \ {s} : skipped'[o] = skipped[o]
    BY <1>1, <1>4 DEF Skip, SearchTypes
  <2>2. SearchTypes'
    BY <1>1, <1>2, <2>1 DEF SearchTypes
  <2>3. SearchInv(s)'
    <3>1. Back(s)' = Back(s) \cup {part} /\ asked'[s] = asked[s] /\ selected'[s] = selected[s]
          /\ settled'[s] = "running" /\ answered'[s] = answered[s] /\ kept'[s] = kept[s]
      BY <1>1, <1>2, <2>1 DEF Back
    <3>2. answered'[s] \cap skipped'[s] = {}
      BY <1>1, <2>1, <3>1 DEF SearchInv, Back
    <3>3. ASSUME asked[s] # {}, "torznab" \in Back(s)'
          PROVE  asked[s] \subseteq Back(s)' /\ (asked[s] \cap answered'[s] # {} => "torznab" \in answered'[s])
      <4>1. CASE part = "torznab"
        BY <2>1, <3>1, <3>3, <4>1
      <4>2. CASE part # "torznab"
        BY <1>1, <3>1, <3>3, <4>2 DEF SearchInv
      <4>3. QED
        BY <4>1, <4>2
    <3>4. Back(s)' \subseteq selected'[s] \cup asked'[s] /\ (asked'[s] # {} => "torznab" \in selected'[s])
      BY <1>1, <3>1 DEF SearchInv
    <3>5. kept'[s] \subseteq answered'[s]
      BY <1>1, <3>1 DEF SearchInv
    <3>6. QED
      BY <3>1, <3>2, <3>3, <3>4, <3>5 DEF SearchInv, Over
  <2>4. \A o \in Searches \ {s} : Same(o)
    BY <1>2, <2>1 DEF Same
  <2>5. QED
    BY <2>2, <2>3, <2>4, Untouched
<1>5. QED
  BY <1>3, <1>4

LEMMA Reading == ASSUME SearchesInv, NEW s \in Searches, ReadRegistry(s) PROVE SearchesInv'
<1> USE SearchAssumption
<1>1. PICK rows \in {enabled \cap filter[s], {}} :
         IF rows = {} THEN Skip(s, "torznab") /\ UNCHANGED asked
         ELSE /\ asked' = [asked EXCEPT ![s] = rows]
              /\ UNCHANGED <<answered, skipped, kept>>
  BY DEF ReadRegistry
<1>2. /\ Waits(s, "torznab") /\ asked[s] = {} /\ UNCHANGED <<enabled, changes, bookVars, amuleVars>>
      /\ SearchTypes /\ SearchInv(s)
  BY DEF ReadRegistry, SearchesInv
<1>3. "torznab" \in Parts /\ UNCHANGED <<current, ec, selected, filter, settled>>
  BY <1>2 DEF Parts, Sources, amuleVars, bookVars
<1>4. CASE rows = {}
  BY <1>1, <1>2, <1>3, <1>4, ComesBack DEF SearchTypes
<1>5. CASE rows # {}
  <2>1. asked'[s] = rows /\ rows \subseteq Indexers /\ asked' \in [Searches -> SUBSET Indexers]
        /\ UNCHANGED <<answered, skipped, kept>> /\ \A o \in Searches \ {s} : asked'[o] = asked[o]
    BY <1>1, <1>2, <1>5 DEF SearchTypes
  <2>2. SearchTypes'
    BY <1>2, <1>3, <2>1 DEF SearchTypes
  <2>3. settled[s] = "running" /\ "torznab" \in selected[s] /\ "torznab" \notin Back(s)
    BY <1>2 DEF Waits, Back
  <2>4. SearchInv(s)'
    BY <1>2, <1>3, <2>1, <2>3 DEF SearchInv, Back, Over
  <2>5. \A o \in Searches \ {s} : Same(o)
    BY <1>3, <2>1 DEF Same
  <2>6. QED
    BY <2>2, <2>4, <2>5, Untouched
<1>6. QED
  BY <1>4, <1>5

LEMMA SearchesStart == SrchInit => SearchesInv
<1> USE SearchAssumption DEF SrchInit
<1> SUFFICES ASSUME SrchInit PROVE SearchesInv
  OBVIOUS
<1>1. SearchTypes
  BY DEF SearchTypes
<1>2. \A s \in Searches : SearchInv(s)
  BY DEF SearchInv, Back, Over
<1>3. QED
  BY <1>1, <1>2 DEF SearchesInv

LEMMA SearchesSteps == SearchesInv /\ [SrchNext]_srchVars => SearchesInv'
<1> USE SearchAssumption
<1> SUFFICES ASSUME SearchesInv, [SrchNext]_srchVars PROVE SearchesInv'
  OBVIOUS
<1>0. SearchTypes /\ Sources \subseteq Parts /\ Indexers \subseteq Parts
  BY DEF SearchesInv, Parts
<1>1. ASSUME NEW s \in Searches, NEW sources \in Wants[s], NEW rows \in SUBSET Indexers \ {{}},
             StartSearch(s, sources, rows)
      PROVE  SearchesInv'
  <2>1. /\ settled[s] = "none"
        /\ settled' = [settled EXCEPT ![s] = "running"]
        /\ selected' = [selected EXCEPT ![s] = sources]
        /\ filter' = [filter EXCEPT ![s] = rows]
        /\ UNCHANGED <<enabled, changes, asked, answered, skipped, kept, amuleVars>>
    BY <1>1 DEF StartSearch
  <2>2. sources \in SUBSET Sources
    OBVIOUS
  <2>3. SearchTypes'
    BY <1>0, <2>1, <2>2 DEF SearchTypes, amuleVars
  <2>4. SearchInv(s)'
    BY <1>0, <2>1 DEF SearchesInv, SearchInv, SearchTypes, Back, Over
  <2>5. \A o \in Searches \ {s} : Same(o)
    BY <1>0, <2>1 DEF Same, SearchTypes
  <2>6. QED
    BY <2>3, <2>4, <2>5, Untouched
<1>2. ASSUME NEW s \in Searches, ReadRegistry(s) PROVE SearchesInv'
  BY <1>2, Reading
<1>3. ASSUME NEW s \in Searches, TorznabOver(s) PROVE SearchesInv'
  <2>1. /\ asked[s] # {} /\ Waits(s, "torznab") /\ asked[s] \subseteq Back(s)
        /\ IF Gathered(s) THEN Answer(s, "torznab", asked[s] \cap kept[s] # {}) ELSE Skip(s, "torznab")
        /\ UNCHANGED <<enabled, changes, asked, bookVars, current, ec>>
    BY <1>3 DEF TorznabOver, Back, amuleVars
  <2>2. (\E relevant \in BOOLEAN : Answer(s, "torznab", relevant)) \/ Skip(s, "torznab")
    BY <2>1
  <2>3. asked[s] \cap answered[s] # {} => "torznab" \in answered'[s]
    BY <1>0, <2>1 DEF Gathered, Answer, SearchTypes
  <2>4. "torznab" \in Parts
    BY DEF Parts, Sources
  <2>5. QED
    BY <1>0, <2>1, <2>2, <2>3, <2>4, ComesBack DEF SearchTypes
<1>4. ASSUME NEW s \in Searches, ProwlarrAnswers(s) PROVE SearchesInv'
  <2>1. "prowlarr" \in Parts
    BY DEF Parts, Sources
  <2>2. QED
    BY <1>0, <1>4, <2>1, ComesBack DEF ProwlarrAnswers, SearchTypes, amuleVars
<1>5. ASSUME NEW s \in Searches, NEW i \in Indexers, RowAnswers(s, i) PROVE SearchesInv'
  <2>1. i # "torznab"
    BY DEF Sources
  <2>2. QED
    BY <1>0, <1>5, <2>1, ComesBack DEF RowAnswers, SearchTypes, amuleVars
<1>6. ASSUME NEW s \in Searches, EcResults(s) \/ EcFails(s) PROVE SearchesInv'
  <2>1. "amule" \in Parts
    BY DEF Parts, Sources
  <2>2. /\ Waits(s, "amule") /\ UNCHANGED <<enabled, changes, asked, bookVars>>
        /\ (\E relevant \in BOOLEAN : Answer(s, "amule", relevant)) \/ Skip(s, "amule")
        /\ current' \in {current, NoSearch} /\ ec' = [ec EXCEPT ![s] = "over"]
    <3>1. CASE EcFails(s)
      BY <3>1 DEF EcFails
    <3>2. CASE EcResults(s)
      <4>1. PICK rows \in BOOLEAN : Answer(s, "amule", rows /\ Relevant(s))
        BY <3>2 DEF EcResults
      <4>2. (rows /\ Relevant(s)) \in BOOLEAN
        OBVIOUS
      <4>3. QED
        BY <3>2, <4>1, <4>2 DEF EcResults
    <3>3. QED
      BY <1>6, <3>1, <3>2
  <2>3. QED
    BY <1>0, <2>1, <2>2, ComesBack DEF SearchTypes
<1>7. ASSUME NEW s \in Searches, EcStarts(s) \/ EcPolled(s) PROVE SearchesInv'
  <2>1. SearchTypes'
    BY <1>0, <1>7 DEF EcStarts, EcPolled, SearchTypes, bookVars
  <2>2. \A o \in Searches : Same(o)
    BY <1>7 DEF EcStarts, EcPolled, Same, bookVars
  <2>3. QED
    BY <2>1, <2>2, AllSame
<1>8. ASSUME NEW s \in Searches, SearchOver(s) PROVE SearchesInv'
  <2>1. /\ settled[s] = "running" /\ selected[s] \subseteq Back(s)
        /\ settled' = [settled EXCEPT ![s] = Verdict(s)]
        /\ UNCHANGED <<enabled, changes, selected, filter, asked, answered, skipped, kept, current, ec>>
    BY <1>8 DEF SearchOver, Complete, Back, amuleVars
  <2>2. SearchTypes' /\ settled'[s] = Verdict(s) /\ Verdict(s) \in {"done", "error"}
    BY <1>0, <2>1 DEF SearchTypes, Verdict
  <2>3. SearchInv(s)
    BY DEF SearchesInv
  <2>4. selected[s] \cup asked[s] \subseteq Back(s)
    BY <2>1, <2>3 DEF SearchInv
  <2>5. Verdict(s) = "done" => answered[s] # {}
    BY <2>3 DEF Verdict, SearchInv
  <2>6. ASSUME Verdict(s) = "error"
        PROVE  kept[s] = {} /\ answered[s] = {} /\ selected[s] \subseteq skipped[s]
    <3>1. kept[s] = {} /\ selected[s] \cap answered[s] = {}
      BY <2>6 DEF Verdict
    <3>2. asked[s] \cap answered[s] = {}
      BY <2>1, <2>3, <3>1 DEF SearchInv
    <3>3. QED
      BY <2>1, <2>3, <3>1, <3>2 DEF SearchInv, Back
  <2>7. SearchInv(s)'
    BY <2>1, <2>2, <2>3, <2>4, <2>5, <2>6 DEF SearchInv, Back, Over
  <2>8. \A o \in Searches \ {s} : Same(o)
    BY <1>0, <2>1 DEF Same, SearchTypes
  <2>9. QED
    BY <2>2, <2>7, <2>8, Untouched
<1>9. ASSUME NEW s \in Searches, SearchForgotten(s) PROVE SearchesInv'
  <2>1. SearchTypes'
    BY <1>0, <1>9 DEF SearchForgotten, SearchTypes
  <2>2. SearchInv(s)'
    BY <1>0, <1>9 DEF SearchForgotten, SearchTypes, SearchInv, Back, Over
  <2>3. \A o \in Searches \ {s} : Same(o)
    BY <1>0, <1>9 DEF SearchForgotten, Same, SearchTypes
  <2>4. QED
    BY <2>1, <2>2, <2>3, Untouched
<1>10. ASSUME NEW rows \in SUBSET Indexers, RegistryChanges(rows) PROVE SearchesInv'
  <2>1. SearchTypes'
    BY <1>0, <1>10 DEF RegistryChanges, SearchTypes, bookVars, amuleVars
  <2>2. \A o \in Searches : Same(o)
    BY <1>10 DEF RegistryChanges, Same, bookVars
  <2>3. QED
    BY <2>1, <2>2, AllSame
<1>11. CASE UNCHANGED srchVars
  <2>1. SearchTypes' /\ \A o \in Searches : Same(o)
    BY <1>0, <1>11 DEF srchVars, SearchTypes, Same
  <2>2. QED
    BY <2>1, AllSame
<1>12. QED
  BY <1>1, <1>2, <1>3, <1>4, <1>5, <1>6, <1>7, <1>8, <1>9, <1>10, <1>11 DEF SrchNext

(* A search that is over has an answer or a reason from whom it asked, and is an error
   exactly when nobody answered. *)
THEOREM AbsencesHaveReasons == SrchSpec => []SearchesAreHonest
<1>1. SrchInit => SearchesInv
  BY SearchesStart
<1>2. SearchesInv => SearchesAreHonest
  <2> SUFFICES ASSUME SearchesInv PROVE SearchesAreHonest
    OBVIOUS
  <2>1. SrchTypeOK
    BY DEF SearchesInv, SearchTypes, SearchInv, SrchTypeOK
  <2>2. QED
    BY <2>1 DEF SearchesInv, SearchInv, SearchesAreHonest, EachIsAccountedFor, EmptyIsHonest, Back, Over
<1>3. QED
  BY <1>1, <1>2, SearchesSteps, PTL DEF SrchSpec

-----------------------------------------------------------------------------
(* The budgets of a client. The arrivals that were let through are counted from the
   last: those in front of the current window came before its start, and those in front
   of a further whole budget a window earlier. *)
RateTypes ==
  /\ clock \in 0..MaxTime /\ general \in Tables /\ failures \in Tables
  /\ serving \in [Clients -> 0..MaxServing]
  /\ arrivals \in [Clients -> Seq(Nat)] /\ \A c \in Clients : Len(arrivals[c]) <= 2 * Limit + 1
  /\ due \in [Clients -> NotTold..(MaxTime + Window + 1)]
  /\ rejected \in [Clients -> Nat] /\ forgot \in BOOLEAN

(* Of a client: how many were let through in its window, and when the others were. *)
InWindow(c) == IF general[c].count < Limit THEN general[c].count ELSE Limit
Before(c, n, t) == \A i \in 1..Len(arrivals[c]) : i <= Len(arrivals[c]) - n => arrivals[c][i] <= t

(* The arrivals in front of the window of c came before it, and those in front of a
   whole budget of them before the window that came before it. A client without a
   window had one that is over. *)
SeamInv(c) ==
  /\ general[c].count = 0 => Before(c, Limit, clock - Window)
  /\ general[c].count > 0 =>
       /\ general[c].start <= clock
       /\ Before(c, InWindow(c), general[c].start)
       /\ Before(c, InWindow(c) + Limit, general[c].start - Window)
  /\ \A i \in 1..Len(arrivals[c]) : arrivals[c][i] <= clock

WaitInv(c) == due[c] # NotTold /\ general[c].count > 0 => due[c] >= general[c].start + Window

(* A rejection is a request that was let through: the two sum up to what was still
   allowed when the budget was spent. *)
FailureInv(c) ==
  /\ failures[c].count + serving[c] <= FailureLimit - 1 + MaxServing
  /\ ~forgot => /\ rejected[c] < FailureLimit + MaxServing
                /\ failures[c].count > 0 => rejected[c] <= failures[c].count

StartsPast == \A c \in Clients : general[c].start <= clock

RateInv == /\ RateTypes /\ TablesBounded /\ SeamBound /\ StartsPast
           /\ \A c \in Clients : /\ ~forgot => SeamInv(c)
                                 /\ WaitInv(c) /\ FailureInv(c)

-----------------------------------------------------------------------------
LEMMA Numbers ==
  /\ Window \in Nat /\ Window > 1 /\ Limit \in Nat /\ Limit > 0 /\ FailureLimit \in Nat /\ FailureLimit > 0
  /\ MaxKeys \in Nat /\ MaxServing \in Nat /\ MaxTime \in Nat /\ NotTold = -1
BY RateAssumption DEF RateAssumption, Window, NotTold

(* A rolled entry is of a window that is not over. *)
LEMMA Rolled ==
  ASSUME clock \in 0..MaxTime, NEW e \in [start : 0..MaxTime, count : Nat]
  PROVE  /\ Roll(e) \in [start : 0..MaxTime, count : Nat]
         /\ Roll(e).count = 0 => Roll(e).start = clock
         /\ Roll(e).count # 0 => Roll(e) = e
         /\ ~(clock - Roll(e).start >= Window)
         /\ e.count > 0 /\ ~Expired(e) => Roll(e) = e
         /\ e.count = 0 \/ Expired(e) => Roll(e).count = 0
<1> USE Numbers
<1>1. CASE e.count = 0 \/ Expired(e)
  <2>1. Roll(e) = [start |-> clock, count |-> 0]
    BY <1>1 DEF Roll
  <2>2. ~(clock - clock >= Window)
    OBVIOUS
  <2>3. QED
    BY <1>1, <2>1, <2>2
<1>2. CASE ~(e.count = 0 \/ Expired(e))
  BY <1>2 DEF Roll, Expired
<1>3. QED
  BY <1>1, <1>2

(* What a tally is after a hit of c: its entry has the hit, and the others are as they
   were or were over, unless everything went. *)
Hit(after, before, c) ==
  \/ \A o \in Clients : after[o] = Fresh
  \/ /\ after[c] = [start |-> Roll(before[c]).start, count |-> Roll(before[c]).count + 1]
     /\ \A o \in Clients \ {c} : after[o] = before[o] \/ (Expired(before[o]) /\ after[o] = Fresh)

LEMMA TrackedIsFinite ==
  ASSUME NEW tally \in Tables
  PROVE  IsFiniteSet(Tracked(tally)) /\ Cardinality(Tracked(tally)) \in Nat
<1>1. Tracked(tally) \subseteq Clients /\ IsFiniteSet(Clients)
  BY RateAssumption DEF Tracked, RateAssumption
<1>2. QED
  BY <1>1, FS_Subset, FS_CardinalityType

LEMMA Hits ==
  ASSUME clock \in 0..MaxTime, NEW tally \in Tables, NEW c \in Clients
  PROVE  /\ WindowHit(tally, c) \in Tables
         /\ Hit(WindowHit(tally, c), tally, c)
         /\ Cardinality(Tracked(WindowHit(tally, c))) <= MaxKeys
<1> USE Numbers
<1> DEFINE counted == Counted(tally, c)
           e == Roll(tally[c])
<1>1. e \in [start : 0..MaxTime, count : Nat] /\ ~(clock - e.start >= Window)
  BY Rolled DEF Tables
<1>2. counted = [tally EXCEPT ![c] = [start |-> e.start, count |-> e.count + 1]]
  <2>1. [e EXCEPT !.count = e.count + 1] = [start |-> e.start, count |-> e.count + 1]
    BY <1>1
  <2>2. counted = [tally EXCEPT ![c] = [e EXCEPT !.count = e.count + 1]]
    BY DEF Counted
  <2>3. QED
    BY <2>1, <2>2
<1> HIDE DEF counted, e
<1>3. counted \in Tables
  BY <1>1, <1>2 DEF Tables
<1>4. Fresh \in [start : 0..MaxTime, count : Nat]
  BY DEF Fresh
<1>5. Live(counted) \in Tables /\ [o \in Clients |-> Fresh] \in Tables
  BY <1>3, <1>4 DEF Live, Tables
<1>6. WindowHit(tally, c) = Prune(counted)
  BY DEF WindowHit, counted
<1>7. /\ counted[c] = [start |-> e.start, count |-> e.count + 1]
      /\ \A o \in Clients \ {c} : counted[o] = tally[o]
      /\ ~Expired(counted[c])
  BY <1>1, <1>2 DEF Tables, Expired
<1>8. CASE Cardinality(Tracked(counted)) <= MaxKeys
  <2>1. Prune(counted) = counted
    BY <1>8 DEF Prune
  <2>2. QED
    BY <1>3, <1>6, <1>7, <1>8, <2>1 DEF Hit, e
<1>9. CASE ~(Cardinality(Tracked(counted)) <= MaxKeys) /\ Cardinality(Tracked(Live(counted))) <= MaxKeys
  <2>1. Prune(counted) = Live(counted)
    BY <1>9 DEF Prune
  <2>2. Live(counted)[c] = counted[c]
    BY <1>7 DEF Live
  <2>3. \A o \in Clients \ {c} : Live(counted)[o] = tally[o] \/ (Expired(tally[o]) /\ Live(counted)[o] = Fresh)
    BY <1>7 DEF Live
  <2>4. QED
    BY <1>5, <1>6, <1>7, <1>9, <2>1, <2>2, <2>3 DEF Hit, e
<1>10. CASE ~(Cardinality(Tracked(counted)) <= MaxKeys) /\ ~(Cardinality(Tracked(Live(counted))) <= MaxKeys)
  <2>1. Prune(counted) = [o \in Clients |-> Fresh]
    BY <1>10 DEF Prune
  <2>2. Tracked([o \in Clients |-> Fresh]) = {}
    BY DEF Tracked, Fresh
  <2>3. Cardinality(Tracked([o \in Clients |-> Fresh])) = 0
    BY <2>2, FS_EmptySet
  <2>4. QED
    BY <1>5, <1>6, <2>1, <2>3 DEF Hit
<1>11. QED
  BY <1>8, <1>9, <1>10

(* Everything went only where it shows. *)
LEMMA Dropped ==
  ASSUME NEW tally, NEW c \in Clients, Tracked(tally) # {}
  PROVE  ~(\A o \in Clients : tally[o] = Fresh)
BY DEF Tracked, Fresh

LEMMA Peeks ==
  ASSUME NEW tally \in Tables, NEW c \in Clients, Cardinality(Tracked(tally)) <= MaxKeys
  PROVE  /\ Peeked(tally, c) \in Tables
         /\ \A o \in Clients \ {c} : Peeked(tally, c)[o] = tally[o]
         /\ Expired(tally[c]) => Peeked(tally, c)[c] = Fresh
         /\ ~Expired(tally[c]) => Peeked(tally, c) = tally
         /\ Cardinality(Tracked(Peeked(tally, c))) <= MaxKeys
<1> USE Numbers
<1>1. CASE Expired(tally[c])
  <2> DEFINE after == [tally EXCEPT ![c] = Fresh]
  <2>1. Peeked(tally, c) = after
    BY <1>1 DEF Peeked
  <2>2. after \in Tables /\ after[c] = Fresh /\ \A o \in Clients \ {c} : after[o] = tally[o]
    BY DEF Tables, Fresh
  <2> HIDE DEF after
  <2>3. Tracked(after) \subseteq Tracked(tally)
    BY <2>2 DEF Tracked, Fresh
  <2>4. Cardinality(Tracked(after)) <= Cardinality(Tracked(tally))
    BY <2>3, TrackedIsFinite, FS_Subset
  <2>5. Cardinality(Tracked(after)) <= MaxKeys
    BY <2>2, <2>4, TrackedIsFinite
  <2>6. QED
    BY <1>1, <2>1, <2>2, <2>5
<1>2. CASE ~Expired(tally[c])
  BY <1>2 DEF Peeked
<1>3. QED
  BY <1>1, <1>2

(* The latest arrivals, with one more. *)
LEMMA Latests ==
  ASSUME NEW a \in Seq(Nat), Len(a) <= 2 * Limit + 1, NEW t \in Nat
  PROVE  LET b == Latest(Append(a, t)) IN
         /\ b \in Seq(Nat) /\ Len(b) <= 2 * Limit + 1 /\ Len(b) > 0 /\ b[Len(b)] = t
         /\ \/ Len(b) = Len(a) + 1 /\ \A i \in 1..Len(a) : b[i] = a[i]
            \/ /\ Len(a) = 2 * Limit + 1 /\ Len(b) = 2 * Limit + 1
               /\ \A i \in 1..(2 * Limit) : b[i] = a[i + 1]
<1> USE Numbers
<1> DEFINE more == Append(a, t)
<1>1. /\ more \in Seq(Nat) /\ Len(more) = Len(a) + 1 /\ Len(a) \in Nat
      /\ \A i \in 1..Len(a) : more[i] = a[i]
      /\ more[Len(a) + 1] = t
  BY AppendProperties, LenProperties
<1> HIDE DEF more
<1>2. CASE Len(more) > 2 * Limit + 1
  <2> DEFINE b == Tail(more)
  <2>1. Len(a) = 2 * Limit + 1 /\ more # <<>>
    BY <1>1, <1>2, EmptySeq
  <2>2. b \in Seq(Nat) /\ Len(b) = Len(more) - 1 /\ \A i \in 1..Len(b) : b[i] = more[i + 1]
    BY <1>1, <2>1, HeadTailProperties
  <2>3. Latest(more) = b
    BY <1>2 DEF Latest
  <2> HIDE DEF b
  <2>4. Len(b) = 2 * Limit + 1 /\ Len(b) \in 1..Len(b)
    BY <1>1, <2>1, <2>2
  <2>5. b[Len(b)] = t
    BY <1>1, <2>1, <2>2, <2>4
  <2>6. \A i \in 1..(2 * Limit) : b[i] = a[i + 1]
    <3> TAKE i \in 1..(2 * Limit)
    <3>1. i \in 1..Len(b) /\ i + 1 \in 1..Len(a)
      BY <2>1, <2>4
    <3>2. b[i] = more[i + 1] /\ more[i + 1] = a[i + 1]
      BY <1>1, <2>2, <3>1
    <3>3. QED
      BY <3>2
  <2>7. QED
    BY <2>1, <2>2, <2>3, <2>4, <2>5, <2>6 DEF more
<1>3. CASE ~(Len(more) > 2 * Limit + 1)
  <2>1. Latest(more) = more
    BY <1>3 DEF Latest
  <2>2. Len(more) <= 2 * Limit + 1 /\ Len(more) > 0
    BY <1>1, <1>3
  <2>3. QED
    BY <1>1, <2>1, <2>2 DEF more
<1>4. QED
  BY <1>2, <1>3

-----------------------------------------------------------------------------
(* The seam: what each step does to the arrivals of a client and its window. *)

LEMMA EntryTypes ==
  ASSUME RateTypes, NEW c \in Clients
  PROVE  /\ general[c] \in [start : 0..MaxTime, count : Nat] /\ general[c].start \in Nat /\ general[c].count \in Nat
         /\ failures[c] \in [start : 0..MaxTime, count : Nat] /\ failures[c].count \in Nat
         /\ clock \in Nat /\ clock \in 0..MaxTime /\ InWindow(c) \in 0..Limit
         /\ arrivals[c] \in Seq(Nat) /\ Len(arrivals[c]) \in Nat /\ Len(arrivals[c]) <= 2 * Limit + 1
         /\ \A i \in 1..Len(arrivals[c]) : arrivals[c][i] \in Nat
<1>1. general[c] \in [start : 0..MaxTime, count : Nat] /\ failures[c] \in [start : 0..MaxTime, count : Nat]
  BY DEF RateTypes, Tables
<1>2. arrivals[c] \in Seq(Nat) /\ Len(arrivals[c]) <= 2 * Limit + 1 /\ clock \in 0..MaxTime
  BY DEF RateTypes
<1>3. Len(arrivals[c]) \in Nat /\ \A i \in 1..Len(arrivals[c]) : arrivals[c][i] \in Nat
  BY <1>2, LenProperties, ElementOfSeq
<1>4. InWindow(c) \in 0..Limit
  BY <1>1, Numbers DEF InWindow
<1>5. QED
  BY <1>1, <1>2, <1>3, <1>4, Numbers

(* A window that is over leaves whole budgets behind it. *)
LEMMA OverIsOld ==
  ASSUME RateTypes, NEW c \in Clients, SeamInv(c), general[c].count = 0 \/ Expired(general[c])
  PROVE  Before(c, Limit, clock - Window)
<1> USE Numbers
<1>1. CASE general[c].count = 0
  BY <1>1 DEF SeamInv
<1>2. CASE general[c].count # 0
  <2>1. general[c].count > 0 /\ general[c].start <= clock - Window
    BY <1>2, EntryTypes DEF Expired
  <2>2. Before(c, InWindow(c), general[c].start)
    BY <2>1 DEF SeamInv
  <2>3. ASSUME NEW i \in 1..Len(arrivals[c]), i <= Len(arrivals[c]) - Limit
        PROVE  arrivals[c][i] <= clock - Window
    <3>1. i <= Len(arrivals[c]) - InWindow(c)
      BY <2>3, EntryTypes
    <3>2. arrivals[c][i] <= general[c].start /\ arrivals[c][i] \in Nat
      BY <2>2, <3>1, EntryTypes DEF Before
    <3>3. general[c].start \in Nat /\ clock \in Nat
      BY EntryTypes
    <3>4. QED
      BY <2>1, <3>2, <3>3
  <2>4. QED
    BY <2>3 DEF Before
<1>3. QED
  BY <1>1, <1>2

(* A request that fits is in front of no arrival of its window but those counted. *)
LEMMA SeamLets ==
  ASSUME RateTypes, NEW c \in Clients, SeamInv(c), clock' = clock,
         general'[c] = [start |-> Roll(general[c]).start, count |-> Roll(general[c]).count + 1],
         Roll(general[c]).count + 1 <= Limit,
         arrivals'[c] = Latest(Append(arrivals[c], clock))
  PROVE  /\ SeamInv(c)'
         /\ Len(arrivals'[c]) > 2 * Limit => arrivals'[c][2 * Limit + 1] - arrivals'[c][1] >= Window
<1> USE Numbers
<1> DEFINE a == arrivals[c]
           b == arrivals'[c]
           s == general'[c].start
           m == general'[c].count
           e == general[c]
           r == Roll(e)
<1>0. /\ e \in [start : 0..MaxTime, count : Nat] /\ clock \in 0..MaxTime
      /\ r \in [start : 0..MaxTime, count : Nat]
      /\ r.count = 0 => r.start = clock
      /\ e.count > 0 /\ ~Expired(e) => r = e
      /\ e.count = 0 \/ Expired(e) => r.count = 0
  <2>1. e \in [start : 0..MaxTime, count : Nat] /\ clock \in 0..MaxTime
    BY EntryTypes
  <2> HIDE DEF e
  <2>2. QED
    BY <2>1, Rolled
<1>1. /\ s = r.start /\ m = r.count + 1
      /\ s \in 0..MaxTime /\ m \in Nat /\ m > 0 /\ m <= Limit
  <2>1. general'[c] = [start |-> r.start, count |-> r.count + 1] /\ r.count + 1 <= Limit
    OBVIOUS
  <2> HIDE DEF r
  <2>2. s = r.start /\ m = r.count + 1
    BY <2>1
  <2>3. QED
    BY <1>0, <2>1, <2>2
<1> HIDE DEF r
<1>2. /\ s <= clock
      /\ \A i \in 1..Len(a) : i <= Len(a) - (m - 1) => a[i] <= s
      /\ \A i \in 1..Len(a) : i <= Len(a) - (m - 1) - Limit => a[i] <= s - Window
  <2>1. CASE general[c].count = 0 \/ Expired(general[c])
    <3>1. s = clock /\ m = 1
      BY <1>0, <1>1, <2>1
    <3>2. \A i \in 1..Len(a) : i <= Len(a) - Limit => a[i] <= clock - Window
      BY <2>1, OverIsOld DEF Before
    <3>3. \A i \in 1..Len(a) : a[i] <= clock
      BY DEF SeamInv
    <3> HIDE DEF a, s, m
    <3>4. Len(a) \in Nat
      BY EntryTypes DEF a
    <3>5. \A i \in 1..Len(a) : i <= Len(a) - (m - 1) - Limit => a[i] <= s - Window
      <4> SUFFICES ASSUME NEW i \in 1..Len(a), i <= Len(a) - (m - 1) - Limit PROVE a[i] <= s - Window
        OBVIOUS
      <4>1. i <= Len(a) - Limit
        BY <3>1, <3>4
      <4>2. QED
        BY <3>1, <3>2, <4>1
    <3>6. QED
      BY <3>1, <3>3, <3>5, EntryTypes
  <2>2. CASE ~(general[c].count = 0 \/ Expired(general[c]))
    <3>1. e.count > 0 /\ s = e.start /\ m = e.count + 1
      BY <1>0, <1>1, <2>2
    <3>2. InWindow(c) = m - 1
      <4>1. e.count < Limit /\ e.count = m - 1
        BY <1>0, <1>1, <3>1
      <4>2. QED
        BY <4>1 DEF InWindow
    <3>3. /\ s <= clock /\ Before(c, InWindow(c), s) /\ Before(c, InWindow(c) + Limit, s - Window)
      BY <3>1 DEF SeamInv
    <3> HIDE DEF s, m
    <3>4. \A i \in 1..Len(a) : i <= Len(a) - (m - 1) => a[i] <= s
      BY <3>2, <3>3 DEF Before
    <3>5. \A i \in 1..Len(a) : i <= Len(a) - (m - 1) - Limit => a[i] <= s - Window
      <4> SUFFICES ASSUME NEW i \in 1..Len(a), i <= Len(a) - (m - 1) - Limit PROVE a[i] <= s - Window
        OBVIOUS
      <4>1. i <= Len(a) - (InWindow(c) + Limit)
        BY <1>1, <3>2, EntryTypes
      <4>2. QED
        BY <3>3, <4>1 DEF Before
    <3>6. QED
      BY <3>3, <3>4, <3>5
  <2>3. QED
    BY <2>1, <2>2
<1>3. /\ a \in Seq(Nat) /\ Len(a) \in Nat /\ Len(a) <= 2 * Limit + 1 /\ clock \in Nat
      /\ \A i \in 1..Len(a) : a[i] \in Nat /\ a[i] <= clock
  BY EntryTypes DEF SeamInv
<1>4. /\ b \in Seq(Nat) /\ Len(b) <= 2 * Limit + 1 /\ Len(b) > 0 /\ b[Len(b)] = clock
      /\ \/ Len(b) = Len(a) + 1 /\ \A i \in 1..Len(a) : b[i] = a[i]
         \/ /\ Len(a) = 2 * Limit + 1 /\ Len(b) = 2 * Limit + 1
            /\ \A i \in 1..(2 * Limit) : b[i] = a[i + 1]
  <2>1. b = Latest(Append(a, clock))
    OBVIOUS
  <2> HIDE DEF a, b
  <2>2. QED
    BY <1>3, <2>1, Latests
<1> HIDE DEF a, b, s, m
<1>5. Len(b) \in Nat
  BY <1>4, LenProperties
<1>6. ASSUME NEW i \in 1..Len(b)
      PROVE  /\ i <= Len(b) - m => b[i] <= s
             /\ i <= Len(b) - m - Limit => b[i] <= s - Window
             /\ b[i] <= clock
  <2>1. CASE i = Len(b)
    BY <1>1, <1>3, <1>4, <1>5, <2>1
  <2>2. CASE i # Len(b) /\ Len(b) = Len(a) + 1 /\ \A j \in 1..Len(a) : b[j] = a[j]
    <3>1. i \in 1..Len(a) /\ b[i] = a[i]
      BY <1>3, <1>5, <2>2
    <3>2. /\ i <= Len(b) - m => i <= Len(a) - (m - 1)
          /\ i <= Len(b) - m - Limit => i <= Len(a) - (m - 1) - Limit
      BY <1>1, <1>3, <2>2
    <3>3. QED
      BY <1>2, <1>3, <3>1, <3>2
  <2>3. CASE /\ i # Len(b) /\ Len(a) = 2 * Limit + 1 /\ Len(b) = 2 * Limit + 1
             /\ \A j \in 1..(2 * Limit) : b[j] = a[j + 1]
    <3>1. i \in 1..(2 * Limit) /\ i + 1 \in 1..Len(a)
      BY <2>3
    <3>2. b[i] = a[i + 1]
      BY <2>3, <3>1
    <3>3. /\ i <= Len(b) - m => i + 1 <= Len(a) - (m - 1)
          /\ i <= Len(b) - m - Limit => i + 1 <= Len(a) - (m - 1) - Limit
      BY <1>1, <2>3
    <3>4. QED
      BY <1>2, <1>3, <3>1, <3>2, <3>3
  <2>4. QED
    BY <1>4, <2>1, <2>2, <2>3
<1>7. InWindow(c)' = m
  BY <1>1 DEF InWindow, m
<1>8. SeamInv(c)'
  <2>1. Before(c, InWindow(c), general[c].start)'
    BY <1>6, <1>7 DEF Before, b, s
  <2>2. Before(c, InWindow(c) + Limit, general[c].start - Window)'
    <3> SUFFICES ASSUME NEW i \in 1..Len(b), i <= Len(b) - (m + Limit) PROVE b[i] <= s - Window
      BY <1>7 DEF Before, b, s
    <3>1. i <= Len(b) - m - Limit
      BY <1>1, <1>5
    <3>2. QED
      BY <1>6, <3>1
  <2>3. general'[c].count > 0 /\ general'[c].start <= clock'
    BY <1>1, <1>2 DEF m, s
  <2>4. \A i \in 1..Len(b) : b[i] <= clock'
    BY <1>6
  <2>5. QED
    BY <1>1, <2>1, <2>2, <2>3, <2>4 DEF SeamInv, b, m
<1>9. ASSUME Len(b) > 2 * Limit
      PROVE  b[2 * Limit + 1] - b[1] >= Window
  <2>0. Len(b) = 2 * Limit + 1
    <3>1. Len(b) <= 2 * Limit + 1
      BY <1>4
    <3>2. QED
      BY <1>5, <1>9, <3>1
  <2>1. 1 \in 1..Len(b) /\ 1 <= Len(b) - m - Limit
    BY <1>1, <2>0
  <2>2. b[1] <= s - Window /\ b[1] \in Nat
    BY <1>4, <1>6, <2>1, ElementOfSeq
  <2>3. b[2 * Limit + 1] = clock
    BY <1>4, <2>0
  <2>4. QED
    BY <1>1, <1>2, <1>3, <2>2, <2>3
<1>10. QED
  BY <1>8, <1>9 DEF b

(* A client whose arrivals stay: its window stays, or was over and is gone, or has one
   request more than its budget. *)
LEMMA SeamStays ==
  ASSUME RateTypes, NEW c \in Clients, SeamInv(c), clock' = clock, arrivals'[c] = arrivals[c],
         general'[c] = general[c] \/ (Expired(general[c]) /\ general'[c] = Fresh)
  PROVE  SeamInv(c)'
<1>1. CASE general'[c] = general[c]
  BY <1>1 DEF SeamInv, Before, InWindow
<1>2. CASE Expired(general[c]) /\ general'[c] = Fresh
  <2>1. Before(c, Limit, clock - Window)
    BY <1>2, OverIsOld
  <2>2. general'[c].count = 0
    BY <1>2 DEF Fresh
  <2>3. QED
    BY <2>1, <2>2 DEF SeamInv, Before
<1>3. QED
  BY <1>1, <1>2

LEMMA SeamRefuses ==
  ASSUME RateTypes, NEW c \in Clients, SeamInv(c), clock' = clock, arrivals'[c] = arrivals[c],
         general'[c] = [start |-> Roll(general[c]).start, count |-> Roll(general[c]).count + 1],
         ~(Roll(general[c]).count + 1 <= Limit)
  PROVE  SeamInv(c)'
<1> USE Numbers
<1> DEFINE e == general[c]
           r == Roll(e)
<1>1. /\ e \in [start : 0..MaxTime, count : Nat] /\ r \in [start : 0..MaxTime, count : Nat]
      /\ r.count # 0 => r = e
  <2>1. e \in [start : 0..MaxTime, count : Nat] /\ clock \in 0..MaxTime
    BY EntryTypes
  <2> HIDE DEF e
  <2>2. QED
    BY <2>1, Rolled
<1>2. /\ general'[c] = [start |-> r.start, count |-> r.count + 1]
      /\ ~(r.count + 1 <= Limit)
  OBVIOUS
<1> HIDE DEF r
<1>3. r = e /\ e.count >= Limit
  BY <1>1, <1>2
<1>4. general'[c].start = e.start /\ general'[c].count = e.count + 1 /\ e.count > 0
  BY <1>1, <1>2, <1>3
<1>5. InWindow(c) = Limit /\ InWindow(c)' = Limit
  <2>1. ~(e.count < Limit) /\ ~(general'[c].count < Limit)
    BY <1>1, <1>3, <1>4
  <2>2. QED
    BY <2>1 DEF InWindow
<1>6. /\ e.start <= clock /\ Before(c, Limit, e.start) /\ Before(c, Limit + Limit, e.start - Window)
      /\ \A i \in 1..Len(arrivals[c]) : arrivals[c][i] <= clock
  BY <1>4, <1>5 DEF SeamInv
<1>7. Before(c, Limit, e.start)' /\ Before(c, Limit + Limit, e.start - Window)'
  BY <1>4, <1>6 DEF Before
<1>8. general'[c].count # 0
  BY <1>1, <1>4
<1> HIDE DEF e
<1>9. QED
  BY <1>4, <1>5, <1>6, <1>7, <1>8 DEF SeamInv, Before

LEMMA SeamTicks ==
  ASSUME RateTypes, NEW c \in Clients, SeamInv(c), clock' = clock + 1, arrivals' = arrivals, general' = general
  PROVE  SeamInv(c)'
<1> USE Numbers
<1>1. general[c].start \in Nat /\ clock \in Nat /\ \A i \in 1..Len(arrivals[c]) : arrivals[c][i] \in Nat
  BY EntryTypes
<1>2. general[c].count = 0 => Before(c, Limit, clock - Window)'
  BY <1>1 DEF SeamInv, Before
<1>3. general[c].count > 0 => general[c].start <= clock + 1
  BY <1>1 DEF SeamInv
<1>4. \A i \in 1..Len(arrivals[c]) : arrivals[c][i] <= clock + 1
  BY <1>1 DEF SeamInv
<1>5. QED
  BY <1>2, <1>3, <1>4 DEF SeamInv, Before, InWindow

-----------------------------------------------------------------------------
(* What a client is told to wait is what is left of its window, or more. *)
LEMMA RetryAfters ==
  ASSUME RateTypes, NEW e \in [start : 0..MaxTime, count : Nat], e.start <= clock
  PROVE  /\ clock + 2 * Wait(e) >= e.start + Window
         /\ clock + 2 * Wait(e) \in NotTold..(MaxTime + Window + 1)
<1> USE Numbers
<1> DEFINE left == Window - (clock - e.start)
           secs == (left + 1) \div 2
<1>1. clock \in 0..MaxTime /\ e.start \in 0..MaxTime
  BY DEF RateTypes
<1>2. left \in Int /\ left <= Window
  BY <1>1
<1>3. Wait(e) = IF secs < 1 THEN 1 ELSE secs
  BY DEF Wait
<1>4. clock + left = e.start + Window
  BY <1>1
<1> HIDE DEF left
<1>5. secs \in Int /\ 2 * secs >= left /\ 2 * secs <= left + 1
  BY <1>2
<1> HIDE DEF secs
<1>6. Wait(e) \in Int /\ 2 * Wait(e) >= left /\ 2 * Wait(e) <= Window + 1 /\ 2 * Wait(e) >= 2
  BY <1>2, <1>3, <1>5
<1>7. QED
  BY <1>1, <1>2, <1>4, <1>6

-----------------------------------------------------------------------------
(* The tables are asked by every request that arrives. *)
LEMMA Arriving ==
  ASSUME RateInv, NEW c \in Clients, Arrives(c)
  PROVE  /\ general' \in Tables /\ failures' \in Tables /\ TablesBounded'
         /\ Hit(general', general, c) /\ forgot' \in BOOLEAN
         /\ ~forgot' => ~forgot /\ ~(\A o \in Clients : general'[o] = Fresh)
         /\ \A o \in Clients : \/ failures'[o] = failures[o]
                               \/ o = c /\ failures'[o] = Fresh
         /\ failures'[c].count < FailureLimit /\ StartsPast'
<1> USE Numbers
<1>1. /\ clock \in 0..MaxTime /\ general \in Tables /\ failures \in Tables
      /\ Cardinality(Tracked(failures)) <= MaxKeys
  BY DEF RateInv, RateTypes, TablesBounded
<1>2. general' = WindowHit(general, c) /\ failures' = Peeked(failures, c) /\ ~Spent(failures, c)
  BY DEF Arrives
<1>3. /\ general' \in Tables /\ Hit(general', general, c) /\ Cardinality(Tracked(general')) <= MaxKeys
  BY <1>1, <1>2, Hits
<1>4. /\ failures' \in Tables /\ \A o \in Clients \ {c} : failures'[o] = failures[o]
      /\ Expired(failures[c]) => failures'[c] = Fresh
      /\ ~Expired(failures[c]) => failures' = failures
      /\ Cardinality(Tracked(failures')) <= MaxKeys
  BY <1>1, <1>2, Peeks
<1>5. failures'[c].count < FailureLimit
  <2>1. CASE Expired(failures[c])
    BY <1>4, <2>1 DEF Fresh
  <2>2. CASE ~Expired(failures[c])
    <3>1. failures[c].count \in Nat /\ ~(failures[c].count >= FailureLimit)
      BY <1>1, <1>2, <2>2 DEF Spent, Tables
    <3>2. QED
      BY <1>4, <2>2, <3>1
  <2>3. QED
    BY <2>1, <2>2
<1>6. forgot' = (forgot \/ Tracked(general') = {}) /\ forgot \in BOOLEAN
  BY DEF Arrives, RateInv, RateTypes
<1>7. ~forgot' => ~forgot /\ ~(\A o \in Clients : general'[o] = Fresh)
  <2>1. (\A o \in Clients : general'[o] = Fresh) => Tracked(general') = {}
    BY DEF Tracked, Fresh
  <2>2. QED
    BY <1>6, <2>1
<1>8. StartsPast'
  <2> SUFFICES ASSUME NEW o \in Clients PROVE general'[o].start <= clock
    BY DEF StartsPast, Arrives
  <2>1. general[o].start <= clock /\ general[c].start <= clock /\ clock \in Nat
    BY <1>1 DEF RateInv, StartsPast
  <2>2. CASE general'[o] = Fresh
    BY <2>1, <2>2 DEF Fresh
  <2>3. CASE o = c /\ general'[o] = [start |-> Roll(general[c]).start, count |-> Roll(general[c]).count + 1]
    <3> DEFINE r == Roll(general[c])
    <3>1. general[c] \in [start : 0..MaxTime, count : Nat]
      BY <1>1 DEF Tables
    <3>2. (r.count = 0 => r.start = clock) /\ (r.count # 0 => r = general[c])
      BY <1>1, <3>1, Rolled
    <3>3. general'[o].start = r.start
      BY <2>3
    <3> HIDE DEF r
    <3>4. QED
      BY <2>1, <3>2, <3>3
  <2>4. CASE general'[o] = general[o]
    BY <2>1, <2>4
  <2>5. QED
    BY <1>3, <2>2, <2>3, <2>4 DEF Hit
<1>9. QED
  BY <1>3, <1>4, <1>5, <1>6, <1>7, <1>8 DEF TablesBounded

(* Whether a request fits is what its window counts with it. *)
LEMMA Fitting ==
  ASSUME RateTypes, NEW c \in Clients
  PROVE  Fits(c) <=> Roll(general[c]).count + 1 <= Limit
<1> DEFINE r == Roll(general[c])
<1>1. general \in Tables /\ general[c] \in [start : 0..MaxTime, count : Nat] /\ clock \in 0..MaxTime
  BY EntryTypes DEF RateTypes
<1>2. r \in [start : 0..MaxTime, count : Nat]
  BY <1>1, Rolled
<1>3. Counted(general, c) = [general EXCEPT ![c] = [r EXCEPT !.count = r.count + 1]]
  BY DEF Counted
<1> HIDE DEF r
<1>4. Counted(general, c)[c].count = r.count + 1
  BY <1>1, <1>2, <1>3 DEF Tables
<1>5. QED
  BY <1>4 DEF Fits, r

(* A client that others do not touch: what it was told stays enough. *)
LEMMA WaitStays ==
  ASSUME NEW c \in Clients, WaitInv(c), due'[c] = due[c],
         general'[c] = general[c] \/ general'[c] = Fresh
  PROVE  WaitInv(c)'
BY DEF WaitInv, Fresh

LEMMA FailureStays ==
  ASSUME RateTypes, NEW c \in Clients, FailureInv(c), ~forgot' => ~forgot, rejected'[c] = rejected[c],
         serving'[c] = serving[c], failures'[c] = failures[c] \/ failures'[c] = Fresh
  PROVE  FailureInv(c)'
<1> USE Numbers
<1>1. CASE failures'[c] = failures[c]
  BY <1>1 DEF FailureInv
<1>2. CASE failures'[c] = Fresh
  <2>1. failures'[c].count = 0 /\ failures[c].count \in Nat /\ serving[c] \in Nat
    BY <1>2, EntryTypes DEF Fresh, RateTypes
  <2>2. 0 + serving[c] <= FailureLimit - 1 + MaxServing
    BY <2>1 DEF FailureInv
  <2>3. QED
    BY <2>1, <2>2 DEF FailureInv
<1>3. QED
  BY <1>1, <1>2

-----------------------------------------------------------------------------
(* A client that another one's request leaves as it was. *)
LEMMA OthersStay ==
  ASSUME RateInv, NEW c \in Clients, Arrives(c), NEW o \in Clients, o # c,
         arrivals'[o] = arrivals[o], due'[o] = due[o], serving'[o] = serving[o]
  PROVE  (~forgot' => SeamInv(o)') /\ WaitInv(o)' /\ FailureInv(o)'
<1>1. /\ RateTypes /\ WaitInv(o) /\ FailureInv(o) /\ (~forgot => SeamInv(o))
      /\ clock' = clock /\ rejected' = rejected
  BY DEF RateInv, Arrives
<1>2. /\ Hit(general', general, c) /\ (~forgot' => ~forgot /\ ~(\A q \in Clients : general'[q] = Fresh))
      /\ failures'[o] = failures[o]
  BY Arriving
<1>3. general'[o] = general[o] \/ general'[o] = Fresh
  BY <1>2 DEF Hit
<1>4. ~forgot' => general'[o] = general[o] \/ (Expired(general[o]) /\ general'[o] = Fresh)
  BY <1>2 DEF Hit
<1>5. ~forgot' => SeamInv(o)'
  BY <1>1, <1>2, <1>4, SeamStays
<1>6. WaitInv(o)'
  BY <1>1, <1>3, WaitStays
<1>7. FailureInv(o)'
  BY <1>1, <1>2, FailureStays
<1>8. QED
  BY <1>5, <1>6, <1>7

LEMMA LetStep ==
  ASSUME RateInv, NEW c \in Clients, LetThrough(c)
  PROVE  RateInv'
<1> USE Numbers
<1>1. /\ RateTypes /\ SeamBound /\ WaitInv(c) /\ FailureInv(c) /\ (~forgot => SeamInv(c))
      /\ Fits(c) /\ Arrives(c) /\ clock' = clock /\ rejected' = rejected
      /\ arrivals' = [arrivals EXCEPT ![c] = Latest(Append(arrivals[c], clock))]
      /\ due' = [due EXCEPT ![c] = NotTold]
  BY DEF RateInv, LetThrough, Arrives
<1>2. /\ general' \in Tables /\ failures' \in Tables /\ TablesBounded'
      /\ Hit(general', general, c) /\ forgot' \in BOOLEAN
      /\ ~forgot' => ~forgot /\ ~(\A o \in Clients : general'[o] = Fresh)
      /\ \A o \in Clients : \/ failures'[o] = failures[o]
                            \/ o = c /\ failures'[o] = Fresh
      /\ failures'[c].count < FailureLimit /\ StartsPast'
  BY <1>1, Arriving
<1>3. /\ serving' \in [Clients -> 0..MaxServing]
      /\ \A o \in Clients \ {c} : serving'[o] = serving[o]
  <2>1. serving \in [Clients -> 0..MaxServing]
    BY <1>1 DEF RateTypes
  <2>2. CASE serving' = serving
    BY <2>1, <2>2
  <2>3. CASE serving[c] < MaxServing /\ serving' = [serving EXCEPT ![c] = serving[c] + 1]
    BY <2>1, <2>3
  <2>4. QED
    BY <2>2, <2>3 DEF LetThrough
<1>4. /\ arrivals[c] \in Seq(Nat) /\ Len(arrivals[c]) <= 2 * Limit + 1 /\ clock \in Nat
      /\ arrivals \in [Clients -> Seq(Nat)] /\ \A o \in Clients : Len(arrivals[o]) <= 2 * Limit + 1
      /\ due \in [Clients -> NotTold..(MaxTime + Window + 1)]
  BY <1>1, EntryTypes DEF RateTypes
<1> DEFINE b == Latest(Append(arrivals[c], clock))
<1>5. b \in Seq(Nat) /\ Len(b) <= 2 * Limit + 1
  BY <1>4, Latests
<1>6. arrivals' = [arrivals EXCEPT ![c] = b]
  BY <1>1
<1> HIDE DEF b
<1>7. /\ arrivals' \in [Clients -> Seq(Nat)] /\ arrivals'[c] = b
      /\ \A o \in Clients \ {c} : arrivals'[o] = arrivals[o]
  BY <1>4, <1>5, <1>6
<1>8. \A o \in Clients : Len(arrivals'[o]) <= 2 * Limit + 1
  BY <1>4, <1>5, <1>7
<1>9. /\ due' \in [Clients -> NotTold..(MaxTime + Window + 1)] /\ due'[c] = NotTold
      /\ \A o \in Clients \ {c} : due'[o] = due[o]
  BY <1>1, <1>4
<1>10. RateTypes'
  BY <1>1, <1>2, <1>3, <1>7, <1>8, <1>9 DEF RateTypes
<1>11. ~forgot' => /\ SeamInv(c)'
                   /\ Len(arrivals'[c]) > 2 * Limit => arrivals'[c][2 * Limit + 1] - arrivals'[c][1] >= Window
  <2> SUFFICES ASSUME ~forgot'
               PROVE  /\ SeamInv(c)'
                      /\ Len(arrivals'[c]) > 2 * Limit => arrivals'[c][2 * Limit + 1] - arrivals'[c][1] >= Window
    OBVIOUS
  <2>1. general'[c] = [start |-> Roll(general[c]).start, count |-> Roll(general[c]).count + 1] /\ ~forgot
    BY <1>2 DEF Hit
  <2>2. Roll(general[c]).count + 1 <= Limit
    BY <1>1, Fitting
  <2>3. arrivals'[c] = Latest(Append(arrivals[c], clock))
    BY <1>7 DEF b
  <2>4. QED
    BY <1>1, <2>1, <2>2, <2>3, SeamLets
<1>12. WaitInv(c)'
  BY <1>9 DEF WaitInv
<1>13. FailureInv(c)'
  <2>1. failures'[c].count \in Nat /\ serving'[c] \in 0..MaxServing
    BY <1>2, <1>3 DEF Tables
  <2>2. failures'[c].count + serving'[c] <= FailureLimit - 1 + MaxServing
    BY <1>2, <2>1
  <2>3. ~forgot' => /\ rejected'[c] < FailureLimit + MaxServing
                    /\ failures'[c].count > 0 => rejected'[c] <= failures'[c].count
    <3>1. CASE failures'[c] = failures[c]
      BY <1>1, <1>2, <3>1 DEF FailureInv
    <3>2. CASE failures'[c] = Fresh
      BY <1>1, <1>2, <3>2 DEF FailureInv, Fresh
    <3>3. QED
      BY <1>2, <3>1, <3>2
  <2>4. QED
    BY <2>2, <2>3 DEF FailureInv
<1>14. ASSUME NEW o \in Clients, o # c
       PROVE  (~forgot' => SeamInv(o)') /\ WaitInv(o)' /\ FailureInv(o)'
  <2>1. arrivals'[o] = arrivals[o] /\ due'[o] = due[o] /\ serving'[o] = serving[o]
    BY <1>3, <1>7, <1>9, <1>14
  <2>2. QED
    BY <1>1, <1>14, <2>1, OthersStay
<1>15. SeamBound'
  BY <1>1, <1>2, <1>7, <1>11 DEF SeamBound
<1>16. QED
  BY <1>2, <1>10, <1>11, <1>12, <1>13, <1>14, <1>15 DEF RateInv

LEMMA RefuseStep ==
  ASSUME RateInv, NEW c \in Clients, Refuse(c)
  PROVE  RateInv'
<1> USE Numbers
<1>1. /\ RateTypes /\ SeamBound /\ WaitInv(c) /\ FailureInv(c) /\ (~forgot => SeamInv(c))
      /\ ~Fits(c) /\ Arrives(c) /\ clock' = clock /\ rejected' = rejected
      /\ arrivals' = arrivals /\ serving' = serving
      /\ due' = [due EXCEPT ![c] = clock + 2 * Wait(Roll(general[c]))]
  BY DEF RateInv, Refuse, Arrives
<1>2. /\ general' \in Tables /\ failures' \in Tables /\ TablesBounded'
      /\ Hit(general', general, c) /\ forgot' \in BOOLEAN
      /\ ~forgot' => ~forgot /\ ~(\A o \in Clients : general'[o] = Fresh)
      /\ \A o \in Clients : \/ failures'[o] = failures[o]
                            \/ o = c /\ failures'[o] = Fresh
      /\ StartsPast'
  BY <1>1, Arriving
<1> DEFINE r == Roll(general[c])
<1>3. r \in [start : 0..MaxTime, count : Nat] /\ r.start <= clock
  <2>1. /\ general[c] \in [start : 0..MaxTime, count : Nat] /\ clock \in 0..MaxTime
    BY <1>1, EntryTypes
  <2>2. r \in [start : 0..MaxTime, count : Nat] /\ (r.count = 0 => r.start = clock)
        /\ (r.count # 0 => r = general[c])
    BY <2>1, Rolled
  <2>3. r.count # 0 => r.start <= clock
    <3>1. general[c].start <= clock
      BY DEF RateInv, StartsPast
    <3>2. QED
      BY <2>2, <3>1
  <2>4. QED
    BY <2>1, <2>2, <2>3
<1>4. /\ clock + 2 * Wait(r) >= r.start + Window
      /\ clock + 2 * Wait(r) \in NotTold..(MaxTime + Window + 1)
  BY <1>1, <1>3, RetryAfters
<1> HIDE DEF r
<1>5. /\ due' \in [Clients -> NotTold..(MaxTime + Window + 1)] /\ due'[c] = clock + 2 * Wait(r)
      /\ \A o \in Clients \ {c} : due'[o] = due[o]
  <2>1. due \in [Clients -> NotTold..(MaxTime + Window + 1)] /\ due' = [due EXCEPT ![c] = clock + 2 * Wait(r)]
    BY <1>1 DEF RateTypes, r
  <2>2. QED
    BY <1>4, <2>1
<1>6. RateTypes'
  BY <1>1, <1>2, <1>5 DEF RateTypes
<1>7. general'[c] = Fresh \/ general'[c] = [start |-> r.start, count |-> r.count + 1]
  BY <1>2 DEF Hit, r
<1>8. ~(r.count + 1 <= Limit)
  BY <1>1, Fitting DEF r
<1>9. ~forgot' => SeamInv(c)'
  <2> SUFFICES ASSUME ~forgot' PROVE SeamInv(c)'
    OBVIOUS
  <2>1. general'[c] = [start |-> r.start, count |-> r.count + 1] /\ ~forgot
    BY <1>2 DEF Hit, r
  <2>2. arrivals'[c] = arrivals[c]
    BY <1>1
  <2>3. QED
    BY <1>1, <1>8, <2>1, <2>2, SeamRefuses DEF r
<1>10. WaitInv(c)'
  <2>1. CASE general'[c] = Fresh
    BY <2>1 DEF WaitInv, Fresh
  <2>2. CASE general'[c] = [start |-> r.start, count |-> r.count + 1]
    <3>1. due'[c] >= general'[c].start + Window
      BY <1>4, <1>5, <2>2
    <3>2. QED
      BY <3>1 DEF WaitInv
  <2>3. QED
    BY <1>7, <2>1, <2>2
<1>11. FailureInv(c)'
  <2>1. rejected'[c] = rejected[c] /\ serving'[c] = serving[c] /\ (~forgot' => ~forgot)
    BY <1>1, <1>2
  <2>2. failures'[c] = failures[c] \/ failures'[c] = Fresh
    BY <1>2
  <2>3. QED
    BY <1>1, <2>1, <2>2, FailureStays
<1>12. ASSUME NEW o \in Clients, o # c
       PROVE  (~forgot' => SeamInv(o)') /\ WaitInv(o)' /\ FailureInv(o)'
  <2>1. arrivals'[o] = arrivals[o] /\ due'[o] = due[o] /\ serving'[o] = serving[o]
    BY <1>1, <1>5, <1>12
  <2>2. QED
    BY <1>1, <1>12, <2>1, OthersStay
<1>13. SeamBound'
  BY <1>1, <1>2 DEF SeamBound
<1>14. QED
  BY <1>2, <1>6, <1>9, <1>10, <1>11, <1>12, <1>13 DEF RateInv

LEMMA RejectStep ==
  ASSUME RateInv, NEW c \in Clients, Rejected(c)
  PROVE  RateInv'
<1> USE Numbers
<1>1. /\ RateTypes /\ SeamBound /\ StartsPast /\ FailureInv(c) /\ TablesBounded
      /\ \A o \in Clients : WaitInv(o) /\ (~forgot => SeamInv(o))
      /\ serving[c] > 0 /\ serving' = [serving EXCEPT ![c] = serving[c] - 1]
      /\ failures' = WindowHit(failures, c) /\ forgot' = (forgot \/ Tracked(failures') = {})
      /\ clock' = clock /\ general' = general /\ arrivals' = arrivals /\ due' = due
  BY DEF RateInv, Rejected
<1> DEFINE r == Roll(failures[c])
<1>2. failures \in Tables /\ clock \in 0..MaxTime /\ failures[c] \in [start : 0..MaxTime, count : Nat]
  BY <1>1, EntryTypes DEF RateTypes
<1>3. /\ failures' \in Tables /\ Hit(failures', failures, c)
      /\ Cardinality(Tracked(failures')) <= MaxKeys
  BY <1>1, <1>2, Hits
<1>4. /\ r \in [start : 0..MaxTime, count : Nat] /\ (r.count # 0 => r = failures[c])
  BY <1>2, Rolled
<1>5. forgot' \in BOOLEAN /\ (~forgot' => ~forgot /\ ~(\A o \in Clients : failures'[o] = Fresh))
  <2>1. (\A o \in Clients : failures'[o] = Fresh) => Tracked(failures') = {}
    BY DEF Tracked, Fresh
  <2>2. forgot \in BOOLEAN
    BY <1>1 DEF RateTypes
  <2>3. QED
    BY <1>1, <2>1, <2>2
<1>6. /\ serving' \in [Clients -> 0..MaxServing] /\ serving'[c] = serving[c] - 1
      /\ \A o \in Clients \ {c} : serving'[o] = serving[o]
      /\ serving[c] \in 0..MaxServing
  BY <1>1 DEF RateTypes
<1>7. rejected' = [rejected EXCEPT ![c] = IF r.count = 0 THEN 1 ELSE rejected[c] + 1]
  BY DEF Rejected
<1> HIDE DEF r
<1>8. /\ rejected' \in [Clients -> Nat] /\ rejected'[c] = (IF r.count = 0 THEN 1 ELSE rejected[c] + 1)
      /\ \A o \in Clients \ {c} : rejected'[o] = rejected[o]
  <2>1. rejected \in [Clients -> Nat]
    BY <1>1 DEF RateTypes
  <2>2. (IF r.count = 0 THEN 1 ELSE rejected[c] + 1) \in Nat
    BY <2>1
  <2>3. QED
    BY <1>7, <2>1, <2>2
<1>9. RateTypes'
  BY <1>1, <1>3, <1>5, <1>6, <1>8 DEF RateTypes
<1>10. failures'[c] = Fresh \/ failures'[c] = [start |-> r.start, count |-> r.count + 1]
  BY <1>3 DEF Hit, r
<1>11. r.count + serving[c] <= FailureLimit - 1 + MaxServing
  <2>1. CASE r.count = 0
    BY <1>6, <2>1
  <2>2. CASE r.count # 0
    BY <1>1, <1>4, <2>2 DEF FailureInv
  <2>3. QED
    BY <2>1, <2>2
<1>12. FailureInv(c)'
  <2>1. r.count \in Nat /\ serving[c] \in Nat
    BY <1>4, <1>6
  <2>2. CASE failures'[c] = Fresh /\ forgot'
    <3>1. failures'[c].count = 0
      BY <2>2 DEF Fresh
    <3>2. failures'[c].count + serving'[c] <= FailureLimit - 1 + MaxServing
      BY <1>6, <1>11, <2>1, <3>1
    <3>3. QED
      BY <2>2, <3>2 DEF FailureInv
  <2>3. CASE failures'[c] = [start |-> r.start, count |-> r.count + 1]
    <3>1. failures'[c].count = r.count + 1
      BY <2>3
    <3>2. failures'[c].count + serving'[c] <= FailureLimit - 1 + MaxServing
      BY <1>6, <1>11, <2>1, <3>1
    <3>3. ~forgot' => rejected'[c] <= failures'[c].count
      <4>1. CASE r.count = 0
        BY <1>8, <3>1, <4>1
      <4>2. CASE r.count # 0
        <5>1. ~forgot' => rejected[c] <= r.count
          BY <1>1, <1>4, <1>5, <2>1, <4>2 DEF FailureInv
        <5>2. rejected[c] \in Nat
          BY <1>1 DEF RateTypes
        <5>3. QED
          BY <1>8, <2>1, <3>1, <4>2, <5>1, <5>2
      <4>3. QED
        BY <4>1, <4>2
    <3>4. ~forgot' => rejected'[c] < FailureLimit + MaxServing
      <4>1. rejected'[c] \in Nat /\ failures'[c].count \in Nat /\ serving'[c] \in Nat
        BY <1>6, <1>8, <2>1, <3>1
      <4>2. QED
        BY <3>2, <3>3, <4>1
    <3>5. QED
      BY <3>2, <3>3, <3>4 DEF FailureInv
  <2>4. failures'[c] = Fresh => forgot' \/ failures'[c] = [start |-> r.start, count |-> r.count + 1]
    BY <1>3, <1>5 DEF Hit, r
  <2>5. QED
    BY <1>10, <2>2, <2>3, <2>4
<1>13. ASSUME NEW o \in Clients, o # c PROVE FailureInv(o)'
  <2>1. failures'[o] = failures[o] \/ failures'[o] = Fresh
    BY <1>3, <1>13 DEF Hit
  <2>2. rejected'[o] = rejected[o] /\ serving'[o] = serving[o]
    BY <1>6, <1>8, <1>13
  <2>3. FailureInv(o)
    BY DEF RateInv
  <2>4. QED
    BY <1>1, <1>5, <2>1, <2>2, <2>3, FailureStays
<1>14. ASSUME NEW o \in Clients PROVE (~forgot' => SeamInv(o)') /\ WaitInv(o)'
  <2>1. ~forgot' => SeamInv(o)'
    BY <1>1, <1>5, SeamStays
  <2>2. WaitInv(o)'
    BY <1>1, WaitStays
  <2>3. QED
    BY <2>1, <2>2
<1>15. SeamBound' /\ StartsPast'
  BY <1>1, <1>5 DEF SeamBound, StartsPast
<1>16. TablesBounded'
  BY <1>1, <1>3 DEF TablesBounded
<1>17. QED
  BY <1>9, <1>12, <1>13, <1>14, <1>15, <1>16 DEF RateInv

LEMMA TickStep ==
  ASSUME RateInv, RateTick
  PROVE  RateInv'
<1> USE Numbers
<1>1. /\ clock < MaxTime /\ clock' = clock + 1
      /\ UNCHANGED <<general, failures, serving, arrivals, due, rejected, forgot>>
      /\ RateTypes /\ clock \in 0..MaxTime
  BY DEF RateTick, RateInv, RateTypes
<1>2. RateTypes'
  <2>1. clock' \in 0..MaxTime
    BY <1>1
  <2>2. QED
    BY <1>1, <2>1 DEF RateTypes
<1>3. TablesBounded' /\ SeamBound'
  BY <1>1 DEF RateInv, TablesBounded, Tracked, SeamBound
<1>4. StartsPast'
  <2> SUFFICES ASSUME NEW o \in Clients PROVE general[o].start <= clock + 1
    BY <1>1 DEF StartsPast
  <2>1. general[o].start <= clock /\ general[o].start \in Nat
    BY <1>1, EntryTypes DEF RateInv, StartsPast
  <2>2. QED
    BY <1>1, <2>1
<1>5. ASSUME NEW o \in Clients PROVE (~forgot' => SeamInv(o)') /\ WaitInv(o)' /\ FailureInv(o)'
  <2>1. ~forgot' => SeamInv(o)'
    BY <1>1, SeamTicks DEF RateInv
  <2>2. WaitInv(o)' /\ FailureInv(o)'
    BY <1>1 DEF RateInv, WaitInv, FailureInv
  <2>3. QED
    BY <2>1, <2>2
<1>6. QED
  BY <1>2, <1>3, <1>4, <1>5 DEF RateInv

(* The two budgets let through what they say, tell the rest how long, and stay small:
   "up to 2x the limit around a boundary", Retry-After is enough, the rejected keys of
   a client stay within their budget and what was being served, MAX_KEYS holds. *)
THEOREM BudgetsAreKept == RateSpec => []BudgetsHold
<1>1. RateInit => RateInv
  <2> SUFFICES ASSUME RateInit PROVE RateInv
    OBVIOUS
  <2> USE Numbers DEF RateInit
  <2>1. Fresh \in [start : 0..MaxTime, count : Nat] /\ Fresh.count = 0 /\ Fresh.start = 0
    BY DEF Fresh
  <2>2. /\ \A c \in Clients : Len(arrivals[c]) = 0 /\ due[c] = NotTold /\ rejected[c] = 0 /\ serving[c] = 0
        /\ \A c \in Clients : general[c] = Fresh /\ failures[c] = Fresh
    BY EmptySeq
  <2>3. RateTypes
    <3>1. NotTold \in NotTold..(MaxTime + Window + 1) /\ <<>> \in Seq(Nat)
      BY EmptySeq
    <3>2. /\ due \in [Clients -> NotTold..(MaxTime + Window + 1)] /\ arrivals \in [Clients -> Seq(Nat)]
      BY <3>1
    <3>3. general \in Tables /\ failures \in Tables
      BY <2>1 DEF Tables
    <3>4. serving \in [Clients -> 0..MaxServing] /\ rejected \in [Clients -> Nat] /\ clock \in 0..MaxTime
      OBVIOUS
    <3>5. \A c \in Clients : Len(arrivals[c]) <= 2 * Limit + 1
      BY <2>2
    <3>6. QED
      BY <3>2, <3>3, <3>4, <3>5 DEF RateTypes
  <2>4. TablesBounded
    <3>1. Tracked(general) = {} /\ Tracked(failures) = {}
      BY <2>1, <2>2 DEF Tracked
    <3>2. Cardinality(Tracked(general)) = 0 /\ Cardinality(Tracked(failures)) = 0
      BY <3>1, FS_EmptySet, Zenon
    <3>3. QED
      BY <3>2 DEF TablesBounded
  <2>5. SeamBound
    BY <2>2 DEF SeamBound
  <2>6. ASSUME NEW c \in Clients PROVE SeamInv(c) /\ WaitInv(c) /\ FailureInv(c)
    BY <2>1, <2>2 DEF SeamInv, Before, WaitInv, FailureInv
  <2>7. StartsPast
    BY <2>1, <2>2 DEF StartsPast
  <2>8. QED
    BY <2>3, <2>4, <2>5, <2>6, <2>7 DEF RateInv
<1>2. RateInv /\ [RateNext]_rateVars => RateInv'
  <2> SUFFICES ASSUME RateInv, [RateNext]_rateVars PROVE RateInv'
    OBVIOUS
  <2>1. CASE UNCHANGED rateVars
    BY <2>1 DEF rateVars, RateInv, RateTypes, TablesBounded, Tracked, SeamBound, StartsPast, SeamInv,
                Before, InWindow, WaitInv, FailureInv
  <2>2. QED
    BY <2>1, LetStep, RefuseStep, RejectStep, TickStep DEF RateNext
<1>3. RateInv => BudgetsHold
  <2> SUFFICES ASSUME RateInv PROVE BudgetsHold
    OBVIOUS
  <2> USE Numbers
  <2>1. RateTypeOK
    BY DEF RateInv, RateTypes, RateTypeOK
  <2>2. WaitIsEnough
    <3> SUFFICES ASSUME NEW c \in Clients, due[c] # NotTold, clock >= due[c] PROVE Fits(c)
      BY DEF WaitIsEnough
    <3>1. /\ RateTypes /\ general[c] \in [start : 0..MaxTime, count : Nat] /\ clock \in 0..MaxTime
          /\ WaitInv(c) /\ due[c] \in Int
      <4>1. RateTypes /\ WaitInv(c)
        BY DEF RateInv
      <4>2. general[c] \in [start : 0..MaxTime, count : Nat] /\ clock \in 0..MaxTime
        BY <4>1, EntryTypes DEF RateTypes
      <4>3. due[c] \in NotTold..MaxTime + Window + 1
        BY <4>1 DEF RateTypes
      <4>4. due[c] \in Int
        BY <4>3, Numbers
      <4>5. QED
        BY <4>1, <4>2, <4>4
    <3>2. general[c].count = 0 \/ Expired(general[c])
      <4>1. CASE general[c].count > 0
        <5>1. due[c] >= general[c].start + Window
          BY <3>1, <4>1 DEF WaitInv
        <5>2. clock - general[c].start >= Window
          BY <3>1, <5>1
        <5>3. QED
          BY <5>2 DEF Expired
      <4>2. QED
        BY <3>1, <4>1
    <3>3. Roll(general[c]).count = 0
      BY <3>1, <3>2, Rolled
    <3>4. QED
      BY <3>1, <3>3, Fitting
  <2>3. FailuresBounded
    BY DEF RateInv, FailureInv, FailuresBounded
  <2>4. QED
    BY <2>1, <2>2, <2>3 DEF RateInv, BudgetsHold
<1>4. QED
  BY <1>1, <1>2, <1>3, PTL DEF RateSpec

-----------------------------------------------------------------------------
(* The registry of indexers. *)
(* Unless two requests looked for it at the same time, the name of a request that has
   looked is one that no other row has, and no other such request. *)
Checked(e) == atEdit[e] = "checked"
Completed(e) == atEdit[e] \in {"found", "checked"}
There(i) == table[i] # NoRow
NamesInv ==
  /\ \A i, j \in Ids :
       There(i) /\ There(j) /\ table[i].name = table[j].name /\ table[i].name \notin twins => i = j
  /\ \A e \in Editors, i \in Ids :
       Checked(e) /\ There(i) /\ table[i].name = edit[e].name /\ edit[e].name \notin twins => i = edit[e].id
  /\ \A e, o \in Editors :
       Checked(e) /\ Checked(o) /\ edit[e].name = edit[o].name /\ edit[e].name \notin twins => e = o

RegistryInv == /\ RegTypeOK /\ KeysSurvive /\ NamesInv
               /\ typed \in [Ids -> SUBSET (Keys \cup {NoKey})]
               /\ \A e \in Editors : Completed(e) /\ edit[e].id = NewRow => edit[e].key # Mask

LEMMA RowsAreRows == NoRow \notin Rows
BY DEF NoRow, Rows

(* The requests that are left alone hold what they held. *)
LEMMA Answered ==
  ASSUME RegTypeOK, NEW e \in Editors, Answers(e)
  PROVE  /\ edit' \in [Editors -> Edits] /\ atEdit' \in [Editors -> {"free", "found", "checked"}]
         /\ \A o \in Editors : Checked(o)' => Checked(o) /\ o # e /\ edit'[o] = edit[o]
         /\ \A o \in Editors : Completed(o)' => Completed(o) /\ edit'[o] = edit[o]
BY DEF RegTypeOK, Answers, Edits, NoEdit, Checked, Completed

(* A step that gives one row of the table a new content, under a name that no other
   row and no other request has. *)
LEMMA Rewritten ==
  ASSUME RegistryInv, NEW e \in Editors, Answers(e), Checked(e),
         NEW i \in Ids, NEW new \in Rows, new.name = edit[e].name,
         edit[e].id = i \/ (~There(i) /\ edit[e].id = NewRow),
         table' \in [Ids -> Rows \cup {NoRow}], \A j \in Ids : table'[j] = IF j = i THEN new ELSE table[j],
         i \in 1..lastId',
         lastId' \in 0..MaxId, lastId \in 0..lastId',
         typed' \in [Ids -> SUBSET (Keys \cup {NoKey})], new.key \in typed'[i],
         \A j \in Ids \ {i} : typed'[j] = typed[j],
         secret' = secret, twins' = twins, up' = up
  PROVE  RegistryInv'
<1> USE RegistryAssumption
<1>1. /\ table \in [Ids -> Rows \cup {NoRow}] /\ typed \in [Ids -> SUBSET (Keys \cup {NoKey})]
      /\ edit \in [Editors -> Edits] /\ lastId \in 0..MaxId /\ secret \in 0..MaxSecrets
      /\ \A j \in Ids : There(j) => j <= lastId
  BY DEF RegistryInv, RegTypeOK, There
<1>2. /\ edit' \in [Editors -> Edits] /\ atEdit' \in [Editors -> {"free", "found", "checked"}]
      /\ \A o \in Editors : Checked(o)' => Checked(o) /\ o # e /\ edit'[o] = edit[o]
      /\ \A o \in Editors : Completed(o)' => Completed(o) /\ edit'[o] = edit[o]
  BY Answered DEF RegistryInv
<1>3. \A j \in Ids : table'[j] = IF j = i THEN new ELSE table[j]
  OBVIOUS
<1>4. RegTypeOK'
  <2>1. table' \in [Ids -> Rows \cup {NoRow}]
    OBVIOUS
  <2>2. \A j \in Ids : table'[j] # NoRow => j <= lastId'
    BY <1>1, <1>3 DEF There, Ids
  <2>3. \A o \in Editors : atEdit'[o] \in {"found", "checked"} => edit'[o].name \in Names
    BY <1>2 DEF RegistryInv, RegTypeOK, Completed
  <2>4. QED
    <3>1. twins' \subseteq Names
      BY DEF RegistryInv, RegTypeOK
    <3>2. secret' \in 0..MaxSecrets /\ lastId' \in 0..MaxId
      BY <1>1
    <3>3. QED
      BY <1>2, <2>1, <2>2, <2>3, <3>1, <3>2 DEF RegTypeOK
<1>6. typed' \in [Ids -> SUBSET (Keys \cup {NoKey})]
  OBVIOUS
<1>7. KeysSurvive'
  <2>1. ASSUME NEW j \in Ids, table'[j] # NoRow PROVE table'[j].key \in typed'[j]
    <3>1. CASE j = i
      BY <1>1, <1>3, <2>1, <3>1 DEF RegistryInv, KeysSurvive, There
    <3>2. CASE j # i
      BY <1>1, <1>3, <2>1, <3>2 DEF RegistryInv, KeysSurvive
    <3>3. QED
      BY <3>1, <3>2
  <2>2. QED
    BY <2>1 DEF KeysSurvive, Opened
<1>8. NamesInv'
  <2>1. /\ \A j, k \in Ids :
             There(j) /\ There(k) /\ table[j].name = table[k].name /\ table[j].name \notin twins => j = k
        /\ \A o \in Editors, j \in Ids :
             Checked(o) /\ There(j) /\ table[j].name = edit[o].name /\ edit[o].name \notin twins
               => j = edit[o].id
        /\ \A o, q \in Editors :
             Checked(o) /\ Checked(q) /\ edit[o].name = edit[q].name /\ edit[o].name \notin twins => o = q
    BY DEF RegistryInv, NamesInv
  <2>2. \A j \in Ids : j # i => (There(j)' <=> There(j)) /\ table'[j] = table[j]
    BY <1>3 DEF There
  <2>3. /\ table'[i] = new
        /\ \A j \in Ids : j # i /\ There(j) => table[j].name # new.name \/ new.name \in twins
    BY <1>3, <2>1 DEF Ids, NewRow
  <2>4. \A j, k \in Ids :
          There(j)' /\ There(k)' /\ table'[j].name = table'[k].name /\ table'[j].name \notin twins => j = k
    BY <2>1, <2>2, <2>3
  <2>5. ASSUME NEW o \in Editors, NEW j \in Ids, Checked(o)', There(j)', table'[j].name = edit'[o].name,
               edit'[o].name \notin twins
        PROVE  j = edit'[o].id
    BY <1>2, <2>1, <2>2, <2>3, <2>5
  <2>6. \A o, q \in Editors :
          Checked(o)' /\ Checked(q)' /\ edit'[o].name = edit'[q].name /\ edit'[o].name \notin twins => o = q
    BY <1>2, <2>1
  <2>7. QED
    BY <2>4, <2>5, <2>6 DEF NamesInv
<1>9. \A o \in Editors : Completed(o)' /\ edit'[o].id = NewRow => edit'[o].key # Mask
  BY <1>2 DEF RegistryInv
<1>10. QED
  BY <1>4, <1>6, <1>7, <1>8, <1>9 DEF RegistryInv

(* A step that only sets requests aside. *)
LEMMA SetAside ==
  ASSUME RegistryInv, UNCHANGED <<table, lastId, typed>>, secret' \in 0..MaxSecrets, twins' = twins,
         edit' \in [Editors -> Edits], atEdit' \in [Editors -> {"free", "found", "checked"}],
         \A o \in Editors : Checked(o)' => Checked(o) /\ edit'[o] = edit[o],
         \A o \in Editors : Completed(o)' => Completed(o) /\ edit'[o] = edit[o]
  PROVE  RegistryInv'
<1>1. RegTypeOK'
  BY DEF RegistryInv, RegTypeOK, Completed
<1>2. KeysSurvive'
  BY DEF RegistryInv, KeysSurvive, Opened
<1>3. NamesInv'
  BY DEF RegistryInv, NamesInv, There
<1>4. QED
  BY <1>1, <1>2, <1>3 DEF RegistryInv

LEMMA Finding == ASSUME RegistryInv, NEW e \in Editors, NEW b \in Edits, RegFind(e, b) PROVE RegistryInv'
<1> USE RegistryAssumption
<1> DEFINE name == Effective(b)
<1>1. /\ RegTypeOK /\ atEdit[e] = "free" /\ ~Gone(b) /\ ~BadBody(b)
      /\ edit' = [edit EXCEPT ![e] = [b EXCEPT !.name = name]]
      /\ atEdit' = [atEdit EXCEPT ![e] = "found"]
      /\ UNCHANGED <<table, secret, lastId, typed, twins, up>>
  BY DEF RegistryInv, RegFind
<1>2. b.id # NewRow => b.id \in Ids /\ table[b.id] \in Rows
  BY <1>1 DEF Gone, Listed, Edits, RegTypeOK
<1>3. name \in Names /\ (b.id = NewRow => b.key # Mask)
  <2>1. b.name \in Names \cup {NoName} /\ (b.id = NewRow => b.name # NoName /\ b.key # Mask)
    BY <1>1 DEF BadBody, Edits
  <2>2. b.id # NewRow => table[b.id].name \in Names
    BY <1>2 DEF Rows
  <2>3. QED
    BY <2>1, <2>2 DEF Effective
<1> HIDE DEF name
<1>4. /\ [b EXCEPT !.name = name] \in Edits
      /\ edit'[e] = [b EXCEPT !.name = name] /\ edit'[e].name = name /\ edit'[e].id = b.id /\ edit'[e].key = b.key
      /\ \A o \in Editors : o # e => edit'[o] = edit[o] /\ atEdit'[o] = atEdit[o]
      /\ ~Checked(e)'
  BY <1>1, <1>3 DEF Edits, RegTypeOK, Checked
<1>5. RegTypeOK'
  <2>1. edit' \in [Editors -> Edits] /\ atEdit' \in [Editors -> {"free", "found", "checked"}]
    BY <1>1, <1>4 DEF RegTypeOK
  <2>2. \A o \in Editors : atEdit'[o] \in {"found", "checked"} => edit'[o].name \in Names
    BY <1>1, <1>3, <1>4 DEF RegTypeOK
  <2>3. QED
    BY <1>1, <2>1, <2>2 DEF RegTypeOK
<1>6. NamesInv'
  <2>1. \A o \in Editors : Checked(o)' => Checked(o) /\ edit'[o] = edit[o]
    BY <1>4 DEF Checked
  <2>2. /\ NamesInv /\ UNCHANGED <<table, twins>>
        /\ \A i \in Ids : There(i)' <=> There(i)
    BY <1>1 DEF RegistryInv, There
  <2>3. QED
    BY <2>1, <2>2 DEF NamesInv
<1>7. \A o \in Editors : Completed(o)' /\ edit'[o].id = NewRow => edit'[o].key # Mask
  BY <1>3, <1>4 DEF RegistryInv, Completed
<1>8. KeysSurvive'
  BY <1>1 DEF RegistryInv, KeysSurvive, Opened
<1>9. QED
  BY <1>1, <1>5, <1>6, <1>7, <1>8 DEF RegistryInv

LEMMA Checking == ASSUME RegistryInv, NEW e \in Editors, RegCheck(e) PROVE RegistryInv'
<1> USE RegistryAssumption
<1> DEFINE b == edit[e]
<1>1. /\ RegTypeOK /\ b \in Edits /\ atEdit[e] = "found" /\ UNCHANGED <<table, secret, lastId, typed, up>>
  BY DEF RegistryInv, RegTypeOK, RegCheck
<1>2. CASE Answers(e) /\ UNCHANGED twins
  BY <1>1, <1>2, Answered, SetAside DEF RegTypeOK
<1>3. CASE /\ ~Taken(b.name, b.id)
           /\ atEdit' = [atEdit EXCEPT ![e] = "checked"]
           /\ twins' = IF Overlaps(e, b.name) \/ ~up THEN twins \cup {b.name} ELSE twins
           /\ UNCHANGED edit
  <2>1. \A o \in Editors : /\ Completed(o)' <=> Completed(o)
                           /\ o # e => (Checked(o)' <=> Checked(o))
    BY <1>1, <1>3 DEF RegTypeOK, Checked, Completed
  <2>2. RegTypeOK'
    <3>1. atEdit' \in [Editors -> {"free", "found", "checked"}]
      BY <1>1, <1>3 DEF RegTypeOK
    <3>2. twins' \subseteq Names
      BY <1>1, <1>3 DEF RegTypeOK
    <3>3. QED
      BY <1>1, <1>3, <2>1, <3>1, <3>2 DEF RegTypeOK, Completed
  <2>3. NamesInv'
    <3>1. twins \subseteq twins' /\ (b.name \notin twins' => ~Overlaps(e, b.name) /\ up)
      BY <1>3
    <3>2. b.name \notin twins' => \A i \in Ids : There(i) /\ table[i].name = b.name => i = b.id
      BY <1>3, <3>1 DEF Taken, Listed, There
    <3>3. b.name \notin twins' => \A o \in Editors \ {e} : Checked(o) => edit[o].name # b.name
      BY <3>1 DEF Overlaps, Checked
    <3>4. \A o, q \in Editors :
            Checked(o)' /\ Checked(q)' /\ edit[o].name = edit[q].name /\ edit[o].name \notin twins' => o = q
      BY <2>1, <3>1, <3>3 DEF RegistryInv, NamesInv
    <3>5. \A o \in Editors, i \in Ids :
            Checked(o)' /\ There(i) /\ table[i].name = edit[o].name /\ edit[o].name \notin twins'
              => i = edit[o].id
      BY <2>1, <3>1, <3>2 DEF RegistryInv, NamesInv
    <3>6. \A i, j \in Ids :
            There(i) /\ There(j) /\ table[i].name = table[j].name /\ table[i].name \notin twins' => i = j
      BY <3>1 DEF RegistryInv, NamesInv
    <3>7. QED
      BY <1>1, <1>3, <3>4, <3>5, <3>6 DEF NamesInv, There
  <2>4. \A o \in Editors : Completed(o)' /\ edit'[o].id = NewRow => edit'[o].key # Mask
    BY <1>3, <2>1 DEF RegistryInv
  <2>5. KeysSurvive'
    BY <1>1 DEF RegistryInv, KeysSurvive, Opened
  <2>6. QED
    BY <1>1, <2>2, <2>3, <2>4, <2>5 DEF RegistryInv
<1>4. QED
  BY <1>2, <1>3 DEF RegCheck

LEMMA RegistryStart == RegInit => RegistryInv
<1> USE RegistryAssumption DEF RegInit
<1> SUFFICES ASSUME RegInit PROVE RegistryInv
  OBVIOUS
<1>1. RegTypeOK
  BY DEF RegTypeOK, Edits, NoEdit
<1>2. QED
  BY <1>1 DEF RegistryInv, KeysSurvive, NamesInv, There, Checked, Completed

LEMMA RegistrySteps == RegistryInv /\ [RegNext]_regVars => RegistryInv'
<1> USE RegistryAssumption
<1> SUFFICES ASSUME RegistryInv, [RegNext]_regVars PROVE RegistryInv'
  OBVIOUS
<1>0. RegTypeOK
  BY DEF RegistryInv
<1>1. ASSUME NEW e \in Editors, NEW b \in Edits, RegFind(e, b) PROVE RegistryInv'
  BY <1>1, Finding
<1>2. ASSUME NEW e \in Editors, RegCheck(e) PROVE RegistryInv'
  BY <1>2, Checking
<1>3. ASSUME NEW e \in Editors, RegCreate(e) PROVE RegistryInv'
  <2> DEFINE b == edit[e]
             i == lastId + 1
             new == [name |-> b.name, key |-> b.key, sealed |-> secret]
  <2>1. /\ Checked(e) /\ b.id = NewRow /\ lastId < MaxId /\ lastId' = i
        /\ table' = [table EXCEPT ![i] = new] /\ typed' = [typed EXCEPT ![i] = {new.key}]
        /\ Answers(e) /\ UNCHANGED <<secret, twins, up>>
    BY <1>3 DEF RegCreate, Checked
  <2>2. b \in Edits /\ b.name \in Names /\ b.key # Mask
    BY <1>0, <2>1 DEF RegTypeOK, Checked, Completed, RegistryInv
  <2>3. new \in Rows /\ new.name = b.name
    BY <1>0, <2>2 DEF Rows, Edits, RegTypeOK
  <2>4. i \in Ids /\ lastId \in 0..MaxId /\ ~There(i)
    BY <1>0, <2>1 DEF RegTypeOK, Ids, There
  <2> HIDE DEF i, new
  <2>5. i \in 1..lastId' /\ lastId' \in 0..MaxId /\ lastId \in 0..lastId'
    BY <2>1, <2>4 DEF Ids, i
  <2>6. /\ edit[e].id = i \/ (~There(i) /\ edit[e].id = NewRow)
        /\ new.name = edit[e].name /\ new \in Rows
        /\ table' \in [Ids -> Rows \cup {NoRow}]
        /\ \A j \in Ids : table'[j] = IF j = i THEN new ELSE table[j]
    BY <1>0, <2>1, <2>3, <2>4 DEF RegTypeOK
  <2>8. /\ typed' \in [Ids -> SUBSET (Keys \cup {NoKey})] /\ new.key \in typed'[i]
        /\ \A j \in Ids \ {i} : typed'[j] = typed[j]
    <3>1. new.key \in Keys \cup {NoKey}
      BY <2>3 DEF Rows
    <3>2. QED
      BY <2>1, <2>4, <3>1 DEF RegistryInv
  <2>7. QED
    BY <2>1, <2>4, <2>5, <2>6, <2>8, Rewritten
<1>4. ASSUME NEW e \in Editors, RegUpdate(e) PROVE RegistryInv'
  <2> DEFINE b == edit[e]
             i == b.id
             new == Write(e)
  <2>1. /\ Checked(e) /\ b.id # NewRow /\ There(b.id)
        /\ table' = [table EXCEPT ![b.id] = new]
        /\ typed' = IF Keeps(b) THEN typed ELSE [typed EXCEPT ![b.id] = {b.key}]
        /\ Answers(e) /\ UNCHANGED <<secret, lastId, twins, up>>
    BY <1>4 DEF RegUpdate, Checked, There
  <2>2. b \in Edits /\ b.name \in Names /\ b.id \in Ids /\ secret \in 0..MaxSecrets
    BY <1>0, <2>1 DEF RegTypeOK, Checked, Edits
  <2>3. table[b.id] \in Rows /\ b.id <= lastId /\ lastId \in 0..MaxId
    BY <1>0, <2>1, <2>2 DEF RegTypeOK, There
  <2>4. /\ new \in Rows /\ new.name = b.name
        /\ IF Keeps(b) THEN new.key = table[b.id].key ELSE new.key = b.key
    BY <2>2, <2>3 DEF Write, Rows, Sealed, Keeps, Edits
  <2> HIDE DEF new
  <2>5. /\ typed' \in [Ids -> SUBSET (Keys \cup {NoKey})] /\ new.key \in typed'[i]
        /\ \A j \in Ids \ {i} : typed'[j] = typed[j]
    <3>1. new.key \in Keys \cup {NoKey}
      BY <2>4 DEF Rows
    <3>2. table[i].key \in typed[i]
      BY <2>1, <2>2 DEF RegistryInv, KeysSurvive, There
    <3>3. QED
      BY <2>1, <2>2, <2>4, <3>1, <3>2 DEF RegistryInv
  <2>8. /\ table' \in [Ids -> Rows \cup {NoRow}]
        /\ \A j \in Ids : table'[j] = IF j = i THEN new ELSE table[j]
    BY <1>0, <2>1, <2>2, <2>4 DEF RegTypeOK
  <2>6. i \in 1..lastId' /\ lastId' \in 0..MaxId /\ lastId \in 0..lastId'
    BY <2>1, <2>2, <2>3 DEF Ids
  <2>9. /\ i \in Ids /\ edit[e].id = i /\ new \in Rows /\ new.name = edit[e].name /\ Checked(e)
        /\ Answers(e) /\ secret' = secret /\ twins' = twins /\ up' = up
    BY <2>1, <2>2, <2>4
  <2> HIDE DEF i
  <2>10. edit[e].id = i \/ (~There(i) /\ edit[e].id = NewRow)
    BY <2>9
  <2>7. QED
    BY <2>5, <2>6, <2>8, <2>9, <2>10, Rewritten
<1>5. ASSUME NEW e \in Editors, RegNotWritten(e) PROVE RegistryInv'
  BY <1>0, <1>5, Answered, SetAside DEF RegNotWritten, RegTypeOK
<1>6. ASSUME NEW i \in Ids, RegDelete(i) PROVE RegistryInv'
  <2>1. /\ table' = [table EXCEPT ![i] = NoRow] /\ typed' = [typed EXCEPT ![i] = {}]
        /\ UNCHANGED <<secret, lastId, edit, atEdit, twins, up>>
    BY <1>6 DEF RegDelete
  <2>2. /\ table \in [Ids -> Rows \cup {NoRow}] /\ typed \in [Ids -> SUBSET (Keys \cup {NoKey})]
    BY DEF RegistryInv, RegTypeOK
  <2>3. \A j \in Ids : There(j)' => j # i /\ There(j) /\ table'[j] = table[j] /\ typed'[j] = typed[j]
    BY <2>1, <2>2 DEF There
  <2>4. RegTypeOK'
    BY <1>0, <2>1, <2>3 DEF RegTypeOK, There
  <2>5. KeysSurvive'
    BY <2>1, <2>3 DEF RegistryInv, KeysSurvive, Opened, There
  <2>6. NamesInv'
    <3>1. \A o \in Editors : Checked(o)' <=> Checked(o)
      BY <2>1 DEF Checked
    <3>2. QED
      BY <2>1, <2>3, <3>1 DEF RegistryInv, NamesInv
  <2>7. typed' \in [Ids -> SUBSET (Keys \cup {NoKey})]
    BY <2>1, <2>2
  <2>8. QED
    BY <2>1, <2>4, <2>5, <2>6, <2>7 DEF RegistryInv, Completed
<1>7. CASE Rotate
  <2>1. /\ \A o \in Editors : ~Checked(o)' /\ ~Completed(o)'
        /\ edit' \in [Editors -> Edits] /\ atEdit' \in [Editors -> {"free", "found", "checked"}]
        /\ secret' \in 0..MaxSecrets /\ UNCHANGED <<table, lastId, typed, twins>>
    BY <1>0, <1>7 DEF Rotate, Checked, Completed, Edits, NoEdit, RegTypeOK
  <2>2. QED
    BY <2>1, SetAside
<1>8. CASE StoreToggles \/ UNCHANGED regVars
  <2>1. UNCHANGED <<table, secret, lastId, edit, atEdit, typed, twins>>
    BY <1>8 DEF StoreToggles, regVars
  <2>2. /\ \A o \in Editors : Checked(o)' => Checked(o) /\ edit'[o] = edit[o]
        /\ \A o \in Editors : Completed(o)' => Completed(o) /\ edit'[o] = edit[o]
    BY <2>1 DEF Checked, Completed
  <2>3. QED
    BY <1>0, <2>1, <2>2, SetAside DEF RegTypeOK
<1>9. QED
  BY <1>1, <1>2, <1>3, <1>4, <1>5, <1>6, <1>7, <1>8 DEF RegNext

(* An indexer keeps the key that was last typed for it, whoever saves and whatever the
   secret, and has no twin unless two requests looked for its name before either wrote,
   or one could not look (indexers.py). *)
THEOREM IndexersKeepTheirKeys == RegSpec => []RegistryHolds
<1>1. RegInit => RegistryInv
  BY RegistryStart
<1>2. RegistryInv => RegistryHolds
  BY DEF RegistryInv, NamesInv, There, RegistryHolds, NoTwins
<1>3. QED
  BY <1>1, <1>2, RegistrySteps, PTL DEF RegSpec

-----------------------------------------------------------------------------
(* The credentials in the settings. *)
(* What is true of one credential, of the credentials that cannot be read or were
   overwritten in this run, and between two runs of the program. *)
CredentialInv(f) ==
  f \notin wiped => /\ f \in unsaved \/ Kept(f) = last[f]
                    /\ started => \/ memory[f] = last[f]
                                  \/ memory[f] = Empty /\ Unreadable(fcSecret, f)

SettingsInv == /\ SetTypeOK /\ ProtectedAtRest
               /\ ~started => unsaved = {} /\ gone = wiped
               /\ started => \A f \in Fields :
                    Unreadable(fcSecret, f) \/ (f \in wiped /\ f \notin gone) => error
               /\ \A f \in Fields : CredentialInv(f)
               /\ \A p \in Pages, f \in Fields :
                    form[p].open /\ form[p].cred[f] = Masked => f \in Hidden

-----------------------------------------------------------------------------
LEMMA DocumentIsAFile == NoFile \notin Document
BY DEF NoFile, Document

(* What a save leaves: the whole of the memory, sealed, or the file that was there. *)
LEMMA Saved ==
  ASSUME SetTypeOK, NEW s \in Secrets \union {Unset}, NEW mem \in [Fields -> Typed \union {Empty}],
         NEW key \in AppKeys \union {Empty}, NEW said \in SUBSET Fields, Save(s, mem, key, said)
  PROVE  /\ file' \in Document \union {NoFile} /\ wiped' \subseteq Fields /\ unsaved' \subseteq Fields
         /\ gone' \subseteq Fields /\ failed' \in BOOLEAN
         /\ \A f \in Fields : Unreadable(s, f)' => Unreadable(s, f)
         /\ \A f \in Fields : f \in wiped' /\ f \notin gone' => (f \in wiped /\ f \notin gone) \/ Unreadable(s, f)
         /\ s # Unset /\ ~failed' =>
              /\ file'.app.how = "hash"
              /\ \A f \in Encrypted : file'.cred[f].under # Unset \/ file'.cred[f].val = Empty
         /\ \A f \in Fields : f \notin wiped' =>
              \/ /\ f \in said
                 /\ f \in unsaved' \/ Kept(f)' = mem[f]
              \/ /\ f \notin said /\ f \notin wiped
                 /\ \/ file' = file /\ unsaved' = unsaved \union said
                    \/ Kept(f)' = mem[f] /\ ~(mem[f] = Empty /\ Unreadable(s, f))
<1> USE SettingsAssumption
<1>1. CASE /\ file' = [cred |-> [f \in Fields |-> Seal(f, s, mem[f])], app |-> Hash(key)]
           /\ wiped' = (wiped \ said) \union {f \in Fields \ said : mem[f] = Empty /\ Unreadable(s, f)}
           /\ gone' = gone \ said /\ unsaved' = {}
           /\ UNCHANGED failed
  <2>1. ASSUME NEW f \in Fields
        PROVE  /\ Seal(f, s, mem[f]) \in Credential /\ Seal(f, s, mem[f]).val = mem[f]
               /\ Seal(f, s, mem[f]).under \in {s, Unset}
               /\ f \notin Encrypted => Seal(f, s, mem[f]).under = Unset
               /\ f \in Encrypted /\ mem[f] # Empty => Seal(f, s, mem[f]).under = s
    BY DEF Seal, Clear, Credential
  <2>2. file' \in Document
    <3>1. /\ [f \in Fields |-> Seal(f, s, mem[f])] \in [Fields -> Credential]
          /\ \A f \in Fields \ Encrypted : [g \in Fields |-> Seal(g, s, mem[g])][f].under = Unset
      BY <2>1
    <3>2. Hash(key) \in AppKey /\ Hash(key).how = "hash"
      BY DEF Hash, AppKey
    <3>3. QED
      BY <1>1, <3>1, <3>2 DEF Document
  <2>3. /\ file' # NoFile /\ file'.app.how = "hash"
        /\ \A f \in Fields : file'.cred[f] = Seal(f, s, mem[f])
    BY <1>1, <2>2, DocumentIsAFile DEF Hash
  <2>4. \A f \in Fields : Kept(f)' = mem[f] /\ ~Unreadable(s, f)'
    BY <2>1, <2>3 DEF Kept, Unreadable, Opens
  <2>5. Encrypted \subseteq Fields
    BY DEF Encrypted
  <2>6. QED
    BY <1>1, <2>1, <2>2, <2>3, <2>4, <2>5 DEF SetTypeOK
<1>2. CASE unsaved' = unsaved \union said /\ failed' = TRUE /\ UNCHANGED <<file, wiped, gone>>
  BY <1>2 DEF SetTypeOK, Unreadable
<1>3. QED
  BY <1>1, <1>2 DEF Save

(* A request that saves: what it gives a value has it, the rest keeps it. *)
LEMMA Requested ==
  ASSUME SettingsInv, started, NEW mem \in [Fields -> Typed \union {Empty}],
         NEW key \in AppKeys \union {Empty}, NEW said \in SUBSET Fields,
         Save(fcSecret, mem, key, said),
         memory' = mem, app' = key,
         last' = [f \in Fields |-> IF f \in said THEN mem[f] ELSE last[f]],
         \A f \in Fields \ said : \/ mem[f] = memory[f]
                                  \/ mem[f] = Empty /\ Unreadable(fcSecret, f),
         UNCHANGED <<started, fcSecret, error, form>>
  PROVE  SettingsInv'
<1> USE SettingsAssumption
<1>1. /\ SetTypeOK /\ fcSecret \in Secrets \union {Unset}
  BY DEF SettingsInv, SetTypeOK
<1>2. /\ file' \in Document \union {NoFile} /\ wiped' \subseteq Fields /\ unsaved' \subseteq Fields
      /\ gone' \subseteq Fields /\ failed' \in BOOLEAN
      /\ \A f \in Fields : Unreadable(fcSecret, f)' => Unreadable(fcSecret, f)
      /\ \A f \in Fields : f \in wiped' /\ f \notin gone' =>
           (f \in wiped /\ f \notin gone) \/ Unreadable(fcSecret, f)
      /\ fcSecret # Unset /\ ~failed' =>
           /\ file'.app.how = "hash"
           /\ \A f \in Encrypted : file'.cred[f].under # Unset \/ file'.cred[f].val = Empty
      /\ \A f \in Fields : f \notin wiped' =>
           \/ /\ f \in said
              /\ f \in unsaved' \/ Kept(f)' = mem[f]
           \/ /\ f \notin said /\ f \notin wiped
              /\ \/ file' = file /\ unsaved' = unsaved \union said
                 \/ Kept(f)' = mem[f] /\ ~(mem[f] = Empty /\ Unreadable(fcSecret, f))
  <2>1. \A f : Unreadable(fcSecret, f)' = (file' # NoFile /\ ~Opens(fcSecret, file'.cred[f]))
    BY DEF Unreadable, Opens
  <2> DEFINE s == fcSecret
  <2>2. \A f : Unreadable(s, f) = (file # NoFile /\ ~Opens(s, file.cred[f]))
    BY DEF Unreadable
  <2>3. QED
    BY <1>1, Saved, <2>1, <2>2 DEF Unreadable, Opens
<1>3. SetTypeOK'
  BY <1>1, <1>2 DEF SetTypeOK
<1>4. ProtectedAtRest'
  BY <1>2 DEF ProtectedAtRest
<1>5. \A f \in Fields : Unreadable(fcSecret, f)' \/ (f \in wiped' /\ f \notin gone') => error'
  BY <1>2 DEF SettingsInv
<1>6. ASSUME NEW f \in Fields PROVE CredentialInv(f)'
  <2> SUFFICES ASSUME f \notin wiped'
               PROVE  /\ f \in unsaved' \/ Kept(f)' = last'[f]
                      /\ memory'[f] = last'[f] \/ (memory'[f] = Empty /\ Unreadable(fcSecret, f)')
    BY DEF CredentialInv
  <2>1. CASE f \in said
    BY <1>2, <2>1
  <2>2. CASE f \notin said
    <3>1. /\ f \notin wiped /\ last'[f] = last[f]
          /\ f \in unsaved \/ Kept(f) = last[f]
          /\ memory[f] = last[f] \/ (memory[f] = Empty /\ Unreadable(fcSecret, f))
      BY <1>2, <2>2 DEF SettingsInv, CredentialInv
    <3>2. mem[f] = last[f] \/ (mem[f] = Empty /\ Unreadable(fcSecret, f))
      BY <2>2, <3>1
    <3>3. CASE file' = file /\ unsaved' = unsaved \union said
      BY <3>1, <3>2, <3>3 DEF Kept, Unreadable
    <3>4. CASE Kept(f)' = mem[f] /\ ~(mem[f] = Empty /\ Unreadable(fcSecret, f))
      BY <3>1, <3>2, <3>4
    <3>5. QED
      BY <1>2, <2>2, <3>3, <3>4
  <2>3. QED
    BY <2>1, <2>2
<1>7. QED
  BY <1>3, <1>4, <1>5, <1>6 DEF SettingsInv

-----------------------------------------------------------------------------
LEMMA Starting == ASSUME SettingsInv, Start PROVE SettingsInv'
<1> USE SettingsAssumption
<1>1. PICK s \in Secrets \union {Unset}, env \in Envs : fcSecret' = s /\ (Seed(s, env) \/ Load(s, env))
  BY DEF Start
<1>2. /\ ~started /\ started' = TRUE /\ UNCHANGED form /\ SetTypeOK /\ unsaved = {}
      /\ gone = wiped /\ env.cred \in [Variables -> Typed \union {Empty}] /\ env.app \in AppKeys \union {Empty}
  BY DEF Start, SettingsInv, Env
<1>3. \A f \in Fields : (f \notin wiped => Kept(f) = last[f])
  BY <1>2 DEF SettingsInv, CredentialInv
<1>4. CASE Seed(s, env)
  <2> DEFINE mem == [f \in Fields |-> IF f \in Variables THEN env.cred[f] ELSE Empty]
             said == {f \in Fields : mem[f] # Empty}
  <2>1. /\ file = NoFile /\ memory' = mem /\ app' = env.app /\ last' = mem /\ error' = FALSE
        /\ Save(s, mem, env.app, said)
    BY <1>4 DEF Seed
  <2>2. mem \in [Fields -> Typed \union {Empty}] /\ said \in SUBSET Fields
    BY <1>2
  <2>3. \A f \in Fields : ~Unreadable(s, f) /\ Kept(f) = Empty /\ (f \notin said => mem[f] = Empty)
    BY <2>1 DEF Unreadable, Kept
  <2> HIDE DEF mem, said
  <2>4. /\ file' \in Document \union {NoFile} /\ wiped' \subseteq Fields /\ unsaved' \subseteq Fields
        /\ gone' \subseteq Fields /\ failed' \in BOOLEAN
        /\ \A f \in Fields : Unreadable(s, f)' => Unreadable(s, f)
        /\ \A f \in Fields : f \in wiped' /\ f \notin gone' => (f \in wiped /\ f \notin gone) \/ Unreadable(s, f)
        /\ s # Unset /\ ~failed' => /\ file'.app.how = "hash"
                                    /\ \A f \in Encrypted : file'.cred[f].under # Unset \/ file'.cred[f].val = Empty
        /\ \A f \in Fields : f \notin wiped' =>
             \/ f \in said /\ (f \in unsaved' \/ Kept(f)' = mem[f])
             \/ f \notin said /\ (file' = file \/ Kept(f)' = mem[f])
    BY <1>2, <2>1, <2>2, Saved
  <2>5. SetTypeOK'
    BY <1>1, <1>2, <2>1, <2>2, <2>4 DEF SetTypeOK
  <2>6. ProtectedAtRest'
    BY <1>1, <2>4 DEF ProtectedAtRest
  <2>7. ASSUME NEW f \in Fields PROVE CredentialInv(f)' /\ ~Unreadable(fcSecret, f)' /\ (f \in wiped' => f \in gone')
    <3>1. ~Unreadable(fcSecret, f)'
      BY <1>1, <2>3, <2>4 DEF Unreadable
    <3>2. f \notin wiped' => f \in unsaved' \/ Kept(f)' = mem[f]
      BY <2>3, <2>4 DEF Kept
    <3>3. f \in wiped' => f \in gone'
      BY <1>2, <2>3, <2>4
    <3>4. QED
      BY <2>1, <3>1, <3>2, <3>3 DEF CredentialInv
  <2>8. QED
    BY <1>2, <2>5, <2>6, <2>7 DEF SettingsInv
<1>5. CASE Load(s, env)
  <2> DEFINE read == [f \in Fields |-> Filled(f, env)]
             mem == [f \in Fields |-> IF Opens(s, read[f]) THEN read[f].val ELSE Empty]
             key == Normal(FilledApp(env))
  <2>1. /\ file # NoFile /\ memory' = mem /\ app' = key
        /\ last' = [f \in Fields |-> IF f \in Gaps(env) THEN env.cred[f] ELSE last[f]]
        /\ error' = (Failures(s, read) # {})
        /\ IF NeedsSave(s, mem, FilledApp(env))
           THEN Save(s, mem, key, Gaps(env))
           ELSE unsaved' = Gaps(env) /\ UNCHANGED <<file, wiped, gone, failed>>
    BY <1>5 DEF Load
  <2>2. /\ file \in Document /\ file.app \in AppKey /\ \A f \in Fields : file.cred[f] \in Credential
        /\ \A f \in Fields \ Encrypted : file.cred[f].under = Unset
    BY <1>2, <2>1 DEF SetTypeOK, Document
  <2>3. \A f \in Fields : file.cred[f].val \in Typed \union {Empty}
                          /\ (file.cred[f].val = Empty => file.cred[f].under = Unset)
    BY <2>2 DEF Credential, Clear
  <2>4. /\ Gaps(env) \in SUBSET Fields /\ Gaps(env) \subseteq Variables
        /\ \A f \in Gaps(env) : read[f] = Clear(env.cred[f]) /\ mem[f] = env.cred[f]
                                 /\ ~Unreadable(s, f) /\ Opens(s, read[f])
        /\ \A f \in Fields \ Gaps(env) : read[f] = file.cred[f] /\ Kept(f) = file.cred[f].val
    BY <2>1, <2>3 DEF Gaps, Variables, Filled, Clear, Opens, Unreadable, Kept
  <2>5. \A f \in Fields \ Gaps(env) : \/ mem[f] = Kept(f) /\ ~Unreadable(s, f)
                                      \/ mem[f] = Empty /\ Unreadable(s, f)
    BY <2>1, <2>4 DEF Unreadable
  <2>6. \A f \in Fields : Unreadable(s, f) => error'
    BY <2>1, <2>2, <2>4 DEF Failures, Unreadable, Opens
  <2>7. mem \in [Fields -> Typed \union {Empty}]
    BY <1>2, <2>3, <2>4
  <2>8. key \in AppKeys \union {Empty}
    BY <1>2, <2>2 DEF Normal, FilledApp, AppKey
  <2>9. \A f \in Fields : last'[f] = IF f \in Gaps(env) THEN mem[f] ELSE last[f]
    BY <2>1, <2>4
  <2>10. last' \in [Fields -> Typed \union {Empty}]
    BY <1>2, <2>1, <2>4 DEF SetTypeOK
  <2>11. error' \in BOOLEAN
    BY <2>1
  <2>12. CASE NeedsSave(s, mem, FilledApp(env))
    <3> HIDE DEF read, mem, key
    <3>1. /\ file' \in Document \union {NoFile} /\ wiped' \subseteq Fields /\ unsaved' \subseteq Fields
          /\ gone' \subseteq Fields /\ failed' \in BOOLEAN
          /\ \A f \in Fields : Unreadable(s, f)' => Unreadable(s, f)
          /\ \A f \in Fields : f \in wiped' /\ f \notin gone' => (f \in wiped /\ f \notin gone) \/ Unreadable(s, f)
          /\ s # Unset /\ ~failed' => /\ file'.app.how = "hash"
                                      /\ \A f \in Encrypted : file'.cred[f].under # Unset \/ file'.cred[f].val = Empty
          /\ \A f \in Fields : f \notin wiped' =>
               \/ /\ f \in Gaps(env)
                  /\ f \in unsaved' \/ Kept(f)' = mem[f]
               \/ /\ f \notin Gaps(env) /\ f \notin wiped
                  /\ \/ file' = file /\ unsaved' = unsaved \union Gaps(env)
                     \/ Kept(f)' = mem[f] /\ ~(mem[f] = Empty /\ Unreadable(s, f))
      BY <1>2, <2>1, <2>4, <2>7, <2>8, <2>12, Saved
    <3>2. SetTypeOK'
      BY <1>1, <1>2, <2>1, <2>7, <2>8, <2>10, <2>11, <3>1 DEF SetTypeOK
    <3>3. ProtectedAtRest'
      BY <1>1, <3>1 DEF ProtectedAtRest
    <3>4. ASSUME NEW f \in Fields PROVE Unreadable(fcSecret, f)' \/ (f \in wiped' /\ f \notin gone') => error'
      BY <1>1, <1>2, <2>6, <3>1 DEF Unreadable
    <3>5. ASSUME NEW f \in Fields PROVE CredentialInv(f)'
      <4> SUFFICES ASSUME f \notin wiped'
                   PROVE  /\ f \in unsaved' \/ Kept(f)' = last'[f]
                          /\ mem[f] = last'[f] \/ (mem[f] = Empty /\ Unreadable(s, f)')
        BY <1>1, <2>1 DEF CredentialInv, Unreadable
      <4>1. CASE f \in Gaps(env)
        BY <2>9, <3>1, <4>1
      <4>2. CASE f \notin Gaps(env)
        <5>1. f \notin wiped /\ Kept(f) = last[f] /\ last'[f] = last[f]
          BY <1>3, <2>9, <3>1, <4>2
        <5>2. CASE file' = file
          BY <2>5, <4>2, <5>1, <5>2 DEF Kept, Unreadable
        <5>3. CASE Kept(f)' = mem[f] /\ ~(mem[f] = Empty /\ Unreadable(s, f))
          BY <2>5, <4>2, <5>1, <5>3
        <5>4. QED
          BY <3>1, <4>2, <5>2, <5>3
      <4>3. QED
        BY <4>1, <4>2
    <3>6. QED
      BY <1>2, <3>2, <3>3, <3>4, <3>5 DEF SettingsInv
  <2>13. CASE ~NeedsSave(s, mem, FilledApp(env))
    <3>1. unsaved' = Gaps(env) /\ UNCHANGED <<file, wiped, gone, failed>>
      BY <2>1, <2>13
    <3>2. FilledApp(env).how = "hash" /\ (s # Unset => \A f \in Encrypted : mem[f] = Empty)
      BY <2>13 DEF NeedsSave
    <3>3. file.app.how = "hash"
      BY <3>2 DEF FilledApp
    <3>4. ProtectedAtRest'
      <4>1. ASSUME s # Unset, NEW f \in Encrypted, file.cred[f].val # Empty PROVE file.cred[f].under # Unset
        <5>1. f \in Fields /\ f \notin Gaps(env)
          BY <4>1 DEF Encrypted, Gaps
        <5>2. QED
          BY <2>1, <2>4, <2>5, <3>2, <4>1, <5>1 DEF Unreadable, Opens
      <4>2. QED
        BY <1>1, <3>1, <3>3, <4>1 DEF ProtectedAtRest
    <3> HIDE DEF read, mem, key
    <3>5. SetTypeOK'
      BY <1>1, <1>2, <2>1, <2>4, <2>7, <2>8, <2>10, <2>11, <3>1 DEF SetTypeOK
    <3>6. ASSUME NEW f \in Fields PROVE Unreadable(fcSecret, f)' \/ (f \in wiped' /\ f \notin gone') => error'
      BY <1>1, <1>2, <2>6, <3>1 DEF Unreadable
    <3>7. ASSUME NEW f \in Fields PROVE CredentialInv(f)'
      <4> SUFFICES ASSUME f \notin wiped'
                   PROVE  /\ f \in unsaved' \/ Kept(f)' = last'[f]
                          /\ mem[f] = last'[f] \/ (mem[f] = Empty /\ Unreadable(s, f)')
        BY <1>1, <2>1 DEF CredentialInv, Unreadable
      <4>1. Kept(f)' = Kept(f) /\ Unreadable(s, f)' = Unreadable(s, f)
        BY <3>1 DEF Kept, Unreadable
      <4>2. QED
        BY <1>3, <2>5, <2>9, <3>1, <4>1
    <3>8. QED
      BY <1>2, <3>4, <3>5, <3>6, <3>7 DEF SettingsInv
  <2>14. QED
    BY <2>12, <2>13
<1>6. QED
  BY <1>1, <1>4, <1>5

LEMMA EcIsHidden == \A f \in Fields : f = EcPassword => f \in Hidden
BY DEF Hidden

LEMMA Posting == ASSUME SettingsInv, NEW p \in Pages, Post(p) PROVE SettingsInv'
<1> USE SettingsAssumption
<1>1. PICK body \in [Fields -> Typed \union Shown], k \in KeyFields(p) :
        LET mem == [f \in Fields |-> Restored(f, body[f])]
            said == {f \in Fields : Says(f, body[f])}
        IN  /\ \A f \in Fields : body[f] = Masked => form[p].cred[f] = Masked
            /\ memory' = mem /\ app' = AppKeyOf(p, k)
            /\ last' = [f \in Fields |-> IF f \in said THEN body[f] ELSE last[f]]
            /\ Save(fcSecret, mem, AppKeyOf(p, k), said)
  BY DEF Post
<1> DEFINE mem == [f \in Fields |-> Restored(f, body[f])]
           said == {f \in Fields : Says(f, body[f])}
           key == AppKeyOf(p, k)
<1>2. /\ memory \in [Fields -> Typed \union {Empty}]
      /\ started /\ form[p].open /\ form[p] \in Form
      /\ UNCHANGED <<started, fcSecret, error, form>>
  BY DEF Post, SettingsInv, SetTypeOK, NoForm
<1>3. key \in AppKeys \union {Empty}
  BY <1>2 DEF AppKeyOf, KeyFields, Form
<1>4. ASSUME NEW f \in Fields
      PROVE  /\ mem[f] \in Typed \union {Empty}
             /\ f \in said => mem[f] = body[f]
             /\ f \notin said => mem[f] = memory[f] \/ (mem[f] = Empty /\ Unreadable(fcSecret, f))
  <2>1. body[f] \in Typed \union {Empty, Masked} /\ memory[f] \in Typed \union {Empty}
    BY <1>2 DEF Shown
  <2>2. body[f] = Masked => f \in Hidden
    BY <1>1, <1>2 DEF SettingsInv
  <2>3. CASE Leaves(f, body[f])
    BY <2>1, <2>3 DEF Restored, Leaves, Says
  <2>4. CASE ~Leaves(f, body[f])
    BY <2>1, <2>2, <2>4, EcIsHidden DEF Restored, Leaves, Says
  <2>5. QED
    BY <2>3, <2>4
<1>5. /\ memory' = mem /\ app' = key /\ Save(fcSecret, mem, key, said)
      /\ last' = [f \in Fields |-> IF f \in said THEN mem[f] ELSE last[f]]
  <2>1. [f \in Fields |-> IF f \in said THEN mem[f] ELSE last[f]] =
          [f \in Fields |-> IF f \in said THEN body[f] ELSE last[f]]
    BY <1>4
  <2>2. QED
    BY <1>1, <2>1
<1>6. mem \in [Fields -> Typed \union {Empty}] /\ said \in SUBSET Fields
  BY <1>4
<1> HIDE DEF mem, said, key
<1>7. QED
  BY <1>2, <1>3, <1>4, <1>5, <1>6, Requested

LEMMA SettingUp == ASSUME SettingsInv, Setup PROVE SettingsInv'
<1> USE SettingsAssumption
<1>1. PICK brought \in SUBSET Wizard, v \in [Wizard -> Typed \union {Empty}], k \in AppKeys \union {Empty} :
        LET mem == [f \in Fields |-> IF f \in brought THEN v[f] ELSE memory[f]]
            said == {f \in brought : Says(f, v[f])}
        IN  /\ memory' = mem /\ app' = k
            /\ last' = [f \in Fields |-> IF f \in said THEN v[f] ELSE last[f]]
            /\ Save(fcSecret, mem, k, said)
  BY DEF Setup
<1> DEFINE mem == [f \in Fields |-> IF f \in brought THEN v[f] ELSE memory[f]]
           said == {f \in brought : Says(f, v[f])}
<1>2. /\ memory \in [Fields -> Typed \union {Empty}] /\ started
      /\ UNCHANGED <<started, fcSecret, error, form>>
  BY DEF Setup, SettingsInv, SetTypeOK
<1>3. Wizard \subseteq Fields /\ EcPassword \notin Wizard
  BY DEF Wizard, EcPassword
<1>4. mem \in [Fields -> Typed \union {Empty}] /\ said \in SUBSET Fields
  BY <1>2, <1>3
<1>5. \A f \in Fields \ said : mem[f] = memory[f] \/ (mem[f] = Empty /\ Unreadable(fcSecret, f))
  <2>1. ASSUME NEW f \in Fields \ said PROVE mem[f] = memory[f] \/ (mem[f] = Empty /\ Unreadable(fcSecret, f))
    <3>1. CASE f \in brought
      <4>1. v[f] \in Typed \union {Empty} /\ ~Says(f, v[f]) /\ f # EcPassword
        BY <1>3, <2>1, <3>1
      <4>2. QED
        BY <3>1, <4>1 DEF Says, Empty, Masked
    <3>2. QED
      BY <3>1
  <2>2. QED
    BY <2>1
<1>6. /\ memory' = mem /\ app' = k /\ Save(fcSecret, mem, k, said)
      /\ last' = [f \in Fields |-> IF f \in said THEN mem[f] ELSE last[f]]
  BY <1>1
<1> HIDE DEF mem, said
<1>7. QED
  BY <1>2, <1>4, <1>5, <1>6, Requested

LEMMA SettingsStart == ASSUME SetInit PROVE SettingsInv
<1> USE SettingsAssumption DEF SetInit
<1>1. /\ Blank \in [Fields -> Typed \union {Empty}]
      /\ file # NoFile => [f \in Fields |-> file.cred[f].val] \in [Fields -> Typed \union {Empty}]
  BY DEF Blank, Document, Credential, Clear
<1>2. SetTypeOK
  BY <1>1 DEF SetTypeOK, Blank
<1>3. QED
  BY <1>2 DEF SettingsInv, CredentialInv, ProtectedAtRest, Kept, Blank, NoForm

LEMMA SettingsSteps == SettingsInv /\ [SetNext]_setVars => SettingsInv'
<1> SUFFICES ASSUME SettingsInv, [SetNext]_setVars PROVE SettingsInv'
  OBVIOUS
<1>1. CASE Start
  BY <1>1, Starting
<1>2. CASE Stop
  <2> USE DEF Stop
  <2>1. SetTypeOK'
    <3>1. \A f \in Fields : Kept(f) \in Typed \union {Empty}
      <4>1. file # NoFile => \A f \in Fields : file.cred[f] \in Credential
        BY DEF SettingsInv, SetTypeOK, Document
      <4>2. QED
        BY <4>1 DEF Kept, Credential, Clear
    <3>2. last' \in [Fields -> Typed \union {Empty}] /\ memory' \in [Fields -> Typed \union {Empty}]
      BY <1>2, <3>1 DEF SettingsInv, SetTypeOK, Blank
    <3>3. QED
      BY <1>2, <3>2 DEF SettingsInv, SetTypeOK
  <2>2. ProtectedAtRest' /\ unsaved' = {} /\ gone' = wiped' /\ started' = FALSE
    BY <1>2 DEF ProtectedAtRest
  <2>3. ASSUME NEW f \in Fields PROVE CredentialInv(f)'
    BY <1>2 DEF SettingsInv, CredentialInv, Kept
  <2>4. QED
    BY <1>2, <2>1, <2>2, <2>3 DEF SettingsInv
<1>3. CASE Setup
  BY <1>3, SettingUp
<1>4. ASSUME NEW p \in Pages, Open(p) PROVE SettingsInv'
  <2> DEFINE new == [open |-> TRUE, cred |-> [f \in Fields |-> OnPage(f)], keyed |-> app # Empty, app |-> app]
  <2>1. /\ form' = [form EXCEPT ![p] = new]
        /\ UNCHANGED <<file, started, fcSecret, memory, app, error, last, wiped, gone, unsaved, failed>>
    BY <1>4 DEF Open
  <2>2. \A f \in Fields : OnPage(f) \in Typed \union Shown /\ (OnPage(f) = Masked => f \in Hidden)
    <3>1. ASSUME NEW f \in Fields
          PROVE  OnPage(f) \in Typed \union Shown /\ (OnPage(f) = Masked => f \in Hidden)
      <4>1. memory[f] \in Typed \union {Empty}
        BY DEF SettingsInv, SetTypeOK
      <4>2. QED
        BY <4>1, SettingsAssumption DEF OnPage, Shown, Empty, Masked
    <3>2. QED
      BY <3>1
  <2>3. new \in Form /\ \A f \in Fields : new.cred[f] = OnPage(f)
    BY <2>2 DEF Form, SettingsInv, SetTypeOK
  <2>4. form \in [Pages -> Form \union {NoForm}]
    BY DEF SettingsInv, SetTypeOK
  <2> HIDE DEF new
  <2>5. /\ form' \in [Pages -> Form \union {NoForm}]
        /\ \A q \in Pages : form'[q] = IF q = p THEN new ELSE form[q]
    BY <2>1, <2>3, <2>4
  <2>6. \A q \in Pages, f \in Fields : form'[q].open /\ form'[q].cred[f] = Masked => f \in Hidden
    BY <2>2, <2>3, <2>5 DEF SettingsInv
  <2>7. QED
    BY <2>1, <2>5, <2>6 DEF SettingsInv, SetTypeOK, ProtectedAtRest, CredentialInv, Kept, Unreadable
<1>5. ASSUME NEW p \in Pages, Post(p) PROVE SettingsInv'
  BY <1>5, Posting
<1>6. CASE UNCHANGED setVars
  BY <1>6 DEF setVars, SettingsInv, SetTypeOK, ProtectedAtRest, CredentialInv, Kept, Unreadable
<1>7. QED
  BY <1>1, <1>2, <1>3, <1>4, <1>5, <1>6 DEF SetNext

(* Through any starts, saves, pages and secrets a credential is what was last said
   of it, except while it is lost to a save made when it could not be read; a
   credential that is missed is an error throughout the run that could not read it;
   and what is to be sealed is written sealed when there is a secret. *)
THEOREM CredentialsAreKept == SetSpec => []SettingsHold
<1>1. SetInit => SettingsInv
  BY SettingsStart
<1>2. SettingsInv => SettingsHold
  BY DEF SettingsInv, CredentialInv, SettingsHold, CredentialsSurvive, MissingIsLoud
<1>3. QED
  BY <1>1, <1>2, SettingsSteps, PTL DEF SetSpec
=============================================================================
