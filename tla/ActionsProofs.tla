--------------------------- MODULE ActionsProofs ----------------------------
(***************************************************************************)
(* What the operator's actions, the line to aMule, the renames in the      *)
(* library and the store of probes promise, for any requests, downloads,   *)
(* files and losses.                                                       *)
(***************************************************************************)
EXTENDS Actions, AmuleEC, LibraryRename, ProbeStore, SequenceTheorems, FiniteSetTheorems, TLAPS

-----------------------------------------------------------------------------
(* The actions. The calls that are left of an action are one of a few ends of its plan,
   and what was promised is among what the arr heard and what it will be told. *)
(* What may be left of the calls of an action, the effects they will have, and what
   follows from where the calls stand. *)
Left(p) ==
    CASE p.kind = "retry_import" -> {<<>>, <<"command">>}
      [] p.kind = "fix_category" -> {<<>>, <<"command">>, <<"category">>, <<"category", "command">>}
      [] p.kind = "pause" -> {<<>>, <<"pause">>}
      [] p.kind = "remove_queue" -> {<<>>} \cup (IF p.number = NoNumber THEN {} ELSE {<<"remove">>})
      [] p.kind = "delete_torrent" -> {<<>>, <<"discard">>}
      [] p.kind = "cancel_download" ->
           {<<>>, <<"discard">>}
             \cup (IF p.number = NoNumber THEN {} ELSE {<<"remove">>, <<"detach">>, <<"detach", "discard">>})
      [] p.kind = "fix_path_mapping" ->
           {<<>>, <<"command">>, <<"map", "command">>, <<"mappings", "map", "command">>}
      [] p.kind = "copy_library" ->
           {<<>>, <<"launch">>, <<"names", "launch">>, <<"root", "names", "launch">>}
      [] OTHER -> {<<>>, <<"launch">>, <<"names", "launch">>}
                    \cup (IF p.number = NoNumber THEN {} ELSE {<<"detach", "names", "launch">>})

ToCome(s) == {e \in Effects : \E i \in 1..Len(s) : e \in EffectsOf(s[i])}

MapNext == <<"map", "command">>
CopyNext == {<<"launch">>, <<"names", "launch">>}

(* An entry that was taken out does not come back: numbers are never given again. *)
Out(f, n) == n # NoNumber => queue[f] # n

RequestInv(r) ==
    LET p == payload[r] IN
    /\ p = NoPayload => todo[r] = <<>> /\ heard[r] = {}
    /\ p # NoPayload =>
         /\ p \in Payloads /\ p.number <= Len(owner) /\ (p.f \in Direct => p.number = NoNumber)
         /\ todo[r] \in Left(p)
         /\ good[r] => Promised(p) \subseteq heard[r] \cup ToCome(todo[r])
         /\ "client" \in heard[r] => p.f \notin held
         /\ "entry" \in heard[r] => Out(p.f, p.number)
         /\ p.kind = "copy_foreign" /\ todo[r] \in CopyNext => Out(p.f, p.number)

ArrInv == /\ queue \in [Items -> Nat] /\ owner \in Seq(Items \ Direct) /\ Len(owner) <= MaxNumber
          /\ \A f \in Items : /\ queue[f] <= Len(owner)
                              /\ queue[f] # NoNumber => owner[queue[f]] = f
          /\ held \subseteq Items
          /\ launched \subseteq Items \X (NoNumber..MaxNumber)
          /\ \A f \in Items, n \in NoNumber..MaxNumber :
                <<f, n>> \in launched => n <= Len(owner) /\ Out(f, n)
          /\ catalogued = {}

(* Of the requests that look for a mapping and see none, unless they look at the
   same time, one at most is about to add it. *)
MapInv == /\ mappings \in 0..2
          /\ ~blind => /\ mappings <= 1
                       /\ \A r \in ActionIds : todo[r] = MapNext =>
                            mappings = 0 /\ \A o \in ActionIds \ {r} : todo[o] # MapNext

ActTypes == /\ payload \in [ActionIds -> Payloads \cup {NoPayload}]
            /\ todo \in [ActionIds -> Seq(Calls)] /\ heard \in [ActionIds -> SUBSET Effects]
            /\ good \in [ActionIds -> BOOLEAN]

ActInv == ActTypes /\ ArrInv /\ MapInv /\ \A r \in ActionIds : RequestInv(r)

-----------------------------------------------------------------------------
LEMMA Tuples ==
  ASSUME NEW a, NEW b, NEW c
  PROVE  /\ Head(<<a>>) = a /\ Head(<<a, b>>) = a /\ Head(<<a, b, c>>) = a
         /\ Tail(<<a>>) = <<>> /\ Tail(<<a, b>>) = <<b>> /\ Tail(<<a, b, c>>) = <<b, c>>
         /\ <<a>> # <<>> /\ <<a, b>> # <<>> /\ <<a, b, c>> # <<>>
         /\ Len(<<a>>) = 1 /\ Len(<<a, b>>) = 2 /\ Len(<<a, b, c>>) = 3
OBVIOUS

LEMMA EffectsAhead ==
  /\ ToCome(<<>>) = {}
  /\ \A s \in Seq(Calls) : s # <<>> =>
       /\ Head(s) \in Calls /\ Tail(s) \in Seq(Calls)
       /\ ToCome(s) = EffectsOf(Head(s)) \cup ToCome(Tail(s))
<1>1. ToCome(<<>>) = {}
  BY DEF ToCome
<1>2. ASSUME NEW s \in Seq(Calls), s # <<>>
      PROVE  /\ Head(s) \in Calls /\ Tail(s) \in Seq(Calls)
             /\ ToCome(s) = EffectsOf(Head(s)) \cup ToCome(Tail(s))
  <2>1. /\ Head(s) \in Calls /\ Tail(s) \in Seq(Calls) /\ Len(s) \in Nat \ {0} /\ Len(Tail(s)) = Len(s) - 1
        /\ Head(s) = s[1] /\ \A i \in 1..Len(Tail(s)) : Tail(s)[i] = s[i + 1]
    BY <1>2, HeadTailProperties, EmptySeq
  <2>2. EffectsOf(Head(s)) \subseteq Effects
    BY <2>1 DEF EffectsOf, Effects, Calls
  <2>3. ASSUME NEW e \in ToCome(s) PROVE e \in EffectsOf(Head(s)) \cup ToCome(Tail(s))
    <3>1. PICK i \in 1..Len(s) : e \in EffectsOf(s[i])
      BY DEF ToCome
    <3>2. CASE i = 1
      BY <2>1, <3>1, <3>2
    <3>3. CASE i # 1
      <4>1. i - 1 \in 1..Len(Tail(s)) /\ Tail(s)[i - 1] = s[i]
        BY <2>1, <3>3
      <4>2. QED
        BY <3>1, <4>1 DEF ToCome
    <3>4. QED
      BY <3>2, <3>3
  <2>4. EffectsOf(Head(s)) \subseteq ToCome(s)
    <3>1. 1 \in 1..Len(s)
      BY <2>1
    <3>2. QED
      BY <2>1, <2>2, <3>1 DEF ToCome
  <2>5. ToCome(Tail(s)) \subseteq ToCome(s)
    <3>1. ASSUME NEW i \in 1..Len(Tail(s)) PROVE i + 1 \in 1..Len(s) /\ s[i + 1] = Tail(s)[i]
      BY <2>1
    <3>2. QED
      BY <3>1 DEF ToCome
  <2>6. QED
    BY <2>1, <2>3, <2>4, <2>5
<1>3. QED
  BY <1>1, <1>2

(* The calls of an action one by one: the mapping is added right after the look for
   it, and a copy is launched after its names only. *)
Orderly(s) == /\ s \in Seq(Calls)
              /\ s # <<>> => /\ Head(s) = "mappings" => Tail(s) = MapNext
                             /\ Head(s) = "map" => s = MapNext
                             /\ Tail(s) = MapNext => Head(s) = "mappings"
                             /\ Head(s) = "launch" => s \in CopyNext
                             /\ Tail(s) \in CopyNext =>
                                  s \in CopyNext \/ Head(s) \in {"root", "detach"}

LEMMA Orders ==
  /\ Orderly(<<>>)
  /\ Orderly(<<"command">>)
  /\ Orderly(<<"category">>)
  /\ Orderly(<<"category", "command">>)
  /\ Orderly(<<"pause">>)
  /\ Orderly(<<"remove">>)
  /\ Orderly(<<"discard">>)
  /\ Orderly(<<"detach">>)
  /\ Orderly(<<"detach", "discard">>)
  /\ Orderly(<<"map", "command">>)
  /\ Orderly(<<"mappings", "map", "command">>)
  /\ Orderly(<<"launch">>)
  /\ Orderly(<<"names", "launch">>)
  /\ Orderly(<<"root", "names", "launch">>)
  /\ Orderly(<<"detach", "names", "launch">>)
<1> USE DEF Orderly, Calls, MapNext, CopyNext
<1>1. Orderly(<<>>)
  OBVIOUS
<1>2. Orderly(<<"command">>)
  OBVIOUS
<1>3. Orderly(<<"category">>)
  OBVIOUS
<1>4. Orderly(<<"category", "command">>)
  OBVIOUS
<1>5. Orderly(<<"pause">>)
  OBVIOUS
<1>6. Orderly(<<"remove">>)
  OBVIOUS
<1>7. Orderly(<<"discard">>)
  OBVIOUS
<1>8. Orderly(<<"detach">>)
  OBVIOUS
<1>9. Orderly(<<"detach", "discard">>)
  OBVIOUS
<1>10. Orderly(<<"map", "command">>)
  OBVIOUS
<1>11. Orderly(<<"mappings", "map", "command">>)
  OBVIOUS
<1>12. Orderly(<<"launch">>)
  OBVIOUS
<1>13. Orderly(<<"names", "launch">>)
  OBVIOUS
<1>14. Orderly(<<"root", "names", "launch">>)
  OBVIOUS
<1>15. Orderly(<<"detach", "names", "launch">>)
  OBVIOUS
<1>16. QED
  BY <1>1, <1>2, <1>3, <1>4, <1>5, <1>6, <1>7, <1>8, <1>9, <1>10, <1>11, <1>12, <1>13, <1>14, <1>15

(* A call is made of what is left, and leaves what may be left. *)
Leaves(p, s) == /\ Orderly(s)
                /\ s # <<>> => /\ Tail(s) \in Left(p)
                               /\ Head(s) \in {"detach", "remove"} => p.number # NoNumber
                               /\ Head(s) = "mappings" => p.kind = "fix_path_mapping"
                               /\ s = MapNext => p.kind = "fix_path_mapping"
                               /\ Head(s) = "root" => p.kind # "copy_foreign"
                               /\ Head(s) = "launch" => p.kind \in {"copy_library", "copy_foreign"}

LEMMA Leaving ==
  ASSUME NEW p \in Payloads, NEW s \in Left(p)
  PROVE  Leaves(p, s)
<1>1. CASE p.kind = "retry_import"
  <2>1. /\ {<<>>, <<"command">>} \subseteq Left(p)
        /\ s \in {<<>>, <<"command">>}
    BY <1>1 DEF Left
  <2>2. CASE s = <<>>
    BY <1>1, <2>1, <2>2, Orders DEF Leaves, MapNext
  <2>3. CASE s = <<"command">>
    BY <1>1, <2>1, <2>3, Orders DEF Leaves, MapNext
  <2>4. QED
    BY <2>1, <2>2, <2>3
<1>2. CASE p.kind = "fix_category"
  <2>1. /\ {<<>>, <<"command">>, <<"category">>, <<"category", "command">>} \subseteq Left(p)
        /\ s \in {<<>>, <<"command">>, <<"category">>, <<"category", "command">>}
    BY <1>2 DEF Left
  <2>2. CASE s = <<>>
    BY <1>2, <2>1, <2>2, Orders DEF Leaves, MapNext
  <2>3. CASE s = <<"command">>
    BY <1>2, <2>1, <2>3, Orders DEF Leaves, MapNext
  <2>4. CASE s = <<"category">>
    BY <1>2, <2>1, <2>4, Orders DEF Leaves, MapNext
  <2>5. CASE s = <<"category", "command">>
    BY <1>2, <2>1, <2>5, Orders DEF Leaves, MapNext
  <2>6. QED
    BY <2>1, <2>2, <2>3, <2>4, <2>5
<1>3. CASE p.kind = "pause"
  <2>1. /\ {<<>>, <<"pause">>} \subseteq Left(p)
        /\ s \in {<<>>, <<"pause">>}
    BY <1>3 DEF Left
  <2>2. CASE s = <<>>
    BY <1>3, <2>1, <2>2, Orders DEF Leaves, MapNext
  <2>3. CASE s = <<"pause">>
    BY <1>3, <2>1, <2>3, Orders DEF Leaves, MapNext
  <2>4. QED
    BY <2>1, <2>2, <2>3
<1>4. CASE p.kind = "remove_queue"
  <2>1. /\ {<<>>} \subseteq Left(p)
        /\ p.number # NoNumber => {<<"remove">>} \subseteq Left(p)
        /\ s \in {<<>>} \/ (p.number # NoNumber /\ s \in {<<"remove">>})
    BY <1>4 DEF Left
  <2>2. CASE s = <<>>
    BY <1>4, <2>1, <2>2, Orders DEF Leaves, MapNext
  <2>3. CASE s = <<"remove">>
    BY <1>4, <2>1, <2>3, Orders DEF Leaves, MapNext
  <2>4. QED
    BY <2>1, <2>2, <2>3
<1>5. CASE p.kind = "delete_torrent"
  <2>1. /\ {<<>>, <<"discard">>} \subseteq Left(p)
        /\ s \in {<<>>, <<"discard">>}
    BY <1>5 DEF Left
  <2>2. CASE s = <<>>
    BY <1>5, <2>1, <2>2, Orders DEF Leaves, MapNext
  <2>3. CASE s = <<"discard">>
    BY <1>5, <2>1, <2>3, Orders DEF Leaves, MapNext
  <2>4. QED
    BY <2>1, <2>2, <2>3
<1>6. CASE p.kind = "cancel_download"
  <2>1. /\ {<<>>, <<"discard">>} \subseteq Left(p)
        /\ p.number # NoNumber => {<<"remove">>, <<"detach">>, <<"detach", "discard">>} \subseteq Left(p)
        /\ s \in {<<>>, <<"discard">>} \/ (p.number # NoNumber /\ s \in {<<"remove">>, <<"detach">>, <<"detach", "discard">>})
    BY <1>6 DEF Left
  <2>2. CASE s = <<>>
    BY <1>6, <2>1, <2>2, Orders DEF Leaves, MapNext
  <2>3. CASE s = <<"discard">>
    BY <1>6, <2>1, <2>3, Orders DEF Leaves, MapNext
  <2>4. CASE s = <<"remove">>
    BY <1>6, <2>1, <2>4, Orders DEF Leaves, MapNext
  <2>5. CASE s = <<"detach">>
    BY <1>6, <2>1, <2>5, Orders DEF Leaves, MapNext
  <2>6. CASE s = <<"detach", "discard">>
    BY <1>6, <2>1, <2>6, Orders DEF Leaves, MapNext
  <2>7. QED
    BY <2>1, <2>2, <2>3, <2>4, <2>5, <2>6
<1>7. CASE p.kind = "fix_path_mapping"
  <2>1. /\ {<<>>, <<"command">>, <<"map", "command">>, <<"mappings", "map", "command">>} \subseteq Left(p)
        /\ s \in {<<>>, <<"command">>, <<"map", "command">>, <<"mappings", "map", "command">>}
    BY <1>7 DEF Left
  <2>2. CASE s = <<>>
    BY <1>7, <2>1, <2>2, Orders DEF Leaves, MapNext
  <2>3. CASE s = <<"command">>
    BY <1>7, <2>1, <2>3, Orders DEF Leaves, MapNext
  <2>4. CASE s = <<"map", "command">>
    BY <1>7, <2>1, <2>4, Orders DEF Leaves, MapNext
  <2>5. CASE s = <<"mappings", "map", "command">>
    BY <1>7, <2>1, <2>5, Orders DEF Leaves, MapNext
  <2>6. QED
    BY <2>1, <2>2, <2>3, <2>4, <2>5
<1>8. CASE p.kind = "copy_library"
  <2>1. /\ {<<>>, <<"launch">>, <<"names", "launch">>, <<"root", "names", "launch">>} \subseteq Left(p)
        /\ s \in {<<>>, <<"launch">>, <<"names", "launch">>, <<"root", "names", "launch">>}
    BY <1>8 DEF Left
  <2>2. CASE s = <<>>
    BY <1>8, <2>1, <2>2, Orders DEF Leaves, MapNext
  <2>3. CASE s = <<"launch">>
    BY <1>8, <2>1, <2>3, Orders DEF Leaves, MapNext
  <2>4. CASE s = <<"names", "launch">>
    BY <1>8, <2>1, <2>4, Orders DEF Leaves, MapNext
  <2>5. CASE s = <<"root", "names", "launch">>
    BY <1>8, <2>1, <2>5, Orders DEF Leaves, MapNext
  <2>6. QED
    BY <2>1, <2>2, <2>3, <2>4, <2>5
<1>9. CASE p.kind = "copy_foreign"
  <2>1. /\ {<<>>, <<"launch">>, <<"names", "launch">>} \subseteq Left(p)
        /\ p.number # NoNumber => {<<"detach", "names", "launch">>} \subseteq Left(p)
        /\ s \in {<<>>, <<"launch">>, <<"names", "launch">>} \/ (p.number # NoNumber /\ s \in {<<"detach", "names", "launch">>})
    BY <1>9 DEF Left
  <2>2. CASE s = <<>>
    BY <1>9, <2>1, <2>2, Orders DEF Leaves, MapNext
  <2>3. CASE s = <<"launch">>
    BY <1>9, <2>1, <2>3, Orders DEF Leaves, MapNext
  <2>4. CASE s = <<"names", "launch">>
    BY <1>9, <2>1, <2>4, Orders DEF Leaves, MapNext
  <2>5. CASE s = <<"detach", "names", "launch">>
    BY <1>9, <2>1, <2>5, Orders DEF Leaves, MapNext
  <2>6. QED
    BY <2>1, <2>2, <2>3, <2>4, <2>5
<1>10. QED
  BY <1>1, <1>2, <1>3, <1>4, <1>5, <1>6, <1>7, <1>8, <1>9 DEF Payloads

-----------------------------------------------------------------------------
LEMMA EffectsOfTuples ==
  /\ \A a \in Calls : ToCome(<<a>>) = EffectsOf(a)
  /\ \A a, b \in Calls : ToCome(<<a, b>>) = EffectsOf(a) \cup EffectsOf(b)
  /\ \A a, b, c \in Calls : ToCome(<<a, b, c>>) = EffectsOf(a) \cup EffectsOf(b) \cup EffectsOf(c)
<1>1. ASSUME NEW x \in Calls, NEW s \in Seq(Calls), NEW q \in Seq(Calls),
             s # <<>>, Head(s) = x, Tail(s) = q
      PROVE  ToCome(s) = EffectsOf(x) \cup ToCome(q)
  BY <1>1, EffectsAhead
<1>2. ASSUME NEW x \in Calls PROVE ToCome(<<x>>) = EffectsOf(x)
  <2>1. <<x>> \in Seq(Calls) /\ <<>> \in Seq(Calls) /\ <<x>> # <<>> /\ Head(<<x>>) = x /\ Tail(<<x>>) = <<>>
    OBVIOUS
  <2>2. ToCome(<<x>>) = EffectsOf(x) \cup ToCome(<<>>)
    BY <1>1, <2>1
  <2>3. QED
    BY <2>2, EffectsAhead
<1>3. ASSUME NEW x \in Calls, NEW y \in Calls PROVE ToCome(<<x, y>>) = EffectsOf(x) \cup EffectsOf(y)
  <2>1. /\ <<x, y>> \in Seq(Calls) /\ <<y>> \in Seq(Calls) /\ <<x, y>> # <<>>
        /\ Head(<<x, y>>) = x /\ Tail(<<x, y>>) = <<y>>
    OBVIOUS
  <2>2. ToCome(<<x, y>>) = EffectsOf(x) \cup ToCome(<<y>>)
    BY <1>1, <2>1
  <2>3. QED
    BY <1>2, <2>2
<1>4. ASSUME NEW a \in Calls, NEW b \in Calls, NEW c \in Calls
      PROVE  ToCome(<<a, b, c>>) = EffectsOf(a) \cup EffectsOf(b) \cup EffectsOf(c)
  <2>1. <<b, c>> \in Seq(Calls) /\ <<a, b, c>> \in Seq(Calls)
        /\ <<a, b, c>> # <<>> /\ Head(<<a, b, c>>) = a /\ Tail(<<a, b, c>>) = <<b, c>>
    OBVIOUS
  <2>2. ToCome(<<a, b, c>>) = EffectsOf(a) \cup ToCome(<<b, c>>)
    BY <1>1, <2>1
  <2>3. QED
    BY <1>3, <2>2
<1>5. QED
  BY <1>2, <1>3, <1>4

(* An action that is not refused sets out to do all that it names. *)
LEMMA PlansPromise ==
  ASSUME NEW p \in Payloads, Tells(p), ~Refused(p),
         ~(p.kind = "cancel_download" /\ p.number # NoNumber /\ ~p.service)
  PROVE  Plan(p) \in Left(p) /\ Promised(p) \subseteq ToCome(Plan(p))
<1> DEFINE Goal == Plan(p) \in Left(p) /\ Promised(p) \subseteq ToCome(Plan(p))
<1>a. /\ ToCome(<<"command">>) = {"command"} /\ ToCome(<<"category">>) = {"category"}
      /\ ToCome(<<"category", "command">>) = {"category", "command"}
      /\ ToCome(<<"pause">>) = {"pause"} /\ ToCome(<<"remove">>) = {"entry", "client"}
      /\ ToCome(<<"discard">>) = {"client"} /\ ToCome(<<"detach", "discard">>) = {"entry", "client"}
      /\ ToCome(<<"mappings", "map", "command">>) = {"mapping", "command"}
      /\ ToCome(<<"root", "names", "launch">>) = {"launch"}
      /\ ToCome(<<"names", "launch">>) = {"launch"}
      /\ ToCome(<<"detach", "names", "launch">>) = {"entry", "launch"}
  <2>1. /\ \A x \in Calls : ToCome(<<x>>) = EffectsOf(x)
        /\ \A x, y \in Calls : ToCome(<<x, y>>) = EffectsOf(x) \cup EffectsOf(y)
        /\ \A x, y, z \in Calls : ToCome(<<x, y, z>>) = EffectsOf(x) \cup EffectsOf(y) \cup EffectsOf(z)
    BY EffectsOfTuples
  <2>2. /\ EffectsOf("command") = {"command"} /\ EffectsOf("category") = {"category"}
        /\ EffectsOf("pause") = {"pause"} /\ EffectsOf("launch") = {"launch"}
        /\ EffectsOf("remove") = {"entry", "client"} /\ EffectsOf("detach") = {"entry"}
        /\ EffectsOf("discard") = {"client"} /\ EffectsOf("map") = {"mapping"}
        /\ EffectsOf("mappings") = {} /\ EffectsOf("root") = {} /\ EffectsOf("names") = {}
    BY DEF EffectsOf
  <2>3. {"command", "category", "pause", "launch", "remove", "detach", "discard", "map", "mappings", "root",
         "names"} \subseteq Calls
    BY DEF Calls
  <2>4. ToCome(<<"category", "command">>) = {"category", "command"}
    BY <2>1, <2>2, <2>3
  <2>5. ToCome(<<"detach", "discard">>) = {"entry", "client"}
    BY <2>1, <2>2, <2>3
  <2>6. ToCome(<<"mappings", "map", "command">>) = {"mapping", "command"}
    BY <2>1, <2>2, <2>3
  <2>7. ToCome(<<"root", "names", "launch">>) = {"launch"} /\ ToCome(<<"names", "launch">>) = {"launch"}
    BY <2>1, <2>2, <2>3
  <2>8. ToCome(<<"detach", "names", "launch">>) = {"entry", "launch"}
    BY <2>1, <2>2, <2>3
  <2>9. QED
    BY <2>1, <2>2, <2>3, <2>4, <2>5, <2>6, <2>7, <2>8
<1>b. /\ <<"category">> \o <<>> = <<"category">> /\ <<"category">> \o <<"command">> = <<"category", "command">>
      /\ <<"remove">> \o <<>> = <<"remove">> /\ <<>> \o <<"discard">> = <<"discard">>
      /\ <<"detach">> \o <<"discard">> = <<"detach", "discard">>
  <2>1. ASSUME NEW x \in Calls PROVE <<x>> \o <<>> = <<x>> /\ <<>> \o <<x>> = <<x>>
    <3>1. <<x>> \in Seq(Calls)
      OBVIOUS
    <3>2. QED
      BY <3>1, ConcatEmptySeq
  <2>2. {"category", "remove", "discard"} \subseteq Calls
    BY DEF Calls
  <2>3. /\ <<"category">> \o <<"command">> = <<"category", "command">>
        /\ <<"detach">> \o <<"discard">> = <<"detach", "discard">>
    <3>1. ASSUME NEW x, NEW y PROVE <<x>> \o <<y>> = <<x, y>>
      <4>1. <<x>> \in Seq({x, y}) /\ <<y>> \in Seq({x, y}) /\ <<x, y>> \in Seq({x, y})
            /\ Len(<<x>>) = 1 /\ Len(<<y>>) = 1 /\ Len(<<x, y>>) = 2
        OBVIOUS
      <4>2. /\ <<x>> \o <<y>> \in Seq({x, y}) /\ Len(<<x>> \o <<y>>) = 2
            /\ (<<x>> \o <<y>>)[1] = x /\ (<<x>> \o <<y>>)[2] = y
        BY <4>1, ConcatProperties
      <4>3. ASSUME NEW i \in 1..Len(<<x>> \o <<y>>) PROVE (<<x>> \o <<y>>)[i] = <<x, y>>[i]
        <5>1. i = 1 \/ i = 2
          BY <4>2
        <5>2. QED
          BY <4>2, <5>1
      <4> DEFINE both == <<x>> \o <<y>>
                 pair == <<x, y>>
                 S == {x, y}
      <4>4. both \in Seq(S) /\ pair \in Seq(S) /\ Len(both) = Len(pair)
            /\ \A i \in 1..Len(both) : both[i] = pair[i]
        BY <4>1, <4>2, <4>3
      <4> HIDE DEF both, pair, S
      <4>5. both = pair
        BY <4>4, SeqEqual
      <4>6. QED
        BY <4>5 DEF both, pair
    <3>2. QED
      BY <3>1
  <2>4. QED
    BY <2>1, <2>2, <2>3
<1>1. CASE p.kind = "retry_import"
  BY <1>a, <1>1 DEF Plan, Left, Promised
<1>2. CASE p.kind = "fix_category"
  <2>1. CASE p.service
    BY <1>a, <1>b, <1>2, <2>1 DEF Plan, Left, Promised
  <2>2. CASE ~p.service
    BY <1>a, <1>b, <1>2, <2>2 DEF Plan, Left, Promised
  <2>3. QED
    BY <2>1, <2>2
<1>3. CASE p.kind = "pause"
  BY <1>a, <1>3 DEF Plan, Left, Promised
<1>4. CASE p.kind = "remove_queue"
  <2>1. p.number # NoNumber
    BY <1>4 DEF Refused, NeedsNumber
  <2>2. QED
    BY <1>a, <1>4, <2>1 DEF Plan, Left, Promised
<1>5. CASE p.kind = "delete_torrent"
  BY <1>a, <1>5 DEF Plan, Left, Promised
<1>6. CASE p.kind = "cancel_download"
  <2>1. CASE p.number = NoNumber
    <3>1. p.hash
      BY <1>6, <2>1 DEF Refused
    <3>2. Plan(p) = <<"discard">>
      BY <1>b, <1>6, <2>1, <3>1 DEF Plan, CancelEntry
    <3>3. QED
      BY <1>a, <1>6, <2>1, <3>2 DEF Left, Promised
  <2>2. CASE p.number # NoNumber /\ p.hash
    <3>1. Plan(p) = <<"detach", "discard">>
      BY <1>b, <1>6, <2>2 DEF Plan, CancelEntry
    <3>2. QED
      BY <1>a, <1>6, <2>2, <3>1 DEF Left, Promised
  <2>3. CASE p.number # NoNumber /\ ~p.hash
    <3>1. Plan(p) = <<"remove">>
      BY <1>b, <1>6, <2>3 DEF Plan, CancelEntry
    <3>2. QED
      BY <1>a, <1>6, <2>3, <3>1 DEF Left, Promised
  <2>4. QED
    BY <2>1, <2>2, <2>3
<1>7. CASE p.kind = "fix_path_mapping"
  BY <1>a, <1>7 DEF Plan, Left, Promised
<1>8. CASE p.kind = "copy_library"
  BY <1>a, <1>8 DEF Plan, Left, Promised
<1>9. CASE p.kind = "copy_foreign"
  <2>1. CASE p.f \in Direct
    BY <1>a, <1>9, <2>1 DEF Plan, CopyForeign, Left, Promised
  <2>2. CASE p.f \notin Direct
    <3>1. p.number # NoNumber
      BY <1>9, <2>2 DEF Refused, NeedsNumber
    <3>2. QED
      BY <1>a, <1>9, <2>2, <3>1 DEF Plan, CopyForeign, Left, Promised
  <2>3. QED
    BY <2>1, <2>2
<1>10. QED
  BY <1>1, <1>2, <1>3, <1>4, <1>5, <1>6, <1>7, <1>8, <1>9 DEF Payloads

-----------------------------------------------------------------------------
LEMMA ActStart == ASSUME ActInit PROVE ActInv
<1> USE ActAssumption DEF ActInit, NoNumber
<1>1. ActTypes
  BY DEF ActTypes
<1>2. ArrInv
  BY DEF ArrInv, Out
<1>3. MapInv
  BY DEF MapInv, MapNext
<1>4. \A r \in ActionIds : RequestInv(r)
  BY DEF RequestInv
<1>5. QED
  BY <1>1, <1>2, <1>3, <1>4 DEF ActInv

(* What others do: an entry that is out stays out, and the client only loses. *)
LEMMA RequestsKept ==
  ASSUME ActInv, NEW r \in ActionIds, Len(owner) <= Len(owner)', Len(owner)' \in Nat,
         held' \subseteq held,
         payload'[r] = payload[r], todo'[r] = todo[r], good'[r] = good[r], heard'[r] = heard[r],
         \A f \in Items, n \in NoNumber..MaxNumber : n <= Len(owner) /\ Out(f, n) => Out(f, n)'
  PROVE  RequestInv(r)'
<1> USE DEF NoNumber
<1>1. CASE payload[r] = NoPayload
  BY <1>1 DEF ActInv, RequestInv
<1>2. CASE payload[r] # NoPayload
  <2>1. /\ payload[r].f \in Items /\ payload[r].number \in NoNumber..MaxNumber
        /\ payload[r].number <= Len(owner) /\ Len(owner) \in Nat /\ MaxNumber \in Nat
    BY <1>2, ActAssumption, LenProperties DEF ActInv, RequestInv, ArrInv, Payloads
  <2>2. payload[r].number <= Len(owner)'
    BY <2>1
  <2>3. Out(payload[r].f, payload[r].number) => Out(payload[r].f, payload[r].number)'
    BY <2>1
  <2>4. QED
    BY <1>2, <2>2, <2>3 DEF ActInv, RequestInv
<1>3. QED
  BY <1>1, <1>2

LEMMA Tracking ==
  ASSUME ActInv, NEW f \in Items, ArrTracks(f)
  PROVE  ActInv'
<1> USE ActAssumption DEF NoNumber
<1>1. /\ f \in Items \ Direct /\ queue[f] = NoNumber /\ Len(owner) < MaxNumber
      /\ owner' = Append(owner, f) /\ queue' = [queue EXCEPT ![f] = Len(owner')]
      /\ UNCHANGED <<held, mappings, payload, todo, good, heard, launched, catalogued, blind, losses>>
  BY DEF ArrTracks, requestVars, ActInv, ArrInv
<1>2. /\ queue \in [Items -> Nat] /\ owner \in Seq(Items \ Direct) /\ Len(owner) \in Nat
  BY LenProperties DEF ActInv, ArrInv
<1>3. /\ owner' \in Seq(Items \ Direct) /\ Len(owner') = Len(owner) + 1
      /\ owner'[Len(owner) + 1] = f /\ \A i \in 1..Len(owner) : owner'[i] = owner[i]
  BY <1>1, <1>2
<1>4. ASSUME NEW g \in Items, NEW n \in NoNumber..MaxNumber, n <= Len(owner), Out(g, n)
      PROVE  Out(g, n)'
  BY <1>1, <1>2, <1>3, <1>4 DEF Out
<1>5. ArrInv'
  <2>1. queue' \in [Items -> Nat]
    BY <1>1, <1>2, <1>3
  <2>2. ASSUME NEW g \in Items
        PROVE  queue'[g] <= Len(owner') /\ (queue'[g] # NoNumber => owner'[queue'[g]] = g)
    <3>1. CASE g = f
      BY <1>1, <1>2, <1>3, <3>1
    <3>2. CASE g # f
      <4>1. queue'[g] = queue[g] /\ queue[g] \in Nat /\ queue[g] <= Len(owner)
            /\ (queue[g] # NoNumber => owner[queue[g]] = g)
        BY <1>1, <1>2, <3>2 DEF ActInv, ArrInv
      <4>2. QED
        BY <1>2, <1>3, <4>1
    <3>3. QED
      BY <3>1, <3>2
  <2>3. ASSUME NEW g \in Items, NEW n \in NoNumber..MaxNumber, <<g, n>> \in launched
        PROVE  n <= Len(owner') /\ Out(g, n)'
    <3>1. n <= Len(owner) /\ Out(g, n)
      BY <2>3 DEF ActInv, ArrInv
    <3>2. QED
      BY <1>2, <1>3, <1>4, <3>1
  <2>4. QED
    BY <1>1, <1>2, <1>3, <2>1, <2>2, <2>3 DEF ActInv, ArrInv
<1>6. ASSUME NEW r \in ActionIds PROVE RequestInv(r)'
  BY <1>1, <1>2, <1>3, <1>4, RequestsKept
<1>7. ActTypes' /\ MapInv'
  BY <1>1 DEF ActInv, ActTypes, MapInv
<1>8. QED
  BY <1>5, <1>6, <1>7 DEF ActInv

(* What is imported was not copied elsewhere: no copy is begun for an entry in the queue. *)
LEMMA Importing ==
  ASSUME ActInv, NEW f \in Items, ArrImports(f)
  PROVE  ActInv'
<1> USE ActAssumption DEF NoNumber
<1>1. /\ f \in held /\ queue[f] # NoNumber
      /\ catalogued' = catalogued \cup ({<<f, queue[f]>>} \cap launched)
      /\ queue' = [queue EXCEPT ![f] = NoNumber]
      /\ UNCHANGED <<owner, held, mappings, payload, todo, good, heard, launched, blind, losses>>
  BY DEF ArrImports, requestVars
<1>2. queue \in [Items -> Nat] /\ Len(owner) \in Nat /\ queue[f] <= Len(owner) /\ Len(owner) <= MaxNumber
  BY LenProperties DEF ActInv, ArrInv
<1>3. <<f, queue[f]>> \notin launched
  BY <1>1, <1>2 DEF ActInv, ArrInv, Out
<1>4. ASSUME NEW g \in Items, NEW n \in NoNumber..MaxNumber, Out(g, n)
      PROVE  Out(g, n)'
  BY <1>1, <1>2, <1>4 DEF Out
<1>5. ArrInv'
  <2>1. queue' \in [Items -> Nat]
    BY <1>1, <1>2
  <2>2. ASSUME NEW g \in Items
        PROVE  queue'[g] <= Len(owner') /\ (queue'[g] # NoNumber => owner'[queue'[g]] = g)
    <3>1. queue'[g] = IF g = f THEN NoNumber ELSE queue[g]
      BY <1>1, <1>2
    <3>2. QED
      BY <1>1, <1>2, <3>1 DEF ActInv, ArrInv
  <2>3. ASSUME NEW g \in Items, NEW n \in NoNumber..MaxNumber, <<g, n>> \in launched
        PROVE  n <= Len(owner') /\ Out(g, n)'
    BY <1>1, <1>4, <2>3 DEF ActInv, ArrInv
  <2>4. catalogued' = {}
    BY <1>1, <1>3 DEF ActInv, ArrInv
  <2>5. QED
    BY <1>1, <2>1, <2>2, <2>3, <2>4 DEF ActInv, ArrInv
<1>6. ASSUME NEW r \in ActionIds PROVE RequestInv(r)'
  BY <1>1, <1>2, <1>4, RequestsKept
<1>7. ActTypes' /\ MapInv'
  BY <1>1 DEF ActInv, ActTypes, MapInv
<1>8. QED
  BY <1>5, <1>6, <1>7 DEF ActInv

LEMMA Requesting ==
  ASSUME ActInv, NEW r \in ActionIds, NEW p \in Payloads, ActRequest(r, p)
  PROVE  ActInv'
<1> USE ActAssumption DEF NoNumber
<1> DEFINE calls == IF Refused(p) THEN <<>> ELSE Plan(p)
           fine == ~Refused(p) /\ ~(p.kind = "cancel_download" /\ p.number # NoNumber /\ ~p.service)
<1>1. /\ payload[r] = NoPayload /\ Tells(p)
      /\ p.number # NoNumber => p.number <= Len(owner) /\ owner[p.number] = p.f
      /\ payload' = [payload EXCEPT ![r] = p] /\ todo' = [todo EXCEPT ![r] = calls]
      /\ good' = [good EXCEPT ![r] = fine]
      /\ UNCHANGED <<queue, owner, held, mappings, heard, launched, catalogued, blind, losses>>
  BY DEF ActRequest
<1>2. /\ payload \in [ActionIds -> Payloads \cup {NoPayload}] /\ todo \in [ActionIds -> Seq(Calls)]
      /\ good \in [ActionIds -> BOOLEAN] /\ fine \in BOOLEAN
  BY DEF ActInv, ActTypes
<1>3. heard[r] = {}
  BY <1>1 DEF ActInv, RequestInv
<1>4. calls \in Left(p) /\ (fine => Promised(p) \subseteq ToCome(calls))
      /\ (p.kind = "copy_foreign" /\ p.f \notin Direct /\ calls \in CopyNext => FALSE)
  <2>1. CASE Refused(p)
    BY <2>1, Tuples DEF Left, Payloads, CopyNext
  <2>2. CASE fine
    <3>1. Plan(p) \in Left(p) /\ Promised(p) \subseteq ToCome(Plan(p))
      BY <1>1, <2>2, PlansPromise
    <3>2. p.kind = "copy_foreign" /\ p.f \notin Direct => Plan(p) \notin CopyNext
      BY DEF Plan, CopyForeign, CopyNext
    <3>3. QED
      BY <2>2, <3>1, <3>2
  <2>3. CASE ~Refused(p) /\ ~fine
    <3>1. p.kind = "cancel_download" /\ ~p.service
      BY <2>3
    <3>2. CancelEntry(p) = <<>>
      BY <3>1 DEF CancelEntry
    <3>3. Plan(p) = <<>> \o (IF p.hash THEN <<"discard">> ELSE <<>>)
      BY <3>1, <3>2 DEF Plan
    <3>4. <<"discard">> \in Seq(Calls) /\ <<>> \in Seq(Calls)
      BY DEF Calls
    <3>5. Plan(p) \in {<<"discard">>, <<>>}
      BY <3>3, <3>4, ConcatEmptySeq
    <3>6. QED
      BY <2>3, <3>1, <3>5 DEF Left
  <2>4. QED
    BY <2>1, <2>2, <2>3
<1> HIDE DEF calls, fine
<1>5. p.number <= Len(owner) /\ (p.f \in Direct => p.number = NoNumber)
  <2>1. Len(owner) \in Nat /\ owner \in Seq(Items \ Direct)
    BY LenProperties DEF ActInv, ArrInv
  <2>2. p.number \in Nat
    BY DEF Payloads
  <2>3. CASE p.number # NoNumber
    <3>1. p.number \in 1..Len(owner)
      BY <1>1, <2>1, <2>2, <2>3
    <3>2. p.f \in Items \ Direct
      BY <1>1, <2>1, <2>3, <3>1, ElementOfSeq
    <3>3. QED
      BY <3>1, <3>2
  <2>4. QED
    BY <2>1, <2>3
<1>6. payload'[r] = p /\ todo'[r] = calls /\ good'[r] = fine /\ heard'[r] = {}
  BY <1>1, <1>2, <1>3
<1>7. p # NoPayload
  BY DEF Payloads, NoPayload
<1>8. RequestInv(r)'
  <2>1. p.kind = "copy_foreign" /\ calls \in CopyNext => p.number = NoNumber
    BY <1>4, <1>5
  <2>2. QED
    BY <1>1, <1>4, <1>5, <1>6, <1>7, <2>1 DEF RequestInv, Out
<1>9. ASSUME NEW o \in ActionIds, o # r PROVE RequestInv(o)'
  <2>1. payload'[o] = payload[o] /\ todo'[o] = todo[o] /\ good'[o] = good[o] /\ heard'[o] = heard[o]
    BY <1>1, <1>2, <1>9
  <2>2. \A f \in Items, n \in NoNumber..MaxNumber : Out(f, n) => Out(f, n)'
    BY <1>1 DEF Out
  <2>3. Len(owner) \in Nat /\ Len(owner)' = Len(owner)
    BY <1>1, LenProperties DEF ActInv, ArrInv
  <2>4. QED
    BY <1>1, <2>1, <2>2, <2>3, RequestsKept
<1>10. calls \in Seq(Calls) /\ calls # MapNext
  <2>1. calls \in Seq(Calls)
    BY <1>4, Leaving DEF Leaves, Orderly
  <2>2. calls # MapNext
    <3>1. CASE p.kind = "fix_path_mapping"
      BY <3>1 DEF calls, MapNext, Plan
    <3>2. CASE p.kind # "fix_path_mapping"
      BY <1>4, <3>2, Leaving DEF Leaves, MapNext
    <3>3. QED
      BY <3>1, <3>2
  <2>3. QED
    BY <2>1, <2>2
<1>11. ActTypes'
  BY <1>1, <1>2, <1>10 DEF ActInv, ActTypes
<1>12. MapInv'
  BY <1>1, <1>2, <1>10 DEF ActInv, MapInv
<1>13. ArrInv'
  BY <1>1 DEF ActInv, ArrInv, Out
<1>14. QED
  BY <1>8, <1>9, <1>11, <1>12, <1>13 DEF ActInv

-----------------------------------------------------------------------------
(* A request that has a call to make. *)
LEMMA Called ==
  ASSUME ActInv, NEW r \in ActionIds, Calling(r)
  PROVE  LET p == payload[r]
             s == todo[r]
         IN  /\ p # NoPayload /\ p \in Payloads /\ p.f \in Items /\ p.number \in NoNumber..MaxNumber
             /\ p.number <= Len(owner) /\ Len(owner) \in Nat
             /\ s \in Left(p) /\ Leaves(p, s) /\ s \in Seq(Calls) /\ s # <<>>
             /\ Head(s) \in Calls /\ ToCome(s) = EffectsOf(Head(s)) \cup ToCome(Tail(s))
<1>1. payload[r] # NoPayload /\ todo[r] # <<>>
  BY DEF ActInv, RequestInv, Calling
<1>2. payload[r] \in Payloads /\ payload[r].number <= Len(owner) /\ todo[r] \in Left(payload[r])
  BY <1>1 DEF ActInv, RequestInv
<1>3. Leaves(payload[r], todo[r]) /\ todo[r] \in Seq(Calls)
  BY <1>2, Leaving DEF Leaves, Orderly
<1>4. Len(owner) \in Nat
  BY LenProperties DEF ActInv, ArrInv
<1>5. QED
  BY <1>1, <1>2, <1>3, <1>4, EffectsAhead DEF Payloads

(* What a call does at the arr and at the client. *)
LEMMA CallServed ==
  ASSUME ActInv, NEW r \in ActionIds, Calling(r), NEW c, c = Head(todo[r]),
         Serve(r, c) \/ UNCHANGED <<queue, held, mappings, launched>>,
         UNCHANGED <<owner, payload, catalogued>>
  PROVE  /\ ArrInv' /\ held' \subseteq held
         /\ \A f \in Items, n \in NoNumber..MaxNumber : Out(f, n) => Out(f, n)'
         /\ Serve(r, c) /\ c \in {"detach", "remove"} => Out(payload[r].f, payload[r].number)'
         /\ Serve(r, c) /\ c \in {"discard", "remove"} => payload[r].f \notin held'
<1> USE ActAssumption DEF NoNumber
<1> DEFINE p == payload[r]
<1>1. /\ p \in Payloads /\ p.f \in Items /\ p.number \in NoNumber..MaxNumber
      /\ p.number <= Len(owner) /\ Len(owner) \in Nat /\ Leaves(p, todo[r]) /\ todo[r] # <<>>
  BY Called
<1>2. queue \in [Items -> Nat]
  BY DEF ActInv, ArrInv
<1> HIDE DEF p
<1>3. CASE UNCHANGED <<queue, held, mappings, launched>> /\ ~Serve(r, c)
  BY <1>3 DEF ActInv, ArrInv, Out
<1>4. CASE Serve(r, c)
  <2>1. /\ queue' = IF c \in {"detach", "remove"} THEN [queue EXCEPT ![p.f] = NoNumber] ELSE queue
        /\ held' = IF c \in {"discard", "remove"} THEN held \ {p.f} ELSE held
        /\ launched' = IF c = "launch" /\ p.kind = "copy_foreign"
                         THEN launched \cup {<<p.f, p.number>>} ELSE launched
    BY <1>4 DEF Serve, p
  <2>2. queue' \in [Items -> Nat] /\ \A f \in Items : queue'[f] \in {queue[f], NoNumber}
    BY <1>1, <1>2, <2>1
  <2>3. ASSUME NEW f \in Items, NEW n \in NoNumber..MaxNumber, Out(f, n) PROVE Out(f, n)'
    BY <1>2, <2>2, <2>3 DEF Out
  <2> p' = p
    BY DEF p
  <2>4. ASSUME c \in {"detach", "remove"} PROVE Out(p.f, p.number)'
    <3>1. queue'[p.f] = NoNumber /\ payload[r].f = p.f /\ payload[r].number = p.number
      BY <1>1, <1>2, <2>1, <2>4 DEF p
    <3>2. p.number # NoNumber => queue'[p.f] # p.number
      BY <3>1
    <3>3. QED
      BY <3>2 DEF Out
  <2>5. ASSUME NEW f \in Items, NEW n \in NoNumber..MaxNumber, <<f, n>> \in launched'
        PROVE  n <= Len(owner) /\ Out(f, n)'
    <3>1. CASE <<f, n>> \in launched
      BY <2>3, <3>1 DEF ActInv, ArrInv
    <3>2. CASE <<f, n>> \notin launched
      <4>1. c = "launch" /\ p.kind = "copy_foreign" /\ f = p.f /\ n = p.number
        BY <2>1, <2>5, <3>2
      <4>2. todo[r] \in CopyNext
        BY <1>1, <4>1 DEF Leaves, Orderly
      <4>3. p # NoPayload
        BY <4>1 DEF NoPayload
      <4>4. Out(p.f, p.number)
        BY <4>1, <4>2, <4>3 DEF ActInv, RequestInv, p
      <4>5. QED
        BY <1>1, <2>3, <4>1, <4>4
    <3>3. QED
      BY <3>1, <3>2
  <2>6. launched' \subseteq Items \X (NoNumber..MaxNumber)
    BY <1>1, <2>1 DEF ActInv, ArrInv
  <2>7. ASSUME NEW f \in Items
        PROVE  queue'[f] <= Len(owner') /\ (queue'[f] # NoNumber => owner'[queue'[f]] = f)
    BY <1>1, <2>2 DEF ActInv, ArrInv
  <2>8. ArrInv'
    BY <2>1, <2>2, <2>5, <2>6, <2>7 DEF ActInv, ArrInv
  <2>9. QED
    BY <2>1, <2>3, <2>4, <2>8 DEF p
<1>5. QED
  BY <1>3, <1>4

LEMMA Answering ==
  ASSUME ActInv, NEW r \in ActionIds, ActAnswered(r)
  PROVE  ActInv'
<1> USE ActAssumption DEF NoNumber
<1> DEFINE p == payload[r]
           s == todo[r]
           c == Head(s)
           new == Rest(r, c)
           learned == EffectsOf(c) \cup IF c = "mappings" /\ mappings > 0 THEN {"mapping"} ELSE {}
<1>1. /\ Calling(r) /\ Serve(r, c)
      /\ todo' = [todo EXCEPT ![r] = new]
      /\ UNCHANGED <<owner, payload, good, catalogued, losses>>
  BY DEF ActAnswered
<1>2. heard' = [heard EXCEPT ![r] = heard[r] \cup learned]
  BY DEF ActAnswered
<1>3. blind' = (blind \/ (c = "mappings" /\ mappings = 0 /\ \E o \in ActionIds \ {r} : Adding(o)))
  BY DEF ActAnswered
<1>4. /\ p # NoPayload /\ p \in Payloads /\ p.f \in Items /\ p.number \in NoNumber..MaxNumber
      /\ p.number <= Len(owner) /\ Len(owner) \in Nat
      /\ s \in Left(p) /\ Leaves(p, s) /\ s \in Seq(Calls) /\ s # <<>>
      /\ c \in Calls /\ ToCome(s) = EffectsOf(c) \cup ToCome(Tail(s))
  BY <1>1, Called
<1>5. /\ ArrInv' /\ held' \subseteq held
      /\ \A f \in Items, n \in NoNumber..MaxNumber : Out(f, n) => Out(f, n)'
      /\ c \in {"detach", "remove"} => Out(p.f, p.number)'
      /\ c \in {"discard", "remove"} => p.f \notin held'
  BY <1>1, CallServed
<1>6. todo \in [ActionIds -> Seq(Calls)] /\ heard \in [ActionIds -> SUBSET Effects]
      /\ mappings \in 0..2
  BY DEF ActInv, ActTypes, MapInv
<1>7. IF c = "mappings" /\ mappings > 0 THEN new = Tail(MapNext) ELSE new = Tail(s)
  <2>1. c = "mappings" => Tail(s) = MapNext
    BY <1>4 DEF Leaves, Orderly
  <2>2. new = IF c = "mappings" /\ mappings > 0 THEN Tail(Tail(s)) ELSE Tail(s)
    BY DEF Rest
  <2>3. QED
    BY <2>1, <2>2
<1>8. Tail(MapNext) = <<"command">> /\ EffectsOf("mappings") = {} /\ EffectsOf("map") = {"mapping"}
      /\ ToCome(MapNext) = {"mapping"} \cup ToCome(Tail(MapNext))
  <2>1. MapNext \in Seq(Calls) /\ MapNext # <<>> /\ Head(MapNext) = "map" /\ Tail(MapNext) = <<"command">>
    BY DEF MapNext, Calls
  <2>2. EffectsOf("mappings") = {} /\ EffectsOf("map") = {"mapping"}
    BY DEF EffectsOf
  <2>3. QED
    BY <2>1, <2>2, EffectsAhead
<1>9. new \in Left(p) /\ (good[r] => Promised(p) \subseteq heard[r] \cup learned \cup ToCome(new))
  <2>1. good[r] => Promised(p) \subseteq heard[r] \cup ToCome(s)
    BY <1>4 DEF ActInv, RequestInv
  <2>2. CASE c = "mappings" /\ mappings > 0
    <3>1. Tail(s) = MapNext /\ p.kind = "fix_path_mapping" /\ new = <<"command">>
      BY <1>4, <1>7, <1>8, <2>2 DEF Leaves, Orderly
    <3>2. ToCome(s) \subseteq {"mapping"} \cup ToCome(new) /\ "mapping" \in learned
      BY <1>4, <1>8, <2>2, <3>1
    <3>3. new \in Left(p)
      BY <3>1 DEF Left
    <3>4. QED
      BY <2>1, <3>2, <3>3
  <2>3. CASE ~(c = "mappings" /\ mappings > 0)
    <3>1. new = Tail(s) /\ learned = EffectsOf(c)
      BY <1>7, <2>3
    <3>2. new \in Left(p)
      BY <1>4, <3>1 DEF Leaves
    <3>3. QED
      BY <1>4, <2>1, <3>1, <3>2
  <2>4. QED
    BY <2>2, <2>3
<1>10. /\ "client" \in learned => c \in {"discard", "remove"}
       /\ "entry" \in learned => c \in {"detach", "remove"}
       /\ learned \subseteq Effects
  BY DEF EffectsOf, Effects
<1>11. p.kind = "copy_foreign" /\ new \in CopyNext => Out(p.f, p.number)'
  <2> SUFFICES ASSUME p.kind = "copy_foreign", new \in CopyNext PROVE Out(p.f, p.number)'
    OBVIOUS
  <2>1. new = Tail(s)
    <3>1. <<"command">> \notin CopyNext
      BY Tuples DEF CopyNext
    <3>2. QED
      BY <1>7, <1>8, <3>1
  <2>2. s \in CopyNext \/ c = "detach"
    BY <1>4, <2>1 DEF Leaves, Orderly
  <2>3. s \in CopyNext => Out(p.f, p.number)
    BY <1>4 DEF ActInv, RequestInv
  <2>4. Out(p.f, p.number) => Out(p.f, p.number)'
    BY <1>1, <1>4, <1>5
  <2>5. QED
    BY <1>5, <2>2, <2>3, <2>4
<1> HIDE DEF new, learned
<1>12. payload'[r] = p /\ todo'[r] = new /\ good'[r] = good[r] /\ heard'[r] = heard[r] \cup learned
  BY <1>1, <1>2, <1>6
<1>13. RequestInv(r)'
  <2>1. "client" \in heard'[r] => p.f \notin held'
    BY <1>4, <1>5, <1>10, <1>12 DEF ActInv, RequestInv
  <2>2. "entry" \in heard'[r] => Out(p.f, p.number)'
    BY <1>4, <1>5, <1>10, <1>12 DEF ActInv, RequestInv
  <2>3. p.f \in Direct => p.number = NoNumber
    BY <1>4 DEF ActInv, RequestInv
  <2>4. QED
    BY <1>1, <1>4, <1>9, <1>11, <1>12, <2>1, <2>2, <2>3 DEF RequestInv
<1>14. ASSUME NEW o \in ActionIds, o # r PROVE RequestInv(o)'
  <2>1. payload'[o] = payload[o] /\ todo'[o] = todo[o] /\ good'[o] = good[o] /\ heard'[o] = heard[o]
    BY <1>1, <1>2, <1>6, <1>14
  <2>2. QED
    BY <1>1, <1>4, <1>5, <2>1, RequestsKept
<1>15. new \in Seq(Calls)
  BY <1>4, <1>9, Leaving DEF Leaves, Orderly
<1>16. ActTypes'
  <2>1. todo' \in [ActionIds -> Seq(Calls)]
    BY <1>1, <1>6, <1>15
  <2>2. heard' \in [ActionIds -> SUBSET Effects]
    BY <1>2, <1>6, <1>10
  <2>3. QED
    BY <1>1, <2>1, <2>2 DEF ActInv, ActTypes
<1>17. MapInv'
  <2>1. mappings' = IF c = "map" /\ mappings < 2 THEN mappings + 1 ELSE mappings
    BY <1>1 DEF Serve
  <2>2. \A o \in ActionIds : todo'[o] = IF o = r THEN new ELSE todo[o]
    BY <1>1, <1>6
  <2>3. mappings' \in 0..2
    BY <1>6, <2>1
  <2>4. ASSUME ~blind'
        PROVE  /\ mappings' <= 1
               /\ \A q \in ActionIds : todo'[q] = MapNext =>
                     mappings' = 0 /\ \A o \in ActionIds \ {q} : todo'[o] # MapNext
    <3>1. ~blind
      BY <1>3, <2>4
    <3>2. /\ mappings <= 1
          /\ \A q \in ActionIds : todo[q] = MapNext =>
                mappings = 0 /\ \A o \in ActionIds \ {q} : todo[o] # MapNext
      BY <3>1 DEF ActInv, MapInv
    <3>3. CASE c = "mappings" /\ mappings = 0
      <4>1. \A o \in ActionIds \ {r} : ~Adding(o)
        BY <1>3, <2>4, <3>3
      <4>2. \A o \in ActionIds : todo[o] = MapNext => Adding(o)
        BY DEF Adding, MapNext
      <4>3. mappings' = 0
        BY <2>1, <3>3
      <4>4. QED
        BY <2>2, <4>1, <4>2, <4>3
    <3>4. CASE c = "mappings" /\ mappings # 0
      <4>1. new = <<"command">> /\ <<"command">> # MapNext
        BY <1>6, <1>7, <1>8, <3>4 DEF MapNext
      <4>2. mappings' = mappings
        BY <2>1, <3>4
      <4>3. QED
        BY <2>2, <3>2, <3>4, <4>1, <4>2
    <3>5. CASE c = "map"
      <4>1. s = MapNext /\ new = <<"command">> /\ <<"command">> # MapNext
        BY <1>4, <1>7, <1>8, <3>5 DEF Leaves, Orderly, MapNext
      <4>2. mappings = 0 /\ \A o \in ActionIds \ {r} : todo[o] # MapNext
        BY <3>2, <4>1
      <4>3. QED
        BY <2>1, <2>2, <4>1, <4>2
    <3>6. CASE c \notin {"map", "mappings"}
      <4>1. new # MapNext /\ mappings' = mappings
        BY <1>4, <1>7, <2>1, <3>6 DEF Leaves, Orderly
      <4>2. QED
        BY <2>2, <3>2, <4>1
    <3>7. QED
      BY <3>3, <3>4, <3>5, <3>6
  <2>5. QED
    BY <2>3, <2>4 DEF MapInv
<1>18. QED
  BY <1>5, <1>13, <1>14, <1>16, <1>17 DEF ActInv

(* A call that failed: done, it may have been, but not heard. *)
LEMMA Failing ==
  ASSUME ActInv, NEW r \in ActionIds, Calling(r), NEW c, c = Head(todo[r]), NEW nf \in BOOLEAN,
         Failed(r, c, nf), nf => ~Found(r, c), c = "launch" => FALSE, UNCHANGED heard,
         \/ Serve(r, c)
         \/ UNCHANGED <<queue, held, mappings, launched>>,
         nf => UNCHANGED <<queue, held, mappings, launched>>,
         ~blind' => ~blind /\ (c = "mappings" => nf)
  PROVE  ActInv'
<1> USE ActAssumption DEF NoNumber
<1> DEFINE p == payload[r]
           s == todo[r]
           copies == p.kind \in {"copy_library", "copy_foreign"}
           goesOn == IF copies THEN Tolerates(c, nf) ELSE c \in {"names", "mappings"}
           new == IF copies /\ ~goesOn THEN <<>> ELSE Tail(s)
<1>1. /\ todo' = [todo EXCEPT ![r] = new] /\ good' = [good EXCEPT ![r] = good[r] /\ goesOn]
      /\ UNCHANGED <<owner, payload, catalogued, heard>>
  BY DEF Failed
<1>2. /\ p # NoPayload /\ p \in Payloads /\ p.f \in Items /\ p.number \in NoNumber..MaxNumber
      /\ p.number <= Len(owner) /\ Len(owner) \in Nat
      /\ s \in Left(p) /\ Leaves(p, s) /\ s \in Seq(Calls) /\ s # <<>>
      /\ c \in Calls /\ ToCome(s) = EffectsOf(c) \cup ToCome(Tail(s))
  BY Called
<1>3. /\ ArrInv' /\ held' \subseteq held
      /\ \A f \in Items, n \in NoNumber..MaxNumber : Out(f, n) => Out(f, n)'
      /\ Serve(r, c) /\ c \in {"detach", "remove"} => Out(p.f, p.number)'
  BY <1>1, CallServed
<1>4. todo \in [ActionIds -> Seq(Calls)] /\ good \in [ActionIds -> BOOLEAN] /\ mappings \in 0..2
  BY DEF ActInv, ActTypes, MapInv
<1>5. <<>> \in Left(p) /\ new \in Left(p)
  <2>1. <<>> \in Left(p)
    BY <1>2 DEF Left, Payloads
  <2>2. Tail(s) \in Left(p)
    BY <1>2 DEF Leaves
  <2>3. QED
    BY <2>1, <2>2
<1>6. good[r] /\ goesOn => Promised(p) \subseteq heard[r] \cup ToCome(new)
  <2> SUFFICES ASSUME good[r], goesOn PROVE Promised(p) \subseteq heard[r] \cup ToCome(new)
    OBVIOUS
  <2>1. Promised(p) \subseteq heard[r] \cup ToCome(s)
    BY <1>2 DEF ActInv, RequestInv
  <2>2. new = Tail(s)
    OBVIOUS
  <2>3. CASE c = "detach"
    <3>1. copies
      BY <2>3
    <3>2. "entry" \notin Promised(p)
      BY <1>2, <3>1 DEF Promised, Payloads
    <3>3. EffectsOf(c) = {"entry"}
      BY <2>3 DEF EffectsOf
    <3>4. QED
      BY <1>2, <2>1, <2>2, <3>2, <3>3
  <2>4. CASE c # "detach"
    <3>1. c \in {"names", "mappings"}
      BY <2>4 DEF Tolerates
    <3>2. EffectsOf(c) = {}
      BY <3>1 DEF EffectsOf
    <3>3. QED
      BY <1>2, <2>1, <2>2, <3>2
  <2>5. QED
    BY <2>3, <2>4
<1>7. p.kind = "copy_foreign" /\ new \in CopyNext => Out(p.f, p.number)'
  <2> SUFFICES ASSUME p.kind = "copy_foreign", new \in CopyNext PROVE Out(p.f, p.number)'
    OBVIOUS
  <2>1. goesOn /\ new = Tail(s)
    BY Tuples DEF CopyNext
  <2>2. s \in CopyNext \/ (c = "detach" /\ nf)
    BY <1>2, <2>1 DEF Leaves, Orderly, Tolerates
  <2>3. CASE s \in CopyNext
    <3>1. Out(p.f, p.number)
      BY <1>2, <2>3 DEF ActInv, RequestInv
    <3>2. QED
      BY <1>1, <1>2, <1>3, <3>1
  <2>4. CASE c = "detach" /\ nf
    <3>1. queue[p.f] # p.number /\ queue' = queue
      BY <2>4 DEF Found
    <3>2. QED
      BY <1>1, <3>1 DEF Out
  <2>5. QED
    BY <2>2, <2>3, <2>4
<1> HIDE DEF new, goesOn
<1>8. payload'[r] = p /\ todo'[r] = new /\ good'[r] = (good[r] /\ goesOn) /\ heard'[r] = heard[r]
  BY <1>1, <1>4
<1>9. RequestInv(r)'
  <2>1. "client" \in heard'[r] => p.f \notin held'
    BY <1>2, <1>3, <1>8 DEF ActInv, RequestInv
  <2>2. "entry" \in heard'[r] => Out(p.f, p.number)'
    <3>1. "entry" \in heard[r] => Out(p.f, p.number)
      BY <1>2 DEF ActInv, RequestInv
    <3>2. Out(p.f, p.number) => Out(p.f, p.number)'
      BY <1>1, <1>2, <1>3
    <3>3. QED
      BY <1>8, <3>1, <3>2
  <2>3. p.f \in Direct => p.number = NoNumber
    BY <1>2 DEF ActInv, RequestInv
  <2>4. good'[r] => Promised(p) \subseteq heard'[r] \cup ToCome(new)
    BY <1>6, <1>8
  <2>5. QED
    BY <1>1, <1>2, <1>5, <1>7, <1>8, <2>1, <2>2, <2>3, <2>4 DEF RequestInv
<1>10. ASSUME NEW o \in ActionIds, o # r PROVE RequestInv(o)'
  <2>1. payload'[o] = payload[o] /\ todo'[o] = todo[o] /\ good'[o] = good[o] /\ heard'[o] = heard[o]
    BY <1>1, <1>4, <1>10
  <2>2. QED
    BY <1>1, <1>2, <1>3, <2>1, RequestsKept
<1>11. ActTypes'
  <2>1. new \in Seq(Calls)
    BY <1>2, <1>5, Leaving DEF Leaves, Orderly
  <2>2. good'[r] \in BOOLEAN /\ good' \in [ActionIds -> BOOLEAN]
    BY <1>1, <1>4
  <2>3. QED
    BY <1>1, <1>4, <2>1, <2>2 DEF ActInv, ActTypes
<1>12. MapInv'
  <2>1. mappings' = IF c = "map" /\ mappings < 2 /\ Serve(r, c) THEN mappings + 1 ELSE mappings
    BY <1>4 DEF Serve
  <2>2. \A o \in ActionIds : todo'[o] = IF o = r THEN new ELSE todo[o]
    BY <1>1, <1>4
  <2>3. mappings' \in 0..2
    BY <1>4, <2>1
  <2>4. ASSUME ~blind'
        PROVE  /\ mappings' <= 1
               /\ \A q \in ActionIds : todo'[q] = MapNext =>
                     mappings' = 0 /\ \A o \in ActionIds \ {q} : todo'[o] # MapNext
    <3>1. ~blind /\ c # "mappings"
      <4>1. nf => c # "mappings"
        BY DEF Found
      <4>2. QED
        BY <2>4, <4>1
    <3>2. /\ mappings <= 1
          /\ \A q \in ActionIds : todo[q] = MapNext =>
                mappings = 0 /\ \A o \in ActionIds \ {q} : todo[o] # MapNext
      BY <3>1 DEF ActInv, MapInv
    <3>3. new # MapNext
      BY <1>2, <3>1, Tuples DEF Leaves, Orderly, MapNext, new
    <3>4. CASE c = "map"
      <4>1. s = MapNext
        BY <1>2, <3>4 DEF Leaves, Orderly
      <4>2. mappings = 0 /\ \A o \in ActionIds \ {r} : todo[o] # MapNext
        BY <3>2, <4>1
      <4>3. QED
        BY <2>1, <2>2, <3>3, <4>2
    <3>5. CASE c # "map"
      BY <2>1, <2>2, <3>2, <3>3, <3>5
    <3>6. QED
      BY <3>4, <3>5
  <2>5. QED
    BY <2>3, <2>4 DEF MapInv
<1>13. QED
  BY <1>3, <1>9, <1>10, <1>11, <1>12 DEF ActInv

LEMMA ActSteps == ActInv /\ [ActNext]_actVars => ActInv'
<1> SUFFICES ASSUME ActInv, [ActNext]_actVars PROVE ActInv'
  OBVIOUS
<1>1. ASSUME NEW f \in Items, ArrTracks(f) PROVE ActInv'
  BY <1>1, Tracking
<1>2. ASSUME NEW f \in Items, ArrImports(f) PROVE ActInv'
  BY <1>2, Importing
<1>3. ASSUME NEW r \in ActionIds, ActAnswered(r) PROVE ActInv'
  BY <1>3, Answering
<1>4. ASSUME NEW r \in ActionIds, ActNotFound(r) PROVE ActInv'
  <2> DEFINE c == Head(todo[r])
  <2>1. /\ Calling(r) /\ ~Found(r, c) /\ Failed(r, c, TRUE)
        /\ UNCHANGED <<queue, held, mappings, heard, launched, blind, losses>>
    BY <1>4 DEF ActNotFound
  <2>2. c # "launch"
    BY <2>1 DEF Found
  <2>3. ~blind' => ~blind
    BY <2>1
  <2> HIDE DEF c
  <2>4. QED
    BY <2>1, <2>2, <2>3, Failing DEF c
<1>5. ASSUME NEW r \in ActionIds, ActLost(r) PROVE ActInv'
  <2> DEFINE c == Head(todo[r])
  <2>1. /\ Calling(r) /\ c # "launch" /\ Failed(r, c, FALSE) /\ UNCHANGED heard
        /\ blind' = (blind \/ c = "mappings")
        /\ Serve(r, c) \/ UNCHANGED <<queue, held, mappings, launched>>
    BY <1>5 DEF ActLost
  <2>2. ~blind' => ~blind /\ c # "mappings"
    BY <2>1
  <2> HIDE DEF c
  <2>4. QED
    BY <2>1, <2>2, Failing DEF c
<1>6. ASSUME NEW r \in ActionIds, NEW p \in Payloads, ActRequest(r, p) PROVE ActInv'
  BY <1>6, Requesting
<1>7. CASE UNCHANGED actVars
  BY <1>7 DEF actVars, ActInv, ActTypes, ArrInv, MapInv, RequestInv, Out
<1>8. QED
  BY <1>1, <1>2, <1>3, <1>4, <1>5, <1>6, <1>7 DEF ActNext

(* An answer of ok is true: what the action names was done, a cancelled download is
   gone on both sides, a copy to a folder that is not the arr's is never imported,
   and a mapping is added once. *)
LEMMA InvHolds == ActInv => ActionsHold
<1> USE ActAssumption DEF NoNumber
<1> SUFFICES ASSUME ActInv PROVE ActionsHold
  OBVIOUS
<1>1. ActTypeOK
  <2>1. Len(owner) \in Nat
    BY LenProperties DEF ActInv, ArrInv
  <2>2. queue \in [Items -> NoNumber..Len(owner)]
    BY <2>1 DEF ActInv, ArrInv
  <2>3. QED
    BY <2>2 DEF ActInv, ActTypes, ArrInv, MapInv, RequestInv, ActTypeOK
<1>2. ASSUME NEW r \in ActionIds, AnswersOk(r)
      PROVE  /\ Promised(payload[r]) \subseteq heard[r]
             /\ "client" \in heard[r] => payload[r].f \notin held
             /\ "entry" \in heard[r] => Out(payload[r].f, payload[r].number)
  <2>1. payload[r] # NoPayload /\ todo[r] = <<>> /\ good[r]
    BY <1>2 DEF AnswersOk, Ok
  <2>2. Promised(payload[r]) \subseteq heard[r] \cup ToCome(<<>>)
    BY <2>1 DEF ActInv, RequestInv
  <2>3. QED
    BY <2>1, <2>2, EffectsAhead DEF ActInv, RequestInv
<1>3. ForeignNeverCatalogued /\ MappedOnce
  BY DEF ActInv, ArrInv, MapInv, ForeignNeverCatalogued, MappedOnce
<1>4. OkIsDone
  BY <1>2 DEF OkIsDone
<1>5. CancelMeansGone
  <2>1. ASSUME NEW r \in ActionIds, AnswersOk(r), payload[r].kind = "cancel_download"
        PROVE  /\ payload[r].f \notin held
               /\ payload[r].number # NoNumber => queue[payload[r].f] # payload[r].number
    <3>1. Promised(payload[r]) =
             {"client"} \cup (IF payload[r].number # NoNumber THEN {"entry"} ELSE {})
      BY <2>1 DEF Promised
    <3>2. QED
      BY <1>2, <2>1, <3>1 DEF Out
  <2>2. QED
    BY <2>1 DEF CancelMeansGone
<1>6. QED
  BY <1>1, <1>3, <1>4, <1>5 DEF ActionsHold

(* An action that answers ok has had every effect it names and heard of it, a foreign copy
   is never catalogued, and a mapping is added once, for any requests at the same time and
   whatever answers get lost (copy_engine.py, do_action). *)
THEOREM AnswersAreHonest == ActSpec => []ActionsHold
<1>1. ActInit => ActInv
  BY ActStart
<1>2. QED
  BY <1>1, ActSteps, InvHolds, PTL DEF ActSpec

-----------------------------------------------------------------------------
(* The line to aMule. *)
(* aMule's own state. The index of a request was read from a list it names; while
   that list is the present one, the index means what was expected. *)
IndexMeant(r) == r.what = "setcat" =>
                   /\ r.from <= edits
                   /\ r.from = edits => r.index <= Len(list) /\ list[r.index] = Expected

CoreInv == /\ parts \subseteq EcFiles /\ shared \subseteq EcFiles /\ parts \cap shared = {}
           /\ list \in Seq(STRING) /\ edits \in 0..MaxListEdits /\ Len(list) + edits = Len(Titles)
           /\ catOf \in [EcFiles -> Indices]
           /\ catFrom \in [EcFiles -> {NotSet} \cup (0..MaxListEdits)]
           /\ \A f \in EcFiles : catFrom[f] # NotSet => catFrom[f] <= edits
           /\ IndexIsName

Replies == [says : {"none", "listed", "absent", "list", "noop", "FAILED"},
            list : Seq(STRING), from : 0..MaxListEdits]

LineTypes == /\ op \in [EcThreads -> EcOps \cup {NoOp}]
             /\ at \in [EcThreads -> {"idle", "closed"} \cup Connected]
             /\ ask \in [EcThreads -> Requests] /\ reply \in [EcThreads -> Replies]
             /\ open \subseteq EcThreads /\ orphans \subseteq Requests
             /\ result \in [EcThreads -> {"none", "ok", "failed", "refused"}]
             /\ faults \in 0..MaxEcFaults

Gone(f) == f \notin parts /\ f \notin shared
Deletes(t) == ask[t].what \in {"known", "part"}

(* An operation asks of its own file, a deletion for nothing but that; an answer
   that is not FAILED says that the file is gone. *)
Errand(t) ==
    /\ op[t] = NoOp => at[t] = "idle" /\ result[t] = "none"
    /\ at[t] # "idle" => /\ result[t] = "none" /\ ask[t].f = op[t].f
                         /\ op[t].kind = "delete" => ask[t].what \in {"shared", "known", "part"}
    /\ at[t] = "replied" /\ Deletes(t) /\ reply[t].says # "FAILED" => Gone(ask[t].f)
    /\ result[t] = "ok" /\ op[t].kind = "delete" => Gone(op[t].f)

(* What was heard of the list is so until it is edited. *)
Heard(t) == /\ reply[t].from <= edits /\ Len(reply[t].list) <= Len(Titles)
            /\ at[t] = "replied" /\ ask[t].what = "cats" /\ reply[t].from = edits
                 => reply[t].list = list

LineInv == /\ LineTypes /\ SocketsClosed
           /\ \A t \in EcThreads : Errand(t) /\ Heard(t) /\ IndexMeant(ask[t])
           /\ \A r \in orphans : IndexMeant(r)

EcInv == CoreInv /\ LineInv

-----------------------------------------------------------------------------
LEMMA EcStart == ASSUME EcInit PROVE EcInv
<1> USE EcAssumption DEF EcInit
<1>1. Len(Titles) \in Nat \ {0} /\ Titles \in Seq(STRING)
  BY EmptySeq
<1>2. CoreInv
  BY <1>1 DEF CoreInv, IndexIsName, Indices, NotSet
<1>3. (CHOOSE f \in EcFiles : TRUE) \in EcFiles
  OBVIOUS
<1>4. Asks("cmd", CHOOSE f \in EcFiles : TRUE) \in Requests
  BY <1>3 DEF Asks, Requests
<1>5. [says |-> "none", list |-> <<>>, from |-> 0] \in Replies
  BY EmptySeq DEF Replies
<1>6. LineTypes
  BY <1>4, <1>5 DEF LineTypes, NoOp, Connected
<1>7. ASSUME NEW t \in EcThreads PROVE Errand(t) /\ Heard(t) /\ IndexMeant(ask[t])
  <2>1. Errand(t)
    BY DEF Errand
  <2>2. Heard(t)
    BY <1>1, EmptySeq DEF Heard
  <2>3. IndexMeant(ask[t])
    BY DEF IndexMeant, Asks
  <2>4. QED
    BY <2>1, <2>2, <2>3
<1>8. QED
  BY <1>2, <1>6, <1>7 DEF EcInv, LineInv, SocketsClosed

-----------------------------------------------------------------------------
(* What a request does to aMule, served or refused. *)
LEMMA ServedRightly ==
  ASSUME CoreInv, NEW r \in Requests, IndexMeant(r),
         (Holds(r) /\ Effect(r)) \/ UNCHANGED coreVars
  PROVE  /\ CoreInv' /\ UNCHANGED <<list, edits>>
         /\ parts' \subseteq parts /\ shared' \subseteq shared
         /\ Holds(r) /\ Effect(r) /\ r.what \in {"known", "part"} => Gone(r.f)'
<1>1. CASE UNCHANGED coreVars /\ ~(Holds(r) /\ Effect(r))
  BY <1>1 DEF coreVars, CoreInv, IndexIsName
<1>2. CASE Holds(r) /\ Effect(r)
  <2>1. /\ parts' \subseteq parts /\ shared' \subseteq shared /\ UNCHANGED <<list, edits>>
        /\ r.what \in {"known", "part"} => Gone(r.f)'
    BY <1>2 DEF Effect, Holds, CoreInv, Gone
  <2>2. CASE r.what = "setcat"
    <3>1. /\ r.f \in EcFiles /\ r.index \in Indices /\ r.from \in 0..MaxListEdits
          /\ r.from <= edits /\ (r.from = edits => list[r.index] = Expected)
          /\ catOf' = [catOf EXCEPT ![r.f] = r.index] /\ catFrom' = [catFrom EXCEPT ![r.f] = r.from]
      BY <1>2, <2>2 DEF Effect, Requests, IndexMeant
    <3>2. /\ catOf' \in [EcFiles -> Indices]
          /\ catFrom' \in [EcFiles -> {NotSet} \cup (0..MaxListEdits)]
      BY <3>1 DEF CoreInv
    <3>3. ASSUME NEW f \in EcFiles
          PROVE  /\ catFrom'[f] # NotSet => catFrom'[f] <= edits
                 /\ catFrom'[f] = edits /\ f \in parts' => list[catOf'[f]] = Expected
      BY <2>1, <3>1 DEF CoreInv, IndexIsName
    <3>4. CoreInv'
      BY <2>1, <3>2, <3>3 DEF CoreInv, IndexIsName
    <3>5. QED
      BY <2>1, <3>4
  <2>3. CASE r.what # "setcat"
    <3>1. UNCHANGED <<catOf, catFrom>>
      BY <1>2, <2>3 DEF Effect
    <3>2. CoreInv'
      BY <2>1, <3>1 DEF CoreInv, IndexIsName
    <3>3. QED
      BY <2>1, <3>2
  <2>4. QED
    BY <2>2, <2>3
<1>3. QED
  BY <1>1, <1>2

(* The line minds of aMule's state only that what is gone stays gone, and the list. *)
LEMMA LineKept ==
  ASSUME LineInv, UNCHANGED <<lineVars, faults, list, edits>>,
         parts' \subseteq parts /\ shared' \subseteq shared \cup parts,
         \A f \in shared' \ shared : f \in parts /\ f \notin parts'
  PROVE  LineInv'
<1> USE DEF lineVars
<1>1. LineTypes' /\ SocketsClosed'
  BY DEF LineInv, LineTypes, SocketsClosed
<1>2. ASSUME NEW f, Gone(f) PROVE Gone(f)'
  BY <1>2 DEF Gone
<1>3. ASSUME NEW t \in EcThreads PROVE Errand(t)' /\ Heard(t)' /\ IndexMeant(ask[t])'
  <2>1. Errand(t)'
    BY <1>2 DEF LineInv, Errand, Deletes
  <2>2. Heard(t)' /\ IndexMeant(ask[t])'
    BY DEF LineInv, Heard, IndexMeant
  <2>3. QED
    BY <2>1, <2>2
<1>4. \A r \in orphans' : IndexMeant(r)'
  BY DEF LineInv, IndexMeant
<1>5. QED
  BY <1>1, <1>3, <1>4 DEF LineInv

LEMMA Completing ==
  ASSUME EcInv, NEW f \in EcFiles, Completes(f)
  PROVE  EcInv'
<1>1. CoreInv'
  BY DEF EcInv, CoreInv, Completes, IndexIsName
<1>2. LineInv'
  BY LineKept DEF EcInv, Completes
<1>3. QED
  BY <1>1, <1>2 DEF EcInv

(* An edit leaves every index that was read from an earlier list behind. *)
LEMMA Editing ==
  ASSUME EcInv, NEW i \in Indices, ListEdited(i)
  PROVE  EcInv'
<1> USE EcAssumption
<1>1. /\ edits < MaxListEdits /\ edits' = edits + 1 /\ edits \in 0..MaxListEdits
      /\ list \in Seq(STRING) /\ Len(list) \in Nat /\ i \in 2..Len(list)
      /\ Len(Titles) = Len(list) + edits
      /\ UNCHANGED <<parts, shared, catFrom, lineVars, faults>>
  BY LenProperties DEF EcInv, CoreInv, ListEdited
<1>2. list' \in Seq(STRING) /\ Len(list') = Len(list) - 1
  <2> DEFINE e(j) == IF j < i THEN list[j] ELSE list[j + 1]
             n == Len(list) - 1
  <2>1. n \in Nat /\ \A j \in 1..n : e(j) \in STRING
    BY <1>1, ElementOfSeq
  <2>2. list' = [j \in 1..n |-> e(j)]
    BY DEF ListEdited, Without
  <2> HIDE DEF e, n
  <2>3. list' \in Seq(STRING)
    BY <2>1, <2>2, IsASeq
  <2>4. Len(list') = n
    BY <2>1, <2>2, <2>3, LenProperties
  <2>5. QED
    BY <2>3, <2>4 DEF n
<1>3. catOf' \in [EcFiles -> Indices]
  BY <1>1 DEF EcInv, CoreInv, ListEdited, Indices
<1>4. CoreInv'
  <2>1. \A f \in EcFiles : catFrom[f] # NotSet => catFrom[f] < edits'
    BY <1>1 DEF EcInv, CoreInv
  <2>2. IndexIsName'
    BY <1>1, <2>1 DEF IndexIsName, NotSet
  <2>3. QED
    BY <1>1, <1>2, <1>3, <2>1, <2>2 DEF EcInv, CoreInv
<1>5. LineTypes' /\ SocketsClosed'
  BY <1>1 DEF EcInv, LineInv, LineTypes, SocketsClosed, lineVars
<1>6. ASSUME NEW r \in Requests, IndexMeant(r) PROVE IndexMeant(r)'
  BY <1>1, <1>6 DEF IndexMeant, Requests
<1>7. ASSUME NEW t \in EcThreads PROVE Errand(t)' /\ Heard(t)' /\ IndexMeant(ask[t])'
  <2>1. Errand(t)'
    BY <1>1 DEF EcInv, LineInv, Errand, Deletes, Gone, lineVars
  <2>2. reply[t].from \in Nat /\ reply[t].from <= edits /\ reply' = reply
    BY <1>1 DEF EcInv, LineInv, LineTypes, Replies, Heard, lineVars
  <2>3. Heard(t)'
    BY <1>1, <2>2 DEF EcInv, LineInv, Heard
  <2>4. IndexMeant(ask[t])'
    BY <1>1, <1>6 DEF EcInv, LineInv, LineTypes, lineVars
  <2>5. QED
    BY <2>1, <2>3, <2>4
<1>8. \A r \in orphans' : IndexMeant(r)'
  BY <1>1, <1>6 DEF EcInv, LineInv, LineTypes, lineVars
<1>9. QED
  BY <1>4, <1>5, <1>7, <1>8 DEF EcInv, LineInv

-----------------------------------------------------------------------------
(* A step of one thread is judged by that thread alone. *)
LEMMA OthersKept ==
  ASSUME EcInv, NEW t \in EcThreads,
         \A u \in EcThreads \ {t} : /\ op'[u] = op[u] /\ at'[u] = at[u] /\ ask'[u] = ask[u]
                                    /\ reply'[u] = reply[u] /\ result'[u] = result[u],
         UNCHANGED <<list, edits>>, parts' \subseteq parts, shared' \subseteq shared,
         CoreInv', LineTypes', SocketsClosed', Errand(t)', Heard(t)', IndexMeant(ask[t])',
         \A r \in orphans' : IndexMeant(r)'
  PROVE  EcInv'
<1>1. ASSUME NEW f, Gone(f) PROVE Gone(f)'
  BY <1>1 DEF Gone
<1>2. ASSUME NEW u \in EcThreads, u # t PROVE Errand(u)' /\ Heard(u)' /\ IndexMeant(ask[u])'
  <2>1. Errand(u)'
    BY <1>1, <1>2 DEF EcInv, LineInv, Errand, Deletes
  <2>2. Heard(u)'
    BY <1>2 DEF EcInv, LineInv, Heard
  <2>3. IndexMeant(ask[u])'
    BY <1>2 DEF EcInv, LineInv, IndexMeant
  <2>4. QED
    BY <2>1, <2>2, <2>3
<1>3. QED
  BY <1>2 DEF EcInv, LineInv

LEMMA Serving ==
  ASSUME EcInv, NEW t \in EcThreads, EcServe(t)
  PROVE  EcInv'
<1> USE EcAssumption
<1>1. /\ ask[t] \in Requests /\ IndexMeant(ask[t]) /\ at[t] = "waiting"
      /\ (Holds(ask[t]) /\ Effect(ask[t])) \/ UNCHANGED coreVars
      /\ UNCHANGED <<op, ask, open, orphans, result, faults>>
      /\ at' = [at EXCEPT ![t] = "replied"]
  BY DEF EcInv, LineInv, LineTypes, EcServe
<1>2. /\ CoreInv' /\ UNCHANGED <<list, edits>>
      /\ parts' \subseteq parts /\ shared' \subseteq shared
      /\ Holds(ask[t]) /\ Effect(ask[t]) /\ ask[t].what \in {"known", "part"} => Gone(ask[t].f)'
  BY <1>1, ServedRightly DEF EcInv
<1> DEFINE new == IF Holds(ask[t]) THEN Answered(ask[t]) ELSE Says("FAILED")
<1>3. /\ reply' = [reply EXCEPT ![t] = new]
      /\ Holds(ask[t]) => Effect(ask[t])
  BY DEF EcServe
<1>4. list \in Seq(STRING) /\ edits \in 0..MaxListEdits /\ Len(list) <= Len(Titles)
  <2>1. Len(list) \in Nat /\ Len(list) + edits = Len(Titles) /\ edits \in Nat
    BY LenProperties DEF EcInv, CoreInv
  <2>2. QED
    BY <2>1 DEF EcInv, CoreInv
<1>5. /\ new \in Replies /\ new.from <= edits /\ Len(new.list) <= Len(Titles)
      /\ ask[t].what = "cats" => new.list = list
  <2>1. <<>> \in Seq(STRING) /\ Len(<<>>) = 0 /\ Len(Titles) \in Nat
    BY EmptySeq, LenProperties
  <2>2. Holds(ask[t]) \/ ask[t].what # "cats"
    BY DEF Holds
  <2>3. QED
    BY <1>4, <2>1, <2>2 DEF Answered, Says, Replies
<1> HIDE DEF new
<1>6. LineTypes'
  BY <1>1, <1>3, <1>5 DEF EcInv, LineInv, LineTypes, Connected
<1>7. SocketsClosed'
  BY <1>1 DEF EcInv, LineInv, LineTypes, SocketsClosed
<1>8. at'[t] = "replied" /\ reply'[t] = new
  BY <1>1, <1>3 DEF EcInv, LineInv, LineTypes
<1>9. Errand(t)'
  <2>1. /\ op[t] # NoOp /\ result[t] = "none" /\ ask[t].f = op[t].f
        /\ op[t].kind = "delete" => ask[t].what \in {"shared", "known", "part"}
    BY <1>1 DEF EcInv, LineInv, Errand
  <2>2. Deletes(t) /\ new.says # "FAILED" => Holds(ask[t]) /\ Effect(ask[t])
    BY <1>3 DEF new, Says
  <2>3. Deletes(t) /\ new.says # "FAILED" => Gone(ask[t].f)'
    BY <1>2, <2>2 DEF Deletes
  <2>4. QED
    BY <1>1, <1>8, <2>1, <2>3 DEF Errand, Deletes, Gone
<1>10. Heard(t)'
  BY <1>1, <1>2, <1>5, <1>8 DEF Heard
<1>11. IndexMeant(ask[t])' /\ \A r \in orphans' : IndexMeant(r)'
  BY <1>1, <1>2 DEF EcInv, LineInv, IndexMeant
<1>12. QED
  BY <1>1, <1>2, <1>3, <1>6, <1>7, <1>9, <1>10, <1>11, OthersKept DEF EcInv, LineInv, LineTypes

LEMMA ServingOrphans ==
  ASSUME EcInv, NEW r, r \in orphans, ServeOrphan(r)
  PROVE  EcInv'
<1>1. /\ r \in Requests /\ IndexMeant(r) /\ ((Holds(r) /\ Effect(r)) \/ UNCHANGED coreVars)
      /\ UNCHANGED <<op, at, ask, reply, open, result, faults>> /\ orphans' = orphans \ {r}
  BY DEF EcInv, LineInv, LineTypes, ServeOrphan
<1>2. /\ CoreInv' /\ UNCHANGED <<list, edits>>
      /\ parts' \subseteq parts /\ shared' \subseteq shared
  <2>1. CoreInv /\ r \in Requests /\ IndexMeant(r)
    BY DEF EcInv, LineInv, LineTypes
  <2>2. CASE Holds(r) /\ Effect(r)
    BY <2>1, <2>2, ServedRightly
  <2>3. CASE UNCHANGED coreVars
    BY <2>1, <2>3, ServedRightly
  <2>4. QED
    BY <1>1, <2>2, <2>3
<1>3. LineTypes' /\ SocketsClosed'
  BY <1>1 DEF EcInv, LineInv, LineTypes, SocketsClosed
<1>4. ASSUME NEW f, Gone(f) PROVE Gone(f)'
  BY <1>2, <1>4 DEF Gone
<1>5. ASSUME NEW u \in EcThreads PROVE Errand(u)' /\ Heard(u)' /\ IndexMeant(ask[u])'
  <2>1. Errand(u)'
    BY <1>1, <1>4 DEF EcInv, LineInv, Errand, Deletes
  <2>2. Heard(u)' /\ IndexMeant(ask[u])'
    BY <1>1, <1>2 DEF EcInv, LineInv, Heard, IndexMeant
  <2>3. QED
    BY <2>1, <2>2
<1>6. \A q \in orphans' : IndexMeant(q)'
  BY <1>1, <1>2 DEF EcInv, LineInv, IndexMeant
<1>7. QED
  BY <1>2, <1>3, <1>5, <1>6 DEF EcInv, LineInv

-----------------------------------------------------------------------------
(* The client's steps leave aMule alone. *)
LEMMA CoreUntouched == ASSUME EcInv, UNCHANGED coreVars
                       PROVE  /\ CoreInv' /\ UNCHANGED <<list, edits>>
                              /\ parts' \subseteq parts /\ shared' \subseteq shared
                              /\ \A r \in orphans : IndexMeant(r)'
BY DEF EcInv, LineInv, coreVars, CoreInv, IndexIsName, IndexMeant

LEMMA Beginning ==
  ASSUME EcInv, NEW t \in EcThreads, NEW o \in EcOps, EcBegin(t, o)
  PROVE  EcInv'
<1>1. /\ op[t] = NoOp /\ at[t] = "idle" /\ result[t] = "none" /\ t \notin open
      /\ op' = [op EXCEPT ![t] = o] /\ at' = [at EXCEPT ![t] = "closed"]
      /\ ask' = [ask EXCEPT ![t] = FirstAsk(o)]
      /\ UNCHANGED <<coreVars, reply, open, orphans, result, faults>>
  BY DEF EcInv, LineInv, EcBegin, Errand, SocketsClosed
<1>2. /\ o # NoOp /\ FirstAsk(o) \in Requests /\ FirstAsk(o).f = o.f
      /\ FirstAsk(o).what # "setcat"
      /\ o.kind = "delete" => FirstAsk(o).what \in {"shared", "part"}
  BY DEF EcOps, NoOp, FirstAsk, Asks, Requests
<1>3. LineTypes'
  BY <1>1, <1>2 DEF EcInv, LineInv, LineTypes
<1>4. SocketsClosed'
  BY <1>1 DEF EcInv, LineInv, LineTypes, SocketsClosed
<1>5. at'[t] = "closed" /\ ask'[t] = FirstAsk(o) /\ op'[t] = o
  BY <1>1 DEF EcInv, LineInv, LineTypes
<1>6. Errand(t)' /\ Heard(t)' /\ IndexMeant(ask[t])'
  <2>1. Errand(t)'
    BY <1>1, <1>2, <1>5 DEF Errand
  <2>2. Heard(t)'
    BY <1>1, <1>5 DEF EcInv, LineInv, Heard, coreVars
  <2>3. IndexMeant(ask[t])'
    BY <1>2, <1>5 DEF IndexMeant
  <2>4. QED
    BY <2>1, <2>2, <2>3
<1>7. QED
  BY <1>1, <1>3, <1>4, <1>6, CoreUntouched, OthersKept DEF EcInv, LineInv, LineTypes

(* To connect, to authenticate, to send: nothing was answered yet. *)
LEMMA Advancing ==
  ASSUME EcInv, NEW t \in EcThreads, EcConnect(t) \/ Authenticate(t) \/ EcSend(t)
  PROVE  EcInv'
<1>1. /\ at[t] # "idle" /\ UNCHANGED <<coreVars, op, ask, reply, orphans, result, faults>>
      /\ open' \in {open, open \cup {t}}
  BY DEF EcConnect, Authenticate, EcSend
<1>2. PICK next \in {"hello", "salted", "ready", "waiting"} : at' = [at EXCEPT ![t] = next]
  BY DEF EcConnect, Authenticate, EcSend, EcInv, LineInv, LineTypes
<1>3. at'[t] = next
  BY <1>2 DEF EcInv, LineInv, LineTypes
<1>4. LineTypes'
  BY <1>1, <1>2 DEF EcInv, LineInv, LineTypes, Connected
<1>5. SocketsClosed'
  BY <1>1, <1>2, <1>3 DEF EcInv, LineInv, LineTypes, SocketsClosed
<1>6. Errand(t)' /\ Heard(t)' /\ IndexMeant(ask[t])'
  BY <1>1, <1>3 DEF EcInv, LineInv, Errand, Heard, IndexMeant, coreVars, Deletes, Gone
<1>7. QED
  BY <1>1, <1>2, <1>4, <1>5, <1>6, CoreUntouched, OthersKept DEF EcInv, LineInv, LineTypes

(* An operation ends: what it says of a deletion is what it heard. *)
LEMMA Ending ==
  ASSUME EcInv, NEW t \in EcThreads, NEW how \in {"ok", "failed", "refused"}, EcEnds(t, how),
         at[t] # "idle",
         how = "ok" /\ op[t].kind = "delete" => Gone(op[t].f),
         UNCHANGED <<coreVars, op, ask, reply>>, orphans' \subseteq orphans \cup {ask[t]},
         faults' \in 0..MaxEcFaults
  PROVE  EcInv'
<1>1. /\ at' = [at EXCEPT ![t] = "idle"] /\ result' = [result EXCEPT ![t] = how]
      /\ open' = open \ {t}
  BY DEF EcEnds
<1>2. at'[t] = "idle" /\ result'[t] = how
  BY <1>1 DEF EcInv, LineInv, LineTypes
<1>3. LineTypes'
  BY <1>1 DEF EcInv, LineInv, LineTypes
<1>4. SocketsClosed'
  BY <1>1 DEF EcInv, LineInv, LineTypes, SocketsClosed
<1>5. op[t] # NoOp
  BY DEF EcInv, LineInv, Errand
<1>6. Errand(t)' /\ Heard(t)' /\ IndexMeant(ask[t])'
  <2>1. Errand(t)'
    BY <1>2, <1>5 DEF Errand, coreVars, Gone
  <2>2. Heard(t)'
    BY <1>2 DEF EcInv, LineInv, Heard, coreVars
  <2>3. IndexMeant(ask[t])'
    BY DEF EcInv, LineInv, IndexMeant, coreVars
  <2>4. QED
    BY <2>1, <2>2, <2>3
<1>7. \A r \in orphans' : IndexMeant(r)'
  BY <1>6, CoreUntouched
<1>8. QED
  BY <1>1, <1>3, <1>4, <1>6, <1>7, CoreUntouched, OthersKept DEF EcInv, LineInv, LineTypes

(* The next request of an operation, in this connection or in a new one. *)
LEMMA AskingOn ==
  ASSUME EcInv, NEW t \in EcThreads, NEW r \in Requests, r.f = op[t].f, IndexMeant(r),
         op[t].kind = "delete" => r.what \in {"known", "part"},
         at[t] = "replied", ask' = [ask EXCEPT ![t] = r],
         \/ at' = [at EXCEPT ![t] = "closed"] /\ open' = open \ {t}
         \/ at' = [at EXCEPT ![t] = "ready"] /\ open' = open,
         UNCHANGED <<coreVars, op, reply, orphans, result, faults>>
  PROVE  EcInv'
<1>1. PICK next \in {"closed", "ready"} :
         /\ at' = [at EXCEPT ![t] = next]
         /\ open' = IF next = "closed" THEN open \ {t} ELSE open
  OBVIOUS
<1>2. at'[t] = next /\ ask'[t] = r
  BY <1>1 DEF EcInv, LineInv, LineTypes
<1>3. LineTypes'
  BY <1>1 DEF EcInv, LineInv, LineTypes, Connected
<1>4. SocketsClosed'
  BY <1>1, <1>2 DEF EcInv, LineInv, LineTypes, SocketsClosed
<1>5. Errand(t)' /\ Heard(t)' /\ IndexMeant(ask[t])'
  <2>1. Errand(t)'
    BY <1>2 DEF EcInv, LineInv, Errand, coreVars
  <2>2. Heard(t)'
    BY <1>2 DEF EcInv, LineInv, Heard, coreVars
  <2>3. IndexMeant(ask[t])'
    BY <1>2 DEF IndexMeant, coreVars
  <2>4. QED
    BY <2>1, <2>2, <2>3
<1>6. QED
  BY <1>1, <1>3, <1>4, <1>5, CoreUntouched, OthersKept DEF EcInv, LineInv, LineTypes

(* The index was found in the list it was asked for. *)
LEMMA Resolving ==
  ASSUME EcInv, NEW t \in EcThreads, HearCategories(t)
  PROVE  EcInv'
<1>1. /\ at[t] = "replied" /\ ask[t].what = "cats"
      /\ UNCHANGED <<coreVars, op, reply, orphans, faults>>
  BY DEF HearCategories
<1>2. /\ op[t] \in EcOps /\ op[t].kind # "delete" /\ ask[t].f = op[t].f /\ ask[t] \in Requests
  BY <1>1 DEF EcInv, LineInv, LineTypes, Errand
<1>3. CASE Unknown(IndexOf(reply[t]))
  <2>1. EcEnds(t, "refused") /\ UNCHANGED ask
    BY <1>3 DEF HearCategories
  <2>2. QED
    BY <1>1, <1>2, <2>1, Ending DEF EcInv, LineInv, LineTypes
<1>4. CASE ~Unknown(IndexOf(reply[t]))
  <2> DEFINE l == reply[t].list  i == IndexOf(reply[t])
  <2>1. /\ ask' = [ask EXCEPT ![t] = NextAsk(t)]
        /\ at' = [at EXCEPT ![t] = "closed"] /\ open' = open \ {t} /\ UNCHANGED result
    BY <1>4 DEF HearCategories
  <2>2. i \in 1..Len(l) /\ l[i] = Expected
    BY <1>4 DEF IndexOf, Unknown
  <2>3. /\ l \in Seq(STRING) /\ reply[t].from \in 0..MaxListEdits /\ reply[t].from <= edits
        /\ Len(l) <= Len(Titles) /\ (reply[t].from = edits => l = list)
    BY <1>1 DEF EcInv, LineInv, LineTypes, Replies, Heard
  <2>4. Len(l) \in Nat /\ Len(Titles) \in Nat
    BY <2>3, EcAssumption, LenProperties
  <2>5. NextAsk(t) = SetCat(op[t].f, i, reply[t].from)
    BY DEF NextAsk
  <2>6. i \in Indices /\ op[t].f \in EcFiles
    <3>1. i \in Indices
      BY <2>2, <2>3, <2>4 DEF Indices
    <3>2. op[t].f \in EcFiles
      BY <1>2 DEF EcOps
    <3>3. QED
      BY <3>1, <3>2
  <2>7. NextAsk(t) \in Requests /\ NextAsk(t).f = op[t].f
    BY <2>3, <2>5, <2>6 DEF SetCat, Requests
  <2>8. IndexMeant(NextAsk(t))
    BY <2>2, <2>3, <2>5 DEF IndexMeant, SetCat
  <2>9. QED
    BY <1>1, <1>2, <2>1, <2>7, <2>8, AskingOn
<1>5. QED
  BY <1>3, <1>4

LEMMA Choosing ==
  ASSUME EcInv, NEW t \in EcThreads, HearShared(t)
  PROVE  EcInv'
<1> DEFINE r == Asks(IF reply[t].says = "listed" THEN "known" ELSE "part", op[t].f)
<1>1. /\ at[t] = "replied" /\ ask[t].what = "shared"
      /\ ask' = [ask EXCEPT ![t] = r] /\ at' = [at EXCEPT ![t] = "ready"]
      /\ UNCHANGED <<coreVars, op, reply, open, orphans, result, faults>>
  BY DEF HearShared
<1>2. op[t] \in EcOps /\ op[t].f \in EcFiles
  BY <1>1 DEF EcInv, LineInv, LineTypes, Errand, EcOps
<1>3. r \in Requests /\ r.what \in {"known", "part"} /\ r.f = op[t].f
  BY <1>2 DEF Asks, Requests
<1> HIDE DEF r
<1>4. IndexMeant(r)
  BY <1>3 DEF IndexMeant
<1>5. QED
  BY <1>1, <1>3, <1>4, AskingOn

LEMMA Acknowledged ==
  ASSUME EcInv, NEW t \in EcThreads, HearAck(t)
  PROVE  EcInv'
<1>1. /\ at[t] = "replied" /\ ask[t].what \in {"known", "part", "cmd", "setcat"}
      /\ EcEnds(t, Outcome(reply[t])) /\ UNCHANGED <<coreVars, op, ask, reply, orphans, faults>>
  BY DEF HearAck
<1>2. Outcome(reply[t]) \in {"ok", "failed", "refused"}
      /\ (Outcome(reply[t]) = "ok" => reply[t].says # "FAILED")
  BY DEF Outcome
<1>3. Outcome(reply[t]) = "ok" /\ op[t].kind = "delete" => Gone(op[t].f)
  BY <1>1, <1>2 DEF EcInv, LineInv, Errand, Deletes
<1>4. QED
  BY <1>1, <1>2, <1>3, Ending DEF EcInv, LineInv, LineTypes

LEMMA Breaking ==
  ASSUME EcInv, NEW t \in EcThreads, EcBreaks(t)
  PROVE  EcInv'
<1>1. /\ at[t] # "idle" /\ EcEnds(t, "failed") /\ UNCHANGED <<coreVars, op, ask, reply>>
      /\ orphans' \subseteq orphans \cup {ask[t]}
  BY DEF EcBreaks, GivesUp, Connected
<1>2. faults' \in 0..MaxEcFaults
  BY EcAssumption DEF EcBreaks, EcInv, LineInv, LineTypes
<1>3. QED
  BY <1>1, <1>2, Ending

-----------------------------------------------------------------------------
LEMMA EcSteps == ASSUME EcInv, [EcNext]_ecVars PROVE EcInv'
<1>1. ASSUME NEW f \in EcFiles, Completes(f) PROVE EcInv'
  BY <1>1, Completing
<1>2. ASSUME NEW i \in Indices, ListEdited(i) PROVE EcInv'
  BY <1>2, Editing
<1>3. ASSUME NEW r \in orphans, ServeOrphan(r) PROVE EcInv'
  BY <1>3, ServingOrphans
<1>4. ASSUME NEW t \in EcThreads, EcServe(t) \/ EcStep(t) \/ EcBreaks(t) PROVE EcInv'
  BY <1>4, Serving, Advancing, Resolving, Choosing, Acknowledged, Breaking DEF EcStep
<1>5. ASSUME NEW t \in EcThreads, NEW o \in EcOps, EcBegin(t, o) PROVE EcInv'
  BY <1>5, Beginning
<1>6. CASE UNCHANGED ecVars
  BY <1>6, LineKept DEF ecVars, coreVars, lineVars, EcInv, CoreInv, IndexIsName
<1>7. QED
  BY <1>1, <1>2, <1>3, <1>4, <1>5, <1>6 DEF EcNext

(* aMule is told the category that was meant while its list is the one that was
   read, and a deletion that answers ok has deleted, in whatever order the requests of
   all connections are served (amule_service.py). *)
THEOREM LineIsTrue == EcSpec => []EcHolds
<1>1. EcInv => EcHolds
  <2> SUFFICES ASSUME EcInv PROVE EcHolds
    OBVIOUS
  <2>1. EcTypeOK
    BY DEF EcInv, CoreInv, LineInv, LineTypes, EcTypeOK
  <2>2. DeletedIsGone
    BY DEF EcInv, LineInv, Errand, Gone, DeletedIsGone
  <2>3. QED
    BY <2>1, <2>2 DEF EcInv, CoreInv, LineInv, EcHolds
<1>2. QED
  BY <1>1, EcStart, EcSteps, PTL DEF EcSpec

-----------------------------------------------------------------------------
(* The renames. A request that moves files is one that was confirmed; the targets that exist
   came to be after it looked, and what is told to the log and to Radarr is what moved. *)
Dialogs == [src : Path, folder : Movies \cup {""}, stem : Seq(STRING), movie : Movies \cup {NoMovie}, edited : BOOLEAN]
Steps == {"none", "listed", "moving", "rescan", "over", "dead"}

RenameTypes ==
  /\ \A p \in DOMAIN files : IsPath(p) /\ files[p] \in Library \cup Incoming
  /\ \A p, q \in DOMAIN files : files[p] = files[q] => p = q
  /\ DOMAIN dialog = Renames /\ \A r \in Renames : dialog[r] \in Dialogs
  /\ step \in [Renames -> Steps]
  /\ DOMAIN siblings = Renames /\ \A r \in Renames : \A p \in siblings[r] : IsPath(p)
  /\ DOMAIN toMove = Renames /\ \A r \in Renames : toMove[r] \subseteq Sources(r)
  /\ DOMAIN moved = Renames /\ DOMAIN failed = Renames /\ DOMAIN late = Renames
  /\ \A l \in lost : l.by \in Renames
  /\ accidents \in 0..MaxAccidents

(* A dialog that was confirmed. *)
Confirmed(r) ==
  /\ IsPath(dialog[r].src) /\ dialog[r].src.ext = "mkv" /\ Words(dialog[r].stem) /\ Allowed(dialog[r])
  /\ dialog[r].folder # "" => Loose(dialog[r].src.dir)
  /\ ~dialog[r].edited /\ Loose(dialog[r].src.dir) /\ dialog[r].folder = "" =>
       dialog[r].stem = dialog[r].src.stem
  /\ \A p \in siblings[r] : p.dir = dialog[r].src.dir

Targets(r) == {mv.to : mv \in moved[r]}
Working(r) == step[r] = "moving" \/ moved[r] # {}

(* What a request is at: the targets that exist came to be after its check, what it has
   not moved failed, is gone or is somebody else's, and what it moved is told. *)
RenameRequestInv(r) ==
  /\ step[r] \in {"none", "listed"} => moved[r] = {} /\ toMove[r] = {}
  /\ step[r] = "listed" \/ Working(r) => Confirmed(r)
  /\ Working(r) => Target(r, dialog[r].src) # dialog[r].src
  /\ step[r] = "moving" => \A p \in toMove[r] : Exists(Target(r, p)) => Target(r, p) \in late[r]
  /\ \A mv \in moved[r] : mv.from \in Sources(r) /\ mv.to = Target(r, mv.from)
  /\ Working(r) /\ step[r] # "dead" =>
       \A p \in Sources(r) \ (late[r] \cup Targets(r)) : p \in toMove[r] \/ p \in failed[r] \/ ~Exists(p)
  /\ step[r] \in {"rescan", "over"} => toMove[r] = {}
  /\ accidents = 0 /\ step[r] \in {"rescan", "over"} => Row(r) \subseteq renameLog
  /\ step[r] = "over" /\ moved[r] # {} /\ dialog[r].movie # NoMovie => r \in rescans

Logged == \A entry \in renameLog : \E r \in Renames : entry \in Row(r)
RenameInv == RenameTypes /\ NothingReplaced /\ Logged /\ \A r \in Renames : RenameRequestInv(r)

-----------------------------------------------------------------------------
(* What depends on a dialog and the listing it was confirmed with. *)
LEMMA SameDialog ==
  ASSUME NEW r \in Renames, dialog'[r] = dialog[r], siblings'[r] = siblings[r]
  PROVE  /\ Sources(r)' = Sources(r) /\ \A p : Target(r, p)' = Target(r, p)
         /\ Confirmed(r)' <=> Confirmed(r)
         /\ moved'[r] = moved[r] => Row(r)' = Row(r)
         /\ moved[r] \subseteq moved'[r] => Row(r) \subseteq Row(r)'
<1>1. Sources(r)' = Sources(r)
  BY DEF Sources
<1>2. \A p : Target(r, p)' = Target(r, p)
  BY DEF Target
<1>3. Confirmed(r)' <=> Confirmed(r)
  BY DEF Confirmed
<1>4. moved'[r] = moved[r] => Row(r)' = Row(r)
  BY DEF Row, VideoMoves
<1>5. moved[r] \subseteq moved'[r] => Row(r) \subseteq Row(r)'
  BY DEF Row, VideoMoves
<1>6. QED
  BY <1>1, <1>2, <1>3, <1>4, <1>5

(* Names that are put together. *)
LEMMA Appending ==
  ASSUME NEW s \in Seq(STRING), NEW e \in STRING
  PROVE  /\ Append(s, e) \in Seq(STRING) /\ Append(s, e) # <<>>
         /\ Len(s) = 1 => Len(Append(s, e)) \in 1..3
<1> DEFINE t == Append(s, e)
           n == Len(t)
           k == Len(s)
<1>1. t \in Seq(STRING) /\ t # <<>> /\ n = k + 1
  BY AppendProperties, Zenon
<1>2. k \in Nat
  BY LenProperties
<1> HIDE DEF t, n, k
<1>3. k = 1 => n \in 1..3
  BY <1>1, <1>2
<1>4. QED
  BY <1>1, <1>3 DEF t, n, k
LEMMA Joined ==
  ASSUME NEW s \in Seq(STRING), NEW t \in Seq(STRING), s # <<>>
  PROVE  s \o t \in Seq(STRING) /\ s \o t # <<>>
<1>1. s \o t \in Seq(STRING)
  BY ConcatProperties
<1>2. s \o t # <<>>
  BY ConcatEqualIffEmpty
<1>3. QED
  BY <1>1, <1>2

LEMMA Deeper ==
  ASSUME NEW s \in Seq(STRING), NEW e \in STRING, Len(s) = 1
  PROVE  \A x : Append(s, e) # <<x>>
<1> DEFINE t == Append(s, e)
           k == Len(s)
<1>1. Len(t) = k + 1
  BY AppendProperties, Zenon
<1> HIDE DEF t, k
<1>2. ASSUME NEW x, t = <<x>> PROVE FALSE
  <2>1. Len(<<x>>) = 1
    OBVIOUS
  <2>2. Len(t) = 1 /\ k = 1
    BY <1>2, <2>1 DEF k
  <2>3. QED
    BY <1>1, <2>2
<1>3. QED
  BY <1>2 DEF t

LEMMA SamePath ==
  ASSUME NEW p \in Path, NEW q \in Path, p.dir = q.dir, p.stem = q.stem, p.ext = q.ext
  PROVE  p = q
BY DEF Path

(* What is added to the new name keeps a sidecar apart. *)
LEMMA Suffixes ==
  ASSUME NEW p \in Path, NEW v \in Path
  PROVE  /\ Suffix(p, v) \in Seq(STRING)
         /\ p = v => Suffix(p, v) = <<>>
         /\ SeqExt!IsPrefix(v.stem, p.stem) => p.stem = v.stem \o Suffix(p, v)
<1> DEFINE s == p.stem
           k == Len(v.stem)
<1>1. s \in Seq(STRING) /\ Len(s) \in Nat /\ v.stem \in Seq(STRING) /\ k \in Nat
  <2>1. p.stem \in Seq(STRING) /\ v.stem \in Seq(STRING)
    BY DEF Path
  <2>2. QED
    BY <2>1, LenProperties
<1>2. Suffix(p, v) = SubSeq(s, k + 1, Len(s))
  BY DEF Suffix
<1> HIDE DEF s, k
<1>3. Suffix(p, v) \in Seq(STRING)
  <2>1. \A i \in (k + 1)..Len(s) : s[i] \in STRING
    BY <1>1, ElementOfSeq
  <2>2. QED
    BY <1>1, <1>2, <2>1, SubSeqProperties
<1>4. p = v => Suffix(p, v) = <<>>
  <2>1. ASSUME p = v PROVE SubSeq(s, k + 1, Len(s)) = <<>>
    <3>1. Len(s) < k + 1
      BY <1>1, <2>1 DEF s, k
    <3>2. QED
      BY <1>1, <3>1, SubSeqEmpty
  <2>2. QED
    BY <1>2, <2>1
<1>5. ASSUME SeqExt!IsPrefix(v.stem, p.stem)
      PROVE  s = v.stem \o Suffix(p, v)
  <2>1. k <= Len(s) /\ SubSeq(v.stem, 1, k) = SubSeq(s, 1, k)
    BY <1>5 DEF SeqExt!IsPrefix, s, k
  <2>2. SubSeq(v.stem, 1, k) = v.stem /\ SubSeq(s, 1, Len(s)) = s
    BY <1>1, SubSeqFull DEF k
  <2>3. SubSeq(s, 1, k) \o SubSeq(s, k + 1, Len(s)) = SubSeq(s, 1, Len(s))
    <3>1. 1 \in 1..Len(s) + 1 /\ k \in (1 - 1)..Len(s) /\ Len(s) \in k..Len(s)
      BY <1>1, <2>1
    <3>2. QED
      BY <1>1, <3>1, ConcatAdjacentSubSeq
  <2>4. QED
    BY <1>2, <2>1, <2>2, <2>3
<1>6. QED
  BY <1>3, <1>4, <1>5 DEF s

LEMMA SourceFacts ==
  ASSUME RenameTypes, NEW r \in Renames, Confirmed(r), NEW p \in Sources(r)
  PROVE  /\ IsPath(p) /\ p.dir = dialog[r].src.dir
         /\ p = dialog[r].src \/ (p.ext = "srt" /\ SeqExt!IsPrefix(dialog[r].src.stem, p.stem))
BY DEF RenameTypes, Confirmed, Sources, IsSidecar

(* A target is a path, the video's is the new name, and no two are the same. *)
LEMMA TargetIsPath ==
  ASSUME RenameAssumption, RenameTypes, NEW r \in Renames, Confirmed(r), NEW p \in Sources(r)
  PROVE  IsPath(Target(r, p))
<1> DEFINE d == dialog[r]
           into == IF d.folder = "" THEN d.src.dir ELSE Append(d.src.dir, d.folder)
           name == d.stem \o Suffix(p, d.src)
<1>1. IsPath(p) /\ IsPath(d.src) /\ d \in Dialogs /\ Words(d.stem)
  BY SourceFacts DEF Confirmed, RenameTypes
<1>2. p \in Path /\ d.src \in Path /\ d.src.dir \in Seq(STRING) /\ Len(d.src.dir) \in 1..3
      /\ d.folder \in Movies \cup {""} /\ d.stem \in Seq(STRING) /\ p.ext \in {"mkv", "srt"} /\ d.stem # <<>>
  BY <1>1 DEF IsPath, Path, Dialogs, Words
<1>3. into \in Seq(STRING) /\ Len(into) \in 1..3
  <2>1. CASE d.folder = ""
    BY <1>2, <2>1
  <2>2. CASE d.folder # ""
    <3>1. PICK root \in Roots : d.src.dir = <<root>>
      BY <2>2 DEF Confirmed, Loose
    <3>2. Len(d.src.dir) = 1 /\ d.folder \in STRING
      BY <1>2, <2>2, <3>1 DEF RenameAssumption
    <3>3. \A s \in Seq(STRING), e \in STRING :
             Len(s) = 1 => Append(s, e) \in Seq(STRING) /\ Len(Append(s, e)) \in 1..3
      BY Appending
    <3>4. Append(d.src.dir, d.folder) \in Seq(STRING) /\ Len(Append(d.src.dir, d.folder)) \in 1..3
      <4> HIDE DEF d
      <4>1. QED
        BY <1>2, <3>2, <3>3
    <3>5. QED
      BY <2>2, <3>4
  <2>3. QED
    BY <2>1, <2>2
<1>4. name \in Seq(STRING) /\ name # <<>>
  <2>1. Suffix(p, d.src) \in Seq(STRING)
    BY <1>2, Suffixes
  <2>2. QED
    BY <1>2, <2>1, Joined
<1>5. \A x, y, z : LET t == [dir |-> x, stem |-> y, ext |-> z] IN
         x \in Seq(STRING) /\ y \in Seq(STRING) /\ z \in {"mkv", "srt"} => t \in Path /\ t.dir = x /\ t.stem = y
  BY DEF Path
<1>6. Target(r, p) = [dir |-> into, stem |-> name, ext |-> p.ext]
  BY DEF Target
<1> HIDE DEF into, name
<1>7. Target(r, p) \in Path /\ Target(r, p).dir = into /\ Target(r, p).stem = name
  <2>1. into \in Seq(STRING) /\ name \in Seq(STRING) /\ p.ext \in {"mkv", "srt"}
    BY <1>2, <1>3, <1>4
  <2>2. LET t == [dir |-> into, stem |-> name, ext |-> p.ext] IN t \in Path /\ t.dir = into /\ t.stem = name
    BY <1>5, <2>1
  <2>3. QED
    BY <1>6, <2>2
<1>8. QED
  BY <1>3, <1>4, <1>7 DEF IsPath, Words

LEMMA VideoTarget ==
  ASSUME RenameTypes, NEW r \in Renames, Confirmed(r)
  PROVE  LET d == dialog[r] IN
         /\ Target(r, d.src).stem = d.stem
         /\ Target(r, d.src).dir = IF d.folder = "" THEN d.src.dir ELSE Append(d.src.dir, d.folder)
         /\ Target(r, d.src).ext = d.src.ext
<1> DEFINE d == dialog[r]
<1>1. d.src \in Path /\ d.stem \in Seq(STRING)
  BY DEF Confirmed, IsPath, RenameTypes, Dialogs
<1>2. Suffix(d.src, d.src) = <<>>
  BY <1>1, Suffixes
<1>3. d.stem \o <<>> = d.stem
  BY <1>1, ConcatEmptySeq
<1>4. QED
  BY <1>2, <1>3 DEF Target

LEMMA TargetsDiffer ==
  ASSUME RenameTypes, NEW r \in Renames, Confirmed(r), NEW p \in Sources(r), NEW q \in Sources(r), p # q
  PROVE  Target(r, p) # Target(r, q)
<1> DEFINE d == dialog[r]
<1>1. /\ IsPath(p) /\ IsPath(q) /\ p.dir = q.dir /\ IsPath(d.src) /\ d.src.ext = "mkv" /\ d.stem \in Seq(STRING)
      /\ p = d.src \/ (p.ext = "srt" /\ SeqExt!IsPrefix(d.src.stem, p.stem))
      /\ q = d.src \/ (q.ext = "srt" /\ SeqExt!IsPrefix(d.src.stem, q.stem))
  <2>1. /\ IsPath(p) /\ p.dir = d.src.dir
        /\ p = d.src \/ (p.ext = "srt" /\ SeqExt!IsPrefix(d.src.stem, p.stem))
    BY SourceFacts
  <2>2. /\ IsPath(q) /\ q.dir = d.src.dir
        /\ q = d.src \/ (q.ext = "srt" /\ SeqExt!IsPrefix(d.src.stem, q.stem))
    BY SourceFacts
  <2>3. IsPath(d.src) /\ d.src.ext = "mkv"
    BY DEF Confirmed
  <2>4. d.stem \in Seq(STRING)
    BY DEF RenameTypes, Dialogs
  <2>5. QED
    BY <2>1, <2>2, <2>3, <2>4
<1>2. p \in Path /\ q \in Path /\ d.src \in Path
  BY <1>1 DEF IsPath
<1>3. /\ Target(r, p).ext = p.ext /\ Target(r, q).ext = q.ext
      /\ Target(r, p).stem = d.stem \o Suffix(p, d.src) /\ Target(r, q).stem = d.stem \o Suffix(q, d.src)
  BY DEF Target
<1>4. CASE p = d.src \/ q = d.src
  <2>1. p.ext # q.ext
    BY <1>1, <1>4
  <2>2. QED
    BY <1>3, <2>1
<1>5. CASE p # d.src /\ q # d.src
  <2>1. p.stem = d.src.stem \o Suffix(p, d.src) /\ q.stem = d.src.stem \o Suffix(q, d.src) /\ p.ext = q.ext
    BY <1>1, <1>2, <1>5, Suffixes
  <2>2. p.stem # q.stem
    <3>1. /\ p = [dir |-> p.dir, stem |-> p.stem, ext |-> p.ext]
          /\ q = [dir |-> q.dir, stem |-> q.stem, ext |-> q.ext]
      BY <1>2 DEF Path
    <3>2. QED
      BY <1>1, <2>1, <3>1
  <2>3. Suffix(p, d.src) # Suffix(q, d.src)
    BY <2>1, <2>2
  <2>4. Suffix(p, d.src) \in Seq(STRING) /\ Suffix(q, d.src) \in Seq(STRING)
    BY <1>2, Suffixes
  <2>5. d.stem \o Suffix(p, d.src) # d.stem \o Suffix(q, d.src)
    <3> DEFINE a == Suffix(p, d.src)
               b == Suffix(q, d.src)
               c == d.stem
    <3>1. a \in Seq(STRING) /\ b \in Seq(STRING) /\ c \in Seq(STRING) /\ a # b
      BY <1>1, <2>3, <2>4
    <3> HIDE DEF a, b, c
    <3>2. c \o a # c \o b
      <4>1. \A x, y, z \in Seq(STRING) : x \o y = x \o z => y = z
        BY ConcatSimplifications, Zenon
      <4>2. QED
        BY <3>1, <4>1
    <3>3. QED
      BY <3>2 DEF a, b, c
  <2>6. QED
    BY <1>3, <2>5
<1>6. QED
  BY <1>4, <1>5

-----------------------------------------------------------------------------
(* A request that a step leaves alone, whatever came to be meanwhile. *)
LeftAlone(r) == /\ dialog'[r] = dialog[r] /\ siblings'[r] = siblings[r] /\ toMove'[r] = toMove[r]
                /\ moved'[r] = moved[r] /\ failed'[r] = failed[r] /\ step'[r] = step[r]

Grows == /\ \A r \in Renames : late[r] \subseteq late'[r]
         /\ renameLog \subseteq renameLog' /\ rescans \subseteq rescans'
         /\ accidents' = 0 => accidents = 0

(* What comes to be is noted by whoever is at work. *)
Noted(r) == step[r] \in {"listed", "moving", "rescan", "over"} =>
              \A p : Exists(p)' => Exists(p) \/ p \in late'[r]

LEMMA AtWork ==
  ASSUME RenameTypes, NEW r \in Renames, RenameRequestInv(r), Working(r), step[r] # "dead"
  PROVE  step[r] \in {"moving", "rescan", "over"}
BY DEF RenameTypes, Steps, RenameRequestInv, Working

LEMMA Stays ==
  ASSUME RenameTypes, NEW r \in Renames, RenameRequestInv(r), LeftAlone(r), Grows, Noted(r)
  PROVE  RenameRequestInv(r)'
<1>1. /\ Sources(r)' = Sources(r) /\ \A p : Target(r, p)' = Target(r, p)
      /\ Confirmed(r)' <=> Confirmed(r)
      /\ Row(r)' = Row(r)
  BY SameDialog DEF LeftAlone
<1>2. Working(r)' <=> Working(r)
  BY DEF Working, LeftAlone
<1>3. Targets(r)' = Targets(r)
  BY DEF Targets, LeftAlone
<1>4. late[r] \subseteq late'[r]
  BY DEF Grows
<1>5. (step[r] \in {"none", "listed"} => moved[r] = {} /\ toMove[r] = {})'
  BY DEF RenameRequestInv, LeftAlone
<1>6. (step[r] = "listed" \/ Working(r) => Confirmed(r))'
  BY <1>1, <1>2 DEF RenameRequestInv, LeftAlone
<1>7. (Working(r) => Target(r, dialog[r].src) # dialog[r].src)'
  BY <1>1, <1>2 DEF RenameRequestInv, LeftAlone
<1>8. (step[r] = "moving" => \A p \in toMove[r] : Exists(Target(r, p)) => Target(r, p) \in late[r])'
  <2>1. SUFFICES ASSUME step[r] = "moving", NEW p \in toMove[r], Exists(Target(r, p))'
                 PROVE  Target(r, p)' \in late'[r]
    BY DEF LeftAlone
  <2>2. Target(r, p)' = Target(r, p)
    BY <1>1
  <2> DEFINE to == Target(r, p)
  <2>3. to \in DOMAIN files'
    BY <2>1, <2>2 DEF Exists
  <2>4. \A q : q \in DOMAIN files' => Exists(q) \/ q \in late'[r]
    BY <2>1 DEF Noted, Exists
  <2>5. Exists(to) => to \in late[r]
    BY <2>1 DEF RenameRequestInv
  <2>6. QED
    BY <1>4, <2>2, <2>3, <2>4, <2>5
<1>9. (\A mv \in moved[r] : mv.from \in Sources(r) /\ mv.to = Target(r, mv.from))'
  BY <1>1 DEF RenameRequestInv, LeftAlone
<1>10. (Working(r) /\ step[r] # "dead" =>
          \A p \in Sources(r) \ (late[r] \cup Targets(r)) : p \in toMove[r] \/ p \in failed[r] \/ ~Exists(p))'
  <2>1. SUFFICES ASSUME Working(r), step[r] # "dead", NEW p \in Sources(r), p \notin late'[r], p \notin Targets(r)
                 PROVE  p \in toMove[r] \/ p \in failed[r] \/ p \notin DOMAIN files'
    BY <1>1, <1>2, <1>3 DEF LeftAlone, Exists
  <2>2. step[r] \in {"moving", "rescan", "over"}
    BY <2>1, AtWork
  <2>3. p \in DOMAIN files' => Exists(p)
    BY <2>1, <2>2 DEF Noted, Exists
  <2>4. p \in toMove[r] \/ p \in failed[r] \/ ~Exists(p)
    BY <1>4, <2>1 DEF RenameRequestInv
  <2>5. QED
    BY <2>3, <2>4
<1>11. (step[r] \in {"rescan", "over"} => toMove[r] = {})'
  BY DEF RenameRequestInv, LeftAlone
<1>12. (accidents = 0 /\ step[r] \in {"rescan", "over"} => Row(r) \subseteq renameLog)'
  BY <1>1 DEF RenameRequestInv, LeftAlone, Grows
<1>13. (step[r] = "over" /\ moved[r] # {} /\ dialog[r].movie # NoMovie => r \in rescans)'
  BY DEF RenameRequestInv, LeftAlone, Grows
<1>14. QED
  BY <1>5, <1>6, <1>7, <1>8, <1>9, <1>10, <1>11, <1>12, <1>13 DEF RenameRequestInv

-----------------------------------------------------------------------------
(* What is proposed for a path. *)
LEMMA Proposes ==
  ASSUME RenameAssumption, NEW p, IsPath(p), NEW m \in Movies \cup {NoMovie}, NEW probed \in BOOLEAN
  PROVE  LET got == Proposal(p, m, probed) IN
         /\ got.movie \in Movies \cup {NoMovie} /\ got.stem \in Seq(STRING) /\ Words(got.stem)
         /\ got.folder \in Movies \cup {""} /\ (got.folder # "" => Loose(p.dir))
         /\ Loose(p.dir) /\ got.folder = "" => got.stem = p.stem
<1> DEFINE w == IF m # NoMovie THEN m ELSE MatchMovie(p.stem)
           named == Trusted(w, m # NoMovie) /\ probed
<1>1. w \in Movies \cup {NoMovie}
  BY DEF MatchMovie
<1> DEFINE got == Proposal(p, m, probed)
<1>2. /\ got.movie = w /\ got.stem = (IF named THEN Rendered(w) ELSE p.stem)
      /\ got.folder = (IF named /\ Loose(p.dir) THEN w ELSE "")
  BY DEF Proposal
<1>3. named \in BOOLEAN /\ (named => w # NoMovie)
  BY DEF Trusted
<1>4. p.stem \in Seq(STRING) /\ Words(p.stem)
  BY DEF IsPath, Path
<1> HIDE DEF w, named, got
<1>5. CASE named
  <2>1. w \in Movies /\ w \in STRING /\ w # ""
    BY <1>1, <1>3, <1>5 DEF RenameAssumption
  <2>2. Rendered(w) \in Seq(STRING) /\ Words(Rendered(w))
    <3>1. TitleOf[w] \in Seq(STRING)
      BY <2>1 DEF RenameAssumption
    <3>2. \A s \in Seq(STRING), e \in STRING : Append(s, e) \in Seq(STRING) /\ Append(s, e) # <<>>
      BY Appending
    <3>3. QED
      BY <3>1, <3>2 DEF Rendered, Words, RenameAssumption
  <2>3. got.movie = w /\ got.stem = Rendered(w) /\ got.folder = IF Loose(p.dir) THEN w ELSE ""
    BY <1>2, <1>3, <1>5
  <2>4. got.folder \in Movies \cup {""} /\ (got.folder # "" => Loose(p.dir))
    BY <2>1, <2>3
  <2>5. ~(Loose(p.dir) /\ got.folder = "")
    BY <2>1, <2>3
  <2>6. QED
    BY <1>1, <2>2, <2>3, <2>4, <2>5 DEF got
<1>6. CASE ~named
  <2>1. got.movie = w /\ got.stem = p.stem /\ got.folder = ""
    BY <1>2, <1>3, <1>6
  <2>2. QED
    BY <1>1, <1>4, <2>1 DEF got
<1>7. QED
  BY <1>5, <1>6

-----------------------------------------------------------------------------
LEMMA NoneYet == \A n \in Nat : 0 \in 0..n
OBVIOUS

LEMMA Bounded ==
  ASSUME NEW n \in Nat, NEW k \in 0..n, NEW j, j = k \/ (k < n /\ j = k + 1)
  PROVE  k \in Nat /\ j \in 0..n /\ (j = 0 => k = 0 /\ j # k + 1)
OBVIOUS

LEMMA RenamesStart == ASSUME RenameAssumption, RenameInit PROVE RenameInv
<1>1. NoDialog \in Dialogs
  <2>1. (CHOOSE p \in Library : TRUE) \in Library
    BY DEF RenameAssumption
  <2>2. (CHOOSE p \in Library : TRUE) \in Path
    BY <2>1 DEF RenameAssumption, IsPath
  <2>3. QED
    BY <2>2, EmptySeq DEF NoDialog, Dialogs
<1>2. RenameTypes
  <2>1. \A p \in DOMAIN files : IsPath(p) /\ files[p] \in Library \cup Incoming
    BY DEF RenameInit, RenameAssumption
  <2>2. \A p, q \in DOMAIN files : files[p] = files[q] => p = q
    BY DEF RenameInit
  <2>3. DOMAIN dialog = Renames /\ \A r \in Renames : dialog[r] \in Dialogs
    BY <1>1 DEF RenameInit
  <2>4. step \in [Renames -> Steps]
    BY DEF RenameInit, Steps
  <2>5. DOMAIN siblings = Renames /\ \A r \in Renames : \A p \in siblings[r] : IsPath(p)
    BY DEF RenameInit
  <2>6. DOMAIN toMove = Renames /\ \A r \in Renames : toMove[r] \subseteq Sources(r)
    BY DEF RenameInit
  <2>7. DOMAIN moved = Renames /\ DOMAIN failed = Renames /\ DOMAIN late = Renames
    BY DEF RenameInit
  <2>8. (\A l \in lost : l.by \in Renames) /\ accidents \in 0..MaxAccidents
    <3>1. MaxAccidents \in Nat /\ lost = {} /\ accidents = 0
      BY DEF RenameInit, RenameAssumption
    <3>2. accidents \in 0..MaxAccidents
      BY <3>1, NoneYet
    <3>3. QED
      BY <3>1, <3>2
  <2>9. QED
    BY <2>1, <2>2, <2>3, <2>4, <2>5, <2>6, <2>7, <2>8 DEF RenameTypes
<1>3. NothingReplaced /\ Logged
  BY DEF RenameInit, NothingReplaced, Logged
<1>4. ASSUME NEW r \in Renames PROVE RenameRequestInv(r)
  <2>1. step[r] = "none" /\ toMove[r] = {} /\ moved[r] = {}
    BY DEF RenameInit
  <2>2. ~Working(r)
    BY <2>1 DEF Working
  <2>3. QED
    BY <2>1, <2>2 DEF RenameRequestInv
<1>5. QED
  BY <1>2, <1>3, <1>4 DEF RenameInv

(* Rows stay rows of the renames that made them. *)
LEMMA LogStays ==
  ASSUME Logged, renameLog' = renameLog, \A r \in Renames : Row(r) \subseteq Row(r)'
  PROVE  Logged'
BY DEF Logged

(* What was replaced stays excused. *)
LEMMA ExcuseStays ==
  ASSUME RenameTypes, NothingReplaced, lost' = lost, Grows
  PROVE  NothingReplaced'
BY DEF RenameTypes, NothingReplaced, Grows

(* A request that has moved nothing and will not. *)
LEMMA NothingToMove ==
  ASSUME NEW r \in Renames, moved'[r] = {}, toMove'[r] = {}, step'[r] # "moving",
         step'[r] = "listed" => Confirmed(r)'
  PROVE  RenameRequestInv(r)'
<1>1. ~Working(r)'
  BY DEF Working
<1>2. Row(r)' = {}
  BY DEF Row, VideoMoves
<1>3. QED
  BY <1>1, <1>2 DEF RenameRequestInv

(* A dialog is confirmed. *)
LEMMA ApplyStep ==
  ASSUME RenameAssumption, RenameInv, NEW r \in Renames, NEW p \in Library \cup DOMAIN files,
         NEW m \in Movies \cup {NoMovie}, NEW probed \in BOOLEAN, NEW typed \in Typed \cup {<<>>},
         ApplyDialog(r, p, m, Proposal(p, m, probed), typed)
  PROVE  RenameInv'
<1> DEFINE got == Proposal(p, m, probed)
           d == [src |-> p, folder |-> got.folder, movie |-> m, edited |-> typed # <<>>,
                 stem |-> IF typed = <<>> THEN got.stem ELSE typed]
<1>1. /\ step[r] = "none" /\ p.ext = "mkv"
      /\ IF Allowed(d) THEN /\ dialog' = [dialog EXCEPT ![r] = d]
                            /\ siblings' = [siblings EXCEPT ![r] = {q \in DOMAIN files : q.dir = p.dir}]
                            /\ step' = [step EXCEPT ![r] = "listed"]
                       ELSE step' = [step EXCEPT ![r] = "over"] /\ UNCHANGED <<dialog, siblings>>
      /\ files' = files /\ toMove' = toMove /\ moved' = moved /\ failed' = failed /\ renameLog' = renameLog
      /\ rescans' = rescans /\ late' = late /\ lost' = lost /\ accidents' = accidents
  BY DEF ApplyDialog, Ends
<1>2. RenameTypes /\ NothingReplaced /\ Logged /\ \A o \in Renames : RenameRequestInv(o)
  BY DEF RenameInv
<1>3. moved[r] = {} /\ toMove[r] = {}
  BY <1>1, <1>2 DEF RenameRequestInv
<1>4. IsPath(p)
  BY <1>2 DEF RenameTypes, RenameAssumption
<1>5. /\ got.stem \in Seq(STRING) /\ Words(got.stem) /\ got.folder \in Movies \cup {""}
      /\ got.folder # "" => Loose(p.dir)
      /\ Loose(p.dir) /\ got.folder = "" => got.stem = p.stem
  BY <1>4, Proposes
<1>6. typed # <<>> => typed \in Seq(STRING) /\ Words(typed)
  BY DEF RenameAssumption
<1> HIDE DEF got
<1>7. /\ d \in Dialogs /\ Words(d.stem) /\ d.src = p /\ d.folder = got.folder
      /\ d.edited = (typed # <<>>) /\ d.stem = IF typed = <<>> THEN got.stem ELSE typed
  BY <1>4, <1>5, <1>6 DEF Dialogs, IsPath
<1> HIDE DEF d
<1>8. ASSUME NEW o \in Renames, o # r
      PROVE  LeftAlone(o)
  <2>1. CASE Allowed(d)
    BY <1>1, <1>2, <1>8, <2>1 DEF LeftAlone, RenameTypes
  <2>2. CASE ~Allowed(d)
    BY <1>1, <1>2, <1>8, <2>2 DEF LeftAlone, RenameTypes
  <2>3. QED
    BY <2>1, <2>2
<1>9. Grows /\ \A o \in Renames : Noted(o)
  BY <1>1 DEF Grows, Noted, Exists
<1>10. \A o \in Renames : o # r => RenameRequestInv(o)' /\ Sources(o)' = Sources(o) /\ Row(o) \subseteq Row(o)'
  <2>1. TAKE o \in Renames
  <2>2. HAVE o # r
  <2>3. LeftAlone(o)
    BY <1>8, <2>2
  <2>4. RenameRequestInv(o)'
    BY <1>2, <1>9, <2>3, Stays
  <2>5. Sources(o)' = Sources(o) /\ Row(o) \subseteq Row(o)'
    BY <2>3, SameDialog DEF LeftAlone
  <2>6. QED
    BY <2>4, <2>5
<1>11. NothingReplaced' /\ Logged'
  <2>1. Row(r) = {}
    BY <1>3 DEF Row, VideoMoves
  <2>2. \A o \in Renames : Row(o) \subseteq Row(o)'
    BY <1>10, <2>1
  <2>3. Logged'
    BY <1>1, <1>2, <2>2, LogStays
  <2>4. QED
    BY <1>1, <1>2, <1>9, <2>3, ExcuseStays
<1>12. \A o \in Renames : toMove'[o] \subseteq Sources(o)'
  <2>1. TAKE o \in Renames
  <2>2. CASE o = r
    BY <1>1, <1>3, <2>2
  <2>3. CASE o # r
    <3>1. Sources(o)' = Sources(o)
      BY <1>10, <2>3
    <3>2. toMove[o] \subseteq Sources(o)
      BY <1>2 DEF RenameTypes
    <3>3. QED
      BY <1>1, <3>1, <3>2
  <2>4. QED
    BY <2>2, <2>3
<1>13. CASE Allowed(d)
  <2>1. dialog'[r] = d /\ siblings'[r] = {q \in DOMAIN files : q.dir = p.dir} /\ step'[r] = "listed"
    BY <1>1, <1>2, <1>13 DEF RenameTypes
  <2>2. Confirmed(r)'
    <3>1. Allowed(dialog'[r])
      BY <1>13, <2>1
    <3>2. IsPath(dialog'[r].src) /\ dialog'[r].src.ext = "mkv" /\ Words(dialog'[r].stem)
      BY <1>1, <1>4, <1>7, <2>1
    <3>3. /\ dialog'[r].folder # "" => Loose(dialog'[r].src.dir)
          /\ ~dialog'[r].edited /\ Loose(dialog'[r].src.dir) /\ dialog'[r].folder = "" =>
                dialog'[r].stem = dialog'[r].src.stem
      BY <1>5, <1>7, <2>1
    <3>4. \A q \in siblings'[r] : q.dir = dialog'[r].src.dir
      BY <1>7, <2>1
    <3>5. QED
      BY <3>1, <3>2, <3>3, <3>4 DEF Confirmed
  <2>3. RenameRequestInv(r)'
    BY <1>1, <1>3, <2>1, <2>2, NothingToMove
  <2>4. RenameTypes'
    <3>1. /\ DOMAIN dialog' = Renames /\ \A o \in Renames : dialog'[o] \in Dialogs
      BY <1>1, <1>2, <1>7, <1>13, <2>1 DEF RenameTypes
    <3>2. step' \in [Renames -> Steps]
      BY <1>1, <1>2, <1>13 DEF RenameTypes, Steps
    <3>3. DOMAIN siblings' = Renames /\ \A o \in Renames : \A q \in siblings'[o] : IsPath(q)
      <4>1. \A q \in siblings'[r] : IsPath(q)
        BY <1>2, <2>1 DEF RenameTypes
      <4>2. QED
        BY <1>1, <1>2, <1>13, <4>1 DEF RenameTypes
    <3>4. DOMAIN toMove' = Renames /\ \A o \in Renames : toMove'[o] \subseteq Sources(o)'
      BY <1>1, <1>2, <1>12 DEF RenameTypes
    <3>5. QED
      BY <1>1, <1>2, <3>1, <3>2, <3>3, <3>4 DEF RenameTypes
  <2>5. QED
    BY <1>10, <1>11, <2>3, <2>4 DEF RenameInv
<1>14. CASE ~Allowed(d)
  <2>1. step'[r] = "over" /\ dialog' = dialog /\ siblings' = siblings
    BY <1>1, <1>2, <1>14 DEF RenameTypes
  <2>2. RenameRequestInv(r)'
    BY <1>1, <1>3, <2>1, NothingToMove
  <2>3. Sources(r)' = Sources(r)
    BY <2>1 DEF Sources
  <2>4. step' \in [Renames -> Steps]
    BY <1>1, <1>2, <1>14 DEF RenameTypes, Steps
  <2>5. RenameTypes'
    BY <1>1, <1>2, <1>12, <2>1, <2>4 DEF RenameTypes
  <2>6. QED
    BY <1>10, <1>11, <2>2, <2>5 DEF RenameInv
<1>15. QED
  BY <1>13, <1>14

(* The dialogs stay as they are: so do the sources and the names they get. *)
Fixed == dialog' = dialog /\ siblings' = siblings

LEMMA FixedFacts ==
  ASSUME Fixed, NEW r \in Renames
  PROVE  /\ Sources(r)' = Sources(r) /\ \A p : Target(r, p)' = Target(r, p)
         /\ Confirmed(r)' <=> Confirmed(r)
         /\ moved'[r] = moved[r] => Row(r)' = Row(r)
         /\ moved[r] \subseteq moved'[r] => Row(r) \subseteq Row(r)'
BY SameDialog DEF Fixed

LEMMA LogKeeps ==
  ASSUME RenameInv, Fixed, renameLog' = renameLog, \A r \in Renames : moved[r] \subseteq moved'[r]
  PROVE  Logged'
<1>1. \A r \in Renames : Row(r) \subseteq Row(r)'
  BY FixedFacts
<1>2. QED
  BY <1>1, LogStays DEF RenameInv

(* What is to be moved are sources. *)
LEMMA ToMoveKeeps ==
  ASSUME RenameTypes, Fixed, \A r \in Renames : toMove'[r] \subseteq toMove[r] \cup Sources(r)
  PROVE  \A r \in Renames : toMove'[r] \subseteq Sources(r)'
<1>1. TAKE r \in Renames
<1>2. Sources(r)' = Sources(r)
  BY FixedFacts
<1>3. QED
  BY <1>2 DEF RenameTypes

(* The types, when only the requests move on. *)
LEMMA TypesKeep ==
  ASSUME RenameTypes, Fixed, files' = files, lost' = lost, accidents' \in 0..MaxAccidents,
         step' \in [Renames -> Steps], DOMAIN toMove' = Renames,
         \A r \in Renames : toMove'[r] \subseteq toMove[r] \cup Sources(r),
         DOMAIN moved' = Renames, DOMAIN failed' = Renames, DOMAIN late' = Renames
  PROVE  RenameTypes'
<1>1. \A r \in Renames : toMove'[r] \subseteq Sources(r)'
  BY ToMoveKeeps
<1>2. QED
  BY <1>1 DEF RenameTypes, Fixed

LEMMA CheckStep ==
  ASSUME RenameInv, NEW r \in Renames, CheckRename(r)
  PROVE  RenameInv'
<1>1. /\ step[r] = "listed" /\ files' = files /\ moved' = moved /\ failed' = failed
      /\ renameLog' = renameLog /\ rescans' = rescans /\ late' = late /\ lost' = lost
      /\ accidents' = accidents /\ Fixed
  BY DEF CheckRename, Fixed
<1>2. RenameTypes /\ NothingReplaced /\ Logged /\ \A o \in Renames : RenameRequestInv(o)
  BY DEF RenameInv
<1>3. moved[r] = {} /\ toMove[r] = {} /\ Confirmed(r)
  BY <1>1, <1>2 DEF RenameRequestInv
<1>4. Grows /\ \A o \in Renames : Noted(o)
  BY <1>1 DEF Grows, Noted, Exists
<1>5. NothingReplaced' /\ Logged'
  BY <1>1, <1>2, <1>4, LogKeeps, ExcuseStays
<1>6. CASE /\ Exists(dialog[r].src) /\ ~Collides(r)
           /\ toMove' = [toMove EXCEPT ![r] = Sources(r)]
           /\ step' = [step EXCEPT ![r] = "moving"]
  <2>1. toMove'[r] = Sources(r) /\ step'[r] = "moving"
    BY <1>2, <1>6 DEF RenameTypes
  <2>2. \A p \in Sources(r) : ~Exists(Target(r, p))
    BY <1>6 DEF Collides
  <2>3. Target(r, dialog[r].src) # dialog[r].src
    BY <1>6, <2>2 DEF Sources
  <2>4. RenameRequestInv(r)'
    <3>1. /\ Sources(r)' = Sources(r) /\ (\A p : Target(r, p)' = Target(r, p))
          /\ Confirmed(r)'
      BY <1>1, <1>3, FixedFacts
    <3>2. dialog'[r] = dialog[r]
      BY <1>1 DEF Fixed
    <3>3. (Target(r, dialog[r].src) # dialog[r].src)'
      BY <2>3, <3>1, <3>2
    <3>4. (\A p \in toMove[r] : Exists(Target(r, p)) => Target(r, p) \in late[r])'
      <4>1. SUFFICES ASSUME NEW p \in Sources(r), Exists(Target(r, p))'
                     PROVE  FALSE
        BY <2>1
      <4>2. Target(r, p)' = Target(r, p)
        BY <3>1
      <4>3. QED
        BY <1>1, <2>2, <4>1, <4>2 DEF Exists
    <3>5. (\A p \in Sources(r) \ (late[r] \cup Targets(r)) : p \in toMove[r] \/ p \in failed[r] \/ ~Exists(p))'
      BY <2>1, <3>1
    <3>6. (\A mv \in moved[r] : mv.from \in Sources(r) /\ mv.to = Target(r, mv.from))'
      BY <1>1, <1>3
    <3>7. QED
      BY <2>1, <3>1, <3>3, <3>4, <3>5, <3>6 DEF RenameRequestInv
  <2>5. RenameTypes'
    <3>1. step' \in [Renames -> Steps]
      BY <1>2, <1>6 DEF RenameTypes, Steps
    <3>2. DOMAIN toMove' = Renames /\ \A o \in Renames : toMove'[o] \subseteq toMove[o] \cup Sources(o)
      BY <1>2, <1>6 DEF RenameTypes
    <3>3. QED
      BY <1>1, <1>2, <3>1, <3>2, TypesKeep DEF RenameTypes
  <2>6. ASSUME NEW o \in Renames, o # r PROVE RenameRequestInv(o)'
    <3>1. LeftAlone(o)
      BY <1>1, <1>2, <1>6, <2>6 DEF LeftAlone, RenameTypes, Fixed
    <3>2. QED
      BY <1>2, <1>4, <3>1, Stays
  <2>7. QED
    BY <1>5, <2>4, <2>5, <2>6 DEF RenameInv
<1>7. CASE Ends(r) /\ UNCHANGED toMove
  <2>1. toMove' = toMove /\ step'[r] = "over"
    BY <1>2, <1>7 DEF RenameTypes, Ends
  <2>2. RenameRequestInv(r)'
    BY <1>1, <1>3, <2>1, NothingToMove
  <2>3. step' \in [Renames -> Steps]
    BY <1>2, <1>7 DEF RenameTypes, Steps, Ends
  <2>4. RenameTypes'
    <3>1. DOMAIN toMove' = Renames /\ \A o \in Renames : toMove'[o] \subseteq toMove[o] \cup Sources(o)
      BY <1>2, <2>1 DEF RenameTypes
    <3>2. QED
      BY <1>1, <1>2, <2>3, <3>1, TypesKeep DEF RenameTypes
  <2>5. ASSUME NEW o \in Renames, o # r PROVE RenameRequestInv(o)'
    <3>1. LeftAlone(o)
      BY <1>1, <1>2, <1>7, <2>5 DEF LeftAlone, RenameTypes, Fixed, Ends
    <3>2. QED
      BY <1>2, <1>4, <3>1, Stays
  <2>6. QED
    BY <1>5, <2>2, <2>4, <2>5 DEF RenameInv
<1>8. QED
  BY <1>6, <1>7 DEF CheckRename

(* One file is renamed: what exists then is what existed and the target, which others
   that are at work have noted. *)
LEMMA MoveStep ==
  ASSUME RenameAssumption, RenameInv, NEW r \in Renames, NEW p \in toMove[r], MoveFile(r, p)
  PROVE  RenameInv'
<1> DEFINE to == Target(r, p)
           mv == [from |-> p, to |-> to, file |-> files[p]]
<1>1. /\ step[r] = "moving" /\ Exists(p) /\ step' = step /\ failed' = failed /\ renameLog' = renameLog
      /\ rescans' = rescans /\ accidents' = accidents /\ Fixed
      /\ files' = [q \in (DOMAIN files \ {p}) \cup {to} |-> IF q = to THEN files[p] ELSE files[q]]
      /\ lost' = (IF Exists(to) THEN lost \cup {[by |-> r, at |-> to]} ELSE lost)
      /\ late' = [Occupied(to) EXCEPT ![r] = late[r]]
      /\ toMove' = [toMove EXCEPT ![r] = @ \ {p}]
      /\ moved' = [moved EXCEPT ![r] = @ \cup {mv}]
  BY DEF MoveFile, Turn, Fixed
<1>2. RenameTypes /\ NothingReplaced /\ Logged /\ \A o \in Renames : RenameRequestInv(o)
  BY DEF RenameInv
<1>3. Working(r) /\ Confirmed(r) /\ p \in Sources(r)
  BY <1>1, <1>2 DEF RenameRequestInv, Working, RenameTypes
<1>4. IsPath(to)
  BY <1>2, <1>3, TargetIsPath
<1> DEFINE note == [by |-> r, at |-> to]
<1> HIDE DEF to
<1>5. /\ late'[r] = late[r] /\ toMove'[r] = toMove[r] \ {p} /\ moved'[r] = moved[r] \cup {mv}
      /\ \A o \in Renames : late[o] \subseteq late'[o]
      /\ \A o \in Renames : o # r => toMove'[o] = toMove[o] /\ moved'[o] = moved[o]
      /\ \A o \in Renames : o # r /\ step[o] \in {"listed", "moving", "rescan", "over"} => to \in late'[o]
      /\ DOMAIN late' = Renames
  BY <1>1, <1>2 DEF RenameTypes, Occupied
<1>6. \A q : Exists(q)' => Exists(q) \/ q = to
  BY <1>1 DEF Exists
<1>7. Grows /\ \A o \in Renames : o # r => Noted(o)
  <2>1. Grows
    BY <1>1, <1>5 DEF Grows
  <2>2. ASSUME NEW o \in Renames, o # r PROVE Noted(o)
    <3>1. step[o] \in {"listed", "moving", "rescan", "over"} => to \in late'[o]
      BY <1>5, <2>2
    <3>2. QED
      BY <1>6, <3>1 DEF Noted
  <2>3. QED
    BY <2>1, <2>2
<1>8. ASSUME NEW o \in Renames, o # r PROVE RenameRequestInv(o)'
  <2>1. LeftAlone(o)
    BY <1>1, <1>5, <1>8 DEF LeftAlone, Fixed
  <2>2. QED
    BY <1>2, <1>7, <1>8, <2>1, Stays
<1>9. RenameRequestInv(r)'
  <2>1. /\ Sources(r)' = Sources(r) /\ (\A q : Target(r, q)' = Target(r, q))
        /\ Confirmed(r)' /\ dialog'[r] = dialog[r] /\ step'[r] = "moving"
    BY <1>1, <1>3, FixedFacts DEF Fixed
  <2>2. (Target(r, dialog[r].src) # dialog[r].src)'
    BY <1>2, <1>3, <2>1 DEF RenameRequestInv
  <2>3. (\A q \in toMove[r] : Exists(Target(r, q)) => Target(r, q) \in late[r])'
    <3>1. SUFFICES ASSUME NEW q \in toMove[r], q # p, Exists(Target(r, q))'
                   PROVE  Target(r, q) \in late[r]
      BY <1>5, <2>1
    <3>2. q \in Sources(r)
      BY <1>2 DEF RenameTypes
    <3>3. Target(r, q) # to
      BY <1>2, <1>3, <3>1, <3>2, TargetsDiffer DEF to
    <3>4. Exists(Target(r, q))
      <4>1. Target(r, q)' = Target(r, q)
        BY <2>1
      <4>2. Target(r, q) \in DOMAIN files'
        BY <3>1, <4>1 DEF Exists
      <4>3. QED
        BY <1>1, <3>3, <4>2 DEF Exists
    <3>5. QED
      BY <1>1, <1>2, <3>4 DEF RenameRequestInv
  <2>4. (\A m \in moved[r] : m.from \in Sources(r) /\ m.to = Target(r, m.from))'
    <3>1. mv.from \in Sources(r) /\ mv.to = Target(r, mv.from)
      BY <1>3 DEF to
    <3>2. \A m \in moved[r] : m.from \in Sources(r) /\ m.to = Target(r, m.from)
      BY <1>2 DEF RenameRequestInv
    <3>3. QED
      BY <1>5, <2>1, <3>1, <3>2
  <2>5. (\A q \in Sources(r) \ (late[r] \cup Targets(r)) : q \in toMove[r] \/ q \in failed[r] \/ ~Exists(q))'
    <3>1. Targets(r)' = Targets(r) \cup {to}
      <4>1. mv.to = to
        OBVIOUS
      <4> HIDE DEF mv
      <4>2. moved'[r] = moved[r] \cup {mv}
        BY <1>5
      <4>3. QED
        BY <4>1, <4>2, Zenon DEF Targets
    <3>2. SUFFICES ASSUME NEW q \in Sources(r), q \notin late[r], q \notin Targets(r), q # to
                   PROVE  q \in toMove'[r] \/ q \in failed[r] \/ q \notin DOMAIN files'
      BY <1>1, <1>5, <2>1, <3>1 DEF Exists
    <3>3. q \in toMove[r] \/ q \in failed[r] \/ ~Exists(q)
      BY <1>1, <1>2, <1>3, <3>2 DEF RenameRequestInv
    <3>4. p \notin DOMAIN files' \/ p = to
      BY <1>1
    <3>5. ~Exists(q) => q \notin DOMAIN files'
      BY <1>1, <3>2 DEF Exists
    <3>6. QED
      BY <1>5, <3>2, <3>3, <3>4, <3>5
  <2>6. QED
    BY <2>1, <2>2, <2>3, <2>4, <2>5 DEF RenameRequestInv
<1>10. RenameTypes'
  <2>1. \A q \in DOMAIN files' : IsPath(q) /\ files'[q] \in Library \cup Incoming
    BY <1>1, <1>2, <1>4 DEF RenameTypes, Exists
  <2>2. \A q, t \in DOMAIN files' : files'[q] = files'[t] => q = t
    BY <1>1, <1>2 DEF RenameTypes, Exists
  <2>3. \A o \in Renames : toMove'[o] \subseteq Sources(o)'
    <3>1. TAKE o \in Renames
    <3>2. Sources(o)' = Sources(o) /\ toMove'[o] \subseteq toMove[o]
      BY <1>1, <1>5, FixedFacts
    <3>3. QED
      BY <1>2, <3>2 DEF RenameTypes
  <2>4. DOMAIN toMove' = Renames /\ DOMAIN moved' = Renames
    BY <1>1, <1>2 DEF RenameTypes
  <2>5. \A l \in lost' : l.by \in Renames
    <3>1. \A l \in lost' : l \in lost \/ l = note
      BY <1>1
    <3>2. note.by = r
      OBVIOUS
    <3> HIDE DEF note
    <3>3. QED
      BY <1>2, <3>1, <3>2 DEF RenameTypes
  <2>6. QED
    BY <1>1, <1>2, <1>5, <2>1, <2>2, <2>3, <2>4, <2>5 DEF RenameTypes, Fixed
<1>11. NothingReplaced'
  <2>1. \A l \in lost : l.at \in late'[l.by]
    BY <1>2, <1>5 DEF NothingReplaced, RenameTypes
  <2>2. Exists(to) => to \in late'[r]
    BY <1>1, <1>2, <1>5 DEF RenameRequestInv, to
  <2>3. \A l \in lost' : l \in lost \/ (Exists(to) /\ l.by = r /\ l.at = to)
    <3>1. \A l \in lost' : l \in lost \/ (Exists(to) /\ l = note)
      BY <1>1
    <3>2. note.by = r /\ note.at = to
      OBVIOUS
    <3> HIDE DEF note
    <3>3. QED
      BY <3>1, <3>2
  <2>4. QED
    BY <2>1, <2>2, <2>3 DEF NothingReplaced
<1>12. Logged'
  <2>1. \A o \in Renames : moved[o] \subseteq moved'[o]
    BY <1>5
  <2>2. QED
    BY <1>1, <2>1, LogKeeps
<1>13. QED
  BY <1>8, <1>9, <1>10, <1>11, <1>12 DEF RenameInv

(* A rename that fails, or has nothing to rename. *)
LEMMA RefusedStep ==
  ASSUME RenameAssumption, RenameInv, NEW r \in Renames, NEW p \in toMove[r], MoveRefused(r, p)
  PROVE  RenameInv'
<1>1. /\ step[r] = "moving" /\ files' = files /\ step' = step /\ moved' = moved /\ renameLog' = renameLog
      /\ rescans' = rescans /\ late' = late /\ lost' = lost /\ Fixed
      /\ toMove' = [toMove EXCEPT ![r] = @ \ {p}]
      /\ \/ /\ ~Exists(p) /\ accidents' = accidents
            /\ failed' = [failed EXCEPT ![r] = IF p = dialog[r].src THEN @ \cup {p} ELSE @]
         \/ /\ accidents < MaxAccidents /\ accidents' = accidents + 1
            /\ failed' = [failed EXCEPT ![r] = @ \cup {p}]
  BY DEF MoveRefused, Turn, Fixed
<1>2. RenameTypes /\ NothingReplaced /\ Logged /\ \A o \in Renames : RenameRequestInv(o)
  BY DEF RenameInv
<1>3. Working(r) /\ Confirmed(r)
  BY <1>1, <1>2 DEF RenameRequestInv, Working
<1>4. accidents \in Nat /\ accidents' \in 0..MaxAccidents /\ (accidents' = 0 => accidents = 0)
  <2>1. accidents \in 0..MaxAccidents /\ MaxAccidents \in Nat
    BY <1>2 DEF RenameTypes, RenameAssumption
  <2>2. accidents' = accidents \/ (accidents < MaxAccidents /\ accidents' = accidents + 1)
    BY <1>1
  <2>3. QED
    BY <2>1, <2>2, Bounded
<1>5. /\ toMove'[r] = toMove[r] \ {p} /\ failed[r] \subseteq failed'[r] /\ (p \in failed'[r] \/ ~Exists(p))
      /\ \A o \in Renames : o # r => toMove'[o] = toMove[o] /\ failed'[o] = failed[o]
      /\ DOMAIN toMove' = Renames /\ DOMAIN failed' = Renames
  <2>1. DOMAIN toMove = Renames /\ DOMAIN failed = Renames
    BY <1>2 DEF RenameTypes
  <2>2. CASE ~Exists(p) /\ failed' = [failed EXCEPT ![r] = IF p = dialog[r].src THEN @ \cup {p} ELSE @]
    BY <1>1, <2>1, <2>2
  <2>3. CASE failed' = [failed EXCEPT ![r] = @ \cup {p}]
    BY <1>1, <2>1, <2>3
  <2>4. QED
    BY <1>1, <2>2, <2>3
<1>6. Grows /\ \A o \in Renames : Noted(o)
  BY <1>1, <1>4 DEF Grows, Noted, Exists
<1>7. ASSUME NEW o \in Renames, o # r PROVE RenameRequestInv(o)'
  <2>1. LeftAlone(o)
    BY <1>1, <1>5, <1>7 DEF LeftAlone, Fixed
  <2>2. QED
    BY <1>2, <1>6, <2>1, Stays
<1>8. RenameRequestInv(r)'
  <2>1. /\ Sources(r)' = Sources(r) /\ (\A q : Target(r, q)' = Target(r, q))
        /\ Confirmed(r)' /\ dialog'[r] = dialog[r] /\ step'[r] = "moving" /\ Targets(r)' = Targets(r)
    BY <1>1, <1>3, FixedFacts DEF Fixed, Targets
  <2>2. (Target(r, dialog[r].src) # dialog[r].src)'
    BY <1>2, <1>3, <2>1 DEF RenameRequestInv
  <2>3. (\A q \in toMove[r] : Exists(Target(r, q)) => Target(r, q) \in late[r])'
    <3>1. SUFFICES ASSUME NEW q \in toMove[r], Exists(Target(r, q))'
                   PROVE  Target(r, q) \in late[r]
      <4>1. late'[r] = late[r] /\ toMove'[r] \subseteq toMove[r]
        BY <1>1, <1>5
      <4>2. QED
        BY <2>1, <4>1
    <3>2. Exists(Target(r, q))
      <4>1. Target(r, q)' = Target(r, q)
        BY <2>1
      <4>2. QED
        BY <1>1, <3>1, <4>1 DEF Exists
    <3>3. QED
      BY <1>1, <1>2, <3>2 DEF RenameRequestInv
  <2>4. (\A m \in moved[r] : m.from \in Sources(r) /\ m.to = Target(r, m.from))'
    BY <1>1, <1>2, <2>1 DEF RenameRequestInv
  <2>5. (\A q \in Sources(r) \ (late[r] \cup Targets(r)) : q \in toMove[r] \/ q \in failed[r] \/ ~Exists(q))'
    <3>1. SUFFICES ASSUME NEW q \in Sources(r), q \notin late[r], q \notin Targets(r)
                   PROVE  q \in toMove'[r] \/ q \in failed'[r] \/ ~Exists(q)
      BY <1>1, <2>1 DEF Exists
    <3>2. q \in toMove[r] \/ q \in failed[r] \/ ~Exists(q)
      BY <1>1, <1>2, <1>3, <3>1 DEF RenameRequestInv
    <3>3. QED
      BY <1>5, <3>2
  <2>6. QED
    BY <2>1, <2>2, <2>3, <2>4, <2>5 DEF RenameRequestInv
<1>9. RenameTypes'
  <2>1. \A o \in Renames : toMove'[o] \subseteq toMove[o] \cup Sources(o)
    BY <1>5
  <2>2. QED
    BY <1>1, <1>2, <1>4, <1>5, <2>1, TypesKeep DEF RenameTypes
<1>10. NothingReplaced' /\ Logged'
  BY <1>1, <1>2, <1>6, LogKeeps, ExcuseStays
<1>11. QED
  BY <1>7, <1>8, <1>9, <1>10 DEF RenameInv

(* The row is written, or the store is down. *)
LEMMA RecordStep ==
  ASSUME RenameAssumption, RenameInv, NEW r \in Renames, RecordRename(r)
  PROVE  RenameInv'
<1>1. /\ step[r] = "moving" /\ toMove[r] = {} /\ VideoMoves(r) # {} /\ files' = files
      /\ step' = [step EXCEPT ![r] = "rescan"] /\ moved' = moved /\ toMove' = toMove /\ failed' = failed
      /\ rescans' = rescans /\ late' = late /\ lost' = lost /\ Fixed
      /\ \/ renameLog' = renameLog \cup Row(r) /\ accidents' = accidents
         \/ accidents < MaxAccidents /\ accidents' = accidents + 1 /\ renameLog' = renameLog
  BY DEF RecordRename, Moved, Fixed
<1>2. RenameTypes /\ NothingReplaced /\ Logged /\ \A o \in Renames : RenameRequestInv(o)
  BY DEF RenameInv
<1>3. Working(r) /\ Confirmed(r)
  BY <1>1, <1>2 DEF RenameRequestInv, Working
<1>4. /\ accidents \in Nat /\ accidents' \in 0..MaxAccidents
      /\ (accidents' = 0 => accidents = 0 /\ accidents' # accidents + 1)
  <2>1. accidents \in 0..MaxAccidents /\ MaxAccidents \in Nat
    BY <1>2 DEF RenameTypes, RenameAssumption
  <2>2. accidents' = accidents \/ (accidents < MaxAccidents /\ accidents' = accidents + 1)
    BY <1>1
  <2>3. QED
    BY <2>1, <2>2, Bounded
<1>5. step'[r] = "rescan" /\ \A o \in Renames : o # r => step'[o] = step[o]
  BY <1>1, <1>2 DEF RenameTypes
<1>6. Grows /\ \A o \in Renames : Noted(o)
  BY <1>1, <1>4 DEF Grows, Noted, Exists
<1>7. ASSUME NEW o \in Renames, o # r PROVE RenameRequestInv(o)'
  <2>1. LeftAlone(o)
    BY <1>1, <1>5, <1>7 DEF LeftAlone, Fixed
  <2>2. QED
    BY <1>2, <1>6, <2>1, Stays
<1>8. RenameRequestInv(r)'
  <2>1. /\ Sources(r)' = Sources(r) /\ (\A q : Target(r, q)' = Target(r, q)) /\ Row(r)' = Row(r)
        /\ Confirmed(r)' /\ dialog'[r] = dialog[r] /\ Targets(r)' = Targets(r)
    BY <1>1, <1>3, FixedFacts DEF Fixed, Targets
  <2>2. (Target(r, dialog[r].src) # dialog[r].src)'
    BY <1>2, <1>3, <2>1 DEF RenameRequestInv
  <2>3. (\A m \in moved[r] : m.from \in Sources(r) /\ m.to = Target(r, m.from))'
    BY <1>1, <1>2, <2>1 DEF RenameRequestInv
  <2>4. (\A q \in Sources(r) \ (late[r] \cup Targets(r)) : q \in toMove[r] \/ q \in failed[r] \/ ~Exists(q))'
    <3>1. \A q \in Sources(r) \ (late[r] \cup Targets(r)) : q \in toMove[r] \/ q \in failed[r] \/ ~Exists(q)
      BY <1>1, <1>2, <1>3 DEF RenameRequestInv
    <3>2. QED
      BY <1>1, <2>1, <3>1 DEF Exists
  <2>5. (accidents = 0 => Row(r) \subseteq renameLog)'
    <3>1. accidents' = 0 => renameLog' = renameLog \cup Row(r)
      <4>1. accidents' = 0 => accidents' # accidents + 1
        BY <1>4
      <4>2. QED
        BY <1>1, <4>1
    <3>2. QED
      BY <2>1, <3>1
  <2>6. QED
    BY <1>1, <1>5, <2>1, <2>2, <2>3, <2>4, <2>5 DEF RenameRequestInv
<1>9. RenameTypes'
  <2>1. step' \in [Renames -> Steps]
    BY <1>1, <1>2 DEF RenameTypes, Steps
  <2>2. \A o \in Renames : toMove'[o] \subseteq toMove[o] \cup Sources(o)
    BY <1>1
  <2>3. QED
    BY <1>1, <1>2, <1>4, <2>1, <2>2, TypesKeep DEF RenameTypes
<1>10. NothingReplaced' /\ Logged'
  <2>1. \A o \in Renames : Row(o)' = Row(o)
    BY <1>1, FixedFacts
  <2>2. Logged'
    <3>1. \A entry \in renameLog' : entry \in renameLog \/ entry \in Row(r)
      BY <1>1
    <3>2. \A entry \in renameLog' : \E o \in Renames : entry \in Row(o)
      BY <1>2, <3>1 DEF Logged
    <3>3. QED
      BY <2>1, <3>2 DEF Logged
  <2>3. QED
    BY <1>1, <1>2, <1>6, <2>2, ExcuseStays
<1>11. QED
  BY <1>7, <1>8, <1>9, <1>10 DEF RenameInv

(* Radarr is told. *)
LEMMA RescanStep ==
  ASSUME RenameAssumption, RenameInv, NEW r \in Renames, RescanMovie(r)
  PROVE  RenameInv'
<1>1. /\ step[r] = "rescan" \/ (step[r] = "moving" /\ toMove[r] = {} /\ VideoMoves(r) = {})
      /\ step' = [step EXCEPT ![r] = "over"] /\ moved' = moved /\ toMove' = toMove /\ failed' = failed
      /\ files' = files /\ late' = late /\ lost' = lost /\ renameLog' = renameLog /\ accidents' = accidents
      /\ Fixed
      /\ rescans' = IF moved[r] # {} /\ dialog[r].movie # NoMovie THEN rescans \cup {r} ELSE rescans
  BY DEF RescanMovie, Moved, Ends, Fixed
<1>2. RenameTypes /\ NothingReplaced /\ Logged /\ \A o \in Renames : RenameRequestInv(o)
  BY DEF RenameInv
<1>3. step'[r] = "over" /\ \A o \in Renames : o # r => step'[o] = step[o]
  BY <1>1, <1>2 DEF RenameTypes
<1>4. rescans \subseteq rescans'
  BY <1>1
<1>5. Grows /\ \A o \in Renames : Noted(o)
  BY <1>1, <1>4 DEF Grows, Noted, Exists
<1>6. ASSUME NEW o \in Renames, o # r PROVE RenameRequestInv(o)'
  <2>1. LeftAlone(o)
    BY <1>1, <1>3, <1>6 DEF LeftAlone, Fixed
  <2>2. QED
    BY <1>2, <1>5, <2>1, Stays
<1>7. toMove[r] = {} /\ (accidents = 0 => Row(r) \subseteq renameLog)
  <2>1. CASE step[r] = "rescan"
    BY <1>2, <2>1 DEF RenameRequestInv
  <2>2. CASE step[r] = "moving" /\ toMove[r] = {} /\ VideoMoves(r) = {}
    BY <2>2 DEF Row
  <2>3. QED
    BY <1>1, <2>1, <2>2
<1>8. RenameRequestInv(r)'
  <2>1. /\ Sources(r)' = Sources(r) /\ (\A q : Target(r, q)' = Target(r, q)) /\ Row(r)' = Row(r)
        /\ (Confirmed(r)' <=> Confirmed(r)) /\ dialog'[r] = dialog[r] /\ Targets(r)' = Targets(r)
    BY <1>1, FixedFacts DEF Fixed, Targets
  <2>2. Working(r)' => Working(r) /\ Confirmed(r)' /\ (Target(r, dialog[r].src) # dialog[r].src)'
    BY <1>1, <1>2, <1>3, <2>1 DEF RenameRequestInv, Working
  <2>3. (\A m \in moved[r] : m.from \in Sources(r) /\ m.to = Target(r, m.from))'
    BY <1>1, <1>2, <2>1 DEF RenameRequestInv
  <2>4. (Working(r) =>
           \A q \in Sources(r) \ (late[r] \cup Targets(r)) : q \in toMove[r] \/ q \in failed[r] \/ ~Exists(q))'
    <3>1. Working(r) =>
            \A q \in Sources(r) \ (late[r] \cup Targets(r)) : q \in toMove[r] \/ q \in failed[r] \/ ~Exists(q)
      BY <1>1, <1>2 DEF RenameRequestInv
    <3>2. QED
      BY <1>1, <2>1, <2>2, <3>1 DEF Exists
  <2>5. (accidents = 0 => Row(r) \subseteq renameLog)'
    BY <1>1, <1>7, <2>1
  <2>6. (moved[r] # {} /\ dialog[r].movie # NoMovie => r \in rescans)'
    BY <1>1, <2>1
  <2>7. QED
    BY <1>1, <1>3, <1>7, <2>2, <2>3, <2>4, <2>5, <2>6 DEF RenameRequestInv
<1>9. RenameTypes'
  <2>1. step' \in [Renames -> Steps]
    BY <1>1, <1>2 DEF RenameTypes, Steps
  <2>2. \A o \in Renames : toMove'[o] \subseteq toMove[o] \cup Sources(o)
    BY <1>1
  <2>3. QED
    BY <1>1, <1>2, <2>1, <2>2, TypesKeep DEF RenameTypes
<1>10. NothingReplaced' /\ Logged'
  BY <1>1, <1>2, <1>5, LogKeeps, ExcuseStays
<1>11. QED
  BY <1>6, <1>8, <1>9, <1>10 DEF RenameInv

-----------------------------------------------------------------------------
(* The requests are left alone: others write, remove, or stop the process. *)
LEMMA RequestsStay ==
  ASSUME RenameTypes, \A r \in Renames : RenameRequestInv(r), Fixed, toMove' = toMove, moved' = moved,
         failed' = failed, step' = step, Grows, \A r \in Renames : Noted(r)
  PROVE  \A r \in Renames : RenameRequestInv(r)'
<1>1. TAKE r \in Renames
<1>2. LeftAlone(r)
  BY DEF LeftAlone, Fixed
<1>3. QED
  BY <1>2, Stays

LEMMA ComesStep ==
  ASSUME RenameAssumption, RenameInv, NEW p \in Incoming, FileComes(p)
  PROVE  RenameInv'
<1>1. /\ p \notin DOMAIN files /\ \A q \in DOMAIN files : files[q] # p
      /\ files' = [q \in DOMAIN files \cup {p} |-> IF q = p THEN p ELSE files[q]]
      /\ late' = Occupied(p) /\ step' = step /\ toMove' = toMove /\ moved' = moved /\ failed' = failed
      /\ renameLog' = renameLog /\ rescans' = rescans /\ lost' = lost /\ accidents' = accidents /\ Fixed
  BY DEF FileComes, Fixed
<1>2. RenameTypes /\ NothingReplaced /\ Logged /\ \A o \in Renames : RenameRequestInv(o)
  BY DEF RenameInv
<1>3. /\ DOMAIN late' = Renames /\ \A o \in Renames : late[o] \subseteq late'[o]
      /\ \A o \in Renames : step[o] \in {"listed", "moving", "rescan", "over"} => p \in late'[o]
  BY <1>1 DEF Occupied
<1>4. Grows
  BY <1>1, <1>3 DEF Grows
<1>5. \A o \in Renames : Noted(o)
  BY <1>1, <1>3 DEF Noted, Exists
<1>6. RenameTypes'
  <2>1. \A q \in DOMAIN files' : IsPath(q) /\ files'[q] \in Library \cup Incoming
    BY <1>1, <1>2 DEF RenameTypes, RenameAssumption
  <2>2. \A q, t \in DOMAIN files' : files'[q] = files'[t] => q = t
    BY <1>1, <1>2 DEF RenameTypes
  <2>3. \A o \in Renames : toMove'[o] \subseteq Sources(o)'
    BY <1>1, <1>2, ToMoveKeeps
  <2>4. QED
    BY <1>1, <1>2, <1>3, <2>1, <2>2, <2>3 DEF RenameTypes, Fixed
<1>7. QED
  BY <1>1, <1>2, <1>4, <1>5, <1>6, RequestsStay, LogKeeps, ExcuseStays DEF RenameInv

LEMMA GoesStep ==
  ASSUME RenameAssumption, RenameInv, NEW p \in DOMAIN files, FileGoes(p)
  PROVE  RenameInv'
<1>1. /\ accidents < MaxAccidents /\ accidents' = accidents + 1
      /\ files' = [q \in DOMAIN files \ {p} |-> files[q]]
      /\ late' = late /\ step' = step /\ toMove' = toMove /\ moved' = moved /\ failed' = failed
      /\ renameLog' = renameLog /\ rescans' = rescans /\ lost' = lost /\ Fixed
  BY DEF FileGoes, Fixed
<1>2. RenameTypes /\ NothingReplaced /\ Logged /\ \A o \in Renames : RenameRequestInv(o)
  BY DEF RenameInv
<1>3. accidents' \in 0..MaxAccidents /\ (accidents' = 0 => accidents = 0)
  <2>1. accidents \in 0..MaxAccidents /\ MaxAccidents \in Nat
    BY <1>2 DEF RenameTypes, RenameAssumption
  <2>2. QED
    BY <1>1, <2>1, Bounded
<1>4. Grows
  BY <1>1, <1>3 DEF Grows
<1>5. \A o \in Renames : Noted(o)
  BY <1>1 DEF Noted, Exists
<1>6. RenameTypes'
  <2>1. \A q \in DOMAIN files' : q \in DOMAIN files /\ files'[q] = files[q]
    BY <1>1
  <2>2. \A o \in Renames : toMove'[o] \subseteq Sources(o)'
    BY <1>1, <1>2, ToMoveKeeps
  <2>3. QED
    BY <1>1, <1>2, <1>3, <2>1, <2>2 DEF RenameTypes, Fixed
<1>7. QED
  BY <1>1, <1>2, <1>4, <1>5, <1>6, RequestsStay, LogKeeps, ExcuseStays DEF RenameInv

LEMMA CrashStep ==
  ASSUME RenameAssumption, RenameInv, RenameCrash
  PROVE  RenameInv'
<1>1. /\ accidents < MaxAccidents /\ accidents' = accidents + 1
      /\ step' = [r \in Renames |-> IF step[r] \in {"none", "over"} THEN step[r] ELSE "dead"]
      /\ files' = files /\ late' = late /\ toMove' = toMove /\ moved' = moved /\ failed' = failed
      /\ renameLog' = renameLog /\ rescans' = rescans /\ lost' = lost /\ Fixed
  BY DEF RenameCrash, Fixed
<1>2. RenameTypes /\ NothingReplaced /\ Logged /\ \A o \in Renames : RenameRequestInv(o)
  BY DEF RenameInv
<1>3. accidents' \in 0..MaxAccidents /\ (accidents' = 0 => accidents = 0)
  <2>1. accidents \in 0..MaxAccidents /\ MaxAccidents \in Nat
    BY <1>2 DEF RenameTypes, RenameAssumption
  <2>2. QED
    BY <1>1, <2>1, Bounded
<1>4. Grows /\ \A o \in Renames : Noted(o)
  BY <1>1, <1>3 DEF Grows, Noted, Exists
<1>5. ASSUME NEW r \in Renames PROVE RenameRequestInv(r)'
  <2>1. CASE step[r] \in {"none", "over"}
    <3>1. LeftAlone(r)
      BY <1>1, <2>1 DEF LeftAlone, Fixed
    <3>2. QED
      BY <1>2, <1>4, <3>1, Stays
  <2>2. CASE step[r] \notin {"none", "over"}
    <3>1. /\ step'[r] = "dead" /\ dialog'[r] = dialog[r] /\ moved'[r] = moved[r] /\ Sources(r)' = Sources(r)
          /\ (\A q : Target(r, q)' = Target(r, q)) /\ (Confirmed(r)' <=> Confirmed(r))
      BY <1>1, <2>2, FixedFacts DEF Fixed
    <3>2. Working(r)' => Confirmed(r)' /\ (Target(r, dialog[r].src) # dialog[r].src)'
      BY <1>2, <3>1 DEF RenameRequestInv, Working
    <3>3. (\A m \in moved[r] : m.from \in Sources(r) /\ m.to = Target(r, m.from))'
      BY <1>2, <3>1 DEF RenameRequestInv
    <3>4. QED
      BY <3>1, <3>2, <3>3 DEF RenameRequestInv
  <2>3. QED
    BY <2>1, <2>2
<1>6. RenameTypes'
  <2>1. step' \in [Renames -> Steps]
    BY <1>1, <1>2 DEF RenameTypes, Steps
  <2>2. \A o \in Renames : toMove'[o] \subseteq toMove[o] \cup Sources(o)
    BY <1>1
  <2>3. QED
    BY <1>1, <1>2, <1>3, <2>1, <2>2, TypesKeep DEF RenameTypes
<1>7. QED
  BY <1>1, <1>2, <1>4, <1>5, <1>6, LogKeeps, ExcuseStays DEF RenameInv

LEMMA RenameSteps ==
  ASSUME RenameAssumption, RenameInv, [RenameNext]_renameVars
  PROVE  RenameInv'
<1>1. CASE UNCHANGED renameVars
  <2>1. /\ files' = files /\ step' = step /\ toMove' = toMove /\ moved' = moved /\ failed' = failed
        /\ renameLog' = renameLog /\ rescans' = rescans /\ late' = late /\ lost' = lost
        /\ accidents' = accidents /\ Fixed
    BY <1>1 DEF renameVars, Fixed
  <2>2. Grows /\ \A r \in Renames : Noted(r)
    BY <2>1 DEF Grows, Noted, Exists
  <2>3. RenameTypes'
    BY <2>1, TypesKeep DEF RenameInv, RenameTypes
  <2>4. QED
    BY <2>1, <2>2, <2>3, RequestsStay, LogKeeps, ExcuseStays DEF RenameInv
<1>2. ASSUME NEW r \in Renames, NEW p \in Library \cup DOMAIN files, NEW m \in Movies \cup {NoMovie},
             NEW probed \in BOOLEAN, NEW typed \in Typed \cup {<<>>},
             ApplyDialog(r, p, m, Proposal(p, m, probed), typed)
      PROVE  RenameInv'
  BY <1>2, ApplyStep
<1>3. ASSUME NEW r \in Renames, CheckRename(r) PROVE RenameInv'
  BY <1>3, CheckStep
<1>4. ASSUME NEW r \in Renames, NEW p \in toMove[r], MoveFile(r, p) \/ MoveRefused(r, p) PROVE RenameInv'
  BY <1>4, MoveStep, RefusedStep
<1>5. ASSUME NEW r \in Renames, RecordRename(r) \/ RescanMovie(r) PROVE RenameInv'
  BY <1>5, RecordStep, RescanStep
<1>6. ASSUME NEW p \in Incoming, FileComes(p) PROVE RenameInv'
  BY <1>6, ComesStep
<1>7. ASSUME NEW p \in DOMAIN files, FileGoes(p) PROVE RenameInv'
  BY <1>7, GoesStep
<1>8. CASE RenameCrash
  BY <1>8, CrashStep
<1>9. QED
  BY <1>1, <1>2, <1>3, <1>4, <1>5, <1>6, <1>7, <1>8 DEF RenameNext

-----------------------------------------------------------------------------
(* What was applied is as it would be proposed. *)
LEMMA DoneWhenApplied == ASSUME RenameAssumption, RenameInv PROVE AppliedIsDone
<1>1. SUFFICES ASSUME NEW r \in Renames, NEW mv \in VideoMoves(r), ~dialog[r].edited,
                      Rendered(MatchMovie(mv.to.stem)) = mv.to.stem, MatchMovie(mv.to.stem) \in Reproduced
               PROVE  ~NeedsWork(mv.to)
  BY DEF AppliedIsDone
<1> DEFINE d == dialog[r]
           to == mv.to
           w == MatchMovie(to.stem)
<1>2. RenameTypes /\ RenameRequestInv(r)
  BY DEF RenameInv
<1>3. mv \in moved[r] /\ mv.from = d.src
  BY DEF VideoMoves
<1>4. Working(r)
  BY <1>3 DEF Working
<1>5. Confirmed(r) /\ to = Target(r, d.src) /\ Target(r, d.src) # d.src
  BY <1>2, <1>3, <1>4 DEF RenameRequestInv
<1>6. /\ to.stem = d.stem /\ to.ext = d.src.ext
      /\ to.dir = IF d.folder = "" THEN d.src.dir ELSE Append(d.src.dir, d.folder)
  BY <1>2, <1>5, VideoTarget
<1>7. IsPath(d.src) /\ d \in Dialogs
  BY <1>2, <1>5 DEF Confirmed, RenameTypes
<1>8. ~Loose(to.dir)
  <2>1. CASE d.folder = ""
    <3>1. SUFFICES ASSUME Loose(d.src.dir) PROVE FALSE
      BY <1>6, <2>1
    <3>2. d.stem = d.src.stem
      BY <1>1, <1>5, <2>1, <3>1 DEF Confirmed
    <3>3. to.stem = d.src.stem /\ to.ext = d.src.ext /\ to.dir = d.src.dir
      BY <1>6, <2>1, <3>2
    <3>4. to \in Path /\ d.src \in Path
      <4>1. d.src \in Sources(r)
        BY DEF Sources
      <4>2. IsPath(Target(r, d.src))
        BY <1>2, <1>5, <4>1, TargetIsPath
      <4>3. QED
        BY <1>5, <1>7, <4>2 DEF IsPath
    <3>5. QED
      BY <1>5, <3>3, <3>4, SamePath
  <2>2. CASE d.folder # ""
    <3>1. Loose(d.src.dir) /\ d.folder \in STRING
      BY <1>5, <1>7, <2>2 DEF Confirmed, Dialogs, RenameAssumption
    <3>2. PICK root \in Roots : d.src.dir = <<root>>
      BY <3>1 DEF Loose
    <3>3. d.src.dir \in Seq(STRING) /\ Len(d.src.dir) = 1
      BY <1>7, <3>2 DEF IsPath, Path
    <3>4. to.dir = Append(d.src.dir, d.folder)
      BY <1>6, <2>2
    <3>5. \A x : to.dir # <<x>>
      BY <3>1, <3>3, <3>4, Deeper
    <3>6. QED
      BY <3>5 DEF Loose
  <2>3. QED
    BY <2>1, <2>2
<1>9. w \in Movies /\ w # NoMovie
  BY <1>1 DEF RenameAssumption
<1> DEFINE got == Proposal(to, NoMovie, TRUE)
<1>10. got.movie = w /\ got.named /\ got.stem = to.stem /\ got.folder = ""
  BY <1>1, <1>8, <1>9 DEF Proposal, Trusted
<1>11. QED
  BY <1>8, <1>9, <1>10 DEF NeedsWork

LEMMA InvGivesHolds == ASSUME RenameAssumption, RenameInv PROVE RenamesHold
<1>1. RenameTypes /\ NothingReplaced /\ Logged /\ \A r \in Renames : RenameRequestInv(r)
  BY DEF RenameInv
<1>2. ASSUME NEW r \in Renames, NEW mv \in moved[r]
      PROVE  /\ Working(r) /\ Confirmed(r) /\ mv.from \in Sources(r) /\ mv.from.dir = dialog[r].src.dir
  <2>1. Working(r)
    BY <1>2 DEF Working
  <2>2. Confirmed(r) /\ mv.from \in Sources(r)
    BY <1>1, <1>2, <2>1 DEF RenameRequestInv
  <2>3. QED
    BY <1>1, <2>1, <2>2, SourceFacts
<1>3. RenameTypeOK
  <2>1. \A r \in Renames : toMove[r] \subseteq {dialog[r].src} \cup siblings[r]
    BY <1>1 DEF RenameTypes, Sources
  <2>2. \A r \in Renames : \A mv \in moved[r] : mv.from.dir = dialog[r].src.dir
    BY <1>2
  <2>3. QED
    BY <1>1, <2>1, <2>2 DEF RenameTypes, RenameTypeOK, Steps
<1>4. NothingLeftBehind
  <2>1. SUFFICES ASSUME NEW r \in Renames, step[r] \in {"rescan", "over"}, moved[r] # {}, failed[r] = {},
                        NEW p \in siblings[r], p \notin late[r], p \notin {mv.to : mv \in moved[r]},
                        p = dialog[r].src \/ IsSidecar(p, dialog[r].src)
                 PROVE  ~Exists(p)
    BY DEF NothingLeftBehind
  <2>2. p \in Sources(r)
    BY <2>1 DEF Sources
  <2>3. Working(r) /\ toMove[r] = {} /\ step[r] # "dead"
    BY <1>1, <2>1 DEF Working, RenameRequestInv
  <2>4. QED
    BY <1>1, <2>1, <2>2, <2>3 DEF RenameRequestInv, Targets
<1>5. LogIsTrue
  <2>1. ASSUME accidents = 0, NEW r \in Renames, step[r] = "over", NEW mv \in VideoMoves(r)
        PROVE  [src |-> mv.from, dst |-> mv.to] \in renameLog
    <3>1. Row(r) \subseteq renameLog
      BY <1>1, <2>1 DEF RenameRequestInv
    <3>2. QED
      BY <2>1, <3>1 DEF Row
  <2>2. QED
    BY <1>1, <2>1 DEF LogIsTrue, Logged
<1>6. CatalogueIsTold
  <2>1. SUFFICES ASSUME NEW r \in Renames, step[r] = "over", NEW mv \in moved[r], ~InRoot(mv.from.dir)
                 PROVE  r \in rescans
    BY DEF CatalogueIsTold
  <2>2. dialog[r].movie # NoMovie
    BY <1>2, <2>1 DEF Confirmed, Allowed
  <2>3. QED
    BY <1>1, <2>1, <2>2 DEF RenameRequestInv
<1>7. QED
  BY <1>1, <1>3, <1>4, <1>5, <1>6, DoneWhenApplied DEF RenamesHold

(* A rename replaces no file that was there when it looked, leaves nothing of the video
   behind, is told to the log and to Radarr, and is not proposed again, whatever else
   is renamed, written or removed meanwhile (library_rename.py, rename_plan.py). *)
THEOREM RenamesAreTrue == RenameSpec => []RenamesHold
<1>1. RenameInit => RenameInv
  BY RenamesStart, RenameAssumption
<1>2. RenameInv /\ [RenameNext]_renameVars => RenameInv'
  BY RenameSteps, RenameAssumption
<1>3. RenameInv => RenamesHold
  BY InvGivesHolds, RenameAssumption
<1>4. QED
  BY <1>1, <1>2, <1>3, PTL DEF RenameSpec

-----------------------------------------------------------------------------
(* The store of probes. *)
(* What a sweep, a probe and a read of the list are in the middle of. *)
Sweeping == {Idle} \cup [at : {"waiting", "probing", "done"}]
                   \cup [at : {"saving"}, facts : Nat \ {0}]
Probing == {Idle} \cup [at : {"saving"}, v : Videos, facts : Nat \ {0}]
Reading == {Idle} \cup [at : {"keyed"}, v : Videos, id : Nat \ {0}]
                  \cup [at : {"read"}, v : Videos, id : Nat \ {0}, facts : Nat \ {0}]

StoreTypes == /\ version \in [Videos -> Nat] /\ last \in 1..MaxVersions
              /\ store \in [Videos -> [id : Nat, facts : Nat]]
              /\ memory \subseteq [v : Videos, id : Nat \ {0}, facts : Nat \ {0}]
              /\ IsFiniteSet(memory) /\ Cardinality(memory) <= MaxMemory
              /\ probe \in [Probes -> Probing] /\ row \in [Readings -> Reading]
              /\ mixed \subseteq Videos

SweepTypes == /\ sweep \in [Videos -> Sweeping]
              /\ active \in BOOLEAN /\ begun \in 0..MaxSweeps /\ due \in SUBSET (SUBSET Videos)
              /\ status \in [running : BOOLEAN, total : Nat, analyzed : Nat, skipped : Nat, failed : Nat]

(* Facts are of a version the path has, or had: a later one is greater. *)
Past(v, facts) == facts <= last /\ (version[v] # NoFile => facts <= version[v])

(* Facts that are about to be saved are of the file as it is, unless it was
   replaced since they were read. *)
Fit(v, facts) == Past(v, facts) /\ (v \notin mixed /\ version[v] # NoFile => facts = version[v])

(* The same of a key, and of what was read after it. *)
KeyFits(v, id, facts) == /\ Past(v, id) /\ id <= facts /\ facts <= last
                         /\ version[v] # NoFile => facts <= version[v]
                         /\ id = version[v] => facts = id

StoreInv ==
    /\ StoreTypes
    /\ \A v \in Videos : /\ version[v] <= last /\ store[v].id <= last /\ store[v].facts <= store[v].id
                         /\ v \notin mixed /\ version[v] # NoFile /\ store[v].id = version[v]
                              => store[v].facts = version[v]
                         /\ sweep[v].at = "saving" => Fit(v, sweep[v].facts)
    /\ \A s \in Probes : probe[s].at = "saving" => Fit(probe[s].v, probe[s].facts)
    /\ \A t \in Readings : /\ row[t].at = "keyed" => Past(row[t].v, row[t].id)
                           /\ row[t].at = "read" => KeyFits(row[t].v, row[t].id, row[t].facts)
    /\ \A e \in memory : KeyFits(e.v, e.id, e.facts)

(* A sweep counts what it has done of what it began with, and one that is over has
   done it all; the next one takes nothing before it runs. *)
DoneSet == {v \in Videos : sweep[v].at = "done"}
Taken == {v \in Videos : sweep[v].at # "idle"}
SweepInv ==
    /\ SweepTypes
    /\ active <=> status.running
    /\ active /\ due = {} => Count(status) = Cardinality(DoneSet) /\ status.total = Cardinality(Taken)
    /\ ~active \/ due # {} => Count(status) = status.total /\ Taken = {}
    /\ ~active => due = {}

ProbeInv == StoreInv /\ SweepInv

-----------------------------------------------------------------------------
LEMMA ProbeStart == ASSUME ProbeInit PROVE ProbeInv
<1> USE ProbeAssumption DEF ProbeInit, Idle, NoFile, Nothing
<1>1. StoreTypes
  BY FS_EmptySet DEF StoreTypes, Probing, Reading
<1>2. StoreInv
  BY <1>1 DEF StoreInv
<1>3. SweepInv
  <2> USE DEF ProbeInit
  <2>1. SweepTypes
    <3>1. Idle \in Sweeping
      BY DEF Sweeping
    <3>2. Ended \in [running : BOOLEAN, total : Nat, analyzed : Nat, skipped : Nat, failed : Nat]
      BY DEF Ended
    <3>3. sweep \in [Videos -> Sweeping]
      BY <3>1
    <3>4. active \in BOOLEAN /\ due \in SUBSET (SUBSET Videos)
      OBVIOUS
    <3>5. begun \in 0..MaxSweeps /\ status = Ended
      OBVIOUS
    <3>6. QED
      BY <3>2, <3>3, <3>4, <3>5 DEF SweepTypes
  <2>2. Taken = {} /\ Count(status) = 0 /\ status.total = 0 /\ ~status.running /\ due = {}
    BY DEF Taken, Count, Ended
  <2>3. QED
    BY <2>1, <2>2 DEF SweepInv
<1>4. QED
  BY <1>2, <1>3 DEF ProbeInv

(* The files change: every version there was is then in the past. *)
LEMMA FilesChanging ==
  ASSUME ProbeInv, NEW v \in Videos, Replaced(v) \/ Removed(v)
  PROVE  ProbeInv'
<1> USE ProbeAssumption DEF NoFile
<1>1. /\ last \in Nat /\ last' = last + 1 /\ last' \in 1..MaxVersions
      /\ UNCHANGED <<store, memory, sweep, probe, row, active, due, status, begun>>
      /\ version \in [Videos -> Nat] /\ mixed \subseteq mixed' \cup {v} /\ mixed' \subseteq Videos
  BY DEF ProbeInv, StoreInv, StoreTypes, Replaced, Removed
<1>2. PICK new \in {NoFile, last + 1} : version' = [version EXCEPT ![v] = new]
  BY <1>1 DEF Replaced, Removed
<1>3. StoreTypes'
  BY <1>1, <1>2 DEF ProbeInv, StoreInv, StoreTypes
<1>4. ASSUME NEW u \in Videos, NEW n \in Nat, Past(u, n)
      PROVE  Past(u, n)' /\ (n > 0 /\ n = version'[u] => n = version[u])
  BY <1>1, <1>2, <1>4 DEF Past
<1>5. ASSUME NEW u \in Videos, NEW n \in Nat, Fit(u, n),
             sweep[u].at = "saving" \/ \E s \in Probes : probe[s].at = "saving" /\ probe[s].v = u
      PROVE  Fit(u, n)'
  <2>1. Past(u, n) /\ Past(u, n)'
    BY <1>4, <1>5 DEF Fit
  <2>2. CASE u # v
    BY <1>1, <1>2, <1>5, <2>1, <2>2 DEF Fit
  <2>2a. CASE u = v /\ new = NoFile
    BY <1>1, <1>2, <1>5, <2>1, <2>2a DEF Fit
  <2>3. CASE u = v /\ new # NoFile
    <3>1. version'[v] = last + 1
      BY <1>1, <1>2, <2>3
    <3>2. u \in mixed'
      BY <1>1, <1>5, <2>3, <3>1 DEF Replaced, Removed, Holding
    <3>3. QED
      BY <2>1, <3>2 DEF Fit
  <2>4. QED
    BY <2>2, <2>2a, <2>3
<1>6. ASSUME NEW u \in Videos, NEW i \in Nat \ {0}, NEW n \in Nat, KeyFits(u, i, n)
      PROVE  KeyFits(u, i, n)'
  BY <1>1, <1>2, <1>4, <1>6 DEF KeyFits, Past
<1>7. ASSUME NEW u \in Videos
      PROVE  /\ version'[u] <= last' /\ store'[u].id <= last' /\ store'[u].facts <= store'[u].id
             /\ u \notin mixed' /\ version'[u] # NoFile /\ store'[u].id = version'[u]
                  => store'[u].facts = version'[u]
             /\ (sweep[u].at = "saving" => Fit(u, sweep[u].facts))'
  <2>1. store[u].id \in Nat /\ store[u].id <= last /\ store[u].facts <= store[u].id
        /\ version[u] \in Nat /\ version[u] <= last
    BY DEF ProbeInv, StoreInv, StoreTypes
  <2>2. version'[u] <= last' /\ store'[u].id <= last'
    BY <1>1, <1>2, <2>1
  <2>3. u \notin mixed' /\ version'[u] # NoFile /\ store'[u].id = version'[u]
          => store'[u].facts = version'[u]
    <3>1. CASE u = v
      BY <1>1, <1>2, <2>1, <3>1
    <3>2. CASE u # v
      <4>1. version'[u] = version[u] /\ (u \notin mixed' => u \notin mixed)
        BY <1>1, <1>2, <3>2
      <4>2. QED
        BY <1>1, <4>1 DEF ProbeInv, StoreInv
    <3>3. QED
      BY <3>1, <3>2
  <2>4. ASSUME sweep[u].at = "saving" PROVE Fit(u, sweep[u].facts)'
    <3>1. sweep[u].facts \in Nat /\ Fit(u, sweep[u].facts)
      BY <2>4 DEF ProbeInv, StoreInv, SweepInv, SweepTypes, Sweeping, Idle
    <3>2. QED
      BY <1>1, <1>5, <2>4, <3>1
  <2>5. QED
    BY <1>1, <2>1, <2>2, <2>3, <2>4
<1>8. ASSUME NEW s \in Probes, probe[s].at = "saving" PROVE Fit(probe[s].v, probe[s].facts)'
  <2>1. probe[s].v \in Videos /\ probe[s].facts \in Nat /\ Fit(probe[s].v, probe[s].facts)
    BY <1>8 DEF ProbeInv, StoreInv, StoreTypes, Probing, Idle
  <2>2. QED
    BY <1>1, <1>5, <1>8, <2>1
<1>9. ASSUME NEW t \in Readings
      PROVE  /\ row[t].at = "keyed" => Past(row[t].v, row[t].id)'
             /\ row[t].at = "read" => KeyFits(row[t].v, row[t].id, row[t].facts)'
  <2>1. CASE row[t].at = "keyed"
    <3>1. row[t].v \in Videos /\ row[t].id \in Nat /\ Past(row[t].v, row[t].id)
      BY <2>1 DEF ProbeInv, StoreInv, StoreTypes, Reading, Idle
    <3>2. QED
      BY <1>1, <1>4, <2>1, <3>1
  <2>2. CASE row[t].at = "read"
    <3>1. /\ row[t].v \in Videos /\ row[t].id \in Nat \ {0} /\ row[t].facts \in Nat
          /\ KeyFits(row[t].v, row[t].id, row[t].facts)
      BY <2>2 DEF ProbeInv, StoreInv, StoreTypes, Reading, Idle
    <3>2. QED
      BY <1>1, <1>6, <2>2, <3>1
  <2>3. QED
    BY <2>1, <2>2
<1>10. ASSUME NEW e \in memory PROVE KeyFits(e.v, e.id, e.facts)'
  BY <1>1, <1>6 DEF ProbeInv, StoreInv, StoreTypes
<1>11. StoreInv'
  BY <1>1, <1>3, <1>7, <1>8, <1>9, <1>10 DEF StoreInv
<1>12. SweepInv'
  BY <1>1 DEF ProbeInv, SweepInv, SweepTypes, DoneSet, Taken, Count
<1>13. QED
  BY <1>11, <1>12 DEF ProbeInv

-----------------------------------------------------------------------------
(* The rows: what every path's row and the sweep's facts of it say. *)
RowFits(v) == /\ version[v] <= last /\ store[v].id <= last /\ store[v].facts <= store[v].id
              /\ v \notin mixed /\ version[v] # NoFile /\ store[v].id = version[v]
                   => store[v].facts = version[v]
              /\ sweep[v].at = "saving" => Fit(v, sweep[v].facts)

(* A save writes what fits under the identity the file has. *)
LEMMA Saving ==
  ASSUME StoreInv, NEW v \in Videos, NEW n \in Nat \ {0}, Fit(v, n), CacheSave(v, n),
         UNCHANGED <<version, last, mixed>>,
         \A u \in Videos : sweep'[u].at = "saving" => sweep'[u] = sweep[u]
  PROVE  /\ store' \in [Videos -> [id : Nat, facts : Nat]]
         /\ \A u \in Videos : RowFits(u)'
<1> USE DEF NoFile
<1>1. version \in [Videos -> Nat] /\ store \in [Videos -> [id : Nat, facts : Nat]] /\ last \in Nat
  BY ProbeAssumption DEF StoreInv, StoreTypes
<1>2. \A u \in Videos : RowFits(u)
  BY DEF StoreInv, RowFits
<1>3. ASSUME NEW u \in Videos PROVE (sweep[u].at = "saving" => Fit(u, sweep[u].facts))'
  BY <1>2 DEF RowFits, Fit, Past
<1>4. CASE UNCHANGED store
  BY <1>1, <1>2, <1>3, <1>4 DEF RowFits
<1>5. CASE version[v] # NoFile /\ store' = [store EXCEPT ![v] = [id |-> version[v], facts |-> n]]
  <2>1. store' \in [Videos -> [id : Nat, facts : Nat]]
    BY <1>1, <1>5
  <2>2. ASSUME NEW u \in Videos PROVE RowFits(u)'
    <3>1. CASE u = v
      <4>1. store'[u].id = version[u] /\ store'[u].facts = n /\ n <= version[u] /\ version[u] <= last
        BY <1>1, <1>2, <1>5, <3>1 DEF Fit, Past, RowFits
      <4>2. v \notin mixed => n = version[v]
        BY <1>5 DEF Fit
      <4>3. QED
        BY <1>3, <3>1, <4>1, <4>2 DEF RowFits
    <3>2. CASE u # v
      <4>1. store'[u] = store[u]
        BY <1>1, <1>5, <3>2
      <4>2. QED
        BY <1>2, <1>3, <4>1 DEF RowFits
    <3>3. QED
      BY <3>1, <3>2
  <2>3. QED
    BY <2>1, <2>2
<1>6. QED
  BY <1>4, <1>5 DEF CacheSave

(* What is in hand of an unchanged file still fits. *)
LEMMA InHandKept ==
  ASSUME StoreInv, UNCHANGED <<version, last, mixed>>
  PROVE  /\ \A v \in Videos, n \in Nat : Fit(v, n) => Fit(v, n)'
         /\ \A v \in Videos, n \in Nat : Past(v, n) => Past(v, n)'
         /\ \A v \in Videos, i, n \in Nat : KeyFits(v, i, n) => KeyFits(v, i, n)'
BY DEF Fit, Past, KeyFits

(* The store after a step of the sweep. *)
LEMMA StoreAfterSweep ==
  ASSUME ProbeInv, NEW v \in Videos, NEW new \in Sweeping, Now(v, new),
         UNCHANGED <<version, last, memory, probe, row, mixed>>,
         store' \in [Videos -> [id : Nat, facts : Nat]],
         \A u \in Videos : RowFits(u)'
  PROVE  StoreInv'
<1>1. StoreTypes'
  BY DEF ProbeInv, StoreInv, StoreTypes
<1>2. \A s \in Probes : probe'[s].at = "saving" => (Fit(probe[s].v, probe[s].facts))'
  BY DEF ProbeInv, StoreInv, Fit, Past
<1>3. \A t \in Readings : /\ (row[t].at = "keyed" => Past(row[t].v, row[t].id))'
                          /\ (row[t].at = "read" => KeyFits(row[t].v, row[t].id, row[t].facts))'
  BY DEF ProbeInv, StoreInv, Past, KeyFits
<1>4. \A e \in memory' : KeyFits(e.v, e.id, e.facts)'
  BY DEF ProbeInv, StoreInv, Past, KeyFits
<1>5. QED
  BY <1>1, <1>2, <1>3, <1>4 DEF StoreInv, RowFits

(* The counts after it: a file is counted when it is done, once. *)
LEMMA CountsAfterSweep ==
  ASSUME ProbeInv, NEW v \in Videos, NEW new \in Sweeping, Now(v, new), new.at # "idle",
         sweep[v].at \in {"waiting", "probing", "saving"},
         UNCHANGED <<active, due, begun>>,
         IF new.at = "done" THEN /\ status' \in [running : BOOLEAN, total : Nat, analyzed : Nat,
                                                 skipped : Nat, failed : Nat]
                                 /\ status'.running = status.running /\ status'.total = status.total
                                 /\ Count(status') = Count(status) + 1
                            ELSE status' = status
  PROVE  SweepInv'
<1> USE ProbeAssumption
<1>1. sweep \in [Videos -> Sweeping] /\ sweep' = [sweep EXCEPT ![v] = new]
  BY DEF ProbeInv, SweepInv, SweepTypes, Now
<1>2. v \in Taken /\ v \notin DoneSet /\ active
  BY DEF Taken, DoneSet, ProbeInv, SweepInv
<1>3. Taken' = Taken
  BY <1>1, <1>2 DEF Taken
<1>4. IsFiniteSet(DoneSet) /\ Cardinality(DoneSet) \in Nat
  BY FS_Subset, FS_CardinalityType DEF DoneSet
<1>5. CASE new.at = "done"
  <2>1. DoneSet' = DoneSet \cup {v}
    BY <1>1, <1>5 DEF DoneSet
  <2>2. Cardinality(DoneSet') = Cardinality(DoneSet) + 1
    BY <1>2, <1>4, <2>1, FS_AddElement
  <2>3. SweepTypes'
    BY <1>1, <1>5 DEF ProbeInv, SweepInv, SweepTypes
  <2>4. QED
    BY <1>2, <1>3, <1>5, <2>2, <2>3 DEF ProbeInv, SweepInv
<1>6. CASE new.at # "done"
  <2>1. DoneSet' = DoneSet
    BY <1>1, <1>2, <1>6 DEF DoneSet
  <2>2. SweepTypes'
    BY <1>1, <1>6 DEF ProbeInv, SweepInv, SweepTypes
  <2>3. QED
    BY <1>2, <1>3, <1>6, <2>1, <2>2 DEF ProbeInv, SweepInv, Count
<1>7. QED
  BY <1>5, <1>6

LEMMA Bumping ==
  ASSUME ProbeInv, NEW v \in Videos, NEW k \in {"analyzed", "skipped", "failed"}, Bump(v, k)
  PROVE  /\ Now(v, [at |-> "done"]) /\ [at |-> "done"] \in Sweeping
         /\ status' \in [running : BOOLEAN, total : Nat, analyzed : Nat, skipped : Nat, failed : Nat]
         /\ status'.running = status.running /\ status'.total = status.total
         /\ Count(status') = Count(status) + 1
<1>1. status \in [running : BOOLEAN, total : Nat, analyzed : Nat, skipped : Nat, failed : Nat]
  BY DEF ProbeInv, SweepInv, SweepTypes
<1>2. CASE k = "analyzed"
  BY <1>1, <1>2 DEF Bump, Count, Sweeping
<1>3. CASE k = "skipped"
  BY <1>1, <1>3 DEF Bump, Count, Sweeping
<1>4. CASE k = "failed"
  BY <1>1, <1>4 DEF Bump, Count, Sweeping
<1>5. QED
  BY <1>2, <1>3, <1>4

LEMMA RowsKept ==
  ASSUME ProbeInv, NEW v \in Videos, NEW new, Now(v, new), UNCHANGED <<version, last, store, mixed>>,
         new.at = "saving" => Fit(v, new.facts)
  PROVE  /\ \A u \in Videos : RowFits(u)'
         /\ store' \in [Videos -> [id : Nat, facts : Nat]]
<1>1. sweep \in [Videos -> Sweeping] /\ sweep' = [sweep EXCEPT ![v] = new]
  BY DEF ProbeInv, SweepInv, SweepTypes, Now
<1>2. ASSUME NEW u \in Videos PROVE RowFits(u)'
  BY <1>1 DEF ProbeInv, StoreInv, RowFits, Fit, Past
<1>3. QED
  BY <1>2 DEF ProbeInv, StoreInv, StoreTypes

LEMMA Looking ==
  ASSUME ProbeInv, NEW v \in Videos, SweepLooks(v) \/ SweepProbes(v)
  PROVE  ProbeInv'
<1>1. /\ sweep[v].at \in {"waiting", "probing"}
      /\ UNCHANGED <<version, last, store, memory, probe, row, active, due, begun, mixed>>
  BY DEF SweepLooks, SweepProbes
<1>2. CASE \E k \in {"analyzed", "skipped", "failed"} : Bump(v, k)
  <2>1. /\ Now(v, [at |-> "done"]) /\ [at |-> "done"] \in Sweeping
        /\ status' \in [running : BOOLEAN, total : Nat, analyzed : Nat, skipped : Nat, failed : Nat]
        /\ status'.running = status.running /\ status'.total = status.total
        /\ Count(status') = Count(status) + 1
    BY <1>2, Bumping
  <2>2. store' \in [Videos -> [id : Nat, facts : Nat]] /\ \A u \in Videos : RowFits(u)'
    BY <1>1, <2>1, RowsKept
  <2>3. QED
    BY <1>1, <2>1, <2>2, StoreAfterSweep, CountsAfterSweep DEF ProbeInv
<1>3. CASE \E new \in {[at |-> "probing"], [at |-> "saving", facts |-> version[v]]} :
             /\ Now(v, new) /\ UNCHANGED status
             /\ new.at = "saving" => version[v] # NoFile /\ new = [at |-> "saving", facts |-> version[v]]
  <2>1. PICK new \in {[at |-> "probing"], [at |-> "saving", facts |-> version[v]]} :
             /\ Now(v, new) /\ UNCHANGED status
             /\ new.at = "saving" => version[v] # NoFile /\ new = [at |-> "saving", facts |-> version[v]]
    BY <1>3
  <2>2. version[v] \in Nat /\ version[v] <= last
    BY DEF ProbeInv, StoreInv, StoreTypes
  <2>3. new \in Sweeping /\ new.at \in {"probing", "saving"}
    BY <2>1, <2>2 DEF Sweeping, NoFile
  <2>4. new.at = "saving" => Fit(v, new.facts)
    BY <2>1, <2>2 DEF Fit, Past
  <2>5. store' \in [Videos -> [id : Nat, facts : Nat]] /\ \A u \in Videos : RowFits(u)'
    BY <1>1, <2>1, <2>4, RowsKept
  <2>6. StoreInv'
    BY <1>1, <2>1, <2>3, <2>5, StoreAfterSweep
  <2>7. SweepInv'
    BY <1>1, <2>1, <2>3, CountsAfterSweep
  <2>8. QED
    BY <2>6, <2>7 DEF ProbeInv
<1>4. QED
  <2>1. CASE SweepLooks(v)
    BY <1>2, <1>3, <2>1 DEF SweepLooks
  <2>2. CASE SweepProbes(v)
    BY <1>2, <1>3, <2>2 DEF SweepProbes
  <2>3. QED
    BY <2>1, <2>2

LEMMA SweepSaving ==
  ASSUME ProbeInv, NEW v \in Videos, SweepSaves(v)
  PROVE  ProbeInv'
<1>1. /\ sweep[v].at = "saving" /\ CacheSave(v, sweep[v].facts) /\ Bump(v, "analyzed")
      /\ UNCHANGED <<version, last, memory, probe, row, active, due, begun, mixed>>
  BY DEF SweepSaves
<1>2. sweep \in [Videos -> Sweeping] /\ sweep[v].facts \in Nat \ {0} /\ Fit(v, sweep[v].facts)
  BY <1>1 DEF ProbeInv, StoreInv, SweepInv, SweepTypes, Sweeping, Idle
<1>3. /\ Now(v, [at |-> "done"]) /\ [at |-> "done"] \in Sweeping
      /\ status' \in [running : BOOLEAN, total : Nat, analyzed : Nat, skipped : Nat, failed : Nat]
      /\ status'.running = status.running /\ status'.total = status.total
      /\ Count(status') = Count(status) + 1
  BY <1>1, Bumping
<1>4. \A u \in Videos : sweep'[u].at = "saving" => sweep'[u] = sweep[u]
  BY <1>2, <1>3 DEF Now
<1>5. store' \in [Videos -> [id : Nat, facts : Nat]] /\ \A u \in Videos : RowFits(u)'
  BY <1>1, <1>2, <1>4, Saving DEF ProbeInv
<1>6. StoreInv'
  BY <1>1, <1>3, <1>5, StoreAfterSweep
<1>7. SweepInv'
  BY <1>1, <1>3, CountsAfterSweep
<1>8. QED
  BY <1>6, <1>7 DEF ProbeInv

LEMMA SweepBounds ==
  ASSUME ProbeInv, SweepEnds \/ \E vs \in SUBSET Videos : SweepStarts(vs) \/ SweepRuns(vs)
  PROVE  ProbeInv'
<1> USE ProbeAssumption
<1>1. UNCHANGED <<version, last, store, memory, probe, row, mixed>>
  BY DEF SweepEnds, SweepStarts, SweepRuns
<1>2. \A v \in Videos : sweep'[v].at # "saving" \/ sweep'[v] = sweep[v]
  <2>1. CASE SweepEnds
    BY <2>1 DEF SweepEnds, Idle
  <2>2. CASE UNCHANGED sweep
    BY <2>2
  <2>3. ASSUME NEW vs \in SUBSET Videos, SweepRuns(vs)
        PROVE  \A v \in Videos : sweep'[v].at # "saving"
    <3>1. sweep' = [v \in Videos |-> IF v \in vs THEN [at |-> "waiting"] ELSE Idle]
      BY <2>3 DEF SweepRuns
    <3>2. \A v \in Videos : sweep'[v] \in {[at |-> "waiting"], Idle}
      BY <3>1
    <3>3. QED
      BY <3>2 DEF Idle
  <2>4. QED
    BY <2>1, <2>2, <2>3 DEF SweepStarts
<1>3. StoreInv'
  BY <1>1, <1>2 DEF ProbeInv, StoreInv, StoreTypes, Past, KeyFits, Fit
<1>4. CASE SweepEnds
  <2>1. /\ Taken' = {} /\ ~active' /\ UNCHANGED <<begun, due>> /\ active /\ due = {}
        /\ status' = [status EXCEPT !.running = FALSE] /\ sweep' = [v \in Videos |-> Idle]
    BY <1>4 DEF SweepEnds, Released, Taken, Idle
  <2>2. Taken = DoneSet
    BY <1>4 DEF SweepEnds, Taken, DoneSet
  <2>3. SweepTypes'
    <3>1. sweep' \in [Videos -> Sweeping]
      BY <2>1 DEF Sweeping
    <3>2. status' \in [running : BOOLEAN, total : Nat, analyzed : Nat, skipped : Nat, failed : Nat]
      BY <2>1 DEF ProbeInv, SweepInv, SweepTypes
    <3>3. active' = FALSE
      BY <1>4 DEF SweepEnds, Released
    <3>4. QED
      BY <2>1, <3>1, <3>2, <3>3 DEF ProbeInv, SweepInv, SweepTypes
  <2>4. Count(status') = status'.total /\ ~status'.running
    BY <2>1, <2>2 DEF ProbeInv, SweepInv, SweepTypes, Count
  <2>5. QED
    BY <1>3, <2>1, <2>3, <2>4 DEF ProbeInv, SweepInv
<1>5. ASSUME NEW vs \in SUBSET Videos, SweepStarts(vs) PROVE ProbeInv'
  <2>1. /\ ~active /\ active' = TRUE /\ begun < MaxSweeps /\ begun' = begun + 1 /\ due' = {vs}
        /\ status' = [status EXCEPT !.running = TRUE] /\ UNCHANGED sweep
    BY <1>5 DEF SweepStarts
  <2>2. Count(status) = status.total /\ Taken = {}
        /\ status \in [running : BOOLEAN, total : Nat, analyzed : Nat, skipped : Nat, failed : Nat]
    BY <2>1 DEF ProbeInv, SweepInv, SweepTypes
  <2>3. Count(status') = status'.total /\ Taken' = {} /\ status'.running /\ due' # {}
    BY <2>1, <2>2 DEF Count, Taken
  <2>4. SweepTypes'
    <3>1. due' \in SUBSET (SUBSET Videos)
      BY <2>1
    <3>2. begun' \in 0..MaxSweeps
      BY <2>1 DEF ProbeInv, SweepInv, SweepTypes
    <3>3. QED
      BY <2>1, <3>1, <3>2 DEF ProbeInv, SweepInv, SweepTypes
  <2>5. QED
    BY <1>3, <2>1, <2>3, <2>4 DEF ProbeInv, SweepInv
<1>6. ASSUME NEW vs \in SUBSET Videos, SweepRuns(vs) PROVE ProbeInv'
  <2>1. /\ due # {} /\ due' = {} /\ UNCHANGED <<active, begun>>
        /\ status' = [running |-> TRUE, total |-> Cardinality(vs), analyzed |-> 0, skipped |-> 0, failed |-> 0]
        /\ sweep' = [v \in Videos |-> IF v \in vs THEN [at |-> "waiting"] ELSE Idle]
    BY <1>6 DEF SweepRuns, Ended
  <2>2. Taken' = vs /\ DoneSet' = {} /\ active
    BY <2>1 DEF Taken, DoneSet, Idle, ProbeInv, SweepInv
  <2>3. Cardinality(vs) \in Nat /\ Cardinality({}) = 0
    BY FS_Subset, FS_CardinalityType, FS_EmptySet
  <2>4. SweepTypes'
    <3>1. sweep' \in [Videos -> Sweeping]
      BY <2>1 DEF Sweeping
    <3>2. QED
      BY <2>1, <2>3, <3>1 DEF ProbeInv, SweepInv, SweepTypes
  <2>5. Count(status') = 0 /\ status'.total = Cardinality(vs) /\ status'.running
    BY <2>1 DEF Count
  <2>6. active' /\ due' = {} /\ Count(status') = Cardinality(DoneSet')
    BY <2>1, <2>2, <2>3, <2>5
  <2>7. status'.total = Cardinality(Taken')
    BY <2>2, <2>5
  <2>8. SweepInv'
    BY <2>4, <2>5, <2>6, <2>7 DEF SweepInv
  <2>9. QED
    BY <1>3, <2>8 DEF ProbeInv
<1>7. QED
  BY <1>4, <1>5, <1>6

-----------------------------------------------------------------------------
LEMMA SweepUntouched == ASSUME ProbeInv, UNCHANGED <<sweep, active, due, status, begun>> PROVE SweepInv'
BY DEF ProbeInv, SweepInv, SweepTypes, DoneSet, Taken, Count

LEMMA Probed ==
  ASSUME ProbeInv, NEW s \in Probes, (\E v \in Videos : ProbeFile(s, v)) \/ ProbeSaved(s)
  PROVE  ProbeInv'
<1>1. UNCHANGED <<version, last, memory, sweep, row, active, due, status, begun, mixed>>
  BY DEF ProbeFile, ProbeSaved
<1>1a. probe \in [Probes -> Probing]
  BY DEF ProbeInv, StoreInv, StoreTypes
<1>2. PICK new \in Probing : /\ probe' = [probe EXCEPT ![s] = new]
                             /\ new.at = "saving" => Fit(new.v, new.facts)
  <2>1. CASE ProbeSaved(s)
    <3>1. Idle \in Probing /\ Idle.at # "saving"
      BY DEF Probing, Idle
    <3>2. QED
      BY <2>1, <3>1 DEF ProbeSaved
  <2>2. ASSUME NEW v \in Videos, ProbeFile(s, v)
        PROVE  \E new \in Probing : /\ probe' = [probe EXCEPT ![s] = new]
                                    /\ new.at = "saving" => Fit(new.v, new.facts)
    <3> DEFINE now == [at |-> "saving", v |-> v, facts |-> version[v]]
    <3>1. version[v] \in Nat \ {0} /\ version[v] <= last /\ probe' = [probe EXCEPT ![s] = now]
      BY <2>2 DEF ProbeFile, ProbeInv, StoreInv, StoreTypes, NoFile
    <3>2. now \in Probing /\ Fit(now.v, now.facts)
      BY <3>1 DEF Probing, Fit, Past
    <3>3. QED
      BY <3>1, <3>2
  <2>3. QED
    BY <2>1, <2>2
<1>3. store' \in [Videos -> [id : Nat, facts : Nat]] /\ \A u \in Videos : RowFits(u)'
  <2>1. CASE ProbeSaved(s)
    <3>1. /\ probe[s].at = "saving" /\ probe[s].v \in Videos /\ probe[s].facts \in Nat \ {0}
          /\ Fit(probe[s].v, probe[s].facts) /\ CacheSave(probe[s].v, probe[s].facts)
      <4>1. probe[s].at = "saving" /\ probe[s] \in Probing /\ CacheSave(probe[s].v, probe[s].facts)
        BY <1>1a, <2>1 DEF ProbeSaved
      <4>2. probe[s].v \in Videos /\ probe[s].facts \in Nat \ {0}
        BY <4>1 DEF Probing, Idle
      <4>3. QED
        BY <4>1, <4>2 DEF ProbeInv, StoreInv
    <3>2. QED
      BY <1>1, <3>1, Saving DEF ProbeInv
  <2>2. CASE UNCHANGED store
    BY <1>1, <2>2 DEF ProbeInv, StoreInv, StoreTypes, RowFits, Fit, Past
  <2>3. QED
    BY <2>1, <2>2 DEF ProbeFile
<1>4. StoreTypes'
  <2>1. probe' \in [Probes -> Probing]
    BY <1>1a, <1>2
  <2>2. QED
    BY <1>1, <1>3, <2>1 DEF ProbeInv, StoreInv, StoreTypes
<1>5. ASSUME NEW q \in Probes PROVE (probe[q].at = "saving" => Fit(probe[q].v, probe[q].facts))'
  <2>1. probe'[q] = IF q = s THEN new ELSE probe[q]
    BY <1>1a, <1>2
  <2>2. CASE q = s
    BY <1>1, <1>2, <2>1, <2>2 DEF Fit, Past
  <2>3. CASE q # s
    BY <1>1, <2>1, <2>3 DEF ProbeInv, StoreInv, Fit, Past
  <2>4. QED
    BY <2>2, <2>3
<1>6. StoreInv'
  BY <1>1, <1>3, <1>4, <1>5 DEF ProbeInv, StoreInv, RowFits, Past, KeyFits
<1>7. QED
  BY <1>1, <1>6, SweepUntouched DEF ProbeInv

LEMMA Listed ==
  ASSUME ProbeInv, NEW t \in Readings,
         (\E v \in Videos : ListKeyed(t, v)) \/ ListRead(t) \/ ListKeeps(t)
  PROVE  ProbeInv'
<1> USE ProbeAssumption
<1>1. /\ UNCHANGED <<version, last, store, sweep, probe, active, due, status, begun, mixed>>
      /\ row \in [Readings -> Reading]
  BY DEF ProbeInv, StoreInv, StoreTypes, ListKeyed, ListRead, ListKeeps
<1>2. PICK new \in Reading : /\ row' = [row EXCEPT ![t] = new]
                             /\ new.at = "keyed" => Past(new.v, new.id)
                             /\ new.at = "read" => KeyFits(new.v, new.id, new.facts)
  <2>1. CASE ListKeeps(t)
    <3>1. Idle \in Reading /\ Idle.at \notin {"keyed", "read"}
      BY DEF Reading, Idle
    <3>2. QED
      BY <2>1, <3>1 DEF ListKeeps
  <2>2. ASSUME NEW v \in Videos, ListKeyed(t, v)
        PROVE  \E new \in Reading : /\ row' = [row EXCEPT ![t] = new]
                                    /\ new.at = "keyed" => Past(new.v, new.id)
                                    /\ new.at = "read" => KeyFits(new.v, new.id, new.facts)
    <3> DEFINE now == [at |-> "keyed", v |-> v, id |-> version[v]]
    <3>1. version[v] \in Nat \ {0} /\ version[v] <= last /\ row' = [row EXCEPT ![t] = now]
      BY <2>2 DEF ListKeyed, ProbeInv, StoreInv, StoreTypes, NoFile
    <3>2. now \in Reading /\ Past(now.v, now.id) /\ now.at = "keyed"
      BY <3>1 DEF Reading, Past
    <3>3. QED
      BY <3>1, <3>2
  <2>3. CASE ListRead(t)
    <3> DEFINE r == row[t]
               now == [at |-> "read", v |-> r.v, id |-> r.id, facts |-> version[r.v]]
    <3>1. r.at = "keyed" /\ r.v \in Videos /\ r.id \in Nat \ {0} /\ Past(r.v, r.id)
          /\ version[r.v] \in Nat /\ version[r.v] <= last
      BY <1>1, <2>3 DEF ListRead, ProbeInv, StoreInv, StoreTypes, Reading, Idle
    <3>2. CASE row' = [row EXCEPT ![t] = Idle]
      <4>1. Idle \in Reading /\ Idle.at \notin {"keyed", "read"}
        BY DEF Reading, Idle
      <4>2. QED
        BY <3>2, <4>1
    <3>3. CASE version[r.v] # NoFile /\ row' = [row EXCEPT ![t] = now]
      <4>1. now \in Reading /\ now.at = "read" /\ KeyFits(now.v, now.id, now.facts)
        BY <3>1, <3>3 DEF Reading, KeyFits, Past, NoFile
      <4>2. QED
        BY <3>3, <4>1
    <3>4. QED
      BY <2>3, <3>2, <3>3 DEF ListRead
  <2>4. QED
    BY <2>1, <2>2, <2>3
<1>3. /\ memory' \subseteq [v : Videos, id : Nat \ {0}, facts : Nat \ {0}]
      /\ IsFiniteSet(memory') /\ Cardinality(memory') <= MaxMemory
      /\ \A e \in memory' : KeyFits(e.v, e.id, e.facts)
  <2>1. /\ memory \subseteq [v : Videos, id : Nat \ {0}, facts : Nat \ {0}]
        /\ IsFiniteSet(memory) /\ Cardinality(memory) <= MaxMemory
        /\ \A e \in memory : KeyFits(e.v, e.id, e.facts)
    BY DEF ProbeInv, StoreInv, StoreTypes
  <2>2. CASE UNCHANGED memory
    BY <2>1, <2>2
  <2>3. CASE ListKeeps(t)
    <3> DEFINE r == row[t]
               e == [v |-> r.v, id |-> r.id, facts |-> r.facts]
               kept == memory \ Known(e.v, e.id)
    <3>1. /\ r.at = "read" /\ r.v \in Videos /\ r.id \in Nat \ {0} /\ r.facts \in Nat \ {0}
          /\ KeyFits(r.v, r.id, r.facts)
      BY <1>1, <2>3 DEF ListKeeps, ProbeInv, StoreInv, Reading, Idle
    <3>2. memory' = Memorized(e)
      BY <2>3 DEF ListKeeps, KeyOf
    <3>3. e \in [v : Videos, id : Nat \ {0}, facts : Nat \ {0}] /\ KeyFits(e.v, e.id, e.facts)
      BY <3>1
    <3> HIDE DEF e
    <3>4. IsFiniteSet({e}) /\ Cardinality({e}) = 1 /\ Cardinality(memory) \in Nat
      BY <2>1, FS_Singleton, FS_CardinalityType
    <3>5. CASE Cardinality(memory) >= MaxMemory
      BY <3>2, <3>3, <3>4, <3>5 DEF Memorized
    <3>6. CASE ~(Cardinality(memory) >= MaxMemory)
      <4>1. memory' = kept \cup {e}
        BY <3>2, <3>6 DEF Memorized
      <4>2. IsFiniteSet(kept) /\ Cardinality(kept) <= Cardinality(memory) /\ Cardinality(kept) \in Nat
        BY <2>1, FS_Subset, FS_CardinalityType
      <4>3. IsFiniteSet(kept \cup {e}) /\ Cardinality(kept \cup {e}) <= Cardinality(kept) + 1
        <5> HIDE DEF kept
        <5>1. /\ IsFiniteSet(kept \cup {e})
              /\ Cardinality(kept \cup {e}) = IF e \in kept THEN Cardinality(kept) ELSE Cardinality(kept) + 1
          BY <4>2, FS_AddElement
        <5>2. QED
          BY <4>2, <5>1
      <4>4. QED
        BY <2>1, <3>3, <3>4, <3>6, <4>1, <4>2, <4>3, FS_CardinalityType
    <3>7. QED
      BY <3>5, <3>6
  <2>4. QED
    BY <2>2, <2>3 DEF ListKeyed, ListRead
<1>4. StoreTypes'
  <2>1. row' \in [Readings -> Reading]
    BY <1>1, <1>2
  <2>2. QED
    BY <1>1, <1>3, <2>1 DEF ProbeInv, StoreInv, StoreTypes
<1>5. ASSUME NEW q \in Readings
      PROVE  /\ (row[q].at = "keyed" => Past(row[q].v, row[q].id))'
             /\ (row[q].at = "read" => KeyFits(row[q].v, row[q].id, row[q].facts))'
  <2>1. row'[q] = IF q = t THEN new ELSE row[q]
    BY <1>1, <1>2
  <2>2. CASE q = t
    BY <1>1, <1>2, <2>1, <2>2 DEF Past, KeyFits
  <2>3. CASE q # t
    BY <1>1, <2>1, <2>3 DEF ProbeInv, StoreInv, Past, KeyFits
  <2>4. QED
    BY <2>2, <2>3
<1>6. \A e \in memory' : KeyFits(e.v, e.id, e.facts)'
  BY <1>1, <1>3 DEF Past, KeyFits
<1>7. StoreInv'
  BY <1>1, <1>4, <1>5, <1>6 DEF ProbeInv, StoreInv, Fit, Past
<1>8. QED
  BY <1>1, <1>7, SweepUntouched DEF ProbeInv

-----------------------------------------------------------------------------
LEMMA ProbeSteps == ASSUME ProbeInv, [ProbeNext]_probeVars PROVE ProbeInv'
<1>1. ASSUME NEW v \in Videos, Replaced(v) \/ Removed(v) PROVE ProbeInv'
  BY <1>1, FilesChanging
<1>2. ASSUME NEW v \in Videos, SweepLooks(v) \/ SweepProbes(v) \/ SweepSaves(v) PROVE ProbeInv'
  BY <1>2, Looking, SweepSaving
<1>3. CASE SweepEnds \/ \E vs \in SUBSET Videos : SweepStarts(vs) \/ SweepRuns(vs)
  BY <1>3, SweepBounds
<1>4. ASSUME NEW s \in Probes, (\E v \in Videos : ProbeFile(s, v)) \/ ProbeSaved(s) PROVE ProbeInv'
  BY <1>4, Probed
<1>5. ASSUME NEW t \in Readings, (\E v \in Videos : ListKeyed(t, v)) \/ ListRead(t) \/ ListKeeps(t)
      PROVE  ProbeInv'
  BY <1>5, Listed
<1>6. CASE UNCHANGED probeVars
  BY <1>6, SweepUntouched DEF probeVars, ProbeInv, StoreInv, StoreTypes, Past, Fit, KeyFits
<1>7. QED
  BY <1>1, <1>2, <1>3, <1>4, <1>5, <1>6 DEF ProbeNext

(* What is answered of a file is so, except where the file was replaced between its
   probe and the save and has not changed since (sqlite_history.py); the list's memory
   needs no exception, and the sweep's progress adds up, for any number of files,
   probes and readers. *)
THEOREM KnownIsCurrent == ProbeSpec => []ProbesHold
<1>1. ProbeInv => ProbesHold
  <2> SUFFICES ASSUME ProbeInv PROVE ProbesHold
    OBVIOUS
  <2>1. ProbeTypeOK
    <3>1. \A v \in Videos : sweep[v].at \in States
      BY DEF ProbeInv, SweepInv, SweepTypes, Sweeping, States, Idle
    <3>2. \A v \in Videos : /\ version[v] \in NoFile..last
                            /\ store[v].id <= last /\ store[v].facts <= store[v].id
      BY ProbeAssumption DEF ProbeInv, StoreInv, StoreTypes, NoFile
    <3>3. \A e \in memory : e.v \in Videos /\ e.id <= e.facts
      BY DEF ProbeInv, StoreInv, StoreTypes, KeyFits
    <3>4. QED
      BY <3>1, <3>2, <3>3 DEF ProbeTypeOK, ProbeInv, StoreInv, StoreTypes, SweepInv, SweepTypes
  <2>2. StoredIsCurrent
    BY DEF StoredIsCurrent, CacheGet, ProbeInv, StoreInv
  <2>3. MemoryIsCurrent
    BY DEF MemoryIsCurrent, ProbeInv, StoreInv, KeyFits
  <2>4. ProgressAddsUp
    BY DEF ProgressAddsUp, ProbeInv, SweepInv, DoneSet
  <2>5. QED
    BY <2>1, <2>2, <2>3, <2>4 DEF ProbesHold
<1>2. QED
  BY <1>1, ProbeStart, ProbeSteps, PTL DEF ProbeSpec
=============================================================================
