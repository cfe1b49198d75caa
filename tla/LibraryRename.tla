--------------------------- MODULE LibraryRename ---------------------------
(* Renames of library copies: what the dialog proposes and what the list of
   candidates hides (library_rename.proposal, candidates), the rename of a video
   with its sidecars (apply_rename, rename_plan.py), the log of renames
   (sqlite_history.py) and the rescan that is owed to Radarr (routes/files.py).
   Requests run at the same time in threads, the dialog they come from may be out
   of date, and files come into the same folders meanwhile. A folder is the
   sequence of its names from its root on, a stem that of its words. *)
EXTENDS Naturals, Sequences
SeqExt == INSTANCE SequencesExt

CONSTANTS Library,      \* the files at the start, paths
          Incoming,     \* files that others may write: paths
          Roots,        \* _quality_roots
          Movies,       \* the catalogue of Radarr; a movie is the folder it has
          TitleOf,      \* TitleOf[m]: the words that open the name of a copy of m
          Reproduced,   \* those whose file name the template of Radarr reproduces
          Quality,      \* the word that a template adds to the title
          Typed,        \* stems the operator may type instead
          Renames,      \* dialogs, each with its request
          MaxAccidents  \* renames that fail, stores that are down, crashes: a bound

NoMovie == "none"

Path == [dir : Seq(STRING), stem : Seq(STRING), ext : {"mkv", "srt"}]
Words(s) == s # <<>>
IsPath(p) == p \in Path /\ Len(p.dir) \in 1..3 /\ Words(p.stem)

(* A folder holds something to rename; a movie has a folder of its own. *)
ASSUME RenameAssumption == /\ Library # {} /\ \A p \in Library \cup Incoming : IsPath(p)
                           /\ \A m \in Movies : m \in STRING \ {"", NoMovie}
                           /\ TitleOf \in [Movies -> Seq(STRING)] /\ Quality \in STRING
                           /\ Reproduced \subseteq Movies /\ MaxAccidents \in Nat
                           /\ \A s \in Typed : s \in Seq(STRING) /\ Words(s)

VARIABLES files,        \* files[p]: which file p holds, for the paths that exist
          dialog,       \* dialog[r]: what the request of r says
          step,         \* step[r] of the request
          siblings,     \* siblings[r]: the folder as it was listed
          toMove,       \* toMove[r]: the sources that are still to be renamed
          moved, failed,    \* moved[r]: the moves that are reported; failed[r]: sources
          renameLog,    \* rename_log: rows src, dst
          rescans,      \* the movies Radarr was asked to look at, by request
          late,         \* history: late[r]: what became occupied since r listed or checked
          lost,         \* history: files a rename of r replaced, by their path
          accidents

renameVars == <<files, dialog, step, siblings, toMove, moved, failed, renameLog, rescans,
                late, lost, accidents>>

Exists(p) == p \in DOMAIN files
NoDialog == [src |-> CHOOSE p \in Library : TRUE, folder |-> "", stem |-> <<>>, movie |-> NoMovie,
             edited |-> FALSE]

RenameTypeOK ==
    /\ \A p \in DOMAIN files : IsPath(p) /\ files[p] \in Library \cup Incoming
    /\ \A p, q \in DOMAIN files : files[p] = files[q] => p = q
    /\ step \in [Renames -> {"none", "listed", "moving", "rescan", "over", "dead"}]
    /\ \A r \in Renames : /\ toMove[r] \subseteq {dialog[r].src} \cup siblings[r]
                          /\ \A mv \in moved[r] : mv.from.dir = dialog[r].src.dir
    /\ accidents \in 0..MaxAccidents

RenameInit == /\ files = [p \in Library |-> p]
              /\ dialog = [r \in Renames |-> NoDialog] /\ step = [r \in Renames |-> "none"]
              /\ siblings = [r \in Renames |-> {}] /\ toMove = [r \in Renames |-> {}]
              /\ moved = [r \in Renames |-> {}] /\ failed = [r \in Renames |-> {}]
              /\ renameLog = {} /\ rescans = {}
              /\ late = [r \in Renames |-> {}] /\ lost = {} /\ accidents = 0

-----------------------------------------------------------------------------
(* What is proposed. *)

InRoot(dir) == dir[1] \in Roots

\* Mutation.
Loose_InRoot(dir) == InRoot(dir)

Loose(dir) == dir \in {<<root>> : root \in Roots}

(* match_movie: the one movie whose title opens the stem; a tie is nobody's. *)
Hits(stem) == {m \in Movies : SeqExt!IsPrefix(TitleOf[m], stem)}
MatchMovie(stem) == IF \E m \in Movies : Hits(stem) = {m}
                      THEN CHOOSE m \in Movies : Hits(stem) = {m} ELSE NoMovie

(* The template, evaluated with the facts of the file: its name says nothing but
   the title and the quality here. *)
Rendered(m) == Append(TitleOf[m], Quality)

(* proposal: the template names a file when it proved itself on the file of Radarr,
   or the movie was chosen by hand, and what it asks for could be read. *)
Trusted(m, chosen) == m # NoMovie /\ (m \in Reproduced \/ chosen)
Proposal(p, chosen, probed) ==
    LET m == IF chosen # NoMovie THEN chosen ELSE MatchMovie(p.stem)
        named == Trusted(m, chosen # NoMovie) /\ probed
    IN [movie |-> m, named |-> named,
        stem |-> IF named THEN Rendered(m) ELSE p.stem,
        folder |-> IF named /\ Loose(p.dir) THEN m ELSE ""]

(* candidates hides a copy that is as it would be proposed, and no other. *)
NeedsWork(p) == LET got == Proposal(p, NoMovie, TRUE) IN
    \/ got.movie = NoMovie \/ ~got.named \/ got.stem # p.stem
    \/ Loose(p.dir) /\ got.folder # ""

-----------------------------------------------------------------------------
(* The dialog, confirmed: as it was proposed or with another name typed, for a file
   that may have gone since. file_rename_apply lists the folder anew, in a thread of
   its own. *)

\* Mutation.
Allowed_Anywhere(d) == TRUE

(* Outside the roots the movie has to be known: who has to be told. *)
Allowed(d) == d.movie # NoMovie \/ InRoot(d.src.dir)
Ends(r) == step' = [step EXCEPT ![r] = "over"]

ApplyDialog(r, p, m, got, typed) ==
    LET d == [src |-> p, folder |-> got.folder, movie |-> m, edited |-> typed # <<>>,
              stem |-> IF typed = <<>> THEN got.stem ELSE typed]
    IN /\ step[r] = "none" /\ p.ext = "mkv"
       /\ ~InRoot(p.dir) => got.movie # NoMovie
       /\ IF Allowed(d) THEN /\ dialog' = [dialog EXCEPT ![r] = d]
                             /\ siblings' = [siblings EXCEPT ![r] = {q \in DOMAIN files : q.dir = p.dir}]
                             /\ step' = [step EXCEPT ![r] = "listed"]
                        ELSE Ends(r) /\ UNCHANGED <<dialog, siblings>>
       /\ UNCHANGED <<files, toMove, moved, failed, renameLog, rescans, late, lost, accidents>>

(* is_sidecar_of: the same words first, and an extension that goes with a video. *)
IsSidecar(p, video) == p.ext = "srt" /\ p.dir = video.dir /\ SeqExt!IsPrefix(video.stem, p.stem)

\* Mutation.
Sources_SameStem(r) == {dialog[r].src} \cup {p \in siblings[r] : p.ext = "srt" /\ p.stem = dialog[r].src.stem}

Sources(r) == {dialog[r].src} \cup {p \in siblings[r] : IsSidecar(p, dialog[r].src)}

(* sidecar_target: what tells it apart is kept. *)
Suffix(p, video) == SubSeq(p.stem, Len(video.stem) + 1, Len(p.stem))
Target(r, p) == LET d == dialog[r] IN
    [dir |-> IF d.folder = "" THEN d.src.dir ELSE Append(d.src.dir, d.folder),
     stem |-> d.stem \o Suffix(p, d.src), ext |-> p.ext]

\* Mutation.
Collides_VideoOnly(r) == Exists(Target(r, dialog[r].src))

(* "Collisions are checked for the whole set before the first os.rename". *)
Collides(r) == \E p \in Sources(r) : Exists(Target(r, p))

(* apply_rename: every check is made before anything moves; the name, the seed guard
   or the folder may refuse as well. *)
CheckRename(r) ==
    /\ step[r] = "listed"
    /\ \/ /\ Exists(dialog[r].src) /\ ~Collides(r)
          /\ toMove' = [toMove EXCEPT ![r] = Sources(r)]
          /\ step' = [step EXCEPT ![r] = "moving"]
       \/ Ends(r) /\ UNCHANGED toMove
    /\ UNCHANGED <<files, dialog, siblings, moved, failed, renameLog, rescans, late, lost, accidents>>

(* One os.rename after another, the video's first; a sidecar that is gone is passed over. *)
Turn(r, p) == /\ step[r] = "moving" /\ p \in toMove[r]
              /\ dialog[r].src \in toMove[r] => p = dialog[r].src
Occupied(p) == [r \in Renames |-> late[r] \cup
                  (IF step[r] \in {"listed", "moving", "rescan", "over"} THEN {p} ELSE {})]
MoveFile(r, p) == LET to == Target(r, p) IN
    /\ Turn(r, p) /\ Exists(p)
    /\ files' = [q \in (DOMAIN files \ {p}) \cup {to} |-> IF q = to THEN files[p] ELSE files[q]]
    /\ lost' = IF Exists(to) THEN lost \cup {[by |-> r, at |-> to]} ELSE lost
    /\ late' = [Occupied(to) EXCEPT ![r] = late[r]]
    /\ toMove' = [toMove EXCEPT ![r] = @ \ {p}]
    /\ moved' = [moved EXCEPT ![r] = @ \cup {[from |-> p, to |-> to, file |-> files[p]]}]
    /\ UNCHANGED <<dialog, step, siblings, failed, renameLog, rescans, accidents>>

MoveRefused(r, p) ==
    /\ Turn(r, p)
    /\ toMove' = [toMove EXCEPT ![r] = @ \ {p}]
    /\ \/ /\ ~Exists(p)
          /\ failed' = [failed EXCEPT ![r] = IF p = dialog[r].src THEN @ \cup {p} ELSE @]
          /\ UNCHANGED accidents
       \/ /\ Exists(p) /\ accidents < MaxAccidents /\ accidents' = accidents + 1
          /\ failed' = [failed EXCEPT ![r] = @ \cup {p}]
    /\ UNCHANGED <<files, dialog, step, siblings, moved, renameLog, rescans, late, lost>>

(* Only the video's move is written to the log. *)
VideoMoves(r) == {mv \in moved[r] : mv.from = dialog[r].src}

\* Mutation.
Row_Requested(r) == {[src |-> dialog[r].src, dst |-> [dialog[r].src EXCEPT !.stem = dialog[r].stem]]}

Row(r) == {[src |-> mv.from, dst |-> mv.to] : mv \in VideoMoves(r)}
Moved(r) == step[r] = "moving" /\ toMove[r] = {}
RecordRename(r) ==
    /\ Moved(r) /\ VideoMoves(r) # {} /\ step' = [step EXCEPT ![r] = "rescan"]
    /\ \/ renameLog' = renameLog \cup Row(r) /\ UNCHANGED accidents
       \/ accidents < MaxAccidents /\ accidents' = accidents + 1 /\ UNCHANGED renameLog
    /\ UNCHANGED <<files, dialog, siblings, toMove, moved, failed, rescans, late, lost>>

(* A movie is looked at again if anything moved: _rescan_movie never raises, whatever
   Radarr answers. *)
RescanMovie(r) ==
    /\ step[r] = "rescan" \/ (Moved(r) /\ VideoMoves(r) = {})
    /\ Ends(r)
    /\ rescans' = IF moved[r] # {} /\ dialog[r].movie # NoMovie THEN rescans \cup {r} ELSE rescans
    /\ UNCHANGED <<files, dialog, siblings, toMove, moved, failed, renameLog, late, lost, accidents>>

-----------------------------------------------------------------------------
(* Others: the copies, the arr and the operator's own hands; the process stops. *)

FileComes(p) ==
    /\ p \in Incoming \ DOMAIN files /\ \A q \in DOMAIN files : files[q] # p
    /\ files' = [q \in DOMAIN files \cup {p} |-> IF q = p THEN p ELSE files[q]]
    /\ late' = Occupied(p)
    /\ UNCHANGED <<dialog, step, siblings, toMove, moved, failed, renameLog, rescans, lost, accidents>>

FileGoes(p) ==
    /\ Exists(p) /\ accidents < MaxAccidents /\ accidents' = accidents + 1
    /\ files' = [q \in DOMAIN files \ {p} |-> files[q]]
    /\ UNCHANGED <<dialog, step, siblings, toMove, moved, failed, renameLog, rescans, late, lost>>

RenameCrash ==
    /\ accidents < MaxAccidents /\ accidents' = accidents + 1
    /\ step' = [r \in Renames |-> IF step[r] \in {"none", "over"} THEN step[r] ELSE "dead"]
    /\ step' # step
    /\ UNCHANGED <<files, dialog, siblings, toMove, moved, failed, renameLog, rescans, late, lost>>

RenameNext ==
    \/ \E r \in Renames :
          \/ \E p \in Library \cup DOMAIN files, m \in Movies \cup {NoMovie},
                probed \in BOOLEAN, typed \in Typed \cup {<<>>} :
                   ApplyDialog(r, p, m, Proposal(p, m, probed), typed)
          \/ CheckRename(r)
          \/ \E p \in toMove[r] : MoveFile(r, p) \/ MoveRefused(r, p)
          \/ RecordRename(r) \/ RescanMovie(r)
    \/ \E p \in Incoming : FileComes(p)
    \/ \E p \in DOMAIN files : FileGoes(p)
    \/ RenameCrash

RenameSpec == RenameInit /\ [][RenameNext]_renameVars

-----------------------------------------------------------------------------
(* "An unguarded name is not a rename, it is a deletion": a rename replaces no file,
   of its own set or another's, but one that came to the target after the check. *)
NothingReplaced == \A l \in lost : l.at \in late[l.by]

(* A rename that reports no failure left nothing of the video behind: what the folder
   held of it under the old name went with it, or another rename took it. *)
NothingLeftBehind == \A r \in Renames :
    step[r] \in {"rescan", "over"} /\ moved[r] # {} /\ failed[r] = {} =>
        \A p \in siblings[r] \ (late[r] \cup {mv.to : mv \in moved[r]}) :
            p = dialog[r].src \/ IsSidecar(p, dialog[r].src) => ~Exists(p)

(* The log answers "what did this copy become": each row is a move of a video that
   took place, and a request that is over wrote its row, unless the store was down. *)
LogIsTrue == /\ \A row \in renameLog : \E r \in Renames : row \in Row(r)
             /\ accidents = 0 => \A r \in Renames :
                   step[r] = "over" => \A mv \in VideoMoves(r) :
                                           [src |-> mv.from, dst |-> mv.to] \in renameLog

(* Outside the 4K and 3D roots the file is one Radarr knows by its path: it is told of
   every name that changed there. *)
CatalogueIsTold == \A r \in Renames :
    step[r] = "over" /\ (\E mv \in moved[r] : ~InRoot(mv.from.dir)) => r \in rescans

(* A copy that took the name it was proposed is done: it is not proposed again, if the
   template proved itself on its movie and no other movie fits the name. *)
AppliedIsDone == \A r \in Renames : \A mv \in VideoMoves(r) :
    LET d == dialog[r] IN
    /\ ~d.edited /\ Rendered(MatchMovie(mv.to.stem)) = mv.to.stem
    /\ MatchMovie(mv.to.stem) \in Reproduced
    => ~NeedsWork(mv.to)

(* Renames lose nothing, leave nothing behind and are told to who has to know. *)
RenamesHold == /\ RenameTypeOK /\ NothingReplaced /\ NothingLeftBehind
               /\ LogIsTrue /\ CatalogueIsTold /\ AppliedIsDone
=============================================================================
