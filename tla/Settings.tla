------------------------------ MODULE Settings ------------------------------
(***************************************************************************)
(* settings.json: settings_store.py, credentials.py and the routes that    *)
(* show and save the settings.  The file keeps the credentials sealed with *)
(* the deployment's FC_SECRET, the memory keeps them in the clear, a page  *)
(* is shown masks and posts the whole document back, when it likes.        *)
(*                                                                         *)
(* A page is the operator's word: what it posts in a field counts as said, *)
(* also when the page is out of date, but for a mask, and for an empty     *)
(* ec_password, which say nothing.  Three credentials are never masked, so *)
(* a page that is out of date puts back the value it was shown.  The app's *)
(* own key is a hash.  The salts go where the document goes, and are left  *)
(* out.                                                                    *)
(***************************************************************************)
CONSTANTS Fields,       \* credentials there are
          Typed,        \* values an operator types
          AppKeys,      \* keys of the app
          Secrets,      \* values FC_SECRET takes
          Unset,        \* ... when it is not defined
          Pages,        \* settings pages that are open
          Envs,         \* the deployment variables a start may find
          Legacy        \* files that other versions left

EcPassword == "amule.ec_password"
\* ENCRYPTED_SECRET_FIELDS: what the file keeps sealed.
Encrypted == Fields \cap {"radarr.api_key", "sonarr.api_key", "amutorrent.api_key", "amutorrent.password",
                       "opensubtitles.api_key", EcPassword, "ntfy.token"}
\* _mask_secrets: what a page is not shown.  The rest it shows as it is.
Hidden == Fields \cap {"radarr.api_key", "sonarr.api_key", "amutorrent.api_key", "amutorrent.password",
                       "qbit.password", EcPassword, "ntfy.token"}
\* _env_to_settings: what a deployment variable may supply.
Variables == Fields \cap {"radarr.api_key", "sonarr.api_key", "prowlarr.api_key", "amutorrent.api_key",
                          "amutorrent.password", "opensubtitles.api_key"}
\* run_setup: what the wizard may bring.
Wizard == Fields \cap {"radarr.api_key", "sonarr.api_key", "amutorrent.api_key", "amutorrent.password"}

Empty == "empty"
Masked == "mask"
Shown == {Empty, Masked}

\* A credential of the file, in the clear or under a secret; an empty one is
\* never sealed, nor is one that is not among the sealed fields.
Clear(v) == [val |-> v, under |-> Unset]
Credential == [val : Typed, under : Secrets \union {Unset}] \union {Clear(Empty)}
\* The app's key in the file: a hash (of nothing: no key), or what other
\* versions wrote.
AppKey == [how : {"hash", "clear", "mask", "unsalted"}, of : AppKeys \union {Empty}]
Hash(k) == [how |-> "hash", of |-> k]
NoFile == [none |-> TRUE]
Document == [cred : {c \in [Fields -> Credential] : \A f \in Fields \ Encrypted : c[f].under = Unset},
             app : AppKey]

\* What the deployment variables hold: RADARR_API_KEY and others, API_KEY.
Env == [cred : [Variables -> Typed \union {Empty}], app : AppKeys \union {Empty}]

ASSUME SettingsAssumption ==
  /\ Fields \subseteq {"radarr.api_key", "sonarr.api_key", "prowlarr.api_key", "amutorrent.api_key",
                  "amutorrent.password", "opensubtitles.api_key", "qbit.password",
                  "amuleapi.password", EcPassword, "ntfy.token"}
  /\ Empty \notin Typed \union AppKeys /\ Masked \notin Typed \union AppKeys
  /\ Unset \notin Secrets /\ Envs \subseteq Env /\ Legacy \subseteq Document

VARIABLES file, started, fcSecret,
          memory, app,  \* _settings: the credentials, the hash of the app's key
          error,        \* encryption_error
          form,         \* form[p]: what page p was shown
          last,         \* history: last[f]: what was last said to be credential f
          wiped,        \* history: credentials overwritten while they could not be read
          gone,         \* history: those that were overwritten in an earlier run
          unsaved,      \* history: values said that a failed write kept out of the file
          failed        \* history: a write failed since the start

setVars == <<file, started, fcSecret, memory, app, error, form, last, wiped, gone, unsaved,
             failed>>

NoForm == [open |-> FALSE]
Form == [open : {TRUE}, cred : [Fields -> Typed \union Shown], keyed : BOOLEAN, app : AppKeys \union {Empty}]

SetTypeOK ==
  /\ file \in Document \union {NoFile} /\ started \in BOOLEAN /\ fcSecret \in Secrets \union {Unset}
  /\ memory \in [Fields -> Typed \union {Empty}] /\ app \in AppKeys \union {Empty}
  /\ error \in BOOLEAN
  /\ form \in [Pages -> Form \union {NoForm}]
  /\ last \in [Fields -> Typed \union {Empty}]
  /\ wiped \subseteq Fields /\ gone \subseteq Fields /\ unsaved \subseteq Fields /\ failed \in BOOLEAN

Blank == [f \in Fields |-> Empty]

SetInit ==
  /\ file \in Legacy \union {NoFile} /\ started = FALSE /\ fcSecret = Unset
  /\ memory = Blank /\ app = Empty /\ error = FALSE
  /\ form = [p \in Pages |-> NoForm]
  /\ last = IF file = NoFile THEN Blank ELSE [f \in Fields |-> file.cred[f].val]
  /\ wiped = {} /\ gone = {} /\ unsaved = {} /\ failed = FALSE

-----------------------------------------------------------------------------
\* prepare_for_use: what this secret opens.
Opens(s, c) == c.under \in {Unset, s}
Unreadable(s, f) == file # NoFile /\ ~Opens(s, file.cred[f])
Kept(f) == IF file = NoFile THEN Empty ELSE file.cred[f].val

Seal_Never(f, s, v) == Clear(v)
\* prepare_for_storage.
Seal(f, s, v) == IF v = Empty \/ f \notin Encrypted THEN Clear(v) ELSE [val |-> v, under |-> s]

\* save_settings: one replacement of the file, or none when the directory
\* cannot be written; a credential that could not be read goes with the old
\* file, unless it was said anew.
Save(s, mem, key, said) ==
  \/ /\ file' = [cred |-> [f \in Fields |-> Seal(f, s, mem[f])], app |-> Hash(key)]
     /\ wiped' = (wiped \ said) \union {f \in Fields \ said : mem[f] = Empty /\ Unreadable(s, f)}
     /\ gone' = gone \ said /\ unsaved' = {}
     /\ UNCHANGED failed
  \/ /\ unsaved' = unsaved \union said
     /\ failed' = TRUE
     /\ UNCHANGED <<file, wiped, gone>>

\* _env_fills_gaps: a variable supplies what the file leaves empty.
Gaps(env) == {f \in Variables : file.cred[f].val = Empty /\ env.cred[f] # Empty}
Filled(f, env) == IF f \in Gaps(env) THEN Clear(env.cred[f]) ELSE file.cred[f]
FilledApp(env) ==
  IF env.app # Empty /\ file.app.how \in {"hash", "unsalted"}
  THEN [how |-> "clear", of |-> env.app] ELSE file.app

\* normalise_app_key.
Normal(a) == IF a.how \in {"hash", "clear"} THEN a.of ELSE Empty

\* The first start: migrate_env_vars writes what the variables hold.
Seed(s, env) ==
  LET mem == [f \in Fields |-> IF f \in Variables THEN env.cred[f] ELSE Empty]
  IN  /\ file = NoFile
      /\ memory' = mem /\ app' = env.app /\ last' = mem /\ error' = FALSE
      /\ Save(s, mem, env.app, {f \in Fields : mem[f] # Empty})

NeedsSave_KeyOnly(s, mem, a) == a.how # "hash"
\* load_settings writes the file back when a key was migrated, or when there is
\* a credential to seal (the memory has them all in the clear).
NeedsSave(s, mem, a) == a.how # "hash" \/ (s # Unset /\ \E f \in Encrypted : mem[f] # Empty)

Failures_NoSecret(s, read) == IF s = Unset THEN {} ELSE {f \in Encrypted : ~Opens(s, read[f])}
\* What is reported, also when there is no secret at all.
Failures(s, read) == {f \in Encrypted : ~Opens(s, read[f])}

Load(s, env) ==
  LET read == [f \in Fields |-> Filled(f, env)]
      mem == [f \in Fields |-> IF Opens(s, read[f]) THEN read[f].val ELSE Empty]
  IN  /\ file # NoFile
      /\ memory' = mem /\ app' = Normal(FilledApp(env))
      /\ last' = [f \in Fields |-> IF f \in Gaps(env) THEN env.cred[f] ELSE last[f]]
      /\ error' = (Failures(s, read) # {})
      /\ IF NeedsSave(s, mem, FilledApp(env))
         THEN Save(s, mem, Normal(FilledApp(env)), Gaps(env))
         ELSE unsaved' = Gaps(env) /\ UNCHANGED <<file, wiped, gone, failed>>

\* config.py is imported: migrate_env_vars, load_settings.
Start ==
  /\ ~started /\ started' = TRUE
  /\ \E s \in Secrets \union {Unset}, env \in Envs :
       fcSecret' = s /\ (Seed(s, env) \/ Load(s, env))
  /\ UNCHANGED form

\* What is not in the file goes with the process; the pages stay open.
Stop ==
  /\ started /\ started' = FALSE
  /\ memory' = Blank /\ app' = Empty /\ error' = FALSE /\ failed' = FALSE
  /\ last' = [f \in Fields |-> IF f \in unsaved THEN Kept(f) ELSE last[f]]
  /\ gone' = wiped /\ unsaved' = {}
  /\ UNCHANGED <<file, fcSecret, form, wiped>>

-----------------------------------------------------------------------------
\* GET /api/settings: _mask_secrets.
OnPage(f) == IF f \in Hidden /\ memory[f] # Empty THEN Masked ELSE memory[f]
Open(p) ==
  /\ started
  /\ form' = [form EXCEPT ![p] = [open |-> TRUE, cred |-> [f \in Fields |-> OnPage(f)],
                                  keyed |-> app # Empty, app |-> app]]
  /\ UNCHANGED <<file, started, fcSecret, memory, app, error, last, wiped, gone, unsaved, failed>>

\* _restore_masked_secrets.
Leaves_Masks(f, v) == f \in Hidden /\ v = Masked
Leaves(f, v) == f \in Hidden /\ (v = Masked \/ (f = EcPassword /\ v = Empty))
Restored_Verbatim(f, v) == v
Restored(f, v) == IF Leaves(f, v) THEN memory[f] ELSE v

\* _apply_app_key_change: a mask, or no key at all, leaves what the page brought.
AppKeyOf(p, k) == IF k = Masked \/ (k = Empty /\ ~form[p].keyed) THEN form[p].app ELSE k
KeyFields(p) == AppKeys \union {Empty} \union (IF form[p].keyed THEN {Masked} ELSE {})

\* What a request says of a field.  A mask says nothing, nor does an empty
\* ec_password ("clave vacia = conservar la guardada"), nor an empty field where
\* there is something that could not be read, and so not be shown.
Says(f, v) ==
  /\ v # Masked
  /\ v = Empty => f # EcPassword /\ ~Unreadable(fcSecret, f)

\* POST /api/settings: the page as it was shown, but for the fields typed over.
Post(p) ==
  /\ started /\ form[p].open
  /\ \E body \in [Fields -> Typed \union Shown], k \in KeyFields(p) :
       LET mem == [f \in Fields |-> Restored(f, body[f])]
           said == {f \in Fields : Says(f, body[f])}
       IN  /\ \A f \in Fields : body[f] = Masked => form[p].cred[f] = Masked
           /\ memory' = mem /\ app' = AppKeyOf(p, k)
           /\ last' = [f \in Fields |-> IF f \in said THEN body[f] ELSE last[f]]
           /\ Save(fcSecret, mem, AppKeyOf(p, k), said)
  /\ UNCHANGED <<started, fcSecret, error, form>>

\* POST /api/setup: refused once there is a key; what the wizard brings over
\* what there is.
Setup ==
  /\ started /\ app = Empty
  /\ \E brought \in SUBSET Wizard, v \in [Wizard -> Typed \union {Empty}], k \in AppKeys \union {Empty} :
       LET mem == [f \in Fields |-> IF f \in brought THEN v[f] ELSE memory[f]]
           said == {f \in brought : Says(f, v[f])}
       IN  /\ memory' = mem /\ app' = k
           /\ last' = [f \in Fields |-> IF f \in said THEN v[f] ELSE last[f]]
           /\ Save(fcSecret, mem, k, said)
  /\ UNCHANGED <<started, fcSecret, error, form>>

SetNext == Start \/ Stop \/ Setup \/ \E p \in Pages : Open(p) \/ Post(p)
SetSpec == SetInit /\ [][SetNext]_setVars

-----------------------------------------------------------------------------
\* "Saving that verbatim replaced every real credential with its mask": through
\* any starts, secrets, pages and saves a credential is what was last said of it, in
\* the file and, when this secret opens it, in memory.  Excepted are those that a
\* save overwrote while they could not be read, an operator's save or a start's own
\* (UnreadableIsKept), until they are said anew.
CredentialsSurvive ==
  \A f \in Fields \ wiped :
    /\ f \in unsaved \/ Kept(f) = last[f]
    /\ started => memory[f] = last[f] \/ Unreadable(fcSecret, f)

\* "Silently returning empty credentials would show every service as
\* unconfigured": a credential that the program misses is an error, throughout the
\* run that could not read it, also once a save has overwritten it.  The runs after
\* that find it empty and say nothing.
MissingIsLoud ==
  started => \A f \in Fields \ gone : memory[f] # last[f] => error

\* "So the file ends up fully protected": whatever file was found, a program that
\* has a secret and could write leaves none of the sealed fields in the clear.  The
\* fields that are never sealed stay so: prowlarr.api_key, qbit.password and
\* amuleapi.password.
ProtectedAtRest ==
  started /\ fcSecret # Unset /\ ~failed /\ file # NoFile =>
    /\ file.app.how = "hash"
    /\ \A f \in Encrypted : file.cred[f].val # Empty => file.cred[f].under # Unset

SettingsHold == SetTypeOK /\ CredentialsSurvive /\ MissingIsLoud /\ ProtectedAtRest

\* "Restore the former value, or enter the credentials again": a start that could
\* not read a credential leaves it in the file.
UnreadableIsKept ==
  [][\A f \in Fields : ~started /\ started' /\ Kept(f) # Empty => Kept(f)' = Kept(f)]_setVars
=============================================================================
