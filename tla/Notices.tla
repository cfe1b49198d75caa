------------------------------ MODULE Notices ------------------------------
(* What the operator is told about downloads: the rule of download_notices.py,
   the channel of notifier.py and the table that remembers what was tried. The
   poller of the downloads runs it after every refresh, one notice at a time, so
   nothing overlaps; what it knows may be missing, and a post may arrive although
   its answer does not. *)
EXTENDS Naturals, FiniteSets

CONSTANTS Downloads,    \* entries of an arr's queue
          Files,        \* paths of aMule's folder
          MaxTries,  \* MAX_ATTEMPTS
          MaxGrowth, MaxBlind    \* bounds of the model

ASSUME NoticesAssumption ==
  MaxTries \in Nat \ {0} /\ MaxGrowth \in Nat \ {0, 1} /\ MaxBlind \in Nat

NoticeA == 1            \* the client has finished
NoticeB == 2            \* the arr has imported

(* A download is told about at its two moments, a file at each size. *)
NoticeKeys == (Downloads \X {NoticeA, NoticeB}) \cup (Files \X (1..MaxGrowth))
Untried == [ok |-> FALSE, tries |-> 0]
NoPost == [state |-> "none"]

VARIABLES subject,      \* the item that is there in this behaviour: items share only the poller
          download,     \* download[d]: what the snapshot says of it
          size, whole,  \* a file of the folder, and whether it is complete
          previous,     \* _folder_previous: its sizes at the last tick; 0 is not there
          ntfy,         \* the channel: off in the settings, down or up
          table,        \* whether the table can be read and written
          tried,        \* tried[k]: the row of download_notices
          plan,         \* the notices of this tick still to send
          poll,         \* where the tick is
          post,         \* the post that is awaited
          told, posts,  \* history: posts of a notice that arrived, and all of them
          dark, lost    \* history: reads and records the table refused, and posts
                        \* whose answer or record was lost

tickVars == <<plan, poll, post>>
noticeVars == <<subject, download, size, whole, previous, ntfy, table, tried, tickVars, told, posts, dark, lost>>

NoticesTypeOK ==
    /\ subject \in Downloads \cup Files
    /\ download \in [Downloads -> {"none", "downloading", "finished", "imported"}]
    /\ size \in [Files -> 0..MaxGrowth] /\ whole \in [Files -> BOOLEAN]
    /\ previous \in [Files -> 0..MaxGrowth]
    /\ ntfy \in {"off", "down", "up"} /\ table \in BOOLEAN
    /\ tried \in [NoticeKeys -> [ok : BOOLEAN, tries : 0..(MaxTries + MaxBlind)]]
    /\ plan \subseteq NoticeKeys
    /\ poll \in {"sleeps", "downloads", "folder"}
    /\ post \in {NoPost} \cup [state : {"ok", "failed"}, key : NoticeKeys]
    /\ dark + lost \in 0..MaxBlind

NoticesInit == /\ subject \in Downloads \cup Files
               /\ download = [d \in Downloads |-> "none"]
               /\ size = [f \in Files |-> 0] /\ whole = [f \in Files |-> FALSE]
               /\ previous = [f \in Files |-> 0]
               /\ ntfy = "up" /\ table = TRUE
               /\ tried = [k \in NoticeKeys |-> Untried]
               /\ plan = {} /\ poll = "sleeps" /\ post = NoPost
               /\ told = [k \in NoticeKeys |-> 0] /\ posts = [k \in NoticeKeys |-> 0]
               /\ dark = 0 /\ lost = 0

(* What the sender does not know, counted and bounded. *)
InTheDark == dark + lost < MaxBlind /\ dark' = dark + 1 /\ UNCHANGED lost
Loses == dark + lost < MaxBlind /\ lost' = lost + 1 /\ UNCHANGED dark

-----------------------------------------------------------------------------
(* The world: downloads and files advance, the channel and the table fail. *)

DownloadMoves(d) ==
    /\ d = subject
    /\ \/ download[d] = "none" /\ download' = [download EXCEPT ![d] = "downloading"]
       \/ download[d] = "downloading" /\ download' = [download EXCEPT ![d] = "finished"]
       \/ download[d] = "finished" /\ download' = [download EXCEPT ![d] = "imported"]
    /\ UNCHANGED <<subject, size, whole, previous, ntfy, table, tried, tickVars, told, posts, dark, lost>>

FileMoves(f) ==
    /\ f = subject /\ ~whole[f]
    /\ \/ size[f] < MaxGrowth /\ size' = [size EXCEPT ![f] = @ + 1] /\ UNCHANGED whole
       \/ size[f] > 0 /\ whole' = [whole EXCEPT ![f] = TRUE] /\ UNCHANGED size
    /\ UNCHANGED <<subject, download, previous, ntfy, table, tried, tickVars, told, posts, dark, lost>>

ChannelMoves == /\ ntfy' \in {"off", "down", "up"} \ {ntfy}
                /\ UNCHANGED <<subject, download, size, whole, previous, table, tried, tickVars, told, posts, dark, lost>>

TableMoves == /\ table' = ~table
              /\ UNCHANGED <<subject, download, size, whole, previous, ntfy, tried, tickVars, told, posts, dark, lost>>

-----------------------------------------------------------------------------
(* The rule: notice_states and _wanted. What cannot be read was never tried. *)
Known(k) == IF table THEN tried[k] ELSE Untried
WantedNotice(k) == ~Known(k).ok /\ Known(k).tries < MaxTries

(* plan_for_downloads. An imported download is past its first notice. *)
DownloadNotices ==
    {<<d, NoticeA>> : d \in {x \in Downloads : download[x] = "finished"}}
    \cup {<<d, NoticeB>> : d \in {x \in Downloads : download[x] = "imported"}}

\* Mutation.
FolderNotices_Growing == {<<f, size[f]>> : f \in {x \in Files : size[x] > 0 /\ previous[x] # size[x]}}

(* plan_for_folder: a file whose size is that of the last tick. *)
FolderNotices == {<<f, size[f]>> : f \in {x \in Files : size[x] > 0 /\ previous[x] = size[x]}}

(* _send drops the plan of a channel that is not configured. *)
Plans(keys) == /\ plan' = IF ntfy = "off" THEN {} ELSE {k \in keys : WantedNotice(k)}
               /\ IF table THEN UNCHANGED <<dark, lost>> ELSE InTheDark

TickDownloads == /\ poll = "sleeps" /\ poll' = "downloads" /\ Plans(DownloadNotices)
                 /\ UNCHANGED <<subject, download, size, whole, previous, ntfy, table, tried, post, told, posts>>

TickFolder == /\ poll = "downloads" /\ plan = {} /\ poll' = "folder" /\ Plans(FolderNotices)
              /\ previous' = size
              /\ UNCHANGED <<subject, download, size, whole, ntfy, table, tried, post, told, posts>>

TickEnds == /\ poll = "folder" /\ plan = {} /\ poll' = "sleeps"
            /\ UNCHANGED <<subject, download, size, whole, previous, ntfy, table, tried, plan, post, told, posts, dark, lost>>

(* notifier.send: the channel's state is read again for every notice. *)
Posts(k, arrives, result) ==
    /\ post = NoPost /\ k \in plan
    /\ post' = [state |-> result, key |-> k]
    /\ told' = [told EXCEPT ![k] = IF arrives THEN @ + 1 ELSE @]
    /\ posts' = [posts EXCEPT ![k] = @ + 1]
    /\ UNCHANGED <<subject, download, size, whole, previous, ntfy, table, tried, plan, poll>>

PostArrives(k) == ntfy = "up" /\ Posts(k, TRUE, "ok") /\ UNCHANGED <<dark, lost>>
PostFails(k) == ntfy # "up" /\ Posts(k, FALSE, "failed") /\ UNCHANGED <<dark, lost>>
PostUnheard(k) == ntfy = "up" /\ Posts(k, TRUE, "failed") /\ Loses

\* Mutation.
Attempted_Overwrites(k, ok) == [tried EXCEPT ![k] = [ok |-> FALSE, tries |-> @.tries + 1]]

\* Mutation.
Attempted_SuccessOnly(k, ok) == [tried EXCEPT ![k] = [ok |-> @.ok \/ ok, tries |-> IF ok THEN @.tries + 1 ELSE @.tries]]

(* record_notice_attempt: a success sticks, attempts count either way. *)
Attempted(k, ok) == [tried EXCEPT ![k] = [ok |-> @.ok \/ ok, tries |-> @.tries + 1]]
Records == /\ post # NoPost
           /\ IF table
                THEN tried' = Attempted(post.key, post.state = "ok") /\ UNCHANGED <<dark, lost>>
                ELSE InTheDark /\ UNCHANGED tried
           /\ plan' = plan \ {post.key} /\ post' = NoPost
           /\ UNCHANGED <<subject, download, size, whole, previous, ntfy, table, poll, told, posts>>

(* A restart: the folder's last tick is gone, and a post nobody recorded. *)
NoticesCrash == /\ Loses
                /\ plan' = {} /\ poll' = "sleeps" /\ post' = NoPost
                /\ previous' = [f \in Files |-> 0]
                /\ UNCHANGED <<subject, download, size, whole, ntfy, table, tried, told, posts>>

-----------------------------------------------------------------------------
PollerStep == \/ TickDownloads \/ TickFolder \/ TickEnds \/ Records
              \/ \E k \in NoticeKeys : PostArrives(k) \/ PostFails(k)

NoticesNext == \/ PollerStep \/ ChannelMoves \/ TableMoves \/ NoticesCrash
               \/ \E k \in NoticeKeys : PostUnheard(k)
               \/ \E d \in Downloads : DownloadMoves(d)
               \/ \E f \in Files : FileMoves(f)

(* The poller never stops, a post has a timeout, and a table that is away comes
   back. *)
NoticesFairness == SF_noticeVars(PollerStep) /\ WF_noticeVars(~table /\ TableMoves)

NoticesSpec == NoticesInit /\ [][NoticesNext]_noticeVars /\ NoticesFairness

-----------------------------------------------------------------------------
(* A notice is told once, and once more at most for each thing the sender could
   not know: the row it did not read, did not write, or the answer it never got. *)
ToldOnce == \A k \in NoticeKeys : told[k] <= 1 + dark + lost

(* A channel that fails is not hammered: the attempts of a notice end. *)
AttemptsEnd == \A k \in NoticeKeys : posts[k] <= MaxTries + dark + lost

(* A download that stays finished while there is a channel is told about, or its
   attempts are used up and the row says so; and so is a file that is complete. *)
Given(k) == told[k] > 0 \/ tried[k].tries >= MaxTries
FinishedIsTold ==
    /\ \A d \in Downloads :
          <>[](download[d] = "finished" /\ ntfy # "off") => <>Given(<<d, NoticeA>>)
    /\ \A f \in Files : \A s \in 1..MaxGrowth :
          <>[](whole[f] /\ size[f] = s /\ ntfy # "off") => <>Given(<<f, s>>)

(* Nobody is told twice of a thing, nor for ever of one that cannot be sent. *)
NoticesEnd == NoticesTypeOK /\ ToldOnce /\ AttemptsEnd
=============================================================================
