--------------------------- MODULE DownloadManager ---------------------------
(***************************************************************************)
(* DownloadManager: the list of downloads, the transfers behind it and the *)
(* questions it asks the Nexus.  All its slots run in the main thread, but *)
(* they nest: aborting a reply emits its finished() signal before abort()  *)
(* returns, and startDownload processes events, with or without a question *)
(* on the screen, before it comes to its end.  A slot is therefore an      *)
(* operator from one state of the list to the next ("world"), so that it   *)
(* can be used in the middle of another.                                   *)
(*                                                                         *)
(* A file is Size pieces long.  Of the file on disk the model keeps how    *)
(* many pieces were written to it and which one came last.  Hiding,        *)
(* installing, asking by MD5 and the meta files' contents are left out.    *)
(***************************************************************************)
EXTENDS Integers, Sequences, FiniteSets, SequencesExt

CONSTANTS
  Links,      \* files on the Nexus
  Browsed,    \* those downloaded from the browser: without a file id
  Ids,        \* bound: numbers given to downloads, reused once forgotten
  Size,       \* pieces of a file
  Retries,    \* AUTOMATIC_RETRIES
  Copies,     \* bound: the new names a file that is there already may get
  Answers,    \* what the user says to "Download again?"; never asks again if empty
  MaxNested,  \* bound: calls of startDownload inside one another
  MaxFaults,  \* bound: failed replies and failed writes
  MaxCrashes  \* bound: ends of the program at any moment

ASSUME DownloadAssumption ==
  /\ IsFiniteSet(Links) /\ Browsed \subseteq Links
  /\ Ids \subseteq Nat
  /\ Size \in Nat \ {0}
  /\ Retries \in Nat
  /\ Copies \in Nat
  /\ Answers \subseteq {"yes", "no"}
  /\ MaxNested \in Nat
  /\ MaxFaults \in Nat
  /\ MaxCrashes \in Nat

\* "x" is copy 0, "1_x" copy 1.
Names == [link : Links, copy : 0..Copies]

VARIABLES
  list,      \* m_ActiveDownloads
  info,      \* the DownloadInfo of each; bereft, a history: its file was deleted
             \* with another row
  parts,     \* the files *.unfinished
  finals,    \* the files that carry their final name
  requests,  \* m_RequestIDs: what the Nexus still has to answer
  pending,   \* m_PendingDownloads
  starting,  \* calls of startDownload that are processing events, innermost last
  faults,    \* faults so far
  crashes    \* ends of the program so far

files == <<list, info, parts, finals>>
rest  == <<pending, starting, faults, crashes>>
vars  == <<files, requests, rest>>

world ==
  [list |-> list, info |-> info, parts |-> parts, finals |-> finals, requests |-> requests]

Becomes(w) ==
  /\ list' = w.list
  /\ info' = w.info
  /\ parts' = w.parts
  /\ finals' = w.finals
  /\ requests' = w.requests

Less(f, x) == Restrict(f, DOMAIN f \ {x})

More(f, x, v) == [y \in DOMAIN f \cup {x} |-> IF y = x THEN v ELSE f[y]]

-----------------------------------------------------------------------------
(* The file behind a download *)

Nothing == [length |-> 0, last |-> 0]

\* Longer than the file on the Nexus is long enough.
Longer(data, piece) ==
  [length |-> IF data.length > Size THEN data.length ELSE data.length + 1, last |-> piece]

\* m_Output
Data(w, d) ==
  LET i    == w.info[d]
      disk == IF i.unfinished THEN w.parts ELSE w.finals
  IN  IF i.name \in DOMAIN disk THEN disk[i.name] ELSE Nothing

Put(w, d, data) ==
  LET i == w.info[d]
  IN  IF i.unfinished THEN [w EXCEPT !.parts = More(@, i.name, data)]
      ELSE [w EXCEPT !.finals = More(@, i.name, data)]

\* The row, when the final file n is deleted.
Robbed(i, n) == [i EXCEPT !.bereft = i.bereft \/ (i.name = n /\ ~i.unfinished)]

\* The final file of a name is deleted, whichever rows it belongs to.
RemoveFinal(w, n) ==
  [w EXCEPT !.finals = Less(w.finals, n),
            !.info = [e \in DOMAIN w.info |-> Robbed(w.info[e], n)]]

\* m_Output.remove()
RemoveOutput(w, d) ==
  LET i == w.info[d]
  IN  IF i.unfinished THEN [w EXCEPT !.parts = Less(@, i.name)] ELSE RemoveFinal(w, i.name)

\* The elements of s that are in S, in the order of s.
Among(s, S) ==
  LET at == {i \in DOMAIN s : s[i] \in S}
  IN  [k \in 1..Cardinality(at) |->
         s[CHOOSE i \in at : Cardinality({j \in at : j < i}) = k - 1]]

\* "delete info" and m_ActiveDownloads.erase for the downloads that are not kept.
Only(w, kept) == [w EXCEPT !.list = Among(@, kept), !.info = Restrict(@, kept)]

Forget(w, d) == Only(w, DOMAIN w.info \ {d})

Ask(w, d, kind) ==
  [w EXCEPT !.requests = @ \cup {[kind |-> kind, of |-> d]}]

-----------------------------------------------------------------------------
(* The end of a transfer: downloadFinished and the setState calls in it *)

\* The reply to a request that begins at the given piece, appended to the file.
\* A range that begins behind the end of the file is refused.
StartReply(w, d, position) ==
  LET i == [w.info[d] EXCEPT !.state = "DOWNLOADING",
                             !.reply = "running",
                             !.position = IF position > Size THEN Size + 2 ELSE position,
                             !.open = TRUE,
                             !.wired = TRUE,
                             !.awaited = FALSE]
  IN  Put([w EXCEPT !.info[d] = i], d, Data(w, d))

\* resumeDownloadInt in STATE_ERROR: without a Range header, but to the end of
\* what the file holds already.
Retry(w, d) == StartReply([w EXCEPT !.info[d].tries = @ - 1], d, 1)

\* setName after STATE_FETCHINGMODINFO: the ".unfinished" is taken off unless a
\* file of that name is in the way.
Finalize(w, d) ==
  LET n == w.info[d].name
  IN  IF w.info[d].unfinished /\ n \in DOMAIN w.parts /\ n \notin DOMAIN w.finals
      THEN [w EXCEPT !.finals = More(@, n, w.parts[n]),
                     !.parts = Less(@, n),
                     !.info[d].unfinished = FALSE]
      ELSE w

\* Mutant: the error of the reply is not looked at.
FailedEmpty(w, d) ==
  w.info[d].state \notin {"CANCELING", "PAUSING"} /\ Data(w, d) = Nothing

Failed(w, d) ==
  /\ w.info[d].state \notin {"CANCELING", "PAUSING"}
  /\ Data(w, d) = Nothing \/ w.info[d].reply = "failed"

\* Mutant: retries are counted without an end.
GiveUpNever(w, d) == FALSE

GiveUp(w, d) == w.info[d].tries = 0

\* downloadFinished, for a reply that is no longer running.  It is closed and
\* deleted later: m_Reply, which goes on pointing to it, is read as no reply.
Finished(w, d) ==
  LET failed == Failed(w, d)
      state  == w.info[d].state
      closed == [w EXCEPT !.info[d] = [w.info[d] EXCEPT !.open = FALSE, !.reply = "none",
                                                        !.position = 1, !.wired = FALSE]]
  IN  CASE failed /\ GiveUp(w, d) -> Forget(RemoveOutput(closed, d), d)
        [] failed /\ ~GiveUp(w, d) -> Retry(closed, d)
        [] ~failed /\ state \in {"CANCELING", "CANCELED"} -> Forget(RemoveOutput(closed, d), d)
        [] ~failed /\ state \in {"PAUSING", "PAUSED"} -> [closed EXCEPT !.info[d].state = "PAUSED"]
        [] OTHER ->
             Finalize(Ask([closed EXCEPT !.info[d].state = "FETCHINGMODINFO"], d, "description"), d)

\* QNetworkReply::abort emits finished() at once, if the reply is running.
Abort(w, d) ==
  LET v == [w EXCEPT !.info[d].reply = "aborted"]
  IN  IF w.info[d].reply # "running" THEN w
      ELSE IF w.info[d].wired THEN Finished(v, d) ELSE v

\* setState(STATE_PAUSED): closes the file even if abort() led to a new try,
\* which has opened it.
Pause(w, d) ==
  LET v == Abort([w EXCEPT !.info[d].state = "PAUSED"], d)
  IN  IF d \in DOMAIN v.info THEN [v EXCEPT !.info[d].open = FALSE] ELSE v

\* setState(STATE_CANCELED)
Cancel(w, d) == Abort([w EXCEPT !.info[d].state = "CANCELED"], d)

\* downloadFinished(index) called directly: index 0 stands for the sender of a
\* signal, and no reply is the sender here.
FinishedAt(w, d) ==
  CASE Head(w.list) = d -> w
    [] Head(w.list) # d /\ w.info[d].reply # "running" -> Finished(w, d)
    [] Head(w.list) # d /\ w.info[d].reply = "running" ->
         IF w.info[d].state = "CANCELING" THEN Cancel(w, d) ELSE Pause(w, d)

-----------------------------------------------------------------------------
(* The replies *)

\* downloadProgress
Progress(w, d) ==
  CASE w.info[d].state = "CANCELING" -> Cancel(w, d)
    [] w.info[d].state = "PAUSING"   -> Pause(w, d)
    [] OTHER                         -> w

\* downloadReadyRead and writeData, and mostly downloadProgress after it.  What
\* cannot be written cancels the download.
Receive(d) ==
  /\ info[d].reply = "running"
  /\ info[d].position <= Size
  /\ LET piece == info[d].position
         read  == [world EXCEPT !.info[d].position = @ + 1]
         wrote == Put(read, d, Longer(Data(world, d), piece))
     IN  \/ ~info[d].open /\ Becomes(Cancel(read, d))
         \/ info[d].open /\ (Becomes(wrote) \/ Becomes(Progress(wrote, d)))
  /\ UNCHANGED rest

\* finished()
Ends(d, outcome) ==
  LET w == [world EXCEPT !.info[d].reply = outcome]
  IN  /\ info[d].reply = "running"
      /\ Becomes(IF info[d].wired THEN Finished(w, d) ELSE w)

Complete(d) ==
  /\ info[d].position = Size + 1
  /\ Ends(d, "complete")
  /\ UNCHANGED rest

\* The server refuses a range behind the end of the file.
Refuse(d) ==
  /\ info[d].position = Size + 2
  /\ Ends(d, "failed")
  /\ UNCHANGED rest

Fault ==
  /\ faults < MaxFaults
  /\ faults' = faults + 1
  /\ UNCHANGED <<pending, starting, crashes>>

Break(d) == Ends(d, "failed") /\ Fault

\* writeData when the disk is full
WriteFails(d) ==
  /\ info[d].reply = "running"
  /\ info[d].position <= Size
  /\ Becomes(Cancel([world EXCEPT !.info[d].position = @ + 1], d))
  /\ Fault

Transfer(d) == d \in DOMAIN info /\ (Receive(d) \/ Complete(d) \/ Refuse(d))

-----------------------------------------------------------------------------
(* refreshList *)

OnDisk(w) ==
  [name : DOMAIN w.parts, unfinished : {TRUE}] \cup [name : DOMAIN w.finals, unfinished : {FALSE}]

\* Mutant: what is listed already is not put among what was seen.
UnseenNorListed(w) == OnDisk(w)

\* The files that no entry goes by: it goes by m_FileName and by that of m_Output.
Unseen(w) ==
  {f \in OnDisk(w) : \A d \in DOMAIN w.info :
     w.info[d].name # f.name \/ (f.unfinished /\ ~w.info[d].unfinished)}

\* DownloadInfo::createFromMeta
FromMeta(f) ==
  [name |-> f.name, unfinished |-> f.unfinished,
   state |-> IF f.unfinished THEN "PAUSED" ELSE "READY",
   tries |-> 0, reply |-> "none", position |-> 1, awaited |-> FALSE,
   open |-> FALSE, wired |-> FALSE, bereft |-> FALSE]

\* s_NextDownloadID: a number that no answer still to come refers to.
Fresh(w) ==
  Ids \ (DOMAIN w.info \cup {r.of : r \in w.requests} \cup {s.of : s \in Range(starting)})

NextID(w) == CHOOSE d \in Fresh(w) : \A e \in Fresh(w) : d <= e

\* Finished downloads are forgotten and, with what else is on disk, read again: each
\* file that is found gets a number and is put in front (push_front).
Refreshed(w) ==
  LET kept  == Only(w, {d \in DOMAIN w.info : w.info[d].state # "READY"})
      found == Unseen(kept)
      order == SetToSeq(found)
      id    == CHOOSE g \in [found -> Fresh(kept)] : IsInjective(g)
      new   == {id[f] : f \in found}
  IN  [kept EXCEPT
         !.list = [k \in DOMAIN order |-> id[order[k]]] \o @,
         !.info = [d \in new \cup DOMAIN kept.info |->
                     IF d \in new THEN FromMeta(CHOOSE f \in found : id[f] = d)
                     ELSE kept.info[d]]]

EnoughIds(w) == \E id \in [OnDisk(w) -> Fresh(w)] : IsInjective(id)

\* directoryChanged
DirectoryChanged ==
  /\ EnoughIds(world)
  /\ Becomes(Refreshed(world))
  /\ UNCHANGED rest

-----------------------------------------------------------------------------
(* What the user asks for in the list; not while a question is open *)

NoQuestion == \A s \in Range(starting) : ~s.asked

\* pauseDownload, of a DownloadInfo.  Without a running reply setState(STATE_PAUSED)
\* aborts nothing.
PauseOf(i) ==
  CASE i.state = "DOWNLOADING" /\ i.reply = "running" -> [i EXCEPT !.state = "PAUSING"]
    [] i.state = "DOWNLOADING" /\ i.reply # "running" ->
         [i EXCEPT !.state = "PAUSED", !.open = FALSE]
    [] i.state \in {"FETCHINGMODINFO", "FETCHINGFILEINFO"} -> [i EXCEPT !.state = "READY"]
    [] OTHER -> i

\* "Check for finished download" in resumeDownloadInt.  m_TotalSize is 0 then: a
\* reply that has ended is still there only if it was not connected, and what it
\* told of its progress came while PAUSING.
IsComplete(w, d) == w.info[d].reply \in {"complete", "failed"}

Resumed(w, d) ==
  LET paused == IF w.info[d].state = "PAUSING" /\ w.info[d].open THEN Pause(w, d) ELSE w
  IN  IF d \in DOMAIN paused.info
      THEN StartReply(paused, d, Data(paused, d).length + 1) ELSE paused

\* resumeDownload and resumeDownloadInt
ResumeOf(w, d) ==
  LET v == [w EXCEPT !.info[d].tries = Retries]
  IN  CASE IsComplete(v, d) -> FinishedAt([v EXCEPT !.info[d].state = "DOWNLOADING"], d)
        [] ~IsComplete(v, d) /\ v.info[d].state \in {"PAUSED", "PAUSING"} -> Resumed(v, d)
        [] OTHER -> v

CancelDownload(d) ==
  /\ NoQuestion
  /\ info[d].state = "DOWNLOADING"
  /\ Becomes([world EXCEPT !.info[d].state = "CANCELING"])
  /\ UNCHANGED rest

PauseDownload(d) ==
  /\ NoQuestion
  /\ info[d].state = "DOWNLOADING"
  /\ Becomes([world EXCEPT !.info[d] = PauseOf(info[d])])
  /\ UNCHANGED rest

\* pauseAll: on the way out, which the user may still call off.
PauseAll ==
  /\ NoQuestion
  /\ \E d \in DOMAIN info : info[d].state \notin {"READY", "PAUSED"}
  /\ Becomes([world EXCEPT !.info = [d \in DOMAIN info |-> PauseOf(info[d])]])
  /\ UNCHANGED rest

ResumeDownload(d) ==
  /\ NoQuestion
  /\ info[d].state \in {"PAUSED", "PAUSING"}
  /\ Becomes(ResumeOf(world, d))
  /\ UNCHANGED rest

\* removeFile: a file that is not paused is taken to have its final name.
RemoveFile(w, d) ==
  IF w.info[d].state = "PAUSED" THEN RemoveOutput(w, d)
  ELSE RemoveFinal(w, w.info[d].name)

\* removeDownload: the entry goes whether or not there was a file of the name to
\* delete, and the transfer is left to itself.
RemoveDownload(d) ==
  LET removed == Forget(RemoveFile(world, d), d)
  IN  /\ NoQuestion
      /\ info[d].state \in {"PAUSED", "PAUSING", "READY"}
      /\ EnoughIds(removed)
      /\ Becomes(Refreshed(removed))
      /\ UNCHANGED rest

-----------------------------------------------------------------------------
(* The way to a transfer *)

Of(l) == {d \in DOMAIN info : info[d].name.link = l}

FreeCopies(l) == {c \in 1..Copies : [link |-> l, copy |-> c] \notin DOMAIN finals}

\* Copies is enough.
HasFreeCopy(l) == FreeCopies(l) # {}

\* The user asks for a file that is not here, or one that is here complete.
Wanted(l) ==
  /\ NoQuestion
  /\ l \notin pending
  /\ \A n \in DOMAIN parts : n.link # l
  /\ \A d \in Of(l) : info[d].state # "DOWNLOADING"
  /\ IF Answers = {} THEN Of(l) = {} /\ \A n \in DOMAIN finals : n.link # l
     ELSE HasFreeCopy(l)

\* addNXMDownload
AddNXMDownload(l) ==
  /\ l \notin Browsed
  /\ Wanted(l)
  /\ pending' = pending \cup {l}
  /\ requests' = requests \cup {[kind |-> "file", of |-> l]}
  /\ UNCHANGED <<files, starting, faults, crashes>>

Answered(kind, x) ==
  /\ [kind |-> kind, of |-> x] \in requests
  /\ UNCHANGED <<faults, crashes>>

\* nxmFileInfoAvailable
FileInfoAvailable(l) ==
  /\ Answered("file", l)
  /\ requests' = (requests \ {[kind |-> "file", of |-> l]}) \cup {[kind |-> "urls", of |-> l]}
  /\ UNCHANGED <<files, pending, starting>>

\* nxmRequestFailed for a link, and nxmDownloadURLsAvailable without a server.
NotAvailable(l) ==
  \E kind \in {"file", "urls"} :
    /\ Answered(kind, l)
    /\ requests' = requests \ {[kind |-> kind, of |-> l]}
    /\ pending' = pending \ {l}
    /\ UNCHANGED <<files, starting>>

\* Mutant: finished() is connected along with the other signals.
ConnectedAlways(asked) == TRUE

\* Mutant: finished() is connected by nobody.
ConnectedNever(asked) == FALSE

\* Whether startDownload has connected finished() when it processes events.
Connected(asked) == ~asked

\* startDownload of a new download, up to where it processes events: with a
\* question where a file of that name is here already.
Started(w, l) ==
  LET d     == NextID(w)
      n     == [link |-> l, copy |-> 0]
      asked == n \in DOMAIN w.finals
      new   == [name |-> n, unfinished |-> TRUE,
                state |-> IF asked THEN "PAUSING" ELSE "DOWNLOADING",
                tries |-> Retries, reply |-> "running", position |-> 1, awaited |-> TRUE,
                open |-> TRUE, wired |-> Connected(asked), bereft |-> FALSE]
      v     == [w EXCEPT !.list = Append(w.list, d), !.info = More(w.info, d, new)]
  IN  /\ Fresh(w) # {}
      /\ Len(starting) < MaxNested
      /\ Becomes(Put(v, d, Nothing))
      /\ pending' = pending \ {l}
      /\ starting' = Append(starting, [of |-> d, asked |-> asked])

\* nxmDownloadURLsAvailable with a server
URLsAvailable(l) ==
  /\ Answered("urls", l)
  /\ Started([world EXCEPT !.requests = @ \ {[kind |-> "urls", of |-> l]}], l)

\* addDownload with the browser's reply
BrowserDownload(l) ==
  /\ l \in Browsed
  /\ Wanted(l)
  /\ Started(world, l)
  /\ UNCHANGED <<faults, crashes>>

\* The innermost startDownload goes on.
Innermost(d, asked) ==
  /\ starting # <<>>
  /\ Last(starting) = [of |-> d, asked |-> asked]
  /\ UNCHANGED <<pending, faults, crashes>>

\* "Download again?": No
AnswerNo(d) ==
  LET v == [world EXCEPT !.info[d].state = "CANCELING"]
  IN  /\ "no" \in Answers
      /\ Innermost(d, TRUE)
      /\ Becomes(IF info[d].reply = "running" THEN v ELSE Cancel(v, d))
      /\ starting' = Append(Front(starting), [of |-> d, asked |-> FALSE])

\* getDownloadFileName(name, true)
FreeCopy(l) ==
  [link |-> l, copy |-> CHOOSE c \in FreeCopies(l) : \A e \in FreeCopies(l) : c <= e]

\* setName, which keeps ".unfinished" in some states and closes the file to rename it.
Renamed(w, d, n) ==
  LET u == RemoveOutput(w, d)
      i == [u.info[d] EXCEPT !.name = n,
                             !.unfinished = w.info[d].state \in {"DOWNLOADING", "PAUSED"},
                             !.open = FALSE]
  IN  Put([u EXCEPT !.info[d] = i], d, Data(w, d))

\* "Download again?": Yes
AnswerYes(d) ==
  LET v == Renamed(world, d, FreeCopy(info[d].name.link))
  IN  /\ "yes" \in Answers
      /\ Innermost(d, TRUE)
      /\ HasFreeCopy(info[d].name.link)
      /\ Becomes(IF info[d].state = "PAUSED" THEN ResumeOf(v, d)
                 ELSE [v EXCEPT !.info[d].state = "DOWNLOADING"])
      /\ starting' = Append(Front(starting), [of |-> d, asked |-> FALSE])

\* The end of startDownload.  The reply it began with may have ended meanwhile.
StartEnds(d) ==
  LET w     == [world EXCEPT !.info[d].awaited = FALSE]
      ended == info[d].reply # "running" \/ ~info[d].awaited
      fine  == info[d].state \in {"DOWNLOADING", "READY", "FETCHINGMODINFO"}
  IN  /\ Innermost(d, FALSE)
      /\ Becomes(IF d \notin DOMAIN info THEN world
                 ELSE IF ended /\ ~fine THEN FinishedAt(w, d) ELSE w)
      /\ starting' = Front(starting)

-----------------------------------------------------------------------------
(* What the Nexus says of a finished download *)

Without(d, kind) == [world EXCEPT !.requests = @ \ {[kind |-> kind, of |-> d]}]

\* setState(STATE_READY)
Ready(w, d) == IF d \in DOMAIN w.info THEN [w EXCEPT !.info[d].state = "READY"] ELSE w

\* nxmDescriptionAvailable: without a file id the files are asked for.
DescriptionAvailable(d) ==
  LET w == Without(d, "description")
  IN  /\ Answered("description", d)
      /\ Becomes(IF d \in DOMAIN info /\ info[d].name.link \in Browsed
                 THEN Ask([w EXCEPT !.info[d].state = "FETCHINGFILEINFO"], d, "files")
                 ELSE Ready(w, d))
      /\ UNCHANGED <<pending, starting>>

\* nxmFilesAvailable
FilesAvailable(d) ==
  /\ Answered("files", d)
  /\ Becomes(Ready(Without(d, "files"), d))
  /\ UNCHANGED <<pending, starting>>

\* Mutant: a failed answer leaves the download as it is.
RequestFailedIgnored(d) ==
  \E kind \in {"description", "files"} :
    /\ Answered(kind, d)
    /\ Becomes(Without(d, kind))
    /\ UNCHANGED <<pending, starting>>

\* nxmRequestFailed for a download
RequestFailed(d) ==
  \E kind \in {"description", "files"} :
    /\ Answered(kind, d)
    /\ LET w     == Without(d, kind)
           early == {"DOWNLOADING", "CANCELING", "PAUSING", "CANCELED", "PAUSED"}
       IN  Becomes(IF d \in DOMAIN info /\ info[d].state \in early THEN Forget(w, d)
                   ELSE Ready(w, d))
    /\ UNCHANGED <<pending, starting>>

-----------------------------------------------------------------------------

\* The program ends and is started again: setOutputDirectory reads the directory.
Restart ==
  /\ crashes < MaxCrashes
  /\ crashes' = crashes + 1
  /\ LET empty == [world EXCEPT !.list = <<>>, !.info = <<>>, !.requests = {}]
     IN  EnoughIds(empty) /\ Becomes(Refreshed(empty))
  /\ pending' = {}
  /\ starting' = <<>>
  /\ UNCHANGED faults

Init ==
  /\ list = <<>>
  /\ info = <<>>
  /\ parts = <<>>
  /\ finals = <<>>
  /\ requests = {}
  /\ pending = {}
  /\ starting = <<>>
  /\ faults = 0
  /\ crashes = 0

Listed ==
  \E d \in DOMAIN info :
    \/ Transfer(d) \/ Break(d) \/ WriteFails(d)
    \/ CancelDownload(d) \/ PauseDownload(d) \/ ResumeDownload(d) \/ RemoveDownload(d)

Asked ==
  \/ \E l \in Links :
       \/ AddNXMDownload(l) \/ BrowserDownload(l)
       \/ FileInfoAvailable(l) \/ NotAvailable(l) \/ URLsAvailable(l)
  \/ \E d \in Ids :
       \/ DescriptionAvailable(d) \/ FilesAvailable(d) \/ RequestFailed(d)
       \/ AnswerNo(d) \/ AnswerYes(d) \/ StartEnds(d)

Next == Listed \/ Asked \/ PauseAll \/ DirectoryChanged \/ Restart

Spec == Init /\ [][Next]_vars

\* The network goes on sending: no timeout watches it (the timer is not connected).
FairSpec == Spec /\ \A d \in Ids : WF_vars(Transfer(d))

-----------------------------------------------------------------------------
(* Properties *)

States ==
  {"DOWNLOADING", "CANCELING", "PAUSING", "CANCELED", "PAUSED", "FETCHINGMODINFO",
   "FETCHINGFILEINFO", "READY"}

Info ==
  [name : Names, unfinished : BOOLEAN, state : States, tries : 0..Retries,
   reply : {"none", "running", "complete", "failed", "aborted"},
   position : 1..Size + 2, awaited : BOOLEAN, open : BOOLEAN, wired : BOOLEAN,
   bereft : BOOLEAN]

Written == [length : 0..Size + 1, last : 0..Size]

Requests ==
  [kind : {"file", "urls"}, of : Links] \cup [kind : {"description", "files"}, of : Ids]

\* The list shows each download once, in a state it can have, and counts tries
\* down to none (the state that downloadFinished and resumeDownloadInt share).
TypeOK ==
  /\ list \in Seq(Ids) /\ IsInjective(list) /\ Range(list) = DOMAIN info
  /\ \A d \in DOMAIN info : info[d] \in Info
  /\ \A n \in DOMAIN parts : parts[n] \in Written
  /\ \A n \in DOMAIN finals : finals[n] \in Written
  /\ DOMAIN parts \subseteq Names /\ DOMAIN finals \subseteq Names
  /\ requests \subseteq Requests
  /\ pending \subseteq Links
  /\ starting \in Seq([of : Ids, asked : BOOLEAN])

\* A download waits for the Nexus only while the Nexus still has to answer: no
\* order of answers, pauses and refreshes leaves it "fetching" for good.
FetchingIsRequested ==
  \A d \in DOMAIN info :
    /\ info[d].state = "FETCHINGMODINFO" => [kind |-> "description", of |-> d] \in requests
    /\ info[d].state = "FETCHINGFILEINFO" => [kind |-> "files", of |-> d] \in requests

\* A file stays queued, and so refuses to be asked for again, only while the Nexus
\* still has to answer for it (m_PendingDownloads, addNXMDownload).
PendingIsRequested ==
  \A l \in pending : \E kind \in {"file", "urls"} : [kind |-> kind, of |-> l] \in requests

\* Nothing waits for the Nexus in vain, be it a download or a queued file.
WaitersAreRequested == FetchingIsRequested /\ PendingIsRequested

\* No two rows stand for one file, whatever the directory watcher reads while a
\* transfer is finishing, removed or started (m_FileName and m_Output in refreshList).
\* The exception: removeFile of a row that is not paused deletes the final file, even
\* if that is another row's, which stays and may see a file of the same name come.
OneEntryPerFile ==
  \A d, e \in DOMAIN info :
    d # e /\ info[d].name = info[e].name /\ info[d].unfinished = info[e].unfinished =>
      ~info[d].unfinished /\ (info[d].bereft \/ info[e].bereft)

\* A file only gets its final name when its last piece was the last one written,
\* across retries, resumed ranges, refused ranges and restarts (downloadFinished).
FinishedReachEnd ==
  \A n \in DOMAIN finals : finals[n].last = Size

\* The download a "Download again?" question is about is still there when it is
\* answered: startDownload goes on with its pointer, whatever happened meanwhile.
AskedIsListed ==
  \A s \in Range(starting) : s.asked => s.of \in DOMAIN info

\* m_Output of the download as it is now is gone.
Gone(n, unfinished) == n \notin IF unfinished THEN DOMAIN parts ELSE DOMAIN finals

\* Cancelling a download that has written something leads to its file being
\* deleted, as downloadmanager.h:445 says, if the program runs on.
CancelDeletesFile ==
  \A d \in Ids, n \in Names, unfinished \in BOOLEAN :
    (/\ crashes = MaxCrashes
     /\ d \in DOMAIN info
     /\ info[d].state = "CANCELING"
     /\ info[d].name = n /\ info[d].unfinished = unfinished
     /\ Data(world, d) # Nothing)
      ~> Gone(n, unfinished)
=============================================================================
