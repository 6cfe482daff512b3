# Mod Organizer: models and proofs

Mod Organizer keeps every mod of a game in a directory of its own and shows the
game one merged directory. This project holds TLA+ models of the parts of the
program in which the order of events matters, the configurations that check
them with TLC, and proofs that hold for every size of the instance. All paths
are relative to the repository; the program's sources are in `src/src/`.

| module | what it is |
| --- | --- |
| `FileEntry` | operators: one file of the merged directory and the origins that provide it |
| `DirectoryStructure` | the merged directory, built by threads and changed in place |
| `ConflictResolution` | what the merged directory promises its readers, the abstract specification |
| `MCDirectoryStructure` | constants of the small instances of `DirectoryStructure` |
| `DirectoryStructureProofs` | lemmas about `FileEntry`, theorems about `DirectoryStructure`; in its second part, the settled structure holds what the disk has, and implements `ConflictResolution` |
| `ModConflicts` | which mods are in conflict, worked out from the merged directory and kept per mod |
| `MCModConflicts`, `ModConflictsProofs` | its small instances, and its theorems |
| `ThreadPool`, `ThreadPoolProofs` | the pool of threads that scan mods |
| `DownloadManager` | downloads, their replies, files and questions |
| `DownloadManagerProofs` | its inductive invariant and the theorems that follow |
| `NexusInterface` | the queue of requests to the Nexus, the login, the links and tasks that wait for it |
| `NexusInterfaceProofs` | its inductive invariant and the theorems that follow |
| `Sorting`, `SortingProofs` | sorting, selecting and folding without recursive operators, and the lemmas about them that the lists below need |
| `ProfileOrder` | pure operators: reading, writing and reordering `modlist.txt` |
| `Organizer` | the mod list, its file and delayed writer, the refresh in the background, the start of a program, crash and restart |
| `MCOrganizer` | a small instance of `Organizer`, and `ProfileOrder` over all small inputs |
| `OrganizerProofs` | what reading, writing and moving do to any list, that moves do what is meant, the inductive invariant of `Organizer` and the theorems that follow |
| `PluginOrder` | pure operators: moving, locking and reading plugins |
| `PluginList` | the plugin list, its files and delayed writer, postponed readings and saves, sorting, programs, crash and restart |
| `MCPluginList` | a small instance of `PluginList`, and `PluginOrder` over all orders of six plugins |
| `PluginListProofs` | what reading, moving and locking do to any plugins, that moves and locks do what is meant, the inductive invariant of `PluginList` and the theorems that follow |

`PROJECT.json` names, for each definition, the lines it stands for, and lists
the runs, the mutants, the hazards and the theorems.

## 1. Inventory

### Merged directory (`shared/`)

*State.* `FileRegister` maps an index to a `FileEntry` (a name, the primary
origin with its archive if any, the alternatives), `DirectoryEntry` maps names
to indices, `OriginConnection` maps names to `FilesOrigin`s, and each of those
has a priority and a set of indices. The same fact, "mod m provides file f", is
written down in three places, each with its own mutex.
*Operations.* `insert`, `addFromOrigin`, `addFromBSA`, `removeFile`,
`removeOriginMulti`, `enable(false)`, `sortOrigins`, `setPriority`.
*Hard.* Threads insert the same file at once and release one lock before taking
the next; slots are emptied while others hold indices; the rule for the winner
is written three times (adding, removing, sorting), with `-1` as a special order.
*Correct when* the three places agree, no origin is lost or left over, and the
winner is the one the mod list calls for.

### Directory refresher and thread pool (`directoryrefresher.cpp`, `envfs.h`)

*State.* the pool's `busy`, `ready`, `stop`, and a job with a second `ready`.
*Operations.* `refresh` (from scratch, in a thread of its own),
`addMultipleModsFilesToStructure`, `addModBSAToStructure`, `cleanStructure`;
`request`, `wakeup`, `waitForAll`, `setMax`, `stopAndJoin`.
*Hard.* Two handshakes over two mutexes around a job that is written without
either; threads being destroyed while they start.
*Correct when* each job runs exactly once, is never written while it is read,
and the caller always comes back.

### Organizer core and mod list (`organizercore.cpp`, `modlistviewactions.cpp`, `profile.cpp`)

*State.* the profile's enabled mods and priorities, the current structure, a
flag for the refresh in the background and the tasks that wait for it.
*Operations.* `modStatusChanged`, `modPrioritiesChanged`,
`updateModsInDirectoryStructure`, the rescan after the mod information dialog;
`refreshDirectoryStructure`, `onDirectoryRefreshed`; `beforeRun`, `afterRun`.
*Hard.* The structure is changed in place by the main thread or thrown away for
a new one computed from an older copy of the mod list.
*Correct when* a settled structure is that of the profile as it is now.

### Profile and mod list (`profile.cpp`, `modlist.cpp`, `modlistviewactions.cpp`)

*State.* `m_ModStatus` by index, the number of regular mods, `modlist.txt`, a
delayed writer, the hash of what was written last.
*Operations.* `refreshModStatus`, `doWriteModlist`, `setModPriority`,
`changeModPriority`, `shiftModsPriority`, `sendModsToSeparator`,
`setModsEnabled`, `removeRowForce`; saving and restoring a backup.
*Hard.* Indices change whenever a mod comes or goes; a move of several mods
shifts the rest at each step; the file is written late and read by others.
*Correct when* priorities have no gap, the file is what is shown once nothing is
pending, and a program gets what is shown.

### Mod information and conflicts (`modinfowithconflictinfo.cpp`, `organizercore.cpp`)

*State.* six sets of indices per mod (whom it overrides and who overrides it, with
loose files, with archives, and with one against the other), kept until thrown away.
*Operations.* `doConflictCheck`, `clearCaches` of a mod; `OrganizerCore::clearCaches`
after a change, `directory_refreshed`; the view, which asks at any time.
*Hard.* A change of one mod makes the verdicts on others out of date, and only the
old or the new verdict on that mod tells which; a mod without its files has none. The
verdicts follow rules of their own beside those for the winner of a file.
*Correct when* two mods say the same of each other, which is what the disk and the
list say, and no verdict outlives what it was worked out from.

### Plugin list (`pluginlist.cpp`, its view and menu, `organizercore.cpp`)

*State.* `m_ESPs` with `enabled`, `priority` and `loadOrder`, its two indices by
name and by priority, `m_LockedOrder`; the files `plugins.txt`, `loadorder.txt` and
`lockedorder.txt`; a delayed writer and the tasks put off until the structure is there.
*Operations.* `refresh`, `saveTo`, `setPluginPriority`, `changePluginPriority`,
`shiftPluginsPriority`, `refreshLoadOrder`, `lockESPIndex`, `enableESP`,
`setEnabled`, the calls for plugins; `refreshESPList`, `savePluginList`,
`updateModsActiveState`; backups, LOOT.
*Hard.* Every change of the mods reads the files again while changes of the user
are still on their way to them; readings and saves overtake one another during
an update; each move shifts the other plugins and may be undone by a lock.
*Correct when* priorities have no gap, what is shown reaches the files, and
neither a reading nor a save takes away what the other knew.

### Nexus interface and access manager (`nexusinterface.cpp`, `nxmaccessmanager.cpp`)

*State.* `m_RequestQueue`, `m_ActiveRequest`, the account and its limits, the
state of the validation, the validator's attempts; in `OrganizerCore` the
pending links and the tasks after the login.
*Operations.* `requestX`, `nextRequest`, `requestFinished`, `apiCheck`, the slots of
attempts, `loginSuccessful`, `loginFailed`, the connection in the settings.
*Hard.* Slots nest, a request may be put back, given up or cleared; the login
it waits for has retries, a cancel and a second validator beside it.
*Correct when* no request is lost or sent twice, and nothing waits for a login
that is not coming.

### Download manager (`downloadmanager.cpp`)

*State.* the list of `DownloadInfo`s, a `QNetworkReply` each, the files with and
without `.unfinished`, the requests the Nexus has to answer, the pending links.
*Operations.* start, cancel, pause, resume, remove; the slots for data,
progress, the end and failure of replies and for the answers of the Nexus;
the directory watcher; a new start of the program.
*Hard.* The slots nest (`abort()` emits `finished()` before it returns,
`startDownload` processes events, with or without a question on the screen) and
delete what the outer slot still uses; a download is found by pointer, by id,
by row or by name, each of which may be stale; the list is rebuilt from files.
*Correct when* no download waits for something that will not come, each file
has one row, a file under its final name ends with its end, and cancelling
deletes what it should.

### Interaction

The user's changes go to the profile, whose signals call the handlers of the
organizer core. These have the refresher's threads scan mods into the current
structure, then clean and sort it. The download manager talks to the Nexus
interface and to the disk; finished files go to the installation manager, which
makes mods of them. After each change of the structure the plugin list is read
again from its files, which it also writes. The conflict views read it and keep
what they made of it until a change of the mods throws it away.

### Not modelled

- *Process runner*: in this commit the functions that wait for a process tree are
  commented out and assert "Not implemented" (`processrunner.cpp`). The start of a program
  as far as it concerns the mod list is in `Organizer`.
- *Several processes*: `CommandLine::forwardToPrimary` (`commandline.cpp:224`) is commented
  out, so that no message passes between processes.
- *Installation manager*: a chain of modal dialogs whose outcome is decided by installer
  plugins; what it leaves is a mod on disk, `Organizer`'s installation.
- *Plugin container, Qt, the plugin of the game, the network*: not under `src/` or driven by
  what is not; external where a module needs them.
- *Directory walker*: what it returns is the constant `Contents`.
- *User interface, settings, LOOT, save games, updater, tutorials*: widgets, storage of options
  and calls to other programs. Commands of the user that change the state of a part
  modelled here are actions of that part. They are most of the source lines.

## 2. Plan

Order of the modules, most important behaviour first:

1. `FileEntry`, `DirectoryStructure`, `ConflictResolution`: done, checked, proved.
2. `ThreadPool`: done, checked, proved.
3. `DownloadManager`: done and checked, its safety invariants proved, `FinishedReachEnd` where no
   file is asked for again (elsewhere it need not hold).
4. `ProfileOrder`, `Organizer`: done and checked, reading, writing, the moves and the invariants
   proved. `Organizer` composes the settled view of
   `DirectoryStructure` (which mods, in which order) with the profile and the
   refresh in the background.
5. `NexusInterface`: done and checked, its invariants proved.
6. `PluginOrder`, `PluginList`: done and checked; the moves, the locks, and the
   invariants and action properties of the state machine are proved.
7. `ModConflicts`: done and checked, its invariants proved.
8. Not begun: the mod list as a tree (`modlistbypriorityproxy.cpp`), where a drop goes.

Abstract specifications worth stating: the winner of each conflict
(`ConflictResolution`, stated); for 4, "the view is that of the profile once
nothing is under way", stated as `ViewsFollowList` with its exceptions.

That `DirectoryStructure` implements `ConflictResolution` is proved for contents in
which no mod ships a file twice (it does not hold for others, see `disable_two_ways`).
The folds of `ProfileOrder`, `PluginOrder` and the tasks of `PluginList` are functions on
the numbers up to the length (`Through` in `Sorting`), whose equations the provers can use,
with a set for the induction (`StepsStay`, `StepsTaken`). Selecting from a sequence is
sorting of places (`Among`), as the recursive `SelectSeq` of the library gives the provers
nothing to unfold.

Every invariant and action property of the runs that pass is proved. Liveness stays with TLC.

## 3. The merged directory

### How the model corresponds to the code

`FileEntry` translates `shared/fileentry.cpp`. A provider is an origin, whether
the file comes from an archive, and the archive's order (`-1` for a loose file
or an unknown plugin). Priorities are looked up through a parameter, as the code
looks them up in the origins. Where the code picks among equals by the order of
a sequence or by an unstable sort, the operator is a set of outcomes.

`DirectoryStructure`: `register`, `files`, `created`, `priority` and
`originFiles` are the members named in the declaration of the variables.
A scan is a worker per origin; `FindFile`, `AddOriginToFile` and
`AddFileToOrigin` are the three locks of `DirectoryEntry::insert`, so all
interleavings of the threads between them are there. The handlers of the main
thread are the actions `Loaded`, `AddArchive`, `Drop`, `Dropped`, `Sort`,
`Clean` in the order of the code for each `task`: a full refresh sorts and then
cleans, a change of status cleans, adds archives, switches off, sets priorities
and sorts, a new order sets priorities and sorts, a rescan scans, cleans, sorts.

Abstractions: one directory, since an entry never moves between directories; at
most one archive per mod, named by its origin, all archives enabled and parsed;
an origin's id is its name; archives hold no file that `cleanStructure` removes;
the threads of a scan are not bounded (the pool has its own module); an archive
counts as contained as soon as one of its files is listed.

### Runs

| run | question | bounds |
| --- | --- | --- |
| `directory_refresh` | Does every interleaving of three scans, followed by any one change of the user, end in a consistent structure with the promised winners? | 3 mods with archives of known and unknown order, 1 contested file, 1 file to clean away, 1 change; if a mod ships the file both loose and archived, the refresh only |
| `directory_history` | Do earlier changes leave traces, in the structure or in the verdicts kept? | 3 mods in 4 mixtures of loose files and archives, 2 changes; 2 mods, 3 changes; the game's own file; verdicts asked for at any time between the changes |
| `mod_indices` | Does `clearCaches` look up mods only? | violated, see below |
| `disable_two_ways` | What if a mod that ships a file loose and archived is switched off? | violated, see below |

Three mods are the least that give a primary origin and two alternatives, so
that an insertion in the middle and a removal of each position occur; archive
orders 0, 1 and unknown give every comparison. Files do not influence one
another but through archives and the register's slots, for which the second
file (the one cleaned away) stands. One change after a refresh reaches every
handler with every state a refresh can leave; three reach off, reorder, on, and two a mod
that is edited and then switched off. The first refresh of `directory_history` finds its mods
in one order (`Bounds`), as the names of mods mean nothing.

The properties relate the places in which one fact is kept: `NamesMatchRegister`
(names and slots), `NoDanglingFiles` (slots and origins), `OrphansAreBeingAdded`
(slots and the threads at work) at every moment; `SettledProviders` (all three and
the disk), `WinnersOnTop` (the stored winner and the comparison of
`sortOrigins`), `ActiveModsHaveOrigins` (what `getOriginByName` relies on) when
nothing is under way. `KeepsPromise` is the refinement: with
`position <- profilePriority`, `settled <- phase = "ready"` and the view taken
from the primary origins, `DirectoryStructure` implements `ConflictResolution`,
which knows nothing of scans, alternatives or sorting. `ChangesSettle` is
liveness under weak fairness of `Work`: threads are scheduled, handlers run on;
the user is not obliged to do anything.

Deadlock is not checked: with the changes used up the structure rests.

`disable_two_ways` is violated and is a finding. `shared/fileentry.h:33` says
that `removeOrigin` removes the specified origin and that the file is deleted if
none is left. It removes one occurrence. A mod that ships a file both loose and
in an archive has two, so when it is switched off the file is still provided by
it. A full refresh repairs it, which is why `directory_refresh` has such mods but
changes nothing after they were read (`TwiceIsOnlyRead`).

### Verdicts on conflicts

`ModConflicts` adds the verdicts to `DirectoryStructure`. `DoConflictCheck(m)` gives the six
sets for every file of `m`: `Against` is what an alternative adds, `BelowMain` what the primary
origin adds. `conflicts[m]` is the memoized value, empty when it was thrown away. The last step of
each handler (`Sort`, or `Clean` for a refresh) is joined with what comes next in the code,
`ClearCaches` or `SettleRefresh`; `changed` is the argument of the handler, and
`modPrioritiesChanged` is called with any set of mods that accounts for the new order
(`MovesOnly`). The view (`ReadConflicts`) asks between handlers. `unnoticed` is a history variable:
mods that were edited (`displayModInformation` clears nothing) or that were switched off before
anybody had asked for their verdict, so that nobody knows whom it was about.

`VerdictsAreTrue` compares the verdicts on all mods with the comments in `modinfo.h`, in terms of
the files on the disk, the list and the load order only, and each verdict with that on the other mod.
`StaleOnlyAboutUnnoticed` says that `clearCaches` reaches every verdict that changed, though it
clears an enabled mod before and a disabled mod after reading its verdict. They name
three exceptions of the code:

- `unnoticed`, as above: the views show the old conflict until the next refresh.
- `Hidden`: if the game has the file loose, the data directory is the strongest
  loser as soon as one loose mod is above it, and the archives below are in no verdict
  (`modinfowithconflictinfo.cpp:152`).
- `Ranked`: an archive without a place in the load order (-1) wins in `sortOrigins`, while
  `doConflictCheck` compares the -1 and takes it for the lowest.

`mod_indices` is violated and is a finding. With a loose file of the game above a mod's
archive the verdict on the mod names `ModInfo::getIndex("data")`, which is `UINT_MAX`, and
`clearCaches` passes it to `getByIndex`. There only `ULONG_MAX` is exempt (`modinfo.cpp:135`), another
number where `long` has 64 bits, so it throws: `modStatusChanged` shows an error and
skips the notification of the views. `modinfo.h:128` gives the greatest index allowed.

Left out: hidden files, the icons and states derived from the six sets, contents and validity of mods.

### Proofs

For any mods, contents, archive orders and number of changes:
`TypeTheorem`, `NamesTheorem`, `DanglingTheorem`, `OrphansTheorem` and
`WinnersTheorem`, from the assumptions in `DirectoryStructure` (the data origin
is no mod, the markers for nothing are no values, contents are contents) and
nothing on what a mod may ship: mods that ship a file twice are included.

None of the first four is inductive. `StructureInvariant` adds
`WorkersHoldFiles`, that a thread between two locks still holds a live slot
which, past the second, lists its origin: this needs that nobody removes slots
meanwhile, and so `QuietAfterLoading`, that the main thread cleans, switches off
and sorts only when all threads are idle. Lemmas per operation
(`CleanStructureKeeps`, `DisableKeeps`, `SortKeeps`, one per step of a scan) rest on
lemmas about `FileEntry`: what `AddOrigin`, `RemoveOrigin` and `SortOrigins` do to the
set of providers, whatever the order of the alternatives.
`WinnersTheorem` needs two more invariants: `PrioritiesCurrent`, the priorities
the next sort will use are those of the mod list, and `WinnersStay`, after a
sort no entry gets another primary origin until the next change.

The second part of `DirectoryStructureProofs` adds what the disk has to do with it. `OriginsTheorem`
(`ActiveModsHaveOrigins`) needs no assumption on contents. `ProvidersTheorem`
(`SettledProviders`) and `PromiseTheorem` (`KeepsPromise`, the refinement) assume `PlainContents`:
no mod ships a file loose and once more in its archive, and archives hold nothing that is cleaned
out. The first half cannot be dropped, as `disable_two_ways` shows; the second is the
abstraction above. `SettledInvariant` adds to `StructureInvariant`

- `CourseInvariant`: which mods wait for their archive or for being switched off, and what a
  thread may still have to add, in each phase of each handler;
- `BooksInvariant`: what an origin `Gives` at a moment, by the disk, the phase and the place of
  its thread, is what the entries list (`ProvidersTrue`, `GivenThere`), each origin once
  (`EntriesCounted`) and in return (`ListsComplete`).

When the user can act, all active mods give all they have (`IdleGives`), which is
`SettledProviders`. That each origin is listed once rests on lemmas that count the
places of an origin in the alternatives through `AddOrigin`, `RemoveOrigin` and
`SortOrigins`. For the refinement `TopIsOwner` translates the order of `sortOrigins` into that of the promise,
so that a settled structure shows owners (`SettledShows`), and `NextPromise` maps each
step to a change, to settling or to a stutter.

`ModConflictsProofs` carries these theorems over (`StructureGoesOn`: a step of `ModConflicts` is one of
`DirectoryStructure` or leaves it alone; `WinnersOnTopOfVerdicts`), and adds that a verdict
names only mods that share a file with its mod (`VerdictsAreShared`, from `NoDanglingFiles` and the
absence of orphans once the threads are idle) and that two mods below a third say the
opposite of each other (`VerdictsAnswerEachOther`). `VerdictsTheorem` proves `VerdictsAreTrue`
for `PlainContents` and archives of different places (`OrdersDiffer`: of two archives with one
place, `doConflictCheck` calls the primary the stronger, the comments call none). From
`PromiseInvariant`, each file lists the mods that hold it as they hold it (`HeldProviders`),
an alternative is compared as the disk says (`AgainstSays`), the primary goes to the
right list because nobody overrides it (`BelowMainSays`, from `TopIsOwner`), and so the
lists say what the disk says (`FileSays`, `ListsSay`, `RedundantSays`).

`StaleTheorem` proves `StaleOnlyAboutUnnoticed` from the same assumptions. The invariant
`KeptRight` says what holds of a verdict while a handler is on its way: if no change is about
its mod, it is right about the mods that no change is about, and if it names another one,
`clearCaches` will find it. For a mod switched off this is because two verdicts that were right name each
other (`Opposite`), so that the old verdict of the one leads to the other. For a mod that was
moved it is because files in common make them name each other under any order (`MeetingTells`).
TLC checked `KeptInvariant` on the instance of `directory_history` first.

Only checked: `ChangesSettle`, for good, since liveness is out of the prover's reach.

## 4. The thread pool

### Correspondence

`caller` is the place of the thread that runs `addMultipleModsFilesToStructure`
or a function of the pool; a thread's `state` is its place in
`ThreadInfo::run` and, from `waiting` to `reset`, in `ModThread::run`. Each access to
`busy`, `ready`, `stop`, the job's `ready` and the job is one action;
`HoldsLock` and `HoldsJobLock` say in which places the two mutexes are held, and
are the guards of `wakeup`. `Begin` is `setMax`, which creates the threads that
are missing and destroys those that are too many; `Quit` is the destructor at the
end of the process. A condition variable is its predicate: a waiter goes on when
`ready` holds, which covers spurious and late wake-ups.

Left out: a pool of no threads, an exception while the job is assigned.

### Run

`thread_pool`: up to 3 threads, up to 3 jobs, 2 rounds, the pool resized between
them. One thread for several jobs (reuse), several for one, growth, and
destruction of started and unstarted threads all occur. A round after another
is what makes stale flags possible, so 2 is enough: no state but the flags
survives a round, and `PoolTheorem` covers any number. `JobNotSharedWhileWritten` says that the two
handshakes protect a job that no mutex protects while it is written;
`RoundIsComplete` and `NoJobTwice` that each job runs exactly once and nobody
reads the statistics afterwards; `CallsReturn` that no wake-up is lost, under
weak fairness of the caller and of each thread (the scheduler's). Beginning and
ending are not fair. Deadlock is not checked as the process may have ended.

### Proofs

`PoolTypeTheorem`, `WritingTheorem`, `RoundTheorem`, `OnceTheorem`, for any number of
threads, jobs and rounds. `PoolInvariant` sorts every thread of the pool
into five kinds (new, idling, summoned, with a job pending, winding down) by its
place and flags together: `Handshake` says which kinds are possible, with an
exception for the one thread the caller is dealing with. `CallerKnows` holds what
the caller has learnt on its way through a loop (threads before `at` are idle,
stopped or joined), and `JobsAccounted` that a job handed out has run once or is
with exactly one thread. Only checked: `CallsReturn`.

## 5. The download manager

### Correspondence

All slots run in the main thread but inside one another. A slot is therefore an
operator from a state of the list to the next (`world`), and
`Pause(w, d)` contains `Abort`, which contains `Finished`, which may contain `Retry`,
as the calls do. Actions apply one such operator. What outlives an action is only
`startDownload`, which processes events: `starting` is the stack of those calls,
`StartEnds`, `AnswerYes` and `AnswerNo` continue the innermost.

An `info` record keeps `m_State`, `m_FileName`, whether `m_Output` has
`.unfinished` in its name and is open, `m_Tries`, the reply and how far it has
come, whether the reply is the one `startDownload` holds on to (`awaited`) and
whether its `finished()` is connected (`wired`). `bereft` is a history variable: the row's final
file was deleted along with another row (`Robbed`, see `OneEntryPerFile` below). Of a file on disk the model
keeps how many pieces were written (up to one more than a file has) and which
came last. `requests` is `m_RequestIDs` with what the answer will be about.
`Restart` ends the program at any moment and reads the directory again.

Abstractions, each of which narrows what the runs show:

- The user does what the context menu offers for the state of a row and nothing
  while a question is open.
- Two transfers never write one `.unfinished` file: `Wanted` does not ask for a
  link of which a part is here.
- The output file can be opened. If not, `startDownload` returns early and the
  link stays pending (`downloadmanager.cpp:594`).
- A reply does not end before `startDownload` has connected it.
- `m_Reply` after `deleteLater()` is no reply; a slot that goes on with a deleted
  download does nothing more. Both are undefined in the code.
- A download that is cancelled before anything was written to its file is tried
  again by the code (its file is empty, which counts as an error); the
  liveness property speaks of downloads that have written something.
- Hiding, installing, restoring, the query by MD5 and by hand, and what meta
  files say are left out. Numbers of forgotten downloads are used again (`Ids`). Where the
  numbers or the copies of a name run out (`EnoughIds`, `Fresh`, `HasFreeCopy`), the model stops.

### Runs

| run | question | bounds |
| --- | --- | --- |
| `downloads` | Do the list, the disk and the open requests agree under every order of user, network, watcher and Nexus? | 2 links, one from the browser, 2 names, 2 pieces, both answers to the question, 1 retry, 1 fault, 1 end of the program |
| `download_cancel` | Does cancelling delete, with retries and failures in between? | 1 link, 1 retry, 2 faults, 1 end, 2 nested starts |
| `download_again` | What if a file that was downloaded again is cancelled? | violated, see below |

Two pieces make "nothing", "some" and "all" of a file different, and one more
makes a file longer than it should be. Two links let one row move under the
other (row 0 is special in `downloadFinished`). Every counter that would grow
(faults, ends of the program, nested starts, names) has a bound named in the
module. Deadlock is checked in `download_cancel`; in `downloads`,
with the ends of the program used up and every file here, nothing is left to do.

`WaitersAreRequested` joins the two ways in which a download could wait for an answer
that is not coming, `FetchingIsRequested` and `PendingIsRequested`; `OneEntryPerFile` relates the
list to the names on disk across renames, the watcher and restarts, with one exception;
`FinishedReachEnd` says that retries without a range, resumed and refused ranges
never let a file get its final name unless its last piece was written last (it
may be longer than the original: a retry appends to what is there);
`AskedIsListed` that the slot which asked a question may go on with its
pointer; `CancelDeletesFile` is what `downloadmanager.h:445` says of cancelling,
once the program ends no more. Fairness: `Transfer(d)`, the network goes on
sending or closes the connection. The program has no time limit of its own, its timer is not
connected (`downloadmanager.cpp:216`). No fairness for the user, the watcher or
the Nexus.

`download_again` is violated and is a finding. If a file of that name exists,
`startDownload` asks whether to download it again, and connects `finished()`
only in the other branch. After Yes while the transfer runs, `setName` also takes
".unfinished" off, as the state is `PAUSING`. Cancelling then ends in `CANCELED`
with the file in place and the row in the list.

The exception of `OneEntryPerFile`: `removeFile` deletes the file `m_Output` only of a row that
is paused, and for any other the file of `m_FileName` without ".unfinished"
(`downloadmanager.cpp:776-783`), which may be the finished file of another row. The run gets there like this:
a download is finished and still waits for its description; the file is
asked for again, its transfer fails while "Download again?" is on the screen, and after No
`downloadFinished` starts a new try, as the state is `CANCELED` and the reply failed; the user pauses it and removes
it before the next piece arrives, while it is `PAUSING`. That deletes the finished file of the older row, which stays
(`bereft`), as it is not `READY` and so not forgotten by `refreshList`. The `.unfinished` file is read
in again, resumed and finished under the same name.

### Proofs

`DownloadManagerProofs`, for any links, numbers of downloads, lengths of a file, retries, nesting,
faults and ends of the program: `TypeCorrect`, `WaitersRequested`, `OneEntry` and `AskedListed`, the
four invariants of `downloads`. The assumptions are those of the module: the links are finite (the
directory is), the numbers natural. The inductive invariant (`Invariance`) has three parts.

- `WorldInv(w)`, of a state of the list: the types; the file of a row is on the disk unless it is
  `bereft` (`HasFile`), without which `refreshList` could read what a row already stands for; a row
  that fetches is asked for (`Waits`); no two rows stand for one file (`Apart`); no two parts have one
  link, so that a part that gets its final name is in nobody's way.
- `Queues(w, P)`: a queued link is one the Nexus has to answer for, and of a link that is queued or
  about to start there is no part. The new row has its part to itself.
- `Holds(w, S)`: each question's row is listed, and it is `PAUSING`, `PAUSED` or `CANCELED`, still
  unfinished and without `finished()` (`HeldRow`), and no request is about it. That nothing
  forgets such a row is why the pointer of `startDownload` stays good: only `finished()`, the user and
  a refused answer forget rows in these states, and the user is not served while a question is open.

Slots nest, so each operator from world to world has a lemma of its own, and a caller cites that of what it
calls (`AbortKeeps` from `FinishedKeeps`, `PauseKeeps` from `AbortKeeps`, ...). What a slot leaves alone is said
once, in `OnlyRow(w, v, d)`: of the rows but `d` only `bereft` changes, no part appears, and only the
description of `d` is asked for. `StillHeld` is the same for `d` itself when a question is about it.
These carry the other two parts through every slot (`OnlyRowQueues`, `OnlyRowHolds`).
`RefreshedKeeps` is about `refreshList`: what is erased keeps the order of the rest (`AmongKeeps`, by
counting), what is found gets numbers of its own, and both lists join without a row twice (`ListsJoin`).

`FinishedWhole` is `FinishedReachEnd` for `Answers = {}`, the setting of `download_cancel`: no file is asked
for while it is there. That this is needed is what `download_again` shows: with "yes" the invariant is
violated after eight steps. Everything else is as free as above. Its invariant, `FilesInv`, comes on top of the
other one.

- `Whole(w)`: a file with its final name ends with its last piece and no part has its name; each
  row is `Plain`, that is, it has a part until it is `Over`, and a running reply is connected to
  `finished()`; a transfer that is read to its end was written to its end (`ReadToEnd`); and the
  Nexus is asked about rows that are over (`AskedOver`), so no answer ends a row that is not.
- `Ahead`: nothing of a queued link is on the disk. `Unasked`: no start is behind a question.

Rows then have names of their own (`NamesDiffer`), so `removeFile` robs nobody and the name a
part gets at its end is free. A slot gets a lemma that says what it leaves (`Left`): the other rows and files as they
were (`OnlyFile`) and its own row whole (`WholeRow`); `LeftTwice` joins the slots that call each other.
The one place where a piece could be lost is a retry, which asks for the whole file but appends: it
begins at the first piece with a part that is there, and when it is read to its end the last piece was written
after all others, whatever came before.

The answer "no" is not enough for it either, though it takes sixteen steps, two starts
inside one another and a broken transfer. A file that is here and still asks the Nexus for its
description, in its own `startDownload`, is asked for again; the second transfer breaks, the user says
"no", and the end of its `startDownload` tries it once more (`Finished` after `Cancel`). It
comes to its end under the `.unfinished` name, and removing it deletes the first one's final
file. The first `startDownload` ends, finds nothing of its file, and tries it again, under the final name.

Only checked: `CancelDeletesFile`, which is liveness.

## 6. The mod list, the refresh and the start of a program

### Correspondence

`ProfileOrder` holds pure operators. A mod is a number, and the numbers are in
the order of the names, because `ModInfo::updateFromDisc` sorts its collection
by name and an index is a place in that order; so a mod that comes or goes
shifts the indices of others, as in the code. The constants give each mod its
kind (regular, separator, foreign, backup, overwrite), on which
`hasAutomaticPriority` and `alwaysEnabled` depend. `RefreshModStatus` takes a
file and a collection to the status of every index; the loops of the code over
the file, from the ends towards the middle, are the closed forms they compute.
Moves are the code's: a fold of `SetModPriority`, one mod at a time in the
order in which the code sorts them, each shifting the others.

`Organizer` adds the state around it. `list` is `m_CurrentProfile` with its
`modlist.txt`, `pending` (the timer of `DelayedFileWriter`) and `written` (the content
behind `m_LastModlistHash`); `core` is `m_DirectoryUpdate`, the refresher with
the mods it was given (`setMods`), the structure it builds and the current
one, the plugin list and whether a refresh of it is put off
(`onNextRefresh`); `program` is how far a start has come, from `beforeRun` through
`fileMapping` to `afterRun`. An action is a whole handler; the handlers that
wait in an event loop (`beforeRun`, `fileMapping`) are split there. `missed` and
`replaced` are history variables for the exceptions named below. `disk` is
apart from `collection`: mods come and go on disk, and the program learns of it in
`updateFromDisc`.

Not in the model: `IModList::removeMod` (`modlist.cpp:874`), renaming, switching
profiles, `createMod`, the BSA list, archives (see `DirectoryStructure`) and the
waiting for the process. `modStatusChanged` with mods of which some are now enabled and others
disabled is two calls here.

### Runs

| run | question | bounds |
| --- | --- | --- |
| `organizer` | Do list, file, structure, plugin list and program agree after any four commands? Do the algorithms do what is meant? | 2 mods that come and go beside the overwrite directory, 4 commands; files of 2 lines over 5 mods of all kinds and of 3 lines with one pattern of checks, all orders of 4 movable mods and of lists with 3 separators |
| `saved_before_start` | Is everything saved when a program starts? | violated, see below |

Four commands are enough for a change during an update followed by a second
update, a restart after either, or a start between them; the first file names a
mod that is not there yet, so that it arrives at a place the file gives it.
Two managed mods are the least that have an order. The algorithms are evaluated
over all inputs of their bounds in the initial state (`commands = 0 =>`).

`ListIsSaved` compares the file with the list when no write is pending,
after any path on which a write was given up, repeated or overtaken.
`ViewsFollowList` says that nothing is stale when no update is under way: neither the
structure (`StructureFollowsList`) nor the plugin list (`PluginListFollowsStructure`). `RunsWhatIsListed` follows the list into the file and
back out through the profile that `fileMapping` opens. `WaitingProgramStarts` is
liveness under weak fairness of the refresher's thread, of its signal and of
the two event loops; the user, plugins, the timer and the program are not fair.
`AnyFileIsLaidOut` compares `refreshModStatus` with the comment above it, and
`ReordersAsAsked` the moves with what they are for (`DroppedOrder`, `PlacedOrder`,
`Section`, which do not follow the code). Deadlock is not checked, as the
commands are bounded.

Exceptions that the properties name, each a place where the code does
something else:

- `missed`: a change during an update goes to the structure that is thrown away
  (`organizercore.cpp:1581`), and a refresh asked for meanwhile is dropped
  (`:1560`). `ModList::setPriority`, the call for plugins, never tells the structure
  (`modlist.cpp:961`). `modPrioritiesChanged` stops at the first enabled mod
  without an origin (`organizercore.cpp:1691`).
- `replaced`: see the finding.
- A single mod sent to the section it is in leaves it
  (`modlistviewactions.cpp:645`), and in descending order the section of a
  separator of priority 0 is looked for from an iterator past the end (`:636`).
- Shifting several mods of which one is at the limit permutes them
  (`modlist.cpp:1343`).
- `refreshModStatus` writes what is pending with the indices of a collection that has
  changed already (`profile.cpp:401`), and `removeRowForce` cancels the write of
  other changes with its own (`modlist.cpp:1171`). The model does the same; no
  property speaks of what the file should hold then.

`saved_before_start` is violated and is a finding. `organizercore.cpp:2033` says that all
data is saved before a program is started. `doWriteModlist` ends in
`commitIfDifferent`, which compares with the hash of what the profile wrote last.
After a backup was restored the file is not that. A change that leads back to
the old list is then not written, and the program gets the mods of the backup.

### Proofs

`OrganizerProofs` has three parts, each for any mods of any kinds.

*The list and its file.* A list is in order (`ListInOrder`) if every mod has a
priority of its own, those of the mods that can be moved are the numbers below
`managed` without a gap, and backups and the overwrite directory follow in the
places they always have. `SortedLists` says what sorting by keys gives, and
`SortedIs` that nothing else is sorted. Then

- `AnyFileLaidOut`: whatever is in the file (names twice, of mods that are gone, of
  backups) and whatever mods there are, `refreshModStatus` makes a list in order of it,
  with the groups where its comment puts them. It is `AnyFileIsLaidOut` without bounds.
- `WrittenReads`: what `doWriteModlist` writes of a list in order is read back the same.
- `OneModMoves`, `MovedBack`: `setModPriority` with any target keeps a list in order,
  puts the mod where it was asked to go if there is such a place, and leaves the others
  in their order; the move back undoes it. The loop is a permutation of the
  places whose inverse is the move back (`ShiftPermutes`).
- `ManyModsMove`: so do the moves of several mods, one after the other. The induction is
  over the mods of the fold, with the set of the states a list can be moved to
  as the induction hypothesis (`StepsStay`).

*What the moves are for.* The order that the user sees is the mods sorted by the places
they have (`PlacesOf`), so each of these compares places:

- `DroppedTogether`: `changeModPriority` gives the mods that were before the target, then
  those that were dropped, then the others, each in the order they had (`DroppedOrder`).
  The code first moves the mods that are at the target or behind it, from the last one on,
  then those before it, from the first one on. While it does, any two mods compare by which of three
  groups they are in (`DownStage`, `UpStage`), and within a group by the places they had;
  `DropStage` joins the two.
- `PlacedAmongOthers`: a mod that is given a priority goes there, or to the nearer end, and
  the others stay in order (`PlacedOrder`).
- `ShiftedByOne`: mods that are shifted all move by one, if none of them is at the limit.
- `SentToSection`: mods sent to a separator are then in its section, with the two exceptions
  that "Runs" names. The end of the section is found from the places (`EndsAt`), and what
  is dropped there comes between the separator and the next one (`PutAt`).

`ReorderedAsAsked` and `InstanceLaidOut` put these together to the invariants `ReordersAsAsked` and
`AnyFileIsLaidOut` of `MCOrganizer`, for any of the mods the instance chooses from; the
theorems above have no such bounds. They use `InstanceAssumption`: the chosen sets are
finite sets of mods, the overwrite directory among them where lists are reordered; files have three lines at most.

*The inductive invariant* `IInv` of `Organizer` adds what the properties leave
open between two of their instants:

- The list is in order for the collection at hand, and `Saved` (the file reads back as
  the list) whenever no write is pending and the file is not `replaced`. The
  last content that was written is then the file's, which is why a write that
  `commitIfDifferent` leaves out is none that is needed.
- While an update is under way the list is followed by what the refresher has: the mods
  it was given (`Gives`), later the structure it built (`Shows`), and the current
  structure once it is idle, unless a change was `missed`. `ViewsFollowList` only speaks of
  the last of the three, and could not be carried through an update without the others.
- The plugins are those of the structure whenever no update is under way.

One lemma per action shows that it keeps `IInv`, which TLC found to hold in all
states of the run `organizer` before. `OrganizerTypeCorrect`, `ViewsFollow` and `RunsListed` hold
for every first file. `ListSaved` needs `FirstListsOwn`: the first file is one the
program could have written, with no name twice and a star at the mods that
are not managed. `refreshModStatus` takes neither for a reason to write the file
again, so the file of another program stays different from what would be
written until the first change; it reads back as the list all the same.

The model assumes of the constants that mods are numbers, that the kinds are disjoint,
that there are finitely many and the overwrite directory among the first (`FirstAssumption`).

Only checked is `WaitingProgramStarts`, which is liveness.

## 7. The Nexus

### Correspondence

`queue`, `active` and `user` are the members of `NexusInterface`; `outcome` is a history of
what became of each request. `RequestFinished` is the slot up to the signal of
the answer, `SlotEnds` the rest of it (limits, erasing, `nextRequest`), since
receivers may run event loops in between; `slots` is the stack of those under
way. `state` and `attempts` are `m_validationState` and the validator's
attempts, one per timeout in the settings. `core` is the slot of `OrganizerCore` after a
login: the question, or the loop over pending links. `ConnectAccount`, `ClearKey` and
`SetOffline` are the settings dialog, whose own validator never touches the
state of the first.

Left out: `NexusSSOLogin`, the progress window, the contents of requests and
answers, `m_RetriesLeft`. A request is of a kind that only tells whether it is throttled and
whether it needs a premium account. That a link is refused after the key was
removed (`organizercore.cpp:308`) sets the state to `Invalid` as in the code.

### Run

`nexus`: 2 requests, 2 of which may be active, 1 redirect, 2 attempts per
validation, 2 validations, 1 task, 1 visit to the settings. One request in
front of another is all that the queue distinguishes; two attempts have a first, a
next and a last; a second validation meets the leftovers of the first.
`MAX_ACTIVE_DOWNLOADS` is 6 in the code; two active requests let slots nest. Requests
that wait because the limit is reached need one request more than the limit, which is
beyond what TLC finishes with two validations (three requests with one validation, of
one kind, are 187,000 states, and hold): for them the theorems below stand in.

`RequestsConserved` relates queue, active requests, slots and outcomes across
nesting, redirects and clearing. `LinksWaitOnlyForLogin`, `QueueMoves`,
`ValidAccountServes` and `LoginEnds` say that nothing waits for what does not come. They
name three exceptions of the code: `Stuck`, after a cancel or a hard error attempts
that were never started keep `isActive()` true, so `apiCheck` does nothing from then
on (`nxmaccessmanager.cpp:671`); `GivenUp`, a link for premium accounts
leaves `nextRequest` by a `return` without serving the next (`nexusinterface.cpp:792`);
and tasks, which `loginFailed` drops only when no link waited. Fairness: timers end
every attempt and request, slots return, the user answers a question.
Requests made beyond the bound and the user's commands are not fair. Deadlock is
not checked, since the bounds run out.

### Proofs

`NexusInterfaceProofs`, for any number of requests, active requests, redirects,
attempts, validations and visits: `TypesHold`, `RequestsAreConserved`, `LinksWait` and
`QueueGoesOn` state the four invariants of the run. They follow from `IInv`, proved step by
step for every action. Why the run's invariants alone are not inductive:

- `RequestsConserved` counts. `Places` says the same without counting, as who may be
  where: ids tell requests apart in the queue, among the active ones and between the two;
  whoever is in the queue waits; an active request waits or its answer is being handled;
  whoever waits is in one of the two. `SlotsDiffer` says that no request is
  handled twice, without which the slot that returns could erase the request of another.
- `LinksWaitOnlyForLogin` needs that an attempt runs only while the key counts as not
  checked (`RunningChecks`), that the slot of `OrganizerCore` fits the state
  (`CoreFollows`), and that until the settings are visited a link waits only for a stored
  key (`LinksHaveKey`).
- `QueueMoves` needs `Places`: only a request that waits is settled, so that a request
  given up stays so.

`NextRequestKeeps` and `NextRequestMoves` are the two lemmas about `nextRequest` that
nearly every step cites. Assumed is only `NexusAssumption`. The liveness properties are
checked, not proved.

## 8. The plugin list

### Correspondence

`PluginOrder` holds what `pluginlist.cpp` computes. A plugin is a number, in the order of the
names. A `list` is `m_ESPs` (its `rows`, and `enabled`, `priority`, `loadOrder` of each
plugin) with `m_LockedOrder`; `m_ESPsByPriority` and `m_ESPsByName`, which `updateIndices`
makes anew after each change, are the operator `At` and the names themselves. `Place`
is the part of `setPluginPriority` that keeps masters and forced plugins apart,
`Moved` the part that shifts the others, `ApplyLock` one lock of `refreshLoadOrder` with
its place that only grows, `MoveNext` one plugin of `changePluginPriority` with the
target that `setPluginPriority` counts up, `ReadLock` one line of `lockedorder.txt`.

`PluginList` adds the files and `OrganizerCore`. `core` is the list, the `files` of
the profile, the plugins `available` in the current structure, `update`
(`m_DirectoryUpdate`), `tasks` (`m_PostRefreshTasks`) and `pending` (the timer of
`m_PluginListsWriter`); `read` is what the refresher was given. A handler is one
action; what it calls takes a core and returns it changed, in the order of the code
(`SwitchMod` reads, enables, saves, and reads again). The handlers that wait,
`beforeRun`, `fileMapping` and the sorting dialog, are split there. `DirectoryRefreshed`
runs the tasks in their order, then `refreshLists`.

The plugin of the game, which reads and writes `plugins.txt` and `loadorder.txt`, is
not under `src/`: it is taken to write all plugins in their order and the enabled
ones, and to read them through `setLoadOrder` and `setState`. Each plugin is in one mod
only, so `updateModsActiveState` finds no alternatives.

Left out: missing masters (`testMasters`), indices of light plugins, load orders kept as
file times (`saveLoadOrder`, `afterRun`), highlighting, LOOT's reports.

### Run

`plugin_list`: 6 plugins of every kind (one forced, two more masters, three others)
in all orders that keep kinds apart, for the algorithms; 3 to 4 of them in the list,
two mods that come and go, 3 commands, selections of 2, for the state machine. Two
plugins of a kind are the least that can change places, a third one tells "next to"
from "behind". Three commands reach a change, a refresh and a change in between,
or a restart after both. Forced plugins are never moved by the user.

`PluginsMoveAsAsked` compares the moves with what they are for: a plugin goes to the
nearest place of its kind, dropped plugins come together in their order, shifted
plugins all move, locked plugins keep their load order. `ChangesReachFiles` says that
what is shown is in the files, or a save or a reading is on its way; `OthersKeepState`
that the timer, the end of an update and a change of mods leave the other plugins as
they were, and that a mod that is enabled has its plugin enabled; `FilesKeepPlugins`
that no save writes a list that lacks what is only being read. `TypeOK` is what
`m_ESPsByPriority` needs. Deadlock is not checked, as the commands are bounded.

Exceptions that the properties name:

- `refreshLoadOrder` goes once from the first lock to the last. A locked plugin that has
  to go behind where it is pulls those behind it down, and a lock that was served is
  broken again (`pluginlist.cpp:729`): of two adjacent locked plugins with one disabled
  before them, one loses its place. One lock, or locks that only pull
  upwards, always hold.
- Several plugins dropped at a place between them change their order, as do several
  that are sent above their kind (`pluginlist.cpp:1535`, the target is counted up or not
  by where each one came from).
- `SavedUnseen`: a save that was put off during an update runs before the reading at its
  end (`organizercore.cpp:1616`) and writes the list from before the update. If the list
  was never read, it empties `lockedorder.txt`; if a mod was enabled during the update,
  the files lose its plugin should they have named it.
- `unannounced`: `shiftPluginsPriority`, `setState` and `setLoadOrder` do not emit
  `writePluginsList`; what they change is lost with the next reading.
- A change that is still pending when a refresh reads the files is lost:
  `OthersKeepState` speaks of lists that are as their files (`InFiles`).
- `setEnabled` and `setEnabledAll` switch forced plugins too and leave the load orders as they
  were, so that a lock set next may be -1, which reading rejects (`:353`, `:690`).

### Proofs

`PluginListProofs` has four parts, each for any plugins of any kinds. Folds and sorting are
those of `SortingProofs`, which `OrganizerProofs` uses as well.

*The algorithms.* `OneMoves`: one `setPluginPriority` leaves a plugin at every place and
the others in their order. `KindsStayApart`: it keeps forced plugins before masters and
masters before the others, and reaches its target if a plugin of the same kind is there,
provided the list is in that order, forced plugins are masters and the plugin is not
forced. `LoadOrderGoesUp`: what `syncLoadOrder` counts. Then, through the folds,
`changePluginPriority`, `shiftPluginsPriority` and `refreshLoadOrder` keep a list one that has a
plugin at every place (`Lists`, `ChangedOk`, `ShiftedOk`), and `refresh` makes such a list of any
files, with the plugins the files name in their order unless a lock moved one
(`RefreshedOk`, `RefreshReads`).

*What the moves are for.* `PluginsMoved` states `PluginsMoveAsAsked` for any finite set of plugins. It
rests on four theorems about every list in order (`InKinds`: forced plugins, then masters, then the
others), whatever is enabled in it. What they share: the plugins of a kind hold an interval of places (`Span`),
and no move changes which (`KeepsSpans`).

- `SentToNearest`: a plugin sent anywhere goes to the nearest place of its kind, and the
  others stay in order (`PlaceNearest`, `MoveInKind`).
- `ShiftedEach`: plugins that are shifted all move by one, if there is room for all of them. By
  an invariant over the plugins moved so far, in the order in which the code takes them.
- `DroppedKind`: plugins of one kind that are all from before the place or all from
  behind it come together there in their order (`ComeTogether`). Those from behind let the
  target count up (`UpTaken`), those from before leave it (`DownTaken`); this is why a mixture
  of both does not work.
- `LocksKept`: a locked plugin gets its load order if its kind can have it, and so do two
  if none of them has to go behind where it is. The load orders that can be reached are those of the
  enabled plugins of the kind (`ReachedIn`); the locked plugin takes place and load order of
  the plugin that had it (`TakesLoadOrder`, `LockStep`); going up it lowers no other load order and
  changes none in front (`GoesUp`), so that the load order of the second lock can still be
  reached (`ReachableStays`), and the first one keeps what it has.

`InstanceAssumption` of `MCPluginList` is used: the plugins the game enables itself are masters.

*The inductive invariant* `ListInv` of `PluginList`: the core is one of those
(`CoreOk`), what is shown reaches the files (`Reaches`), files and backup are ones the program
writes, and while no update goes on the plugins of the mods that are enabled, and that the
refresher was given, are there and shown. `FilesKeepPlugins` does not follow from what the
properties say, but from this last part: a save during an update writes the list from before,
one after it the plugins of the structure. What commands do to the core is the relation
`Follows`: plugins shown and plugins in the files are those from before or those of the
structure, and both stay while an update goes on. It is transitive (`FollowsOn`), so that each
handler is proved by the calls it makes, in their order, and the tasks at the end of an
update by the same induction as the moves. `ListsStay` is the invariant; `PluginsTypeCorrect`,
`ChangesAreSaved` and `PluginsStayInFiles` state `TypeOK`, `ChangesReachFiles` and
`FilesKeepPlugins`.

*The other plugins.* `OthersStay` states `OthersKeepState`. Of a set of plugins the proof tracks
which of them are enabled, in the list and in the files (`EnabledAs`), and the order they
are in, in both (`OrderedAs`); saving, reading and the tasks each keep both
(`ListsTrack`), if no lock is there to move one, while `SwitchMod` disturbs the plugin of its mod
only. `TracksTell` reads the property off. It needs `ForcedThere`, that the plugins
of the game are always in the structure the refresher is given, and `NoneRead`, that a
reading comes out without locks exactly if no line of the file locks anything.

Assumed are `PluginAssumption` (plugins are numbers, finitely many) and `FirstAssumption`: the mods of
the game's own plugins are enabled and cannot be switched, and the first files are ones the
program could have written (`OwnFiles`). No property of this part is only checked.

## 9. Running the checks

    tlc -workers 2 -config DirectoryStructure.cfg MCDirectoryStructure.tla
    tlc -workers 2 -config DirectoryHistory.cfg MCModConflicts.tla
    tlc -workers 2 -config ThreadPool.cfg ThreadPool.tla
    tlc -workers 2 -config Downloads.cfg DownloadManager.tla
    tlc -workers 2 -config Nexus.cfg NexusInterface.tla
    tlc -workers 2 -config Organizer.cfg MCOrganizer.tla
    tlc -workers 2 -config PluginList.cfg MCPluginList.tla
    tlapm DirectoryStructureProofs.tla
    tlapm DownloadManagerProofs.tla
    tlapm ModConflictsProofs.tla
    tlapm ThreadPoolProofs.tla
    tlapm OrganizerProofs.tla
    tlapm SortingProofs.tla
    tlapm PluginListProofs.tla
    tlapm NexusInterfaceProofs.tla

Each module holds, next to some definitions, a variant marked "Mutant": the
definition with a plausible bug in it. `PROJECT.json` names the property that
each must violate.
