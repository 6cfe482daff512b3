-------------------------- MODULE DirectoryStructure --------------------------
(***************************************************************************)
(* The virtual data directory: a DirectoryEntry with its FileRegister and  *)
(* OriginConnection (shared/), built by DirectoryRefresher::refresh with   *)
(* one worker thread per active mod, then changed in place by the handlers *)
(* of OrganizerCore and of the mod list when the user switches mods on and *)
(* off, moves them, or edits the files of one.                             *)
(*                                                                         *)
(* Every file sits in the top directory, a mod owns at most one archive,   *)
(* and an origin is named by its mod: the ids the code hands out in the    *)
(* order of creation identify the same thing.  While the handlers of the   *)
(* main thread run, nobody but the workers they started touches the        *)
(* structure, so a phase of a handler ends in one step.                    *)
(***************************************************************************)
EXTENDS FileEntry

CONSTANTS
  Mods,         \* the mods of the profile, each with its own priority
  Data,         \* the origin "data", the game's own directory
  Files,        \* lower-case names of files in the data directory
  Noise,        \* the names cleanStructure takes out again
  NoEntry,      \* an empty slot of the register
  ArchiveOrder, \* for each mod, the load order position of its archive's plugin
  Contents,     \* what the origins may hold on disk
  MaxChanges    \* bound: user operations after the first refresh

Origins == Mods \cup {Data}

ASSUME OriginAssumption ==
  /\ Data \notin Mods
  /\ NoOrigin \notin Origins

ASSUME FileAssumption ==
  /\ Noise \subseteq Files
  /\ NoEntry \notin Entry(Origins, Files)

ASSUME DiskAssumption ==
  /\ ArchiveOrder \in [Mods -> Int]
  /\ Contents \subseteq [Origins -> [loose : SUBSET Files, archived : SUBSET Files]]
  /\ \A c \in Contents : c[Data].archived = {}

ASSUME BoundAssumption == MaxChanges \in Nat

VARIABLES
  \* the disk and the profile
  content,          \* per origin, its loose files and those in its archive
  enabled,          \* the active mods
  profilePriority,  \* Profile::getModPriority
  \* the structure
  register,         \* FileRegister::m_Files
  files,            \* DirectoryEntry::m_Files and m_FilesLookup, 0 for no file
  created,          \* OriginConnection::m_OriginsNameMap
  priority,         \* FilesOrigin::m_Priority
  originFiles,      \* FilesOrigin::m_Files
  \* the threads that change it
  task,             \* the operation under way
  phase,            \* how far it has come
  worker,           \* per origin, the scan of its directory and archive
  archiving,        \* mods whose archives the main thread still has to add
  dropping,         \* mods it still has to disable
  changes           \* user operations so far

disk      == <<content, enabled, profilePriority>>
structure == <<register, files, created, priority, originFiles>>
control   == <<task, phase, archiving, dropping, changes>>
vars      == <<disk, structure, control, worker>>

Priorities ==
  {p \in [Mods -> 0..(Cardinality(Mods) - 1)] :
     \A m, n \in Mods : m # n => p[m] # p[n]}

Idle == [stage |-> "idle", step |-> "find", todo |-> {}, index |-> 0]

Live == {i \in DOMAIN register : register[i] # NoEntry}

\* Mutant: waitForAll returns once some thread is done.
AnyIdle == \E o \in Origins : worker[o].stage = "idle"

\* What ThreadPool::waitForAll waits for.
AllIdle == \A o \in Origins : worker[o].stage = "idle"

-----------------------------------------------------------------------------
(* DirectoryRefresher::refresh starts from an empty structure *)

Init ==
  /\ content \in Contents
  /\ enabled \in SUBSET Mods
  /\ profilePriority \in Priorities
  /\ register = <<>>
  /\ files = [f \in Files |-> 0]
  /\ created = {}
  /\ priority = [o \in Origins |-> 0]
  /\ originFiles = [o \in Origins |-> {}]
  /\ task = "refresh"
  /\ phase = "data"
  /\ worker = [o \in Origins |-> IF o = Data THEN [Idle EXCEPT !.stage = "origin"] ELSE Idle]
  /\ archiving = {}
  /\ dropping = {}
  /\ changes = 0

-----------------------------------------------------------------------------
(* The scan of an origin: ModThread::run, DirectoryEntry::addFromOrigin and *)
(* addFromAllBSAs.  Three locks are taken in turn for each file.            *)

\* An origin that exists keeps the priority it was created with.
CreateOrigin(o) ==
  /\ worker[o].stage = "origin"
  /\ created' = created \cup {o}
  /\ priority' = IF o \in created THEN priority
                 ELSE [priority EXCEPT ![o] = IF o = Data THEN 0 ELSE profilePriority[o] + 1]
  /\ worker' = [worker EXCEPT ![o] = [Idle EXCEPT !.stage = "loose", !.todo = content[o].loose]]
  /\ UNCHANGED <<disk, register, files, originFiles, control>>

\* insert, under m_FilesMutex: find the entry of the name or make one.
FindFile(o) ==
  /\ worker[o].stage \in {"loose", "archive"}
  /\ worker[o].step = "find"
  /\ \E f \in worker[o].todo :
       LET known == files[f] # 0
           i     == IF known THEN files[f] ELSE Len(register) + 1
       IN  /\ register' = IF known THEN register ELSE Append(register, NewEntry(f))
           /\ files' = [files EXCEPT ![f] = i]
           /\ worker' = [worker EXCEPT ![o].todo = @ \ {f},
                                       ![o].index = i,
                                       ![o].step = "add"]
  /\ UNCHANGED <<disk, created, priority, originFiles, control>>

ProviderFor(o) ==
  LET archived == worker[o].stage = "archive"
  IN  [origin |-> o, archived |-> archived,
       order |-> IF archived THEN ArchiveOrder[o] ELSE -1]

\* insert, after m_FilesMutex is released: FileEntry::addOrigin.
AddOriginToFile(o) ==
  /\ worker[o].step = "add"
  /\ register' = [register EXCEPT ![worker[o].index] = AddOrigin(priority, @, ProviderFor(o))]
  /\ worker' = [worker EXCEPT ![o].step = "list"]
  /\ UNCHANGED <<disk, files, created, priority, originFiles, control>>

\* insert, last: FilesOrigin::addFile.
AddFileToOrigin(o) ==
  /\ worker[o].step = "list"
  /\ originFiles' = [originFiles EXCEPT ![o] = @ \cup {worker[o].index}]
  /\ worker' = [worker EXCEPT ![o].step = "find", ![o].index = 0]
  /\ UNCHANGED <<disk, register, files, created, priority, control>>

\* addFromBSA returns early for an archive some file of the directory names.
ContainsArchive(o) == \E i \in Live : FromArchiveOf(register[i], o)

ArchiveScan(o) ==
  IF ContainsArchive(o) THEN Idle
  ELSE [Idle EXCEPT !.stage = "archive", !.todo = content[o].archived]

\* The data directory is scanned without archives, and the threads that serve a
\* change of the mod list are given none.
FinishLoose(o) ==
  /\ worker[o].stage = "loose"
  /\ worker[o].step = "find"
  /\ worker[o].todo = {}
  /\ worker' = [worker EXCEPT ![o] = IF o = Data \/ task = "status" THEN Idle
                                     ELSE ArchiveScan(o)]
  /\ UNCHANGED <<disk, structure, control>>

FinishArchive(o) ==
  /\ worker[o].stage = "archive"
  /\ worker[o].step = "find"
  /\ worker[o].todo = {}
  /\ worker' = [worker EXCEPT ![o] = Idle]
  /\ UNCHANGED <<disk, structure, control>>

Scan(o) ==
  \/ CreateOrigin(o)
  \/ FindFile(o)
  \/ AddOriginToFile(o)
  \/ AddFileToOrigin(o)
  \/ FinishLoose(o)
  \/ FinishArchive(o)

-----------------------------------------------------------------------------
(* What the main thread (or the refresher's) does to the whole structure *)

\* Mutant: the origins keep the files that are taken out.
CleanStructureForgetting ==
  LET noise == {files[f] : f \in Noise} \cap Live
  IN  /\ register' = [i \in DOMAIN register |-> IF i \in noise THEN NoEntry ELSE register[i]]
      /\ originFiles' = originFiles
      /\ files' = [f \in Files |-> IF files[f] \in noise THEN 0 ELSE files[f]]

\* cleanStructure: FileRegister::removeFile of each unwanted name.
CleanStructure ==
  LET noise == {files[f] : f \in Noise} \cap Live
  IN  /\ register' = [i \in DOMAIN register |-> IF i \in noise THEN NoEntry ELSE register[i]]
      /\ originFiles' = [o \in Origins |->
                           {i \in originFiles[o] :
                              ~(i \in noise /\ o \in OriginsOf(register[i]))}]
      /\ files' = [f \in Files |-> IF files[f] \in noise THEN 0 ELSE files[f]]

\* Mutant: an entry stays in the register when its last origin goes.
WithoutEmptying(i, o) == RemoveOrigin(priority, register[i], o)

\* removeOriginMulti empties the slot of a file whose last origin goes.
Without(i, o) ==
  {IF e.main = NoProvider THEN NoEntry ELSE e : e \in RemoveOrigin(priority, register[i], o)}

\* Every function that picks, for each slot in S, one of its outcomes.
Outcomes(S, outcome(_)) ==
  {r \in [S -> UNION {outcome(i) : i \in S}] : \A i \in S : r[i] \in outcome(i)}

\* Mutant: the names and the origin's own list stay as they were.
DisableOnlyEntries(o) ==
  LET touched == originFiles[o] \cap Live
  IN  \E r \in Outcomes(touched, LAMBDA i : Without(i, o)) :
        /\ register' = [i \in DOMAIN register |-> IF i \in touched THEN r[i] ELSE register[i]]
        /\ UNCHANGED <<files, originFiles>>

\* FilesOrigin::enable(false) with FileRegister::removeOriginMulti.
Disable(o) ==
  LET touched == originFiles[o] \cap Live
  IN  \E r \in Outcomes(touched, LAMBDA i : Without(i, o)) :
        /\ register' = [i \in DOMAIN register |-> IF i \in touched THEN r[i] ELSE register[i]]
        /\ files' = [f \in Files |->
                       IF files[f] \in touched /\ r[files[f]] = NoEntry THEN 0 ELSE files[f]]
        /\ originFiles' = [originFiles EXCEPT ![o] = {}]

\* FileRegister::sortOrigins.
SortRegister ==
  \E r \in Outcomes(Live, LAMBDA i : SortOrigins(priority, register[i])) :
    register' = [i \in DOMAIN register |-> IF i \in Live THEN r[i] ELSE NoEntry]

-----------------------------------------------------------------------------
(* The course of an operation *)

\* The data directory is scanned alone, then a thread starts for each mod.
DataScanned ==
  /\ phase = "data"
  /\ AllIdle
  /\ phase' = "load"
  /\ worker' = [o \in Origins |-> IF o \in enabled THEN [Idle EXCEPT !.stage = "origin"] ELSE Idle]
  /\ UNCHANGED <<disk, structure, task, archiving, dropping, changes>>

\* waitForAll has returned.  refresh() sorts before it cleans, the handlers of
\* the mod list clean before they sort, or before they go on to the archives.
Loaded ==
  /\ phase = "load"
  /\ AllIdle
  /\ phase' = IF task = "status" THEN "archives" ELSE "sort"
  /\ IF task = "refresh" THEN UNCHANGED <<register, files, originFiles>> ELSE CleanStructure
  /\ UNCHANGED <<disk, created, priority, worker, task, archiving, dropping, changes>>

\* Mutant: the loop over the mods never moves on.
AddArchiveForever(m) ==
  /\ phase = "archives"
  /\ AllIdle
  /\ m \in archiving
  /\ archiving' = archiving
  /\ worker' = [worker EXCEPT ![m] = ArchiveScan(m)]
  /\ UNCHANGED <<disk, structure, task, phase, dropping, changes>>

\* updateModsInDirectoryStructure adds the archives mod by mod.
AddArchive(m) ==
  /\ phase = "archives"
  /\ AllIdle
  /\ m \in archiving
  /\ archiving' = archiving \ {m}
  /\ worker' = [worker EXCEPT ![m] = ArchiveScan(m)]
  /\ UNCHANGED <<disk, structure, task, phase, dropping, changes>>

ArchivesAdded ==
  /\ phase = "archives"
  /\ AllIdle
  /\ archiving = {}
  /\ phase' = "drop"
  /\ UNCHANGED <<disk, structure, worker, task, archiving, dropping, changes>>

\* modStatusChanged disables the origin of a mod switched off, if there is one.
Drop(m) ==
  /\ phase = "drop"
  /\ m \in dropping
  /\ dropping' = dropping \ {m}
  /\ IF m \in created THEN Disable(m) ELSE UNCHANGED <<register, files, originFiles>>
  /\ UNCHANGED <<disk, created, priority, worker, task, phase, archiving, changes>>

\* Mutant: the origins keep the priorities they were created with.
DroppedStale ==
  /\ phase = "drop"
  /\ dropping = {}
  /\ phase' = "sort"
  /\ UNCHANGED <<disk, structure, worker, task, archiving, dropping, changes>>

\* Every origin of the profile gets its priority before the files are sorted.
Dropped ==
  /\ phase = "drop"
  /\ dropping = {}
  /\ phase' = "sort"
  /\ priority' = [o \in Origins |-> IF o \in created \cap Mods THEN profilePriority[o] + 1
                                    ELSE priority[o]]
  /\ UNCHANGED <<disk, register, files, created, originFiles, worker, task, archiving,
                 dropping, changes>>

Sort ==
  /\ phase = "sort"
  /\ SortRegister
  /\ phase' = IF task = "refresh" THEN "clean" ELSE "ready"
  /\ UNCHANGED <<disk, files, created, priority, originFiles, worker, task, archiving,
                 dropping, changes>>

Clean ==
  /\ phase = "clean"
  /\ CleanStructure
  /\ phase' = "ready"
  /\ UNCHANGED <<disk, created, priority, worker, task, archiving, dropping, changes>>

-----------------------------------------------------------------------------
(* The user *)

MayChange ==
  /\ phase = "ready"
  /\ changes < MaxChanges
  /\ changes' = changes + 1

\* Profile::setModsEnabled and OrganizerCore::modStatusChanged.
ChangeStatus(on, off) ==
  /\ MayChange
  /\ on \cup off # {}
  /\ enabled' = (enabled \cup on) \ off
  /\ task' = "status"
  /\ phase' = IF on # {} THEN "load" ELSE "drop"
  /\ archiving' = on
  /\ dropping' = off
  /\ worker' = [o \in Origins |-> IF o \in on THEN [Idle EXCEPT !.stage = "origin"] ELSE Idle]
  /\ UNCHANGED <<content, profilePriority, structure>>

\* OrganizerCore::modPrioritiesChanged, after the profile has the new order.
\* getOriginByName throws for an active mod that has no origin.
ChangePriorities ==
  /\ MayChange
  /\ profilePriority' \in Priorities \ {profilePriority}
  /\ enabled \subseteq created
  /\ priority' = [o \in Origins |-> IF o \in enabled THEN profilePriority'[o] + 1
                                    ELSE priority[o]]
  /\ task' = "priority"
  /\ phase' = "sort"
  /\ UNCHANGED <<content, enabled, register, files, created, originFiles, worker,
                 archiving, dropping>>

\* ModListViewActions::displayModInformation once its dialog, in which the
\* files of the mod may have been hidden or moved, is closed.
RescanMod(m) ==
  /\ MayChange
  /\ m \in enabled \cap created
  /\ \E c \in Contents : content' = [content EXCEPT ![m] = c[m]]
  /\ Disable(m)
  /\ task' = "rescan"
  /\ phase' = "load"
  /\ worker' = [worker EXCEPT ![m].stage = "origin"]
  /\ UNCHANGED <<enabled, profilePriority, created, priority, archiving, dropping>>

-----------------------------------------------------------------------------

Work ==
  \/ \E o \in Origins : Scan(o)
  \/ DataScanned
  \/ Loaded
  \/ \E m \in Mods : AddArchive(m) \/ Drop(m)
  \/ ArchivesAdded
  \/ Dropped
  \/ Sort
  \/ Clean

User ==
  \/ \E on \in SUBSET (Mods \ enabled), off \in SUBSET enabled : ChangeStatus(on, off)
  \/ ChangePriorities
  \/ \E m \in Mods : RescanMod(m)

Next == Work \/ User

Spec == Init /\ [][Next]_vars

\* The threads are scheduled and the handlers run to their end; nothing
\* obliges the user to act.
FairSpec == Spec /\ WF_vars(Work)

-----------------------------------------------------------------------------
(* Properties *)

WorkerState ==
  [stage : {"idle", "origin", "loose", "archive"}, step : {"find", "add", "list"},
   todo : SUBSET Files, index : Nat]

\* Every variable has its type, and a worker between two locks holds the slot
\* of the register it looked up.
TypeOK ==
  /\ content \in [Origins -> [loose : SUBSET Files, archived : SUBSET Files]]
  /\ enabled \in SUBSET Mods
  /\ profilePriority \in [Mods -> Int]
  /\ register \in Seq(Entry(Origins, Files) \cup {NoEntry})
  /\ files \in [Files -> Nat]
  /\ created \in SUBSET Origins
  /\ priority \in [Origins -> Int]
  /\ originFiles \in [Origins -> SUBSET Nat]
  /\ task \in {"refresh", "status", "rescan", "priority"}
  /\ phase \in {"data", "load", "archives", "drop", "sort", "clean", "ready"}
  /\ worker \in [Origins -> WorkerState]
  /\ archiving \in SUBSET Mods
  /\ dropping \in SUBSET Mods
  /\ changes \in Nat

\* The name lookup and the register agree at every moment: a name leads to the
\* one live entry with that name, and every live entry is found by its name.
\* (insert looks up and creates under one lock, while several workers scan.)
NamesMatchRegister ==
  /\ \A f \in Files : files[f] # 0 => files[f] \in Live /\ register[files[f]].name = f
  /\ \A i \in Live : files[register[i].name] = i

\* An origin lists no file that is gone or that does not list the origin, not
\* even while workers add files or an origin is being disabled.
NoDanglingFiles ==
  \A o \in Origins : \A i \in originFiles[o] :
    i \in Live /\ o \in OriginsOf(register[i])

\* A worker between two locks still has the entry it looked up, and once it has
\* added its origin to the entry nobody takes it out again.
WorkersHoldFiles ==
  \A o \in Origins :
    /\ worker[o].step # "find" => worker[o].index \in Live
    /\ worker[o].step = "list" => o \in OriginsOf(register[worker[o].index])
    /\ worker[o].stage \in {"idle", "origin"} => worker[o].step = "find"
    /\ worker[o].stage = "archive" => o \in Mods

\* After the scans nobody but the main thread is at work.
QuietAfterLoading == phase \notin {"data", "load", "archives"} => AllIdle

\* An entry without a main provider (InvalidOriginID) exists only between the
\* moment insert makes it and the moment the same worker adds its origin.
OrphansAreBeingAdded ==
  \A i \in Live :
    register[i].main = NoProvider =>
      \E o \in Origins : worker[o].step = "add" /\ worker[o].index = i

\* A settled structure has the profile's current priorities, and no provider of
\* a file beats the main one under sortOrigins' comparison: neither loading,
\* cleaning nor disabling an origin undoes what the last sort decided.
WinnersOnTop ==
  phase = "ready" =>
    /\ \A m \in enabled \cap created : priority[m] = profilePriority[m] + 1
    /\ \A i \in Live : \A q \in ProvidersOf(register[i]) :
         ~SortsBelow(priority, register[i].main, q)

StructureInvariant ==
  /\ TypeOK
  /\ NamesMatchRegister
  /\ NoDanglingFiles
  /\ WorkersHoldFiles
  /\ QuietAfterLoading
  /\ OrphansAreBeingAdded

\* Once settled, the structure is that of the active mods and no other: a file
\* lists exactly the active origins that hold it, each once, the origin lists
\* the file in turn, and a file that nobody holds is not there.
SettledProviders ==
  phase = "ready" =>
    \A f \in Files \ Noise :
      LET holders == {o \in enabled \cup {Data} :
                        f \in content[o].loose \cup content[o].archived}
      IN  IF holders = {} THEN files[f] = 0
          ELSE /\ files[f] \in Live
               /\ OriginsOf(register[files[f]]) = holders
               /\ Len(register[files[f]].alternatives) + 1 = Cardinality(holders)
               /\ {o \in Origins : files[f] \in originFiles[o]} = holders

\* getOriginByName never throws out of modPrioritiesChanged or
\* displayModInformation: an active mod has an origin whenever the user can act.
ActiveModsHaveOrigins == phase = "ready" => enabled \subseteq created

\* "remove the specified origin from the list of origins that contain this
\* file. if no origin is left, the file is effectively deleted" (fileentry.h:33):
\* after a mod was disabled no file of the structure lists it any more.
DisabledModLeavesFiles ==
  [][\A m \in created : Drop(m) => \A i \in Live' : m \notin OriginsOf(register'[i])]_vars

View ==
  [f \in Files |->
     IF phase # "ready" \/ files[f] = 0 THEN NoOrigin
     ELSE register[files[f]].main.origin]

Promise == INSTANCE ConflictResolution
             WITH position <- profilePriority, settled <- (phase = "ready"), view <- View

\* Whatever the interleaving of the workers and the history of changes, each
\* settled structure shows the conflict winners.
KeepsPromise == Promise!Spec

\* Every refresh and every change of the mod list comes to its end: no worker
\* waits for another, and waitForAll returns.
ChangesSettle == phase # "ready" ~> phase = "ready"
=============================================================================
