------------------------------ MODULE Organizer ------------------------------
(***************************************************************************)
(* The core of the organizer (organizercore.cpp): the mod list of the      *)
(* profile, its file, the directory structure that a second thread reads   *)
(* again and the program that is started with the mods of the list.        *)
(*                                                                         *)
(* The GUI thread runs one handler at a time; the timer of the delayed     *)
(* writer, the refresher's signal and, while a handler waits in an event   *)
(* loop of its own, all the other handlers come in between. Plugins call   *)
(* the same handlers at any time, the window only while it is enabled.     *)
(***************************************************************************)
EXTENDS ProfileOrder

CONSTANTS
  FirstMods,    \* the mods there are when the program starts first
  Arriving,     \* the mods that come and go while it runs
  FirstLists,   \* the files the profile may then have
  MaxCommands   \* bound on the commands of the user, the plugins and the disk

ASSUME FirstAssumption ==
  /\ Overwrite \in FirstMods /\ FirstMods \subseteq Mods /\ IsFiniteSet(FirstMods)
  /\ Arriving \subseteq Regular /\ IsFiniteSet(Arriving)
  /\ FirstLists \subseteq Seq(Lines)
  /\ MaxCommands \in Nat

VARIABLES
  disk,       \* the mods there are on disk
  collection, \* ModInfo::s_Collection, the mods the program knows of
  list,       \* m_CurrentProfile and its modlist.txt
  backup,     \* the backup of modlist.txt
  core,       \* the update, the structure and the plugin list of OrganizerCore
  program,    \* how far the start of a program has come
  mapping,    \* the mods the program was started with, the winner last
  missed,     \* a change of the list has not been made to the structure
  replaced,   \* modlist.txt is what something else than this profile wrote last
  commands    \* how many commands there were

vars == <<disk, collection, list, backup, core, program, mapping, missed, replaced,
          commands>>

\* The content of no file: what was not written yet, a backup there is not.
Nothing == <<[mod |-> -1, on |-> FALSE]>>

-----------------------------------------------------------------------------
(* The profile, its file and the delayed writer *)

Enabled(l, mods) == EnabledMods(l.profile.status, mods)
Active(l, mods)  == ActiveOrder(l.profile.status, mods)

\* Profile::doWriteModlist. It goes through the indices of m_ModStatus, so it
\* fails if the collection has become shorter, and does nothing if it wrote the
\* same content before (SafeWriteFile::commitIfDifferent).
DoWriteModlist(l, mods) ==
  IF Len(l.profile.status) > Len(mods) THEN [l EXCEPT !.pending = FALSE]
  ELSE LET content == Written(l.profile.status, mods)
       IN [l EXCEPT !.pending = FALSE,
                    !.file = IF content = l.written THEN @ ELSE content,
                    !.written = content]

\* Profile::writeModlistNow.
WriteModlistNow(l, mods, onlyIfPending) ==
  IF onlyIfPending /\ ~l.pending THEN l ELSE DoWriteModlist(l, mods)

\* Profile::refreshModStatus.
ReadModStatus(l, mods) ==
  LET saved == WriteModlistNow(l, mods, TRUE)
      read  == RefreshModStatus(saved.file, mods)
  IN [saved EXCEPT !.profile = read.profile, !.pending = read.modified]

\* The constructor of Profile.
OpenProfile(file, mods) ==
  LET read == RefreshModStatus(file, mods)
  IN [file    |-> file,
      profile |-> read.profile,
      pending |-> read.modified,
      written |-> Nothing]

\* Whether a write really replaced the file.
WroteFile(before, after) == after.written # before.written

-----------------------------------------------------------------------------
(* The directory structure and the plugin list *)

Shown(structure) == {m \in DOMAIN structure : structure[m].enabled}

\* Mutant: the refresher is not given the mods.
RefreshStructureStale(l, mods, c) ==
  IF c.update THEN [list |-> l, core |-> c]
  ELSE [list |-> WriteModlistNow(l, mods, TRUE),
        core |-> [c EXCEPT !.update = TRUE, !.refresher = "queued"]]

\* OrganizerCore::refreshDirectoryStructure.
RefreshStructure(l, mods, c) ==
  IF c.update THEN [list |-> l, core |-> c]
  ELSE LET saved == WriteModlistNow(l, mods, TRUE)
       IN [list |-> saved,
           core |-> [c EXCEPT !.update = TRUE, !.refresher = "queued",
                              !.mods = ActiveMods(saved.profile.status, mods)]]

\* OrganizerCore::refreshESPList, put off while the structure is read.
RefreshESPList(l, c) ==
  IF c.update THEN [list |-> l, core |-> [c EXCEPT !.postRefresh = TRUE]]
  ELSE [list |-> [l EXCEPT !.pending = TRUE],
        core |-> [c EXCEPT !.plugins = Shown(c.structure)]]

\* The structure that refresh() makes of the mods it was given.
Built(mods) ==
  [m \in {mods[k].mod : k \in DOMAIN mods} |->
     LET k == CHOOSE j \in DOMAIN mods : mods[j].mod = m
     IN [enabled |-> TRUE, priority |-> mods[k].priority + 1]]

\* setPriority for the mods of the set that have an origin.
WithPriorities(structure, l, mods, changed) ==
  [m \in DOMAIN structure |->
     IF m \in changed
     THEN [structure[m] EXCEPT !.priority = l.profile.status[Index(mods, m)].priority + 1]
     ELSE structure[m]]

\* OrganizerCore::modStatusChanged for mods that are all enabled or all disabled
\* now. Enabling gives the refresher the new mods as well.
ModStatusChanged(l, mods, changed, on, c) ==
  LET shown == IF on
               THEN [m \in changed \cup DOMAIN c.structure |->
                       IF m \in changed THEN [enabled |-> TRUE, priority |-> 0]
                       ELSE c.structure[m]]
               ELSE [m \in DOMAIN c.structure |->
                       [c.structure[m] EXCEPT !.enabled = @ /\ m \notin changed]]
      structure == WithPriorities(shown, l, mods, ToSet(mods))
      given == IF on THEN ActiveMods(l.profile.status, mods) ELSE c.mods
      after == RefreshESPList(l, [c EXCEPT !.structure = structure, !.mods = given])
  IN [list |-> [after.list EXCEPT !.pending = TRUE], core |-> after.core]

\* OrganizerCore::modPrioritiesChanged. getOriginByName throws at the first
\* enabled mod that has no origin; the ones before it have the new priority.
ModPrioritiesChanged(l, mods, c) ==
  LET enabled == Enabled(l, mods)
      missing == enabled \ DOMAIN c.structure
      reached == {m \in enabled : \A n \in missing : m < n}
  IN [list |-> IF missing = {} THEN [l EXCEPT !.pending = TRUE] ELSE l,
      core |-> [c EXCEPT !.structure = WithPriorities(@, l, mods, reached)]]

-----------------------------------------------------------------------------
(* Commands on the mod list *)

Command ==
  /\ commands < MaxCommands
  /\ commands' = commands + 1

\* What a handler does to the list and to the structure.
Becomes(after) ==
  /\ list' = after.list
  /\ core' = after.core

\* Profile::setModEnabled and setModsEnabled, with all that modStatusChanged
\* does. A change made while the structure is read gets lost when the new one
\* comes, unless the refresher is given the mods before it starts.
SetModsEnabled(mods, on) ==
  LET changed == [list EXCEPT !.profile.status =
                    [i \in DOMAIN @ |-> IF collection[i] \in mods
                                        THEN [@[i] EXCEPT !.enabled = on] ELSE @[i]]]
  IN /\ Command
     /\ \A m \in mods : /\ ~AlwaysEnabled(m) /\ ~AlwaysDisabled(m)
                        /\ (m \in Enabled(list, collection)) # on
     /\ Becomes(ModStatusChanged(changed, collection, mods, on, core))
     /\ missed' = IF on /\ core.refresher = "queued" THEN FALSE ELSE missed \/ core.update
     /\ UNCHANGED <<disk, collection, backup, program, mapping, replaced>>

\* The mods are moved to a priority by a drop, by a command or by a plugin that
\* installs one (ModList::changeModPriority).
MoveMods(mods, target) ==
  LET indices == {Index(collection, m) : m \in mods}
      moved == [list EXCEPT !.profile =
                  ChangeModsPriority(@, collection, indices, target),
                  !.pending = TRUE]
      after == ModPrioritiesChanged(moved, collection, core)
  IN /\ Command
     /\ moved.profile # list.profile
     /\ Becomes(after)
     /\ missed' = (missed \/ core.update
                   \/ Enabled(moved, collection) \ DOMAIN core.structure # {})
     /\ UNCHANGED <<disk, collection, backup, program, mapping, replaced>>

\* Mutant: the list is not written.
SetPriorityUnsaved(m, target) ==
  LET moved == SetModPriority(list.profile, collection, Index(collection, m), target).profile
  IN /\ Command
     /\ moved # list.profile
     /\ list' = [list EXCEPT !.profile = moved]
     /\ missed' = TRUE
     /\ UNCHANGED <<disk, collection, backup, core, program, mapping, replaced>>

\* ModList::setPriority, the call for plugins: the structure is not told.
SetPriority(m, target) ==
  LET moved == SetModPriority(list.profile, collection, Index(collection, m), target).profile
  IN /\ Command
     /\ moved # list.profile
     /\ list' = [list EXCEPT !.profile = moved, !.pending = TRUE]
     /\ missed' = TRUE
     /\ UNCHANGED <<disk, collection, backup, core, program, mapping, replaced>>

-----------------------------------------------------------------------------
(* Commands on the mods there are *)

\* What OrganizerCore::refresh leaves behind, from the list it starts with.
Refreshed(l, before, mods, save) ==
  LET saved == IF save THEN WriteModlistNow(l, before, TRUE) ELSE l
  IN RefreshStructure(ReadModStatus(saved, mods), mods, core)

\* A refresh that comes while the structure is read is not made up for, nor is
\* a change that follows it at once.
AfterRefresh(after, changed) ==
  /\ Becomes(after)
  /\ missed' = (changed \/ (core.update /\ (missed \/ Active(after.list, collection') #
                                                     Active(list, collection))))
  /\ replaced' = (replaced /\ ~WroteFile(list, after.list))

\* OrganizerCore::refresh, also as modDataChanged (without saving).
Refresh(save) ==
  /\ Command
  /\ collection' = Collection(disk)
  /\ AfterRefresh(Refreshed(list, collection, collection', save), FALSE)
  /\ UNCHANGED <<disk, backup, program, mapping>>

\* OrganizerCore::installArchive and installDownload; a mod that was dropped on
\* the list goes to a place of it, target.
Install(m, target) ==
  LET before == WriteModlistNow(list, collection, FALSE)
      mods   == Collection(disk \cup {m})
      after  == Refreshed(before, collection, mods, TRUE)
      placed == SetModPriority(after.list.profile, mods, Index(mods, m), target).profile
      moved  == ModPrioritiesChanged([after.list EXCEPT !.profile = placed,
                                        !.pending = @ \/ placed # after.list.profile],
                                     mods, after.core)
  IN /\ Command
     /\ m \in Arriving \ disk
     /\ disk' = disk \cup {m}
     /\ collection' = mods
     /\ AfterRefresh(IF target = -1 THEN after ELSE moved,
                     target # -1 /\ m \in Enabled(after.list, mods)
                                 /\ placed # after.list.profile)
     /\ UNCHANGED <<backup, program, mapping>>

\* A mod's directory is made or deleted by something else.
ChangeDisk(m) ==
  /\ Command
  /\ disk' = IF m \in disk THEN disk \ {m} ELSE disk \cup {m}
  /\ UNCHANGED <<collection, list, backup, core, program, mapping, missed, replaced>>

\* ModList::removeRowForce: changes of the list that were not written yet are
\* given up with the write that is cancelled.
RemoveMod(m) ==
  LET on == m \in Enabled(list, collection)
      off == [list EXCEPT !.profile.status[Index(collection, m)].enabled = FALSE]
      disabled == IF on THEN ModStatusChanged(off, collection, {m}, FALSE, core)
                  ELSE [list |-> list, core |-> core]
      mods  == Collection(ToSet(collection) \ {m})
      read  == ReadModStatus([disabled.list EXCEPT !.pending = FALSE], mods)
      after == IF on /\ m \in DOMAIN core.structure THEN RefreshESPList(read, disabled.core)
               ELSE [list |-> read, core |-> disabled.core]
  IN /\ Command
     /\ m \in disk \cap ToSet(collection) \cap Arriving
     /\ disk' = disk \ {m}
     /\ collection' = mods
     /\ Becomes([after EXCEPT !.list.pending = TRUE])
     /\ missed' = \/ missed
                  \/ on /\ core.update
                  \/ Active(after.list, mods) #
                     Among(Active(list, collection), Mods \ {m})
     /\ UNCHANGED <<backup, program, mapping, replaced>>

\* MainWindow::on_saveModsButton_clicked.
SaveBackup ==
  LET saved == WriteModlistNow(list, collection, TRUE)
  IN /\ Command
     /\ list' = saved
     /\ backup' = saved.file
     /\ replaced' = (replaced /\ ~WroteFile(list, saved))
     /\ UNCHANGED <<disk, collection, core, program, mapping, missed>>

\* MainWindow::on_restoreModsButton_clicked, which refreshes without saving.
RestoreBackup ==
  LET restored == [list EXCEPT !.file = backup]
      after == Refreshed(restored, collection, collection', FALSE)
  IN /\ Command
     /\ backup # Nothing
     /\ collection' = Collection(disk)
     /\ Becomes(after)
     /\ missed' = (core.update /\ (missed \/ Active(after.list, collection') #
                                              Active(list, collection)))
     /\ replaced' = ~WroteFile(list, after.list)
     /\ UNCHANGED <<disk, backup, program, mapping>>

-----------------------------------------------------------------------------
(* The timer and the refresher *)

\* The timer of the DelayedFileWriter.
WriterFires ==
  /\ list.pending
  /\ UNCHANGED <<disk, collection, backup, core, program, mapping, missed, commands>>
  /\ \E saved \in {WriteModlistNow(list, collection, FALSE)} :
       list' = saved /\ replaced' = (replaced /\ ~WroteFile(list, saved))

\* DirectoryRefresher::refresh, in its own thread; it holds the lock that
\* setMods needs, so it reads the mods as they are when it starts.
ReadStructure ==
  /\ core.refresher = "queued"
  /\ core' = [core EXCEPT !.refresher = "done", !.root = Built(core.mods)]
  /\ UNCHANGED <<disk, collection, list, backup, program, mapping, missed, replaced,
                 commands>>

\* Mutants: the signal directoryStructureReady is missing; the tasks put off
\* are not forgotten.
DirectoryRefreshedSilently ==
  /\ core.refresher = "done"
  /\ UNCHANGED <<disk, collection, backup, program, mapping, missed, replaced, commands>>
  /\ Becomes(RefreshESPList(list, [core EXCEPT !.structure = core.root, !.root = <<>>,
                !.update = FALSE, !.refresher = "idle", !.postRefresh = FALSE]))

DirectoryRefreshedRepeating ==
  /\ core.refresher = "done"
  /\ UNCHANGED <<disk, collection, backup, mapping, missed, replaced, commands>>
  /\ Becomes(RefreshESPList(list, [core EXCEPT !.structure = core.root, !.root = <<>>,
                                              !.update = FALSE, !.refresher = "idle"]))
  /\ program' = IF program = "waiting" THEN "ready" ELSE program

\* OrganizerCore::directory_refreshed.
DirectoryRefreshed ==
  LET swapped == [core EXCEPT !.structure = core.root, !.root = <<>>, !.update = FALSE,
                              !.refresher = "idle"]
      tasks == IF core.postRefresh THEN RefreshESPList(list, swapped)
               ELSE [list |-> list, core |-> swapped]
      lists == RefreshESPList(tasks.list, [tasks.core EXCEPT !.postRefresh = FALSE])
  IN /\ core.refresher = "done"
     /\ UNCHANGED <<disk, collection, backup, mapping, missed, replaced, commands>>
     /\ Becomes(lists)
     /\ program' = IF program = "waiting" THEN "ready" ELSE program

-----------------------------------------------------------------------------
(* Starting a program *)

\* The first half of OrganizerCore::beforeRun. It waits for an update that is
\* going on, in an event loop of its own.
BeforeRun ==
  /\ Command
  /\ program = "none"
  /\ list' = [list EXCEPT !.pending = TRUE]
  /\ program' = IF core.update THEN "waiting" ELSE "ready"
  /\ UNCHANGED <<disk, collection, backup, core, mapping, missed, replaced>>

\* The list is saved and the plugins are asked: their answers may change it.
AboutToRun ==
  /\ program = "ready"
  /\ UNCHANGED <<disk, collection, backup, core, mapping, missed, commands>>
  /\ \E saved \in {WriteModlistNow(list, collection, TRUE)} :
       list' = saved /\ replaced' = (replaced /\ ~WroteFile(list, saved))
  /\ program' = "saved"

\* OrganizerCore::fileMapping: it waits once more, then reads the file into a
\* profile of its own, which writes it back if it had to be changed.
FileMapping ==
  /\ program = "saved"
  /\ ~core.update
  /\ program' = "running"
  /\ UNCHANGED <<disk, collection, backup, core, missed, commands>>
  /\ \E own \in {OpenProfile(list.file, collection)} :
       LET put == WriteModlistNow(own, collection, TRUE)
       IN /\ mapping' = Among(Active(own, collection), Regular)
          /\ list' = [list EXCEPT !.file = put.file]
          /\ replaced' = (replaced \/ put.file # list.file)

\* ProcessRunner::postRun: OrganizerCore::afterRun follows if the program was
\* waited for and ended.
ProgramEnds(refresh) ==
  LET again == RefreshStructure(list, collection, core)
  IN /\ program = "running"
     /\ program' = "none"
     /\ mapping' = <<>>
     /\ IF refresh
        THEN /\ Becomes(RefreshESPList(again.list, again.core))
             /\ missed' = (missed /\ core.update)
             /\ replaced' = (replaced /\ ~WroteFile(list, again.list))
        ELSE UNCHANGED <<list, core, missed, replaced>>
     /\ UNCHANGED <<disk, collection, backup, commands>>

-----------------------------------------------------------------------------
(* Start and end of Mod Organizer itself *)

NewCore ==
  [update |-> FALSE, refresher |-> "idle", mods |-> <<>>, root |-> <<>>,
   structure |-> <<>>, plugins |-> {}, postRefresh |-> FALSE]

\* MOApplication::setup: the mods are read, then the profile.
StartUp(file, mods) ==
  LET opened == OpenProfile(file, mods)
  IN RefreshStructure(opened, mods, NewCore)

\* The destructors save the profile; a crash does not.
Restart(crash) ==
  LET saved == IF crash THEN list
               ELSE WriteModlistNow([list EXCEPT !.pending = TRUE], collection, TRUE)
  IN /\ Command
     /\ crash \/ program \in {"none", "running"}
     /\ collection' = Collection(disk)
     /\ Becomes(StartUp(saved.file, collection'))
     /\ program' = "none"
     /\ mapping' = <<>>
     /\ missed' = FALSE
     /\ replaced' = FALSE
     /\ UNCHANGED <<disk, backup>>

Init ==
  /\ disk = FirstMods
  /\ collection = Collection(FirstMods)
  /\ \E file \in FirstLists :
       LET started == StartUp(file, Collection(FirstMods))
       IN list = started.list /\ core = started.core
  /\ backup = Nothing
  /\ program = "none"
  /\ mapping = <<>>
  /\ missed = FALSE
  /\ replaced = FALSE
  /\ commands = 0

-----------------------------------------------------------------------------
Movable == {m \in ToSet(collection) : ~HasAutomaticPriority(m)}

UserStep ==
  \/ \E mods \in (SUBSET Movable) \ {{}}, on \in BOOLEAN : SetModsEnabled(mods, on)
  \/ \E mods \in (SUBSET Movable) \ {{}}, p \in 0..Len(collection) : MoveMods(mods, p)
  \/ \E m \in Movable, p \in 0..Len(collection) : SetPriority(m, p)
  \/ \E save \in BOOLEAN : Refresh(save)
  \/ \E m \in Arriving, p \in {-1, 0} : Install(m, p)
  \/ \E m \in Arriving : ChangeDisk(m) \/ RemoveMod(m)
  \/ SaveBackup \/ RestoreBackup
  \/ BeforeRun
  \/ \E crash \in BOOLEAN : Restart(crash)

SystemStep ==
  \/ WriterFires
  \/ ReadStructure
  \/ DirectoryRefreshed
  \/ AboutToRun
  \/ FileMapping
  \/ \E refresh \in BOOLEAN : ProgramEnds(refresh)

Next == UserStep \/ SystemStep

\* The threads go on and the event loops run: the steps the program itself takes
\* are not put off for ever. A started program need not end.
Fairness ==
  /\ WF_vars(ReadStructure)
  /\ WF_vars(DirectoryRefreshed)
  /\ WF_vars(AboutToRun)
  /\ WF_vars(FileMapping)

Spec == Init /\ [][Next]_vars /\ Fairness

-----------------------------------------------------------------------------
(* Properties *)

Mod(mods) == [mod : mods, priority : Nat]

\* The variables hold values of their types; the profile has a status for each
\* mod of the collection, and the priorities are the numbers from 0.
TypeOK ==
  /\ Overwrite \in disk /\ disk \subseteq FirstMods \cup Arriving
  /\ collection = Collection(ToSet(collection))
  /\ Overwrite \in ToSet(collection)
  /\ DOMAIN list.profile.status = DOMAIN collection
  /\ {list.profile.status[i].priority : i \in DOMAIN collection} = 0..(Len(collection) - 1)
  /\ list.profile.managed = Cardinality(Movable)
  /\ list.file \in Seq(Lines)
  /\ list.pending \in BOOLEAN
  /\ core.update = (core.refresher # "idle")
  /\ core.refresher \in {"idle", "queued", "done"}
  /\ ToSet(core.mods) \subseteq Mod(FirstMods \cup Arriving)
  /\ core.postRefresh => core.update
  /\ program \in {"none", "waiting", "ready", "saved", "running"}
  /\ commands \in 0..MaxCommands

\* What the list shows is in modlist.txt once no write is under way: whatever
\* was read again, moved, installed, removed or given up meanwhile. The file may
\* differ after something else has written it, because the profile compares what
\* it writes with what it wrote last and not with the file (SavedBeforeStart).
ListIsSaved ==
  (~list.pending /\ ~replaced) => list.file = Written(list.profile.status, collection)

\* The structure shows the enabled mods, and the order of their priorities is the
\* one of the list, whenever no update is under way: unless a change came too
\* late for an update and nothing asked for another one, or came from setPriority.
StructureFollowsList ==
  (~core.update /\ ~missed) =>
    /\ Shown(core.structure) = Enabled(list, collection)
    /\ \A i, j \in DOMAIN collection :
         LET s == list.profile.status
         IN s[i].enabled /\ s[j].enabled /\ s[i].priority < s[j].priority =>
              core.structure[collection[i]].priority < core.structure[collection[j]].priority

\* The plugin list was read from the structure there is now: a refresh that is
\* put off during an update is not lost, nor is one overtaken by the swap.
PluginListFollowsStructure == ~core.update => core.plugins = Shown(core.structure)

\* What the user sees between updates, mods and plugins alike, is that of the list.
ViewsFollowList == StructureFollowsList /\ PluginListFollowsStructure

\* A program is started with the enabled mods in the order the list shows,
\* although fileMapping reads them from the file: unless a plugin changed the
\* list after it was saved, or the file is not the profile's.
RunsWhatIsListed ==
  [][(program = "saved" /\ program' = "running" /\ ~list.pending /\ ~replaced) =>
       mapping' = Among(Active(list, collection), Regular)]_vars

\* A program the user asked for is started although updates come in between:
\* no wait for the structure is left without its signal.
WaitingProgramStarts ==
  program \in {"waiting", "ready", "saved"} ~> program \in {"running", "none"}

\* "need to make sure all data is saved before we start the application"
\* (beforeRun): once the list was saved, who reads the file finds the list.
SavedBeforeStart ==
  [][(program = "ready" /\ program' = "saved") =>
       RefreshModStatus(list'.file, collection).profile.status = list'.profile.status]_vars
=============================================================================
