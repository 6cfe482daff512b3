------------------------------ MODULE PluginList ------------------------------
(***************************************************************************)
(* The plugin list and its files (pluginlist.cpp, organizercore.cpp): the  *)
(* delayed writer saves what the user changes, and every change of the mod *)
(* list reads the files again. While the directory structure is read in    *)
(* the background, both are put off until it is there.                     *)
(*                                                                         *)
(* Each plugin comes from a mod of its own; the plugins of Forced are in   *)
(* the directory of the game.                                              *)
(***************************************************************************)
EXTENDS PluginOrder

CONSTANTS
  FirstFiles,  \* the files the profile may have at first
  FirstMods,   \* the plugins of the mods that are enabled then
  Switchable,  \* the plugins whose mods are enabled and disabled
  MaxCommands, \* bound on the commands of the user and of plugins
  MaxSelected  \* bound on the rows that are selected

ASSUME FirstAssumption ==
  /\ Forced \subseteq FirstMods /\ FirstMods \subseteq Plugins
  /\ Switchable \subseteq Plugins \ Forced
  /\ \A files \in FirstFiles : OwnFiles(files)

VARIABLES
  core,     \* what OrganizerCore keeps, see NewCore
  mods,     \* the plugins of the mods that are enabled
  read,     \* the ones among them the refresher was given
  backup,   \* the backup of the files, if there is one
  program,  \* how far the start of a program, or a sort, has come
  commands  \* how many commands there were

vars == <<core, mods, read, backup, program, commands>>

\* The content of no files.
NoBackup == [order |-> <<-1>>, active |-> {}, locks |-> <<>>]

\* The core of a program that has just started. unannounced: rows were moved
\* without a signal that they have to be written.
NewCore(files) ==
  [list |-> NoPlugins, files |-> files, available |-> {}, update |-> TRUE,
   tasks |-> <<>>, pending |-> FALSE, unannounced |-> FALSE]

-----------------------------------------------------------------------------
(* What the commands are made of: each takes the core and returns it changed *)

\* OrganizerCore::savePluginList.
SavePluginList(c) ==
  IF c.update THEN [c EXCEPT !.tasks = Append(@, "save")]
  ELSE [c EXCEPT !.files = SavedPlugins(c.list), !.unannounced = FALSE]

\* Mutant: saves although the structure is being read.
SaveCurrentListsAlways(c) == [c EXCEPT !.files = SavedPlugins(c.list)]

\* OrganizerCore::saveCurrentLists.
SaveCurrentLists(c) == IF c.update THEN c ELSE SavePluginList(c)

\* DelayedFileWriterBase::writeImmediately(false).
WriteImmediately(c) == SavePluginList([c EXCEPT !.pending = FALSE])

\* OrganizerCore::refreshESPList.
RefreshESPList(c, force) ==
  IF c.update THEN [c EXCEPT !.tasks = Append(@, IF force THEN "reload" ELSE "refresh")]
  ELSE LET after == RefreshPlugins(c.list, c.files, c.available, force)
       IN [c EXCEPT !.list = after.list, !.pending = @ \/ after.moved, !.unannounced = FALSE]

\* OrganizerCore::refreshLists; there are files in the structure once it was read.
RefreshLists(c) == IF c.available = {} THEN c ELSE RefreshESPList(c, TRUE)

\* Mutant: the signal is missing.
ReorderedSilently(c, list) ==
  LET after == RefreshLoadOrder(list)
  IN [c EXCEPT !.list = after.list, !.pending = @ \/ after.moved]

\* The changed list after a refreshLoadOrder and the signal writePluginsList.
Reordered(c, list) == [c EXCEPT !.list = RefreshLoadOrder(list).list, !.pending = TRUE]

Switched(list, plugins, on) ==
  [list EXCEPT !.enabled = [x \in DOMAIN @ |-> IF x \in plugins THEN on \/ x \in Forced ELSE @[x]]]

\* Mutant: the list is not saved.
UpdateModsActiveStateUnsaved(c, plugins, on) ==
  [c EXCEPT !.list = RefreshLoadOrder(Switched(@, plugins \cap c.available, on)).list]

\* OrganizerCore::updateModsActiveState, for plugins no other mod has.
UpdateModsActiveState(c, plugins, on) ==
  WriteImmediately([c EXCEPT !.list =
    RefreshLoadOrder(Switched(@, plugins \cap c.available, on)).list])

-----------------------------------------------------------------------------
(* Commands on the plugin list *)

Shown == Present(core.list)

Selections == {xs \in SUBSET Shown : xs # {} /\ Cardinality(xs) <= MaxSelected}

Command(c) ==
  /\ commands < MaxCommands
  /\ commands' = commands + 1
  /\ core' = c
  /\ UNCHANGED <<mods, read, backup, program>>

\* PluginList::setData for the check box; toggleState does it for a selection.
ToggleState(x) ==
  Command(Reordered(core, Switched(core.list, {x}, ~core.list.enabled[x])))

\* PluginList::setEnabled and setEnabledAll: forced plugins are not spared, and
\* the load order is left as it was.
SetEnabled(xs, on) ==
  /\ \E x \in xs : core.list.enabled[x] # on
  /\ Command([core EXCEPT !.list.enabled = [x \in DOMAIN @ |-> IF x \in xs THEN on ELSE @[x]],
                          !.pending = TRUE])

\* PluginList::dropMimeData and sendToPriority; forced plugins are not moved.
MovePlugins(xs, target) ==
  /\ xs \cap Forced = {}
  /\ Command(Reordered(core, ChangePluginPriority(core.list, xs, target)))

\* PluginList::setPriority, the call for plugins.
SetPriority(x, target) ==
  Command(Reordered(core, ChangePluginPriority(core.list, {x},
    IF core.list.priority[x] < target THEN target + 1 ELSE target)))

\* PluginList::setData for the column of priorities.
EditPriority(x, target) == Command(Reordered(core, SetPluginPriority(core.list, x, target)))

\* PluginList::shiftPluginsPriority, from the keyboard. Only refreshLoadOrder may
\* signal that the list has to be written.
ShiftSelection(xs, by) ==
  LET shifted == ShiftPlugins(core.list, xs, by)
      after == RefreshLoadOrder(shifted)
  IN /\ shifted # core.list
     /\ Command([core EXCEPT !.list = after.list, !.pending = @ \/ after.moved,
                             !.unannounced = @ \/ ~after.moved])

\* PluginListContextMenu::setESPLock and PluginList::lockESPIndex: the load order
\* is the one that was counted last.
SetLock(x, lock) ==
  /\ core.list.enabled[x]
  /\ x \notin Forced \/ ~lock
  /\ Command([core EXCEPT
       !.list.locked = IF lock THEN [y \in DOMAIN @ \cup {x} |->
                                       IF y = x THEN core.list.loadOrder[x] ELSE @[y]]
                       ELSE [y \in DOMAIN @ \ {x} |-> @[y]],
       !.pending = TRUE])

\* PluginList::setState and setLoadOrder, calls for plugins: nothing is written.
SetState(x, on) ==
  Command([core EXCEPT !.list = Switched(@, {x}, on), !.unannounced = TRUE])

PutFirst(x) ==
  LET order == SetLoadOrder(core.list.rows, <<x>>)
  IN Command([core EXCEPT !.list.priority = Priorities(order), !.unannounced = TRUE])

\* MainWindow::on_tabWidget_currentChanged.
ShowTab == Command(RefreshESPList(core, FALSE))

\* MainWindow::on_saveButton_clicked.
SaveBackup ==
  /\ commands < MaxCommands
  /\ commands' = commands + 1
  /\ core' = SavePluginList(core)
  /\ backup' = core'.files
  /\ UNCHANGED <<mods, read, program>>

\* MainWindow::on_restoreButton_clicked.
RestoreBackup ==
  /\ backup # NoBackup
  /\ Command(RefreshESPList([core EXCEPT !.files = backup], TRUE))

-----------------------------------------------------------------------------
(* Commands on the mods *)

\* OrganizerCore::modStatusChanged for the mod of a plugin. The refresher is given
\* the mod that is enabled unless it has begun to read.
SwitchMod(x, on) ==
  LET added == UpdateModsActiveState(
                 RefreshESPList([core EXCEPT !.available = @ \cup {x}], TRUE), {x}, TRUE)
      removed == [UpdateModsActiveState(core, {x}, FALSE) EXCEPT !.available = @ \ {x}]
  IN /\ commands < MaxCommands
     /\ commands' = commands + 1
     /\ on # (x \in mods)
     /\ core' = RefreshLists(IF on THEN added ELSE removed)
     /\ mods' = IF on THEN mods \cup {x} ELSE mods \ {x}
     /\ read' \in IF on THEN {read \cup {x}} \cup (IF core.update THEN {read} ELSE {})
                  ELSE {read}
     /\ UNCHANGED <<backup, program>>

\* OrganizerCore::refreshDirectoryStructure.
RefreshDirectoryStructure ==
  /\ commands < MaxCommands
  /\ commands' = commands + 1
  /\ ~core.update
  /\ core' = [core EXCEPT !.update = TRUE]
  /\ read' = mods
  /\ UNCHANGED <<mods, backup, program>>

Task(c, task) == IF task = "save" THEN SavePluginList(c) ELSE RefreshESPList(c, task = "reload")

\* OrganizerCore::directory_refreshed.
DirectoryRefreshed ==
  LET swapped == [core EXCEPT !.available = read, !.update = FALSE, !.tasks = <<>>]
  IN /\ core.update
     /\ core' = RefreshLists(Through(Task, swapped, core.tasks))
     /\ program' = IF program = "waiting" THEN "ready" ELSE program
     /\ UNCHANGED <<mods, read, backup, commands>>

\* The timer of the DelayedFileWriter.
WriterFires ==
  /\ core.pending
  /\ core' = WriteImmediately(core)
  /\ UNCHANGED <<mods, read, backup, program, commands>>

-----------------------------------------------------------------------------
(* Sorting and starting a program *)

\* PluginListView::onSortButtonClicked and runLoot save the list, then LOOT runs
\* behind a dialog.
SortStarts ==
  /\ commands < MaxCommands
  /\ commands' = commands + 1
  /\ program = "none"
  /\ core' = SavePluginList(SavePluginList(core))
  /\ program' = "sorting"
  /\ UNCHANGED <<mods, read, backup>>

\* LOOT has written loadorder.txt, or has failed.
SortEnds ==
  /\ program = "sorting"
  /\ program' = "none"
  /\ \/ UNCHANGED core
     \/ \E first \in SUBSET ToSet(core.files.order) :
          LET order == core.files.order
              sorted == Among(order, first) \o Among(order, ToSet(order) \ first)
          IN core' = SavePluginList(RefreshESPList([core EXCEPT !.files.order = sorted], FALSE))
  /\ UNCHANGED <<mods, read, backup, commands>>

\* OrganizerCore::beforeRun, which waits for an update that is going on.
BeforeRun ==
  /\ commands < MaxCommands
  /\ commands' = commands + 1
  /\ program = "none"
  /\ core' = SaveCurrentLists(core)
  /\ program' = IF core.update THEN "waiting" ELSE "ready"
  /\ UNCHANGED <<mods, read, backup>>

\* OrganizerCore::fileMapping waits again.
Started ==
  /\ program = "ready" /\ ~core.update
  /\ program' = "running"
  /\ UNCHANGED <<core, mods, read, backup, commands>>

\* OrganizerCore::afterRun.
AfterRun ==
  /\ program = "running"
  /\ program' = "none"
  /\ core' = SavePluginList(RefreshESPList([core EXCEPT !.update = TRUE], TRUE))
  /\ read' = IF core.update THEN read ELSE mods
  /\ UNCHANGED <<mods, backup, commands>>

\* The destructor of OrganizerCore saves the lists, a crash does not.
Restart(crash) ==
  /\ commands < MaxCommands
  /\ commands' = commands + 1
  /\ crash \/ program \in {"none", "running"}
  /\ core' = NewCore((IF crash THEN core ELSE SaveCurrentLists(core)).files)
  /\ read' = mods
  /\ program' = "none"
  /\ UNCHANGED <<mods, backup>>

Init ==
  /\ \E files \in FirstFiles : core = NewCore(files)
  /\ mods = FirstMods
  /\ read = FirstMods
  /\ backup = NoBackup
  /\ program = "none"
  /\ commands = 0

-----------------------------------------------------------------------------
\* What the window offers, unless it is disabled.
UserStep ==
  /\ program \in {"none", "running"}
  /\ \/ \E x \in Shown : ToggleState(x)
     \/ \E xs \in Selections \cup {Shown}, on \in BOOLEAN : SetEnabled(xs, on)
     \/ \E xs \in Selections, p \in 0..Size(core.list) : MovePlugins(xs, p)
     \/ \E x \in Shown, p \in 0..Size(core.list) - 1 : EditPriority(x, p)
     \/ \E xs \in Selections, by \in {-1, 1} : ShiftSelection(xs, by)
     \/ \E x \in Shown, lock \in BOOLEAN : SetLock(x, lock)
     \/ ShowTab
     \/ SaveBackup
     \/ RestoreBackup
     \/ RefreshDirectoryStructure
     \/ SortStarts
     \/ BeforeRun

\* What plugins may call at any time.
PluginStep ==
  \/ \E x \in Shown, p \in 0..Size(core.list) - 1 : SetPriority(x, p)
  \/ \E x \in Shown, on \in BOOLEAN : SetState(x, on)
  \/ \E x \in Shown : PutFirst(x)
  \/ \E x \in Switchable, on \in BOOLEAN : SwitchMod(x, on)

Background ==
  \/ DirectoryRefreshed
  \/ WriterFires

ProgramStep ==
  \/ SortEnds
  \/ Started
  \/ AfterRun
  \/ \E crash \in BOOLEAN : Restart(crash)

Next == UserStep \/ PluginStep \/ Background \/ ProgramStep

Spec == Init /\ [][Next]_vars

-----------------------------------------------------------------------------
(* Properties *)

\* The priorities are those of one order without a gap, and no plugin has two
\* rows: what m_ESPsByPriority and m_ESPsByName need after every change.
TypeOK ==
  LET list == core.list
      places == 0..Size(list) - 1
  IN /\ ToSet(list.rows) = DOMAIN list.priority
     /\ {list.priority[x] : x \in Shown} = places
     /\ Cardinality(Shown) = Size(list)
     /\ list.enabled \in [Shown -> BOOLEAN]
     /\ list.loadOrder \in [Shown -> places \cup {-1}]
     /\ OwnLocks(list.locked)
     /\ OwnFiles(core.files) /\ (OwnFiles(backup) \/ backup = NoBackup)
     /\ core.tasks \in Seq({"save", "refresh", "reload"})
     /\ core.available \cup mods \cup read \subseteq Plugins

\* What the files say of the plugins that are shown is what is shown: the order,
\* the plugins that are enabled (but for the forced ones) and the locks.
InFiles(c) ==
  LET named == ToSet(c.files.order)
      shown == Present(c.list)
  IN /\ ByPriority(c.list, named) = Among(c.files.order, shown)
     /\ \A x \in shown \ Forced : c.list.enabled[x] <=> x \in c.files.active
     /\ c.list.locked \in {c.files.locks, ReadLockedOrder(c.list, c.files.locks).locked}

\* What is shown is in the files, or a save or a new reading is on its way, unless
\* rows were moved or switched without a signal (shiftPluginsPriority, setState).
ChangesReachFiles ==
  \/ core.list = NoPlugins
  \/ InFiles(core)
  \/ core.pending
  \/ core.tasks # <<>>
  \/ core.unannounced

\* The timer, the end of an update and a change of mods leave the other plugins as
\* they were shown if they were shown as the files have them; a mod that is
\* enabled while no update goes on has its plugin enabled at once.
OthersKeepState ==
  [][LET before == core.list
         after == core'.list
         named == ToSet(core.files.order)
         switched == (mods \ mods') \cup (mods' \ mods)
         others == (Present(before) \cap Present(after)) \ (switched \cup Forced)
     IN Background \/ switched # {} =>
          /\ InFiles(core) =>
               /\ \A x \in others : after.enabled[x] = before.enabled[x]
               /\ before.locked = <<>> =>
                    ByPriority(after, others \cap named) = ByPriority(before, others \cap named)
          /\ ~core.update => \A x \in mods' \ mods : after.enabled[x]]_vars

\* A save that was put off comes first when the structure is there: it writes the
\* list from before the update, without a plugin whose mod was enabled since.
SavedUnseen(x) == x \notin Shown /\ core.tasks # <<>> /\ core.tasks[1] = "save"

\* The files only lose a plugin when its mod is disabled, when the refresher was
\* not given it, when the backup does not have it, or by SavedUnseen: an update
\* that goes on is no reason (savePluginList, saveCurrentLists).
FilesKeepPlugins ==
  [][\A x \in ToSet(core.files.order) \ ToSet(core'.files.order) :
       x \notin mods' \cap read \/ core'.files = backup \/ SavedUnseen(x)]_vars
=============================================================================
