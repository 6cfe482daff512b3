----------------------------- MODULE ModConflicts -----------------------------
(***************************************************************************)
(* The conflict verdicts of the mods (ModInfoWithConflictInfo): which mods *)
(* a mod overrides and which override it, worked out from the virtual      *)
(* directory on first use and kept until OrganizerCore::clearCaches or     *)
(* directory_refreshed throws them away.                                   *)
(*                                                                         *)
(* The directory is the one of DirectoryStructure, its handlers ending     *)
(* with the step that settles it.  An index of a mod is the mod; Data      *)
(* stands for what ModInfo::getIndex returns for "data", UINT_MAX.         *)
(***************************************************************************)
EXTENDS DirectoryStructure, SequencesExt

VARIABLES
  conflicts,  \* m_Conflicts of each mod: the verdict kept, a set of at most one
  changed,    \* the mods the handler under way hands to clearCaches
  unnoticed   \* history: mods whose change clearCaches could not see

conflictVars == <<conflicts, changed, unnoticed>>
mcVars       == <<vars, conflictVars>>

-----------------------------------------------------------------------------
(* doConflictCheck *)

Lists ==
  {"overwrite", "overwritten", "archiveOverwrite", "archiveOverwritten",
   "archiveLooseOverwrite", "archiveLooseOverwritten"}

EntriesOf(m) == {register[i] : i \in originFiles[m]}

\* alternatives.back() is the strongest of the providers that lost.
WithoutConflict(e) == e.alternatives = <<>> \/ Last(e.alternatives).origin = Data

\* How the mod holds the file: its primary provider or its first alternative.
ProviderIn(e, m) ==
  IF e.main.origin = m THEN e.main
  ELSE e.alternatives[LeastIndex({i \in DOMAIN e.alternatives : e.alternatives[i].origin = m})]

\* The list of a mod, which holds the file as p, that the primary origin goes to.
BelowMain(e, p) ==
  IF e.main.archived THEN "archiveOverwritten"
  ELSE IF p.archived THEN "archiveLooseOverwritten" ELSE "overwritten"

\* Mutant: archives are compared by the priority of their mods.
AgainstByPriority(m, p, q) ==
  {l \in Lists :
     LET above == IF priority[m] > priority[q.origin] THEN "overwrite" ELSE "overwritten"
     IN  \/ ~p.archived /\ ~q.archived /\ l = above
         \/ p.archived /\ ~q.archived /\ l = "archiveLooseOverwritten"
         \/ ~p.archived /\ q.archived /\ l = "archiveLooseOverwrite"
         \/ p.archived /\ q.archived
              /\ l = IF above = "overwrite" THEN "archiveOverwrite" ELSE "archiveOverwritten"}

\* The lists that the origin of the alternative q goes to.
Against(m, p, q) ==
  {l \in Lists :
     \/ ~p.archived /\ ~q.archived
          /\ l = IF priority[m] > priority[q.origin] THEN "overwrite" ELSE "overwritten"
     \/ p.archived /\ ~q.archived /\ l = "archiveLooseOverwritten"
     \/ ~p.archived /\ q.archived /\ l = "archiveLooseOverwrite"
     \/ p.archived /\ q.archived /\ p.order > q.order /\ l = "archiveOverwrite"
     \/ p.archived /\ q.archived /\ p.order < q.order /\ l = "archiveOverwritten"}

\* The origins that the file e puts into the list l of the mod m.
Listed(m, e, l) ==
  LET p == ProviderIn(e, m)
  IN  IF WithoutConflict(e) THEN {}
      ELSE {o \in {e.main.origin} \ {m} : l = BelowMain(e, p)}
             \cup {q.origin : q \in {r \in Range(e.alternatives) :
                                       r.origin \notin {Data, m} /\ l \in Against(m, p, r)}}

\* The verdict on a mod.  The conflict states and flags follow from it.
DoConflictCheck(m) ==
  [lists     |-> [l \in Lists |-> UNION {Listed(m, e, l) : e \in EntriesOf(m)}],
   redundant |-> /\ originFiles[m] # {}
                 /\ \A e \in EntriesOf(m) : ~WithoutConflict(e) /\ e.main.origin # m]

InConflict(v) == UNION {v.lists[l] : l \in Lists}

-----------------------------------------------------------------------------
(* OrganizerCore::clearCaches *)

\* Mutant: a disabled mod is cleared before its verdict is read, like others.
SeenOfCleared(m) == DoConflictCheck(m)'

\* The verdict that clearCaches reads of a changed mod: a new one if the mod is
\* enabled, otherwise the one kept since before, which is only worked out, from
\* the structure without the mod, if there is none.
SeenOf(m) ==
  IF m \in enabled \/ conflicts[m] = {} THEN DoConflictCheck(m)'
  ELSE CHOOSE v \in conflicts[m] : TRUE

\* The indices whose mods clearCaches looks up and clears at last.
LookedUp == UNION {InConflict(SeenOf(m)) : m \in changed}

\* The indices come in ascending order, so UINT_MAX is the last that is looked
\* up: getByIndex throws, after every other mod was cleared.
ClearCaches ==
  conflicts' = [m \in Mods |->
                  IF m \in LookedUp \/ m \in changed \ enabled THEN {}
                  ELSE IF m \in changed THEN {SeenOf(m)}
                  ELSE conflicts[m]]

-----------------------------------------------------------------------------

ConflictInit ==
  /\ Init
  /\ conflicts = [m \in Mods |-> {}]
  /\ changed = {}
  /\ unnoticed = {}

\* The view asks a row for its flags or its markers while no handler runs.
ReadConflicts(m) ==
  /\ phase = "ready"
  /\ conflicts[m] = {}
  /\ conflicts' = [conflicts EXCEPT ![m] = {DoConflictCheck(m)}]
  /\ UNCHANGED <<vars, changed, unnoticed>>

\* Setting the moved mods aside leaves the others in the order they had.
MovesOnly(S) ==
  \A m, n \in Mods \ S :
    profilePriority[m] < profilePriority[n] <=> profilePriority'[m] < profilePriority'[n]

\* modStatusChanged and modPrioritiesChanged know which mods they are called
\* for; displayModInformation does without clearCaches.
UserActs ==
  /\ \/ \E on \in SUBSET (Mods \ enabled), off \in SUBSET enabled :
          /\ ChangeStatus(on, off)
          /\ changed' = on \cup off
          /\ UNCHANGED unnoticed
     \/ /\ ChangePriorities
        /\ \E S \in SUBSET Mods :
             /\ MovesOnly(S)
             /\ changed' = S
        /\ UNCHANGED unnoticed
     \/ \E m \in Mods :
          /\ RescanMod(m)
          /\ changed' = {}
          /\ unnoticed' = unnoticed \cup {m}
  /\ UNCHANGED conflicts

\* The end of a handler.  A mod that was switched off before its verdict was
\* read looks as if it never had a conflict.
SettleChange ==
  /\ task # "refresh"
  /\ Sort
  /\ IF task = "rescan" THEN UNCHANGED conflicts ELSE ClearCaches
  /\ changed' = {}
  /\ unnoticed' = unnoticed \cup
       {m \in changed \ enabled : task = "status" /\ conflicts[m] = {}}

\* directory_refreshed, after the new structure was swapped in.
SettleRefresh ==
  /\ Clean
  /\ conflicts' = [m \in Mods |-> {}]
  /\ unnoticed' = {}
  /\ UNCHANGED changed

\* The steps that come before the last one of a handler.
HandlerGoesOn ==
  /\ \/ \E o \in Origins : Scan(o)
     \/ DataScanned
     \/ Loaded
     \/ \E m \in Mods : AddArchive(m) \/ Drop(m)
     \/ ArchivesAdded
     \/ Dropped
     \/ task = "refresh" /\ Sort
  /\ UNCHANGED conflictVars

ConflictNext ==
  \/ HandlerGoesOn
  \/ SettleChange
  \/ SettleRefresh
  \/ UserActs
  \/ \E m \in Mods : ReadConflicts(m)

ConflictSpec == ConflictInit /\ [][ConflictNext]_mcVars

-----------------------------------------------------------------------------
(* Properties *)

\* A loose file of the game hides the archives below it from a conflict with
\* the only loose mod above it: alternatives.back() is the data directory.
Hidden(f) == f \in content[Data].loose

\* What the comments on getModOverwrite and its five companions say of the mods
\* m and n and their files on the disk.
Overrides(l, m, n, f) ==
  LET loose(o)  == f \in content[o].loose
      packed(o) == f \in content[o].archived
  IN  \/ l = "overwrite" /\ loose(m) /\ loose(n) /\ profilePriority[m] > profilePriority[n]
      \/ l = "archiveLooseOverwrite" /\ loose(m) /\ packed(n)
      \/ l = "archiveOverwrite" /\ packed(m) /\ packed(n) /\ ArchiveOrder[m] > ArchiveOrder[n]

Passive(l) ==
  CASE l = "overwrite" -> "overwritten"
    [] l = "archiveOverwrite" -> "archiveOverwritten"
    [] OTHER -> "archiveLooseOverwritten"

\* The archives of both mods have a place in the load order.  One without (-1)
\* wins in sortOrigins, while doConflictCheck takes it for the lowest.
Ranked(m, n) == ArchiveOrder[m] >= 0 /\ ArchiveOrder[n] >= 0

Active == {"overwrite", "archiveLooseOverwrite", "archiveOverwrite"}

\* In a settled structure the verdict on a mod names exactly the mods it
\* overrides by the disk, the mod list and the load order, each of those names
\* it in return, and a mod is redundant if others override all it holds.
VerdictsAreTrue ==
  (phase = "ready" /\ ~\E f \in Files \ Noise : Hidden(f)) =>
    \A m \in enabled :
      /\ \A n \in enabled \ {m} : \A l \in Active :
           (l = "archiveOverwrite" => Ranked(m, n)) =>
             LET overrides == \E f \in Files \ Noise : Overrides(l, m, n, f)
             IN  /\ overrides <=> n \in DoConflictCheck(m).lists[l]
                 /\ overrides <=> m \in DoConflictCheck(n).lists[Passive(l)]
      /\ (\A n \in enabled : Ranked(m, n)) =>
           LET held == {f \in Files \ Noise : f \in content[m].loose \cup content[m].archived}
           IN  DoConflictCheck(m).redundant <=>
                 /\ held # {}
                 /\ \A f \in held : \E n \in enabled \ {m}, l \in Active : Overrides(l, n, m, f)

\* A verdict that is kept is out of date only about mods that were edited or
\* were switched off before their verdict was read: clearCaches reaches all
\* others through the lists it reads, old or new as the case may be.
StaleOnlyAboutUnnoticed ==
  (phase = "ready" /\ ~\E f \in Files \ Noise : Hidden(f)) =>
    \A m, n \in Mods \ unnoticed : \A l \in Lists : \A v \in conflicts[m] :
      (l \in {"archiveOverwrite", "archiveOverwritten"} => Ranked(m, n)) =>
        (n \in v.lists[l] <=> n \in DoConflictCheck(m).lists[l])

\* "The maximum value is getNumMods() - 1" (modinfo.h:128): clearCaches looks up
\* indices of mods only.
LooksUpMods ==
  [][(phase = "sort" /\ phase' = "ready" /\ task # "rescan") => LookedUp \subseteq Mods]_mcVars
=============================================================================
