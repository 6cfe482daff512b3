---------------------------- MODULE ProfileOrder ----------------------------
(***************************************************************************)
(* The order of the mods in a profile: how modlist.txt is read, written    *)
(* and changed (profile.cpp, modlist.cpp, modlistviewactions.cpp).         *)
(*                                                                         *)
(* A mod is a number: ModInfo keeps its collection sorted by name, and the *)
(* numbers are the names in that order. A collection is the sorted         *)
(* sequence of the mods there are; an index is a place in it (from 1 here, *)
(* from 0 in the code). A priority counts from 0 and the highest one wins. *)
(* modlist.txt is a sequence of lines [mod, on], its winner first.         *)
(***************************************************************************)
EXTENDS Sorting

CONSTANTS
  Regular,     \* mods in the mods directory
  Separators,  \* the ones among them that only head a section of the list
  Foreign,     \* mods that Mod Organizer does not manage (DLCs)
  Backups,     \* backups of mods
  Overwrite    \* the overwrite directory

Mods == Regular \cup Foreign \cup Backups \cup {Overwrite}

ASSUME KindsAssumption ==
  /\ Mods \subseteq Nat
  /\ Separators \subseteq Regular
  /\ Regular \cap Foreign = {}
  /\ Backups \cap (Regular \cup Foreign) = {}
  /\ Overwrite \notin Regular \cup Foreign \cup Backups

HasAutomaticPriority(m) == m \in Backups \cup {Overwrite}
AlwaysEnabled(m)        == m \in Foreign \cup {Overwrite}
AlwaysDisabled(m)       == m \in Backups

\* The lines of modlist.txt; a name need not be that of a mod there is.
Lines == [mod : Nat, on : BOOLEAN]

Collection(mods) == Ascending(mods)
Index(mods, m)   == CHOOSE i \in DOMAIN mods : mods[i] = m

-----------------------------------------------------------------------------
(* Reading and writing modlist.txt *)

\* Mutant: duplicate lines are not skipped.
NamesReadAll(file) == DOMAIN file

\* The lines whose name was not read before.
NamesRead(file) == {k \in DOMAIN file : \A j \in 1..(k - 1) : file[j].mod # file[k].mod}

\* Profile::refreshModStatus: what the file says of the mods in the
\* collection. modified: the file must be written again.
RefreshModStatus(file, mods) ==
  LET all     == ToSet(mods)
      known   == {k \in NamesRead(file) :
                    file[k].mod \in all /\ ~HasAutomaticPriority(file[k].mod)}
      inFile  == {file[k].mod : k \in known}
      line(m) == CHOOSE k \in known : file[k].mod = m
      foreign == (all \cap Foreign) \ inFile
      regular == (all \cap Regular) \ inFile
      backups == all \cap Backups
      before(S, m) == Cardinality({n \in S : n < m})
      offset  == Cardinality(foreign)
      above   == offset + Cardinality(known)
      managed == above + Cardinality(regular)
      priority(m) ==
        CASE m = Overwrite -> Len(mods) - 1
          [] m \in inFile  -> offset + Cardinality({k \in known : k > line(m)})
          [] m \in foreign -> offset - 1 - before(foreign, m)
          [] m \in regular -> above + before(regular, m)
          [] m \in backups -> managed + before(backups, m)
      enabled(m) == AlwaysEnabled(m) \/ (m \in inFile /\ file[line(m)].on)
  IN [profile  |-> [status  |-> [i \in DOMAIN mods |-> [enabled  |-> enabled(mods[i]),
                                                        priority |-> priority(mods[i])]],
                    managed |-> managed],
      modified |-> \/ \E k \in DOMAIN file : \/ file[k].mod \notin all
                                             \/ HasAutomaticPriority(file[k].mod)
                   \/ foreign \cup regular \cup backups # {}]

\* The line of a mod.
Line(status, mods, i) ==
  [mod |-> mods[i], on |-> mods[i] \in Foreign \/ status[i].enabled]

\* The indices of the mods that have a line.
Listed(status, mods) == {i \in DOMAIN status : ~HasAutomaticPriority(mods[i])}

\* Mutant: the order is not inverted again.
WrittenAscending(status, mods) ==
  LET listed == Listed(status, mods)
      order  == SortedBy(listed, [i \in listed |-> status[i].priority])
  IN [k \in DOMAIN order |-> Line(status, mods, order[k])]

\* Profile::doWriteModlist: what it writes when the collection is mods.
Written(status, mods) ==
  LET listed == Listed(status, mods)
      order  == SortedBy(listed, [i \in listed |-> -status[i].priority])
  IN [k \in DOMAIN order |-> Line(status, mods, order[k])]

EnabledMods(status, mods) == {mods[i] : i \in {j \in DOMAIN mods : status[j].enabled}}

PriorityOf(status, mods, m) == status[Index(mods, m)].priority

\* The enabled mods, the winner last.
ActiveOrder(status, mods) ==
  LET enabled == EnabledMods(status, mods)
  IN SortedBy(enabled, [m \in enabled |-> PriorityOf(status, mods, m)])

\* Profile::getActiveMods.
ActiveMods(status, mods) ==
  LET order == ActiveOrder(status, mods)
  IN [k \in DOMAIN order |->
        [mod |-> order[k], priority |-> PriorityOf(status, mods, order[k])]]

-----------------------------------------------------------------------------
(* Moving mods *)

Clamp(n, low, high) == IF n < low THEN low ELSE IF n > high THEN high ELSE n

\* Profile::setModPriority. to is the new priority, which the code hands back
\* through its reference parameter.
SetModPriority(profile, mods, i, target) ==
  LET to   == Clamp(target, 0, profile.managed - 1)
      at(j) == profile.status[j].priority
      moved(j) == IF j = i THEN to
                  ELSE IF to <= at(j) /\ at(j) < at(i) THEN at(j) + 1
                  ELSE IF at(i) < at(j) /\ at(j) <= to THEN at(j) - 1 ELSE at(j)
      status == [j \in DOMAIN profile.status |->
                   [profile.status[j] EXCEPT !.priority = moved(j)]]
  IN IF HasAutomaticPriority(mods[i]) THEN [profile |-> profile, to |-> target]
     ELSE [profile |-> [profile EXCEPT !.status = status], to |-> to]

\* The mods of an order that are above the priority they are sent to, or the
\* ones below it, one after the other.
MoveEach(start, mods, order, down) ==
  LET at(state, i) == state.profile.status[i].priority
      moves(state, i) == IF down THEN at(state, i) > state.to ELSE at(state, i) < state.to
      step(state, i) == IF moves(state, i)
                        THEN SetModPriority(state.profile, mods, i, state.to) ELSE state
  IN Through(step, start, order)

\* ModList::changeModPriority of several mods: the ones that go down first, the
\* one with the highest priority before the others, then the ones that go up.
ChangeModPriority(profile, mods, indices, target) ==
  LET at(state, i) == state.profile.status[i].priority
      start   == [profile |-> profile, to |-> target]
      lowered == MoveEach(start, mods, SortedBy(indices, [i \in indices |-> -at(start, i)]), TRUE)
      below   == IF \E i \in indices : at(lowered, i) < lowered.to
                 THEN [lowered EXCEPT !.to = @ - 1] ELSE lowered
  IN MoveEach(below, mods, SortedBy(indices, [i \in indices |-> at(below, i)]), FALSE).profile

\* ModList::changeModsPriority.
ChangeModsPriority(profile, mods, indices, target) ==
  IF \E i \in indices : indices = {i}
  THEN SetModPriority(profile, mods, CHOOSE i \in indices : TRUE, target).profile
  ELSE ChangeModPriority(profile, mods, indices, target)

\* Mutant: the mods are shifted in the same order up and down.
ShiftModsPriorityUpwards(profile, mods, indices, offset) ==
  LET at(p, i) == p.status[i].priority
      shift(p, i) == SetModPriority(p, mods, i, at(p, i) + offset).profile
  IN Through(shift, profile, SortedBy(indices, [i \in indices |-> at(profile, i)]))

\* ModList::shiftModsPriority, an offset of 1 or -1.
ShiftModsPriority(profile, mods, indices, offset) ==
  LET at(p, i) == p.status[i].priority
      shift(p, i) == SetModPriority(p, mods, i, at(p, i) + offset).profile
  IN Through(shift, profile, SortedBy(indices, [i \in indices |-> -offset * at(profile, i)]))

\* Any priority that no mod has: Profile::MaximumPriority.
MaximumPriority(mods) == Len(mods) + 1

\* ModListViewActions::sendModsToSeparator, the priority it asks for. The list
\* is shown in ascending order of the priorities or in descending order. In
\* descending order and for a separator of priority 0 the search starts from an
\* iterator past the end, which any separator, or none, may come out of.
SeparatorPriorities(profile, mods, indices, separator, ascending) ==
  LET at(i)  == profile.status[i].priority
      others == {at(i) : i \in {j \in DOMAIN mods : mods[j] \in Separators}}
      above  == {p \in others : p > at(separator)}
      below  == {p \in others : p < at(separator)}
      next   == IF above = {} THEN MaximumPriority(mods)
                ELSE CHOOSE p \in above : \A q \in above : p <= q
      previous == IF below = {} THEN 0
                  ELSE 1 + CHOOSE p \in below : \A q \in below : p >= q
      found  == IF ascending THEN {next}
                ELSE IF at(separator) > 0 THEN {previous}
                ELSE {0} \cup {p + 1 : p \in others}
      single == \E i \in indices : indices = {i} /\ at(i) < at(separator)
  IN {IF single THEN p - 1 ELSE p : p \in found}

SendModsToSeparator(profile, mods, indices, separator, ascending) ==
  {ChangeModsPriority(profile, mods, indices, p) :
     p \in SeparatorPriorities(profile, mods, indices, separator, ascending)}

-----------------------------------------------------------------------------
(* What is promised. The definitions below do not follow the code. *)

Place(profile, mods, m) == PriorityOf(profile.status, mods, m)
Managed(mods) == {m \in ToSet(mods) : ~HasAutomaticPriority(m)}

\* The managed mods by ascending priority.
Order(profile, mods) ==
  SortedBy(Managed(mods), [m \in Managed(mods) |-> Place(profile, mods, m)])

\* The line of a mod, if it has one.
LineFor(file, m) == {k \in NamesRead(file) : file[k].mod = m}

\* The comment above refreshModStatus: new foreign mods first, then the mods of
\* the file, other new mods, the backups and at last the overwrite directory.
Group(file, m) ==
  CASE m \in Foreign /\ LineFor(file, m) = {}                 -> 1
    [] m \in Foreign \cup Regular /\ LineFor(file, m) # {}    -> 2
    [] m \in Regular /\ LineFor(file, m) = {}                 -> 3
    [] m \in Backups                                          -> 4
    [] m = Overwrite                                          -> 5

\* The groups follow each other with no gap, the mods of the file in its order.
\* What is written reads back the same, and a file that need not be written
\* again is in the order of the mods.
LaidOut(file, mods) ==
  LET refreshed == RefreshModStatus(file, mods)
      read  == refreshed.profile
      names == NamesRead(file)
      lines == SortedBy(names, [k \in names |-> k])
      again == RefreshModStatus(Written(read.status, mods), mods)
  IN /\ {read.status[i].priority : i \in DOMAIN mods} = 0..(Len(mods) - 1)
     /\ \A m, n \in ToSet(mods) :
          /\ Group(file, m) < Group(file, n) => Place(read, mods, m) < Place(read, mods, n)
          /\ Group(file, m) = 2 /\ Group(file, n) = 2 /\ m # n =>
               (Place(read, mods, m) < Place(read, mods, n)
                  <=> \E j \in LineFor(file, m), k \in LineFor(file, n) : k < j)
     /\ \A i \in DOMAIN mods :
          read.status[i].enabled <=>
            \/ AlwaysEnabled(mods[i])
            \/ mods[i] \in Regular /\ \E k \in LineFor(file, mods[i]) : file[k].on
     /\ again.profile.status = read.status
     /\ again.modified <=> ToSet(mods) \cap Backups # {}
     /\ ~refreshed.modified =>
          [k \in DOMAIN lines |-> file[lines[k]].mod] = Reverse(Order(read, mods))

\* Mods that are dropped keep their order, come together above the others that
\* were below the priority they are dropped on, and below the rest.
DroppedOrder(profile, mods, dropped, target) ==
  LET order == Order(profile, mods)
      below == {m \in Managed(mods) : Place(profile, mods, m) < target}
  IN Among(order, below \ dropped) \o Among(order, dropped)
       \o Among(order, Managed(mods) \ (below \cup dropped))

\* A single mod gets the priority, as far as there is one like that, and the
\* others stay as they are among each other.
PlacedOrder(profile, mods, m, target) ==
  LET others == Among(Order(profile, mods), Managed(mods) \ {m})
      k == Clamp(target, 0, Len(others))
  IN SubSeq(others, 1, k) \o <<m>> \o SubSeq(others, k + 1, Len(others))

\* The separator that heads the section of a mod.
Section(profile, mods, m, ascending) ==
  LET at(n) == Place(profile, mods, n)
      heads == {s \in ToSet(mods) \cap Separators :
                  IF ascending THEN at(s) < at(m) ELSE at(s) > at(m)}
  IN {s \in heads : \A t \in heads :
        IF ascending THEN at(t) <= at(s) ELSE at(t) >= at(s)}
=============================================================================
