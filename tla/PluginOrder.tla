----------------------------- MODULE PluginOrder -----------------------------
(***************************************************************************)
(* The load order of the plugins: how PluginList (pluginlist.cpp) moves    *)
(* them, locks them and reads them from the files of the profile.          *)
(*                                                                         *)
(* A plugin is a number: the maps of PluginList are sorted by name, and    *)
(* the numbers are the names in that order. A list has                     *)
(*   rows       the plugins in the order of m_ESPs,                        *)
(*   enabled, priority, loadOrder  what ESPInfo keeps of each of them,     *)
(*   locked     m_LockedOrder, which also keeps plugins that are gone.     *)
(* Priorities count from 0; the load order counts enabled plugins only and *)
(* is -1 for the others. After each change updateIndices makes the maps    *)
(* m_ESPsByName and m_ESPsByPriority anew, so they are not kept here.      *)
(***************************************************************************)
EXTENDS Sorting

CONSTANTS
  Plugins,  \* the plugins there may be
  Forced,   \* the ones the game enables itself (forceEnabled)
  Top       \* masters and light plugins, which come before the others

ASSUME PluginAssumption ==
  /\ Plugins \subseteq Nat /\ IsFiniteSet(Plugins)
  /\ Forced \subseteq Plugins
  /\ Top \subseteq Plugins

Present(list) == DOMAIN list.priority

Size(list) == Len(list.rows)

\* m_ESPsByPriority.
At(list, p) == CHOOSE x \in Present(list) : list.priority[x] = p

\* The plugins of a set that are present, in the order of their priorities.
ByPriority(list, plugins) == SortedBy(plugins \cap Present(list), list.priority)

Order(list) == ByPriority(list, Present(list))

NoPlugins == [rows |-> <<>>, enabled |-> <<>>, priority |-> <<>>, loadOrder |-> <<>>,
              locked |-> <<>>]

\* Locks and files as the program writes them.
OwnLocks(locks) == DOMAIN locks \subseteq Plugins /\ locks \in [DOMAIN locks -> Int]

OwnFiles(files) ==
  /\ files = [order |-> files.order, active |-> files.active, locks |-> files.locks]
  /\ files.order \in Seq(Plugins) /\ IsInjective(files.order)
  /\ files.active \subseteq Plugins
  /\ OwnLocks(files.locks)

-----------------------------------------------------------------------------
(* One plugin *)

Clamped(p, n) == IF p < 0 THEN 0 ELSE IF p >= n THEN n - 1 ELSE p

\* The first place from p on, and the last one up to p, whose plugin is in a
\* set; the last place and the first if there is none.
From(list, p, plugins) ==
  Min({q \in p..Size(list) - 1 : q = Size(list) - 1 \/ At(list, q) \in plugins})
UpTo(list, p, plugins) == Max({q \in 0..p : q = 0 \/ At(list, q) \in plugins})

\* Where PluginList::setPluginPriority puts a plugin that is to go to p: masters
\* stay before the others and behind the forced ones.
Place(list, x, p) ==
  LET wanted == Clamped(p, Size(list))
  IN IF x \in Top
     THEN From(list, UpTo(list, wanted, Top), Present(list) \ Forced)
     ELSE From(list, wanted, Present(list) \ Top)

\* Mutant: the plugins in between keep their priorities.
MovedOnly(priority, x, new) == [priority EXCEPT ![x] = new]

\* The priorities with one plugin taken out of its place and put to another.
Moved(priority, x, new) ==
  LET old == priority[x]
  IN [y \in DOMAIN priority |->
        IF y = x THEN new
        ELSE IF old < priority[y] /\ priority[y] <= new THEN priority[y] - 1
        ELSE IF new <= priority[y] /\ priority[y] < old THEN priority[y] + 1
        ELSE priority[y]]

\* PluginList::setPluginPriority.
SetPluginPriority(list, x, p) ==
  [list EXCEPT !.priority = Moved(@, x, Place(list, x, p))]

-----------------------------------------------------------------------------
(* Load order and locks *)

\* PluginList::syncLoadOrder.
SyncLoadOrder(list) ==
  [list EXCEPT !.loadOrder =
     [x \in DOMAIN @ |->
        IF list.enabled[x]
        THEN Cardinality({y \in Present(list) : list.enabled[y] /\ list.priority[y] < list.priority[x]})
        ELSE -1]]

\* The plugin locked to a load order: the last one by name.
LockedTo(list, order) == Max({x \in DOMAIN list.locked : list.locked[x] = order})

\* One lock in refreshLoadOrder. The place to insert at only grows.
ApplyLock(state, order) ==
  LET list == state.list
      x == LockedTo(list, order)
      place == Min({q \in state.place..Size(list) - 1 :
                      q = Size(list) - 1 \/ list.loadOrder[At(list, q)] >= order})
  IN IF x \notin Present(list) THEN state
     ELSE IF list.priority[x] = place THEN [state EXCEPT !.place = place]
     ELSE [list |-> SyncLoadOrder(SetPluginPriority(list, x, place)),
           place |-> place, moved |-> TRUE]

\* PluginList::refreshLoadOrder. moved: the list has to be written.
RefreshLoadOrder(list) ==
  LET done == Through(ApplyLock, [list |-> SyncLoadOrder(list), place |-> 0, moved |-> FALSE],
                      Ascending(Range(list.locked)))
  IN [list |-> done.list, moved |-> done.moved]

-----------------------------------------------------------------------------
(* Several plugins *)

\* One plugin of changePluginPriority: setPluginPriority counts the target up
\* when the plugin went up, so that the next one comes behind it.
MoveNext(state, x) ==
  LET new == Place(state.list, x, state.target)
  IN [list   |-> [state.list EXCEPT !.priority = Moved(@, x, new)],
      target |-> IF new > state.list.priority[x] THEN state.target ELSE state.target + 1]

\* PluginList::changePluginPriority, before its refreshLoadOrder.
ChangePluginPriority(list, plugins, target) ==
  LET behind == {list.priority[x] + 1 : x \in Forced \cap Present(list)}
      limited == Min({Max(behind \cup {target, 0}), Size(list)})
      start == IF \E x \in plugins : list.priority[x] < limited THEN limited - 1 ELSE limited
  IN Through(MoveNext, [list |-> list, target |-> start], ByPriority(list, plugins)).list

\* One plugin of shiftPluginsPriority; one that has no room stays.
ShiftNext(list, x, by) ==
  IF list.priority[x] + by \in 0..Size(list) - 1
  THEN SetPluginPriority(list, x, list.priority[x] + by) ELSE list

\* Mutant: the plugins are shifted in the order of their priorities.
ShiftPluginsUpwards(list, plugins, by) ==
  Through(LAMBDA l, x : ShiftNext(l, x, by), list, ByPriority(list, plugins))

\* PluginList::shiftPluginsPriority, before its refreshLoadOrder.
ShiftPlugins(list, plugins, by) ==
  LET ascending == ByPriority(list, plugins)
  IN Through(LAMBDA l, x : ShiftNext(l, x, by), list,
             IF by > 0 THEN Reverse(ascending) ELSE ascending)

-----------------------------------------------------------------------------
(* Reading the list *)

\* PluginList::setLoadOrder: the plugins the file does not name follow in the
\* order of the rows.
SetLoadOrder(rows, order) ==
  Among(order, ToSet(rows)) \o Among(rows, ToSet(rows) \ ToSet(order))

\* One line of lockedorder.txt: a lock of a forced plugin is dropped, a place
\* that is forced or taken is given up for the next one that is free.
ReadLock(list, lines, x) ==
  LET order == lines[x]
      free == {q \in order..Size(list) - 1 :
                 At(list, q) \notin Forced /\ q \notin Range(list.locked)}
      place == IF x \notin Present(list) \/ order >= Size(list) THEN order
               ELSE Min(free \cup {Size(list)})
  IN IF order < 0 \/ x \in Forced \cap Present(list) THEN list
     ELSE [list EXCEPT !.locked = [y \in DOMAIN @ \cup {x} |->
                                     IF y = x THEN place ELSE @[y]]]

\* PluginList::readLockedOrderFrom.
ReadLockedOrder(list, lines) ==
  Through(LAMBDA l, x : ReadLock(l, lines, x),
          [list EXCEPT !.locked = <<>>], Ascending(DOMAIN lines))

\* The priorities of an order.
Priorities(order) == [x \in ToSet(order) |-> (CHOOSE k \in DOMAIN order : order[k] = x) - 1]

\* PluginList::refresh: plugins that are new get the last rows, in the order of
\* the files in the structure, and plugins that are gone lose theirs. The
\* priorities of fixPriorities are replaced by those of the file (the plugin of
\* the game reads it through setLoadOrder and setState), then the locks are read
\* and the load orders counted.
RefreshPlugins(list, files, available, force) ==
  LET kept == IF force THEN <<>> ELSE Among(list.rows, available)
      rows == kept \o Ascending(available \ ToSet(kept))
      read == [rows      |-> rows,
               enabled   |-> [x \in available |-> x \in files.active \cup Forced],
               priority  |-> Priorities(SetLoadOrder(rows, files.order)),
               loadOrder |-> [x \in available |-> -1],
               locked    |-> list.locked]
  IN RefreshLoadOrder(ReadLockedOrder(read, files.locks))

\* PluginList::saveTo: the plugin of the game writes order and active plugins.
SavedPlugins(list) ==
  [order  |-> Order(list),
   active |-> {x \in Present(list) : list.enabled[x]},
   locks  |-> list.locked]
=============================================================================
