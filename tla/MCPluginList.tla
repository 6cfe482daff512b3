----------------------------- MODULE MCPluginList -----------------------------
(***************************************************************************)
(* A small instance of PluginList, and the moves of PluginOrder over all   *)
(* lists of a small size.                                                  *)
(***************************************************************************)
EXTENDS PluginList, TLC

\* The plugins that the game enables itself are masters.
ASSUME InstanceAssumption == Forced \subseteq Top

MCFirstFiles ==
  {[order |-> <<1, 2, 3>>, active |-> {1, 3}, locks |-> <<>>],
   [order |-> <<1, 3, 2>>, active |-> {1, 2, 3}, locks |-> 3 :> 2]}

Free  == Plugins \ Forced
Kinds == {Forced, Top \ Forced, Plugins \ Top}

\* A list of all plugins in an order, the ones of a set enabled.
Listed(order, on) ==
  SyncLoadOrder([NoPlugins EXCEPT
    !.rows      = order,
    !.enabled   = [x \in Plugins |-> x \in on \cup Forced],
    !.priority  = Priorities(order),
    !.loadOrder = [x \in Plugins |-> -1]])

\* The orders that keep forced plugins before masters and masters before others.
Orders ==
  {order \in [1..Cardinality(Plugins) -> Plugins] :
     /\ IsInjective(order)
     /\ \A j, k \in DOMAIN order : j < k =>
          /\ order[k] \in Top => order[j] \in Top
          /\ order[k] \in Forced => order[j] \in Forced}

AllListed == {Listed(order, Plugins) : order \in Orders}

\* The places of the plugins of its kind.
Room(list, x) == {list.priority[y] : y \in UNION {kind \in Kinds : x \in kind}}

\* The nearest place to p in the room.
Nearest(room, p) == IF p < Min(room) THEN Min(room) ELSE IF p > Max(room) THEN Max(room) ELSE p

\* Any plugin sent anywhere.
Placing ==
  \A list \in AllListed, x \in Free, p \in -1..Cardinality(Plugins) :
    LET after == SetPluginPriority(list, x, p)
    IN /\ after.priority[x] = Nearest(Room(list, x), p)
       /\ ByPriority(after, Plugins \ {x}) = ByPriority(list, Plugins \ {x})

\* Any plugins of one kind dropped there or below, all from above or all from
\* below. Otherwise some of them change places: those from above come behind the
\* first one from below, and those that are dropped above their kind all go to its
\* first place, one after the other.
Dropping ==
  \A list \in AllListed, p \in 0..Cardinality(Plugins) :
    \A kind \in Kinds \ {Forced} : \A dropped \in (SUBSET kind) \ {{}} :
      LET rest  == kind \ dropped
          after == ChangePluginPriority(list, dropped, p)
          above == {x \in Plugins : list.priority[x] < p}
      IN (/\ \A x \in kind : p >= Min(Room(list, x))
          /\ dropped \subseteq above \/ dropped \cap above = {}) =>
           /\ ByPriority(after, kind) = ByPriority(list, rest \cap above)
                \o ByPriority(list, dropped) \o ByPriority(list, rest \ above)
           /\ ByPriority(after, Plugins \ kind) = ByPriority(list, Plugins \ kind)

\* Any plugins shifted by one, if there is room for all of them.
Shifting ==
  \A list \in AllListed, shifted \in SUBSET Free, by \in {-1, 1} :
    (\A x \in shifted : list.priority[x] + by \in Room(list, x)) =>
      \A x \in shifted : ShiftPlugins(list, shifted, by).priority[x] = list.priority[x] + by

\* The load orders that an enabled plugin can have.
Reachable(list, x) ==
  LET kind == UNION {k \in Kinds : x \in k}
      before == {y \in Plugins : list.enabled[y] /\
                                 \A z \in kind : list.priority[y] < list.priority[z]}
      among == {y \in kind : list.enabled[y]}
  IN Cardinality(before)..Cardinality(before) + Cardinality(among) - 1

\* One plugin that is locked gets its load order, two get theirs if none of them
\* has to go behind where it is: one that goes there pulls the other one down.
Locking ==
  \A order \in Orders, off \in Plugins, x, y \in Free :
    LET list == Listed(order, Plugins \ {off})
    IN \A forX \in Reachable(list, x), forY \in Reachable(list, y) :
         LET locks == [z \in {x, y} |-> IF z = y THEN forY ELSE forX]
             after == RefreshLoadOrder([list EXCEPT !.locked = locks]).list
         IN (/\ list.enabled[x] /\ list.enabled[y]
             /\ \/ x = y
                \/ /\ forX # forY
                   /\ \A z \in {x, y} : list.loadOrder[z] >= locks[z]) =>
            \A z \in {x, y} : after.loadOrder[z] = locks[z]

Reordering == Placing /\ Dropping /\ Shifting /\ Locking

\* The calls that move plugins do what the user means by them: a plugin stays with
\* its kind (setPluginPriority), plugins that are dropped come together in their
\* order (changePluginPriority), plugins that are shifted all move, and a plugin
\* that is locked keeps its load order (refreshLoadOrder). The formula has no
\* variables: it is asked where a behavior starts.
PluginsMoveAsAsked == commands = 0 => Reordering
=============================================================================
