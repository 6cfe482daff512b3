-------------------------- MODULE ConflictResolution --------------------------
(***************************************************************************)
(* What the virtual directory promises its readers (the data tab, the      *)
(* plugin list, the conflict columns): once a change of the mod list has   *)
(* settled, each file belongs to the origin that wins the conflict over it *)
(* among the game's own directory and the active mods -- a loose file      *)
(* before one in an archive, then the mod of higher priority, among        *)
(* archives the one whose plugin loads later.  How the structure gets      *)
(* there is no concern of this module.                                     *)
(***************************************************************************)
EXTENDS Integers

CONSTANTS Mods, Data, NoOrigin, Files, Noise, ArchiveOrder, Unset, Contents

VARIABLES
  content,   \* per origin, its loose files and those in its archive
  enabled,   \* the active mods
  position,  \* the place of each mod in the mod list
  settled,   \* no change of the directory is under way
  view       \* the origin each file is taken from, NoOrigin for no file

vars == <<content, enabled, position, settled, view>>

Origins == Mods \cup {Data}

Active == enabled \cup {Data}

Provides(o, f) == f \in content[o].loose \cup content[o].archived

\* The mod list counts from 0 and every mod is above the data directory.
Height(o) == IF o = Data THEN 0 ELSE position[o] + 1

LoadPosition(o) == IF o = Data \/ ArchiveOrder[o] < 0 THEN Unset ELSE ArchiveOrder[o]

\* The file f of the origin o overrides that of the origin p.
Overrides(o, p, f) ==
  LET loose(q) == f \in content[q].loose
  IN  \/ loose(o) /\ ~loose(p)
      \/ loose(o) /\ loose(p) /\ Height(o) > Height(p)
      \/ ~loose(o) /\ ~loose(p) /\ LoadPosition(o) > LoadPosition(p)

Owners(f) ==
  LET providers == {o \in Active : Provides(o, f)}
  IN  IF f \in Noise \/ providers = {} THEN {NoOrigin}
      ELSE {o \in providers : \A p \in providers : ~Overrides(p, o, f)}

Nothing == [f \in Files |-> NoOrigin]

Init ==
  /\ content \in Contents
  /\ enabled \in SUBSET Mods
  /\ position \in [Mods -> Int]
  /\ settled = FALSE
  /\ view = Nothing

\* A change of what is installed, active, or in which order.
Change ==
  /\ settled
  /\ settled' = FALSE
  /\ view' = Nothing
  /\ content' \in [Origins -> [loose : SUBSET Files, archived : SUBSET Files]]
  /\ enabled' \in SUBSET Mods
  /\ position' \in [Mods -> Int]

Settle ==
  /\ ~settled
  /\ settled' = TRUE
  /\ view' \in [Files -> Origins \cup {NoOrigin}]
  /\ \A f \in Files : view'[f] \in Owners(f)
  /\ UNCHANGED <<content, enabled, position>>

Next == Change \/ Settle

Spec == Init /\ [][Next]_vars
=============================================================================
