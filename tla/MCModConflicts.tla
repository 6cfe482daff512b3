---------------------------- MODULE MCModConflicts ----------------------------
(***************************************************************************)
(* Small instances of ModConflicts: three mods that ship the contested     *)
(* file one way each.                                                      *)
(***************************************************************************)
EXTENDS ModConflicts, MCDirectoryStructure

Packed == [loose |-> {}, archived |-> {f}]

\* Loose files against each other, an archive below loose files, archives of
\* which two have a place in the load order, and the game's own file.
Three ==
  {a :> Packed @@ b :> Loose @@ c :> Loose @@ Data :> None,
   a :> Packed @@ b :> Loose @@ c :> Packed @@ Data :> None,
   a :> Packed @@ b :> Packed @@ c :> Packed @@ Data :> None,
   a :> Loose @@ b :> Loose @@ c :> Packed @@ Data :> Loose}

\* Two mods, for longer histories.
Two ==
  {a :> x @@ b :> None @@ c :> y @@ Data :> None :
     x \in {Noisy, Archived}, y \in {Loose, Archived}}
    \cup {a :> Noisy @@ b :> None @@ c :> Archived @@ Data :> Loose}

\* The game has the file loose, and a mod in its archive.
AboveGame == {a :> Packed @@ b :> None @@ c :> None @@ Data :> Loose}

TwoOrThree == Two \cup Three

\* Three mods are changed twice, two are changed three times; the first refresh
\* finds the mods in one order.
Bounds ==
  /\ content \in Three \/ (b \notin enabled /\ profilePriority[b] = 2)
  /\ content \in Two \/ changes <= 2
  /\ changes = 0 => profilePriority[a] < profilePriority[c]
  /\ changes = 0 /\ content \in Three => profilePriority[a] < profilePriority[b]
                                         /\ profilePriority[b] < profilePriority[c]
=============================================================================
